----------------------------- MODULE TokenPush -----------------------------
(***************************************************************************)
(* The auth token of a paired client and the push registration that rides  *)
(* on its refresh.  refreshAuthToken runs in several goroutines, the long  *)
(* poll's and the one that registers a push endpoint; nothing orders them  *)
(* or their responses.  The server knows the push keys of the last refresh *)
(* that it handled, the client those it puts into the next one, the        *)
(* database those a restart begins with.                                   *)
(*                                                                         *)
(* Tokens are numbered by issue; a token is fresh until Expires.  Endpoint *)
(* "none" is the absence of keys, "" is keys with an empty URL.            *)
(***************************************************************************)
EXTENDS Integers

CONSTANTS
    Endpoints,    \* push endpoints the Matrix client registers
    MaxTokens,    \* bound: tokens issued
    MaxRestarts   \* bound: restarts and client resets

ASSUME TokenPushAssumption ==
    /\ "none" \notin Endpoints /\ "" \notin Endpoints
    /\ MaxTokens \in Nat /\ MaxRestarts \in Nat

VARIABLES
    refresher,  \* refreshAuthToken by goroutine: place, keys sent, token answered
    client,     \* Client: token, whether it is about to expire, PushKeys
    server,     \* server: last token issued, PushKeys, push enabled
    meta,       \* UserLoginMetadata.PushKeys in memory
    stored,     \* the saved login: token, PushKeys
    register,   \* RegisterPushNotifications: place, endpoint, needsUpdate
    clean,      \* the last refresh sent the wanted keys and nothing failed since
    resets

pushVars == <<refresher, client, server, meta, stored, register, clean, resets>>

Refreshers == {"poll", "push"}
URLs == Endpoints \cup {"none", ""}
IdleRefresher == [pc |-> "idle", keys |-> "none", token |-> 0]

PushInit ==
    /\ refresher = [r \in Refreshers |-> IdleRefresher]
    /\ client = [token |-> 1, expiring |-> FALSE, keys |-> "none"]
    /\ server = [token |-> 1, keys |-> "none", enabled |-> FALSE]
    /\ meta = "none"
    /\ stored = [token |-> 1, keys |-> "none"]
    /\ register = [pc |-> "idle", token |-> "none", needsUpdate |-> FALSE]
    /\ clean = TRUE /\ resets = 0

(* Less than RefreshTachyonBuffer is left of the token.                    *)
Expires ==
    /\ ~client.expiring /\ server.token < MaxTokens
    /\ client' = [client EXCEPT !.expiring = TRUE]
    /\ UNCHANGED <<refresher, server, meta, stored, register, clean, resets>>
-----------------------------------------------------------------------------
(* The keys refreshAuthToken sends: the override, else the client's.       *)
KeysToSend(override) == IF override # "none" THEN override ELSE client.keys

(* refreshAuthToken of the poll, if the token is about to expire.          *)
refreshAuthToken ==
    /\ refresher["poll"].pc = "idle" /\ client.expiring /\ server.token < MaxTokens
    /\ refresher' = [refresher EXCEPT !["poll"] =
                        [pc |-> "sent", keys |-> KeysToSend("none"), token |-> 0]]
    /\ UNCHANGED <<client, server, meta, stored, register, clean, resets>>

(* The server issues a token and remembers the keys, if there are any.     *)
ServerAnswers(r) ==
    /\ refresher[r].pc = "sent" /\ server.token < MaxTokens
    /\ server' = [server EXCEPT !.token = @ + 1,
                    !.keys = IF refresher[r].keys = "none" THEN @ ELSE refresher[r].keys]
    /\ refresher' = [refresher EXCEPT ![r].pc = "answered", ![r].token = server.token + 1]
    /\ clean' = (refresher[r].keys = IF register.pc = "idle" THEN client.keys ELSE register.token)
    /\ UNCHANGED <<client, meta, stored, register, resets>>

(* An HTTP error or no token in the response; the server may have handled  *)
(* the request.                                                            *)
RefreshFails(r) ==
    /\ refresher[r].pc \in {"sent", "answered"}
    /\ refresher' = [refresher EXCEPT ![r] = [IdleRefresher EXCEPT !.pc = "failed"]]
    /\ UNCHANGED <<client, server, meta, stored, register, clean, resets>>

(* updateTachyonAuthToken, whatever came in between, and                   *)
(* AuthTokenRefreshed, on which the connector saves the login (Saves).     *)
updateTachyonAuthToken(r) ==
    /\ refresher[r].pc = "answered"
    /\ client' = [client EXCEPT !.token = refresher[r].token, !.expiring = FALSE]
    /\ refresher' = [refresher EXCEPT ![r] = [IdleRefresher EXCEPT !.pc = "done"]]
    /\ UNCHANGED <<server, meta, stored, register, clean, resets>>

(* The poll goes on, or gives up and is started again.                     *)
PollGoesOn ==
    /\ refresher["poll"].pc \in {"done", "failed"}
    /\ refresher' = [refresher EXCEPT !["poll"] = IdleRefresher]
    /\ UNCHANGED <<client, server, meta, stored, register, clean, resets>>

Saves ==
    /\ stored' = [token |-> client.token, keys |-> meta]
    /\ UNCHANGED <<refresher, client, server, meta, register, clean, resets>>
-----------------------------------------------------------------------------
(* RegisterPushNotifications for web push: the token is set in memory      *)
(* first; RegisterPush refreshes only for a URL the client does not have.  *)
RefreshFirstOnly(url) == client.keys = "none"  \* mutant: the URL is not compared

NeedsRefresh(url) == client.keys = "none" \/ client.keys # url

RegisterPushNotifications(url) ==
    /\ register.pc = "idle" /\ server.token < MaxTokens
    /\ meta' = url
    /\ register' = [pc |-> IF NeedsRefresh(url) THEN "refresh" ELSE "settings",
                    token |-> url, needsUpdate |-> meta # url]
    /\ refresher' = IF NeedsRefresh(url)
                    THEN [refresher EXCEPT !["push"] =
                            [pc |-> "sent", keys |-> KeysToSend(url), token |-> 0]]
                    ELSE refresher
    /\ UNCHANGED <<client, server, stored, clean, resets>>

(* A failed registration forgets the endpoint in memory only.              *)
RegisterFails ==
    /\ \/ register.pc = "refresh" /\ refresher["push"].pc = "failed"
       \/ register.pc = "settings"
    /\ meta' = "" /\ clean' = FALSE
    /\ register' = [register EXCEPT !.pc = "idle"]
    /\ refresher' = [refresher EXCEPT !["push"] = IdleRefresher]
    /\ UNCHANGED <<client, server, stored, resets>>

RegisterRefreshed ==
    /\ register.pc = "refresh" /\ refresher["push"].pc = "done"
    /\ register' = [register EXCEPT !.pc = "settings"]
    /\ refresher' = [refresher EXCEPT !["push"] = IdleRefresher]
    /\ UNCHANGED <<client, server, meta, stored, clean, resets>>

(* UpdateSettings enables push on the phone; then the client keeps the     *)
(* keys ...                                                                *)
KeysKept == client' = [client EXCEPT !.keys = register.token]

UpdateSettings ==
    /\ register.pc = "settings"
    /\ server' = [server EXCEPT !.enabled = TRUE]
    /\ KeysKept
    /\ register' = [register EXCEPT !.pc = IF register.needsUpdate THEN "save" ELSE "idle"]
    /\ UNCHANGED <<refresher, meta, stored, clean, resets>>

(* ... and the login is saved; failing to is reported.                     *)
SaveAfterRegister ==
    /\ register.pc = "save"
    /\ stored' \in {stored, [token |-> client.token, keys |-> meta]}
    /\ register' = [register EXCEPT !.pc = "idle"]
    /\ UNCHANGED <<refresher, client, server, meta, clean, resets>>
-----------------------------------------------------------------------------
(* ResetClient: NewClient with the keys of the metadata in memory.  The    *)
(* old poll ends; a registration in progress keeps its old client, which   *)
(* is left out: the reset waits for it.                                    *)
ResetClient ==
    /\ resets < MaxRestarts /\ register.pc = "idle"
    /\ resets' = resets + 1
    /\ client' = [client EXCEPT !.keys = meta]
    /\ refresher' = [refresher EXCEPT !["poll"] = IdleRefresher]
    /\ UNCHANGED <<server, meta, stored, register, clean>>

(* A restart begins with what was saved.                                   *)
RestartProcess ==
    /\ resets < MaxRestarts
    /\ resets' = resets + 1 /\ clean' = FALSE
    /\ meta' = stored.keys
    /\ client' = [token |-> stored.token, expiring |-> stored.token # server.token,
                  keys |-> stored.keys]
    /\ refresher' = [r \in Refreshers |-> IdleRefresher]
    /\ register' = [register EXCEPT !.pc = "idle"]
    /\ UNCHANGED <<server, stored>>

PushNext ==
    \/ Expires \/ refreshAuthToken \/ PollGoesOn \/ Saves
    \/ \E r \in Refreshers : ServerAnswers(r) \/ RefreshFails(r) \/ updateTachyonAuthToken(r)
    \/ (\E url \in Endpoints : RegisterPushNotifications(url))
    \/ RegisterFails \/ RegisterRefreshed \/ UpdateSettings \/ SaveAfterRegister
    \/ ResetClient \/ RestartProcess
-----------------------------------------------------------------------------
(* Once a registration has succeeded the server has its endpoint, however  *)
(* it interleaved with the poll's refreshes, unless a refresh with older   *)
(* keys was handled after it or another registration failed since.         *)
PushReaches == register.pc = "idle" /\ meta \in Endpoints /\ clean => server.keys = meta

(* ... and in those cases the next refresh repairs it: the keys it will    *)
(* send are those of the endpoint the connector believes registered, also  *)
(* after a reset or a restart.                                             *)
NextRefreshRepairs == register.pc = "idle" /\ meta \in Endpoints => client.keys = meta

(* The server pushes to the endpoint that was registered, or will after    *)
(* the next refresh of the token (RegisterPushNotifications, RegisterPush, *)
(* refreshAuthToken).                                                      *)
PushRepaired == PushReaches /\ NextRefreshRepairs
============================================================================
