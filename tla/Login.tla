------------------------------- MODULE Login -------------------------------
(***************************************************************************)
(* One login process: pairing by QR code, pairing with a Google account,   *)
(* and re-authenticating an existing login with new cookies, which falls   *)
(* back to pairing.  The process, the pairing client's long poll, the      *)
(* phone and the login being re-authenticated run concurrently.            *)
(*                                                                         *)
(* Keys are named by how they were made: "local" by NewAuthData, otherwise *)
(* by the key derivation version; "2" stands for every version the client  *)
(* does not know.  HTTP requests and requests to the phone may fail.       *)
(***************************************************************************)
EXTENDS Integers

CONSTANTS
    Flows,        \* subset of {"qr", "google", "relogin"}
    MaxAttempts   \* QR codes shown before giving up

ASSUME MaxAttemptsAssumption == MaxAttempts \in Nat \ {0}

VARIABLES
    flow,      \* the flow of this behaviour
    account,   \* whose cookies the user submits: the "same" or an "other" one's
    pc,        \* where the process is
    result,    \* "", "complete" or the error reported
    attempts,  \* QRLoginProcess.MaxAttempts
    auth,      \* AuthData of the pairing client
    sess,      \* the key derivation version of PairingSession.ServerInit
    poll,      \* the pairing client's long poll
    phone,     \* the phone: state of the pairing and its keys
    old,       \* the login being re-authenticated: cookies in memory, saved
    saved,     \* AuthData in the database for the new login
    running    \* the login's own client has been connected

loginVars == <<flow, account, pc, result, attempts, auth, sess, poll, phone, old, saved, running>>

Versions == {"0", "1", "2"}

(* A client before pairing.                                                *)
NewAuthData ==
    [token |-> "none", devices |-> FALSE, cookies |-> FALSE, DestRegID |-> FALSE,
     keys |-> "local", PairingID |-> FALSE]

NoAuth == [NewAuthData EXCEPT !.keys = "none"]

IsGoogleAccount(ad) == ad.DestRegID

HasCookies(ad) == IF ~IsGoogleAccount(ad) THEN TRUE ELSE ad.cookies

(* CreateLogin; StartWithOverride keeps an override only if that login has *)
(* a token and a Google pairing, which "relogin" stands for.               *)
LoginInit ==
    /\ flow \in Flows
    /\ account \in IF flow = "relogin" THEN {"same", "other"} ELSE {"same"}
    /\ pc = IF flow = "qr" THEN "start" ELSE "cookies"
    /\ result = "" /\ attempts = MaxAttempts
    /\ auth = NewAuthData /\ sess = "0"
    /\ poll = "none" /\ phone = [state |-> "none", keys |-> "none"]
    /\ old = [cookies |-> "old", saved |-> "old"]
    /\ saved = NoAuth /\ running = FALSE

Over == pc = "over"

(* Disconnect: a poller that is inside the pair callback stays there.      *)
Disconnected == CASE poll \in {"opening", "open"} -> "closed" [] OTHER -> poll

Fail(error) == pc' = "over" /\ result' = error

FailDisconnected(error) == Fail(error) /\ poll' = Disconnected
-----------------------------------------------------------------------------
(* The poll opens, or the server refuses it for good and doLongPoll        *)
(* returns without having called the callback (see LongPoll).              *)
PollOpens ==
    /\ poll = "opening"
    /\ poll' \in {"open", "refused"}
    /\ UNCHANGED <<flow, account, pc, result, attempts, auth, sess, phone, old, saved, running>>

(* QRLoginProcess.Start: FetchConfig and StartLogin.                       *)
StartFails ==
    /\ pc = "start"
    /\ Fail("ErrPairStartUnknown")
    /\ UNCHANGED <<flow, account, attempts, auth, sess, poll, phone, old, saved, running>>

StartLogin ==
    /\ pc = "start"
    /\ auth' = [auth EXCEPT !.token = "relay"]
    /\ poll' = "opening" /\ pc' = "shown"
    /\ UNCHANGED <<flow, account, result, attempts, sess, phone, old, saved, running>>

(* bridgev2 has shown the code and calls Wait.                             *)
WaitQR ==
    /\ pc = "shown"
    /\ pc' = "waiting"
    /\ UNCHANGED <<flow, account, result, attempts, auth, sess, poll, phone, old, saved, running>>

(* The phone scans the code (external): it has the keys of the code, and   *)
(* the server keeps the event for the poll.                                *)
PhoneScans ==
    /\ pc \in {"shown", "waiting"} /\ phone.state = "none"
    /\ phone' = [state |-> "paired", keys |-> auth.keys]
    /\ UNCHANGED <<flow, account, pc, result, attempts, auth, sess, poll, old, saved, running>>

(* completePairing, in the poller: the callback sends on a channel without *)
(* buffer, and the poller waits there until somebody receives.             *)
completePairing ==
    /\ flow = "qr" /\ poll = "open" /\ phone.state = "paired" /\ auth.token = "relay"
    /\ auth' = [auth EXCEPT !.token = "paired", !.devices = TRUE]
    /\ poll' = "blocked"
    /\ UNCHANGED <<flow, account, pc, result, attempts, sess, phone, old, saved, running>>

(* Wait: the three branches of its select.                                 *)
PairSuccess ==
    /\ pc = "waiting" /\ poll = "blocked"
    /\ poll' = "open" /\ pc' = "finish login"
    /\ UNCHANGED <<flow, account, result, attempts, auth, sess, phone, old, saved, running>>

QRNeverGivesUp ==  \* mutant: the attempts are not counted
    /\ pc = "waiting"
    /\ pc' = "shown"
    /\ UNCHANGED <<flow, account, result, attempts, auth, sess, poll, phone, old, saved, running>>

QRTimesOut ==
    /\ pc = "waiting"
    /\ attempts' = attempts - 1
    /\ \/ attempts' <= 0 /\ FailDisconnected("ErrPairQRTimeout")
       \/ attempts' > 0 /\ FailDisconnected("ErrPairQRRefreshUnknown")
       \/ attempts' > 0 /\ pc' = "shown" /\ UNCHANGED <<result, poll>>  \* RefreshPhoneRelay
    /\ UNCHANGED <<flow, account, auth, sess, phone, old, saved, running>>

WaitCancelled ==
    /\ pc = "waiting"
    /\ FailDisconnected("context canceled")
    /\ UNCHANGED <<flow, account, attempts, auth, sess, phone, old, saved, running>>

(* Cancel, called by bridgev2 between two steps.                           *)
Cancel ==
    /\ pc \in {"shown", "cookies", "emoji"}
    /\ FailDisconnected("cancelled")
    /\ UNCHANGED <<flow, account, attempts, auth, sess, phone, old, saved, running>>
-----------------------------------------------------------------------------
(* SubmitCookies with an override: the live session gets the new cookies   *)
(* before anything is known about them.                                    *)
SubmitCookies ==
    /\ pc = "cookies"
    /\ IF flow = "relogin"
       THEN pc' = "verify" /\ old' = [old EXCEPT !.cookies = "new"]
       ELSE pc' = "config" /\ UNCHANGED old
    /\ UNCHANGED <<flow, account, result, attempts, auth, sess, poll, phone, saved, running>>

(* FetchConfig, the e-mail address and Connect of the old client; when one *)
(* of them fails the session is left without cookies.                      *)
Verified == pc = "verify" /\ account = "same"

ReloginConnects ==
    /\ Verified
    /\ pc' = "save old"
    /\ UNCHANGED <<flow, account, result, attempts, auth, sess, poll, phone, old, saved, running>>

ReloginFails ==
    /\ pc = "verify"
    /\ old' = [old EXCEPT !.cookies = "none"]
    /\ pc' = "config"
    /\ UNCHANGED <<flow, account, result, attempts, auth, sess, poll, phone, saved, running>>

(* Save of the old login; its failure is returned beside the final step.   *)
ReloginSaves ==
    /\ pc = "save old"
    /\ old' \in {old, [old EXCEPT !.saved = old.cookies]}
    /\ Fail(IF old'.saved = old.cookies THEN "complete" ELSE "failed to save cookies")
    /\ UNCHANGED <<flow, account, attempts, auth, sess, poll, phone, saved, running>>

(* Any other Save of the old login, as after a token refresh, writes what  *)
(* is in memory.                                                           *)
OldSaves ==
    /\ flow = "relogin" /\ old.saved # old.cookies
    /\ old' = [old EXCEPT !.saved = old.cookies]
    /\ UNCHANGED <<flow, account, pc, result, attempts, auth, sess, poll, phone, saved, running>>
-----------------------------------------------------------------------------
(* The rest of SubmitCookies: FetchConfig of a new client ...              *)
FetchConfig ==
    /\ pc = "config"
    /\ auth' = [NewAuthData EXCEPT !.cookies = TRUE]
    /\ \/ pc' = "sign in" /\ UNCHANGED result
       \/ Fail("ErrPairStartUnknown")
    /\ UNCHANGED <<flow, account, attempts, sess, poll, phone, old, saved, running>>

(* ... and StartGaiaPairing: token and devices, the choice of the device,  *)
(* the long poll.                                                          *)
signInGaiaGetToken ==
    /\ pc = "sign in" /\ HasCookies(auth)
    /\ \/ /\ FailDisconnected("ErrPairStartUnknown") /\ UNCHANGED auth
       \/ /\ FailDisconnected("ErrPairCallerNoPermission") /\ UNCHANGED auth
       \/ /\ auth' = [auth EXCEPT !.token = "gaia", !.devices = TRUE]
          /\ FailDisconnected("ErrPairNoDevices")
       \/ /\ auth' = [auth EXCEPT !.token = "gaia", !.devices = TRUE, !.DestRegID = TRUE]
          /\ poll' = "opening" /\ pc' = "poll" /\ UNCHANGED result
    /\ UNCHANGED <<flow, account, attempts, sess, phone, old, saved, running>>

(* longPollConnectWait.Wait(): no context, no way out but the first body.  *)
FirstBody ==
    /\ pc = "poll" /\ poll = "open"
    /\ pc' = "init"
    /\ UNCHANGED <<flow, account, result, attempts, auth, sess, poll, phone, old, saved, running>>

(* The phone gets the client init and asks its user.                       *)
PhoneAsks ==
    /\ pc = "init" /\ phone.state = "none"
    /\ phone' = [state |-> "asked", keys |-> "none"]
    /\ UNCHANGED <<flow, account, pc, result, attempts, auth, sess, poll, old, saved, running>>

(* cancelGaiaPairing, sent without waiting; it may fail and is not         *)
(* repeated.                                                               *)
cancelGaiaPairing ==
    phone' \in {[phone EXCEPT !.state = "cancelled"], [phone EXCEPT !.state = "cancel lost"]}

InitFails ==
    /\ pc = "init"
    /\ \/ FailDisconnected("ErrPairPhoneNotResponding")  \* GaiaInitTimeout
       \/ FailDisconnected("ErrPairStartUnknown")  \* sending, or the caller's context
    /\ cancelGaiaPairing
    /\ UNCHANGED <<flow, account, attempts, auth, sess, old, saved, running>>

(* The server init with its key derivation and verification code versions; *)
(* ok says whether ProcessServerInit accepts its contents.                 *)
ProcessServerInit(version, code, ok) ==
    /\ pc = "init" /\ phone.state = "asked"
    /\ sess' = version
    /\ IF ok /\ code \in {"0", "1"}
       THEN pc' = "emoji" /\ UNCHANGED <<result, poll, phone>>
       ELSE FailDisconnected("ErrPairStartUnknown") /\ cancelGaiaPairing
    /\ UNCHANGED <<flow, account, attempts, auth, old, saved, running>>
-----------------------------------------------------------------------------
(* GoogleLoginProcess.Wait: FinishGaiaPairing sends the client finish.     *)
WaitGoogle ==
    /\ pc = "emoji"
    /\ pc' = "finish"
    /\ UNCHANGED <<flow, account, result, attempts, auth, sess, poll, phone, old, saved, running>>

(* The user taps the emoji, a wrong one, or refuses (external).            *)
PhoneAnswers ==
    /\ pc = "finish" /\ phone.state = "asked"
    /\ \/ phone' = [state |-> "paired", keys |-> sess]
       \/ phone' = [phone EXCEPT !.state = "refused"]
    /\ UNCHANGED <<flow, account, pc, result, attempts, auth, sess, poll, old, saved, running>>

(* The keys of AuthData for a key derivation version.                      *)
OldDerivation(version) == "0"  \* mutant: version 0 whatever was confirmed

DerivedKeys(version) == version

FinishRefused ==
    /\ pc = "finish" /\ phone.state = "refused"
    /\ \E error \in {"ErrPairIncorrectEmoji", "ErrPairCancelled", "ErrPairTimeout",
                     "ErrPairWaitUnknown"} : FailDisconnected(error)
    /\ UNCHANGED <<flow, account, attempts, auth, sess, phone, old, saved, running>>

FinishGaiaPairing ==
    /\ pc = "finish" /\ phone.state = "paired"
    /\ IF sess \in {"0", "1"}
       THEN /\ auth' = [auth EXCEPT !.keys = DerivedKeys(sess), !.PairingID = TRUE]
            /\ pc' = "finish login" /\ UNCHANGED <<result, poll>>
       ELSE FailDisconnected("ErrPairWaitUnknown") /\ UNCHANGED auth
    /\ UNCHANGED <<flow, account, attempts, sess, phone, old, saved, running>>

(* The caller's context ends: the phone is told.                           *)
FinishCancelled ==
    /\ pc = "finish"
    /\ FailDisconnected("context canceled")
    /\ cancelGaiaPairing
    /\ UNCHANGED <<flow, account, attempts, auth, sess, old, saved, running>>

(* Sending fails: the phone is not told.                                   *)
FinishNotSent ==
    /\ pc = "finish" /\ phone.state = "asked"
    /\ FailDisconnected("ErrPairWaitUnknown")
    /\ phone' = [phone EXCEPT !.state = "cancel lost"]
    /\ UNCHANGED <<flow, account, attempts, auth, sess, old, saved, running>>
-----------------------------------------------------------------------------
(* finishLogin: disconnect, look up the ID prefix and create the login; a  *)
(* login with the same ID is replaced ...                                  *)
finishLogin ==
    /\ pc = "finish login"
    /\ poll' = Disconnected
    /\ \/ Fail("failed to get login prefix") /\ UNCHANGED <<saved, old>>
       \/ Fail("failed to create login") /\ UNCHANGED <<saved, old>>
       \/ /\ saved' = auth /\ pc' = "connect" /\ UNCHANGED result
          /\ old' = IF flow = "relogin" /\ account = "same"
                    THEN [cookies |-> "new", saved |-> "new"] ELSE old
    /\ UNCHANGED <<flow, account, attempts, auth, sess, phone, running>>

(* ... and connect it, after two seconds if it was a QR code.              *)
ConnectLogin ==
    /\ pc = "connect"
    /\ Fail("complete") /\ running' = TRUE
    /\ UNCHANGED <<flow, account, attempts, auth, sess, poll, phone, old, saved>>
-----------------------------------------------------------------------------
Waits == WaitQR \/ WaitGoogle
ReloginStep == ReloginConnects \/ ReloginFails \/ ReloginSaves
StartStep ==
    \/ StartFails \/ StartLogin \/ FetchConfig \/ signInGaiaGetToken \/ FirstBody
    \/ InitFails \/ (\E v, c \in Versions, ok \in BOOLEAN : ProcessServerInit(v, c, ok))
QRStep == PairSuccess \/ QRTimesOut
FinishStep == FinishRefused \/ FinishGaiaPairing \/ finishLogin \/ ConnectLogin

LoginNext ==
    \/ Waits \/ ReloginStep \/ StartStep \/ QRStep \/ FinishStep
    \/ PollOpens \/ completePairing
    \/ PhoneScans \/ PhoneAsks \/ PhoneAnswers
    \/ SubmitCookies \/ OldSaves
    \/ WaitCancelled \/ Cancel \/ FinishCancelled \/ FinishNotSent

(* The bridge's own steps and its poll go on, and so do the timers; bridgev2*)
(* calls Wait for a step it has shown.                                     *)
LoginFairness ==
    WF_loginVars(Waits \/ ReloginStep \/ StartStep \/ QRStep \/ FinishStep \/ PollOpens)
-----------------------------------------------------------------------------
(* A login reported complete can decrypt and authenticate: its stored      *)
(* session has a token, the devices and the keys of the pairing the phone  *)
(* confirmed, whichever code or derivation version was used.               *)
CompleteIsUsable ==
    running => /\ phone.state = "paired" /\ saved.keys = phone.keys
               /\ saved.token # "none" /\ saved.devices
               /\ flow # "qr" => saved.PairingID /\ HasCookies(saved)

(* A pairing that failed on the bridge's side is not left open on the      *)
(* phone: it is cancelled, unless the message is lost or the login is      *)
(* abandoned between two steps.                                            *)
PhoneNotLeftAsking == Over /\ phone.state = "asked" => result = "cancelled"

(* When the process is over, no poll of the pairing client goes on; one is *)
(* stuck in the callback only if a phone paired that nobody waited for.    *)
NoPollLeft ==
    Over => /\ poll \notin {"opening", "open"}
            /\ poll = "blocked" => flow = "qr" /\ phone.state = "paired" /\ result # "complete"

(* An existing login keeps new cookies only if they are of its own account.*)
ReloginRightAccount == Over /\ old.cookies = "new" => account = "same"

(* Every login ends: QR codes expire, pairing requests time out.  What may *)
(* last forever is waiting for the user, and for a poll that was refused.  *)
LoginEnds ==
    (pc # "cookies") ~> (Over \/ pc = "finish" \/ (pc = "poll" /\ poll = "refused"))

(* However a login process ends, what it leaves behind is sound: a login   *)
(* that works, or no pairing open on the phone, no poll and no cookies of  *)
(* another account (Wait, Cancel, SubmitCookies, finishLogin).             *)
LoginSound == CompleteIsUsable /\ PhoneNotLeftAsking /\ NoPollLeft /\ ReloginRightAccount
============================================================================
