---------------------------- MODULE BridgeState ----------------------------
(***************************************************************************)
(* The connector's session (GMClient): what it knows about the connection, *)
(* in fields without a lock, and the bridge state it reports to the user.  *)
(* The fields are written by event handlers running in libgm's reader and  *)
(* pinger goroutines, and by goroutines the handlers start: invalidation   *)
(* of the session, the re-activation hacks, resyncs, Connect and logout.   *)
(* A method call on a nil Client or Session ends the process.              *)
(*                                                                         *)
(* The assignments a handler makes are one step and its Send another one.  *)
(* Disconnect does not stop a poller that holds no body (see LongPoll), so *)
(* events may arrive after it.  batteryLow, mobileData and the flag        *)
(* syncingMobileDatabase decide nothing here and are left out.             *)
(***************************************************************************)
EXTENDS Naturals, FiniteSets

CONSTANTS
    Tasks,                \* goroutines
    GoogleAccount,        \* Session.IsGoogleAccount()
    Scenarios,            \* the scenarios to look at, see scenario
    MaxRestarts           \* bound: restarts of the process

ASSUME BridgeStateAssumption ==
    /\ GoogleAccount \in BOOLEAN
    /\ \A s \in Scenarios : s.AggressiveReconnect \in BOOLEAN /\ s.busy \in Nat \ {0}
    /\ MaxRestarts \in Nat

VARIABLES
    gc,        \* the fields of GMClient
    Session,   \* Meta.Session: "none", "valid" or "stripped" of its cookies
    Client,    \* whether the pointer is set
    libgm,     \* whether a client with our handler polls or has polled, and
               \* CurrentSessionID(): "empty" or "current"
    db,        \* the saved Session, and whether some Save has failed
    handler,   \* what each event handler has yet to do: save, or send a state
    task,      \* goroutines: place, resync timestamp, failed attempts
    report,    \* the last Send: state asked for, state filled in; silent when
               \* a Disconnect has followed it
    told,      \* a deletion of the session was reported
    loggedOut, \* LogoutRemote has finished
    crashed,   \* the process has panicked
    restarts,
    scenario   \* what a behaviour is about, fixed by Init: the configuration's
               \* aggressive_reconnect and, as bounds, the names of the events
               \* that may occur and the goroutines under way at a time

session == <<Session, Client>>
past == <<told, loggedOut, restarts>>
vars == <<gc, session, libgm, db, handler, task, report, past, crashed>>

AggressiveReconnect == scenario.AggressiveReconnect
Events == scenario.Events

Handlers == {"reader", "pinger"}
Sessions == {"none", "valid", "stripped"}
States == {"CONNECTED", "CONNECTING", "TRANSIENT_DISCONNECT",
           "BAD_CREDENTIALS", "UNKNOWN_ERROR"}

(* lastDataReceived: the zero time, a time before data was last found      *)
(* missing, or a time after that.                                          *)
Times == {"zero", "old", "recent"}

(* Places of a goroutine.  A "delete" task is an invalidateSession with    *)
(* deleteFull, a "strip" task one without.                                 *)
Deleting == {"deleteSave", "deleteDisconnect", "deleteSend", "logoutForget"}
Syncing == {"syncFull", "syncMinimal", "syncDatabase"}
Places == Deleting \cup Syncing \cup
    {"free", "connect", "connectClient", "delete", "logout", "listing",
     "strip", "stripSave", "stripDisconnect", "stripSend",
     "hacky", "hackyCheck", "hackyActivate", "hackyRecheck",
     "hackyReset", "hackyNew", "hackyStore", "aggressive", "aggressiveActivate"}
-----------------------------------------------------------------------------
(* LoadUserLogin, after which the bridge framework calls Connect.          *)
NewGMClient ==
    [longPollingError |-> TRUE, browserInactive |-> FALSE,
     SwitchedToGoogleLogin |-> FALSE, PhoneResponding |-> TRUE, ready |-> FALSE,
     noDataReceivedRecently |-> FALSE, lastDataReceived |-> "zero",
     sessionID |-> "empty", didHackySetActive |-> FALSE,
     syncingConversations |-> FALSE]

NewLibgm == [polled |-> FALSE, sessionID |-> "empty"]
NoHandler == [h \in Handlers |-> "idle"]
Idle == [pc |-> "free", since |-> "zero", tries |-> 0]
Connecting(t) == [[u \in Tasks |-> Idle] EXCEPT ![t].pc = "connect"]

Init ==
    /\ scenario \in Scenarios
    /\ gc = NewGMClient /\ libgm = NewLibgm
    /\ Session = "valid" /\ Client = TRUE
    /\ db = [session |-> "valid", failed |-> FALSE]
    /\ handler = NoHandler
    /\ \E t \in Tasks : task = Connecting(t)
    /\ report = [asked |-> "CONNECTING", state |-> "CONNECTING", silent |-> TRUE]
    /\ told = FALSE /\ loggedOut = FALSE /\ crashed = FALSE /\ restarts = 0

(* The state a Send reports: problems take precedence in the order of the  *)
(* code, the last one first.                                               *)
FillBridgeState(asked) ==
    IF asked # "CONNECTED" THEN asked
    ELSE IF gc.browserInactive
         THEN IF AggressiveReconnect THEN "TRANSIENT_DISCONNECT" ELSE "BAD_CREDENTIALS"
    ELSE IF gc.longPollingError THEN "TRANSIENT_DISCONNECT"
    ELSE IF gc.SwitchedToGoogleLogin \/ ~gc.PhoneResponding THEN "BAD_CREDENTIALS"
    ELSE IF ~gc.ready THEN "CONNECTING"
    ELSE "CONNECTED"

Send(asked) ==
    report' = [asked |-> asked, state |-> FillBridgeState(asked), silent |-> FALSE]

SaveForgotten == UNCHANGED db  \* mutant

(* UserLogin.Save, whose failure is only logged.                           *)
Save == \/ db' = [db EXCEPT !.session = Session]
        \/ db' = [db EXCEPT !.failed = TRUE]

Disconnect ==
    /\ gc' = [gc EXCEPT !.longPollingError = TRUE, !.PhoneResponding = TRUE,
                        !.SwitchedToGoogleLogin = FALSE, !.ready = FALSE,
                        !.browserInactive = FALSE]
    /\ report' = [report EXCEPT !.silent = TRUE]

(* A panic: nothing of the process goes on.                                *)
Panic ==
    /\ crashed' = TRUE
    /\ UNCHANGED <<gc, session, libgm, db, handler, task, report, past>>

(* An ID other than the current one, now that there is a new one.          *)
Outdated == IF gc.sessionID = "empty" THEN "empty" ELSE "stale"

(* SetActiveSession of libgm starts with a new session ID.                 *)
SetActiveSession ==
    /\ libgm' = [libgm EXCEPT !.sessionID = "current"]
    /\ gc' = [gc EXCEPT !.sessionID = Outdated]

At(t, place) == ~crashed /\ task[t].pc = place
Goto(t, place) == task' = [task EXCEPT ![t].pc = place]
Free(t) == task[t].pc = "free" /\ Cardinality({u \in Tasks : task[u].pc # "free"}) < scenario.busy
Go(place) == \E t \in Tasks : Free(t) /\ Goto(t, place)
Finish(t) == task' = [task EXCEPT ![t] = Idle]
-----------------------------------------------------------------------------
(* handleGMEvent in handler h, which leaves todo to the handler.           *)
Event(h, kind, todo) ==
    /\ ~crashed /\ libgm.polled /\ kind \in Events
    /\ handler[h] = "idle" /\ handler' = [handler EXCEPT ![h] = todo]
    /\ UNCHANGED <<session, libgm, db, report, past, crashed>>

ListenFatalError ==
    /\ UNCHANGED gc
    /\ \/ Event("reader", "ListenFatalError", "idle") /\ Go("strip")
       \/ Event("reader", "ListenFatalError", "UNKNOWN_ERROR") /\ UNCHANGED task

ListenTemporaryError ==
    /\ Event("reader", "ListenTemporaryError", "TRANSIENT_DISCONNECT")
    /\ gc' = [gc EXCEPT !.longPollingError = TRUE]
    /\ UNCHANGED task

ListenRecovered ==
    /\ Event("reader", "ListenRecovered", "CONNECTED")
    /\ gc' = [gc EXCEPT !.longPollingError = FALSE]
    /\ UNCHANGED task

(* RevokePairData and GaiaLoggedOut.                                       *)
Unpaired ==
    /\ Event("reader", "Unpaired", "idle")
    /\ Go("delete")
    /\ UNCHANGED gc

PhoneNotResponding ==
    /\ Event("pinger", "PhoneNotResponding", "CONNECTED")
    /\ gc' = [gc EXCEPT !.PhoneResponding = FALSE]
    /\ UNCHANGED task

PhoneRespondsQuietly == "idle"  \* mutant: the recovery is not reported

AfterPhoneResponds == "CONNECTED"

PhoneRespondingAgain ==
    /\ Event("pinger", "PhoneRespondingAgain", AfterPhoneResponds)
    /\ gc' = [gc EXCEPT !.PhoneResponding = TRUE]
    /\ UNCHANGED task

(* A first failure that is no 404 changes nothing.                         *)
PingFailed ==
    /\ UNCHANGED gc
    /\ \/ Event("pinger", "PingFailed", "idle") /\ Go("delete")
       \/ Event("pinger", "PingFailed", "UNKNOWN_ERROR") /\ UNCHANGED task

NoDataReceived ==
    /\ Event("pinger", "NoDataReceived", "idle")
    /\ gc' = [gc EXCEPT !.noDataReceivedRecently = TRUE,
                        !.lastDataReceived = IF @ = "zero" THEN "zero" ELSE "old"]
    /\ UNCHANGED task

HackySetActiveMayFail ==
    /\ Event("pinger", "HackySetActiveMayFail", "idle")
    /\ Go("hacky")
    /\ UNCHANGED gc

(* postConnect of libgm activates the session.                             *)
PostConnect ==
    /\ ~crashed /\ libgm.polled /\ "PostConnect" \in Events
    /\ SetActiveSession
    /\ UNCHANGED <<session, db, handler, task, report, past, crashed>>

(* The goroutine of AuthTokenRefreshed only saves the login.               *)
AuthTokenRefreshed ==
    /\ ~crashed /\ (Client \/ libgm.polled) /\ "AuthTokenRefreshed" \in Events
    /\ Save
    /\ UNCHANGED <<gc, session, libgm, handler, task, report, past, crashed>>

(* Conversation and WrappedMessage.                                        *)
DataReceived ==
    /\ Event("reader", "DataReceived", "idle")
    /\ gc' = [gc EXCEPT !.noDataReceivedRecently = FALSE, !.lastDataReceived = "recent"]
    /\ UNCHANGED task

TimestampAlwaysMoves == "recent"  \* mutant

(* lastDataReceived after an alert or a settings event.                    *)
TimestampAfterAlert ==
    IF gc.noDataReceivedRecently THEN gc.lastDataReceived ELSE "recent"

(* handleSettings: settings that changed are saved and reported.           *)
Settings ==
    /\ \E todo \in {"idle", "save"} : Event("reader", "Settings", todo)
    /\ gc' = [gc EXCEPT !.lastDataReceived = TimestampAfterAlert]
    /\ UNCHANGED task

(* handleAccountChange: switched is GetEnabled() or IsFake.                *)
AccountChange(switched) ==
    /\ Event("reader", "AccountChange", "CONNECTED")
    /\ gc' = [gc EXCEPT !.SwitchedToGoogleLogin = switched, !.ready = @ \/ ~switched]
    /\ UNCHANGED task
-----------------------------------------------------------------------------
(* handleUserAlert.  Alerts about battery, mobile data and the start of a  *)
(* database sync only report.                                              *)
InfoAlert ==
    /\ Event("reader", "InfoAlert", "CONNECTED")
    /\ gc' = [gc EXCEPT !.lastDataReceived = TimestampAfterAlert]
    /\ UNCHANGED task

BrowserInactive ==
    /\ Event("reader", "BrowserInactive", "CONNECTED")
    /\ gc' = [gc EXCEPT !.lastDataReceived = TimestampAfterAlert,
                        !.browserInactive = TRUE]
    /\ IF AggressiveReconnect THEN Go("aggressive") ELSE UNCHANGED task

(* Start a resync whose argument lastDataReceived is stamp.                *)
GoSync(place, stamp) ==
    \E t \in Tasks :
        /\ Free(t)
        /\ task' = [task EXCEPT ![t].pc = place, ![t].since = stamp]

BrowserActive ==
    LET wasInactive == gc.browserInactive \/ ~gc.ready
        full == gc.sessionID # libgm.sessionID \/ wasInactive
    IN  /\ Client
        /\ Event("reader", "BrowserActive", "CONNECTED")
        /\ gc' = [gc EXCEPT !.browserInactive = FALSE, !.ready = TRUE,
                            !.sessionID = libgm.sessionID,
                            !.noDataReceivedRecently = FALSE,
                            !.lastDataReceived = "recent"]
        /\ IF full \/ gc.noDataReceivedRecently
           THEN GoSync(IF full THEN "syncFull" ELSE "syncMinimal", TimestampAfterAlert)
           ELSE UNCHANGED task

(* CurrentSessionID is called on a nil Client.                             *)
BrowserActivePanics ==
    /\ ~crashed /\ libgm.polled /\ "BrowserActive" \in Events
    /\ handler["reader"] = "idle" /\ ~Client
    /\ Panic

DatabaseSyncComplete ==
    /\ Event("reader", "DatabaseSyncComplete", "CONNECTED")
    /\ gc' = [gc EXCEPT !.lastDataReceived = TimestampAfterAlert]
    /\ GoSync("syncDatabase", TimestampAfterAlert)

HandlerSave(h) ==
    /\ ~crashed /\ handler[h] = "save"
    /\ Save
    /\ handler' = [handler EXCEPT ![h] = "CONNECTED"]
    /\ UNCHANGED <<gc, session, libgm, task, report, past, crashed>>

HandlerSend(h) ==
    /\ ~crashed /\ handler[h] \in States
    /\ Send(handler[h])
    /\ handler' = [handler EXCEPT ![h] = "idle"]
    /\ UNCHANGED <<gc, session, libgm, db, task, past, crashed>>
-----------------------------------------------------------------------------
(* SyncConversations: list the conversations, then clear the flag on every *)
(* way out.  What a full sync does with them is not part of this module.   *)
SyncStart(t) ==
    /\ ~crashed /\ task[t].pc \in Syncing /\ Client
    /\ gc' = [gc EXCEPT !.syncingConversations = TRUE]
    /\ task' = [task EXCEPT ![t].pc = "listing", ![t].since = "zero"]
    /\ UNCHANGED <<session, libgm, db, handler, report, past, crashed>>

FlagAfterSync == FALSE

SyncEnd(t) ==
    /\ At(t, "listing")
    /\ gc' = [gc EXCEPT !.syncingConversations = FlagAfterSync]
    /\ Finish(t)
    /\ UNCHANGED <<session, libgm, db, handler, report, past, crashed>>

(* aggressiveSetActive: up to three attempts, each after a sleep.          *)
AggressiveCheck(t) ==
    /\ At(t, "aggressive")
    /\ IF gc.browserInactive THEN Goto(t, "aggressiveActivate") ELSE Finish(t)
    /\ UNCHANGED <<gc, session, libgm, db, handler, report, past, crashed>>

AttemptsLeft(t) == task[t].tries < 2

AggressiveActivate(t) ==
    /\ At(t, "aggressiveActivate") /\ Client
    /\ SetActiveSession
    /\ \/ Finish(t)
       \/ /\ AttemptsLeft(t)
          /\ task' = [task EXCEPT ![t].pc = "aggressive", ![t].tries = @ + 1]
    /\ UNCHANGED <<session, db, handler, report, past, crashed>>

(* A goroutine calls a method of a nil Client, or SetCookies or            *)
(* IsGoogleAccount of a nil Session.                                       *)
NilDereference(t) ==
    /\ ~crashed
    /\ \/ ~Client /\ task[t].pc \in Syncing \cup
                        {"aggressiveActivate", "hackyActivate", "connectClient"}
       \/ Session = "none" /\ task[t].pc = "strip"
       \/ Session = "none" /\ task[t].pc = "connect" /\ Client
    /\ Panic
-----------------------------------------------------------------------------
(* invalidateSession: forget the session or only its cookies, save, reset  *)
(* the fields, drop the client, report.                                    *)
InvalidateSession(t) ==
    /\ \/ At(t, "delete") /\ Session' = "none" /\ Goto(t, "deleteSave")
       \/ /\ At(t, "strip") /\ Session # "none"
          /\ Session' = "stripped" /\ Goto(t, "stripSave")
    /\ UNCHANGED <<gc, Client, libgm, db, handler, report, past, crashed>>

InvalidateSave(t) ==
    /\ \/ At(t, "deleteSave") /\ Goto(t, "deleteDisconnect")
       \/ At(t, "stripSave") /\ Goto(t, "stripDisconnect")
    /\ Save
    /\ UNCHANGED <<gc, session, libgm, handler, report, past, crashed>>

InvalidateDisconnect(t) ==
    /\ \/ At(t, "deleteDisconnect") /\ Goto(t, "deleteSend")
       \/ At(t, "stripDisconnect") /\ Goto(t, "stripSend")
    /\ Disconnect
    /\ UNCHANGED <<session, libgm, db, handler, past, crashed>>

ClientAlwaysDropped(t) == FALSE  \* mutant
ClientAlwaysKept(t) == Client    \* mutant

ClientAfterInvalidation(t) == Client /\ task[t].pc # "deleteSend"

InvalidateSend(t) ==
    /\ At(t, "deleteSend") \/ At(t, "stripSend")
    /\ Client' = ClientAfterInvalidation(t)
    /\ told' = (told \/ task[t].pc = "deleteSend")
    /\ Send("BAD_CREDENTIALS")
    /\ Finish(t)
    /\ UNCHANGED <<gc, Session, libgm, db, handler, loggedOut, restarts, crashed>>
-----------------------------------------------------------------------------
(* hackyResetActive, once in the life of a GMClient.                       *)
HackyStart(t) ==
    /\ At(t, "hacky")
    /\ IF gc.didHackySetActive
       THEN Finish(t) /\ UNCHANGED gc
       ELSE /\ Goto(t, "hackyCheck")
            /\ gc' = [gc EXCEPT !.didHackySetActive = TRUE,
                                !.noDataReceivedRecently = FALSE,
                                !.lastDataReceived = "zero"]
    /\ UNCHANGED <<session, libgm, db, handler, report, past, crashed>>

StillNotReady == ~gc.ready /\ gc.PhoneResponding /\ Client

HackyCheck(t) ==
    /\ \/ At(t, "hackyCheck") /\ StillNotReady /\ Goto(t, "hackyActivate")
       \/ At(t, "hackyRecheck") /\ StillNotReady /\ Goto(t, "hackyReset")
       \/ (At(t, "hackyCheck") \/ At(t, "hackyRecheck")) /\ ~StillNotReady /\ Finish(t)
    /\ UNCHANGED <<gc, session, libgm, db, handler, report, past, crashed>>

HackyActivate(t) ==
    /\ At(t, "hackyActivate") /\ Client
    /\ SetActiveSession
    /\ Goto(t, "hackyRecheck")
    /\ UNCHANGED <<session, db, handler, report, past, crashed>>

(* ResetClient: events of the old client no longer reach the handler.      *)
ResetClient(t) ==
    /\ At(t, "hackyReset")
    /\ Disconnect
    /\ Client' = FALSE
    /\ libgm' = [libgm EXCEPT !.polled = @ /\ ~Client]
    /\ Goto(t, "hackyNew")
    /\ UNCHANGED <<Session, db, handler, past, crashed>>

(* NewClient reads Meta.Session and later stores a client made from it.    *)
NewClientRead(t) ==
    /\ At(t, "hackyNew")
    /\ Goto(t, IF Session = "none" THEN "connect" ELSE "hackyStore")
    /\ UNCHANGED <<gc, session, libgm, db, handler, report, past, crashed>>

NewClientStore(t) ==
    /\ At(t, "hackyStore")
    /\ Client' = TRUE
    /\ libgm' = [libgm EXCEPT !.sessionID = "empty"]
    /\ gc' = [gc EXCEPT !.sessionID = Outdated]
    /\ Goto(t, "connect")
    /\ UNCHANGED <<Session, db, handler, report, past, crashed>>
-----------------------------------------------------------------------------
NotLoggedInUnreported == UNCHANGED report  \* mutant

ReportNotLoggedIn == Send("BAD_CREDENTIALS")

(* Connect without client or cookies only reports.                         *)
CanConnect == Client /\ ~(GoogleAccount /\ Session = "stripped")

ConnectRefused(t) ==
    /\ At(t, "connect") /\ ~CanConnect
    /\ ReportNotLoggedIn
    /\ Finish(t)
    /\ UNCHANGED <<gc, session, libgm, db, handler, past, crashed>>

(* A failure to fetch the config is ignored; a config without email ends   *)
(* the session of a Google account.                                        *)
ConnectFetchConfig(t) ==
    /\ At(t, "connect") /\ CanConnect /\ Session # "none"
    /\ \/ Goto(t, "connectClient")
       \/ GoogleAccount /\ Goto(t, "strip")
    /\ UNCHANGED <<gc, session, libgm, db, handler, report, past, crashed>>

(* Client.Connect and what its errors lead to.                             *)
ConnectClient(t) ==
    /\ At(t, "connectClient") /\ Client
    /\ \/ /\ libgm' = [libgm EXCEPT !.polled = TRUE]
          /\ Finish(t) /\ UNCHANGED report
       \/ /\ \E place \in {"delete", "strip"} : Goto(t, place)
          /\ UNCHANGED <<libgm, report>>
       \/ /\ Send("UNKNOWN_ERROR")
          /\ Finish(t) /\ UNCHANGED libgm
    /\ UNCHANGED <<gc, session, db, handler, past, crashed>>

(* LogoutRemote, after which the framework deletes the saved login.        *)
LogoutCall(t) ==
    /\ ~crashed /\ Free(t) /\ ~loggedOut /\ "LogoutRemote" \in Events
    /\ \A u \in Tasks : task[u].pc \notin {"logout", "logoutForget"}
    /\ Goto(t, "logout")
    /\ UNCHANGED <<gc, session, libgm, db, handler, report, past, crashed>>

LogoutDisconnect(t) ==
    /\ At(t, "logout")
    /\ Disconnect
    /\ Session' = "none"
    /\ Goto(t, "logoutForget")
    /\ UNCHANGED <<Client, libgm, db, handler, past, crashed>>

LogoutForget(t) ==
    /\ At(t, "logoutForget")
    /\ Client' = FALSE
    /\ db' = [db EXCEPT !.session = "none"] /\ loggedOut' = TRUE
    /\ Finish(t)
    /\ UNCHANGED <<gc, Session, libgm, handler, report, told, restarts, crashed>>

(* The process is shut down or has died, and the login is loaded again.    *)
Restart ==
    /\ restarts < MaxRestarts /\ ~loggedOut
    /\ restarts' = restarts + 1
    /\ gc' = NewGMClient /\ libgm' = NewLibgm
    /\ Session' = db.session /\ Client' = (db.session # "none")
    /\ handler' = NoHandler
    /\ \E t \in Tasks : task' = Connecting(t)
    /\ report' = [report EXCEPT !.silent = TRUE]
    /\ crashed' = FALSE
    /\ UNCHANGED <<db, told, loggedOut>>
-----------------------------------------------------------------------------
ReaderEvent ==
    \/ ListenFatalError \/ ListenTemporaryError \/ ListenRecovered \/ Unpaired
    \/ DataReceived \/ Settings \/ InfoAlert \/ BrowserInactive
    \/ BrowserActive \/ BrowserActivePanics \/ DatabaseSyncComplete
    \/ \E switched \in BOOLEAN : AccountChange(switched)

PingerEvent ==
    \/ PhoneNotResponding \/ PhoneRespondingAgain \/ PingFailed
    \/ NoDataReceived \/ HackySetActiveMayFail \/ PostConnect

(* Steps of a goroutine that the phone cannot delay.                       *)
TaskStep(t) ==
    \/ SyncStart(t) \/ AggressiveCheck(t) \/ AggressiveActivate(t) \/ NilDereference(t)
    \/ InvalidateSession(t) \/ InvalidateSave(t) \/ InvalidateDisconnect(t)
    \/ InvalidateSend(t)
    \/ HackyStart(t) \/ HackyCheck(t) \/ HackyActivate(t)
    \/ ResetClient(t) \/ NewClientRead(t) \/ NewClientStore(t)
    \/ ConnectRefused(t) \/ ConnectFetchConfig(t) \/ ConnectClient(t)
    \/ LogoutDisconnect(t) \/ LogoutForget(t)

Next ==
    \/ ReaderEvent \/ PingerEvent \/ AuthTokenRefreshed \/ Restart
    \/ \E h \in Handlers : HandlerSave(h) \/ HandlerSend(h)
    \/ \E t \in Tasks : TaskStep(t) \/ SyncEnd(t) \/ LogoutCall(t)

Spec == Init /\ [][Next /\ UNCHANGED scenario]_<<vars, scenario>>

(* Goroutines run, and their sleeps and HTTP requests end.                 *)
FairSpec == Spec /\ \A t \in Tasks : WF_vars(TaskStep(t))
-----------------------------------------------------------------------------
Fields ==
    [longPollingError : BOOLEAN, browserInactive : BOOLEAN,
     SwitchedToGoogleLogin : BOOLEAN, PhoneResponding : BOOLEAN, ready : BOOLEAN,
     noDataReceivedRecently : BOOLEAN, lastDataReceived : Times,
     sessionID : {"empty", "current", "stale"},
     didHackySetActive : BOOLEAN, syncingConversations : BOOLEAN]

TypeOK ==
    /\ gc \in Fields
    /\ Session \in Sessions /\ Client \in BOOLEAN
    /\ libgm \in [polled : BOOLEAN, sessionID : {"empty", "current"}]
    /\ db \in [session : Sessions, failed : BOOLEAN]
    /\ handler \in [Handlers -> States \cup {"idle", "save"}]
    /\ task \in [Tasks -> [pc : Places, since : Times, tries : 0..2]]
    /\ report \in [asked : States, state : States, silent : BOOLEAN]
    /\ told \in BOOLEAN /\ loggedOut \in BOOLEAN /\ crashed \in BOOLEAN
    /\ restarts \in 0..MaxRestarts

(* What the user was last told agrees with the fields, whichever handlers  *)
(* and goroutines changed them in whatever order: the only exceptions are  *)
(* a handler about to send and a Disconnect not followed by any Send.      *)
ReportIsCurrent ==
    report.asked = "CONNECTED" /\ ~report.silent /\ handler = NoHandler
        => report.state = FillBridgeState("CONNECTED")

(* A resync that only compares timestamps, after data was found missing,   *)
(* uses one from before the gap ("otherwise the resync won't have the      *)
(* right timestamp", handleUserAlert).                                     *)
MinimalSyncSeesGap ==
    \A t \in Tasks : task[t].pc = "syncMinimal" => task[t].since # "recent"

(* Once invalidations and logouts have run their course, a deleted session *)
(* has no client, whatever reset was rebuilding one meanwhile: its Connect *)
(* finds the session gone and panics.                                      *)
NoZombieClient ==
    Session = "none" /\ Client
        => crashed \/ \E t \in Tasks : task[t].pc \in Deleting \cup {"connect"}

(* The process can only die of a nil pointer after the session was deleted *)
(* or the client reset: stripping cookies, resyncs and re-activation alone *)
(* never lead there.                                                       *)
CrashNeedsDeletion ==
    crashed => Session = "none" \/ gc.didHackySetActive

(* A deletion the user was told of survives crashes and restarts, unless   *)
(* saving failed (invalidateSession only logs that).                       *)
ToldIsForgotten ==
    told /\ ~db.failed => Session = "none" /\ db.session = "none"

(* MESSAGE_DELETED events are only ignored while a sync is under way, on   *)
(* whatever way SyncConversations returns.                                 *)
FlagMeansSync ==
    gc.syncingConversations => \E t \in Tasks : task[t].pc = "listing"

(* An unpaired user gets to know, also when the process is restarted       *)
(* between the deletion and the report; only a restart before the deletion *)
(* was saved brings the session back instead.                              *)
UnpairingReported ==
    Session = "none" ~> (told \/ report.asked = "BAD_CREDENTIALS"
                              \/ crashed \/ loggedOut \/ Session # "none")

(* Resyncs are sound: they compare with a time before the gap, and the     *)
(* flag that hides deletions stands only as long as one is under way       *)
(* (SyncConversations, handleUserAlert).                                   *)
ResyncSound == MinimalSyncSeesGap /\ FlagMeansSync
============================================================================
