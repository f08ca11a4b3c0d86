------------------------- MODULE BridgeStateProofs -------------------------
(***************************************************************************)
(* Proofs about BridgeState for any number of goroutines, any scenarios    *)
(* and any number of restarts.                                             *)
(***************************************************************************)
EXTENDS BridgeState, TLAPS

LEMMA TypeInit == Init => TypeOK
<1> SUFFICES ASSUME Init PROVE TypeOK
  OBVIOUS
<1>1. gc \in Fields
  BY DEF Init, NewGMClient, Fields, Times
<1>2. task \in [Tasks -> [pc : Places, since : Times, tries : 0..2]]
  <2>1. Idle \in [pc : Places, since : Times, tries : 0..2]
    BY DEF Idle, Places, Times
  <2>2. PICK t \in Tasks : task = Connecting(t)
    BY DEF Init
  <2>3. QED
    BY <2>1, <2>2 DEF Connecting, Places
<1>3. handler \in [Handlers -> States \cup {"idle", "save"}]
  BY DEF Init, NoHandler
<1>4. restarts \in 0..MaxRestarts
  BY BridgeStateAssumption DEF Init
<1>5. report \in [asked : States, state : States, silent : BOOLEAN]
  BY DEF Init, States
<1>6. /\ libgm \in [polled : BOOLEAN, sessionID : {"empty", "current"}]
      /\ db \in [session : Sessions, failed : BOOLEAN]
  BY DEF Init, NewLibgm, Sessions
<1>7. QED
  BY <1>1, <1>2, <1>3, <1>4, <1>5, <1>6 DEF Init, TypeOK, Sessions

LEMMA FillType ==
  ASSUME NEW asked \in States
  PROVE  FillBridgeState(asked) \in States
BY DEF FillBridgeState, States

(* The moves of a goroutine keep the type of task.                         *)
TaskType == [Tasks -> [pc : Places, since : Times, tries : 0..2]]

LEMMA GotoType ==
  ASSUME task \in TaskType, NEW t \in Tasks, NEW place \in Places, Goto(t, place)
  PROVE  task' \in TaskType
BY DEF TaskType, Goto

LEMMA FinishType ==
  ASSUME task \in TaskType, NEW t \in Tasks, Finish(t)
  PROVE  task' \in TaskType
<1>1. Idle \in [pc : Places, since : Times, tries : 0..2]
  BY DEF Idle, Places, Times
<1>2. QED
  BY <1>1 DEF TaskType, Finish

LEMMA SyncType ==
  ASSUME task \in TaskType, NEW place \in Places, NEW stamp \in Times, GoSync(place, stamp)
  PROVE  task' \in TaskType
BY DEF TaskType, GoSync

LEMMA EventType ==
  ASSUME TypeOK, NEW h \in Handlers, NEW kind, NEW todo \in States \cup {"idle", "save"},
         Event(h, kind, todo), gc' \in Fields, task' \in TaskType
  PROVE  TypeOK'
BY DEF Event, TypeOK, session, past, TaskType

LEMMA SaveType ==
  ASSUME TypeOK, Save
  PROVE  db' \in [session : Sessions, failed : BOOLEAN]
BY DEF TypeOK, Save

LEMMA SendType ==
  ASSUME NEW asked \in States, Send(asked)
  PROVE  report' \in [asked : States, state : States, silent : BOOLEAN]
BY FillType DEF Send

LEMMA DisconnectType ==
  ASSUME TypeOK, Disconnect
  PROVE  /\ gc' \in Fields
         /\ report' \in [asked : States, state : States, silent : BOOLEAN]
BY DEF TypeOK, Disconnect, Fields

LEMMA ActivateType ==
  ASSUME TypeOK, SetActiveSession
  PROVE  /\ gc' \in Fields
         /\ libgm' \in [polled : BOOLEAN, sessionID : {"empty", "current"}]
BY DEF TypeOK, SetActiveSession, Outdated, Fields

LEMMA StampType == TypeOK => TimestampAfterAlert \in Times
BY DEF TypeOK, TimestampAfterAlert, Fields, Times

LEMMA ReaderTypes ==
  ASSUME TypeOK, ReaderEvent
  PROVE  TypeOK'
<1>0. gc \in Fields /\ task \in TaskType
  BY DEF TypeOK, TaskType
<1>1. CASE ListenFatalError
  <2>1. gc' \in Fields
    BY <1>0, <1>1 DEF ListenFatalError
  <2>2. CASE Event("reader", "ListenFatalError", "idle") /\ Go("strip")
    <3>1. task' \in TaskType
      BY <1>0, <2>2, GotoType DEF Go, Places
    <3>2. QED
      BY <2>1, <2>2, <3>1, EventType DEF Handlers
  <2>3. CASE Event("reader", "ListenFatalError", "UNKNOWN_ERROR") /\ UNCHANGED task
    BY <1>0, <2>1, <2>3, EventType DEF Handlers, States
  <2>4. QED
    BY <1>1, <2>2, <2>3 DEF ListenFatalError
<1>2. CASE ListenTemporaryError \/ ListenRecovered
  <2>1. gc' \in Fields /\ task' \in TaskType
    BY <1>0, <1>2 DEF ListenTemporaryError, ListenRecovered, Fields
  <2>2. QED
    BY <1>2, <2>1, EventType DEF ListenTemporaryError, ListenRecovered, Handlers, States
<1>3. CASE Unpaired
  <2>1. gc' \in Fields /\ task' \in TaskType
    BY <1>0, <1>3, GotoType DEF Unpaired, Go, Places
  <2>2. QED
    BY <1>3, <2>1, EventType DEF Unpaired, Handlers
<1>4. CASE DataReceived
  <2>1. gc' \in Fields /\ task' \in TaskType
    BY <1>0, <1>4 DEF DataReceived, Fields, Times
  <2>2. QED
    BY <1>4, <2>1, EventType DEF DataReceived, Handlers
<1>5. CASE Settings
  <2>1. gc' \in Fields /\ task' \in TaskType
    BY <1>0, <1>5, StampType DEF Settings, Fields
  <2>2. QED
    BY <1>5, <2>1, EventType DEF Settings, Handlers
<1>6. CASE InfoAlert
  <2>1. gc' \in Fields /\ task' \in TaskType
    BY <1>0, <1>6, StampType DEF InfoAlert, Fields
  <2>2. QED
    BY <1>6, <2>1, EventType DEF InfoAlert, Handlers, States
<1>7. CASE BrowserInactive
  <2>1. gc' \in Fields
    BY <1>0, <1>7, StampType DEF BrowserInactive, Fields
  <2>2. task' \in TaskType
    BY <1>0, <1>7, GotoType DEF BrowserInactive, Go, Places
  <2>3. QED
    BY <1>7, <2>1, <2>2, EventType DEF BrowserInactive, Handlers, States
<1>8. CASE BrowserActive
  <2>1. gc' \in Fields
    BY <1>0, <1>8 DEF BrowserActive, TypeOK, Fields, Times
  <2>2. task' \in TaskType
    BY <1>0, <1>8, StampType, SyncType DEF BrowserActive, Places, Syncing
  <2>3. QED
    BY <1>8, <2>1, <2>2, EventType DEF BrowserActive, Handlers, States
<1>9. CASE BrowserActivePanics
  BY <1>9 DEF BrowserActivePanics, Panic, TypeOK, session, past
<1>10. CASE DatabaseSyncComplete
  <2>1. gc' \in Fields
    BY <1>0, <1>10, StampType DEF DatabaseSyncComplete, Fields
  <2>2. task' \in TaskType
    BY <1>0, <1>10, StampType, SyncType DEF DatabaseSyncComplete, Places, Syncing
  <2>3. QED
    BY <1>10, <2>1, <2>2, EventType DEF DatabaseSyncComplete, Handlers, States
<1>11. ASSUME NEW switched \in BOOLEAN, AccountChange(switched)
       PROVE  TypeOK'
  <2>1. gc' \in Fields /\ task' \in TaskType
    BY <1>0, <1>11 DEF AccountChange, Fields
  <2>2. QED
    BY <1>11, <2>1, EventType DEF AccountChange, Handlers, States
<1>12. QED
  BY <1>1, <1>2, <1>3, <1>4, <1>5, <1>6, <1>7, <1>8, <1>9, <1>10, <1>11 DEF ReaderEvent

LEMMA PingerTypes ==
  ASSUME TypeOK, PingerEvent
  PROVE  TypeOK'
<1>0. gc \in Fields /\ task \in TaskType
  BY DEF TypeOK, TaskType
<1>1. CASE PhoneNotResponding \/ PhoneRespondingAgain
  <2>1. gc' \in Fields /\ task' \in TaskType
    BY <1>0, <1>1 DEF PhoneNotResponding, PhoneRespondingAgain, Fields
  <2>2. QED
    BY <1>1, <2>1, EventType
       DEF PhoneNotResponding, PhoneRespondingAgain, AfterPhoneResponds, Handlers, States
<1>2. CASE PingFailed
  <2>1. gc' \in Fields
    BY <1>0, <1>2 DEF PingFailed
  <2>2. CASE Event("pinger", "PingFailed", "idle") /\ Go("delete")
    <3>1. task' \in TaskType
      BY <1>0, <2>2, GotoType DEF Go, Places
    <3>2. QED
      BY <2>1, <2>2, <3>1, EventType DEF Handlers
  <2>3. CASE Event("pinger", "PingFailed", "UNKNOWN_ERROR") /\ UNCHANGED task
    BY <1>0, <2>1, <2>3, EventType DEF Handlers, States
  <2>4. QED
    BY <1>2, <2>2, <2>3 DEF PingFailed
<1>3. CASE NoDataReceived
  <2>1. gc' \in Fields /\ task' \in TaskType
    BY <1>0, <1>3 DEF NoDataReceived, Fields, Times
  <2>2. QED
    BY <1>3, <2>1, EventType DEF NoDataReceived, Handlers
<1>4. CASE HackySetActiveMayFail
  <2>1. gc' \in Fields /\ task' \in TaskType
    BY <1>0, <1>4, GotoType DEF HackySetActiveMayFail, Go, Places
  <2>2. QED
    BY <1>4, <2>1, EventType DEF HackySetActiveMayFail, Handlers
<1>5. CASE PostConnect
  BY <1>5, ActivateType DEF PostConnect, TypeOK, session, past
<1>6. QED
  BY <1>1, <1>2, <1>3, <1>4, <1>5 DEF PingerEvent

LEMMA InvalidateTypes ==
  ASSUME TypeOK, NEW t \in Tasks,
         \/ InvalidateSession(t) \/ InvalidateSave(t) \/ InvalidateDisconnect(t)
         \/ InvalidateSend(t) \/ LogoutDisconnect(t) \/ LogoutForget(t)
  PROVE  TypeOK'
<1>0. task \in TaskType
  BY DEF TypeOK, TaskType
<1>1. task' \in TaskType
  BY <1>0, GotoType, FinishType
     DEF InvalidateSession, InvalidateSave, InvalidateDisconnect, InvalidateSend,
         LogoutDisconnect, LogoutForget, Places, Deleting
<1>2. CASE InvalidateSession(t)
  BY <1>1, <1>2 DEF InvalidateSession, TypeOK, TaskType, Sessions, past
<1>3. CASE InvalidateSave(t)
  BY <1>1, <1>3, SaveType DEF InvalidateSave, TypeOK, TaskType, session, past
<1>4. CASE InvalidateDisconnect(t)
  BY <1>1, <1>4, DisconnectType DEF InvalidateDisconnect, TypeOK, TaskType, session, past
<1>5. CASE InvalidateSend(t)
  <2>1. report' \in [asked : States, state : States, silent : BOOLEAN]
    BY <1>5, SendType DEF InvalidateSend, States
  <2>2. Client' \in BOOLEAN /\ told' \in BOOLEAN
    BY <1>5 DEF InvalidateSend, ClientAfterInvalidation
  <2>3. QED
    BY <1>1, <1>5, <2>1, <2>2 DEF InvalidateSend, TypeOK, TaskType
<1>6. CASE LogoutDisconnect(t)
  BY <1>1, <1>6, DisconnectType DEF LogoutDisconnect, TypeOK, TaskType, Sessions, past
<1>7. CASE LogoutForget(t)
  BY <1>1, <1>7 DEF LogoutForget, TypeOK, TaskType, Sessions
<1>8. QED
  BY <1>2, <1>3, <1>4, <1>5, <1>6, <1>7

LEMMA SyncTypes ==
  ASSUME TypeOK, NEW t \in Tasks,
         \/ SyncStart(t) \/ SyncEnd(t) \/ AggressiveCheck(t) \/ AggressiveActivate(t)
         \/ NilDereference(t)
  PROVE  TypeOK'
<1>0. task \in TaskType /\ gc \in Fields
  BY DEF TypeOK, TaskType
<1>1. CASE SyncStart(t)
  <2>1. task' \in TaskType
    <3>1. "listing" \in Places /\ "zero" \in Times
      BY DEF Places, Times
    <3>2. QED
      BY <1>0, <1>1, <3>1 DEF SyncStart, TaskType
  <2>2. gc' \in Fields
    BY <1>0, <1>1 DEF SyncStart, Fields
  <2>3. QED
    BY <1>1, <2>1, <2>2 DEF SyncStart, TypeOK, TaskType, session, past
<1>2. CASE SyncEnd(t)
  <2>1. task' \in TaskType
    BY <1>0, <1>2, FinishType DEF SyncEnd
  <2>2. gc' \in Fields
    BY <1>0, <1>2 DEF SyncEnd, FlagAfterSync, Fields
  <2>3. QED
    BY <1>2, <2>1, <2>2 DEF SyncEnd, TypeOK, TaskType, session, past
<1>3. CASE AggressiveCheck(t)
  <2>1. task' \in TaskType
    BY <1>0, <1>3, FinishType, GotoType DEF AggressiveCheck, Places
  <2>2. QED
    BY <1>3, <2>1 DEF AggressiveCheck, TypeOK, TaskType, session, past
<1>4. CASE AggressiveActivate(t)
  <2>1. task' \in TaskType
    <3>1. CASE Finish(t)
      BY <1>0, <3>1, FinishType
    <3>2. CASE AttemptsLeft(t) /\ task' = [task EXCEPT ![t].pc = "aggressive", ![t].tries = @ + 1]
      <4>1. task[t].tries + 1 \in 0..2
        BY <1>0, <3>2 DEF AttemptsLeft, TaskType
      <4>2. QED
        BY <1>0, <3>2, <4>1 DEF TaskType, Places
    <3>3. QED
      BY <1>4, <3>1, <3>2 DEF AggressiveActivate
  <2>2. QED
    BY <1>4, <2>1, ActivateType DEF AggressiveActivate, TypeOK, TaskType, session, past
<1>5. CASE NilDereference(t)
  BY <1>5 DEF NilDereference, Panic, TypeOK, session, past
<1>6. QED
  BY <1>1, <1>2, <1>3, <1>4, <1>5

LEMMA ConnectTypes ==
  ASSUME TypeOK, NEW t \in Tasks,
         \/ HackyStart(t) \/ HackyCheck(t) \/ HackyActivate(t)
         \/ ResetClient(t) \/ NewClientRead(t) \/ NewClientStore(t)
         \/ ConnectRefused(t) \/ ConnectFetchConfig(t) \/ ConnectClient(t) \/ LogoutCall(t)
  PROVE  TypeOK'
<1>0. task \in TaskType /\ gc \in Fields
  BY DEF TypeOK, TaskType
<1>1. task' \in TaskType
  BY <1>0, GotoType, FinishType
     DEF HackyStart, HackyCheck, HackyActivate, ResetClient, NewClientRead, NewClientStore,
         ConnectRefused, ConnectFetchConfig, ConnectClient, LogoutCall, Places
<1>2. CASE HackyStart(t)
  <2>1. gc' \in Fields
    BY <1>0, <1>2 DEF HackyStart, Fields, Times
  <2>2. QED
    BY <1>1, <1>2, <2>1 DEF HackyStart, TypeOK, TaskType, session, past
<1>3. CASE HackyCheck(t) \/ NewClientRead(t) \/ ConnectFetchConfig(t) \/ LogoutCall(t)
  BY <1>1, <1>3
     DEF HackyCheck, NewClientRead, ConnectFetchConfig, LogoutCall, TypeOK, TaskType, session, past
<1>4. CASE HackyActivate(t)
  BY <1>1, <1>4, ActivateType DEF HackyActivate, TypeOK, TaskType, session, past
<1>5. CASE ResetClient(t)
  BY <1>1, <1>5, DisconnectType DEF ResetClient, TypeOK, TaskType, past
<1>6. CASE NewClientStore(t)
  <2>1. gc' \in Fields
    BY <1>0, <1>6 DEF NewClientStore, Outdated, Fields
  <2>2. QED
    BY <1>1, <1>6, <2>1 DEF NewClientStore, TypeOK, TaskType, past
<1>7. CASE ConnectRefused(t)
  BY <1>1, <1>7, SendType
     DEF ConnectRefused, ReportNotLoggedIn, TypeOK, TaskType, States, session, past
<1>8. CASE ConnectClient(t)
  <2>1. report' \in [asked : States, state : States, silent : BOOLEAN]
    BY <1>8, SendType DEF ConnectClient, TypeOK, States
  <2>2. libgm' \in [polled : BOOLEAN, sessionID : {"empty", "current"}]
    BY <1>8 DEF ConnectClient, TypeOK
  <2>3. QED
    BY <1>1, <1>8, <2>1, <2>2 DEF ConnectClient, TypeOK, TaskType, session, past
<1>9. QED
  BY <1>2, <1>3, <1>4, <1>5, <1>6, <1>7, <1>8

LEMMA TypeStep ==
  ASSUME TypeOK, [Next]_vars
  PROVE  TypeOK'
<1>1. CASE UNCHANGED vars
  BY <1>1 DEF vars, TypeOK, session, past
<1>2. CASE AuthTokenRefreshed
  BY <1>2, SaveType DEF AuthTokenRefreshed, TypeOK, session, past
<1>3. CASE Restart
  <2>1. gc' \in Fields
    BY <1>3 DEF Restart, NewGMClient, Fields, Times
  <2>2. task' \in TaskType
    <3>1. Idle \in [pc : Places, since : Times, tries : 0..2]
      BY DEF Idle, Places, Times
    <3>2. PICK t \in Tasks : task' = Connecting(t)
      BY <1>3 DEF Restart
    <3>3. QED
      BY <3>1, <3>2 DEF Connecting, Places, TaskType
  <2>3. handler' \in [Handlers -> States \cup {"idle", "save"}]
    BY <1>3 DEF Restart, NoHandler
  <2>4. restarts' \in 0..MaxRestarts
    BY <1>3, BridgeStateAssumption DEF Restart, TypeOK
  <2>5. report' \in [asked : States, state : States, silent : BOOLEAN]
    BY <1>3 DEF Restart, TypeOK
  <2>6. /\ libgm' \in [polled : BOOLEAN, sessionID : {"empty", "current"}]
        /\ Session' \in Sessions /\ Client' \in BOOLEAN
    BY <1>3 DEF Restart, NewLibgm, TypeOK
  <2>7. QED
    BY <1>3, <2>1, <2>2, <2>3, <2>4, <2>5, <2>6 DEF Restart, TypeOK, TaskType
<1>4. ASSUME NEW h \in Handlers, HandlerSave(h)
      PROVE  TypeOK'
  BY <1>4, SaveType DEF HandlerSave, TypeOK, States, session, past
<1>5. ASSUME NEW h \in Handlers, HandlerSend(h)
      PROVE  TypeOK'
  BY <1>5, SendType DEF HandlerSend, TypeOK, session, past
<1>6. QED
  BY <1>1, <1>2, <1>3, <1>4, <1>5, ReaderTypes, PingerTypes, InvalidateTypes, SyncTypes, ConnectTypes
     DEF Next, TaskStep

(* The session's fields, its goroutines and reports keep their types.      *)
THEOREM TypeCorrect == Spec => []TypeOK
<1>1. TypeOK /\ [Next /\ UNCHANGED scenario]_<<vars, scenario>> => TypeOK'
  BY TypeStep
<1>2. QED
  BY <1>1, TypeInit, PTL DEF Spec

(* What the user is told only changes with a Send, which makes it current, *)
(* and a field it depends on only changes in a handler that has yet to     *)
(* send, or in Disconnect.                                                 *)
Reported == <<gc.browserInactive, gc.longPollingError, gc.SwitchedToGoogleLogin,
              gc.PhoneResponding, gc.ready>>

LEMMA StillCurrent ==
  ASSUME ReportIsCurrent, UNCHANGED <<Reported, scenario, report, handler>>
  PROVE  ReportIsCurrent'
BY DEF ReportIsCurrent, Reported, FillBridgeState, AggressiveReconnect

LEMMA SentIsCurrent ==
  ASSUME NEW asked \in States, Send(asked), UNCHANGED <<gc, scenario>>
  PROVE  ReportIsCurrent'
BY DEF ReportIsCurrent, Send, FillBridgeState, AggressiveReconnect

LEMMA HandlerWillSend ==
  ASSUME TypeOK, NEW h \in Handlers, NEW kind, NEW todo, todo # "idle", Event(h, kind, todo)
  PROVE  ReportIsCurrent'
<1>1. handler'[h] # NoHandler[h]
  BY DEF TypeOK, Event, NoHandler
<1>2. QED
  BY <1>1 DEF ReportIsCurrent

LEMMA HandlerDone ==
  ASSUME TypeOK, NEW h \in Handlers, NEW kind, Event(h, kind, "idle")
  PROVE  UNCHANGED <<handler, report>>
BY DEF TypeOK, Event

LEMMA SilentIsCurrent ==
  ASSUME report'.silent
  PROVE  ReportIsCurrent'
BY DEF ReportIsCurrent

LEMMA CurrentEvent ==
  ASSUME TypeOK, ReportIsCurrent, ReaderEvent \/ PingerEvent, UNCHANGED scenario
  PROVE  ReportIsCurrent'
<1>0. gc \in Fields
  BY DEF TypeOK
<1>1. CASE \/ ListenTemporaryError \/ ListenRecovered \/ InfoAlert \/ BrowserInactive
           \/ BrowserActive \/ DatabaseSyncComplete \/ PhoneNotResponding \/ PhoneRespondingAgain
  BY <1>1, HandlerWillSend
     DEF ListenTemporaryError, ListenRecovered, InfoAlert, BrowserInactive, BrowserActive,
         DatabaseSyncComplete, PhoneNotResponding, PhoneRespondingAgain, AfterPhoneResponds, Handlers
<1>2. ASSUME NEW switched \in BOOLEAN, AccountChange(switched)
      PROVE  ReportIsCurrent'
  BY <1>2, HandlerWillSend DEF AccountChange, Handlers
<1>3. CASE ListenFatalError \/ PingFailed
  BY <1>3, HandlerWillSend, HandlerDone, StillCurrent
     DEF ListenFatalError, PingFailed, Handlers, Reported
<1>4. CASE Unpaired \/ HackySetActiveMayFail
  BY <1>4, HandlerDone, StillCurrent DEF Unpaired, HackySetActiveMayFail, Handlers, Reported
<1>5. CASE DataReceived \/ NoDataReceived
  <2>1. UNCHANGED Reported
    BY <1>0, <1>5 DEF DataReceived, NoDataReceived, Reported, Fields
  <2>2. QED
    BY <1>5, <2>1, HandlerDone, StillCurrent DEF DataReceived, NoDataReceived, Handlers
<1>6. CASE Settings
  <2>1. UNCHANGED Reported
    BY <1>0, <1>6 DEF Settings, Reported, Fields
  <2>2. QED
    BY <1>6, <2>1, HandlerDone, HandlerWillSend, StillCurrent DEF Settings, Handlers
<1>7. CASE BrowserActivePanics
  BY <1>7, StillCurrent DEF BrowserActivePanics, Panic, Reported
<1>8. CASE PostConnect
  <2>1. UNCHANGED Reported
    BY <1>0, <1>8 DEF PostConnect, SetActiveSession, Reported, Fields
  <2>2. QED
    BY <1>8, <2>1, StillCurrent DEF PostConnect
<1>9. QED
  BY <1>1, <1>2, <1>3, <1>4, <1>5, <1>6, <1>7, <1>8 DEF ReaderEvent, PingerEvent

LEMMA CurrentTask ==
  ASSUME TypeOK, ReportIsCurrent, NEW t \in Tasks,
         TaskStep(t) \/ SyncEnd(t) \/ LogoutCall(t), UNCHANGED scenario
  PROVE  ReportIsCurrent'
<1>0. gc \in Fields /\ report \in [asked : States, state : States, silent : BOOLEAN]
  BY DEF TypeOK
<1>1. CASE \/ InvalidateDisconnect(t) \/ ResetClient(t) \/ LogoutDisconnect(t)
  BY <1>0, <1>1, SilentIsCurrent
     DEF InvalidateDisconnect, ResetClient, LogoutDisconnect, Disconnect
<1>2. CASE InvalidateSend(t) \/ ConnectRefused(t)
  BY <1>2, SentIsCurrent DEF InvalidateSend, ConnectRefused, ReportNotLoggedIn, States
<1>3. CASE ConnectClient(t)
  BY <1>3, SentIsCurrent, StillCurrent DEF ConnectClient, Reported, States
<1>4. CASE \/ SyncStart(t) \/ SyncEnd(t) \/ HackyStart(t) \/ NewClientStore(t)
           \/ AggressiveActivate(t) \/ HackyActivate(t)
  <2>1. UNCHANGED Reported
    BY <1>0, <1>4
       DEF SyncStart, SyncEnd, HackyStart, NewClientStore, AggressiveActivate, HackyActivate,
           SetActiveSession, Reported, Fields
  <2>2. QED
    BY <1>4, <2>1, StillCurrent
       DEF SyncStart, SyncEnd, HackyStart, NewClientStore, AggressiveActivate, HackyActivate
<1>5. CASE \/ AggressiveCheck(t) \/ NilDereference(t) \/ InvalidateSession(t) \/ InvalidateSave(t)
           \/ HackyCheck(t) \/ NewClientRead(t) \/ ConnectFetchConfig(t) \/ LogoutForget(t)
           \/ LogoutCall(t)
  BY <1>5, StillCurrent
     DEF AggressiveCheck, NilDereference, Panic, InvalidateSession, InvalidateSave, HackyCheck,
         NewClientRead, ConnectFetchConfig, LogoutForget, LogoutCall, Reported
<1>6. QED
  BY <1>1, <1>2, <1>3, <1>4, <1>5 DEF TaskStep

(* What the user was last told agrees with the fields of the session,      *)
(* whichever goroutines and handlers run and however they interleave       *)
(* (handleGMEvent, FillBridgeState, Disconnect).                           *)
THEOREM ReportIsCurrentThm == Spec => []ReportIsCurrent
<1>1. Init => ReportIsCurrent
  BY DEF Init, ReportIsCurrent
<1>2. TypeOK /\ ReportIsCurrent /\ [Next /\ UNCHANGED scenario]_<<vars, scenario>>
        => ReportIsCurrent'
  <2> SUFFICES ASSUME TypeOK, ReportIsCurrent, [Next /\ UNCHANGED scenario]_<<vars, scenario>>
               PROVE  ReportIsCurrent'
    OBVIOUS
  <2>0. UNCHANGED scenario
    OBVIOUS
  <2>1. CASE UNCHANGED vars
    BY <2>0, <2>1, StillCurrent DEF vars, Reported
  <2>2. CASE AuthTokenRefreshed
    BY <2>0, <2>2, StillCurrent DEF AuthTokenRefreshed, Reported
  <2>3. CASE Restart
    BY <2>3, SilentIsCurrent DEF Restart, TypeOK
  <2>4. ASSUME NEW h \in Handlers, HandlerSave(h)
        PROVE  ReportIsCurrent'
    <3>1. handler'[h] # NoHandler[h]
      BY <2>4 DEF TypeOK, HandlerSave, NoHandler
    <3>2. QED
      BY <3>1 DEF ReportIsCurrent
  <2>5. ASSUME NEW h \in Handlers, HandlerSend(h)
        PROVE  ReportIsCurrent'
    BY <2>0, <2>5, SentIsCurrent DEF HandlerSend
  <2>6. QED
    BY <2>0, <2>1, <2>2, <2>3, <2>4, <2>5, CurrentEvent, CurrentTask DEF Next
<1>3. QED
  BY <1>1, <1>2, TypeCorrect, PTL DEF Spec

-----------------------------------------------------------------------------
(* Resyncs: while data is missing, the stamp is from before the gap.       *)
GapInv == gc.noDataReceivedRecently => gc.lastDataReceived # "recent"

(* A step that starts no minimal sync and ends no listing ...              *)
Resync == <<gc.noDataReceivedRecently, gc.lastDataReceived, gc.syncingConversations>>

KeepsSyncs ==
    \A t \in Tasks :
        /\ task'[t].pc = "syncMinimal" => task[t].pc = "syncMinimal" /\ task'[t].since = task[t].since
        /\ task[t].pc = "listing" => task'[t].pc = "listing"

(* ... and leaves the three fields alone keeps resyncs sound.              *)
LEMMA ResyncKept ==
  ASSUME GapInv, ResyncSound, KeepsSyncs, UNCHANGED Resync
  PROVE  GapInv' /\ ResyncSound'
BY DEF GapInv, ResyncSound, MinimalSyncSeesGap, FlagMeansSync, KeepsSyncs, Resync

LEMMA GotoKeeps ==
  ASSUME task \in TaskType, NEW t \in Tasks, task[t].pc # "listing",
         NEW place, place # "syncMinimal", Goto(t, place)
  PROVE  KeepsSyncs
BY DEF TaskType, Goto, KeepsSyncs

LEMMA FinishKeeps ==
  ASSUME task \in TaskType, NEW t \in Tasks, task[t].pc # "listing", Finish(t)
  PROVE  KeepsSyncs
BY DEF TaskType, Finish, Idle, KeepsSyncs

LEMMA ResyncEvent ==
  ASSUME TypeOK, GapInv, ResyncSound, ReaderEvent \/ PingerEvent
  PROVE  GapInv' /\ ResyncSound'
<1>0. gc \in Fields /\ task \in TaskType
  BY DEF TypeOK, TaskType
<1>1. ASSUME UNCHANGED task
      PROVE  KeepsSyncs
  BY <1>1 DEF KeepsSyncs
<1>2. ASSUME NEW place \in {"strip", "delete", "hacky", "aggressive"}, Go(place)
      PROVE  KeepsSyncs
  BY <1>0, <1>2, GotoKeeps DEF Go, Free
<1>3. CASE ListenFatalError \/ Unpaired \/ PingFailed \/ HackySetActiveMayFail
  BY <1>1, <1>2, <1>3, ResyncKept
     DEF ListenFatalError, Unpaired, PingFailed, HackySetActiveMayFail, Resync
<1>4. CASE ListenTemporaryError \/ ListenRecovered \/ PhoneNotResponding \/ PhoneRespondingAgain
  <2>1. UNCHANGED Resync
    BY <1>0, <1>4
       DEF ListenTemporaryError, ListenRecovered, PhoneNotResponding, PhoneRespondingAgain, Resync, Fields
  <2>2. QED
    BY <1>1, <1>4, <2>1, ResyncKept
       DEF ListenTemporaryError, ListenRecovered, PhoneNotResponding, PhoneRespondingAgain
<1>5. ASSUME NEW switched \in BOOLEAN, AccountChange(switched)
      PROVE  GapInv' /\ ResyncSound'
  <2>1. UNCHANGED Resync
    BY <1>0, <1>5 DEF AccountChange, Resync, Fields
  <2>2. QED
    BY <1>1, <1>5, <2>1, ResyncKept DEF AccountChange
<1>6. ASSUME KeepsSyncs, GapInv', UNCHANGED gc.syncingConversations
      PROVE  GapInv' /\ ResyncSound'
  BY <1>6 DEF KeepsSyncs, ResyncSound, MinimalSyncSeesGap, FlagMeansSync
<1>7. CASE DataReceived \/ NoDataReceived \/ Settings \/ InfoAlert
  <2>1. GapInv' /\ UNCHANGED gc.syncingConversations
    BY <1>0, <1>7 DEF DataReceived, NoDataReceived, Settings, InfoAlert, TimestampAfterAlert, GapInv, Fields
  <2>2. QED
    BY <1>1, <1>6, <1>7, <2>1 DEF DataReceived, NoDataReceived, Settings, InfoAlert
<1>8. CASE BrowserInactive
  <2>1. GapInv' /\ UNCHANGED gc.syncingConversations
    BY <1>0, <1>8 DEF BrowserInactive, TimestampAfterAlert, GapInv, Fields
  <2>2. QED
    BY <1>1, <1>2, <1>6, <1>8, <2>1 DEF BrowserInactive
<1>9. CASE BrowserActive
  <2>1. GapInv' /\ UNCHANGED gc.syncingConversations
    BY <1>0, <1>9 DEF BrowserActive, GapInv, Fields
  <2>2. CASE UNCHANGED task
    BY <1>1, <1>6, <2>1, <2>2
  <2>3. CASE GoSync("syncFull", TimestampAfterAlert)
    <3>1. KeepsSyncs
      BY <1>0, <2>3 DEF GoSync, Free, KeepsSyncs, TaskType
    <3>2. QED
      BY <1>6, <2>1, <3>1
  <2>4. CASE gc.noDataReceivedRecently /\ GoSync("syncMinimal", TimestampAfterAlert)
    <3>1. TimestampAfterAlert # "recent"
      BY <2>4 DEF TimestampAfterAlert, GapInv
    <3>2. PICK t \in Tasks : Free(t) /\ task' = [task EXCEPT ![t].pc = "syncMinimal",
                                                           ![t].since = TimestampAfterAlert]
      BY <2>4 DEF GoSync
    <3>3. \A u \in Tasks : IF u = t THEN task'[u].since = TimestampAfterAlert /\ task[u].pc # "listing"
                           ELSE task'[u] = task[u]
      BY <1>0, <3>2 DEF TaskType, Free
    <3>4. QED
      BY <2>1, <3>1, <3>3 DEF ResyncSound, MinimalSyncSeesGap, FlagMeansSync
  <2>5. QED
    BY <1>9, <2>2, <2>3, <2>4 DEF BrowserActive
<1>10. CASE DatabaseSyncComplete
  <2>1. GapInv' /\ UNCHANGED gc.syncingConversations
    BY <1>0, <1>10 DEF DatabaseSyncComplete, TimestampAfterAlert, GapInv, Fields
  <2>2. KeepsSyncs
    BY <1>0, <1>10 DEF DatabaseSyncComplete, GoSync, Free, KeepsSyncs, TaskType
  <2>3. QED
    BY <1>6, <2>1, <2>2
<1>11. CASE BrowserActivePanics
  BY <1>1, <1>11, ResyncKept DEF BrowserActivePanics, Panic, Resync
<1>12. CASE PostConnect
  <2>1. UNCHANGED Resync
    BY <1>0, <1>12 DEF PostConnect, SetActiveSession, Resync, Fields
  <2>2. QED
    BY <1>1, <1>12, <2>1, ResyncKept DEF PostConnect
<1>13. QED
  BY <1>3, <1>4, <1>5, <1>7, <1>8, <1>9, <1>10, <1>11, <1>12 DEF ReaderEvent, PingerEvent

LEMMA ResyncTask ==
  ASSUME TypeOK, GapInv, ResyncSound, NEW t \in Tasks, TaskStep(t) \/ SyncEnd(t) \/ LogoutCall(t)
  PROVE  GapInv' /\ ResyncSound'
<1>0. gc \in Fields /\ task \in TaskType
  BY DEF TypeOK, TaskType
<1>1. CASE SyncStart(t)
  <2>1. GapInv'
    BY <1>0, <1>1 DEF SyncStart, GapInv, Fields
  <2>2. task'[t].pc = "listing" /\ \A u \in Tasks \ {t} : task'[u] = task[u]
    BY <1>0, <1>1 DEF SyncStart, TaskType
  <2>3. QED
    BY <2>1, <2>2 DEF ResyncSound, MinimalSyncSeesGap, FlagMeansSync
<1>2. CASE SyncEnd(t)
  <2>1. GapInv' /\ ~gc'.syncingConversations
    BY <1>0, <1>2 DEF SyncEnd, FlagAfterSync, GapInv, Fields
  <2>2. task'[t].pc = "free" /\ \A u \in Tasks \ {t} : task'[u] = task[u]
    BY <1>0, <1>2 DEF SyncEnd, Finish, Idle, TaskType
  <2>3. QED
    BY <2>1, <2>2 DEF ResyncSound, MinimalSyncSeesGap, FlagMeansSync
<1>3. CASE HackyStart(t)
  <2>1. KeepsSyncs
    BY <1>0, <1>3, GotoKeeps, FinishKeeps DEF HackyStart, At
  <2>2. GapInv' /\ UNCHANGED gc.syncingConversations
    BY <1>0, <1>3 DEF HackyStart, GapInv, Fields
  <2>3. QED
    BY <2>1, <2>2 DEF KeepsSyncs, ResyncSound, MinimalSyncSeesGap, FlagMeansSync
<1>4. CASE \/ InvalidateDisconnect(t) \/ ResetClient(t) \/ LogoutDisconnect(t)
  <2>1. UNCHANGED Resync
    BY <1>0, <1>4 DEF InvalidateDisconnect, ResetClient, LogoutDisconnect, Disconnect, Resync, Fields
  <2>2. KeepsSyncs
    BY <1>0, <1>4, GotoKeeps DEF InvalidateDisconnect, ResetClient, LogoutDisconnect, At
  <2>3. QED
    BY <2>1, <2>2, ResyncKept
<1>5. CASE NewClientStore(t) \/ HackyActivate(t)
  <2>1. UNCHANGED Resync
    BY <1>0, <1>5 DEF NewClientStore, HackyActivate, SetActiveSession, Resync, Fields
  <2>2. KeepsSyncs
    BY <1>0, <1>5, GotoKeeps DEF NewClientStore, HackyActivate, At
  <2>3. QED
    BY <2>1, <2>2, ResyncKept
<1>6. CASE AggressiveActivate(t)
  <2>1. UNCHANGED Resync
    BY <1>0, <1>6 DEF AggressiveActivate, SetActiveSession, Resync, Fields
  <2>2. KeepsSyncs
    BY <1>0, <1>6, FinishKeeps DEF AggressiveActivate, At, KeepsSyncs, TaskType
  <2>3. QED
    BY <2>1, <2>2, ResyncKept
<1>7. CASE \/ InvalidateSession(t) \/ InvalidateSave(t) \/ HackyCheck(t) \/ NewClientRead(t)
           \/ ConnectFetchConfig(t) \/ AggressiveCheck(t) \/ InvalidateSend(t)
           \/ ConnectRefused(t) \/ ConnectClient(t) \/ LogoutForget(t) \/ LogoutCall(t)
  <2>1. KeepsSyncs
    BY <1>0, <1>7, GotoKeeps, FinishKeeps
       DEF InvalidateSession, InvalidateSave, HackyCheck, NewClientRead, ConnectFetchConfig,
           AggressiveCheck, InvalidateSend, ConnectRefused, ConnectClient, LogoutForget, LogoutCall,
           At, Free
  <2>2. UNCHANGED Resync
    BY <1>7
       DEF InvalidateSession, InvalidateSave, HackyCheck, NewClientRead, ConnectFetchConfig,
           AggressiveCheck, InvalidateSend, ConnectRefused, ConnectClient, LogoutForget, LogoutCall,
           Resync
  <2>3. QED
    BY <2>1, <2>2, ResyncKept
<1>8. CASE NilDereference(t)
  BY <1>8, ResyncKept DEF NilDereference, Panic, KeepsSyncs, Resync
<1>9. QED
  BY <1>1, <1>2, <1>3, <1>4, <1>5, <1>6, <1>7, <1>8 DEF TaskStep

(* A minimal resync compares with a time before the gap and the flag that  *)
(* hides deletions never outlives a resync (handleUserAlert,               *)
(* SyncConversations).                                                     *)
THEOREM ResyncSoundThm == Spec => []ResyncSound
<1>1. Init => GapInv /\ ResyncSound
  <2>1. ASSUME Init
        PROVE  \A t \in Tasks : task[t].pc # "syncMinimal"
    BY <2>1 DEF Init, Connecting, Idle
  <2>2. Init => ~gc.noDataReceivedRecently /\ ~gc.syncingConversations
    BY DEF Init, NewGMClient
  <2>3. QED
    BY <2>1, <2>2 DEF GapInv, ResyncSound, MinimalSyncSeesGap, FlagMeansSync
<1>2. TypeOK /\ GapInv /\ ResyncSound /\ [Next /\ UNCHANGED scenario]_<<vars, scenario>>
        => (GapInv /\ ResyncSound)'
  <2> SUFFICES ASSUME TypeOK, GapInv, ResyncSound, [Next]_vars
               PROVE  GapInv' /\ ResyncSound'
    OBVIOUS
  <2>1. CASE UNCHANGED <<gc, task>>
    BY <2>1, ResyncKept DEF KeepsSyncs, Resync
  <2>2. CASE Restart
    <3>1. PICK t \in Tasks : task' = Connecting(t)
      BY <2>2 DEF Restart
    <3>2. \A u \in Tasks : task'[u].pc # "syncMinimal"
      BY <3>1 DEF Connecting, Idle
    <3>3. QED
      BY <2>2, <3>2 DEF Restart, NewGMClient, GapInv, ResyncSound, MinimalSyncSeesGap, FlagMeansSync
  <2>3. QED
    BY <2>1, <2>2, ResyncEvent, ResyncTask
       DEF Next, vars, AuthTokenRefreshed, HandlerSave, HandlerSend
<1>3. QED
  BY <1>1, <1>2, TypeCorrect, PTL DEF Spec

-----------------------------------------------------------------------------
(* A goroutine that is deleting the session, or about to report so, finds  *)
(* it deleted: nothing but a restart brings a session back.                *)
DeletingInv == \A t \in Tasks : task[t].pc \in Deleting => Session = "none"

(* By the time it disconnects, the deletion is saved or saving failed.     *)
SavedInv ==
    \A t \in Tasks : task[t].pc \in {"deleteDisconnect", "deleteSend"} /\ ~db.failed
                        => db.session = "none"

(* The client is only missing after a deletion or a reset.                 *)
MissingInv == ~Client => Session = "none" \/ gc.didHackySetActive

HackyPlaces == {"hackyCheck", "hackyActivate", "hackyRecheck", "hackyReset"}

HackyInv == \A t \in Tasks : task[t].pc \in HackyPlaces => gc.didHackySetActive

DeletionInv ==
    /\ DeletingInv /\ SavedInv /\ MissingInv /\ HackyInv
    /\ NoZombieClient /\ ToldIsForgotten /\ CrashNeedsDeletion

(* What these invariants look at apart from the goroutines.                *)
Deletion == <<Session, Client, db, told, crashed, gc.didHackySetActive>>

(* A goroutine that goes nowhere near a deletion or a reset.               *)
Harmless(t, place) ==
    /\ \A u \in Tasks : u # t => task'[u].pc = task[u].pc
    /\ task'[t].pc = place /\ place \notin Deleting \cup HackyPlaces
    /\ task[t].pc \notin Deleting \cup {"connect"}

LEMMA DeletionKept ==
  ASSUME DeletionInv, UNCHANGED Deletion, NEW t \in Tasks, NEW place, Harmless(t, place)
  PROVE  DeletionInv'
<1>1. DeletingInv'
  BY DEF DeletionInv, DeletingInv, Harmless, Deletion
<1>2. SavedInv'
  BY DEF DeletionInv, SavedInv, Harmless, Deletion, Deleting
<1>3. HackyInv'
  BY DEF DeletionInv, HackyInv, Harmless, Deletion
<1>4. NoZombieClient'
  BY DEF DeletionInv, NoZombieClient, Harmless, Deletion
<1>5. QED
  BY <1>1, <1>2, <1>3, <1>4
     DEF DeletionInv, MissingInv, ToldIsForgotten, CrashNeedsDeletion, Deletion

LEMMA DeletionUnchanged ==
  ASSUME DeletionInv, UNCHANGED Deletion, UNCHANGED task
  PROVE  DeletionInv'
BY DEF DeletionInv, DeletingInv, SavedInv, MissingInv, HackyInv, NoZombieClient, ToldIsForgotten,
       CrashNeedsDeletion, Deletion

LEMMA GotoHarmless ==
  ASSUME task \in TaskType, NEW t \in Tasks, NEW place, place \notin Deleting \cup HackyPlaces,
         task[t].pc \notin Deleting \cup {"connect"}, Goto(t, place)
  PROVE  Harmless(t, place)
BY DEF TaskType, Goto, Harmless

LEMMA FinishHarmless ==
  ASSUME task \in TaskType, NEW t \in Tasks, task[t].pc \notin Deleting \cup {"connect"}, Finish(t)
  PROVE  Harmless(t, "free")
BY DEF TaskType, Finish, Idle, Harmless, Deleting, HackyPlaces

LEMMA SaveKeepsDeletion ==
  ASSUME TypeOK, DeletionInv, Save, UNCHANGED <<Session, Client, told, crashed, gc>>, UNCHANGED task
  PROVE  DeletionInv'
<1>1. db' = [db EXCEPT !.session = Session] \/ db' = [db EXCEPT !.failed = TRUE]
  BY DEF Save
<1>2. ~db'.failed => ~db.failed /\ db'.session = Session
  BY <1>1 DEF TypeOK
<1>3. SavedInv'
  BY <1>2 DEF DeletionInv, SavedInv, DeletingInv, Deleting
<1>4. ToldIsForgotten'
  BY <1>2 DEF DeletionInv, ToldIsForgotten
<1>5. QED
  BY <1>3, <1>4 DEF DeletionInv, DeletingInv, MissingInv, HackyInv, NoZombieClient, CrashNeedsDeletion

LEMMA DeletionEvent ==
  ASSUME TypeOK, DeletionInv, ReaderEvent \/ PingerEvent \/ AuthTokenRefreshed
  PROVE  DeletionInv'
<1>0. gc \in Fields /\ task \in TaskType
  BY DEF TypeOK, TaskType
<1>1. ASSUME NEW place \in {"strip", "delete", "hacky", "aggressive"}, Go(place), UNCHANGED Deletion
      PROVE  DeletionInv'
  BY <1>0, <1>1, GotoHarmless, DeletionKept DEF Go, Free, Deleting, HackyPlaces
<1>2. ASSUME NEW place \in Syncing, NEW stamp, GoSync(place, stamp), UNCHANGED Deletion
      PROVE  DeletionInv'
  <2>1. PICK t \in Tasks : Free(t) /\ task' = [task EXCEPT ![t].pc = place, ![t].since = stamp]
    BY <1>2 DEF GoSync
  <2>2. Harmless(t, place)
    BY <1>0, <2>1 DEF Harmless, Free, TaskType, Syncing, Deleting, HackyPlaces
  <2>3. QED
    BY <1>2, <2>2, DeletionKept
<1>3. ASSUME NEW h \in Handlers, NEW kind, NEW todo, Event(h, kind, todo),
             gc'.didHackySetActive = gc.didHackySetActive
      PROVE  UNCHANGED Deletion
  BY <1>3 DEF Event, Deletion, session, past
<1>4. CASE ListenFatalError \/ Unpaired \/ PingFailed \/ HackySetActiveMayFail
  BY <1>1, <1>3, <1>4, DeletionUnchanged
     DEF ListenFatalError, Unpaired, PingFailed, HackySetActiveMayFail, Handlers
<1>5. CASE \/ ListenTemporaryError \/ ListenRecovered \/ PhoneNotResponding \/ PhoneRespondingAgain
           \/ DataReceived \/ NoDataReceived \/ Settings \/ InfoAlert
  <2>1. gc'.didHackySetActive = gc.didHackySetActive
    BY <1>0, <1>5
       DEF ListenTemporaryError, ListenRecovered, PhoneNotResponding, PhoneRespondingAgain,
           DataReceived, NoDataReceived, Settings, InfoAlert, Fields
  <2>2. QED
    BY <1>3, <1>5, <2>1, DeletionUnchanged
       DEF ListenTemporaryError, ListenRecovered, PhoneNotResponding, PhoneRespondingAgain,
           DataReceived, NoDataReceived, Settings, InfoAlert, Handlers
<1>6. ASSUME NEW switched \in BOOLEAN, AccountChange(switched)
      PROVE  DeletionInv'
  <2>1. gc'.didHackySetActive = gc.didHackySetActive
    BY <1>0, <1>6 DEF AccountChange, Fields
  <2>2. QED
    BY <1>3, <1>6, <2>1, DeletionUnchanged DEF AccountChange, Handlers
<1>7. CASE BrowserInactive
  <2>1. gc'.didHackySetActive = gc.didHackySetActive
    BY <1>0, <1>7 DEF BrowserInactive, Fields
  <2>2. QED
    BY <1>1, <1>3, <1>7, <2>1, DeletionUnchanged DEF BrowserInactive, Handlers
<1>8. CASE BrowserActive
  <2>1. gc'.didHackySetActive = gc.didHackySetActive
    BY <1>0, <1>8 DEF BrowserActive, Fields
  <2>2. UNCHANGED Deletion
    BY <1>3, <1>8, <2>1 DEF BrowserActive, Handlers
  <2>3. QED
    BY <1>2, <1>8, <2>2, DeletionUnchanged DEF BrowserActive, Syncing
<1>9. CASE DatabaseSyncComplete
  <2>1. gc'.didHackySetActive = gc.didHackySetActive
    BY <1>0, <1>9 DEF DatabaseSyncComplete, Fields
  <2>2. QED
    BY <1>2, <1>3, <1>9, <2>1 DEF DatabaseSyncComplete, Syncing, Handlers
<1>10. CASE BrowserActivePanics
  BY <1>10
     DEF BrowserActivePanics, Panic, DeletionInv, DeletingInv, SavedInv, MissingInv, HackyInv,
         NoZombieClient, ToldIsForgotten, CrashNeedsDeletion, session, past
<1>11. CASE PostConnect
  <2>1. gc'.didHackySetActive = gc.didHackySetActive
    BY <1>0, <1>11 DEF PostConnect, SetActiveSession, Fields
  <2>2. QED
    BY <1>11, <2>1, DeletionUnchanged DEF PostConnect, Deletion, session, past
<1>12. CASE AuthTokenRefreshed
  BY <1>12, SaveKeepsDeletion DEF AuthTokenRefreshed, session, past
<1>13. QED
  BY <1>4, <1>5, <1>6, <1>7, <1>8, <1>9, <1>10, <1>11, <1>12 DEF ReaderEvent, PingerEvent

(* Only goroutine t moves, to place.                                       *)
Moves(t, place) ==
    task'[t].pc = place /\ \A u \in Tasks : u # t => task'[u].pc = task[u].pc

LEMMA TaskMoves ==
  ASSUME task \in TaskType, NEW t \in Tasks, NEW place
  PROVE  (Goto(t, place) => Moves(t, place)) /\ (Finish(t) => Moves(t, "free"))
BY DEF TaskType, Goto, Finish, Idle, Moves

LEMMA DeletionInvalidate ==
  ASSUME TypeOK, DeletionInv, NEW t \in Tasks,
         \/ InvalidateSession(t) \/ InvalidateSave(t) \/ InvalidateDisconnect(t)
         \/ InvalidateSend(t) \/ LogoutDisconnect(t) \/ LogoutForget(t)
  PROVE  DeletionInv'
<1>0. gc \in Fields /\ task \in TaskType /\ ~crashed
  BY DEF TypeOK, TaskType, InvalidateSession, InvalidateSave, InvalidateDisconnect, InvalidateSend,
         LogoutDisconnect, LogoutForget, At
<1> USE DEF DeletionInv, DeletingInv, SavedInv, MissingInv, HackyInv, NoZombieClient,
            ToldIsForgotten, CrashNeedsDeletion, Deleting, HackyPlaces, Moves
<1>1. CASE InvalidateSession(t)
  <2>1. UNCHANGED <<gc, Client, db, told, crashed>>
    BY <1>1 DEF InvalidateSession, past
  <2>2. CASE At(t, "delete") /\ Session' = "none" /\ Goto(t, "deleteSave")
    <3>1. Moves(t, "deleteSave") /\ Session' = "none"
      BY <1>0, <2>2, TaskMoves
    <3>2. QED
      BY <1>0, <2>1, <3>1
  <2>3. CASE At(t, "strip") /\ Session # "none" /\ Session' = "stripped" /\ Goto(t, "stripSave")
    <3>1. Moves(t, "stripSave") /\ Session' = "stripped" /\ Session # "none"
      BY <1>0, <2>3, TaskMoves
    <3>2. QED
      BY <1>0, <2>1, <3>1
  <2>4. QED
    BY <1>1, <2>2, <2>3 DEF InvalidateSession
<1>2. CASE InvalidateSave(t)
  <2>1. UNCHANGED <<gc, Session, Client, told, crashed>> /\ Save
    BY <1>2 DEF InvalidateSave, session, past
  <2>2. ~db'.failed => ~db.failed /\ db'.session = Session
    BY <2>1 DEF Save, TypeOK
  <2>3. CASE At(t, "deleteSave") /\ Goto(t, "deleteDisconnect")
    <3>1. Moves(t, "deleteDisconnect") /\ task[t].pc = "deleteSave"
      BY <1>0, <2>3, TaskMoves DEF At
    <3>2. QED
      BY <1>0, <2>1, <2>2, <3>1
  <2>4. CASE At(t, "stripSave") /\ Goto(t, "stripDisconnect")
    <3>1. Moves(t, "stripDisconnect") /\ task[t].pc = "stripSave"
      BY <1>0, <2>4, TaskMoves DEF At
    <3>2. QED
      BY <1>0, <2>1, <2>2, <3>1
  <2>5. QED
    BY <1>2, <2>3, <2>4 DEF InvalidateSave
<1>3. CASE InvalidateDisconnect(t)
  <2>1. UNCHANGED <<Session, Client, db, told, crashed>> /\ gc'.didHackySetActive = gc.didHackySetActive
    BY <1>0, <1>3 DEF InvalidateDisconnect, Disconnect, Fields, session, past
  <2>2. CASE At(t, "deleteDisconnect") /\ Goto(t, "deleteSend")
    <3>1. Moves(t, "deleteSend") /\ task[t].pc = "deleteDisconnect"
      BY <1>0, <2>2, TaskMoves DEF At
    <3>2. QED
      BY <1>0, <2>1, <3>1
  <2>3. CASE At(t, "stripDisconnect") /\ Goto(t, "stripSend")
    <3>1. Moves(t, "stripSend") /\ task[t].pc = "stripDisconnect"
      BY <1>0, <2>3, TaskMoves DEF At
    <3>2. QED
      BY <1>0, <2>1, <3>1
  <2>4. QED
    BY <1>3, <2>2, <2>3 DEF InvalidateDisconnect
<1>4. CASE InvalidateSend(t)
  <2>1. UNCHANGED <<gc, Session, db, crashed>> /\ Moves(t, "free")
    BY <1>0, <1>4, TaskMoves DEF InvalidateSend
  <2>2. CASE task[t].pc = "deleteSend"
    <3>1. Client' = FALSE
      BY <1>4, <2>2 DEF InvalidateSend, ClientAfterInvalidation
    <3>2. QED
      BY <1>0, <2>1, <2>2, <3>1
  <2>3. CASE task[t].pc = "stripSend"
    <3>1. Client' = Client /\ told' = told
      BY <1>4, <2>3 DEF InvalidateSend, ClientAfterInvalidation, TypeOK
    <3>2. QED
      BY <1>0, <2>1, <2>3, <3>1
  <2>4. QED
    BY <1>4, <2>2, <2>3 DEF InvalidateSend, At
<1>5. CASE LogoutDisconnect(t)
  <2>1. UNCHANGED <<Client, db, told, crashed>> /\ gc'.didHackySetActive = gc.didHackySetActive
    BY <1>0, <1>5 DEF LogoutDisconnect, Disconnect, Fields, past
  <2>2. Session' = "none" /\ Moves(t, "logoutForget") /\ task[t].pc = "logout"
    BY <1>0, <1>5, TaskMoves DEF LogoutDisconnect, At
  <2>3. QED
    BY <1>0, <2>1, <2>2
<1>6. CASE LogoutForget(t)
  <2>1. UNCHANGED <<gc, Session, told, crashed>> /\ Client' = FALSE
    BY <1>6 DEF LogoutForget
  <2>2. db'.session = "none" /\ db'.failed = db.failed
    BY <1>6 DEF LogoutForget, TypeOK
  <2>3. Moves(t, "free") /\ task[t].pc = "logoutForget"
    BY <1>0, <1>6, TaskMoves DEF LogoutForget, At
  <2>4. QED
    BY <1>0, <2>1, <2>2, <2>3
<1>7. QED
  BY <1>1, <1>2, <1>3, <1>4, <1>5, <1>6

LEMMA DeletionTask ==
  ASSUME TypeOK, DeletionInv, NEW t \in Tasks, TaskStep(t) \/ SyncEnd(t) \/ LogoutCall(t)
  PROVE  DeletionInv'
<1>0. gc \in Fields /\ task \in TaskType
  BY DEF TypeOK, TaskType
<1>1. CASE NilDereference(t)
  BY <1>1
     DEF NilDereference, Panic, DeletionInv, DeletingInv, SavedInv, MissingInv, HackyInv,
         NoZombieClient, ToldIsForgotten, CrashNeedsDeletion, session, past
<1>2. CASE SyncStart(t)
  <2>1. UNCHANGED Deletion
    BY <1>0, <1>2 DEF SyncStart, Deletion, Fields, session, past
  <2>2. Harmless(t, "listing")
    BY <1>0, <1>2 DEF SyncStart, Harmless, TaskType, Syncing, Deleting, HackyPlaces
  <2>3. QED
    BY <2>1, <2>2, DeletionKept
<1>3. CASE SyncEnd(t)
  <2>1. UNCHANGED Deletion
    BY <1>0, <1>3 DEF SyncEnd, Deletion, Fields, session, past
  <2>2. QED
    BY <1>0, <1>3, <2>1, FinishHarmless, DeletionKept DEF SyncEnd, At, Deleting
<1>4. CASE AggressiveCheck(t)
  <2>1. UNCHANGED Deletion
    BY <1>4 DEF AggressiveCheck, Deletion, session, past
  <2>2. QED
    BY <1>0, <1>4, <2>1, FinishHarmless, GotoHarmless, DeletionKept
       DEF AggressiveCheck, At, Deleting, HackyPlaces
<1>5. CASE AggressiveActivate(t)
  <2>1. UNCHANGED Deletion
    BY <1>0, <1>5 DEF AggressiveActivate, SetActiveSession, Deletion, Fields, session, past
  <2>2. Harmless(t, "free") \/ Harmless(t, "aggressive")
    BY <1>0, <1>5, FinishHarmless
       DEF AggressiveActivate, At, Harmless, TaskType, Deleting, HackyPlaces
  <2>3. QED
    BY <2>1, <2>2, DeletionKept
<1>6. CASE LogoutCall(t)
  <2>1. UNCHANGED Deletion
    BY <1>6 DEF LogoutCall, Deletion, session, past
  <2>2. QED
    BY <1>0, <1>6, <2>1, GotoHarmless, DeletionKept DEF LogoutCall, Free, Deleting, HackyPlaces
<1>7. CASE HackyStart(t) /\ gc.didHackySetActive
  <2>1. UNCHANGED Deletion
    BY <1>7 DEF HackyStart, Deletion, session, past
  <2>2. QED
    BY <1>0, <1>7, <2>1, FinishHarmless, DeletionKept DEF HackyStart, At, Deleting
<1>8. CASE NewClientRead(t)
  <2>1. UNCHANGED Deletion
    BY <1>8 DEF NewClientRead, Deletion, session, past
  <2>2. QED
    BY <1>0, <1>8, <2>1, GotoHarmless, DeletionKept DEF NewClientRead, At, Deleting, HackyPlaces
<1>9. CASE ConnectClient(t)
  <2>1. UNCHANGED Deletion
    BY <1>9 DEF ConnectClient, Deletion, session, past
  <2>2. QED
    BY <1>0, <1>9, <2>1, GotoHarmless, FinishHarmless, DeletionKept
       DEF ConnectClient, At, Deleting, HackyPlaces
<1>10. CASE HackyCheck(t) \/ HackyActivate(t)
  <2>1. UNCHANGED <<Session, Client, db, told, crashed>> /\ gc'.didHackySetActive = gc.didHackySetActive
    BY <1>0, <1>10 DEF HackyCheck, HackyActivate, SetActiveSession, Fields, session, past
  <2>2. gc.didHackySetActive
    BY <1>10 DEF HackyCheck, HackyActivate, At, DeletionInv, HackyInv, HackyPlaces
  <2>3. \E place \in HackyPlaces \cup {"free"} : Moves(t, place)
    BY <1>0, <1>10, TaskMoves DEF HackyCheck, HackyActivate, HackyPlaces
  <2>4. task[t].pc \notin Deleting \cup {"connect"}
    BY <1>10 DEF HackyCheck, HackyActivate, At, Deleting
  <2>5. QED
    BY <2>1, <2>2, <2>3, <2>4
       DEF DeletionInv, DeletingInv, SavedInv, MissingInv, HackyInv, NoZombieClient,
           ToldIsForgotten, CrashNeedsDeletion, Deleting, HackyPlaces, Moves
<1> USE DEF DeletionInv, DeletingInv, SavedInv, MissingInv, HackyInv, NoZombieClient,
            ToldIsForgotten, CrashNeedsDeletion, Deleting, HackyPlaces, Moves
<1>11. CASE HackyStart(t) /\ ~gc.didHackySetActive
  <2>1. UNCHANGED <<Session, Client, db, told, crashed>> /\ gc'.didHackySetActive
    BY <1>0, <1>11 DEF HackyStart, Fields, session, past
  <2>2. Moves(t, "hackyCheck") /\ task[t].pc = "hacky"
    BY <1>0, <1>11, TaskMoves DEF HackyStart, At
  <2>3. QED
    BY <2>1, <2>2
<1>12. CASE ResetClient(t)
  <2>1. UNCHANGED <<Session, db, told, crashed>> /\ gc'.didHackySetActive = gc.didHackySetActive
    BY <1>0, <1>12 DEF ResetClient, Disconnect, Fields, past
  <2>2. Client' = FALSE /\ Moves(t, "hackyNew") /\ task[t].pc = "hackyReset"
    BY <1>0, <1>12, TaskMoves DEF ResetClient, At
  <2>3. QED
    BY <2>1, <2>2
<1>13. CASE NewClientStore(t)
  <2>1. UNCHANGED <<Session, db, told, crashed>> /\ gc'.didHackySetActive = gc.didHackySetActive
    BY <1>0, <1>13 DEF NewClientStore, Fields, past
  <2>2. Client' = TRUE /\ Moves(t, "connect") /\ task[t].pc = "hackyStore"
    BY <1>0, <1>13, TaskMoves DEF NewClientStore, At
  <2>3. QED
    BY <2>1, <2>2
<1>14. CASE ConnectRefused(t)
  <2>1. UNCHANGED <<gc, Session, Client, db, told, crashed>>
    BY <1>14 DEF ConnectRefused, session, past
  <2>2. Moves(t, "free") /\ task[t].pc = "connect" /\ (Session = "none" => ~Client)
    BY <1>0, <1>14, TaskMoves DEF ConnectRefused, CanConnect, At
  <2>3. QED
    BY <2>1, <2>2
<1>15. CASE ConnectFetchConfig(t)
  <2>1. UNCHANGED <<gc, Session, Client, db, told, crashed>> /\ Session # "none"
    BY <1>15 DEF ConnectFetchConfig, session, past
  <2>2. Moves(t, "connectClient") \/ Moves(t, "strip")
    BY <1>0, <1>15, TaskMoves DEF ConnectFetchConfig
  <2>3. QED
    BY <2>1, <2>2
<1>16. QED
  BY <1>1, <1>2, <1>3, <1>4, <1>5, <1>6, <1>7, <1>8, <1>9, <1>10, <1>11, <1>12, <1>13, <1>14, <1>15,
     DeletionInvalidate DEF TaskStep

LEMMA DeletionStep ==
  ASSUME TypeOK, DeletionInv, [Next]_vars
  PROVE  DeletionInv'
<1>1. CASE UNCHANGED vars
  BY <1>1, DeletionUnchanged DEF vars, Deletion, session, past
<1>2. ASSUME NEW h \in Handlers, HandlerSend(h)
      PROVE  DeletionInv'
  BY <1>2, DeletionUnchanged DEF HandlerSend, Deletion, session, past
<1>3. ASSUME NEW h \in Handlers, HandlerSave(h)
      PROVE  DeletionInv'
  BY <1>3, SaveKeepsDeletion DEF HandlerSave, session, past
<1>4. CASE Restart
  <2>1. PICK t \in Tasks : task' = Connecting(t)
    BY <1>4 DEF Restart
  <2>2. \A u \in Tasks : task'[u].pc \notin Deleting \cup HackyPlaces
    BY <2>1 DEF Connecting, Idle, Deleting, HackyPlaces
  <2>3. /\ Session' = db.session /\ (Client' <=> db.session # "none")
        /\ UNCHANGED <<db, told>> /\ crashed' = FALSE
    BY <1>4 DEF Restart
  <2>4. QED
    BY <2>2, <2>3
       DEF DeletionInv, DeletingInv, SavedInv, MissingInv, HackyInv, NoZombieClient,
           ToldIsForgotten, CrashNeedsDeletion, Deleting
<1>5. QED
  BY <1>1, <1>2, <1>3, <1>4, DeletionEvent, DeletionTask DEF Next

LEMMA DeletionAlways == Spec => []DeletionInv
<1>1. Init => DeletionInv
  <2> SUFFICES ASSUME Init PROVE DeletionInv
    OBVIOUS
  <2>1. PICK t \in Tasks : task = Connecting(t)
    BY DEF Init
  <2>2. \A u \in Tasks : task[u].pc \notin Deleting \cup HackyPlaces
    BY <2>1 DEF Connecting, Idle, Deleting, HackyPlaces
  <2>3. QED
    BY <2>2
       DEF Init, DeletionInv, DeletingInv, SavedInv, MissingInv, HackyInv, NoZombieClient,
           ToldIsForgotten, CrashNeedsDeletion, Deleting
<1>2. TypeOK /\ DeletionInv /\ [Next /\ UNCHANGED scenario]_<<vars, scenario>> => DeletionInv'
  BY DeletionStep
<1>3. QED
  BY <1>1, <1>2, TypeCorrect, PTL DEF Spec

(* A session deleted or logged out leaves no client behind, whatever       *)
(* re-activation was rebuilding one (invalidateSession, LogoutRemote,      *)
(* hackyResetActive).                                                      *)
THEOREM NoZombieClientThm == Spec => []NoZombieClient
<1>1. DeletionInv => NoZombieClient
  BY DEF DeletionInv
<1>2. QED
  BY <1>1, DeletionAlways, PTL

(* A deletion that was reported survives restarts and crashes, unless      *)
(* saving it failed (invalidateSession).                                   *)
THEOREM ToldIsForgottenThm == Spec => []ToldIsForgotten
<1>1. DeletionInv => ToldIsForgotten
  BY DEF DeletionInv
<1>2. QED
  BY <1>1, DeletionAlways, PTL

(* Only a deletion or a reset of the client can lead to the nil pointer    *)
(* that ends the process (handleUserAlert, SyncConversations, Connect).    *)
THEOREM CrashNeedsDeletionThm == Spec => []CrashNeedsDeletion
<1>1. DeletionInv => CrashNeedsDeletion
  BY DEF DeletionInv
<1>2. QED
  BY <1>1, DeletionAlways, PTL
=============================================================================
