--------------------------- MODULE LongPollProofs ---------------------------
(***************************************************************************)
(* Proofs about LongPoll, for every set of pollers and callers and every   *)
(* bound: type correctness, ConnIsLive, HandlerInformed and CallbackOnce   *)
(* for both readings of listenID++, and SeveredIsSuperseded and            *)
(* LateAtMostOnce when the increment is atomic.                            *)
(***************************************************************************)
EXTENDS LongPoll, TLAPS

(* A body in longPollingConn is its poller's last one and still in use.    *)
ConnInv ==
    \A p \in Pollers, n \in Nat :
        longPollingConn = <<p, n>> => n = streams[p] /\ pc[p] \in Streaming

(* closeLongPolling works on a real body.                                  *)
CloserInv == \A a \in Actors : cpc[a] = "closeBump" => conn[a] \in Bodies

(* What the handler knows; errorCount 0 stands for ListenRecovered.        *)
EventInv ==
    \A p \in Pollers :
        /\ pc[p] = "unused" => lastEvent[p] = "none" /\ errorCount[p] = 1
        /\ LoggedIn(kind[p]) =>
             /\ pc[p] \in Streaming \cup {"install"} => lastEvent[p] = "recovered"
             /\ pc[p] = "sleep" => lastEvent[p] = "temporary"
             /\ lastEvent[p] = "fatal" => pc[p] = "stopped"
             /\ errorCount[p] = 0 /\ pc[p] # "stopped" => lastEvent[p] = "recovered"

LEMMA TypeInit == Init => TypeOK
  BY LongPollAssumption DEF Init, TypeOK, Points, Kinds, Events, CallerPoints, Ops, Bodies

LEMMA PollerTypes ==
  ASSUME TypeOK, NEW p \in Pollers, PollerStep(p)
  PROVE  TypeOK'
<1> USE LongPollAssumption DEF TypeOK, Points, Events, CallerPoints, Ops, Bodies, Actors,
        pollerVars, callerVars
<1>1. CASE StartLoad(p)
  BY <1>1 DEF StartLoad
<1>2. CASE StartBump(p)
  BY <1>2 DEF StartBump, Bumped
<1>3. CASE CheckListener(p)
  BY <1>3 DEF CheckListener
<1>4. CASE RefreshOK(p)
  BY <1>4 DEF RefreshOK
<1>5. ASSUME FailTemporarily(p) PROVE TypeOK'
  <2>1. errorCount' \in [Pollers -> 0..MaxErrors]
    BY <1>5 DEF FailTemporarily, NextErrorCount
  <2>2. lastEvent' \in [Pollers -> Events]
    BY <1>5 DEF FailTemporarily, Trigger
  <2>3. pc' \in [Pollers -> Points] /\ result' \in [Pollers -> {"clean", "unclean"}]
    BY <1>5 DEF FailTemporarily
  <2>4. QED
    BY <1>5, <2>1, <2>2, <2>3 DEF FailTemporarily
<1>6. ASSUME FailFatally(p) PROVE TypeOK'
  BY <1>6 DEF FailFatally, Trigger
<1>7. CASE RequestOK(p)
  BY <1>7 DEF RequestOK, Trigger
<1>8. CASE Install(p)
  BY <1>8 DEF Install
<1>9. CASE ReadOpening(p)
  BY <1>9 DEF ReadOpening
<1>10. CASE ReadData(p) \/ ReadEnd(p)
  BY <1>10 DEF ReadData, ReadEnd
<1>11. CASE ClearConn(p)
  BY <1>11 DEF ClearConn, ConnAfterRead
<1>12. CASE WakeUp(p)
  BY <1>12 DEF WakeUp, AfterSleep
<1>13. QED
  BY <1>1, <1>2, <1>3, <1>4, <1>5, <1>6, <1>7, <1>8, <1>9, <1>10, <1>11, <1>12
     DEF PollerStep, RefreshNetworkError, RefreshRefused, RequestError, RequestDenied

LEMMA CloseTypes ==
  ASSUME TypeOK, CloserInv, NEW a \in Actors, CloseStep(a)
  PROVE  TypeOK'
<1> USE LongPollAssumption DEF TypeOK, CallerPoints, Ops, Bodies, Actors, pollerVars
<1>1. CASE CloseCheck(a)
  <2>1. CASE longPollingConn = NoConn
    BY <1>1, <2>1 DEF CloseCheck, ReturnFromClose
  <2>2. CASE longPollingConn # NoConn
    BY <1>1, <2>2 DEF CloseCheck
  <2>3. QED
    BY <2>1, <2>2
<1>2. CASE CloseBump(a)
  BY <1>2 DEF CloseBump, Bumped, CloserInv
<1>3. CASE CloseClear(a)
  BY <1>3 DEF CloseClear, ReturnFromClose
<1>4. QED
  BY <1>1, <1>2, <1>3 DEF CloseStep

LEMMA CallerTypes ==
  ASSUME TypeOK, NEW a \in Callers, CallerStep(a)
  PROVE  TypeOK'
<1> USE LongPollAssumption DEF TypeOK, Points, Kinds, CallerPoints, Ops, Bodies, Actors,
        pollerVars, callerVars
<1>1. CASE Connect(a) \/ StartPairing(a)
  BY <1>1 DEF Connect, StartPairing, Spawn
<1>2. CASE ConnectBackground(a)
  BY <1>2 DEF ConnectBackground, Spawn
<1>3. CASE ConnectBackgroundReturn(a)
  BY <1>3 DEF ConnectBackgroundReturn
<1>4. CASE Disconnect(a) \/ Reconnect(a)
  BY <1>4 DEF Disconnect, Reconnect
<1>5. CASE ReconnectConnect(a)
  BY <1>5 DEF ReconnectConnect, Spawn
<1>6. QED
  BY <1>1, <1>2, <1>3, <1>4, <1>5 DEF CallerStep

LEMMA TimerTypes ==
  ASSUME TypeOK, NEW p \in Pollers, CloseInFires(p)
  PROVE  TypeOK'
BY LongPollAssumption DEF TypeOK, CallerPoints, Actors, CloseInFires, pollerVars

LEMMA CloserStep ==
  ASSUME TypeOK, CloserInv, [Next]_vars
  PROVE  CloserInv'
<1> USE LongPollAssumption DEF TypeOK, CloserInv, Actors, Bodies
<1>1. CASE UNCHANGED vars
  BY <1>1 DEF vars, callerVars
<1>2. ASSUME NEW p \in Pollers, PollerStep(p)
      PROVE  CloserInv'
  <2>1. conn' = conn
    BY <1>2 DEF PollerStep, StartLoad, StartBump, CheckListener, RefreshOK,
       RefreshNetworkError, RefreshRefused, RequestError, RequestDenied, FailTemporarily,
       FailFatally, RequestOK, Install, ReadOpening, ReadData, ReadEnd, ClearConn, WakeUp,
       callerVars
  <2>2. \A a \in Actors : cpc'[a] = cpc[a] \/ cpc'[a] = "wait"
    BY <1>2 DEF PollerStep, StartLoad, StartBump, CheckListener, RefreshOK,
       RefreshNetworkError, RefreshRefused, RequestError, RequestDenied, FailTemporarily,
       FailFatally, RequestOK, Install, ReadOpening, ReadData, ReadEnd, ClearConn, WakeUp,
       callerVars
  <2>3. QED
    BY <2>1, <2>2
<1>3. ASSUME NEW a \in Actors, CloseStep(a)
      PROVE  CloserInv'
  BY <1>3 DEF CloseStep, CloseCheck, CloseBump, CloseClear, ReturnFromClose
<1>4. ASSUME NEW a \in Callers, CallerStep(a)
      PROVE  CloserInv'
  BY <1>4 DEF CallerStep, Connect, StartPairing, ConnectBackground, ConnectBackgroundReturn,
     Disconnect, Reconnect, ReconnectConnect, callerVars
<1>5. ASSUME NEW p \in Pollers, CloseInFires(p)
      PROVE  CloserInv'
  BY <1>5 DEF CloseInFires
<1>6. QED
  BY <1>1, <1>2, <1>3, <1>4, <1>5 DEF Next

(* The state keeps its types: in particular closeLongPolling only ever     *)
(* closes bodies that some poller installed.                               *)
THEOREM TypeCorrect == Spec => [](TypeOK /\ CloserInv)
<1>1. Init => TypeOK /\ CloserInv
  <2>1. Init => CloserInv
    BY DEF Init, CloserInv
  <2>2. QED
    BY <2>1, TypeInit
<1>2. TypeOK /\ CloserInv /\ [Next]_vars => (TypeOK /\ CloserInv)'
  <2> SUFFICES ASSUME TypeOK, CloserInv, [Next]_vars
               PROVE  TypeOK' /\ CloserInv'
    OBVIOUS
  <2>1. CloserInv'
    BY CloserStep
  <2>2. CASE UNCHANGED vars
    BY <2>1, <2>2 DEF vars, pollerVars, callerVars, TypeOK
  <2>3. CASE Next
    BY <2>1, <2>3, PollerTypes, CloseTypes, CallerTypes, TimerTypes DEF Next
  <2>4. QED
    BY <2>2, <2>3
<1>3. QED
  BY <1>1, <1>2, PTL DEF Spec

-----------------------------------------------------------------------------
(* Who may write longPollingConn, streams and pc: used for ConnInv.        *)
LEMMA ConnStep ==
  ASSUME TypeOK, TypeOK', ConnInv, [Next]_vars
  PROVE  ConnInv'
<1> USE LongPollAssumption DEF TypeOK, Bodies, Streaming, Points, Kinds
<1>0. SUFFICES ASSUME NEW q \in Pollers, NEW n \in Nat, longPollingConn' = <<q, n>>
               PROVE  n = streams'[q] /\ pc'[q] \in Streaming
  BY DEF ConnInv
<1>00. longPollingConn' # NoConn
  BY <1>0
<1>1. CASE UNCHANGED vars
  BY <1>0, <1>1 DEF ConnInv, vars, pollerVars
<1>2. ASSUME NEW p \in Pollers, Install(p)
      PROVE  n = streams'[q] /\ pc'[q] \in Streaming
  BY <1>0, <1>2 DEF Install
<1>3. ASSUME NEW p \in Pollers, ClearConn(p)
      PROVE  FALSE
  BY <1>00, <1>3 DEF ClearConn, ConnAfterRead
<1>4. ASSUME NEW p \in Pollers, ReadOpening(p) \/ ReadData(p) \/ ReadEnd(p)
      PROVE  n = streams'[q] /\ pc'[q] \in Streaming
  BY <1>0, <1>4 DEF ConnInv, ReadOpening, ReadData, ReadEnd, pollerVars
<1>5. ASSUME NEW p \in Pollers,
             \/ StartLoad(p) \/ StartBump(p) \/ CheckListener(p) \/ RefreshOK(p)
             \/ WakeUp(p) \/ RequestOK(p)
      PROVE  n = streams'[q] /\ pc'[q] \in Streaming
  BY <1>0, <1>5 DEF ConnInv, StartLoad, StartBump, CheckListener, RefreshOK, WakeUp,
     RequestOK, pollerVars
<1>6. ASSUME NEW p \in Pollers,
             \/ RefreshNetworkError(p) \/ RefreshRefused(p)
             \/ RequestError(p) \/ RequestDenied(p)
      PROVE  n = streams'[q] /\ pc'[q] \in Streaming
  BY <1>0, <1>6 DEF ConnInv, RefreshNetworkError, RefreshRefused, RequestError,
     RequestDenied, FailTemporarily, FailFatally
<1>7. ASSUME NEW a \in Actors, CloseStep(a)
      PROVE  n = streams'[q] /\ pc'[q] \in Streaming
  BY <1>0, <1>00, <1>7 DEF ConnInv, CloseStep, CloseCheck, CloseBump, CloseClear, pollerVars
<1>8. ASSUME NEW a \in Callers, CallerStep(a)
      PROVE  n = streams'[q] /\ pc'[q] \in Streaming
  BY <1>0, <1>8 DEF ConnInv, CallerStep, Connect, StartPairing, ConnectBackground, Spawn,
     ConnectBackgroundReturn, Disconnect, Reconnect, ReconnectConnect, pollerVars
<1>9. ASSUME NEW p \in Pollers, CloseInFires(p)
      PROVE  n = streams'[q] /\ pc'[q] \in Streaming
  BY <1>0, <1>9 DEF ConnInv, CloseInFires, pollerVars
<1>10. QED
  BY <1>1, <1>2, <1>3, <1>4, <1>5, <1>6, <1>7, <1>8, <1>9 DEF Next, PollerStep

(* IsConnected never reports a body that is no longer being read.          *)
THEOREM ConnIsLiveThm == Spec => []ConnIsLive
<1>1. Init => ConnInv
  BY LongPollAssumption DEF Init, ConnInv
<1>2. TypeOK /\ TypeOK' /\ ConnInv /\ [Next]_vars => ConnInv'
  BY ConnStep
<1>3. TypeOK /\ ConnInv => ConnIsLive
  <2> SUFFICES ASSUME TypeOK, ConnInv, longPollingConn # NoConn
               PROVE  \E p \in Pollers :
                         longPollingConn = <<p, streams[p]>> /\ pc[p] \in Streaming
    BY DEF ConnIsLive, IsConnected
  <2>1. PICK p \in Pollers, n \in Nat : longPollingConn = <<p, n>>
    BY DEF TypeOK, Bodies
  <2>2. QED
    BY <2>1 DEF ConnInv
<1>4. QED
  BY <1>1, <1>2, <1>3, TypeCorrect, PTL DEF Spec
-----------------------------------------------------------------------------
LEMMA EventStep ==
  ASSUME TypeOK, TypeOK', EventInv, [Next]_vars
  PROVE  EventInv'
<1> USE LongPollAssumption DEF TypeOK, Streaming, Points, Kinds, Events, LoggedIn
<1>1. CASE UNCHANGED vars
  BY <1>1 DEF EventInv, vars, pollerVars
<1>2. ASSUME NEW p \in Pollers, FailTemporarily(p), pc[p] \in {"refresh", "request"}
      PROVE  EventInv'
  <2>1. errorCount'[p] # 0
    BY <1>2 DEF FailTemporarily, NextErrorCount
  <2>2. QED
    BY <1>2, <2>1 DEF EventInv, FailTemporarily, Trigger
<1>3. ASSUME NEW p \in Pollers, FailFatally(p)
      PROVE  EventInv'
  BY <1>3 DEF EventInv, FailFatally, Trigger
<1>4. ASSUME NEW p \in Pollers, RequestOK(p)
      PROVE  EventInv'
  <2>1. LoggedIn(kind[p]) => lastEvent'[p] = "recovered"
    BY <1>4 DEF EventInv, RequestOK, RecoveryDue, Trigger
  <2>2. \A q \in Pollers : q # p => lastEvent'[q] = lastEvent[q]
    BY <1>4 DEF RequestOK, Trigger
  <2>3. QED
    BY <1>4, <2>1, <2>2 DEF EventInv, RequestOK
<1>5. ASSUME NEW p \in Pollers,
             Install(p) \/ ReadOpening(p) \/ ReadData(p) \/ ReadEnd(p) \/ ClearConn(p)
      PROVE  EventInv'
  <2>1. CASE Install(p) \/ ReadData(p) \/ ReadEnd(p)
    BY <2>1 DEF EventInv, Install, ReadData, ReadEnd, pollerVars
  <2>2. CASE ReadOpening(p)
    BY <2>2 DEF EventInv, ReadOpening
  <2>3. CASE ClearConn(p)
    BY <2>3 DEF EventInv, ClearConn
  <2>4. QED
    BY <1>5, <2>1, <2>2, <2>3
<1>6. ASSUME NEW p \in Pollers,
             \/ StartLoad(p) \/ StartBump(p) \/ CheckListener(p) \/ RefreshOK(p) \/ WakeUp(p)
      PROVE  EventInv'
  BY <1>6 DEF EventInv, StartLoad, StartBump, CheckListener, RefreshOK, WakeUp,
     AfterSleep, pollerVars
<1>7. ASSUME NEW a \in Actors, CloseStep(a)
      PROVE  EventInv'
  BY <1>7 DEF EventInv, CloseStep, CloseCheck, CloseBump, CloseClear, pollerVars
<1>8. ASSUME NEW a \in Callers, CallerStep(a)
      PROVE  EventInv'
  BY <1>8 DEF EventInv, CallerStep, Connect, StartPairing, ConnectBackground, Spawn,
     ConnectBackgroundReturn, Disconnect, Reconnect, ReconnectConnect, pollerVars
<1>9. ASSUME NEW p \in Pollers, CloseInFires(p)
      PROVE  EventInv'
  BY <1>9 DEF EventInv, CloseInFires, pollerVars
<1>10. QED
  BY <1>1, <1>2, <1>3, <1>4, <1>5, <1>6, <1>7, <1>8, <1>9
     DEF Next, PollerStep, RefreshNetworkError, RefreshRefused, RequestError, RequestDenied

(* The handler's last news about every logged-in poller is accurate.       *)
THEOREM HandlerInformedThm == Spec => []HandlerInformed
<1>1. Init => EventInv
  <2>1. ASSUME Init, NEW p \in Pollers
        PROVE  pc[p] = "unused" /\ lastEvent[p] = "none" /\ errorCount[p] = 1
    BY <2>1 DEF Init
  <2>2. ASSUME Init, NEW p \in Pollers
        PROVE  pc[p] \notin Streaming \cup {"install", "sleep"} /\ lastEvent[p] # "fatal"
    BY <2>1, <2>2 DEF Streaming
  <2>3. ASSUME Init, NEW p \in Pollers
        PROVE  errorCount[p] # 0
    BY <2>1, <2>3
  <2>4. QED
    BY <2>1, <2>2, <2>3 DEF EventInv
<1>2. TypeOK /\ TypeOK' /\ EventInv /\ [Next]_vars => EventInv'
  BY EventStep
<1>3. EventInv => HandlerInformed
  BY DEF EventInv, HandlerInformed
<1>4. QED
  BY <1>1, <1>2, <1>3, TypeCorrect, PTL DEF Spec

-----------------------------------------------------------------------------
(* The connection callback runs at most once per doLongPoll, and has been  *)
(* started whenever a body is installed.                                   *)
THEOREM CallbackOnceThm == Spec => []CallbackOnce
<1>1. Init => CallbackOnce
  <2> SUFFICES ASSUME Init, NEW p \in Pollers
               PROVE  posts[p] <= 1 /\ pc[p] \notin Streaming
    BY DEF CallbackOnce
  <2>1. posts[p] = 0 /\ pc[p] = "unused"
    BY DEF Init
  <2>2. QED
    BY <2>1 DEF Streaming
<1>2. TypeOK /\ CallbackOnce /\ [Next]_vars => CallbackOnce'
  <2> SUFFICES ASSUME TypeOK, CallbackOnce, [Next]_vars
               PROVE  CallbackOnce'
    OBVIOUS
  <2> USE DEF TypeOK, CallbackOnce, Streaming
  <2>1. CASE UNCHANGED vars
    BY <2>1 DEF vars, pollerVars
  <2>2. ASSUME NEW p \in Pollers, Install(p)
        PROVE  CallbackOnce'
    BY <2>2 DEF Install, RunsCallback
  <2>3. ASSUME NEW p \in Pollers, PollerStep(p), ~Install(p)
        PROVE  CallbackOnce'
    <3>1. posts' = posts /\ kind' = kind
      BY <2>3 DEF PollerStep, StartLoad, StartBump, CheckListener, RefreshOK,
         RefreshNetworkError, RefreshRefused, RequestError, RequestDenied, FailTemporarily,
         FailFatally, RequestOK, ReadOpening, ReadData, ReadEnd, ClearConn, WakeUp, pollerVars
    <3>2. \A q \in Pollers : pc'[q] \in Streaming => pc[q] \in Streaming
      BY <2>3 DEF PollerStep, StartLoad, StartBump, CheckListener, RefreshOK,
         RefreshNetworkError, RefreshRefused, RequestError, RequestDenied, FailTemporarily,
         FailFatally, RequestOK, ReadOpening, ReadData, ReadEnd, ClearConn, WakeUp, AfterSleep
    <3>3. QED
      BY <3>1, <3>2
  <2>4. ASSUME NEW a \in Actors, CloseStep(a)
        PROVE  CallbackOnce'
    BY <2>4 DEF CloseStep, CloseCheck, CloseBump, CloseClear, pollerVars
  <2>5. ASSUME NEW a \in Callers, CallerStep(a)
        PROVE  CallbackOnce'
    BY <2>5 DEF CallerStep, Connect, StartPairing, ConnectBackground, Spawn,
       ConnectBackgroundReturn, Disconnect, Reconnect, ReconnectConnect, pollerVars
  <2>6. ASSUME NEW p \in Pollers, CloseInFires(p)
        PROVE  CallbackOnce'
    BY <2>6 DEF CloseInFires, pollerVars
  <2>7. QED
    BY <2>1, <2>2, <2>3, <2>4, <2>5, <2>6 DEF Next
<1>3. QED
  BY <1>1, <1>2, TypeCorrect, PTL DEF Spec
-----------------------------------------------------------------------------
(* The arguments about listenID need its increments to be atomic: then it  *)
(* never decreases, a poller's own copy is never ahead of it, and every    *)
(* body that closeLongPolling has hold of was opened by then.              *)
Early == {"unused", "load", "bump"}

PollerRole ==
    \A p \in Pollers :
         /\ mine[p] <= listenID
         /\ pc[p] \in Early => streams[p] = 0
         /\ pc[p] \in Streaming \cup {"install"} => streams[p] > 0
         /\ late[p] <= 1
         /\ late[p] = 1 =>
              mine[p] < listenID /\ pc[p] \in Streaming \cup {"check", "stopped"}

SeveredRole ==
    \A p \in Pollers, n \in Nat :
         <<p, n>> \in severed =>
            n > 0 /\ n <= streams[p] /\ (n = streams[p] => mine[p] < listenID)

HeldRole ==
    \A a \in Actors, p \in Pollers, n \in Nat :
         cpc[a] = "closeBump" /\ conn[a] = <<p, n>> => n > 0 /\ n <= streams[p]

RoleInv == PollerRole /\ SeveredRole /\ HeldRole

LEMMA RolePoller ==
  ASSUME AtomicBump, TypeOK, RoleInv, NEW p \in Pollers, PollerStep(p)
  PROVE  RoleInv'
<1>0. PollerRole /\ SeveredRole /\ HeldRole
  BY DEF RoleInv
<1> USE LongPollAssumption, <1>0 DEF TypeOK, Early, Streaming
<1>1. CASE StartLoad(p)
  <2>11. PollerRole'
    BY <1>1 DEF PollerRole, StartLoad, pollerVars, callerVars
  <2>12. SeveredRole'
    BY <1>1 DEF SeveredRole, StartLoad, pollerVars, callerVars
  <2>13. HeldRole'
    BY <1>1 DEF HeldRole, StartLoad, pollerVars, callerVars
  <2>14. QED
    BY <2>11, <2>12, <2>13 DEF RoleInv
<1>2. CASE StartBump(p)
  <2>1. listenID' = listenID + 1 /\ mine' = [mine EXCEPT ![p] = listenID + 1]
    BY <1>2 DEF StartBump, Bumped
  <2>2. \A n \in Nat : <<p, n>> \notin severed
    BY <1>2 DEF StartBump, PollerRole, SeveredRole
  <2>3. late[p] # 1
    BY <1>2 DEF StartBump, PollerRole
  <2>11. PollerRole'
    BY <1>2, <2>1, <2>3 DEF PollerRole, StartBump, callerVars
  <2>12. SeveredRole'
    BY <1>2, <2>1, <2>2 DEF SeveredRole, StartBump, callerVars
  <2>13. HeldRole'
    BY <1>2, <2>1 DEF HeldRole, StartBump, callerVars
  <2>14. QED
    BY <2>11, <2>12, <2>13 DEF RoleInv
<1>3. CASE CheckListener(p)
  <2>11. PollerRole'
    BY <1>3 DEF PollerRole, CheckListener, StillListener, callerVars
  <2>12. SeveredRole'
    BY <1>3 DEF SeveredRole, CheckListener, StillListener, callerVars
  <2>13. HeldRole'
    BY <1>3 DEF HeldRole, CheckListener, StillListener, callerVars
  <2>14. QED
    BY <2>11, <2>12, <2>13 DEF RoleInv
<1>4. CASE RefreshOK(p)
  <2>11. PollerRole'
    BY <1>4 DEF PollerRole, RefreshOK, pollerVars, callerVars
  <2>12. SeveredRole'
    BY <1>4 DEF SeveredRole, RefreshOK, pollerVars, callerVars
  <2>13. HeldRole'
    BY <1>4 DEF HeldRole, RefreshOK, pollerVars, callerVars
  <2>14. QED
    BY <2>11, <2>12, <2>13 DEF RoleInv
<1>5. ASSUME FailTemporarily(p), pc[p] \in {"refresh", "request"}
      PROVE  RoleInv'
  <2>11. PollerRole'
    BY <1>5 DEF PollerRole, FailTemporarily, callerVars
  <2>12. SeveredRole'
    BY <1>5 DEF SeveredRole, FailTemporarily, callerVars
  <2>13. HeldRole'
    BY <1>5 DEF HeldRole, FailTemporarily, callerVars
  <2>14. QED
    BY <2>11, <2>12, <2>13 DEF RoleInv
<1>6. ASSUME FailFatally(p), pc[p] \in {"refresh", "request"}
      PROVE  RoleInv'
  <2>11. PollerRole'
    BY <1>6 DEF PollerRole, FailFatally, callerVars
  <2>12. SeveredRole'
    BY <1>6 DEF SeveredRole, FailFatally, callerVars
  <2>13. HeldRole'
    BY <1>6 DEF HeldRole, FailFatally, callerVars
  <2>14. QED
    BY <2>11, <2>12, <2>13 DEF RoleInv
<1>7. CASE RequestOK(p)
  <2>11. PollerRole'
    BY <1>7 DEF PollerRole, RequestOK, callerVars
  <2>12. SeveredRole'
    BY <1>7 DEF SeveredRole, RequestOK, callerVars
  <2>13. HeldRole'
    BY <1>7 DEF HeldRole, RequestOK, callerVars
  <2>14. QED
    BY <2>11, <2>12, <2>13 DEF RoleInv
<1>8. CASE Install(p)
  <2>11. PollerRole'
    BY <1>8 DEF PollerRole, Install, callerVars
  <2>12. SeveredRole'
    BY <1>8 DEF SeveredRole, Install, callerVars
  <2>13. HeldRole'
    BY <1>8 DEF HeldRole, Install, callerVars
  <2>14. QED
    BY <2>11, <2>12, <2>13 DEF RoleInv
<1>9. CASE ReadOpening(p)
  <2>11. PollerRole'
    BY <1>9 DEF PollerRole, ReadOpening, Actors
  <2>12. SeveredRole'
    BY <1>9 DEF SeveredRole, ReadOpening, Actors
  <2>13. HeldRole'
    <3>1. \A a \in Actors : cpc'[a] = cpc[a] \/ cpc'[a] = "wait"
      BY <1>9 DEF ReadOpening, Actors
    <3>2. conn' = conn /\ streams' = streams
      BY <1>9 DEF ReadOpening
    <3>3. QED
      BY <3>1, <3>2 DEF HeldRole
  <2>14. QED
    BY <2>11, <2>12, <2>13 DEF RoleInv
<1>10. CASE ReadData(p) \/ ReadEnd(p)
  <2>11. PollerRole'
    BY <1>10 DEF PollerRole, ReadData, ReadEnd, pollerVars, callerVars
  <2>12. SeveredRole'
    BY <1>10 DEF SeveredRole, ReadData, ReadEnd, pollerVars, callerVars
  <2>13. HeldRole'
    BY <1>10 DEF HeldRole, ReadData, ReadEnd, pollerVars, callerVars
  <2>14. QED
    BY <2>11, <2>12, <2>13 DEF RoleInv
<1>11. CASE ClearConn(p)
  <2>11. PollerRole'
    BY <1>11 DEF PollerRole, ClearConn, callerVars
  <2>12. SeveredRole'
    BY <1>11 DEF SeveredRole, ClearConn, callerVars
  <2>13. HeldRole'
    BY <1>11 DEF HeldRole, ClearConn, callerVars
  <2>14. QED
    BY <2>11, <2>12, <2>13 DEF RoleInv
<1>12. CASE WakeUp(p)
  <2>11. PollerRole'
    BY <1>12 DEF PollerRole, WakeUp, AfterSleep, pollerVars, callerVars
  <2>12. SeveredRole'
    BY <1>12 DEF SeveredRole, WakeUp, AfterSleep, pollerVars, callerVars
  <2>13. HeldRole'
    BY <1>12 DEF HeldRole, WakeUp, AfterSleep, pollerVars, callerVars
  <2>14. QED
    BY <2>11, <2>12, <2>13 DEF RoleInv
<1>13. QED
  BY <1>1, <1>2, <1>3, <1>4, <1>5, <1>6, <1>7, <1>8, <1>9, <1>10, <1>11, <1>12
     DEF PollerStep, RefreshNetworkError, RefreshRefused, RequestError, RequestDenied

LEMMA RoleClose ==
  ASSUME AtomicBump, TypeOK, ConnInv, RoleInv, NEW a \in Actors, CloseStep(a)
  PROVE  RoleInv'
<1>0. PollerRole /\ SeveredRole /\ HeldRole
  BY DEF RoleInv
<1> USE LongPollAssumption, <1>0 DEF TypeOK, Early, Streaming
<1>1. CASE CloseCheck(a)
  <2>1. \A p \in Pollers, n \in Nat :
           longPollingConn = <<p, n>> => n > 0 /\ n <= streams[p]
    BY DEF ConnInv, PollerRole
  <2>11. PollerRole'
    BY <1>1 DEF PollerRole, CloseCheck, ReturnFromClose, pollerVars
  <2>12. SeveredRole'
    BY <1>1 DEF SeveredRole, CloseCheck, ReturnFromClose, pollerVars
  <2>13. HeldRole'
    <3>1. SUFFICES ASSUME NEW b \in Actors, NEW p \in Pollers, NEW n \in Nat,
                          cpc'[b] = "closeBump", conn'[b] = <<p, n>>
                   PROVE  n > 0 /\ n <= streams[p]
      BY <1>1 DEF HeldRole, CloseCheck, pollerVars
    <3>2. CASE b # a
      <4>1. cpc[b] = "closeBump" /\ conn[b] = <<p, n>>
        BY <1>1, <3>1, <3>2 DEF CloseCheck, ReturnFromClose
      <4>2. QED
        BY <4>1 DEF HeldRole
    <3>3. CASE b = a
      <4>1. longPollingConn = <<p, n>>
        BY <1>1, <3>1, <3>3 DEF CloseCheck, ReturnFromClose
      <4>2. QED
        BY <2>1, <4>1
    <3>4. QED
      BY <3>2, <3>3
  <2>14. QED
    BY <2>11, <2>12, <2>13 DEF RoleInv
<1>2. CASE CloseBump(a)
  <2>1. listenID' = listenID + 1
    BY <1>2 DEF CloseBump, Bumped
  <2>2. \A p \in Pollers : mine'[p] < listenID'
    BY <1>2, <2>1 DEF CloseBump, PollerRole
  <2>3. \A p \in Pollers, n \in Nat :
           <<p, n>> \in severed' => <<p, n>> \in severed \/ conn[a] = <<p, n>>
    BY <1>2 DEF CloseBump
  <2>4. \A p \in Pollers, n \in Nat : conn[a] = <<p, n>> => n > 0 /\ n <= streams[p]
    BY <1>2 DEF CloseBump, HeldRole
  <2>11. PollerRole'
    BY <1>2, <2>1, <2>2 DEF PollerRole, CloseBump
  <2>12. SeveredRole'
    BY <1>2, <2>2, <2>3, <2>4 DEF SeveredRole, CloseBump
  <2>13. HeldRole'
    BY <1>2 DEF HeldRole, CloseBump
  <2>14. QED
    BY <2>11, <2>12, <2>13 DEF RoleInv
<1>3. CASE CloseClear(a)
  <2>11. PollerRole'
    BY <1>3 DEF PollerRole, CloseClear, ReturnFromClose, pollerVars
  <2>12. SeveredRole'
    BY <1>3 DEF SeveredRole, CloseClear, ReturnFromClose, pollerVars
  <2>13. HeldRole'
    BY <1>3 DEF HeldRole, CloseClear, ReturnFromClose, pollerVars
  <2>14. QED
    BY <2>11, <2>12, <2>13 DEF RoleInv
<1>4. QED
  BY <1>1, <1>2, <1>3 DEF CloseStep

LEMMA RoleCaller ==
  ASSUME TypeOK, RoleInv, NEW a \in Callers, CallerStep(a)
  PROVE  RoleInv'
<1>0. PollerRole /\ SeveredRole /\ HeldRole
  BY DEF RoleInv
<1> USE LongPollAssumption, <1>0 DEF TypeOK, Early, Streaming, Actors
<1>1. CASE Connect(a) \/ StartPairing(a)
  <2>11. PollerRole'
    BY <1>1 DEF PollerRole, Connect, StartPairing, Spawn, callerVars
  <2>12. SeveredRole'
    BY <1>1 DEF SeveredRole, Connect, StartPairing, Spawn, callerVars
  <2>13. HeldRole'
    BY <1>1 DEF HeldRole, Connect, StartPairing, Spawn, callerVars
  <2>14. QED
    BY <2>11, <2>12, <2>13 DEF RoleInv
<1>2. CASE ConnectBackground(a)
  <2>11. PollerRole'
    BY <1>2 DEF PollerRole, ConnectBackground, Spawn
  <2>12. SeveredRole'
    BY <1>2 DEF SeveredRole, ConnectBackground, Spawn
  <2>13. HeldRole'
    BY <1>2 DEF HeldRole, ConnectBackground, Spawn
  <2>14. QED
    BY <2>11, <2>12, <2>13 DEF RoleInv
<1>3. CASE ConnectBackgroundReturn(a) \/ Disconnect(a) \/ Reconnect(a)
  <2>11. PollerRole'
    BY <1>3 DEF PollerRole, ConnectBackgroundReturn, Disconnect, Reconnect, pollerVars
  <2>12. SeveredRole'
    BY <1>3 DEF SeveredRole, ConnectBackgroundReturn, Disconnect, Reconnect, pollerVars
  <2>13. HeldRole'
    <3>1. cpc'[a] # "closeBump" /\ \A b \in Actors : b # a => cpc'[b] = cpc[b] /\ conn'[b] = conn[b]
      BY <1>3 DEF ConnectBackgroundReturn, Disconnect, Reconnect
    <3>2. streams' = streams
      BY <1>3 DEF ConnectBackgroundReturn, Disconnect, Reconnect, pollerVars
    <3>3. QED
      BY <3>1, <3>2 DEF HeldRole
  <2>14. QED
    BY <2>11, <2>12, <2>13 DEF RoleInv
<1>4. CASE ReconnectConnect(a)
  <2>11. PollerRole'
    BY <1>4 DEF PollerRole, ReconnectConnect, Spawn
  <2>12. SeveredRole'
    BY <1>4 DEF SeveredRole, ReconnectConnect, Spawn
  <2>13. HeldRole'
    BY <1>4 DEF HeldRole, ReconnectConnect, Spawn
  <2>14. QED
    BY <2>11, <2>12, <2>13 DEF RoleInv
<1>5. QED
  BY <1>1, <1>2, <1>3, <1>4 DEF CallerStep

LEMMA RoleStep ==
  ASSUME AtomicBump, TypeOK, ConnInv, RoleInv, [Next]_vars
  PROVE  RoleInv'
<1>1. CASE UNCHANGED vars
  BY <1>1 DEF RoleInv, PollerRole, SeveredRole, HeldRole, vars, pollerVars, callerVars
<1>2. ASSUME NEW p \in Pollers, CloseInFires(p)
      PROVE  RoleInv'
  BY <1>2 DEF RoleInv, PollerRole, SeveredRole, HeldRole, TypeOK, Actors, CloseInFires, pollerVars
<1>3. QED
  BY <1>1, <1>2, RolePoller, RoleClose, RoleCaller DEF Next

LEMMA RoleInit == Init => ConnInv /\ RoleInv
<1>1. Init => ConnInv
  BY LongPollAssumption DEF Init, ConnInv
<1>2. ASSUME Init, NEW p \in Pollers
      PROVE  mine[p] = listenID /\ streams[p] = 0 /\ pc[p] = "unused" /\ late[p] = 0
  BY <1>2 DEF Init
<1>3. Init => severed = {} /\ listenID = 0 /\ \A a \in Actors : cpc[a] = "idle"
  BY DEF Init
<1>4. Init => RoleInv
  BY <1>2, <1>3 DEF RoleInv, PollerRole, SeveredRole, HeldRole, Early, Streaming
<1>5. QED
  BY <1>1, <1>4

LEMMA RoleAlways ==
  ASSUME AtomicBump
  PROVE  Spec => []RoleInv
<1>1. TypeOK /\ TypeOK' /\ ConnInv /\ RoleInv /\ [Next]_vars
        => (ConnInv /\ RoleInv)'
  BY AtomicBump, ConnStep, RoleStep
<1>2. QED
  BY <1>1, RoleInit, TypeCorrect, PTL DEF Spec

(* When listenID++ is atomic, closing a poller's body takes its role away  *)
(* for good (closeLongPolling).                                            *)
THEOREM SeveredThm ==
  ASSUME AtomicBump
  PROVE  Spec => []SeveredIsSuperseded
<1>1. TypeOK /\ RoleInv => SeveredIsSuperseded
  BY DEF TypeOK, RoleInv, SeveredRole, SeveredIsSuperseded
<1>2. QED
  BY <1>1, RoleAlways, TypeCorrect, PTL

(* Then, too, a poller without the role installs at most one more body: it *)
(* looks at listenID before each request (doLongPoll).                     *)
THEOREM LateThm ==
  ASSUME AtomicBump
  PROVE  Spec => []LateAtMostOnce
<1>1. RoleInv => LateAtMostOnce
  BY DEF RoleInv, PollerRole, LateAtMostOnce
<1>2. QED
  BY <1>1, RoleAlways, PTL
=============================================================================
