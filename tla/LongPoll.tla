------------------------------ MODULE LongPoll ------------------------------
(***************************************************************************)
(* The connection lifecycle of libgm's Client: the goroutines that run     *)
(* doLongPoll, the shared fields listenID and longPollingConn they race on *)
(* with no lock, and the callers of Connect, Disconnect, Reconnect,        *)
(* StartLogin/StartGaiaPairing and ConnectBackground.                      *)
(*                                                                         *)
(* A poller is one call of doLongPoll.  Its response bodies are numbered:  *)
(* <<p, n>> is the n-th body p opened, the value stored in longPollingConn.*)
(* Every statement that reads or writes shared fields is a step of its own *)
(* where another goroutine can run in between.  Payloads, logging and the  *)
(* disconnecting flag (which only selects a log level) are left out.       *)
(***************************************************************************)
EXTENDS Naturals

CONSTANTS
    Pollers,     \* identities of doLongPoll calls; each is used once
    Callers,     \* goroutines that call the Client's connection API
    NoConn,      \* longPollingConn == nil
    AtomicBump,  \* TRUE: c.listenID++ is indivisible; FALSE: it is the plain
                 \* load/add/store the Go build may produce (a data race)
    Enabled,     \* bound: the kinds of pollers that callers start
    MaxErrors,   \* errorCount saturates here; the code compares it to 0 and 3
    MaxStreams   \* bound: bodies one poller opens

ASSUME LongPollAssumption ==
    /\ Pollers \cap Callers = {}
    /\ NoConn \notin Pollers \X Nat
    /\ AtomicBump \in BOOLEAN
    /\ Enabled \subseteq {"main", "qr", "gaia", "background"}
    /\ MaxErrors \in Nat /\ MaxErrors >= 3
    /\ MaxStreams \in Nat

VARIABLES
    listenID,         \* Client.listenID
    longPollingConn,  \* Client.longPollingConn: a body or NoConn
    pc,               \* control point of each doLongPoll call
    kind,             \* its (loggedIn, background) arguments
    mine,             \* its local listenID
    errorCount,       \* its local errorCount
    streams,          \* bodies it has opened
    severed,          \* its bodies that closeLongPolling closed
    posts,            \* how often it has started onFirstConnect
    lastEvent,        \* the last Listen* event it triggered
    late,             \* bodies it opened when it was no longer the listener
    result,           \* what readLongPoll/doLongPoll returned (or will return)
    cpc,              \* control point of each caller and closeIn goroutine
    op,               \* the call it is executing
    conn,             \* its local conn in closeLongPolling
    seen              \* the listenID it (or a starting poller) loaded for ++

pollerVars == <<kind, mine, errorCount, streams, severed, posts, lastEvent, late, result>>
callerVars == <<cpc, op, conn>>
vars == <<listenID, longPollingConn, pc, pollerVars, callerVars, seen>>

(* The goroutine that waits for a background poller's closeIn timer is     *)
(* identified with the poller that started it.                             *)
Actors == Callers \cup Pollers

(* doLongPoll's arguments: Connect and ConnectBackground poll logged in;   *)
(* Connect and StartGaiaPairing pass an onFirstConnect callback.           *)
Kinds == {"main", "qr", "gaia", "background"}
LoggedIn(k) == k \in {"main", "background"}
HasCallback(k) == k \in {"main", "gaia"}
Events == {"none", "temporary", "recovered", "fatal"}
Points == {"unused", "load", "bump", "check", "refresh", "request", "install",
           "opening", "reading", "clear", "sleep", "stopped"}
CallerPoints == {"idle", "closeCheck", "closeBump", "closeClear", "connect", "wait"}
Ops == {"none", "disconnect", "reconnect", "background", "timer"}
Bodies == Pollers \X Nat

Init ==
    /\ listenID = 0
    /\ longPollingConn = NoConn
    /\ pc = [p \in Pollers |-> "unused"]
    /\ kind = [p \in Pollers |-> "main"]
    /\ mine = [p \in Pollers |-> 0]
    /\ errorCount = [p \in Pollers |-> 1]
    /\ streams = [p \in Pollers |-> 0]
    /\ severed = {}
    /\ posts = [p \in Pollers |-> 0]
    /\ lastEvent = [p \in Pollers |-> "none"]
    /\ late = [p \in Pollers |-> 0]
    /\ result = [p \in Pollers |-> "clean"]
    /\ cpc = [a \in Actors |-> "idle"]
    /\ op = [a \in Actors |-> "none"]
    /\ conn = [a \in Actors |-> NoConn]
    /\ seen = [a \in Actors |-> 0]
-----------------------------------------------------------------------------
(* c.listenID++ by actor a: the stored value is one more than the current  *)
(* value or, when the increment is not atomic, than the value a loaded.    *)
BumpedMissing(a) == {listenID}  \* mutant: closing does not count up

Bumped(a) ==
    {listenID + 1} \cup (IF AtomicBump THEN {} ELSE {seen[a] + 1})

(* go c.doLongPoll(...): a fresh poller of kind k is scheduled.            *)
Spawn(p, k) ==
    /\ k \in Enabled
    /\ pc[p] = "unused"
    /\ pc' = [pc EXCEPT ![p] = "load"]
    /\ kind' = [kind EXCEPT ![p] = k]

(* trigger: the poller's event handler call, made only when loggedIn.      *)
Trigger(p, e) ==
    lastEvent' = [lastEvent EXCEPT ![p] = IF LoggedIn(kind[p]) THEN e ELSE @]
-----------------------------------------------------------------------------
(* doLongPoll: listenID++ and the poller's own copy of it.                 *)
StartLoad(p) ==
    /\ pc[p] = "load"
    /\ pc' = [pc EXCEPT ![p] = "bump"]
    /\ seen' = [seen EXCEPT ![p] = listenID]
    /\ UNCHANGED <<listenID, longPollingConn, pollerVars, callerVars>>

StartBump(p) ==
    /\ pc[p] = "bump"
    /\ pc' = [pc EXCEPT ![p] = "check"]
    /\ \E id \in Bumped(p) :
         /\ listenID' = id
         /\ mine' = [mine EXCEPT ![p] = id]
    /\ seen' = [seen EXCEPT ![p] = 0]
    /\ UNCHANGED <<longPollingConn, kind, errorCount, streams, severed, posts,
                   lastEvent, late, result, callerVars>>

StillListenerAlways(p) == TRUE  \* mutant: the loop does not test listenID

StillListener(p) == listenID = mine[p]

(* for c.listenID == listenID: leave the loop (returning true) when        *)
(* another poller or closeLongPolling has taken over.                      *)
CheckListener(p) ==
    /\ pc[p] = "check"
    /\ \/ /\ StillListener(p)
          /\ pc' = [pc EXCEPT ![p] = "refresh"]
          /\ UNCHANGED result
       \/ /\ ~StillListener(p)
          /\ pc' = [pc EXCEPT ![p] = "stopped"]
          /\ result' = [result EXCEPT ![p] = "clean"]
    /\ UNCHANGED <<listenID, longPollingConn, kind, mine, errorCount, streams, severed,
                   posts, lastEvent, late, callerVars, seen>>

NextErrorCount(p) == IF errorCount[p] < MaxErrors THEN errorCount[p] + 1 ELSE MaxErrors

GivesUpNever(p, n) == FALSE  \* mutant: background polling retries for ever

(* A background poller returns instead of sleeping after two failures.     *)
GivesUp(p, n) == kind[p] = "background" /\ n >= 3

(* A retryable failure: tell the handler, count it, then sleep or give up. *)
FailTemporarily(p) ==
    LET n == NextErrorCount(p)
        giveUp == GivesUp(p, n)
    IN  /\ Trigger(p, "temporary")
        /\ errorCount' = [errorCount EXCEPT ![p] = n]
        /\ pc' = [pc EXCEPT ![p] = IF giveUp THEN "stopped" ELSE "sleep"]
        /\ result' = [result EXCEPT ![p] = IF giveUp THEN "unclean" ELSE @]
        /\ UNCHANGED <<listenID, longPollingConn, kind, mine, streams, severed,
                       posts, late, callerVars, seen>>

FailFatally(p) ==
    /\ Trigger(p, "fatal")
    /\ pc' = [pc EXCEPT ![p] = "stopped"]
    /\ result' = [result EXCEPT ![p] = "unclean"]
    /\ UNCHANGED <<listenID, longPollingConn, kind, mine, errorCount, streams,
                   severed, posts, late, callerVars, seen>>

(* refreshAuthToken inside the loop: fine (or nothing to do, always so     *)
(* while pairing since Browser is nil), a network error, or a refusal.     *)
RefreshOK(p) ==
    /\ pc[p] = "refresh"
    /\ pc' = [pc EXCEPT ![p] = "request"]
    /\ UNCHANGED <<listenID, longPollingConn, pollerVars, callerVars, seen>>

RefreshNetworkError(p) ==
    /\ pc[p] = "refresh" /\ LoggedIn(kind[p])
    /\ FailTemporarily(p)

RefreshRefused(p) ==
    /\ pc[p] = "refresh" /\ LoggedIn(kind[p])
    /\ FailFatally(p)

(* The ReceiveMessages request: a transport error or a status >= 400, a    *)
(* 401/403, or an open body.                                               *)
RequestError(p) == pc[p] = "request" /\ FailTemporarily(p)

RequestDenied(p) == pc[p] = "request" /\ FailFatally(p)

RecoveryDueLate(p) == errorCount[p] > 1  \* mutant: the first body is silent

RecoveryDue(p) == errorCount[p] > 0

RequestOK(p) ==
    /\ pc[p] = "request"
    /\ streams[p] < MaxStreams
    /\ pc' = [pc EXCEPT ![p] = "install"]
    /\ errorCount' = [errorCount EXCEPT ![p] = 0]
    /\ IF RecoveryDue(p) THEN Trigger(p, "recovered") ELSE UNCHANGED lastEvent
    /\ streams' = [streams EXCEPT ![p] = @ + 1]
    /\ UNCHANGED <<listenID, longPollingConn, kind, mine, severed, posts, late,
                   result, callerVars, seen>>

RunsCallbackAgain(p) == HasCallback(kind[p])  \* mutant: onFirstConnect is not reset

RunsCallback(p) == HasCallback(kind[p]) /\ posts[p] = 0

(* c.longPollingConn = resp.Body, with no second look at c.listenID, and   *)
(* go onFirstConnect() once.                                               *)
Install(p) ==
    /\ pc[p] = "install"
    /\ pc' = [pc EXCEPT ![p] = "opening"]
    /\ longPollingConn' = <<p, streams[p]>>
    /\ posts' = [posts EXCEPT ![p] = IF RunsCallback(p) THEN @ + 1 ELSE @]
    /\ late' = [late EXCEPT ![p] = IF listenID = mine[p] THEN @ ELSE @ + 1]
    /\ UNCHANGED <<listenID, kind, mine, errorCount, streams, severed, lastEvent,
                   result, callerVars, seen>>

(* readLongPoll, the opening bytes: a failure returns false; otherwise the *)
(* stream is read, and a background poller starts its closeIn goroutine.   *)
ReadOpening(p) ==
    /\ pc[p] = "opening"
    /\ \/ /\ pc' = [pc EXCEPT ![p] = "clear"]
          /\ result' = [result EXCEPT ![p] = "unclean"]
          /\ UNCHANGED <<op, cpc>>
       \/ /\ <<p, streams[p]>> \notin severed
          /\ pc' = [pc EXCEPT ![p] = "reading"]
          /\ result' = [result EXCEPT ![p] = "unclean"]
          /\ IF kind[p] = "background"
             THEN /\ op' = [op EXCEPT ![p] = "timer"]
                  /\ cpc' = [cpc EXCEPT ![p] = "wait"]
             ELSE UNCHANGED <<op, cpc>>
    /\ UNCHANGED <<listenID, longPollingConn, kind, mine, errorCount, streams,
                   severed, posts, lastEvent, late, conn, seen>>

(* A data message: HandleRPCMsg, after which receivedEvents is true.       *)
ReadData(p) ==
    /\ pc[p] = "reading"
    /\ <<p, streams[p]>> \notin severed
    /\ result' = [result EXCEPT ![p] = "clean"]
    /\ UNCHANGED <<listenID, longPollingConn, pc, kind, mine, errorCount, streams,
                   severed, posts, lastEvent, late, callerVars, seen>>

(* The read ends: EOF, an error, the 30 minute limit of lphttp, or Close.  *)
ReadEnd(p) ==
    /\ pc[p] = "reading"
    /\ pc' = [pc EXCEPT ![p] = "clear"]
    /\ UNCHANGED <<listenID, longPollingConn, pollerVars, callerVars, seen>>

ConnAfterReadKept == longPollingConn  \* mutant: the field is not reset

ConnAfterRead == NoConn

(* c.longPollingConn = nil, whoever's body it holds by now.                *)
ClearConn(p) ==
    /\ pc[p] = "clear"
    /\ longPollingConn' = ConnAfterRead
    /\ IF kind[p] = "background"
       THEN /\ pc' = [pc EXCEPT ![p] = "stopped"]
            /\ UNCHANGED result
       ELSE /\ pc' = [pc EXCEPT ![p] = "check"]
            /\ result' = [result EXCEPT ![p] = "clean"]
    /\ UNCHANGED <<listenID, kind, mine, errorCount, streams, severed, posts,
                   lastEvent, late, callerVars, seen>>

AfterSleepNoCheck == "refresh"  \* mutant: retries without testing listenID

AfterSleep == "check"

WakeUp(p) ==
    /\ pc[p] = "sleep"
    /\ pc' = [pc EXCEPT ![p] = AfterSleep]
    /\ UNCHANGED <<listenID, longPollingConn, pollerVars, callerVars, seen>>
-----------------------------------------------------------------------------
(* closeLongPolling by actor a: nothing unless a body is installed.        *)
ReturnFromClose(a) ==
    /\ cpc' = [cpc EXCEPT ![a] = IF op[a] = "reconnect" THEN "connect" ELSE "idle"]
    /\ op' = [op EXCEPT ![a] = "none"]
    /\ conn' = [conn EXCEPT ![a] = NoConn]

CloseCheck(a) ==
    /\ cpc[a] = "closeCheck"
    /\ \/ /\ longPollingConn = NoConn
          /\ ReturnFromClose(a)
          /\ UNCHANGED seen
       \/ /\ longPollingConn # NoConn
          /\ cpc' = [cpc EXCEPT ![a] = "closeBump"]
          /\ conn' = [conn EXCEPT ![a] = longPollingConn]
          /\ seen' = [seen EXCEPT ![a] = listenID]
          /\ UNCHANGED op
    /\ UNCHANGED <<listenID, longPollingConn, pc, pollerVars>>

(* listenID++ and conn.Close()                                             *)
CloseBump(a) ==
    /\ cpc[a] = "closeBump"
    /\ listenID' \in Bumped(a)
    /\ severed' = severed \cup {conn[a]}
    /\ cpc' = [cpc EXCEPT ![a] = "closeClear"]
    /\ seen' = [seen EXCEPT ![a] = 0]
    /\ UNCHANGED <<longPollingConn, pc, kind, mine, errorCount, streams, posts,
                   lastEvent, late, result, op, conn>>

CloseClear(a) ==
    /\ cpc[a] = "closeClear"
    /\ longPollingConn' = NoConn
    /\ ReturnFromClose(a)
    /\ UNCHANGED <<listenID, pc, pollerVars, seen>>
-----------------------------------------------------------------------------
(* Connect: when the token is there and fresh, start a main poller.        *)
(* Failing leaves everything as it is.                                     *)
Connect(a) ==
    /\ cpc[a] = "idle" /\ a \in Callers
    /\ \E p \in Pollers : Spawn(p, "main")
    /\ UNCHANGED <<listenID, longPollingConn, mine, errorCount, streams, severed,
                   posts, lastEvent, late, result, callerVars, seen>>

(* StartLogin and StartGaiaPairing poll before there is a login.           *)
StartPairing(a) ==
    /\ cpc[a] = "idle" /\ a \in Callers
    /\ \E p \in Pollers, k \in {"qr", "gaia"} : Spawn(p, k)
    /\ UNCHANGED <<listenID, longPollingConn, mine, errorCount, streams, severed,
                   posts, lastEvent, late, result, callerVars, seen>>

(* ConnectBackground runs doLongPoll itself and waits for its result.      *)
ConnectBackground(a) ==
    /\ cpc[a] = "idle" /\ a \in Callers
    /\ \E p \in Pollers :
         /\ Spawn(p, "background")
         /\ conn' = [conn EXCEPT ![a] = <<p, 0>>]
    /\ cpc' = [cpc EXCEPT ![a] = "wait"]
    /\ op' = [op EXCEPT ![a] = "background"]
    /\ UNCHANGED <<listenID, longPollingConn, mine, errorCount, streams, severed,
                   posts, lastEvent, late, result, seen>>

ConnectBackgroundReturn(a) ==
    /\ cpc[a] = "wait" /\ op[a] = "background"
    /\ pc[conn[a][1]] = "stopped"
    /\ cpc' = [cpc EXCEPT ![a] = "idle"]
    /\ op' = [op EXCEPT ![a] = "none"]
    /\ conn' = [conn EXCEPT ![a] = NoConn]
    /\ UNCHANGED <<listenID, longPollingConn, pc, pollerVars, seen>>

Disconnect(a) ==
    /\ cpc[a] = "idle" /\ a \in Callers
    /\ cpc' = [cpc EXCEPT ![a] = "closeCheck"]
    /\ op' = [op EXCEPT ![a] = "disconnect"]
    /\ UNCHANGED <<listenID, longPollingConn, pc, pollerVars, conn, seen>>

Reconnect(a) ==
    /\ cpc[a] = "idle" /\ a \in Callers
    /\ cpc' = [cpc EXCEPT ![a] = "closeCheck"]
    /\ op' = [op EXCEPT ![a] = "reconnect"]
    /\ UNCHANGED <<listenID, longPollingConn, pc, pollerVars, conn, seen>>

(* The Connect call at the end of Reconnect succeeds or fails.             *)
ReconnectConnect(a) ==
    /\ cpc[a] = "connect"
    /\ cpc' = [cpc EXCEPT ![a] = "idle"]
    /\ \/ UNCHANGED <<pc, kind>>
       \/ \E p \in Pollers : Spawn(p, "main")
    /\ UNCHANGED <<listenID, longPollingConn, mine, errorCount, streams, severed,
                   posts, lastEvent, late, result, op, conn, seen>>

(* A background poller's closeIn timer fires, possibly long after the read *)
(* it was meant for has ended: nothing stops it.                           *)
CloseInFires(p) ==
    /\ cpc[p] = "wait" /\ op[p] = "timer"
    /\ cpc' = [cpc EXCEPT ![p] = "closeCheck"]
    /\ UNCHANGED <<listenID, longPollingConn, pc, pollerVars, op, conn, seen>>
-----------------------------------------------------------------------------
PollerStep(p) ==
    \/ StartLoad(p) \/ StartBump(p) \/ CheckListener(p)
    \/ RefreshOK(p) \/ RefreshNetworkError(p) \/ RefreshRefused(p)
    \/ RequestError(p) \/ RequestDenied(p) \/ RequestOK(p)
    \/ Install(p) \/ ReadOpening(p) \/ ReadData(p) \/ ReadEnd(p)
    \/ ClearConn(p) \/ WakeUp(p)

CloseStep(a) == CloseCheck(a) \/ CloseBump(a) \/ CloseClear(a)

CallerStep(a) ==
    \/ Connect(a) \/ StartPairing(a) \/ ConnectBackground(a)
    \/ ConnectBackgroundReturn(a) \/ Disconnect(a) \/ Reconnect(a)
    \/ ReconnectConnect(a)

Next ==
    \/ \E p \in Pollers : PollerStep(p) \/ CloseInFires(p)
    \/ \E a \in Actors : CloseStep(a)
    \/ \E a \in Callers : CallerStep(a)

Spec == Init /\ [][Next]_vars

(* Fairness: a poller never stops between two statements, because its HTTP *)
(* requests, its sleeps and its reads (lphttp.Timeout) are all bounded; so *)
(* are the calls under way.  Nothing obliges anyone to make a call, nor    *)
(* the server to send data.                                                *)
PollerProgress(p) ==
    \/ StartLoad(p) \/ StartBump(p) \/ CheckListener(p)
    \/ RefreshOK(p) \/ RefreshNetworkError(p) \/ RefreshRefused(p)
    \/ RequestError(p) \/ RequestDenied(p) \/ RequestOK(p)
    \/ Install(p) \/ ReadOpening(p) \/ ReadEnd(p) \/ ClearConn(p) \/ WakeUp(p)

Fairness ==
    /\ \A p \in Pollers : WF_vars(PollerProgress(p)) /\ WF_vars(CloseInFires(p))
    /\ \A a \in Actors : WF_vars(CloseStep(a))
    /\ \A a \in Callers : WF_vars(ConnectBackgroundReturn(a) \/ ReconnectConnect(a))

FairSpec == Spec /\ Fairness
-----------------------------------------------------------------------------
TypeOK ==
    /\ listenID \in Nat
    /\ longPollingConn \in Bodies \cup {NoConn}
    /\ pc \in [Pollers -> Points]
    /\ kind \in [Pollers -> Kinds]
    /\ mine \in [Pollers -> Nat]
    /\ errorCount \in [Pollers -> 0..MaxErrors]
    /\ streams \in [Pollers -> 0..MaxStreams]
    /\ severed \subseteq Bodies
    /\ posts \in [Pollers -> Nat]
    /\ lastEvent \in [Pollers -> Events]
    /\ late \in [Pollers -> Nat]
    /\ result \in [Pollers -> {"clean", "unclean"}]
    /\ cpc \in [Actors -> CallerPoints]
    /\ op \in [Actors -> Ops]
    /\ conn \in [Actors -> Bodies \cup {NoConn}]
    /\ seen \in [Actors -> Nat]

(* IsConnected                                                             *)
IsConnected == longPollingConn # NoConn

Streaming == {"opening", "reading", "clear"}

(* When IsConnected answers true, the body it saw is the one its poller    *)
(* installed last and has not finished with: neither a reader that ended   *)
(* nor a Disconnect ever leaves a dead body behind in longPollingConn.     *)
ConnIsLive ==
    IsConnected =>
        \E p \in Pollers :
            /\ longPollingConn = <<p, streams[p]>>
            /\ pc[p] \in Streaming

(* The event handler is never left with stale news about a poller: while   *)
(* it has a body the last event was ListenRecovered (also for its very     *)
(* first one, which is why errorCount starts at 1), while it backs off it  *)
(* was ListenTemporaryError, and nothing follows ListenFatalError.         *)
HandlerInformed ==
    \A p \in Pollers :
        LoggedIn(kind[p]) =>
            /\ pc[p] \in Streaming \cup {"install"} => lastEvent[p] = "recovered"
            /\ pc[p] = "sleep" => lastEvent[p] = "temporary"
            /\ lastEvent[p] = "fatal" => pc[p] = "stopped"

(* A connection callback runs exactly once per doLongPoll: postConnect is  *)
(* not repeated when a poller reconnects, and a pairing that waits for it  *)
(* is released by the first body.                                          *)
CallbackOnce ==
    \A p \in Pollers :
        /\ posts[p] <= 1
        /\ HasCallback(kind[p]) /\ pc[p] \in Streaming => posts[p] = 1

(* A poller whose current body was closed by closeLongPolling is no longer *)
(* the listener, so Disconnect and Reconnect end it for good.  Rests on    *)
(* listenID++ being atomic.                                                *)
SeveredIsSuperseded ==
    \A p \in Pollers :
        <<p, streams[p]>> \in severed => mine[p] < listenID

(* A poller that lost its role can still install the body it was asking    *)
(* for, over the new listener's, but never a second one.                   *)
LateAtMostOnce == \A p \in Pollers : late[p] <= 1

(* A poller that has lost its role for good eventually stops.              *)
SupersededStops ==
    \A p \in Pollers :
        <>[](pc[p] \notin {"unused", "load", "bump"} /\ mine[p] # listenID)
            => <>(pc[p] = "stopped")

(* ConnectBackground always returns: two failures or one stream end it.    *)
BackgroundReturns ==
    \A a \in Callers :
        (cpc[a] = "wait" /\ op[a] = "background") ~> (cpc[a] = "idle")
=============================================================================
