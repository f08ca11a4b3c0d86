---------------------------- MODULE DittoPinger ----------------------------
(***************************************************************************)
(* libgm's dittoPinger: the loop that pings the phone while a long poll    *)
(* runs, the goroutines that wait for overdue answers, and the events that *)
(* tell the bridge whether the phone responds.                             *)
(*                                                                         *)
(* A family is one ping of the loop with the pings sent after it while it  *)
(* stays unanswered; they share a resetter.  <<f, n>> is the ping of       *)
(* family f sent with timeoutCount n, so <<f, 0>> is the loop's own.       *)
(* Clocks are abstracted to what the durations imply: the 5 seconds before *)
(* a resetter closes are shorter than any ping timeout, and a normal ping  *)
(* or a reping never follows another ping within minPingInterval.          *)
(* Handlers run under pingHandlingLock and are atomic; so is closing reset *)
(* or stop, which decides the select of every goroutine waiting on it.     *)
(***************************************************************************)
EXTENDS Naturals

CONSTANTS
    Families,           \* resetters; one is used again when it is closed
    alertTimeoutCount,  \* setting: timeoutCount from which a timeout alerts
    MaxCount            \* bound: timeoutCount of the parent of a family

ASSUME PingerAssumption ==
    /\ alertTimeoutCount \in Nat \ {0}
    /\ MaxCount \in Nat /\ MaxCount > alertTimeoutCount
    /\ Families # {}

VARIABLES
    loop,               \* Loop: "select", "wait"ing inside Ping, or "stopped"
    cur,                \* the family of the latest ping of the loop
    ping,               \* each ping: "none", "fresh", "wait", "late" or "done"
    short,              \* timeout of a family's first ping: "short" or "normal"
    timeoutCount,       \* the parent's local timeoutCount
    reset,              \* its resetter: "open", "done" (closes in 5s), "closed"
    firstPingDone, notRespondingSent,
    pingFails,          \* whether pingFails > 0, as "none" or "some"
    phone,              \* the last event: "none", "notResponding", "responding"
    missed              \* pings of cur that timed out since the last answer

pings == <<loop, cur, ping, short, timeoutCount, reset>>
flags == <<firstPingDone, notRespondingSent, pingFails, phone, missed>>
vars == <<pings, flags>>

Counts == 0..MaxCount

(* WaitForResponse is waiting for the ping's answer.                       *)
Waited == {"fresh", "wait", "late"}

Init ==
    /\ loop = "select"
    /\ cur \in Families
    /\ ping = [f \in Families |-> [n \in Counts |-> "none"]]
    /\ short = [f \in Families |-> "normal"]
    /\ timeoutCount = [f \in Families |-> 0]
    /\ reset = [f \in Families |-> "closed"]
    /\ firstPingDone = FALSE /\ notRespondingSent = FALSE
    /\ pingFails = "none" /\ phone = "none" /\ missed = 0
-----------------------------------------------------------------------------
(* Loop: a request that waited 5s (pingShortCircuit) or pingInterval makes *)
(* a new resetter and calls Ping with timeoutCount 0, which waits.         *)
LoopPing(f, timeout) ==
    /\ loop = "select" /\ reset[f] = "closed"
    /\ loop' = "wait"
    /\ cur' = f
    /\ ping' = [ping EXCEPT ![f] = [n \in Counts |-> IF n = 0 THEN "wait" ELSE "none"]]
    /\ short' = [short EXCEPT ![f] = timeout]
    /\ timeoutCount' = [timeoutCount EXCEPT ![f] = 0]
    /\ reset' = [reset EXCEPT ![f] = "open"]
    /\ missed' = 0
    /\ UNCHANGED <<firstPingDone, notRespondingSent, pingFails, phone>>

(* Ping's early returns: less than minPingInterval after the last one,     *)
(* which leaves no trace, or NotifyDittoActivity fails.                    *)
LoopPingError ==
    /\ loop = "select"
    /\ pingFails' = "some"
    /\ UNCHANGED <<pings, firstPingDone, notRespondingSent, phone, missed>>

LoopStep ==
    \/ \E f \in Families, timeout \in {"short", "normal"} : LoopPing(f, timeout)
    \/ LoopPingError
-----------------------------------------------------------------------------
AfterAnswerStuck == TRUE  \* mutant: notRespondingSent is not reset

AfterAnswer == FALSE

AnswerAnnouncedOnFails == pingFails = "some"  \* mutant: ignores notRespondingSent

AnswerAnnounced == notRespondingSent \/ pingFails = "some"

(* pingChan delivers: OnRespond, which starts the resetter's 5 seconds.    *)
Respond(f, n) ==
    /\ ping[f][n] \in Waited
    /\ ping' = [ping EXCEPT ![f][n] = "done"]
    /\ phone' = IF AnswerAnnounced THEN "responding" ELSE phone
    /\ notRespondingSent' = AfterAnswer
    /\ pingFails' = "none"
    /\ firstPingDone' = TRUE
    /\ reset' = [reset EXCEPT ![f] = "done"]
    /\ loop' = IF f = cur /\ n = 0 THEN "select" ELSE loop
    /\ missed' = 0
    /\ UNCHANGED <<cur, short, timeoutCount>>

(* Send PhoneNotResponding unless it was sent.                             *)
Alert ==
    /\ phone' = IF notRespondingSent THEN phone ELSE "notResponding"
    /\ notRespondingSent' = TRUE

AlertsOnTimeoutLater(f, n) ==  \* mutant: the first ping is like any other
    (n = 0 /\ short[f] = "short") \/ n >= alertTimeoutCount

AlertsOnTimeout(f, n) ==
    \/ n = 0 /\ short[f] = "short"
    \/ n >= alertTimeoutCount
    \/ ~firstPingDone

(* The timer fires: OnTimeout, then wait on in the backoff loop.  A ping   *)
(* of a family started since cannot time out before the old one is reset.  *)
Timeout(f, n) ==
    /\ ping[f][n] = "wait"
    /\ f = cur => \A g \in Families \ {f} : reset[g] = "closed"
    /\ ping' = [ping EXCEPT ![f][n] = "late"]
    /\ timeoutCount' = [timeoutCount EXCEPT ![f] = IF n = 0 THEN 1 ELSE @]
    /\ IF AlertsOnTimeout(f, n) THEN Alert ELSE UNCHANGED <<phone, notRespondingSent>>
    /\ missed' = IF f = cur THEN missed + 1 ELSE missed
    /\ UNCHANGED <<loop, cur, short, reset, firstPingDone, pingFails>>

SubTimeoutCountZero(f) == 0  \* mutant: repings restart the count

SubTimeoutCount(f) == timeoutCount[f]

(* The reping ticker of a family's parent: Ping with its timeoutCount, in  *)
(* a goroutine of its own.  Whether or not it is sent, the count goes up.  *)
Reping(f) ==
    /\ ping[f][0] = "late" /\ timeoutCount[f] < MaxCount
    /\ ping' = [ping EXCEPT ![f][SubTimeoutCount(f)] =
                    IF reset[f] = "done" THEN "fresh" ELSE "wait"]
    /\ timeoutCount' = [timeoutCount EXCEPT ![f] = @ + 1]
    /\ UNCHANGED <<loop, cur, short, reset, flags>>

RepingError(f) ==
    /\ ping[f][0] = "late" /\ timeoutCount[f] < MaxCount
    /\ pingFails' = "some"
    /\ timeoutCount' = [timeoutCount EXCEPT ![f] = @ + 1]
    /\ UNCHANGED <<loop, cur, ping, short, reset, firstPingDone, notRespondingSent, phone, missed>>

(* A request timeout during backoff.                                       *)
ShortCircuit(f, n) ==
    /\ ping[f][n] = "late"
    /\ n = 0 => timeoutCount[f] < MaxCount
    /\ Alert
    /\ timeoutCount' = [timeoutCount EXCEPT ![f] = IF n = 0 THEN @ + 1 ELSE @]
    /\ UNCHANGED <<loop, cur, ping, short, reset, firstPingDone, pingFails, missed>>

GiveUpSubPings(f) ==  \* mutant: the parent does not wait for reset.C
    [n \in Counts |-> IF n > 0 /\ ping[f][n] \in Waited THEN "done" ELSE ping[f][n]]

(* reset.C closes: every goroutine of the family gives up.                 *)
GiveUp(f) == [n \in Counts |-> IF ping[f][n] \in Waited THEN "done" ELSE ping[f][n]]

ResetCloses(f) ==
    /\ reset[f] = "done"
    /\ reset' = [reset EXCEPT ![f] = "closed"]
    /\ ping' = [ping EXCEPT ![f] = GiveUp(f)]
    /\ loop' = IF f = cur /\ ping[f][0] \in Waited THEN "select" ELSE loop
    /\ UNCHANGED <<cur, short, timeoutCount, flags>>

(* doLongPoll returns and closes stop.                                     *)
Stop ==
    /\ loop # "stopped"
    /\ loop' = "stopped"
    /\ ping' = [f \in Families |-> GiveUp(f)]
    /\ UNCHANGED <<cur, short, timeoutCount, reset, flags>>
-----------------------------------------------------------------------------
Next ==
    \/ LoopStep
    \/ \E f \in Families, n \in Counts : Respond(f, n) \/ Timeout(f, n) \/ ShortCircuit(f, n)
    \/ \E f \in Families : Reping(f) \/ RepingError(f) \/ ResetCloses(f)
    \/ Stop

Spec == Init /\ [][Next]_vars

(* Fairness: the loop goes on pinging as long as the poll runs, and a      *)
(* resetter closes.  The phone answers one of the pings in flight whenever *)
(* pings are in flight again and again; without that nothing is promised.  *)
Fairness ==
    /\ WF_vars(\E f \in Families : LoopPing(f, "normal"))
    /\ \A f \in Families : WF_vars(ResetCloses(f))
    /\ WF_vars(\E f \in Families, n \in Counts : Respond(f, n))

FairSpec == Spec /\ Fairness
-----------------------------------------------------------------------------
TypeOK ==
    /\ loop \in {"select", "wait", "stopped"}
    /\ cur \in Families
    /\ ping \in [Families -> [Counts -> {"none", "done"} \cup Waited]]
    /\ short \in [Families -> {"short", "normal"}]
    /\ timeoutCount \in [Families -> Counts]
    /\ reset \in [Families -> {"open", "done", "closed"}]
    /\ firstPingDone \in BOOLEAN /\ notRespondingSent \in BOOLEAN
    /\ pingFails \in {"none", "some"}
    /\ phone \in {"none", "notResponding", "responding"}
    /\ missed \in Nat

(* What the bridge was told last is what the pinger believes: an alert is  *)
(* withdrawn by the first answer to any ping, and never repeated.          *)
BridgeToldTruth == notRespondingSent <=> (phone = "notResponding")

(* The goals of the pinger that promise an alert: while a family has had   *)
(* no answer, an overdue ping that was short-circuited, or the first of    *)
(* the connection, or far enough into the backoff, keeps the bridge        *)
(* alerted, whatever the pings of an earlier family still do.              *)
AlertStands ==
    \A f \in Families, n \in Counts :
        /\ ping[f][n] = "late" /\ reset[f] = "open"
        /\ (n = 0 /\ short[f] = "short") \/ n >= alertTimeoutCount \/ ~firstPingDone
        => phone = "notResponding"

(* A phone is not left unreported for more than alertTimeoutCount overdue  *)
(* pings in a row.                                                         *)
AlertBudget == loop = "wait" /\ phone # "notResponding" => missed <= alertTimeoutCount

(* "send PhoneNotResponding after 3 failed pings" (longpoll.go:43).        *)
AlertAfterThree == loop = "wait" /\ phone # "notResponding" => missed < 3

(* A goroutine never outlives its family: when the resetter has closed,    *)
(* nobody waits for one of its pings, and the loop has moved on.           *)
NoOrphans ==
    \A f \in Families :
        reset[f] = "closed" =>
            /\ \A n \in Counts : ping[f][n] \notin Waited
            /\ f = cur => loop # "wait"

(* Once the phone answers pings again, an alert is withdrawn (unless the   *)
(* long poll ends first), even when it was a stale one.                    *)
AlertWithdrawn == phone = "notResponding" ~> (phone = "responding" \/ loop = "stopped")
=============================================================================
