------------------------- MODULE DittoPingerProofs -------------------------
(***************************************************************************)
(* Proofs about DittoPinger for any number of families, any setting of     *)
(* alertTimeoutCount and any bound on the backoff.                         *)
(***************************************************************************)
EXTENDS DittoPinger, FiniteSetTheorems, TLAPS

(* Only the family of the loop's current ping can still be unanswered, and *)
(* while the loop waits that ping is waited for.                           *)
FamilyInv ==
    /\ \A f \in Families : f # cur => reset[f] # "open"
    /\ loop = "select" => reset[cur] # "open"
    /\ loop = "wait" => reset[cur] # "closed" /\ ping[cur][0] \in Waited
    /\ \A f \in Families : reset[f] = "closed" => \A n \in Counts : ping[f][n] \notin Waited

(* By the time a ping of an unanswered family is overdue, the families     *)
(* before it are closed, so none of their pings can withdraw an alert.     *)
LateInv ==
    \A n \in Counts :
        ping[cur][n] = "late" /\ reset[cur] = "open" =>
            \A g \in Families : g # cur => reset[g] = "closed"

IInv == TypeOK /\ FamilyInv /\ LateInv

LEMMA ZeroCount == 0 \in Counts /\ 1 \in Counts
BY PingerAssumption DEF Counts

LEMMA InitIInv == Init => IInv
<1> SUFFICES ASSUME Init PROVE IInv
  OBVIOUS
<1>1. /\ ping \in [Families -> [Counts -> {"none", "done"} \cup Waited]]
      /\ timeoutCount \in [Families -> Counts]
  BY ZeroCount DEF Init
<1>2. /\ short \in [Families -> {"short", "normal"}]
      /\ reset \in [Families -> {"open", "done", "closed"}]
  BY DEF Init
<1>3. TypeOK
  BY <1>1, <1>2 DEF Init, TypeOK
<1>4. \A f \in Families, n \in Counts : ping[f][n] = "none" /\ reset[f] = "closed"
  BY DEF Init
<1>5. FamilyInv /\ LateInv
  BY <1>4 DEF Init, FamilyInv, LateInv, Waited
<1>6. QED
  BY <1>3, <1>5 DEF IInv

LEMMA GiveUpType ==
  ASSUME TypeOK, NEW f \in Families
  PROVE  GiveUp(f) \in [Counts -> {"none", "done"}]
BY DEF TypeOK, GiveUp, Waited

LEMMA TypeStep ==
  ASSUME TypeOK, [Next]_vars
  PROVE  TypeOK'
<1> USE DEF TypeOK, pings, flags
<1>1. CASE UNCHANGED vars
  BY <1>1 DEF vars
<1>2. ASSUME NEW f \in Families, NEW t \in {"short", "normal"}, LoopPing(f, t)
      PROVE  TypeOK'
  <2>1. ping' \in [Families -> [Counts -> {"none", "done"} \cup Waited]]
    BY <1>2 DEF LoopPing, Waited
  <2>2. QED
    BY <1>2, <2>1, ZeroCount DEF LoopPing
<1>3. CASE LoopPingError
  BY <1>3 DEF LoopPingError
<1>4. ASSUME NEW f \in Families, NEW n \in Counts, Respond(f, n)
      PROVE  TypeOK'
  BY <1>4 DEF Respond, AfterAnswer
<1>5. ASSUME NEW f \in Families, NEW n \in Counts, Timeout(f, n)
      PROVE  TypeOK'
  <2>1. ping' \in [Families -> [Counts -> {"none", "done"} \cup Waited]]
    BY <1>5 DEF Timeout, Waited
  <2>2. timeoutCount' \in [Families -> Counts]
    BY <1>5, ZeroCount DEF Timeout
  <2>3. missed' \in Nat
    BY <1>5 DEF Timeout
  <2>4. notRespondingSent' \in BOOLEAN /\ phone' \in {"none", "notResponding", "responding"}
    BY <1>5 DEF Timeout, Alert
  <2>5. QED
    BY <1>5, <2>1, <2>2, <2>3, <2>4 DEF Timeout
<1>6. ASSUME NEW f \in Families, NEW n \in Counts, ShortCircuit(f, n)
      PROVE  TypeOK'
  <2>1. timeoutCount[f] < MaxCount => timeoutCount[f] + 1 \in Counts
    BY PingerAssumption DEF Counts
  <2>2. timeoutCount' \in [Families -> Counts]
    BY <1>6, <2>1 DEF ShortCircuit
  <2>3. QED
    BY <1>6, <2>2 DEF ShortCircuit, Alert
<1>7. ASSUME NEW f \in Families, Reping(f) \/ RepingError(f)
      PROVE  TypeOK'
  <2>1. timeoutCount[f] < MaxCount => timeoutCount[f] + 1 \in Counts
    BY PingerAssumption DEF Counts
  <2>2. timeoutCount' \in [Families -> Counts]
    BY <1>7, <2>1 DEF Reping, RepingError
  <2>3. ping' \in [Families -> [Counts -> {"none", "done"} \cup Waited]]
    <3>1. CASE RepingError(f)
      BY <3>1 DEF RepingError
    <3>2. CASE Reping(f)
      <4>1. PICK v \in Waited : ping' = [ping EXCEPT ![f][timeoutCount[f]] = v]
        BY <3>2 DEF Reping, SubTimeoutCount, Waited
      <4>2. QED
        BY <4>1
    <3>3. QED
      BY <1>7, <3>1, <3>2
  <2>4. QED
    BY <1>7, <2>2, <2>3 DEF Reping, RepingError
<1>8. ASSUME NEW f \in Families, ResetCloses(f)
      PROVE  TypeOK'
  BY <1>8, GiveUpType DEF ResetCloses
<1>9. CASE Stop
  BY <1>9, GiveUpType DEF Stop
<1>10. QED
  BY <1>1, <1>2, <1>3, <1>4, <1>5, <1>6, <1>7, <1>8, <1>9 DEF Next, LoopStep

LEMMA FamilyStep ==
  ASSUME TypeOK, FamilyInv, [Next]_vars
  PROVE  FamilyInv'
<1> USE ZeroCount DEF TypeOK, pings, flags
<1>1. CASE UNCHANGED vars
  BY <1>1 DEF vars, FamilyInv
<1>2. ASSUME NEW f \in Families, NEW t \in {"short", "normal"}, LoopPing(f, t)
      PROVE  FamilyInv'
  BY <1>2 DEF LoopPing, FamilyInv, Waited
<1>3. CASE LoopPingError
  BY <1>3 DEF LoopPingError, FamilyInv
<1>4. ASSUME NEW f \in Families, NEW n \in Counts, Respond(f, n)
      PROVE  FamilyInv'
  BY <1>4 DEF Respond, FamilyInv, Waited
<1>5. ASSUME NEW f \in Families, NEW n \in Counts, Timeout(f, n)
      PROVE  FamilyInv'
  BY <1>5 DEF Timeout, FamilyInv, Waited
<1>6. ASSUME NEW f \in Families, NEW n \in Counts, ShortCircuit(f, n)
      PROVE  FamilyInv'
  BY <1>6 DEF ShortCircuit, FamilyInv
<1>7. ASSUME NEW f \in Families, Reping(f)
      PROVE  FamilyInv'
  BY <1>7 DEF Reping, SubTimeoutCount, FamilyInv, Waited
<1>8. ASSUME NEW f \in Families, RepingError(f)
      PROVE  FamilyInv'
  BY <1>8 DEF RepingError, FamilyInv
<1>9. ASSUME NEW f \in Families, ResetCloses(f)
      PROVE  FamilyInv'
  BY <1>9 DEF ResetCloses, GiveUp, FamilyInv, Waited
<1>10. CASE Stop
  BY <1>10 DEF Stop, GiveUp, FamilyInv, Waited
<1>11. QED
  BY <1>1, <1>2, <1>3, <1>4, <1>5, <1>6, <1>7, <1>8, <1>9, <1>10 DEF Next, LoopStep

LEMMA LateStep ==
  ASSUME TypeOK, FamilyInv, LateInv, [Next]_vars
  PROVE  LateInv'
<1> USE ZeroCount DEF TypeOK, pings, flags
<1>1. CASE UNCHANGED vars
  BY <1>1 DEF vars, LateInv
<1>2. ASSUME NEW f \in Families, NEW t \in {"short", "normal"}, LoopPing(f, t)
      PROVE  LateInv'
  BY <1>2 DEF LoopPing, LateInv
<1>3. CASE LoopPingError
  BY <1>3 DEF LoopPingError, LateInv
<1>4. ASSUME NEW f \in Families, NEW n \in Counts, Respond(f, n)
      PROVE  LateInv'
  BY <1>4 DEF Respond, FamilyInv, LateInv
<1>5. ASSUME NEW f \in Families, NEW n \in Counts, Timeout(f, n)
      PROVE  LateInv'
  BY <1>5 DEF Timeout, LateInv
<1>6. ASSUME NEW f \in Families, NEW n \in Counts, ShortCircuit(f, n)
      PROVE  LateInv'
  BY <1>6 DEF ShortCircuit, LateInv
<1>7. ASSUME NEW f \in Families, Reping(f)
      PROVE  LateInv'
  BY <1>7 DEF Reping, SubTimeoutCount, LateInv
<1>8. ASSUME NEW f \in Families, RepingError(f)
      PROVE  LateInv'
  BY <1>8 DEF RepingError, LateInv
<1>9. ASSUME NEW f \in Families, ResetCloses(f)
      PROVE  LateInv'
  BY <1>9 DEF ResetCloses, GiveUp, LateInv, Waited
<1>10. CASE Stop
  BY <1>10 DEF Stop, GiveUp, LateInv, Waited
<1>11. QED
  BY <1>1, <1>2, <1>3, <1>4, <1>5, <1>6, <1>7, <1>8, <1>9, <1>10 DEF Next, LoopStep

LEMMA IInvStep == IInv /\ [Next]_vars => IInv'
BY TypeStep, FamilyStep, LateStep DEF IInv

(* The pinger's state keeps its types and the invariants above.            *)
THEOREM TypeCorrect == Spec => [](TypeOK /\ IInv)
<1>1. IInv => TypeOK
  BY DEF IInv
<1>2. QED
  BY <1>1, InitIInv, IInvStep, PTL DEF Spec

(* No goroutine waits for a ping of a family that was reset, and the loop  *)
(* is never stuck on one (WaitForResponse, resetter).                      *)
THEOREM NoOrphansThm == Spec => []NoOrphans
<1>1. IInv => NoOrphans
  BY DEF IInv, FamilyInv, NoOrphans
<1>2. QED
  BY <1>1, TypeCorrect, PTL
-----------------------------------------------------------------------------
LEMMA ToldStep ==
  ASSUME TypeOK, BridgeToldTruth, [Next]_vars
  PROVE  BridgeToldTruth'
<1> USE DEF TypeOK, pings, flags
<1>1. ASSUME UNCHANGED <<notRespondingSent, phone>>
      PROVE  BridgeToldTruth'
  BY <1>1 DEF BridgeToldTruth
<1>2. ASSUME Alert
      PROVE  BridgeToldTruth'
  BY <1>2 DEF Alert, BridgeToldTruth
<1>3. ASSUME NEW f \in Families, NEW n \in Counts, Respond(f, n)
      PROVE  BridgeToldTruth'
  BY <1>3 DEF Respond, AnswerAnnounced, AfterAnswer, BridgeToldTruth
<1>4. QED
  BY <1>1, <1>2, <1>3
     DEF vars, Next, LoopStep, LoopPing, LoopPingError, Timeout, ShortCircuit, Reping, RepingError,
         ResetCloses, Stop

(* The bridge's last word on the phone agrees with notRespondingSent.      *)
THEOREM BridgeToldTruthThm == Spec => []BridgeToldTruth
<1>1. Init => BridgeToldTruth
  BY DEF Init, BridgeToldTruth
<1>2. IInv /\ BridgeToldTruth /\ [Next]_vars => BridgeToldTruth'
  BY ToldStep DEF IInv
<1>3. QED
  BY <1>1, <1>2, TypeCorrect, PTL DEF Spec

(* An answer finds no overdue ping in an unanswered family, and a timeout  *)
(* alerts when AlertStands wants it to; the other steps change neither.    *)
LEMMA AlertStep ==
  ASSUME TypeOK, FamilyInv, LateInv, BridgeToldTruth, AlertStands, [Next]_vars
  PROVE  AlertStands'
<1> USE DEF TypeOK, pings, flags
<1>1. CASE UNCHANGED vars
  BY <1>1 DEF vars, AlertStands
<1>2. ASSUME NEW f \in Families, NEW t \in {"short", "normal"}, LoopPing(f, t)
      PROVE  AlertStands'
  BY <1>2 DEF LoopPing, AlertStands
<1>3. CASE LoopPingError
  BY <1>3 DEF LoopPingError, AlertStands
<1>4. ASSUME NEW f \in Families, NEW n \in Counts, Respond(f, n)
      PROVE  AlertStands'
  <2>1. reset[f] # "closed"
    BY <1>4 DEF Respond, FamilyInv
  <2>2. \A g \in Families, k \in Counts : ~(ping'[g][k] = "late" /\ reset'[g] = "open")
    BY <1>4, <2>1 DEF Respond, FamilyInv, LateInv
  <2>3. QED
    BY <2>2 DEF AlertStands
<1>5. ASSUME NEW f \in Families, NEW n \in Counts, Timeout(f, n)
      PROVE  AlertStands'
  <2>1. CASE AlertsOnTimeout(f, n)
    BY <1>5, <2>1 DEF Timeout, Alert, AlertStands, BridgeToldTruth
  <2>2. CASE ~AlertsOnTimeout(f, n)
    <3>1. UNCHANGED <<phone, short, reset, firstPingDone>>
      BY <1>5, <2>2 DEF Timeout
    <3>2. \A g \in Families, k \in Counts :
            ping'[g][k] = "late" => ping[g][k] = "late" \/ (g = f /\ k = n)
      BY <1>5 DEF Timeout
    <3>3. QED
      BY <2>2, <3>1, <3>2 DEF AlertsOnTimeout, AlertStands
  <2>3. QED
    BY <2>1, <2>2
<1>6. ASSUME NEW f \in Families, NEW n \in Counts, ShortCircuit(f, n)
      PROVE  AlertStands'
  BY <1>6 DEF ShortCircuit, Alert, AlertStands, BridgeToldTruth
<1>7. ASSUME NEW f \in Families, Reping(f)
      PROVE  AlertStands'
  BY <1>7 DEF Reping, SubTimeoutCount, AlertStands
<1>8. ASSUME NEW f \in Families, RepingError(f)
      PROVE  AlertStands'
  BY <1>8 DEF RepingError, AlertStands
<1>9. ASSUME NEW f \in Families, ResetCloses(f)
      PROVE  AlertStands'
  BY <1>9 DEF ResetCloses, GiveUp, AlertStands
<1>10. CASE Stop
  BY <1>10 DEF Stop, GiveUp, AlertStands
<1>11. QED
  BY <1>1, <1>2, <1>3, <1>4, <1>5, <1>6, <1>7, <1>8, <1>9, <1>10 DEF Next, LoopStep

(* The alerts promised by the goals in longpoll.go:37-40 stand until a     *)
(* ping of the same family is answered.                                    *)
THEOREM AlertStandsThm == Spec => []AlertStands
<1>1. Init => AlertStands
  BY DEF Init, AlertStands
<1>2. IInv /\ BridgeToldTruth /\ AlertStands /\ [Next]_vars => AlertStands'
  BY AlertStep DEF IInv
<1>3. QED
  BY <1>1, <1>2, TypeCorrect, BridgeToldTruthThm, PTL DEF Spec
-----------------------------------------------------------------------------
(* A family sends each of its pings once: no ping is numbered timeoutCount *)
(* or higher, and the count starts when the loop's own ping is overdue.    *)
CountInv ==
    \A f \in Families :
        /\ ping[f][0] = "wait" => timeoutCount[f] = 0
        /\ ping[f][0] = "late" => timeoutCount[f] > 0
        /\ \A n \in Counts : n > 0 /\ n >= timeoutCount[f] => ping[f][n] = "none"

(* The pings of the current family that may time out without an alert and  *)
(* have done so, or have ended.                                            *)
Overdue == {n \in 0..(alertTimeoutCount - 1) : ping[cur][n] \in {"late", "done"}}

(* Without an alert, each ping missed is one of them.                      *)
BudgetInv == notRespondingSent \/ missed <= Cardinality(Overdue)

LEMMA CountStep ==
  ASSUME TypeOK, CountInv, [Next]_vars
  PROVE  CountInv'
<1> USE ZeroCount DEF TypeOK, pings, flags
<1>1. CASE UNCHANGED vars
  BY <1>1 DEF vars, CountInv
<1>2. ASSUME NEW f \in Families, NEW t \in {"short", "normal"}, LoopPing(f, t)
      PROVE  CountInv'
  BY <1>2 DEF LoopPing, CountInv
<1>3. CASE LoopPingError
  BY <1>3 DEF LoopPingError, CountInv
<1>4. ASSUME NEW f \in Families, NEW n \in Counts, Respond(f, n)
      PROVE  CountInv'
  BY <1>4 DEF Respond, CountInv, Waited
<1>5. ASSUME NEW f \in Families, NEW n \in Counts, Timeout(f, n)
      PROVE  CountInv'
  <2>1. SUFFICES ASSUME NEW g \in Families
                 PROVE  /\ ping'[g][0] = "wait" => timeoutCount'[g] = 0
                        /\ ping'[g][0] = "late" => timeoutCount'[g] > 0
                        /\ \A k \in Counts : k > 0 /\ k >= timeoutCount'[g] => ping'[g][k] = "none"
    BY DEF CountInv
  <2>2. CASE g # f
    BY <1>5, <2>2 DEF Timeout, CountInv
  <2>3. CASE g = f /\ n = 0
    <3>1. timeoutCount[f] = 0 /\ timeoutCount'[f] = 1 /\ ping'[f][0] = "late"
      BY <1>5, <2>3 DEF Timeout, CountInv
    <3>2. \A k \in Counts : k > 0 => ping'[f][k] = ping[f][k] /\ ping[f][k] = "none"
      BY <1>5, <2>3, <3>1 DEF Timeout, CountInv, Counts
    <3>3. QED
      BY <2>3, <3>1, <3>2
  <2>4. CASE g = f /\ n # 0
    <3>1. timeoutCount' = timeoutCount /\ ping'[f][0] = ping[f][0]
      BY <1>5, <2>4 DEF Timeout
    <3>2. n > 0 /\ ping[f][n] # "none"
      BY <1>5, <2>4 DEF Timeout, Counts
    <3>3. ~(n >= timeoutCount[f])
      BY <3>2 DEF CountInv
    <3>4. \A k \in Counts : k # n => ping'[f][k] = ping[f][k]
      BY <1>5 DEF Timeout
    <3>5. QED
      BY <2>4, <3>1, <3>3, <3>4 DEF CountInv
  <2>5. QED
    BY <2>2, <2>3, <2>4
<1>6. ASSUME NEW f \in Families, NEW n \in Counts, ShortCircuit(f, n)
      PROVE  CountInv'
  <2>1. \A g \in Families : timeoutCount'[g] >= timeoutCount[g] /\ (ping[g][0] = "wait" => timeoutCount'[g] = timeoutCount[g])
    BY <1>6 DEF ShortCircuit, Counts
  <2>2. ping' = ping /\ \A g \in Families : timeoutCount'[g] \in Nat
    BY <1>6 DEF ShortCircuit, Counts
  <2>3. QED
    BY <2>1, <2>2 DEF CountInv, Counts
<1>7. ASSUME NEW f \in Families, Reping(f) \/ RepingError(f)
      PROVE  CountInv'
  <2>1. timeoutCount' = [timeoutCount EXCEPT ![f] = @ + 1] /\ ping[f][0] = "late"
    BY <1>7 DEF Reping, RepingError
  <2>2. timeoutCount[f] > 0 /\ timeoutCount'[f] = timeoutCount[f] + 1
    BY <2>1 DEF CountInv
  <2>3. /\ \A g \in Families \ {f} : ping'[g] = ping[g]
        /\ \A k \in Counts : k # timeoutCount[f] => ping'[f][k] = ping[f][k]
    BY <1>7 DEF Reping, RepingError, SubTimeoutCount
  <2>4. QED
    <3>1. SUFFICES ASSUME NEW g \in Families
                   PROVE  /\ ping'[g][0] = "wait" => timeoutCount'[g] = 0
                          /\ ping'[g][0] = "late" => timeoutCount'[g] > 0
                          /\ \A k \in Counts : k > 0 /\ k >= timeoutCount'[g] => ping'[g][k] = "none"
      BY DEF CountInv
    <3>2. CASE g # f
      <4>1. timeoutCount'[g] = timeoutCount[g] /\ ping'[g] = ping[g]
        BY <2>1, <2>3, <3>2
      <4>2. QED
        BY <4>1 DEF CountInv
    <3>3. CASE g = f
      <4>1. ping'[f][0] = "late"
        BY <2>1, <2>2, <2>3
      <4>2. ASSUME NEW k \in Counts, k > 0, k >= timeoutCount'[f]
            PROVE  ping'[f][k] = "none"
        <5>1. k # timeoutCount[f] /\ k >= timeoutCount[f]
          BY <4>2, <2>2 DEF Counts
        <5>2. QED
          BY <4>2, <5>1, <2>3 DEF CountInv
      <4>3. QED
        BY <2>2, <3>3, <4>1, <4>2 DEF Counts
    <3>4. QED
      BY <3>2, <3>3
<1>8. ASSUME NEW f \in Families, ResetCloses(f)
      PROVE  CountInv'
  BY <1>8 DEF ResetCloses, GiveUp, CountInv, Waited
<1>9. CASE Stop
  BY <1>9 DEF Stop, GiveUp, CountInv, Waited
<1>10. QED
  BY <1>1, <1>2, <1>3, <1>4, <1>5, <1>6, <1>7, <1>8, <1>9 DEF Next, LoopStep

(* More pings overdue, no more missed: the budget is kept.                 *)
LEMMA OverdueGrows ==
  ASSUME BudgetInv, Overdue \subseteq Overdue', missed \in Nat,
         notRespondingSent => notRespondingSent', missed' = missed
  PROVE  BudgetInv'
<1>1. IsFiniteSet(Overdue') /\ IsFiniteSet(Overdue)
  <2>1. IsFiniteSet(0..(alertTimeoutCount - 1))
    BY FS_Interval, PingerAssumption
  <2>2. QED
    BY <2>1, FS_Subset DEF Overdue
<1>2. Cardinality(Overdue) <= Cardinality(Overdue')
  BY <1>1, FS_Subset
<1>3. Cardinality(Overdue) \in Nat /\ Cardinality(Overdue') \in Nat
  BY <1>1, FS_CardinalityType
<1>4. QED
  BY <1>2, <1>3 DEF BudgetInv

LEMMA BudgetTimeout ==
  ASSUME TypeOK, BudgetInv, NEW f \in Families, NEW n \in Counts, Timeout(f, n)
  PROVE  BudgetInv'
<1> USE DEF TypeOK
<1>1. CASE f # cur
  <2>1. Overdue' = Overdue /\ missed' = missed
    BY <1>1 DEF Timeout, Overdue
  <2>2. notRespondingSent => notRespondingSent'
    BY DEF Timeout, Alert
  <2>3. QED
    BY <2>1, <2>2 DEF BudgetInv
<1>2. CASE AlertsOnTimeout(f, n)
  BY <1>2 DEF Timeout, Alert, BudgetInv
<1>3. CASE f = cur /\ ~AlertsOnTimeout(f, n)
  <2>1. n \in 0..(alertTimeoutCount - 1)
    BY <1>3, PingerAssumption DEF AlertsOnTimeout, Counts
  <2>2. n \notin Overdue
    BY <1>3 DEF Timeout, Overdue
  <2>3. Overdue' = Overdue \cup {n}
    <3>1. cur' = cur /\ ping'[cur][n] = "late"
      BY <1>3 DEF Timeout
    <3>2. \A k \in 0..(alertTimeoutCount - 1) : k # n => ping'[cur][k] = ping[cur][k]
      BY <1>3, PingerAssumption DEF Timeout, Counts
    <3>3. QED
      BY <2>1, <3>1, <3>2 DEF Overdue
  <2>4. IsFiniteSet(Overdue)
    <3>1. IsFiniteSet(0..(alertTimeoutCount - 1))
      BY FS_Interval, PingerAssumption
    <3>2. QED
      BY <3>1, FS_Subset DEF Overdue
  <2>5. Cardinality(Overdue') = Cardinality(Overdue) + 1 /\ Cardinality(Overdue) \in Nat
    BY <2>2, <2>3, <2>4, FS_AddElement, FS_CardinalityType
  <2>6. missed' = missed + 1 /\ notRespondingSent' = notRespondingSent
    BY <1>3 DEF Timeout
  <2>7. QED
    BY <2>5, <2>6 DEF BudgetInv
<1>4. QED
  BY <1>1, <1>2, <1>3

LEMMA BudgetStep ==
  ASSUME TypeOK, CountInv, BudgetInv, [Next]_vars
  PROVE  BudgetInv'
<1> USE ZeroCount DEF TypeOK, pings, flags
<1>0. \A k \in 0..(alertTimeoutCount - 1) : k \in Counts
  BY PingerAssumption DEF Counts
<1>1. ASSUME missed' = 0
      PROVE  BudgetInv'
  <2>1. IsFiniteSet(0..(alertTimeoutCount - 1))
    BY FS_Interval, PingerAssumption
  <2>2. IsFiniteSet(Overdue')
    BY <2>1, FS_Subset DEF Overdue
  <2>3. Cardinality(Overdue') \in Nat
    BY <2>2, FS_CardinalityType
  <2>4. QED
    BY <1>1, <2>3 DEF BudgetInv
<1>2. CASE UNCHANGED vars
  BY <1>2, OverdueGrows DEF vars, Overdue
<1>3. ASSUME NEW f \in Families, NEW t \in {"short", "normal"}, LoopPing(f, t)
      PROVE  BudgetInv'
  BY <1>1, <1>3 DEF LoopPing
<1>4. CASE LoopPingError
  BY <1>4, OverdueGrows DEF LoopPingError, Overdue
<1>5. ASSUME NEW f \in Families, NEW n \in Counts, Respond(f, n)
      PROVE  BudgetInv'
  BY <1>1, <1>5 DEF Respond
<1>6. ASSUME NEW f \in Families, NEW n \in Counts, ShortCircuit(f, n)
      PROVE  BudgetInv'
  BY <1>6, OverdueGrows DEF ShortCircuit, Alert, Overdue
<1>7. ASSUME NEW f \in Families, Reping(f)
      PROVE  BudgetInv'
  <2>1. ping[f][timeoutCount[f]] = "none"
    BY <1>7 DEF Reping, CountInv, Counts
  <2>2. \A k \in Counts : ping[cur][k] # "none" => ping'[cur][k] = ping[cur][k]
    BY <1>7, <2>1 DEF Reping, SubTimeoutCount
  <2>3. Overdue \subseteq Overdue'
    BY <1>0, <1>7, <2>2 DEF Reping, Overdue
  <2>4. QED
    BY <1>7, <2>3, OverdueGrows DEF Reping
<1>8. ASSUME NEW f \in Families, RepingError(f)
      PROVE  BudgetInv'
  BY <1>8, OverdueGrows DEF RepingError, Overdue
<1>9. ASSUME NEW f \in Families, ResetCloses(f)
      PROVE  BudgetInv'
  <2>1. Overdue \subseteq Overdue'
    BY <1>0, <1>9 DEF ResetCloses, GiveUp, Overdue, Waited
  <2>2. QED
    BY <1>9, <2>1, OverdueGrows DEF ResetCloses
<1>10. CASE Stop
  <2>1. Overdue \subseteq Overdue'
    BY <1>0, <1>10 DEF Stop, GiveUp, Overdue, Waited
  <2>2. QED
    BY <1>10, <2>1, OverdueGrows DEF Stop
<1>11. QED
  BY <1>2, <1>3, <1>4, <1>5, BudgetTimeout, <1>6, <1>7, <1>8, <1>9, <1>10 DEF Next, LoopStep

(* A phone that answers nothing is reported after alertTimeoutCount        *)
(* overdue pings, for every setting of it and however pings of an earlier  *)
(* family interleave (Ping, OnTimeout, the reping ticker).                 *)
THEOREM AlertBudgetThm == Spec => []AlertBudget
<1>1. Init => CountInv /\ BudgetInv
  <2>1. IsFiniteSet(0..(alertTimeoutCount - 1))
    BY FS_Interval, PingerAssumption
  <2>2. Cardinality(Overdue) \in Nat
    BY <2>1, FS_Subset, FS_CardinalityType DEF Overdue
  <2>3. Init => BudgetInv
    <3>1. Init => missed = 0
      BY DEF Init
    <3>2. QED
      BY <2>2, <3>1 DEF BudgetInv
  <2>4. Init => CountInv
    <3>1. Init => \A f \in Families, n \in Counts : ping[f][n] = "none"
      BY DEF Init
    <3>2. QED
      BY <3>1, ZeroCount DEF CountInv
  <2>5. QED
    BY <2>3, <2>4
<1>2. IInv /\ CountInv /\ BudgetInv /\ [Next]_vars => (CountInv /\ BudgetInv)'
  BY CountStep, BudgetStep DEF IInv
<1>3. IInv /\ BridgeToldTruth /\ BudgetInv => AlertBudget
  <2>1. IsFiniteSet(0..(alertTimeoutCount - 1)) /\ Cardinality(0..(alertTimeoutCount - 1)) = alertTimeoutCount
    BY FS_Interval, PingerAssumption
  <2>2. Cardinality(Overdue) \in Nat /\ Cardinality(Overdue) <= alertTimeoutCount
    BY <2>1, FS_Subset, FS_CardinalityType DEF Overdue
  <2>3. QED
    BY <2>2, PingerAssumption DEF IInv, TypeOK, BridgeToldTruth, BudgetInv, AlertBudget
<1>4. QED
  BY <1>1, <1>2, <1>3, TypeCorrect, BridgeToldTruthThm, PTL DEF Spec
=============================================================================
