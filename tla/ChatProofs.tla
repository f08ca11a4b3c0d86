----------------------------- MODULE ChatProofs -----------------------------
(***************************************************************************)
(* Proofs about a chat of the phone: the updates about it (EventHandler),  *)
(* its history (Backfill), its people (Directory) and its room             *)
(* (ConversationSync), for every length of the ring, set of updates,       *)
(* history, page size, participant list and contact list.                  *)
(***************************************************************************)
EXTENDS EventHandler, Backfill, Directory, ConversationSync, FiniteSetTheorems,
        SequenceTheorems, WellFoundedInduction, TLAPS

BackfillSpec == BackfillInit /\ [][FetchMessages]_backfillVars
DirectorySpec == DirectoryInit /\ [][DirectoryNext]_directoryVars
SyncSpec == SyncInit /\ [][SyncNext]_syncVars
-----------------------------------------------------------------------------
(* Least and greatest elements: the natural numbers are well-founded.      *)
LessThan == {pair \in Nat \X Nat : pair[1] < pair[2]}

LEMMA LessThanWellFounded == IsWellFoundedOn(LessThan, Nat)
<1>1. OpToRel(<, Nat) = LessThan
  BY Zenon DEF OpToRel, LessThan
<1>2. QED
  BY <1>1, NatLessThanWellFounded

LEMMA MinIs ==
  ASSUME NEW S \in SUBSET Nat, S # {}
  PROVE  Min(S) \in S /\ \A k \in S : Min(S) <= k
<1>1. PICK m \in S : \A k \in S : ~(<<k, m>> \in LessThan)
  BY LessThanWellFounded, WFMin
<1>2. \A a, b \in Nat : a < b => <<a, b>> \in LessThan
  BY DEF LessThan
<1>3. \A k \in S : ~(k < m)
  BY <1>1, <1>2
<1>4. \A k \in S : m <= k
  BY <1>3
<1>5. QED
  BY <1>4 DEF Min

LEMMA MaxIs ==
  ASSUME NEW n \in Nat, NEW S \in SUBSET (0..n), S # {}
  PROVE  Max(S) \in S /\ \A k \in S : Max(S) >= k
<1> DEFINE T == {n - k : k \in S}
<1>0. \A k \in S : k \in Nat /\ n - k \in Nat
  OBVIOUS
<1>1. T \in SUBSET Nat /\ T # {}
  BY <1>0
<1>2. Min(T) \in T /\ \A t \in T : Min(T) <= t
  BY <1>1, MinIs
<1>3. PICK m \in S : Min(T) = n - m
  BY <1>2
<1>4. \A k \in S : m >= k
  <2> SUFFICES ASSUME NEW k \in S PROVE m >= k
    OBVIOUS
  <2>1. n - k \in T
    OBVIOUS
  <2>2. n - m <= n - k
    BY <1>2, <1>3, <2>1
  <2>3. QED
    BY <1>0, <2>2
<1>5. QED
  BY <1>4 DEF Max
-----------------------------------------------------------------------------
(* Messages in the phone's order are in the order of time.                 *)
Sorted ==
    /\ millis \in [1..History -> 1..History]
    /\ \A i, j \in 1..History : i <= j => millis[i] <= millis[j]

LEMMA SortedInit == BackfillInit => Sorted
<1> SUFFICES ASSUME BackfillInit PROVE Sorted
  OBVIOUS
<1>0. History \in Nat
  BY BackfillAssumption
<1>1. millis \in [1..History -> 1..History] /\ \A i \in 2..History : millis[i - 1] <= millis[i]
  BY DEF BackfillInit
<1>2. ASSUME NEW i \in 1..History, NEW j \in 1..History, i <= j, ~(millis[i] <= millis[j])
      PROVE  FALSE
  <2> DEFINE Bad == {k \in i..History : ~(millis[i] <= millis[k])}
  <2>1. Bad \in SUBSET Nat /\ Bad # {}
    BY <1>0, <1>2
  <2>2. Min(Bad) \in Bad /\ \A k \in Bad : Min(Bad) <= k
    BY <2>1, MinIs
  <2>3. PICK b \in Bad : \A k \in Bad : b <= k
    BY <2>2
  <2>4. b \in i..History /\ ~(millis[i] <= millis[b])
    OBVIOUS
  <2>5. b # i
    BY <1>0, <1>1, <2>4
  <2>6. b - 1 \in i..History /\ b \in 2..History /\ b - 1 \notin Bad
    BY <1>0, <1>2, <2>3, <2>4, <2>5
  <2>7. millis[i] <= millis[b - 1]
    BY <2>6
  <2>8. millis[b - 1] <= millis[b]
    BY <1>1, <2>6
  <2>9. millis[i] \in Nat /\ millis[b] \in Nat /\ millis[b - 1] \in Nat
    <3>1. i \in 1..History /\ b \in 1..History /\ b - 1 \in 1..History
      BY <1>0, <2>6
    <3>2. \A k \in 1..History : millis[k] \in 1..History
      BY <1>1
    <3>3. QED
      BY <1>0, <3>1, <3>2
  <2>10. QED
    BY <2>4, <2>7, <2>8, <2>9
<1>3. QED
  BY <1>1, <1>2 DEF Sorted

Anchor == Min(Bridged)

(* Where the next page begins.                                             *)
Low == IF stored = 0 THEN Anchor ELSE stored

(* Bridged, or left out for its millisecond.                               *)
Accounted(m) == got[m] = 1 \/ millis[m] \in {millis[c] : c \in cursors}

(* Down to the place where the next page begins, every message is accounted*)
(* for; and that place is not above the oldest bridged message, so that the*)
(* cursor that was kept is the one used.                                   *)
BackfillInv ==
    /\ Sorted
    /\ got \in [1..History -> 0..1] /\ Bridged # {}
    /\ stored \in 0..History /\ cursors \subseteq 1..History
    /\ Low <= Anchor
    /\ \A m \in 1..History : m >= Low => Accounted(m)

Crowded == \E m \in 1..History : Cardinality({k \in 1..History : millis[k] = millis[m]}) >= PageSize

EndInv == ended => Crowded \/ \A m \in 1..History : Accounted(m)

LEMMA AnchorIs ==
  ASSUME Bridged # {}
  PROVE  Anchor \in 1..History /\ Anchor \in Bridged /\ \A m \in Bridged : Anchor <= m
<1>1. Bridged \in SUBSET Nat /\ Bridged \subseteq 1..History
  BY BackfillAssumption DEF Bridged
<1>2. QED
  BY <1>1, MinIs DEF Anchor

LEMMA BackfillInvInit == BackfillInit => BackfillInv /\ EndInv
<1> SUFFICES ASSUME BackfillInit PROVE BackfillInv /\ EndInv
  OBVIOUS
<1>0. History \in Nat
  BY BackfillAssumption
<1>1. PICK newest \in 1..History : got = [m \in 1..History |-> IF m >= newest THEN 1 ELSE 0]
  BY DEF BackfillInit
<1>2. got \in [1..History -> 0..1]
  BY <1>1
<1>3. Bridged # {}
  <2>1. got[newest] > 0
    BY <1>0, <1>1
  <2>2. QED
    BY <2>1 DEF Bridged
<1>4. Anchor \in 1..History /\ \A m \in 1..History : m >= Anchor => got[m] = 1
  <2>1. Anchor \in 1..History /\ got[Anchor] > 0
    BY <1>3, AnchorIs DEF Bridged
  <2>2. Anchor >= newest
    BY <1>0, <1>1, <2>1
  <2>3. QED
    BY <1>0, <1>1, <2>1, <2>2
<1>5. stored = 0 /\ cursors = {} /\ ended = FALSE
  BY DEF BackfillInit
<1>6. Low = Anchor
  BY <1>5 DEF Low
<1>7. QED
  BY <1>0, <1>2, <1>3, <1>4, <1>5, <1>6, SortedInit DEF BackfillInv, EndInv, Accounted

(* What FetchMessages asks for and keeps.                                  *)
LEMMA PageIs ==
  ASSUME BackfillInv
  PROVE  /\ Low \in 1..History /\ UsedCursor(Anchor) = Low
         /\ Page(Low) \subseteq 1..Low
         /\ \A m \in Kept(Page(Low), Low, Anchor) : m < Anchor /\ got[m] = 0
         /\ \A m \in Page(Low) \ Kept(Page(Low), Low, Anchor) :
                millis[m] = millis[Low] \/ got[m] = 1
         /\ \A m \in Page(Low), k \in 1..History : k >= m /\ k < Low => k \in Page(Low)
<1>0. History \in Nat /\ PageSize \in Nat
  BY BackfillAssumption
<1>1. Anchor \in 1..History /\ Anchor \in Bridged /\ \A m \in Bridged : Anchor <= m
  BY AnchorIs DEF BackfillInv
<1>2. Low \in 1..History /\ Low <= Anchor
  BY <1>0, <1>1 DEF BackfillInv, Low
<1>3. \A m \in 1..History : millis[m] \in Nat /\ got[m] \in 0..1
  <2>1. \A m \in 1..History : millis[m] \in 1..History /\ got[m] \in 0..1
    BY DEF BackfillInv, Sorted
  <2>2. QED
    BY <1>0, <2>1
<1>4. \A i, j \in 1..History : i <= j => millis[i] <= millis[j]
  BY DEF BackfillInv, Sorted
<1>5. UsedCursor(Anchor) = Low
  <2>1. CASE stored = 0
    BY <2>1 DEF UsedCursor, Low
  <2>2. CASE stored # 0
    <3>1. Low = stored
      BY <2>2 DEF Low
    <3>2. millis[stored] <= millis[Anchor]
      BY <1>1, <1>2, <1>4, <3>1
    <3>3. ~(millis[Anchor] < millis[stored])
      BY <1>1, <1>2, <1>3, <3>1, <3>2
    <3>4. QED
      BY <2>2, <3>1, <3>3 DEF UsedCursor
  <2>3. QED
    BY <2>1, <2>2
<1> DEFINE before == {m \in 1..History : m < Low \/ (inclusive /\ m = Low)}
<1>6. before \subseteq 1..Low
  BY <1>0, <1>2
<1>7. Page(Low) = {m \in before : Cardinality({k \in before : k > m}) < PageSize}
  BY DEF Page
<1>8. Page(Low) \subseteq 1..Low
  BY <1>6, <1>7
<1>9. ASSUME NEW m \in Kept(Page(Low), Low, Anchor)
      PROVE  m < Anchor /\ got[m] = 0
  <2>1. m \in Page(Low) /\ millis[m] < millis[Low]
    BY DEF Kept
  <2>2. m \in 1..History
    BY <1>0, <1>2, <1>8, <2>1
  <2>3. ~(Low <= m)
    BY <1>2, <1>3, <1>4, <2>1, <2>2
  <2>4. m < Anchor
    BY <1>0, <1>1, <1>2, <2>2, <2>3
  <2>5. m \notin Bridged
    BY <1>0, <1>1, <2>2, <2>4
  <2>6. QED
    BY <1>3, <2>2, <2>4, <2>5 DEF Bridged
<1>10. ASSUME NEW m \in Page(Low), m \notin Kept(Page(Low), Low, Anchor)
       PROVE  millis[m] = millis[Low] \/ got[m] = 1
  <2>1. m \in 1..History /\ m <= Low
    BY <1>0, <1>2, <1>8
  <2>2. CASE m = Anchor
    <3>1. got[m] > 0
      BY <1>1, <2>2 DEF Bridged
    <3>2. QED
      BY <1>3, <2>1, <3>1
  <2>3. CASE ~(millis[m] < millis[Low])
    <3>1. millis[m] <= millis[Low]
      BY <1>2, <1>4, <2>1
    <3>2. QED
      BY <1>2, <1>3, <2>1, <2>3, <3>1
  <2>4. QED
    BY <1>10, <2>2, <2>3 DEF Kept
<1>11. ASSUME NEW m \in Page(Low), NEW k \in 1..History, k >= m, k < Low
       PROVE  k \in Page(Low)
  <2> DEFINE over(n) == {j \in before : j > n}
  <2>1. m \in before /\ Cardinality(over(m)) < PageSize /\ k \in before
    BY <1>7, <1>11
  <2>2. over(k) \in SUBSET over(m)
    BY <1>0, <1>6, <1>11, <2>1
  <2>3. IsFiniteSet(over(m))
    <3>1. IsFiniteSet(1..Low)
      BY <1>2, FS_Interval
    <3>2. over(m) \in SUBSET (1..Low)
      BY <1>6
    <3>3. QED
      BY <3>1, <3>2, FS_Subset
  <2>4. Cardinality(over(k)) <= Cardinality(over(m))
    BY <2>2, <2>3, FS_Subset
  <2>5. Cardinality(over(k)) \in Nat /\ Cardinality(over(m)) \in Nat
    <3>1. IsFiniteSet(over(k))
      BY <2>2, <2>3, FS_Subset
    <3>2. QED
      BY <2>3, <3>1, FS_CardinalityType
  <2>6. Cardinality(over(k)) < PageSize
    BY <1>0, <2>1, <2>4, <2>5
  <2>7. QED
    BY <1>7, <2>1, <2>6
<1>12. QED
  BY <1>2, <1>5, <1>8, <1>9, <1>10, <1>11

(* An empty page: nothing below the cursor is of an earlier millisecond,   *)
(* or else a page was full of messages of one millisecond.                 *)
LEMMA NothingBelow ==
  ASSUME BackfillInv, Kept(Page(Low), Low, Anchor) = {}, ~Crowded, NEW m \in 1..History, m < Low
  PROVE  millis[m] = millis[Low]
<1>0. History \in Nat /\ PageSize \in Nat
  BY BackfillAssumption
<1>1. Anchor \in 1..History
  BY AnchorIs DEF BackfillInv
<1>2. Low \in 1..History /\ Low <= Anchor
  BY <1>0, <1>1 DEF BackfillInv, Low
<1>3. \A i \in 1..History : millis[i] \in Nat
  <2>1. \A i \in 1..History : millis[i] \in 1..History
    BY DEF BackfillInv, Sorted
  <2>2. QED
    BY <1>0, <2>1
<1>4. \A i, j \in 1..History : i <= j => millis[i] <= millis[j]
  BY DEF BackfillInv, Sorted
<1> DEFINE before == {i \in 1..History : i < Low \/ (inclusive /\ i = Low)}
           earlier == {i \in before : millis[i] < millis[Low]}
<1> SUFFICES ASSUME millis[m] < millis[Low] PROVE FALSE
  <2>1. millis[m] <= millis[Low]
    BY <1>2, <1>4
  <2>2. QED
    BY <1>2, <1>3, <2>1
<1>5. m \in earlier
  OBVIOUS
<1>6. earlier \in SUBSET (0..History)
  BY <1>0
<1>7. PICK last \in earlier : \A i \in earlier : last >= i
  BY <1>0, <1>5, <1>6, MaxIs
<1> DEFINE over == {i \in before : i > last}
           same == {i \in 1..History : millis[i] = millis[Low]}
<1>8. over \in SUBSET same
  <2> SUFFICES ASSUME NEW i \in over PROVE i \in same
    OBVIOUS
  <2>1. i \in 1..History /\ i <= Low /\ i > last
    BY <1>0, <1>2
  <2>2. i \notin earlier
    BY <1>0, <1>7, <2>1
  <2>3. ~(millis[i] < millis[Low])
    BY <2>2
  <2>4. millis[i] <= millis[Low]
    BY <1>2, <1>4, <2>1
  <2>5. QED
    BY <1>2, <1>3, <2>1, <2>3, <2>4
<1>9. IsFiniteSet(same)
  <2>1. IsFiniteSet(1..History)
    BY <1>0, FS_Interval
  <2>2. same \in SUBSET (1..History)
    OBVIOUS
  <2>3. QED
    BY <2>1, <2>2, FS_Subset
<1>10. Cardinality(over) < PageSize
  <2>1. IsFiniteSet(over) /\ Cardinality(over) <= Cardinality(same)
    BY <1>8, <1>9, FS_Subset
  <2>2. Cardinality(over) \in Nat /\ Cardinality(same) \in Nat
    BY <1>9, <2>1, FS_CardinalityType
  <2>3. ~(Cardinality(same) >= PageSize)
    BY <1>2 DEF Crowded
  <2>4. QED
    BY <1>0, <2>1, <2>2, <2>3
<1>11. last \in Page(Low)
  BY <1>10 DEF Page
<1>12. last # Anchor
  BY <1>0, <1>1, <1>2, <1>3
<1>13. last \in Kept(Page(Low), Low, Anchor)
  BY <1>11, <1>12 DEF Kept
<1>14. QED
  BY <1>13

LEMMA BackfillInvStep ==
  ASSUME BackfillInv, EndInv, FetchMessages
  PROVE  BackfillInv' /\ EndInv'
<1> DEFINE page == Page(Low)
           kept == Kept(page, Low, Anchor)
<1>0. History \in Nat
  BY BackfillAssumption
<1>1. /\ Low \in 1..History /\ UsedCursor(Anchor) = Low
      /\ page \subseteq 1..Low
      /\ \A m \in kept : m < Anchor /\ got[m] = 0
      /\ \A m \in page \ kept : millis[m] = millis[Low] \/ got[m] = 1
      /\ \A m \in page, k \in 1..History : k >= m /\ k < Low => k \in page
  BY PageIs
<1>2. /\ ~ended
      /\ got' = [m \in 1..History |-> IF m \in kept THEN got[m] + 1 ELSE got[m]]
      /\ cursors' = cursors \cup {Low}
      /\ ended' = (kept = {})
      /\ stored' = IF kept = {} THEN stored ELSE Min(page)
      /\ millis' = millis
  BY <1>1 DEF FetchMessages, Anchor, CursorAfter
<1>3. kept \subseteq page /\ page \subseteq 1..History
  <2>1. kept \subseteq page
    BY DEF Kept
  <2>2. QED
    BY <1>0, <1>1, <2>1
<1>4. \A m \in 1..History : got'[m] = IF m \in kept THEN 1 ELSE got[m]
  BY <1>0, <1>1, <1>2
<1>5. got' \in [1..History -> 0..1] /\ Bridged \subseteq Bridged' /\ kept \subseteq Bridged'
  <2>1. got \in [1..History -> 0..1]
    BY DEF BackfillInv
  <2>2. DOMAIN got' = 1..History /\ got' = [m \in 1..History |-> got'[m]]
    BY <1>2
  <2>3. \A m \in 1..History : got'[m] \in 0..1
    BY <1>4, <2>1
  <2>4. QED
    BY <1>3, <1>4, <2>1, <2>2, <2>3 DEF Bridged
<1>6. Bridged' # {} /\ Sorted'
  BY <1>2, <1>5 DEF BackfillInv, Sorted
<1>7. Anchor' \in Bridged' /\ Anchor' \in 1..History /\ \A m \in Bridged' : Anchor' <= m
  <2>1. Bridged' \in SUBSET Nat /\ Bridged' \subseteq 1..History
    BY <1>0 DEF Bridged
  <2>2. QED
    BY <1>6, <2>1, MinIs DEF Anchor
<1>8. cursors' \subseteq 1..History
  BY <1>1, <1>2 DEF BackfillInv
<1>9. \A m \in 1..History : Accounted(m) \/ m \in kept \/ millis[m] = millis[Low] => Accounted(m)'
  <2> SUFFICES ASSUME NEW m \in 1..History, Accounted(m) \/ m \in kept \/ millis[m] = millis[Low]
               PROVE  Accounted(m)'
    OBVIOUS
  <2>1. CASE m \in kept
    BY <1>4, <2>1 DEF Accounted
  <2>2. CASE millis[m] = millis[Low]
    BY <1>2, <2>2 DEF Accounted
  <2>3. CASE Accounted(m)
    BY <1>2, <1>4, <2>3 DEF Accounted
  <2>4. QED
    BY <2>1, <2>2, <2>3
<1>10. \A m \in 1..History : m >= Low => Accounted(m)'
  BY <1>9 DEF BackfillInv
<1>11. \A m \in page : Accounted(m)'
  <2> SUFFICES ASSUME NEW m \in page PROVE Accounted(m)'
    OBVIOUS
  <2>1. m \in 1..History
    BY <1>3
  <2>2. m \in kept \/ millis[m] = millis[Low] \/ got[m] = 1
    BY <1>1
  <2>3. QED
    BY <1>9, <2>1, <2>2 DEF Accounted
<1>12. CASE kept # {}
  <2>1. page \in SUBSET Nat /\ page # {}
    BY <1>0, <1>3, <1>12
  <2>2. PICK low \in page : low = Min(page) /\ \A m \in page : low <= m
    BY <2>1, MinIs
  <2>3. stored' = low /\ low \in 1..History /\ Low' = low
    BY <1>2, <1>3, <1>12, <2>2 DEF Low
  <2>4. low <= Anchor'
    <3>1. CASE Anchor' \in kept
      BY <1>3, <2>2, <3>1
    <3>2. CASE Anchor' \notin kept
      <4>1. Anchor' \in Bridged
        BY <1>4, <1>7, <3>2 DEF Bridged
      <4>2. Anchor <= Anchor'
        BY <4>1, AnchorIs DEF BackfillInv
      <4>3. PICK k \in kept : TRUE
        BY <1>12
      <4>4. k < Anchor /\ low <= k /\ k \in 1..History /\ Anchor \in 1..History
        BY <1>1, <1>3, <2>2, AnchorIs DEF BackfillInv
      <4>5. QED
        BY <1>0, <1>7, <2>3, <4>2, <4>4
    <3>3. QED
      BY <3>1, <3>2
  <2>5. ASSUME NEW m \in 1..History, m >= low
        PROVE  Accounted(m)'
    <3>1. CASE m >= Low
      BY <1>10, <3>1
    <3>2. CASE m < Low
      BY <1>1, <1>11, <2>5, <3>2
    <3>3. QED
      BY <1>0, <1>1, <3>1, <3>2
  <2>6. BackfillInv'
    BY <1>0, <1>5, <1>6, <1>8, <2>3, <2>4, <2>5 DEF BackfillInv
  <2>7. EndInv'
    BY <1>2, <1>12 DEF EndInv
  <2>8. QED
    BY <2>6, <2>7
<1>13. CASE kept = {}
  <2>1. got' = got
    BY <1>2, <1>13 DEF BackfillInv
  <2>2. stored' = stored /\ Bridged' = Bridged /\ Anchor' = Anchor /\ Low' = Low
    BY <1>2, <1>13, <2>1 DEF Bridged, Anchor, Low
  <2>3. BackfillInv'
    BY <1>5, <1>6, <1>8, <1>10, <2>2 DEF BackfillInv
  <2>4. ASSUME ~Crowded, NEW m \in 1..History
        PROVE  Accounted(m)'
    <3>1. CASE m >= Low
      BY <1>10, <3>1
    <3>2. CASE m < Low
      BY <1>9, <1>13, <2>4, <3>2, NothingBelow
    <3>3. QED
      BY <1>0, <1>1, <3>1, <3>2
  <2>5. Crowded' <=> Crowded
    BY <1>2 DEF Crowded
  <2>6. QED
    BY <2>3, <2>4, <2>5 DEF EndInv
<1>14. QED
  BY <1>12, <1>13

(* Backward backfill bridges no message twice, and when it ends the whole  *)
(* history is bridged but for messages of a cursor's millisecond, whatever *)
(* the page size and whether or not the phone repeats the cursor's message *)
(* (FetchMessages).                                                        *)
THEOREM BackfillCompleteThm == BackfillSpec => []BackfillComplete
<1>1. BackfillInv /\ EndInv /\ [FetchMessages]_backfillVars => BackfillInv' /\ EndInv'
  <2> SUFFICES ASSUME BackfillInv, EndInv, [FetchMessages]_backfillVars
               PROVE  BackfillInv' /\ EndInv'
    OBVIOUS
  <2>1. CASE FetchMessages
    BY <2>1, BackfillInvStep
  <2>2. CASE UNCHANGED backfillVars
    BY <2>2 DEF backfillVars, BackfillInv, EndInv, Sorted, Bridged, Low, Anchor, Accounted, Crowded
  <2>3. QED
    BY <2>1, <2>2
<1>2. BackfillInv /\ EndInv => BackfillComplete
  <2> SUFFICES ASSUME BackfillInv, EndInv PROVE BackfillComplete
    OBVIOUS
  <2>0. History \in Nat /\ PageSize \in Nat
    BY BackfillAssumption
  <2>1. \A m \in 1..History : got[m] \in 0..1
    BY DEF BackfillInv
  <2>2. ASSUME \A m \in 1..History : Cardinality({k \in 1..History : millis[k] = millis[m]}) < PageSize
        PROVE  ~Crowded
    <3> SUFFICES ASSUME NEW m \in 1..History,
                        Cardinality({k \in 1..History : millis[k] = millis[m]}) >= PageSize
                 PROVE  FALSE
      BY DEF Crowded
    <3> DEFINE same == {k \in 1..History : millis[k] = millis[m]}
    <3>1. IsFiniteSet(1..History)
      BY <2>0, FS_Interval
    <3>2. same \in SUBSET (1..History)
      OBVIOUS
    <3>3. IsFiniteSet(same)
      BY <3>1, <3>2, FS_Subset
    <3>4. Cardinality(same) \in Nat
      BY <3>3, FS_CardinalityType
    <3>5. Cardinality(same) < PageSize /\ Cardinality(same) >= PageSize
      BY <2>2
    <3> HIDE DEF same
    <3>6. QED
      BY <2>0, <3>4, <3>5
  <2>3. QED
    BY <2>1, <2>2 DEF BackfillComplete, EndInv, Accounted
<1>3. QED
  BY <1>1, <1>2, BackfillInvInit, PTL DEF BackfillSpec
-----------------------------------------------------------------------------
(* The people of a chat.  The list is empty or one the phone sent, the     *)
(* room's members are computed from that very list, and the user's own IDs *)
(* of it are known: ChatUpdate replaces all three, or extends the last, in *)
(* one step, and SetSIMs only adds own IDs.                                *)
PeopleInv ==
    /\ chat = <<>> \/ chat \in Chats
    /\ members = MembersOf(chat)
    /\ OwnIDs(chat) \subseteq self

LEMMA PeopleInvInit == DirectoryInit => PeopleInv
<1> SUFFICES ASSUME DirectoryInit PROVE PeopleInv
  OBVIOUS
<1>1. chat = <<>> /\ members = {} /\ self = {}
  BY DEF DirectoryInit
<1>2. DOMAIN chat = {}
  BY <1>1
<1>3. MembersOf(chat) = {}
  BY <1>2 DEF MembersOf
<1>4. OwnIDs(chat) = {}
  BY <1>2 DEF OwnIDs
<1>5. QED
  BY <1>1, <1>3, <1>4 DEF PeopleInv

LEMMA PeopleInvStep == PeopleInv /\ [DirectoryNext]_directoryVars => PeopleInv'
<1> SUFFICES ASSUME PeopleInv, [DirectoryNext]_directoryVars PROVE PeopleInv'
  OBVIOUS
<1>1. ASSUME NEW c \in Chats, ChatUpdate(c) PROVE PeopleInv'
  BY <1>1 DEF ChatUpdate, PeopleInv
<1>2. ASSUME NEW s \in SIMSets, SetSIMs(s) PROVE PeopleInv'
  BY <1>2 DEF SetSIMs, PeopleInv
<1>3. ASSUME UNCHANGED <<chat, members, self>> PROVE PeopleInv'
  BY <1>3 DEF PeopleInv
<1>4. ASSUME NEW l \in Contacts, GetContactList(l) PROVE UNCHANGED <<chat, members, self>>
  BY <1>4 DEF GetContactList
<1>5. CASE ContactsExpire
  BY <1>3, <1>5 DEF ContactsExpire
<1>6. CASE PhoneResponding
  BY <1>3, <1>6 DEF PhoneResponding
<1>7. ASSUME NEW i \in DOMAIN chat, RemoteEvent(i) PROVE UNCHANGED <<chat, members, self>>
  BY <1>7 DEF RemoteEvent
<1>8. CASE UNCHANGED directoryVars
  BY <1>3, <1>8 DEF directoryVars
<1>9. QED
  BY <1>1, <1>2, <1>3, <1>4, <1>5, <1>6, <1>7, <1>8 DEF DirectoryNext

LEMMA Indices == \A n \in Nat : \A k \in 1..n : k \in Nat /\ k \in 0..n
  OBVIOUS

(* findAlternateParticipantID leaves a visible participant alone and turns *)
(* an invisible one into a visible one of the same number, if there is one.*)
LEMMA AlternateIs ==
  ASSUME NEW c \in Chats, NEW i \in DOMAIN c, c[i].number # ""
  PROVE  /\ c[i].visible => findAlternateParticipantID(c, c[i].id) = c[i].id
         /\ (~c[i].visible /\ \E k \in DOMAIN c : c[k].visible /\ c[k].number = c[i].number)
              => \E k \in DOMAIN c : /\ c[k].visible /\ c[k].number = c[i].number
                                     /\ findAlternateParticipantID(c, c[i].id) = c[k].id
<1> DEFINE matched == {k \in DOMAIN c : ~c[k].visible /\ c[k].id = c[i].id /\ c[k].number # ""}
           listed == {k \in DOMAIN c : matched # {} /\ c[k].visible /\ c[k].number = c[Max(matched)].number}
<1>0. findAlternateParticipantID(c, c[i].id) = IF listed = {} THEN c[i].id ELSE c[Min(listed)].id
  BY DEF findAlternateParticipantID
<1> DEFINE n == Len(c)
<1>1. /\ n \in Nat /\ DOMAIN c = 1..n
      /\ \A j, k \in 1..n : c[j].id = c[k].id => j = k
  <2>1. /\ c \in Seq(Range(c))
        /\ \A j, k \in DOMAIN c : c[j].id = c[k].id => j = k
    BY ListAssumption
  <2>2. Len(c) \in Nat /\ DOMAIN c = 1..Len(c)
    BY <2>1, LenProperties
  <2>3. QED
    BY <2>1, <2>2
<1> HIDE DEF n
<1>2. n \in Nat
  BY <1>1, Zenon
<1>3. CASE c[i].visible
  <2>1. matched = {}
    BY <1>1, <1>3
  <2>2. QED
    BY <1>0, <1>3, <2>1
<1>4. CASE ~c[i].visible /\ \E k \in DOMAIN c : c[k].visible /\ c[k].number = c[i].number
  <2>1. matched = {i}
    BY <1>1, <1>4
  <2>2. i \in 0..n /\ {i} \in SUBSET (0..n) /\ {i} # {}
    <3>1. i \in 1..n
      BY <1>1
    <3>2. i \in 0..n
      BY <1>2, <3>1, Indices, Zenon
    <3>3. \A z \in {i} : z \in 0..n
      BY <3>2, Zenon
    <3>4. {i} # {}
      OBVIOUS
    <3>5. QED
      BY <3>2, <3>3, <3>4
  <2>3. Max({i}) \in {i}
    BY <1>1, <2>2, MaxIs
  <2>4. Max(matched) = i
    BY <2>1, <2>3
  <2>5. listed = {k \in DOMAIN c : c[k].visible /\ c[k].number = c[i].number}
    BY <2>1, <2>4
  <2>6. listed # {}
    BY <1>4, <2>5
  <2>7. listed \in SUBSET Nat
    <3>1. \A k \in 1..n : k \in Nat
      BY <1>2, Indices, Zenon
    <3>2. listed \subseteq DOMAIN c
      OBVIOUS
    <3>3. \A k \in listed : k \in Nat
      BY <1>1, <3>1, <3>2, Zenon
    <3>4. QED
      BY <3>3, Zenon
  <2>8. Min(listed) \in listed
    BY <2>6, <2>7, MinIs
  <2>9. QED
    BY <1>0, <1>4, <2>5, <2>6, <2>8
<1>5. QED
  BY <1>3, <1>4

LEMMA PeopleShown == PeopleInv => SenderShown
<1> SUFFICES ASSUME PeopleInv, NEW i \in DOMAIN chat
             PROVE  LET p == chat[i]
                        s == makeEventSender(chat, self, p.id, FALSE, FALSE)
                    IN  /\ (~s.IsFromMe /\ (\E k \in DOMAIN chat : IsMember(chat[k]) /\ chat[k].number = p.number))
                             => s.Sender \in members
                        /\ p.me => s.IsFromMe
  BY DEF SenderShown
<1> DEFINE p == chat[i]
           s == makeEventSender(chat, self, p.id, FALSE, FALSE)
           me == p.id = "1" \/ p.id \in self
<1>1. chat \in Chats
  BY DEF PeopleInv
<1>2. /\ \A j \in DOMAIN chat : chat[j].id # ""
      /\ \A j, k \in DOMAIN chat :
            (chat[j].number # "" /\ chat[j].number = chat[k].number) => (chat[j].me <=> chat[k].me)
  BY <1>1, ListAssumption
<1>3. s.IsFromMe = me /\ (~me => s.Sender = findAlternateParticipantID(chat, p.id))
  BY DEF makeEventSender
<1>4. p.me => me
  BY <1>2 DEF PeopleInv, OwnIDs
<1>5. ASSUME ~me, NEW k \in DOMAIN chat, IsMember(chat[k]), chat[k].number = p.number
      PROVE  s.Sender \in members
  <2>1. ~p.me /\ p.number # "" /\ chat[k].visible
    BY <1>4, <1>5 DEF IsMember
  <2>2. \E j \in DOMAIN chat : /\ chat[j].visible /\ chat[j].number = p.number
                               /\ findAlternateParticipantID(chat, p.id) = chat[j].id
    BY <1>1, <1>5, <2>1, AlternateIs
  <2>3. PICK j \in DOMAIN chat : /\ chat[j].visible /\ chat[j].number = p.number
                                 /\ findAlternateParticipantID(chat, p.id) = chat[j].id
    BY <2>2
  <2>4. ~chat[j].me
    BY <1>2, <2>1, <2>3
  <2>5. IsMember(chat[j])
    BY <2>1, <2>3, <2>4 DEF IsMember
  <2>6. chat[j].id \in MembersOf(chat)
    BY <2>5 DEF MembersOf
  <2>7. QED
    BY <1>3, <1>5, <2>3, <2>6 DEF PeopleInv
<1>6. QED
  BY <1>3, <1>4, <1>5

(* However the phone's lists, the SIM cards and the events follow each     *)
(* other, what others send is shown as sent by a member of the room and    *)
(* what the user sends as the user's (makeEventSender, wrapChatInfo).      *)
THEOREM SenderShownThm == DirectorySpec => []SenderShown
<1>1. QED
  BY PeopleInvInit, PeopleInvStep, PeopleShown, PTL DEF DirectorySpec

(* A ghost counts as named only when it has a real name.                   *)
NamedInv == \A id \in DOMAIN ghosts : ghosts[id].HasName => ghosts[id].name \notin {"", "number"}

LEMMA NamedInit == DirectoryInit => NamedInv
<1> SUFFICES ASSUME DirectoryInit, NEW id \in DOMAIN ghosts PROVE ~ghosts[id].HasName
  BY DEF NamedInv
<1>1. ghosts = [i \in {p.id : p \in People} |-> [name |-> "", HasName |-> FALSE, ContactID |-> ""]]
  BY DEF DirectoryInit
<1>2. ghosts[id] = [name |-> "", HasName |-> FALSE, ContactID |-> ""]
  BY <1>1
<1>3. [name |-> "", HasName |-> FALSE, ContactID |-> ""].HasName = FALSE
  BY Zenon
<1>4. QED
  BY <1>2, <1>3, Zenon

(* What Updated does to the ghosts, the whole of GetContactList's and      *)
(* ChatUpdate's effect on them, keeps every name.                          *)
LEMMA UpdatedKeeps ==
  ASSUME NEW ps \in SUBSET People, NamedInv
  PROVE  /\ DOMAIN Updated(ghosts, ps) = DOMAIN ghosts
         /\ \A id \in DOMAIN ghosts :
              /\ Updated(ghosts, ps)[id].HasName => Updated(ghosts, ps)[id].name \notin {"", "number"}
              /\ ghosts[id].HasName => Updated(ghosts, ps)[id].HasName
<1>1. DOMAIN Updated(ghosts, ps) = DOMAIN ghosts
  BY DEF Updated
<1>2. ASSUME NEW id \in DOMAIN ghosts
      PROVE  /\ Updated(ghosts, ps)[id].HasName => Updated(ghosts, ps)[id].name \notin {"", "number"}
             /\ ghosts[id].HasName => Updated(ghosts, ps)[id].HasName
  <2> DEFINE of == {p \in ps : p.id = id}
             g == ghosts[id]
  <2>1. CASE of = {}
    <3>1. Updated(ghosts, ps)[id] = g
      BY <2>1 DEF Updated
    <3>2. QED
      BY <3>1 DEF NamedInv
  <2>2. CASE of # {}
    <3>1. PICK p \in ps : Updated(ghosts, ps)[id] = makeUserInfo(g, p)
      BY <2>2 DEF Updated
    <3>2. p.name # "number"
      BY ListAssumption
    <3>3. g.HasName => g.name \notin {"", "number"}
      BY DEF NamedInv
    <3>4. /\ makeUserInfo(g, p).name = IF p.name # "" THEN p.name ELSE IF g.HasName THEN g.name ELSE "number"
          /\ makeUserInfo(g, p).HasName <=> (g.HasName \/ p.name # "")
      BY DEF makeUserInfo
    <3>5. QED
      BY <3>1, <3>2, <3>3, <3>4
  <2>3. QED
    BY <2>1, <2>2
<1>3. QED
  BY <1>1, <1>2

NameStep ==
    \A id \in DOMAIN ghosts : ghosts[id].HasName =>
        ghosts'[id].HasName /\ ghosts'[id].name \notin {"", "number"}

LEMMA NamedStep == NamedInv /\ [DirectoryNext]_directoryVars => NamedInv' /\ NameStep
<1> SUFFICES ASSUME NamedInv, [DirectoryNext]_directoryVars PROVE NamedInv' /\ NameStep
  OBVIOUS
<1>1. ASSUME NEW ps \in SUBSET People, ghosts' = Updated(ghosts, ps) PROVE NamedInv' /\ NameStep
  BY <1>1, UpdatedKeeps DEF NamedInv, NameStep
<1>2. ASSUME ghosts' = ghosts PROVE NamedInv' /\ NameStep
  BY <1>2 DEF NamedInv, NameStep
<1>3. ASSUME NEW c \in Chats, ChatUpdate(c) PROVE NamedInv' /\ NameStep
  <2>1. {p \in Range(c) : IsMember(p)} \in SUBSET People
    BY DEF People
  <2>2. QED
    BY <1>1, <1>3, <2>1 DEF ChatUpdate
<1>4. ASSUME NEW l \in Contacts, GetContactList(l) PROVE NamedInv' /\ NameStep
  <2>1. l \in SUBSET People
    <3>1. \A p \in l : p \in UNION Contacts
      OBVIOUS
    <3>2. \A p \in UNION Contacts : p \in People
      BY Zenon DEF People
    <3>3. QED
      BY <3>1, <3>2
  <2>2. QED
    BY <1>1, <1>4, <2>1 DEF GetContactList
<1>5. ASSUME NEW s \in SIMSets, SetSIMs(s) PROVE NamedInv' /\ NameStep
  BY <1>2, <1>5 DEF SetSIMs
<1>6. CASE ContactsExpire
  BY <1>2, <1>6 DEF ContactsExpire
<1>7. CASE PhoneResponding
  BY <1>2, <1>7 DEF PhoneResponding
<1>8. ASSUME NEW i \in DOMAIN chat, RemoteEvent(i) PROVE NamedInv' /\ NameStep
  BY <1>2, <1>8 DEF RemoteEvent
<1>9. CASE UNCHANGED directoryVars
  BY <1>2, <1>9 DEF directoryVars
<1>10. QED
  BY <1>3, <1>4, <1>5, <1>6, <1>7, <1>8, <1>9 DEF DirectoryNext

(* A ghost that had a name never goes back to being a number, whichever    *)
(* chat or contact list leaves the name out (makeUserInfo).                *)
THEOREM NameKeptThm == DirectorySpec => NameKept
<1>1. NamedInv /\ [DirectoryNext]_directoryVars => [NameStep]_directoryVars
  BY NamedStep
<1>2. QED
  BY <1>1, NamedInit, NamedStep, PTL DEF DirectorySpec, NameKept, NameStep
-----------------------------------------------------------------------------
(* The room of a chat that was marked as spam.  The types first.           *)
Version == [status : Statuses \cup {"ACTIVE"}, latest : Nat, unread : BOOLEAN]
PortalEvent == [kind : {"read", "resync", "message"}, update : Nat, allow : BOOLEAN,
                only : BOOLEAN, target : Nat]
Meta == [known : BOOLEAN, unread : BOOLEAN, readUpTo : Nat, readUpToTS : Nat,
         markedSpamAt : {"never", "recently", "long ago"}]

SyncType ==
    /\ phone \in Version /\ updates \in Seq(Version)
    /\ syncing \in Seq({"start", "queue", "done"}) /\ Len(syncing) = Len(updates)
    /\ meta \in Meta /\ room \in BOOLEAN /\ overtaken \in BOOLEAN
    /\ queue \in Seq(PortalEvent) /\ timer \in Seq(PortalEvent)
    /\ locked \in Seq(Nat)

(* A resync names an update that was sent; the delayed one is never to     *)
(* create a room; an update that is about to queue its events took the     *)
(* lock.                                                                   *)
SyncRefs ==
    /\ \A i \in 1..Len(queue) : queue[i].kind = "resync" => queue[i].update \in 1..Len(updates)
    /\ \A i \in 1..Len(timer) : /\ timer[i].kind = "resync" => timer[i].update \in 1..Len(updates)
                                /\ timer[i].kind = "resync" => timer[i].only
                                /\ timer[i].kind # "message"
    /\ \A i \in 1..Len(locked) : locked[i] \in 1..Len(updates)
    /\ \A u \in 1..Len(updates) : syncing[u] = "queue" => \E i \in 1..Len(locked) : locked[i] = u

Goes(u) == updates[u].status \in GoneStatuses

(* An event that deletes the room, or may create it, and an update that    *)
(* has yet to queue one that deletes it.                                   *)
Deletes(e) == e.kind = "resync" /\ Goes(e.update)
Creates(e) == e.kind = "resync" /\ ~e.only /\ ~Goes(e.update)
Ahead == \E u \in 1..Len(updates) : Goes(u) /\ syncing[u] \in {"start", "queue"}

(* Within a minute of the mark: an update that may still bring the room    *)
(* back took the lock before one that takes it away, so that it either     *)
(* queues its events first or is overtaken; behind every event that may    *)
(* create the room, and behind the room itself while the chat is gone, a   *)
(* deletion is on its way.                                                 *)
Stragglers ==
    \A u \in 1..Len(updates) : syncing[u] = "queue" /\ ~Goes(u) =>
        \E i, j \in 1..Len(locked) : i < j /\ locked[i] = u /\ Goes(locked[j])

CreationUndone ==
    \A i \in 1..Len(queue) : Creates(queue[i]) =>
        Ahead \/ \E j \in 1..Len(queue) : i < j /\ Deletes(queue[j])

RoomUndone ==
    room /\ phone.status \in GoneStatuses =>
        Ahead \/ \E j \in 1..Len(queue) : Deletes(queue[j])

SpamInv == meta.markedSpamAt = "recently" /\ ~overtaken => Stragglers /\ CreationUndone /\ RoomUndone

SyncInv == SyncType /\ SyncRefs /\ SpamInv

LEMMA SyncInvInit == SyncInit => SyncInv
<1> SUFFICES ASSUME SyncInit PROVE SyncInv
  OBVIOUS
<1>1. phone \in Version /\ meta \in Meta /\ room \in BOOLEAN /\ overtaken \in BOOLEAN
  BY DEF SyncInit, Version, Meta
<1>2. updates = <<>> /\ syncing = <<>> /\ timer = <<>> /\ queue = <<>> /\ locked = <<>>
  BY DEF SyncInit
<1>3. Len(<<>>) = 0 /\ \A S : <<>> \in Seq(S)
  OBVIOUS
<1>4. \A i : ~(i \in 1..0)
  OBVIOUS
<1>5. SyncType
  BY <1>1, <1>2, <1>3 DEF SyncType
<1>6. SyncRefs
  BY <1>2, <1>3, <1>4 DEF SyncRefs
<1>7. meta.markedSpamAt # "recently"
  BY DEF SyncInit
<1>8. QED
  BY <1>5, <1>6, <1>7 DEF SyncInv, SpamInv

(* What it means that a sequence grows at its end, or loses its head.      *)
LEMMA Grown ==
  ASSUME NEW S, NEW q \in Seq(S), NEW r \in Seq(S)
  PROVE  /\ q \o r \in Seq(S) /\ Len(q) \in Nat /\ Len(r) \in Nat
         /\ Len(q \o r) = Len(q) + Len(r)
         /\ \A i \in 1..Len(q) : i \in 1..Len(q \o r) /\ (q \o r)[i] = q[i]
         /\ \A i \in 1..Len(q \o r) :
              i \in 1..Len(q) \/ (i > Len(q) /\ \E k \in 1..Len(r) : (q \o r)[i] = r[k])
<1>1. /\ q \o r \in Seq(S) /\ Len(q \o r) = Len(q) + Len(r)
      /\ \A i \in 1..Len(q) + Len(r) : (q \o r)[i] = IF i <= Len(q) THEN q[i] ELSE r[i - Len(q)]
  BY ConcatProperties
<1>2. Len(q) \in Nat /\ Len(r) \in Nat
  BY LenProperties
<1>3. ASSUME NEW i \in 1..Len(q)
      PROVE  i \in 1..Len(q \o r) /\ (q \o r)[i] = q[i]
  BY <1>1, <1>2
<1>4. ASSUME NEW i \in 1..Len(q \o r), ~(i \in 1..Len(q))
      PROVE  i > Len(q) /\ \E k \in 1..Len(r) : (q \o r)[i] = r[k]
  <2>1. i > Len(q) /\ i - Len(q) \in 1..Len(r)
    BY <1>1, <1>2, <1>4
  <2>2. (q \o r)[i] = r[i - Len(q)]
    BY <1>1, <1>2, <1>4, <2>1
  <2>3. QED
    BY <2>1, <2>2
<1>5. QED
  BY <1>1, <1>2, <1>3, <1>4

LEMMA Appended ==
  ASSUME NEW S, NEW q \in Seq(S), NEW x \in S
  PROVE  /\ Append(q, x) \in Seq(S) /\ Len(q) \in Nat
         /\ Len(Append(q, x)) = Len(q) + 1
         /\ Append(q, x)[Len(q) + 1] = x
         /\ \A i \in 1..Len(q) : i \in 1..Len(Append(q, x)) /\ Append(q, x)[i] = q[i]
         /\ \A i \in 1..Len(Append(q, x)) : i \in 1..Len(q) \/ i = Len(q) + 1
  OBVIOUS

(* The phone changes: the new update is the last one, and its event, if    *)
(* any, is a message.                                                      *)
LEMMA PhoneInvStep ==
  ASSUME SyncInv, NEW new \in Version, NEW evts \in Seq(PortalEvent), PhoneChanges(new, evts),
         \A k \in 1..Len(evts) : evts[k].kind = "message"
  PROVE  SyncInv'
<1>1. /\ phone' = new /\ updates' = Append(updates, new) /\ syncing' = Append(syncing, "start")
      /\ queue' = queue \o evts /\ meta' = meta /\ timer' = timer /\ room' = room
      /\ locked' = locked /\ overtaken' = overtaken
  BY DEF PhoneChanges, matrix
<1>2. /\ updates \in Seq(Version) /\ syncing \in Seq({"start", "queue", "done"})
      /\ queue \in Seq(PortalEvent) /\ Len(syncing) = Len(updates)
  BY DEF SyncInv, SyncType
<1>3. /\ updates' \in Seq(Version) /\ Len(updates) \in Nat /\ Len(updates') = Len(updates) + 1
      /\ updates'[Len(updates) + 1] = new
      /\ \A i \in 1..Len(updates) : i \in 1..Len(updates') /\ updates'[i] = updates[i]
      /\ \A i \in 1..Len(updates') : i \in 1..Len(updates) \/ i = Len(updates) + 1
  BY <1>1, <1>2, Appended
<1>4. /\ syncing' \in Seq({"start", "queue", "done"}) /\ Len(syncing') = Len(updates')
      /\ syncing'[Len(updates) + 1] = "start"
      /\ \A i \in 1..Len(updates) : syncing'[i] = syncing[i]
  <2>1. "start" \in {"start", "queue", "done"}
    OBVIOUS
  <2>2. QED
    BY <1>1, <1>2, <1>3, <2>1, Appended
<1>5. /\ queue' \in Seq(PortalEvent)
      /\ \A i \in 1..Len(queue) : i \in 1..Len(queue') /\ queue'[i] = queue[i]
      /\ \A i \in 1..Len(queue') : i \in 1..Len(queue) \/ queue'[i].kind = "message"
  BY <1>1, <1>2, Grown
<1>6. SyncType'
  BY <1>1, <1>3, <1>4, <1>5 DEF SyncInv, SyncType
<1>7. SyncRefs'
  <2>1. \A i \in 1..Len(queue') : queue'[i].kind = "resync" => queue'[i].update \in 1..Len(updates')
    BY <1>3, <1>5 DEF SyncInv, SyncRefs
  <2>2. \A i \in 1..Len(timer') : /\ timer'[i].kind = "resync" => timer'[i].update \in 1..Len(updates')
                                  /\ timer'[i].kind = "resync" => timer'[i].only
                                  /\ timer'[i].kind # "message"
    BY <1>1, <1>3 DEF SyncInv, SyncRefs
  <2>3. \A i \in 1..Len(locked') : locked'[i] \in 1..Len(updates')
    BY <1>1, <1>3 DEF SyncInv, SyncRefs
  <2>4. \A u \in 1..Len(updates') : syncing'[u] = "queue" => \E i \in 1..Len(locked') : locked'[i] = u
    BY <1>1, <1>3, <1>4 DEF SyncInv, SyncRefs
  <2>5. QED
    BY <2>1, <2>2, <2>3, <2>4 DEF SyncRefs
<1>8. ASSUME meta'.markedSpamAt = "recently", ~overtaken'
      PROVE  Stragglers' /\ CreationUndone' /\ RoomUndone'
  <2>1. Stragglers /\ CreationUndone /\ RoomUndone
    BY <1>1, <1>8 DEF SyncInv, SpamInv
  <2>2. \A u \in 1..Len(updates) : Goes(u)' <=> Goes(u)
    BY <1>3 DEF Goes
  <2>3. Ahead => Ahead'
    BY <1>3, <1>4, <2>2 DEF Ahead
  <2>4. \A i \in 1..Len(queue) : /\ Deletes(queue[i])' <=> Deletes(queue[i])
                                 /\ Creates(queue[i])' <=> Creates(queue[i])
    BY <1>5, <2>2 DEF SyncInv, SyncRefs, Deletes, Creates
  <2>5. Stragglers'
    <3>1. \A j \in 1..Len(locked) : Goes(locked[j])' <=> Goes(locked[j])
      BY <1>1, <2>2 DEF SyncInv, SyncRefs
    <3> SUFFICES ASSUME NEW u \in 1..Len(updates'), syncing'[u] = "queue", ~Goes(u)'
                 PROVE  \E i, j \in 1..Len(locked') : i < j /\ locked'[i] = u /\ Goes(locked[j])'
      BY DEF Stragglers
    <3>2. u \in 1..Len(updates)
      BY <1>3, <1>4
    <3>3. \E i, j \in 1..Len(locked) : i < j /\ locked[i] = u /\ Goes(locked[j])
      BY <1>4, <2>1, <2>2, <3>2 DEF Stragglers
    <3>4. QED
      BY <1>1, <3>1, <3>3
  <2>6. CreationUndone'
    <3> SUFFICES ASSUME NEW i \in 1..Len(queue'), Creates(queue[i])'
                 PROVE  Ahead' \/ \E j \in 1..Len(queue') : i < j /\ Deletes(queue[j])'
      BY DEF CreationUndone
    <3>1. i \in 1..Len(queue)
      BY <1>5 DEF Creates
    <3>2. Ahead \/ \E j \in 1..Len(queue) : i < j /\ Deletes(queue[j])
      BY <2>1, <2>4, <3>1 DEF CreationUndone
    <3>3. QED
      BY <1>5, <2>3, <2>4, <3>2
  <2>7. RoomUndone'
    <3>1. CASE new.status \in GoneStatuses
      <4>1. PICK u \in 1..Len(updates') : u = Len(updates) + 1
        BY <1>3
      <4>2. Goes(u)' /\ syncing'[u] = "start"
        BY <1>3, <1>4, <3>1, <4>1 DEF Goes
      <4>3. Ahead'
        BY <4>1, <4>2 DEF Ahead
      <4>4. QED
        BY <4>3 DEF RoomUndone
    <3>2. CASE new.status \notin GoneStatuses
      BY <1>1, <3>2 DEF RoomUndone
    <3>3. QED
      BY <3>1, <3>2
  <2>8. QED
    BY <2>5, <2>6, <2>7
<1>9. QED
  BY <1>6, <1>7, <1>8 DEF SyncInv, SpamInv

(* An update takes the lock.  The first one that marks the chat as spam is *)
(* locked after everything that has yet to queue its events; once marked,  *)
(* an update that would bring the chat back is dropped.                    *)
LEMMA LockInvStep ==
  ASSUME SyncInv, NEW u \in DOMAIN syncing, syncConversationMeta(u)
  PROVE  SyncInv'
<1> DEFINE v == updates[u]
           spam == v.status \in SpamStatuses /\ meta.markedSpamAt = "never"
<1>1. /\ syncing[u] = "start" /\ locked' = Append(locked, u)
      /\ phone' = phone /\ updates' = updates /\ timer' = timer /\ queue' = queue
      /\ room' = room /\ overtaken' = overtaken
  BY DEF syncConversationMeta, matrix
<1>2. /\ updates \in Seq(Version) /\ syncing \in Seq({"start", "queue", "done"})
      /\ locked \in Seq(Nat) /\ Len(syncing) = Len(updates) /\ meta \in Meta
  BY DEF SyncInv, SyncType
<1>3. Len(updates) \in Nat /\ u \in 1..Len(updates) /\ u \in 1..Len(syncing) /\ u \in Nat
  BY <1>2, LenProperties, Indices
<1>4. v \in Version
  BY <1>2, <1>3, LenProperties
<1>5. meta' \in Meta /\ meta'.markedSpamAt = IF spam THEN "recently" ELSE meta.markedSpamAt
  <2>1. ReadOf(v, meta) \in Nat
    BY <1>2, <1>4 DEF ReadOf, Version, Meta
  <2>2. v.latest \in Nat /\ v.unread \in BOOLEAN /\ meta.readUpToTS \in Nat
    BY <1>2, <1>4 DEF Version, Meta
  <2>3. meta.markedSpamAt \in {"never", "recently", "long ago"}
    BY <1>2 DEF Meta
  <2>4. meta' = [known |-> TRUE, unread |-> v.unread, readUpTo |-> ReadOf(v, meta),
                 readUpToTS |-> IF ~v.unread THEN v.latest
                                ELSE IF meta.readUpTo = v.latest THEN 0 ELSE meta.readUpToTS,
                 markedSpamAt |-> IF spam THEN "recently" ELSE meta.markedSpamAt]
    BY DEF syncConversationMeta
  <2>5. QED
    BY <2>1, <2>2, <2>3, <2>4 DEF Meta
<1>6. syncing' = [syncing EXCEPT ![u] = IF suspiciousUnmarkedSpam(v, meta') THEN "done" ELSE "queue"]
  BY DEF syncConversationMeta
<1>7. /\ syncing' \in Seq({"start", "queue", "done"}) /\ Len(syncing') = Len(updates)
      /\ \A w \in 1..Len(updates) : w # u => syncing'[w] = syncing[w]
      /\ syncing'[u] \in {"done", "queue"}
      /\ (syncing'[u] = "done") <=> (v.status \notin GoneStatuses /\ meta'.markedSpamAt = "recently")
  <2>1. CASE suspiciousUnmarkedSpam(v, meta')
    <3>1. syncing' = [syncing EXCEPT ![u] = "done"]
      BY <1>6, <2>1
    <3>2. QED
      BY <1>2, <1>3, <2>1, <3>1, ExceptSeq DEF suspiciousUnmarkedSpam
  <2>2. CASE ~suspiciousUnmarkedSpam(v, meta')
    <3>1. syncing' = [syncing EXCEPT ![u] = "queue"]
      BY <1>6, <2>2
    <3>2. QED
      BY <1>2, <1>3, <2>2, <3>1, ExceptSeq DEF suspiciousUnmarkedSpam
  <2>3. QED
    BY <2>1, <2>2
<1>8. /\ locked' \in Seq(Nat) /\ Len(locked) \in Nat /\ Len(locked') = Len(locked) + 1
      /\ locked'[Len(locked) + 1] = u
      /\ \A i \in 1..Len(locked) : i \in 1..Len(locked') /\ locked'[i] = locked[i]
      /\ \A i \in 1..Len(locked') : i \in 1..Len(locked) \/ i = Len(locked) + 1
  BY <1>1, <1>2, <1>3, Appended
<1>9. PICK n \in 1..Len(locked') : locked'[n] = u /\ \A i \in 1..Len(locked) : i < n
  BY <1>8
<1>10. SyncType'
  BY <1>1, <1>5, <1>7, <1>8 DEF SyncInv, SyncType
<1>11. SyncRefs'
  <2>1. \A i \in 1..Len(locked') : locked'[i] \in 1..Len(updates')
    BY <1>1, <1>3, <1>8 DEF SyncInv, SyncRefs
  <2>2. ASSUME NEW w \in 1..Len(updates'), syncing'[w] = "queue"
        PROVE  \E i \in 1..Len(locked') : locked'[i] = w
    <3>1. CASE w = u
      BY <1>9, <3>1
    <3>2. CASE w # u
      <4>1. w \in 1..Len(updates) /\ syncing[w] = "queue"
        BY <1>1, <1>7, <2>2, <3>2
      <4>2. PICK i \in 1..Len(locked) : locked[i] = w
        BY <4>1 DEF SyncInv, SyncRefs
      <4>3. QED
        BY <1>8, <4>2
    <3>3. QED
      BY <3>1, <3>2
  <2>3. QED
    BY <1>1, <2>1, <2>2 DEF SyncInv, SyncRefs
<1>12. \A w \in 1..Len(updates) : Goes(w)' <=> Goes(w)
  BY <1>1 DEF Goes
<1>13. \A i \in 1..Len(queue) : /\ Deletes(queue[i])' <=> Deletes(queue[i])
                                /\ Creates(queue[i])' <=> Creates(queue[i])
  BY <1>1 DEF Deletes, Creates, Goes
<1>14. ASSUME meta'.markedSpamAt = "recently", ~overtaken'
       PROVE  Stragglers' /\ CreationUndone' /\ RoomUndone'
  <2>1. ~Goes(u) => syncing'[u] = "done"
    BY <1>7, <1>14 DEF Goes
  <2>2. Goes(u) => syncing'[u] = "queue"
    BY <1>7 DEF Goes
  <2>3. Goes(u) => Ahead'
    BY <1>1, <1>3, <1>12, <2>2 DEF Ahead
  <2>4. Ahead => Ahead'
    BY <1>1, <1>7, <1>12, <2>3 DEF Ahead
  <2>5. CASE spam
    <3>1. Goes(u)
      BY <2>5 DEF Goes, GoneStatuses
    <3>2. ASSUME NEW w \in 1..Len(updates'), syncing'[w] = "queue", ~Goes(w)'
          PROVE  \E i, j \in 1..Len(locked') : i < j /\ locked'[i] = w /\ Goes(locked[j])'
      <4>1. w # u /\ syncing[w] = "queue" /\ w \in 1..Len(updates)
        BY <1>1, <1>7, <1>12, <3>1, <3>2
      <4>2. PICK i \in 1..Len(locked) : locked[i] = w
        BY <4>1 DEF SyncInv, SyncRefs
      <4>3. i \in 1..Len(locked') /\ locked'[i] = w /\ i < n
        BY <1>8, <1>9, <4>2
      <4>4. Goes(locked[n])'
        BY <1>1, <1>9, <3>1 DEF Goes
      <4>5. QED
        BY <1>9, <4>3, <4>4
    <3>3. QED
      BY <2>3, <3>1, <3>2 DEF Stragglers, CreationUndone, RoomUndone
  <2>6. CASE ~spam
    <3>1. Stragglers /\ CreationUndone /\ RoomUndone
      BY <1>1, <1>5, <1>14, <2>6 DEF SyncInv, SpamInv
    <3>2. ASSUME NEW w \in 1..Len(updates'), syncing'[w] = "queue", ~Goes(w)'
          PROVE  \E i, j \in 1..Len(locked') : i < j /\ locked'[i] = w /\ Goes(locked[j])'
      <4>1. w # u /\ syncing[w] = "queue" /\ w \in 1..Len(updates) /\ ~Goes(w)
        BY <1>1, <1>3, <1>7, <1>12, <2>1, <3>2
      <4>2. PICK i, j \in 1..Len(locked) : i < j /\ locked[i] = w /\ Goes(locked[j])
        BY <3>1, <4>1 DEF Stragglers
      <4>3. Goes(locked[j])'
        BY <1>1, <1>8, <4>2 DEF Goes
      <4>4. QED
        BY <1>8, <4>2, <4>3
    <3>3. CreationUndone' /\ RoomUndone'
      BY <1>1, <1>13, <2>4, <3>1 DEF CreationUndone, RoomUndone
    <3>4. QED
      BY <3>2, <3>3 DEF Stragglers
  <2>7. QED
    BY <2>5, <2>6
<1>15. QED
  BY <1>10, <1>11, <1>14 DEF SyncInv, SpamInv

LEMMA ResyncIs ==
  ASSUME NEW u \in Nat, NEW allow \in BOOLEAN, NEW only \in BOOLEAN
  PROVE  /\ Resync(u, allow, only) \in PortalEvent /\ Resync(u, allow, only).kind = "resync"
         /\ Resync(u, allow, only).update = u /\ Resync(u, allow, only).only = only
  BY DEF Resync, PortalEvent

LEMMA MarkReadIs ==
  ASSUME NEW u \in Nat, SyncType
  PROVE  /\ MarkRead(u) \in Seq(PortalEvent)
         /\ \A k \in 1..Len(MarkRead(u)) : MarkRead(u)[k].kind = "read"
<1> DEFINE e == [kind |-> "read", update |-> u, allow |-> FALSE, only |-> FALSE,
                 target |-> meta.readUpTo]
<1>1. e \in PortalEvent /\ e.kind = "read"
  BY DEF SyncType, Meta, PortalEvent
<1>2. MarkRead(u) = IF updates[u].unread THEN <<>> ELSE <<e>>
  BY DEF MarkRead
<1> HIDE DEF e
<1>3. <<>> \in Seq(PortalEvent) /\ Len(<<>>) = 0 /\ 1..0 = {}
  OBVIOUS
<1>4. <<e>> \in Seq(PortalEvent) /\ Len(<<e>>) = 1 /\ <<e>>[1] = e /\ \A k \in 1..1 : k = 1
  BY <1>1
<1>5. QED
  BY <1>1, <1>2, <1>3, <1>4

(* Events are added to the queue that neither create nor delete the room.  *)
HarmlessEvent(e) == e.kind = "resync" => e.only

LEMMA HarmlessGrowth ==
  ASSUME SyncInv, NEW evts \in Seq(PortalEvent), queue' = queue \o evts,
         \A k \in 1..Len(evts) :
            HarmlessEvent(evts[k]) /\ (evts[k].kind = "resync" => evts[k].update \in 1..Len(updates)),
         UNCHANGED <<phone, updates, syncing, meta, room, locked, overtaken>>,
         timer' \in Seq(PortalEvent),
         \A k \in 1..Len(timer') :
            /\ HarmlessEvent(timer'[k]) /\ timer'[k].kind # "message"
            /\ timer'[k].kind = "resync" => timer'[k].update \in 1..Len(updates)
  PROVE  SyncInv'
<1>1. /\ phone' = phone /\ updates' = updates /\ syncing' = syncing /\ meta' = meta
      /\ room' = room /\ locked' = locked /\ overtaken' = overtaken
  OBVIOUS
<1>2. queue \in Seq(PortalEvent)
  BY DEF SyncInv, SyncType
<1>3. /\ queue' \in Seq(PortalEvent)
      /\ \A i \in 1..Len(queue) : i \in 1..Len(queue') /\ queue'[i] = queue[i]
      /\ \A i \in 1..Len(queue') : i \in 1..Len(queue) \/ \E k \in 1..Len(evts) : queue'[i] = evts[k]
  BY <1>2, Grown
<1>4. SyncType'
  BY <1>1, <1>3 DEF SyncInv, SyncType
<1>5. SyncRefs'
  <2>1. \A i \in 1..Len(queue') : queue'[i].kind = "resync" => queue'[i].update \in 1..Len(updates')
    BY <1>1, <1>3 DEF SyncInv, SyncRefs
  <2>2. \A i \in 1..Len(timer') : /\ timer'[i].kind = "resync" => timer'[i].update \in 1..Len(updates')
                                  /\ timer'[i].kind = "resync" => timer'[i].only
                                  /\ timer'[i].kind # "message"
    BY <1>1 DEF HarmlessEvent
  <2>3. QED
    BY <1>1, <2>1, <2>2 DEF SyncInv, SyncRefs
<1>6. \A u : Goes(u)' <=> Goes(u)
  BY <1>1 DEF Goes
<1>7. ASSUME meta'.markedSpamAt = "recently", ~overtaken'
      PROVE  Stragglers' /\ CreationUndone' /\ RoomUndone'
  <2>1. Stragglers /\ CreationUndone /\ RoomUndone
    BY <1>1, <1>7 DEF SyncInv, SpamInv
  <2>2. Stragglers' /\ (Ahead => Ahead')
    BY <1>1, <1>6, <2>1 DEF Stragglers, Goes, Ahead
  <2>3. \A i \in 1..Len(queue) : /\ Deletes(queue[i]) => Deletes(queue[i])'
                                 /\ Creates(queue[i])' => Creates(queue[i])
    BY <1>1, <1>3 DEF Deletes, Creates, Goes
  <2>4. \A i \in 1..Len(queue') : Creates(queue[i])' => i \in 1..Len(queue)
    BY <1>3 DEF Creates, HarmlessEvent
  <2>5. CreationUndone'
    BY <1>3, <2>1, <2>2, <2>3, <2>4 DEF CreationUndone
  <2>6. RoomUndone'
    BY <1>1, <1>3, <2>1, <2>2, <2>3 DEF RoomUndone
  <2>7. QED
    BY <2>2, <2>5, <2>6
<1>8. QED
  BY <1>4, <1>5, <1>7 DEF SyncInv, SpamInv

LEMMA TimerInvStep == ASSUME SyncInv, DelayedBackfill PROVE SyncInv'
<1>1. /\ queue' = queue \o timer /\ timer' = <<>>
      /\ UNCHANGED <<phone, updates, syncing, meta, room, locked, overtaken>>
  BY DEF DelayedBackfill, matrix
<1>2. timer \in Seq(PortalEvent)
  BY DEF SyncInv, SyncType
<1>3. \A k \in 1..Len(timer) :
         HarmlessEvent(timer[k]) /\ (timer[k].kind = "resync" => timer[k].update \in 1..Len(updates))
  BY DEF SyncInv, SyncRefs, HarmlessEvent
<1>4. timer' \in Seq(PortalEvent) /\ 1..Len(timer') = {}
  BY <1>1
<1>5. QED
  BY <1>1, <1>2, <1>3, <1>4, HarmlessGrowth

(* An update queues its events: its own resync and, at once or with the    *)
(* delayed backfill, harmless ones.                                        *)
LEMMA QueueInvStep ==
  ASSUME SyncInv, NEW u \in DOMAIN syncing, syncConversation(u)
  PROVE  SyncInv'
<1> DEFINE v == updates[u]
           r == Resync(u, AllowBackfill(v), FALSE)
           tail == IF v.status \notin GoneStatuses /\ AllowBackfill(v) THEN MarkRead(u) ELSE <<>>
<1>1. /\ syncing[u] = "queue" /\ syncing' = [syncing EXCEPT ![u] = "done"]
      /\ queue' = Append(queue, r) \o tail
      /\ phone' = phone /\ updates' = updates /\ meta' = meta /\ room' = room /\ locked' = locked
      /\ overtaken' = (overtaken \/ \E i, j \in DOMAIN locked :
                          i < j /\ locked[i] = u /\ syncing[locked[j]] = "done")
  BY DEF syncConversation, matrix
<1>2. /\ updates \in Seq(Version) /\ syncing \in Seq({"start", "queue", "done"})
      /\ locked \in Seq(Nat) /\ Len(syncing) = Len(updates) /\ queue \in Seq(PortalEvent)
      /\ timer \in Seq(PortalEvent) /\ SyncType
  BY DEF SyncInv, SyncType
<1>3. Len(updates) \in Nat /\ u \in 1..Len(updates) /\ u \in 1..Len(syncing) /\ u \in Nat
  BY <1>2, LenProperties, Indices
<1>4. r \in PortalEvent /\ r.kind = "resync" /\ r.update = u /\ r.only = FALSE
  <2>1. AllowBackfill(v) \in BOOLEAN
    BY DEF AllowBackfill
  <2>2. QED
    BY <1>3, <2>1, ResyncIs
<1>5. tail \in Seq(PortalEvent) /\ \A k \in 1..Len(tail) : tail[k].kind = "read"
  <2>1. CASE v.status \notin GoneStatuses /\ AllowBackfill(v)
    BY <1>2, <1>3, <2>1, MarkReadIs
  <2>2. CASE ~(v.status \notin GoneStatuses /\ AllowBackfill(v))
    BY <2>2
  <2>3. QED
    BY <2>1, <2>2
<1>6. /\ timer' \in Seq(PortalEvent)
      /\ \A k \in 1..Len(timer') :
            /\ timer'[k].kind = "resync" => timer'[k].update \in 1..Len(updates)
            /\ timer'[k].kind = "resync" => timer'[k].only
            /\ timer'[k].kind # "message"
  <2>1. CASE v.status \notin GoneStatuses /\ ~AllowBackfill(v)
    <3> DEFINE d == Resync(u, TRUE, TRUE)
    <3>1. timer' = <<d>> \o MarkRead(u)
      BY <2>1 DEF syncConversation
    <3>2. d \in PortalEvent /\ d.kind = "resync" /\ d.update = u /\ d.only = TRUE
      BY <1>3, ResyncIs
    <3> HIDE DEF d
    <3>3. <<d>> \in Seq(PortalEvent) /\ Len(<<d>>) = 1 /\ <<d>>[1] = d /\ \A k \in 1..1 : k = 1
      BY <3>2
    <3>4. MarkRead(u) \in Seq(PortalEvent) /\ \A k \in 1..Len(MarkRead(u)) : MarkRead(u)[k].kind = "read"
      BY <1>2, <1>3, MarkReadIs
    <3>5. timer' \in Seq(PortalEvent)
      BY <3>1, <3>3, <3>4, Grown
    <3>6. \A k \in 1..Len(timer') : timer'[k] = d \/ timer'[k].kind = "read"
      <4>1. \A k \in 1..Len(timer') :
              \/ (k \in 1..1 /\ timer'[k] = <<d>>[k])
              \/ \E i \in 1..Len(MarkRead(u)) : timer'[k] = MarkRead(u)[i]
        BY <3>1, <3>3, <3>4, Grown
      <4>2. QED
        BY <3>3, <3>4, <4>1
    <3>7. QED
      BY <1>3, <3>2, <3>5, <3>6
  <2>2. CASE ~(v.status \notin GoneStatuses /\ ~AllowBackfill(v))
    <3>1. timer' = timer
      BY <2>2 DEF syncConversation
    <3>2. QED
      BY <1>2, <3>1 DEF SyncInv, SyncRefs
  <2>3. QED
    BY <2>1, <2>2
<1> HIDE DEF r, tail
<1>7. /\ syncing' \in Seq({"start", "queue", "done"}) /\ Len(syncing') = Len(updates)
      /\ \A w \in 1..Len(updates) : syncing'[w] = IF w = u THEN "done" ELSE syncing[w]
  BY <1>1, <1>2, <1>3, ExceptSeq
<1>8. /\ Append(queue, r) \in Seq(PortalEvent) /\ Len(queue) \in Nat
      /\ Len(Append(queue, r)) = Len(queue) + 1 /\ Append(queue, r)[Len(queue) + 1] = r
      /\ \A i \in 1..Len(queue) : i \in 1..Len(Append(queue, r)) /\ Append(queue, r)[i] = queue[i]
      /\ \A i \in 1..Len(Append(queue, r)) : i \in 1..Len(queue) \/ i = Len(queue) + 1
  BY <1>2, <1>4, Appended
<1>9. /\ queue' \in Seq(PortalEvent)
      /\ \A i \in 1..Len(Append(queue, r)) : i \in 1..Len(queue') /\ queue'[i] = Append(queue, r)[i]
      /\ \A i \in 1..Len(queue') : i \in 1..Len(Append(queue, r)) \/ \E k \in 1..Len(tail) : queue'[i] = tail[k]
  <2> DEFINE q == Append(queue, r)
  <2>1. q \in Seq(PortalEvent) /\ queue' = q \o tail
    BY <1>1, <1>8
  <2> HIDE DEF q
  <2>2. /\ queue' \in Seq(PortalEvent)
        /\ \A i \in 1..Len(q) : i \in 1..Len(queue') /\ queue'[i] = q[i]
        /\ \A i \in 1..Len(queue') : i \in 1..Len(q) \/ \E k \in 1..Len(tail) : queue'[i] = tail[k]
    BY <1>5, <2>1, Grown
  <2>3. QED
    BY <2>2 DEF q
<1>10. \A i \in 1..Len(queue) : i \in 1..Len(queue') /\ queue'[i] = queue[i]
  BY <1>8, <1>9
<1>11. PICK n \in 1..Len(queue') : n = Len(queue) + 1 /\ queue'[n] = r
  BY <1>8, <1>9
<1>12. \A i \in 1..Len(queue') : i \in 1..Len(queue) \/ i = n \/ queue'[i].kind = "read"
  <2>1. \A i \in 1..Len(queue') : i \in 1..Len(Append(queue, r)) \/ queue'[i].kind = "read"
    BY <1>5, <1>9
  <2>2. QED
    BY <1>8, <1>11, <2>1
<1>13. SyncType'
  <2>1. overtaken' \in BOOLEAN
    BY <1>1, <1>2 DEF SyncType
  <2>2. QED
    BY <1>1, <1>2, <1>6, <1>7, <1>9, <2>1 DEF SyncType
<1>14. SyncRefs'
  <2>1. \A i \in 1..Len(queue') : queue'[i].kind = "resync" => queue'[i].update \in 1..Len(updates')
    BY <1>1, <1>3, <1>4, <1>10, <1>11, <1>12 DEF SyncInv, SyncRefs
  <2>2. \A w \in 1..Len(updates') : syncing'[w] = "queue" => \E i \in 1..Len(locked') : locked'[i] = w
    BY <1>1, <1>7 DEF SyncInv, SyncRefs
  <2>3. QED
    BY <1>1, <1>6, <2>1, <2>2 DEF SyncInv, SyncRefs
<1>15. \A w : Goes(w)' <=> Goes(w)
  BY <1>1 DEF Goes
<1>16. ASSUME meta'.markedSpamAt = "recently", ~overtaken'
       PROVE  Stragglers' /\ CreationUndone' /\ RoomUndone'
  <2>1. ~overtaken
    BY <1>1, <1>2, <1>16
  <2>2. Stragglers /\ CreationUndone /\ RoomUndone
    BY <1>1, <1>16, <2>1 DEF SyncInv, SpamInv
  <2>3. Stragglers'
    <3>1. \A j \in 1..Len(locked) : Goes(locked[j])' <=> Goes(locked[j])
      BY <1>1 DEF Goes
    <3>2. QED
      BY <1>1, <1>7, <1>15, <2>2, <3>1 DEF Stragglers
  <2>4. \A i \in 1..Len(queue) : /\ Deletes(queue[i]) => Deletes(queue[i])'
                                 /\ Creates(queue[i])' => Creates(queue[i])
    BY <1>1, <1>10 DEF Deletes, Creates, Goes
  <2>5. CASE Goes(u)
    <3>1. Deletes(queue[n])'
      BY <1>1, <1>4, <1>11, <2>5 DEF Deletes, Goes
    <3>2. \A i \in 1..Len(queue') : Creates(queue[i])' => i < n
      <4>1. ~Creates(queue[n])'
        BY <1>1, <1>4, <1>11, <2>5 DEF Creates, Goes
      <4>2. \A i \in 1..Len(queue) : i < n
        BY <1>8, <1>11
      <4>3. \A i \in 1..Len(queue') : queue'[i].kind = "read" => ~Creates(queue[i])'
        BY DEF Creates
      <4>4. QED
        BY <1>12, <4>1, <4>2, <4>3
    <3>3. QED
      BY <1>11, <2>3, <3>1, <3>2 DEF CreationUndone, RoomUndone
  <2>6. CASE ~Goes(u)
    <3>1. Ahead => Ahead'
      BY <1>1, <1>7, <1>15, <2>6 DEF Ahead
    <3>2. Ahead'
      <4>1. PICK i, j \in 1..Len(locked) : i < j /\ locked[i] = u /\ Goes(locked[j])
        BY <1>1, <1>3, <2>2, <2>6 DEF Stragglers
      <4>2. DOMAIN locked = 1..Len(locked)
        BY <1>2, LenProperties
      <4>3. syncing[locked[j]] # "done"
        BY <1>1, <1>16, <4>1, <4>2
      <4>4. locked[j] \in 1..Len(updates)
        BY <4>1 DEF SyncInv, SyncRefs
      <4>5. syncing[locked[j]] \in {"start", "queue"}
        BY <1>2, <4>3, <4>4, LenProperties
      <4>6. Ahead
        BY <4>1, <4>4, <4>5 DEF Ahead
      <4>7. QED
        BY <3>1, <4>6
    <3>3. QED
      BY <2>3, <3>2 DEF CreationUndone, RoomUndone
  <2>7. QED
    BY <2>5, <2>6
<1>17. QED
  BY <1>13, <1>14, <1>16 DEF SyncInv, SpamInv

(* Five minutes pass: the mark is no longer recent.                        *)
LEMMA TimeInvStep == ASSUME SyncInv, TimePasses PROVE SyncInv'
<1>1. /\ meta' = [meta EXCEPT !.markedSpamAt = IF @ = "recently" THEN "long ago" ELSE @]
      /\ UNCHANGED <<phone, updates, syncing, timer, queue, room, locked, overtaken>>
  BY DEF TimePasses, matrix
<1>2. meta \in Meta
  BY DEF SyncInv, SyncType
<1>3. meta' \in Meta /\ meta'.markedSpamAt # "recently"
  BY <1>1, <1>2 DEF Meta
<1>4. SyncType' /\ SyncRefs'
  BY <1>1, <1>3 DEF SyncInv, SyncType, SyncRefs
<1>5. QED
  BY <1>3, <1>4 DEF SyncInv, SpamInv

(* The portal handles the head of its queue: what deletes the room does,   *)
(* and only what may create it, or a message of a chat that is not gone,   *)
(* makes a room where there was none.                                      *)
LEMMA PortalIs ==
  ASSUME SyncType, Portal, room \in BOOLEAN
  PROVE  LET e == Head(queue) IN
         /\ room' \in BOOLEAN
         /\ Deletes(e) => ~room'
         /\ room' => room \/ Creates(e) \/ (e.kind = "message" /\ phone.status \notin GoneStatuses)
<1> DEFINE e == Head(queue)
           type == GetType(updates[e.update])
<1>1. (type = "ChatDelete") <=> Goes(e.update)
  BY DEF GetType, Goes, GoneStatuses, SpamStatuses
<1> HIDE DEF type
<1>2. CASE e.kind = "read" /\ room
  <2>1. room' = room
    BY <1>2 DEF Portal, type
  <2>2. QED
    BY <1>2, <2>1 DEF Deletes
<1>3. CASE e.kind = "resync" /\ type = "ChatDelete"
  <2>1. room' = FALSE
    BY <1>3 DEF Portal, type
  <2>2. QED
    BY <2>1
<1>4. CASE e.kind = "resync" /\ type = "ChatResync" /\ (room \/ ShouldCreatePortal(e))
  <2>1. room' = TRUE
    BY <1>4 DEF Portal, type
  <2>2. ShouldCreatePortal(e) => ~e.only
    BY DEF ShouldCreatePortal
  <2>3. QED
    BY <1>1, <1>4, <2>1, <2>2 DEF Deletes, Creates
<1>5. CASE e.kind = "message" /\ room
  <2>1. room' = room
    BY <1>5 DEF Portal, type
  <2>2. QED
    BY <1>5, <2>1 DEF Deletes
<1>6. CASE e.kind = "message" /\ ~room /\ phone.status \notin GoneStatuses
  <2>1. room' = TRUE
    BY <1>6 DEF Portal, type
  <2>2. QED
    BY <1>6, <2>1 DEF Deletes
<1>7. CASE /\ ~(e.kind = "read" /\ room)
           /\ ~(e.kind = "resync" /\ type = "ChatDelete")
           /\ ~(e.kind = "resync" /\ type = "ChatResync" /\ (room \/ ShouldCreatePortal(e)))
           /\ ~(e.kind = "message" /\ room)
           /\ ~(e.kind = "message" /\ ~room /\ phone.status \notin GoneStatuses)
  <2>1. room' = room
    BY <1>7 DEF Portal, type, matrix
  <2>2. ~Deletes(e)
    BY <1>1, <1>7 DEF Deletes
  <2>3. QED
    BY <2>1, <2>2
<1>8. QED
  BY <1>2, <1>3, <1>4, <1>5, <1>6, <1>7

LEMMA PortalInvStep == ASSUME SyncInv, Portal PROVE SyncInv'
<1>1. /\ queue # <<>> /\ queue' = Tail(queue)
      /\ UNCHANGED <<phone, updates, syncing, meta, timer, locked, overtaken>>
  BY DEF Portal
<1>2. queue \in Seq(PortalEvent) /\ SyncType /\ room \in BOOLEAN
  BY DEF SyncInv, SyncType
<1>3. /\ queue' \in Seq(PortalEvent) /\ Len(queue) \in Nat /\ Len(queue') \in Nat
      /\ Len(queue') = Len(queue) - 1 /\ \A i \in 1..Len(queue') : queue'[i] = queue[i + 1]
  BY <1>1, <1>2, HeadTailProperties, LenProperties
<1>4. Head(queue) = queue[1]
  OBVIOUS
<1>5. \A i \in 1..Len(queue') : i + 1 \in 1..Len(queue)
  BY <1>3
<1>6. \A j \in 1..Len(queue) : j # 1 => (j - 1 \in 1..Len(queue') /\ queue'[j - 1] = queue[j])
  BY <1>3
<1>7. /\ room' \in BOOLEAN
      /\ Deletes(queue[1]) => ~room'
      /\ room' => room \/ Creates(queue[1]) \/ (queue[1].kind = "message" /\ phone.status \notin GoneStatuses)
  BY <1>2, <1>4, PortalIs
<1>8. SyncType'
  BY <1>1, <1>2, <1>3, <1>7 DEF SyncType
<1>9. SyncRefs'
  <2>1. \A i \in 1..Len(queue') : queue'[i].kind = "resync" => queue'[i].update \in 1..Len(updates')
    BY <1>1, <1>3, <1>5 DEF SyncInv, SyncRefs
  <2>2. QED
    BY <1>1, <2>1 DEF SyncInv, SyncRefs
<1>10. \A u : Goes(u)' <=> Goes(u)
  BY <1>1 DEF Goes
<1>11. ASSUME meta'.markedSpamAt = "recently", ~overtaken'
       PROVE  Stragglers' /\ CreationUndone' /\ RoomUndone'
  <2>1. Stragglers /\ CreationUndone /\ RoomUndone
    BY <1>1, <1>11 DEF SyncInv, SpamInv
  <2>2. Stragglers' /\ (Ahead => Ahead')
    BY <1>1, <1>10, <2>1 DEF Stragglers, Goes, Ahead
  <2>3. ASSUME NEW j \in 1..Len(queue), j # 1, Deletes(queue[j])
        PROVE  \E k \in 1..Len(queue') : k = j - 1 /\ Deletes(queue[k])'
    <3>1. PICK k \in 1..Len(queue') : k = j - 1 /\ queue'[k] = queue[j]
      BY <1>6, <2>3
    <3>2. Deletes(queue[k])'
      BY <1>1, <2>3, <3>1 DEF Deletes, Goes
    <3>3. QED
      BY <3>1, <3>2
  <2>4. CreationUndone'
    <3> SUFFICES ASSUME NEW i \in 1..Len(queue'), Creates(queue[i])'
                 PROVE  Ahead' \/ \E j \in 1..Len(queue') : i < j /\ Deletes(queue[j])'
      BY DEF CreationUndone
    <3>1. PICK m \in 1..Len(queue) : m = i + 1 /\ queue[m] = queue'[i]
      BY <1>3, <1>5
    <3>2. Creates(queue[m])
      BY <1>1, <3>1 DEF Creates, Goes
    <3>3. CASE Ahead
      BY <2>2, <3>3
    <3>4. CASE ~Ahead
      <4>1. PICK j \in 1..Len(queue) : m < j /\ Deletes(queue[j])
        BY <2>1, <3>2, <3>4 DEF CreationUndone
      <4>2. j # 1
        BY <1>3, <3>1, <4>1
      <4>3. PICK k \in 1..Len(queue') : k = j - 1 /\ Deletes(queue[k])'
        BY <2>3, <4>1, <4>2
      <4>4. i < k
        BY <1>3, <3>1, <4>1, <4>3
      <4>5. QED
        BY <4>3, <4>4
    <3>5. QED
      BY <3>3, <3>4
  <2>5. RoomUndone'
    <3> SUFFICES ASSUME room', phone.status \in GoneStatuses, ~Ahead
                 PROVE  \E j \in 1..Len(queue') : Deletes(queue[j])'
      BY <1>1, <2>2 DEF RoomUndone
    <3>1. 1 \in 1..Len(queue)
      BY <1>3
    <3>2. \E j \in 1..Len(queue) : j # 1 /\ Deletes(queue[j])
      <4>1. CASE room
        BY <1>7, <2>1, <4>1 DEF RoomUndone
      <4>2. CASE Creates(queue[1])
        <5>1. PICK j \in 1..Len(queue) : 1 < j /\ Deletes(queue[j])
          BY <2>1, <3>1, <4>2 DEF CreationUndone
        <5>2. j # 1
          BY <1>3, <5>1
        <5>3. QED
          BY <5>1, <5>2
      <4>3. QED
        BY <1>7, <4>1, <4>2
    <3>3. QED
      BY <2>3, <3>2
  <2>6. QED
    BY <2>2, <2>4, <2>5
<1>12. QED
  BY <1>8, <1>9, <1>11 DEF SyncInv, SpamInv

LEMMA SyncInvStep == SyncInv /\ [SyncNext]_syncVars => SyncInv'
<1> SUFFICES ASSUME SyncInv, [SyncNext]_syncVars PROVE SyncInv'
  OBVIOUS
<1>0. phone \in Version /\ <<>> \in Seq(PortalEvent) /\ Len(<<>>) = 0 /\ 1..0 = {}
  BY DEF SyncInv, SyncType
<1>1. ASSUME NEW lost \in BOOLEAN, NewMessage(lost) PROVE SyncInv'
  <2> DEFINE n == phone.latest + 1
             e == [kind |-> "message", update |-> 0, allow |-> FALSE, only |-> FALSE, target |-> n]
             new == [phone EXCEPT !.latest = n, !.unread = TRUE]
             evts == IF lost THEN <<>> ELSE <<e>>
  <2>1. PhoneChanges(new, evts)
    BY <1>1 DEF NewMessage
  <2>2. n \in Nat /\ new \in Version
    <3>1. phone.latest \in Nat
      BY <1>0 DEF Version
    <3>2. n \in Nat
      BY <3>1
    <3> HIDE DEF n
    <3>3. QED
      BY <1>0, <3>2 DEF Version
  <2>3. e \in PortalEvent /\ e.kind = "message"
    BY <2>2 DEF PortalEvent
  <2> HIDE DEF e
  <2>4. <<e>> \in Seq(PortalEvent) /\ Len(<<e>>) = 1 /\ <<e>>[1] = e /\ \A k \in 1..1 : k = 1
    BY <2>3
  <2>5. evts \in Seq(PortalEvent) /\ \A k \in 1..Len(evts) : evts[k].kind = "message"
    BY <1>0, <2>3, <2>4
  <2> HIDE DEF new, evts
  <2>6. QED
    BY <2>1, <2>2, <2>5, PhoneInvStep
<1>2. CASE ReadChat
  <2>1. [phone EXCEPT !.unread = FALSE] \in Version
    BY <1>0 DEF Version
  <2>2. PhoneChanges([phone EXCEPT !.unread = FALSE], <<>>)
    BY <1>2 DEF ReadChat
  <2>3. QED
    BY <1>0, <2>1, <2>2, PhoneInvStep
<1>3. ASSUME NEW s \in Statuses, SetStatus(s) PROVE SyncInv'
  <2>1. [phone EXCEPT !.status = s] \in Version
    BY <1>0 DEF Version
  <2>2. PhoneChanges([phone EXCEPT !.status = s], <<>>)
    BY <1>3 DEF SetStatus
  <2>3. QED
    BY <1>0, <2>1, <2>2, PhoneInvStep
<1>4. CASE UNCHANGED syncVars
  <2>1. UNCHANGED <<phone, updates, syncing, meta, timer, queue, room, locked, overtaken>>
    BY <1>4 DEF syncVars
  <2>2. SyncType' /\ SyncRefs'
    BY <2>1 DEF SyncInv, SyncType, SyncRefs
  <2>3. SpamInv'
    BY <2>1 DEF SyncInv, SpamInv, Stragglers, CreationUndone, RoomUndone, Ahead, Deletes, Creates, Goes
  <2>4. QED
    BY <2>2, <2>3 DEF SyncInv
<1>5. QED
  BY <1>1, <1>2, <1>3, <1>4, LockInvStep, QueueInvStep, TimeInvStep, TimerInvStep, PortalInvStep
     DEF SyncNext

LEMMA SyncInvSound == SyncInv => SpamStaysGone
<1> SUFFICES ASSUME SyncInv, Quiescent, ~overtaken, phone.status \in SpamStatuses,
                    meta.markedSpamAt = "recently"
             PROVE  ~room
  BY DEF SpamStaysGone
<1>1. RoomUndone
  BY DEF SyncInv, SpamInv
<1>2. phone.status \in GoneStatuses
  BY DEF GoneStatuses
<1>3. queue = <<>> /\ Running = {}
  BY DEF Quiescent
<1>4. ~\E j \in 1..Len(queue) : Deletes(queue[j])
  BY <1>3
<1>5. ~Ahead
  <2>1. syncing \in Seq({"start", "queue", "done"}) /\ Len(syncing) = Len(updates)
    BY DEF SyncInv, SyncType
  <2>2. DOMAIN syncing = 1..Len(updates)
    BY <2>1, LenProperties
  <2>3. QED
    BY <1>3, <2>2 DEF Running, Ahead
<1>6. QED
  BY <1>1, <1>2, <1>4, <1>5 DEF RoomUndone

(* However many updates, messages and late goroutines there are: when all  *)
(* is handled within a minute of the chat being marked as spam and no      *)
(* events were queued out of the order of the lock, the chat has no room   *)
(* (suspiciousUnmarkedSpam in syncConversationMeta).                       *)
THEOREM SpamStaysGoneThm == SyncSpec => []SpamStaysGone
<1>1. QED
  BY SyncInvInit, SyncInvStep, SyncInvSound, PTL DEF SyncSpec
-----------------------------------------------------------------------------
(* The room once all is handled in order.  What each event in the queue,   *)
(* or with the delayed backfill, does for an update: the full resync that  *)
(* may create or delete the room, the resync that fetches messages, the    *)
(* read receipt.                                                           *)
Latest == Len(updates)
Full(e, u) == e.kind = "resync" /\ ~e.only /\ e.update = u
Fills(e, u) == e.kind = "resync" /\ e.allow /\ e.update = u
Reads(e, u) == e.kind = "read" /\ e.update = u

(* The last update is the phone's chat as it is, an update past the lock   *)
(* took it, and when updates take it in order conversationMeta is that of  *)
(* the last one as soon as it had the lock.                                *)
LastInv ==
    /\ phone.latest >= 1 /\ dropped \in BOOLEAN
    /\ \A u \in 1..Latest : updates[u].latest <= phone.latest
    /\ Latest > 0 => updates[Latest] = phone
    /\ \A u \in 1..Latest : syncing[u] # "start" => \E i \in 1..Len(locked) : locked[i] = u
    /\ Latest > 0 /\ InOrder /\ syncing[Latest] # "start" =>
          /\ meta.known /\ meta.unread = phone.unread
          /\ ~phone.unread => meta.readUpTo = phone.latest

(* Events are about messages the phone has and updates that are through;   *)
(* a delayed resync never deletes the room; a room has messages.           *)
ContentInv ==
    /\ \A i \in 1..Len(queue) :
          /\ queue[i].kind = "message" => queue[i].target \in 1..phone.latest
          /\ queue[i].kind # "message" =>
                queue[i].update \in 1..Latest /\ syncing[queue[i].update] = "done"
          /\ queue[i].kind = "resync" /\ queue[i].only => ~Goes(queue[i].update)
    /\ \A i \in 1..Len(timer) :
          /\ timer[i].update \in 1..Latest /\ syncing[timer[i].update] = "done"
          /\ timer[i].kind = "resync" => ~Goes(timer[i].update)
    /\ bridged \subseteq 1..phone.latest
    /\ room <=> bridged # {}
    /\ marker \in 0..phone.latest

(* The last update is through, and all were in order.  Its events may be   *)
(* with the delayed backfill.                                              *)
Settling == Latest > 0 /\ InOrder /\ syncing[Latest] = "done"
Delayed == \E k \in 1..Len(timer) : timer[k].update = Latest

(* Behind an older resync the last one follows, and once that is handled   *)
(* there is a room exactly if there should be one.                         *)
RoomRight ==
    /\ phone.status \in {"ACTIVE", "ARCHIVED"} => room
    /\ phone.status \in GoneStatuses => ~room

NewestFollows ==
    \A j \in 1..Len(queue) : queue[j].kind = "resync" /\ ~queue[j].only /\ queue[j].update # Latest =>
        \E i \in 1..Len(queue) : j < i /\ Full(queue[i], Latest)

RoomComes == RoomRight \/ \E i \in 1..Len(queue) : Full(queue[i], Latest)

(* A room has the last message, or a resync that fetches it is to come.    *)
FillComes ==
    room /\ GetType(phone) = "ChatResync" =>
        phone.latest \in bridged \/ Delayed \/ \E i \in 1..Len(queue) : Fills(queue[i], Latest)

(* The delayed backfill of the last update is complete, and its receipt    *)
(* comes after the resync that fetches the message.                        *)
DelayedWhole ==
    Delayed =>
        /\ \E k \in 1..Len(timer) : Fills(timer[k], Latest)
        /\ ~phone.unread => \E k \in 1..Len(timer) : Reads(timer[k], Latest)
        /\ \A k \in 1..Len(timer) : Reads(timer[k], Latest) =>
              /\ timer[k].target = phone.latest
              /\ \A j \in 1..Len(timer) : k < j => ~Fills(timer[j], Latest)

ReadFollows ==
    \A i \in 1..Len(queue) : Reads(queue[i], Latest) =>
        /\ queue[i].target = phone.latest /\ ~Delayed
        /\ \A j \in 1..Len(queue) : i < j => ~Fills(queue[j], Latest)

(* The room of a chat that was read is read, or the receipt is to come.    *)
ReadComes ==
    room /\ GetType(phone) = "ChatResync" /\ ~phone.unread =>
        marker = phone.latest \/ Delayed \/ \E i \in 1..Len(queue) : Reads(queue[i], Latest)

Settled == Settling => /\ NewestFollows /\ RoomComes /\ FillComes
                       /\ DelayedWhole /\ ReadFollows /\ ReadComes

SettleInv == LastInv /\ ContentInv /\ Settled

(* Forward backfill fetches up to the phone's last message.                *)
LEMMA FetchedIs ==
  ASSUME NEW n \in Nat, n >= 1, phone.latest = n, NEW have \in SUBSET (1..n),
         have = {} \/ Max(have) < n
  PROVE  LET new == FetchedForward(have) IN
         new \subseteq 1..n /\ n \in new /\ new # {} /\ Max(new) = n
<1> DEFINE new == FetchedForward(have)
<1>1. new \subseteq 1..n /\ n \in new
  <2>1. CASE have = {}
    BY <2>1 DEF FetchedForward
  <2>2. CASE have # {}
    <3>1. have \in SUBSET (0..n)
      OBVIOUS
    <3>2. Max(have) \in have /\ \A k \in have : Max(have) >= k
      BY <2>2, <3>1, MaxIs
    <3>3. Max(have) \in 1..n /\ Max(have) < n
      BY <2>2, <3>2
    <3>4. n \notin have
      BY <3>2, <3>3
    <3>5. new = (Max(have)..n) \ have
      BY <2>2 DEF FetchedForward
    <3> HIDE DEF new
    <3>6. QED
      BY <3>3, <3>4, <3>5
  <2>3. QED
    BY <2>1, <2>2
<1> HIDE DEF new
<1>2. new \in SUBSET (0..n) /\ new # {}
  BY <1>1
<1>3. Max(new) \in new /\ \A k \in new : Max(new) >= k
  BY <1>2, MaxIs
<1>4. Max(new) = n
  <2>1. PICK m \in new : m = Max(new)
    BY <1>3
  <2>2. m \in 1..n /\ m >= n
    BY <1>1, <1>3, <2>1
  <2>3. QED
    BY <2>1, <2>2
<1>5. QED
  BY <1>1, <1>2, <1>4 DEF new

(* Backfill leaves the last message in the room, and the marker on it if   *)
(* the chat counts as read.                                                *)
LEMMA BackfillIs ==
  ASSUME NEW n \in Nat, n >= 1, phone.latest = n, NEW have \in SUBSET (1..n),
         have = {} \/ Max(have) < n, marker \in 0..n, Backfill(have)
  PROVE  /\ have \subseteq bridged' /\ bridged' \subseteq 1..n /\ n \in bridged'
         /\ marker' \in {marker, n}
         /\ meta.known /\ ~meta.unread => marker' = n
<1> DEFINE new == FetchedForward(have)
<1>1. new \subseteq 1..n /\ n \in new /\ new # {} /\ Max(new) = n
  BY FetchedIs
<1>2. /\ bridged' = have \cup new
      /\ marker' = IF new # {} /\ MarksRead(Max(new)) THEN Max(new) ELSE marker
  BY DEF Backfill
<1>3. meta.known /\ ~meta.unread => MarksRead(Max(new))
  BY DEF MarksRead
<1> HIDE DEF new
<1>4. QED
  BY <1>1, <1>2, <1>3

(* What the portal does to room, messages and marker.                      *)
LEMMA PortalContent ==
  ASSUME SyncInv, LastInv, ContentInv, Portal
  PROVE  LET e == queue[1] IN
         /\ bridged' \subseteq 1..phone.latest
         /\ room' \in BOOLEAN /\ (room' <=> bridged' # {})
         /\ marker' \in 0..phone.latest
         /\ room /\ ~Deletes(e) => room' /\ bridged \subseteq bridged'
         /\ ~room /\ room' => /\ phone.latest \in bridged'
                              /\ meta.known /\ ~meta.unread => marker' = phone.latest
         /\ room' /\ marker = phone.latest => marker' = phone.latest
         /\ room' /\ e.kind = "resync" /\ e.allow /\ updates[e.update] = phone
                /\ GetType(phone) = "ChatResync" => phone.latest \in bridged'
         /\ e.kind = "resync" /\ ~e.only /\ updates[e.update] = phone
                /\ phone.status \in {"ACTIVE", "ARCHIVED"} => room'
         /\ room /\ e.kind = "read" /\ e.target = phone.latest /\ phone.latest \in bridged
                => marker' = phone.latest
<1> DEFINE e == queue[1]
           v == updates[e.update]
           type == GetType(v)
           n == phone.latest
<1>1. queue # <<>> /\ queue \in Seq(PortalEvent) /\ phone \in Version /\ room \in BOOLEAN
  BY DEF Portal, SyncInv, SyncType
<1>2. Head(queue) = e /\ 1 \in 1..Len(queue)
  BY <1>1, LenProperties
<1>3. e \in PortalEvent
  BY <1>1, <1>2, LenProperties
<1>4. n \in Nat /\ n >= 1 /\ bridged \in SUBSET (1..n) /\ marker \in 0..n /\ (room <=> bridged # {})
  BY <1>1 DEF Version, LastInv, ContentInv
<1>5. /\ e.kind = "message" => e.target \in 1..n
      /\ e.kind = "resync" => v.latest \in Nat /\ v.latest <= n
  <2>1. e.kind = "resync" => e.update \in 1..Latest
    BY <1>2 DEF ContentInv
  <2>2. \A u \in 1..Latest : updates[u] \in Version /\ updates[u].latest <= n
    <3>1. updates \in Seq(Version)
      BY DEF SyncInv, SyncType
    <3>2. QED
      BY <3>1, LenProperties DEF LastInv, Latest
  <2>3. QED
    BY <1>2, <2>1, <2>2 DEF ContentInv, Version
<1>6. (type = "ChatDelete") <=> Goes(e.update)
  BY DEF GetType, Goes, GoneStatuses, SpamStatuses
<1>7. v.status \in {"ACTIVE", "ARCHIVED"} => type = "ChatResync"
  BY DEF GetType, GoneStatuses, SpamStatuses
<1>8. /\ queue' = Tail(queue)
      /\ CASE e.kind = "read" /\ room ->
                LET upTo == {m \in bridged : m <= e.target} IN
                /\ marker' = Max(upTo \cup {marker})
                /\ UNCHANGED <<room, bridged>>
           [] e.kind = "resync" /\ type = "ChatDelete" ->
                room' = FALSE /\ bridged' = {} /\ marker' = 0
           [] e.kind = "resync" /\ type = "ChatResync" /\ (room \/ ShouldCreatePortal(e)) ->
                /\ room' = TRUE
                /\ IF ~room \/ CheckNeedsBackfill(e) THEN Backfill(bridged)
                   ELSE UNCHANGED <<bridged, marker>>
           [] e.kind = "message" /\ room ->
                bridged' = bridged \cup {e.target} /\ UNCHANGED <<room, marker>>
           [] e.kind = "message" /\ ~room /\ phone.status \notin GoneStatuses ->
                room' = TRUE /\ Backfill({})
           [] OTHER -> UNCHANGED matrix
  BY <1>2 DEF Portal
<1>9. v = phone => type = GetType(phone)
  OBVIOUS
<1> HIDE DEF type, v, n
<1>10. CASE e.kind = "read" /\ room
  <2> DEFINE upTo == {m \in bridged : m <= e.target}
  <2>1. marker' = Max(upTo \cup {marker}) /\ room' = room /\ bridged' = bridged
    BY <1>8, <1>10
  <2>2. upTo \cup {marker} \in SUBSET (0..n) /\ upTo \cup {marker} # {}
    <3>1. upTo \subseteq bridged /\ bridged \subseteq 0..n
      BY <1>4
    <3> HIDE DEF upTo
    <3>2. QED
      BY <1>4, <3>1
  <2>3. marker' \in upTo \cup {marker} /\ \A k \in upTo \cup {marker} : marker' >= k
    BY <1>4, <2>1, <2>2, MaxIs
  <2>4. marker' \in 0..n /\ marker' >= marker
    BY <2>2, <2>3
  <2>5. marker = n => marker' = n
    BY <1>4, <2>4
  <2>6. e.target = n /\ n \in bridged => marker' = n
    <3> SUFFICES ASSUME e.target = n, n \in bridged PROVE marker' = n
      OBVIOUS
    <3>1. n \in upTo
      BY <1>4
    <3>2. QED
      BY <1>4, <2>3, <2>4, <3>1
  <2>7. QED
    BY <1>4, <1>10, <2>1, <2>4, <2>5, <2>6 DEF n
<1>11. CASE e.kind = "resync" /\ type = "ChatDelete"
  <2>1. room' = FALSE /\ bridged' = {} /\ marker' = 0
    BY <1>8, <1>11
  <2>2. Deletes(e)
    BY <1>6, <1>11 DEF Deletes
  <2>3. ~(v.status \in {"ACTIVE", "ARCHIVED"})
    BY <1>7, <1>11
  <2>4. marker' \in 0..n /\ bridged' \subseteq 1..n
    BY <1>4, <2>1
  <2>5. QED
    BY <1>11, <2>1, <2>2, <2>3, <2>4 DEF v, n
<1>12. CASE e.kind = "resync" /\ type = "ChatResync" /\ (room \/ ShouldCreatePortal(e))
  <2>1. /\ room' = TRUE
        /\ IF ~room \/ CheckNeedsBackfill(e) THEN Backfill(bridged)
           ELSE UNCHANGED <<bridged, marker>>
    BY <1>8, <1>12
  <2>2. CASE ~room \/ CheckNeedsBackfill(e)
    <3>1. bridged = {} \/ Max(bridged) < n
      <4>1. CASE ~room
        BY <1>4, <4>1
      <4>2. CASE bridged # {} /\ e.allow /\ v.latest > Max(bridged)
        <5>1. Max(bridged) \in bridged
          <6>1. bridged \in SUBSET (0..n)
            BY <1>4
          <6>2. QED
            BY <1>4, <4>2, <6>1, MaxIs
        <5>2. PICK m \in 1..n : m = Max(bridged)
          BY <1>4, <5>1
        <5>3. v.latest \in Nat /\ v.latest <= n /\ v.latest > m
          BY <1>5, <1>12, <4>2, <5>2
        <5>4. m < n
          BY <1>4, <5>3
        <5>5. QED
          BY <5>2, <5>4
      <4>3. QED
        BY <2>2, <4>1, <4>2 DEF CheckNeedsBackfill, v
    <3>2. /\ bridged \subseteq bridged' /\ bridged' \subseteq 1..n /\ n \in bridged'
          /\ marker' \in {marker, n}
          /\ meta.known /\ ~meta.unread => marker' = n
      <4>1. Backfill(bridged) /\ n = phone.latest
        BY <2>1, <2>2 DEF n
      <4>2. QED
        BY <1>4, <3>1, <4>1, BackfillIs
    <3>3. marker' \in 0..n
      BY <1>4, <3>2
    <3>4. QED
      BY <1>12, <2>1, <3>2, <3>3 DEF n
  <2>3. CASE room /\ ~CheckNeedsBackfill(e)
    <3>1. bridged' = bridged /\ marker' = marker
      BY <2>1, <2>3
    <3>2. e.allow /\ v.latest = n => n \in bridged
      <4> SUFFICES ASSUME e.allow, v.latest = n PROVE n \in bridged
        OBVIOUS
      <4>1. bridged # {} /\ ~(v.latest > Max(bridged))
        BY <1>4, <2>3 DEF CheckNeedsBackfill, v
      <4>2. Max(bridged) \in bridged
        <5>1. bridged \in SUBSET (0..n)
          BY <1>4
        <5>2. QED
          BY <1>4, <4>1, <5>1, MaxIs
      <4>3. Max(bridged) = n
        <5>1. PICK m \in 1..n : m = Max(bridged)
          BY <1>4, <4>2
        <5>2. ~(n > m)
          BY <4>1, <5>1
        <5>3. QED
          BY <1>4, <5>1, <5>2
      <4>4. QED
        BY <4>2, <4>3
    <3>3. v = phone => v.latest = n
      BY DEF n
    <3>4. QED
      BY <1>4, <1>12, <2>1, <2>3, <3>1, <3>2, <3>3 DEF n, v
  <2>4. QED
    BY <2>2, <2>3
<1>13. CASE e.kind = "message" /\ room
  <2>1. bridged' = bridged \cup {e.target} /\ room' = room /\ marker' = marker
    BY <1>8, <1>13
  <2>2. QED
    BY <1>4, <1>5, <1>13, <2>1 DEF n
<1>14. CASE e.kind = "message" /\ ~room /\ phone.status \notin GoneStatuses
  <2>1. room' = TRUE /\ Backfill({})
    BY <1>8, <1>14
  <2>2. /\ bridged' \subseteq 1..n /\ n \in bridged'
        /\ marker' \in {marker, n}
        /\ meta.known /\ ~meta.unread => marker' = n
    <3>1. n = phone.latest /\ {} \in SUBSET (1..n)
      BY DEF n
    <3>2. QED
      BY <1>4, <2>1, <3>1, BackfillIs
  <2>3. QED
    BY <1>4, <1>14, <2>1, <2>2 DEF n
<1>15. CASE /\ ~(e.kind = "read" /\ room)
            /\ ~(e.kind = "resync" /\ type = "ChatDelete")
            /\ ~(e.kind = "resync" /\ type = "ChatResync" /\ (room \/ ShouldCreatePortal(e)))
            /\ ~(e.kind = "message" /\ room)
            /\ ~(e.kind = "message" /\ ~room /\ phone.status \notin GoneStatuses)
  <2>1. room' = room /\ bridged' = bridged /\ marker' = marker
    BY <1>8, <1>15 DEF matrix
  <2>2. e.kind = "resync" /\ v = phone /\ GetType(phone) = "ChatResync" => ~room
    BY <1>9, <1>15
  <2>3. e.kind = "resync" /\ ~e.only => ~(v.status \in {"ACTIVE", "ARCHIVED"})
    BY <1>7, <1>15 DEF ShouldCreatePortal, v
  <2>4. QED
    BY <1>1, <1>4, <1>15, <2>1, <2>2, <2>3 DEF n, v
<1>16. QED
  BY <1>10, <1>11, <1>12, <1>13, <1>14, <1>15

LEMMA SettleInit == SyncInit => SettleInv
<1> SUFFICES ASSUME SyncInit PROVE SettleInv
  OBVIOUS
<1>1. /\ phone = [status |-> "ACTIVE", latest |-> 1, unread |-> FALSE]
      /\ updates = <<>> /\ timer = <<>> /\ queue = <<>> /\ dropped = FALSE
      /\ bridged = (IF room THEN {1} ELSE {}) /\ marker = (IF room THEN 1 ELSE 0)
  BY DEF SyncInit
<1>2. Latest = 0 /\ Len(queue) = 0 /\ Len(timer) = 0 /\ 1..0 = {}
  BY <1>1 DEF Latest
<1>3. phone.latest = 1
  BY <1>1
<1>4. LastInv
  <2>1. ~(Latest > 0) /\ 1..Latest = {}
    BY <1>2
  <2>2. phone.latest >= 1
    BY <1>3
  <2>3. dropped \in BOOLEAN
    BY <1>1
  <2>4. QED
    BY <2>1, <2>2, <2>3 DEF LastInv
<1>5. bridged \subseteq 1..1 /\ (room <=> bridged # {}) /\ marker \in 0..1
  BY <1>1
<1>6. ContentInv
  BY <1>2, <1>3, <1>5 DEF ContentInv
<1>7. QED
  BY <1>2, <1>4, <1>6 DEF SettleInv, Settled, Settling

(* Once updates are out of order they stay so.                             *)
LEMMA OrderKept ==
  ASSUME SyncType, dropped \in BOOLEAN, (overtaken => overtaken'), (dropped => dropped'),
         locked' = locked \/ \E u \in Nat : locked' = Append(locked, u), InOrder'
  PROVE  InOrder
<1>1. ~overtaken /\ ~dropped
  BY DEF InOrder, SyncType
<1>2. locked \in Seq(Nat) /\ DOMAIN locked = 1..Len(locked)
  BY LenProperties DEF SyncType
<1>3. \A i \in DOMAIN locked : i \in DOMAIN locked' /\ locked'[i] = locked[i]
  <2>1. CASE locked' = locked
    BY <2>1
  <2>2. ASSUME NEW u \in Nat, locked' = Append(locked, u)
        PROVE  \A i \in DOMAIN locked : i \in DOMAIN locked' /\ locked'[i] = locked[i]
    <3>0. /\ Append(locked, u) \in Seq(Nat)
          /\ \A i \in 1..Len(locked) :
                i \in 1..Len(Append(locked, u)) /\ Append(locked, u)[i] = locked[i]
      BY <1>2, Appended
    <3>1. /\ locked' \in Seq(Nat)
          /\ \A i \in 1..Len(locked) : i \in 1..Len(locked') /\ locked'[i] = locked[i]
      BY <2>2, <3>0
    <3>2. DOMAIN locked' = 1..Len(locked')
      BY <3>1, LenProperties
    <3>3. QED
      BY <1>2, <3>1, <3>2
  <2>3. QED
    BY <2>1, <2>2
<1>4. \A i, j \in DOMAIN locked' : i < j => locked'[i] < locked'[j]
  BY DEF InOrder
<1>5. QED
  BY <1>1, <1>3, <1>4 DEF InOrder

(* The phone changes: its new update has yet to take the lock.             *)
LEMMA PhoneSettle ==
  ASSUME SyncInv, SettleInv, NEW new \in Version, NEW evts \in Seq(PortalEvent),
         PhoneChanges(new, evts), new.latest >= phone.latest,
         \A k \in 1..Len(evts) : evts[k].kind = "message" /\ evts[k].target \in 1..new.latest
  PROVE  SettleInv'
<1>1. /\ phone' = new /\ updates' = Append(updates, new) /\ syncing' = Append(syncing, "start")
      /\ queue' = queue \o evts /\ meta' = meta /\ timer' = timer /\ room' = room
      /\ bridged' = bridged /\ marker' = marker
      /\ locked' = locked /\ overtaken' = overtaken /\ dropped' = dropped
  BY DEF PhoneChanges, matrix
<1>2. /\ updates \in Seq(Version) /\ syncing \in Seq({"start", "queue", "done"})
      /\ queue \in Seq(PortalEvent) /\ Len(syncing) = Len(updates) /\ phone \in Version
  BY DEF SyncInv, SyncType
<1>3. /\ Latest \in Nat /\ Latest' = Latest + 1 /\ updates'[Latest + 1] = new
      /\ \A i \in 1..Latest : i \in 1..Latest' /\ updates'[i] = updates[i]
      /\ \A i \in 1..Latest' : i \in 1..Latest \/ i = Latest + 1
  BY <1>1, <1>2, Appended DEF Latest
<1>4. /\ syncing'[Latest + 1] = "start"
      /\ \A i \in 1..Latest : syncing'[i] = syncing[i]
  <2>1. "start" \in {"start", "queue", "done"}
    OBVIOUS
  <2>2. QED
    BY <1>1, <1>2, <2>1, Appended DEF Latest
<1>5. \A i \in 1..Len(queue') : (i \in 1..Len(queue) /\ queue'[i] = queue[i])
                                \/ \E k \in 1..Len(evts) : queue'[i] = evts[k]
  <2>0. queue' = queue \o evts /\ queue \in Seq(PortalEvent)
    BY <1>1, <1>2
  <2>1. /\ \A i \in 1..Len(queue) : queue'[i] = queue[i]
        /\ \A i \in 1..Len(queue') : i \in 1..Len(queue) \/ \E k \in 1..Len(evts) : queue'[i] = evts[k]
    BY ONLY <2>0, Grown, evts \in Seq(PortalEvent)
  <2>2. QED
    BY <2>1
<1>6. phone.latest \in Nat /\ new.latest \in Nat /\ phone.latest >= 1
  BY <1>2 DEF Version, SettleInv, LastInv
<1>7. 1..phone.latest \subseteq 1..new.latest /\ 0..phone.latest \subseteq 0..new.latest
  BY <1>6
<1>8. LastInv'
  <2>1. \A u \in 1..Latest' : updates'[u].latest <= phone'.latest
    <3>1. \A u \in 1..Latest : updates[u] \in Version /\ updates[u].latest <= phone.latest
      BY <1>2, LenProperties DEF SettleInv, LastInv, Latest
    <3>2. \A u \in 1..Latest : updates[u].latest \in Nat
      BY <3>1 DEF Version
    <3>3. \A u \in 1..Latest : updates[u].latest <= new.latest
      BY <1>6, <3>1, <3>2
    <3>4. new.latest <= new.latest
      BY <1>6
    <3>5. QED
      BY <1>1, <1>3, <3>3, <3>4
  <2>2. \A u \in 1..Latest' : syncing'[u] # "start" => \E i \in 1..Len(locked') : locked'[i] = u
    BY <1>1, <1>3, <1>4 DEF SettleInv, LastInv
  <2>3. phone'.latest >= 1 /\ dropped' \in BOOLEAN
    BY <1>1, <1>6 DEF SettleInv, LastInv
  <2>4. updates'[Latest'] = phone' /\ syncing'[Latest'] = "start"
    BY <1>1, <1>3, <1>4
  <2>5. QED
    BY <2>1, <2>2, <2>3, <2>4 DEF LastInv
<1>9. ContentInv'
  <2>1. \A u \in 1..Latest : Goes(u)' <=> Goes(u)
    BY <1>3 DEF Goes
  <2>2. ASSUME NEW i \in 1..Len(queue')
        PROVE  /\ queue'[i].kind = "message" => queue'[i].target \in 1..phone'.latest
               /\ queue'[i].kind # "message" =>
                     queue'[i].update \in 1..Latest' /\ syncing'[queue'[i].update] = "done"
               /\ queue'[i].kind = "resync" /\ queue'[i].only => ~Goes(queue[i].update)'
    <3>1. CASE i \in 1..Len(queue) /\ queue'[i] = queue[i]
      <4>1. queue'[i].kind = "message" => queue'[i].target \in 1..phone'.latest
        BY <1>1, <1>7, <3>1 DEF SettleInv, ContentInv
      <4>2. queue[i].kind # "message" =>
                queue[i].update \in 1..Latest /\ syncing[queue[i].update] = "done"
        BY <3>1 DEF SettleInv, ContentInv
      <4>3. queue'[i].kind = "resync" /\ queue'[i].only => ~Goes(queue[i].update)'
        <5> SUFFICES ASSUME queue'[i].kind = "resync", queue'[i].only PROVE ~Goes(queue[i].update)'
          OBVIOUS
        <5>1. PICK u \in 1..Latest : u = queue[i].update /\ ~Goes(u)
          BY <3>1, <4>2 DEF SettleInv, ContentInv
        <5>2. updates'[u] = updates[u] /\ queue'[i].update = u
          BY <1>3, <3>1, <5>1
        <5>3. QED
          BY <5>1, <5>2 DEF Goes
      <4>4. QED
        BY <1>3, <1>4, <3>1, <4>1, <4>2, <4>3
    <3>2. CASE \E k \in 1..Len(evts) : queue'[i] = evts[k]
      BY <1>1, <3>2
    <3>3. QED
      BY <1>5, <3>1, <3>2
  <2>3. ASSUME NEW i \in 1..Len(timer')
        PROVE  /\ timer'[i].update \in 1..Latest' /\ syncing'[timer'[i].update] = "done"
               /\ timer'[i].kind = "resync" => ~Goes(timer[i].update)'
    <3>1. PICK u \in 1..Latest : /\ u = timer[i].update /\ syncing[u] = "done"
                                 /\ timer[i].kind = "resync" => ~Goes(u)
      BY <1>1 DEF SettleInv, ContentInv
    <3>2. updates'[u] = updates[u] /\ timer'[i].update = u /\ u \in 1..Latest' /\ syncing'[u] = "done"
      BY <1>1, <1>3, <1>4, <3>1
    <3>3. QED
      BY <1>1, <3>1, <3>2 DEF Goes
  <2>4. bridged' \subseteq 1..phone'.latest /\ (room' <=> bridged' # {}) /\ marker' \in 0..phone'.latest
    BY <1>1, <1>7 DEF SettleInv, ContentInv
  <2>5. QED
    BY <2>2, <2>3, <2>4 DEF ContentInv
<1>10. ~Settling'
  BY <1>3, <1>4 DEF Settling
<1>11. QED
  BY <1>8, <1>9, <1>10 DEF SettleInv, Settled

(* An update takes the lock: if it is in order, no later one has.          *)
LEMMA LockSettle ==
  ASSUME SyncInv, SyncInv', SettleInv, NEW u \in 1..Latest, syncConversationMeta(u)
  PROVE  SettleInv'
<1> DEFINE v == updates[u]
<1>1. /\ syncing[u] = "start" /\ locked' = Append(locked, u)
      /\ phone' = phone /\ updates' = updates /\ timer' = timer /\ queue' = queue
      /\ room' = room /\ bridged' = bridged /\ marker' = marker /\ overtaken' = overtaken
      /\ syncing' = [syncing EXCEPT ![u] = IF suspiciousUnmarkedSpam(v, meta') THEN "done" ELSE "queue"]
      /\ dropped' = (dropped \/ suspiciousUnmarkedSpam(v, meta'))
      /\ meta'.known = TRUE /\ meta'.unread = v.unread /\ meta'.readUpTo = ReadOf(v, meta)
  BY DEF syncConversationMeta, matrix
<1>2. /\ syncing \in Seq({"start", "queue", "done"}) /\ locked \in Seq(Nat)
      /\ Len(syncing) = Latest /\ Latest \in Nat /\ dropped \in BOOLEAN /\ u \in Nat
      /\ updates \in Seq(Version) /\ SyncType
  <2>1. Latest \in Nat
    BY LenProperties DEF SyncInv, SyncType, Latest
  <2>2. QED
    BY <2>1 DEF SyncInv, SyncType, SettleInv, LastInv, Latest
<1>3. /\ \A w \in 1..Latest : w # u => syncing'[w] = syncing[w]
      /\ syncing'[u] \in {"done", "queue"}
      /\ syncing'[u] = "done" => dropped'
  <2>1. DOMAIN syncing = 1..Latest
    BY <1>2, LenProperties
  <2>2. QED
    BY <1>1, <2>1
<1>4. /\ locked' \in Seq(Nat) /\ Len(locked) \in Nat /\ Len(locked') = Len(locked) + 1
      /\ locked'[Len(locked) + 1] = u
      /\ \A i \in 1..Len(locked) : i \in 1..Len(locked') /\ locked'[i] = locked[i]
  BY <1>1, <1>2, Appended
<1>5. InOrder' => InOrder
  <2>1. (overtaken => overtaken') /\ (dropped => dropped')
    BY <1>1
  <2>2. QED
    BY <1>1, <1>2, <2>1, OrderKept
<1>6. ASSUME InOrder', NEW w \in 1..Latest, syncing[w] # "start" PROVE ~(w > u)
  <2>1. PICK i \in 1..Len(locked) : locked[i] = w
    BY <1>6 DEF SettleInv, LastInv
  <2>2. DOMAIN locked' = 1..Len(locked')
    BY <1>4, LenProperties
  <2>3. i \in DOMAIN locked' /\ Len(locked) + 1 \in DOMAIN locked' /\ i < Len(locked) + 1 /\ locked'[i] = w
    BY <1>4, <2>1, <2>2
  <2>4. w < u
    BY <1>4, <1>6, <2>3 DEF InOrder
  <2>5. QED
    BY <1>2, <2>4
<1>7. Latest' = Latest /\ Latest \in 1..Latest
  BY <1>1, <1>2 DEF Latest
<1>8. InOrder' /\ syncing'[Latest] # "start" => u = Latest
  BY <1>2, <1>3, <1>6, <1>7
<1>9. LastInv'
  <2>1. \A w \in 1..Latest : syncing'[w] # "start" => \E i \in 1..Len(locked') : locked'[i] = w
    <3> SUFFICES ASSUME NEW w \in 1..Latest, syncing'[w] # "start"
                 PROVE  \E i \in 1..Len(locked') : locked'[i] = w
      OBVIOUS
    <3>1. CASE w = u
      BY <1>4, <3>1
    <3>2. CASE w # u
      BY <1>3, <1>4, <3>2 DEF SettleInv, LastInv
    <3>3. QED
      BY <3>1, <3>2
  <2>2. ASSUME InOrder', syncing'[Latest] # "start"
        PROVE  /\ meta'.known /\ meta'.unread = phone'.unread
               /\ ~phone'.unread => meta'.readUpTo = phone'.latest
    <3>1. v = phone
      BY <1>7, <1>8, <2>2 DEF SettleInv, LastInv
    <3>2. ~phone.unread => ReadOf(phone, meta) = phone.latest
      BY DEF ReadOf
    <3>3. QED
      BY <1>1, <3>1, <3>2
  <2>3. dropped' \in BOOLEAN
    BY <1>1, <1>2 DEF suspiciousUnmarkedSpam
  <2>4. QED
    BY <1>1, <1>7, <2>1, <2>2, <2>3 DEF SettleInv, LastInv
<1>10. ContentInv'
  <2>1. \A w \in 1..Latest : syncing[w] = "done" => syncing'[w] = "done"
    BY <1>1, <1>3
  <2>2. \A w : Goes(w)' <=> Goes(w)
    BY <1>1 DEF Goes
  <2>3. \A i \in 1..Len(queue) : Goes(queue[i].update)' <=> Goes(queue[i].update)
    BY <1>1 DEF Goes
  <2>4. \A i \in 1..Len(timer) : Goes(timer[i].update)' <=> Goes(timer[i].update)
    BY <1>1 DEF Goes
  <2>5. QED
    BY <1>1, <1>7, <2>1, <2>3, <2>4 DEF SettleInv, ContentInv
<1>11. ~Settling'
  <2> SUFFICES ASSUME InOrder', syncing'[Latest] = "done" PROVE FALSE
    BY <1>7 DEF Settling
  <2>1. dropped'
    BY <1>3, <1>8
  <2>2. QED
    BY <2>1 DEF InOrder
<1>12. QED
  BY <1>9, <1>10, <1>11 DEF SettleInv, Settled

(* The delayed backfill comes due, the clock moves, or nothing happens:    *)
(* the last update is what it was.                                         *)
LEMMA LastKept ==
  ASSUME SyncType, SettleInv, UNCHANGED <<phone, updates, syncing, locked, overtaken, dropped>>,
         meta'.known = meta.known, meta'.unread = meta.unread, meta'.readUpTo = meta.readUpTo
  PROVE  LastInv' /\ (InOrder' <=> InOrder) /\ Latest' = Latest /\ (Settling' <=> Settling)
<1>1. (InOrder' <=> InOrder) /\ Latest' = Latest
  BY DEF InOrder, Latest
<1>2. LastInv'
  BY <1>1 DEF SettleInv, LastInv
<1>3. QED
  BY <1>1, <1>2 DEF Settling

LEMMA GrownTail ==
  ASSUME NEW S, NEW q \in Seq(S), NEW r \in Seq(S)
  PROVE  /\ \A i \in 1..Len(q) : i \in 1..Len(q \o r) /\ (q \o r)[i] = q[i]
         /\ \A k \in 1..Len(r) : Len(q) + k \in 1..Len(q \o r) /\ (q \o r)[Len(q) + k] = r[k]
         /\ \A i \in 1..Len(q \o r) :
               \/ i \in 1..Len(q)
               \/ \E k \in 1..Len(r) : i = Len(q) + k
<1>1. /\ Len(q \o r) = Len(q) + Len(r)
      /\ \A i \in 1..Len(q) + Len(r) : (q \o r)[i] = IF i <= Len(q) THEN q[i] ELSE r[i - Len(q)]
  BY ConcatProperties
<1>2. Len(q) \in Nat /\ Len(r) \in Nat
  BY LenProperties
<1>3. ASSUME NEW i \in 1..Len(q)
      PROVE  i \in 1..Len(q \o r) /\ (q \o r)[i] = q[i]
  BY <1>1, <1>2
<1>4. ASSUME NEW k \in 1..Len(r)
      PROVE  Len(q) + k \in 1..Len(q \o r) /\ (q \o r)[Len(q) + k] = r[k]
  <2>1. Len(q) + k \in 1..Len(q) + Len(r) /\ ~(Len(q) + k <= Len(q)) /\ (Len(q) + k) - Len(q) = k
    BY <1>2
  <2>2. QED
    BY <1>1, <2>1
<1>5. ASSUME NEW i \in 1..Len(q \o r), ~(i \in 1..Len(q))
      PROVE  \E k \in 1..Len(r) : i = Len(q) + k
  <2>1. i - Len(q) \in 1..Len(r) /\ i = Len(q) + (i - Len(q))
    BY <1>1, <1>2, <1>5
  <2>2. QED
    BY <2>1
<1>6. QED
  BY <1>3, <1>4, <1>5

LEMMA TimerSettle ==
  ASSUME SyncInv, SettleInv, DelayedBackfill
  PROVE  SettleInv'
<1>1. /\ queue' = queue \o timer /\ timer' = <<>> /\ meta' = meta /\ room' = room
      /\ bridged' = bridged /\ marker' = marker
      /\ UNCHANGED <<phone, updates, syncing, locked, overtaken, dropped>>
  BY DEF DelayedBackfill, matrix
<1>2. queue \in Seq(PortalEvent) /\ timer \in Seq(PortalEvent) /\ SyncType
  BY DEF SyncInv, SyncType
<1>3. Len(queue) \in Nat /\ 1..Len(timer') = {}
  BY <1>1, <1>2, LenProperties
<1>4. /\ \A i \in 1..Len(queue) : i \in 1..Len(queue') /\ queue'[i] = queue[i]
      /\ \A k \in 1..Len(timer) : Len(queue) + k \in 1..Len(queue') /\ queue'[Len(queue) + k] = timer[k]
      /\ \A i \in 1..Len(queue') : i \in 1..Len(queue) \/ \E k \in 1..Len(timer) : i = Len(queue) + k
  <2> DEFINE q == queue \o timer
  <2>1. /\ \A i \in 1..Len(queue) : i \in 1..Len(q) /\ q[i] = queue[i]
        /\ \A k \in 1..Len(timer) : Len(queue) + k \in 1..Len(q) /\ q[Len(queue) + k] = timer[k]
        /\ \A i \in 1..Len(q) : i \in 1..Len(queue) \/ \E k \in 1..Len(timer) : i = Len(queue) + k
    BY <1>2, GrownTail
  <2>2. queue' = q
    BY <1>1
  <2> HIDE DEF q
  <2>3. QED
    BY <2>1, <2>2
<1>5. LastInv' /\ Latest' = Latest /\ (Settling' <=> Settling)
  <2>1. meta'.known = meta.known /\ meta'.unread = meta.unread /\ meta'.readUpTo = meta.readUpTo
    BY <1>1
  <2>2. QED
    BY <1>1, <1>2, <2>1, LastKept
<1>6. ContentInv'
  <2>1. ASSUME NEW i \in 1..Len(queue')
        PROVE  /\ queue'[i].kind = "message" => queue'[i].target \in 1..phone.latest
               /\ queue'[i].kind # "message" =>
                     queue'[i].update \in 1..Latest /\ syncing[queue'[i].update] = "done"
               /\ queue'[i].kind = "resync" /\ queue'[i].only => ~Goes(queue[i].update)'
    <3>1. CASE i \in 1..Len(queue)
      <4>1. queue'[i] = queue[i]
        BY <1>4, <3>1
      <4>2. queue[i].kind = "resync" /\ queue[i].only => ~Goes(queue[i].update)
        BY <3>1 DEF SettleInv, ContentInv
      <4>3. queue'[i].kind = "resync" /\ queue'[i].only => ~Goes(queue[i].update)'
        BY <1>1, <4>1, <4>2 DEF Goes
      <4>4. QED
        BY <3>1, <4>1, <4>3 DEF SettleInv, ContentInv
    <3>2. ASSUME NEW k \in 1..Len(timer), i = Len(queue) + k
          PROVE  /\ queue'[i].kind = "message" => queue'[i].target \in 1..phone.latest
                 /\ queue'[i].kind # "message" =>
                       queue'[i].update \in 1..Latest /\ syncing[queue'[i].update] = "done"
                 /\ queue'[i].kind = "resync" /\ queue'[i].only => ~Goes(queue[i].update)'
      <4>1. queue'[i] = timer[k] /\ timer[k].kind # "message"
        BY <1>4, <3>2 DEF SyncInv, SyncRefs
      <4>2. /\ timer[k].update \in 1..Latest /\ syncing[timer[k].update] = "done"
            /\ timer[k].kind = "resync" => ~Goes(timer[k].update)
        BY DEF SettleInv, ContentInv
      <4>3. queue'[i].kind = "resync" => ~Goes(queue[i].update)'
        BY <1>1, <4>1, <4>2 DEF Goes
      <4>4. QED
        BY <4>1, <4>2, <4>3
    <3>3. QED
      BY <1>4, <3>1, <3>2
  <2>2. QED
    BY <1>1, <1>3, <1>5, <2>1 DEF SettleInv, ContentInv
<1>7. ASSUME Settling PROVE NewestFollows' /\ RoomComes'
  <2>1. NewestFollows /\ RoomComes
    BY <1>7 DEF SettleInv, Settled
  <2>2. \A i \in 1..Len(queue) : Full(queue[i], Latest) => Full(queue[i], Latest)'
    BY <1>4, <1>5 DEF Full
  <2>3. NewestFollows'
    <3> SUFFICES ASSUME NEW j \in 1..Len(queue'), queue'[j].kind = "resync", ~queue'[j].only,
                        queue'[j].update # Latest
                 PROVE  \E i \in 1..Len(queue') : j < i /\ Full(queue[i], Latest)'
      BY <1>5 DEF NewestFollows
    <3>1. j \in 1..Len(queue)
      <4>1. ASSUME NEW k \in 1..Len(timer), j = Len(queue) + k PROVE FALSE
        BY <1>4, <4>1 DEF SyncInv, SyncRefs
      <4>2. QED
        BY <1>4, <4>1
    <3>2. PICK i \in 1..Len(queue) : j < i /\ Full(queue[i], Latest)
      BY <1>4, <2>1, <3>1 DEF NewestFollows
    <3>3. QED
      BY <1>4, <2>2, <3>2
  <2>4. RoomRight => RoomRight'
    BY <1>1 DEF RoomRight
  <2>5. QED
    BY <1>4, <2>1, <2>2, <2>3, <2>4 DEF RoomComes
<1>8. ~Delayed'
  BY <1>3 DEF Delayed
<1>9. ASSUME Settling PROVE FillComes' /\ DelayedWhole' /\ ReadComes'
  <2>1. FillComes /\ DelayedWhole /\ ReadComes
    BY <1>9 DEF SettleInv, Settled
  <2>2. ASSUME NEW i \in 1..Len(queue)
        PROVE  /\ i \in 1..Len(queue')
               /\ Fills(queue[i], Latest) => Fills(queue[i], Latest)'
               /\ Reads(queue[i], Latest) => Reads(queue[i], Latest)'
    BY <1>4, <1>5 DEF Fills, Reads
  <2>3. ASSUME NEW k \in 1..Len(timer), Fills(timer[k], Latest)
        PROVE  \E i \in 1..Len(queue') : Fills(queue[i], Latest)'
    <3>1. PICK i \in 1..Len(queue') : queue'[i] = timer[k]
      BY <1>4
    <3>2. QED
      BY <1>5, <2>3, <3>1 DEF Fills
  <2>4. ASSUME NEW k \in 1..Len(timer), Reads(timer[k], Latest)
        PROVE  \E i \in 1..Len(queue') : Reads(queue[i], Latest)'
    <3>1. PICK i \in 1..Len(queue') : queue'[i] = timer[k]
      BY <1>4
    <3>2. QED
      BY <1>5, <2>4, <3>1 DEF Reads
  <2>5. FillComes'
    BY <1>1, <2>1, <2>2, <2>3 DEF FillComes, DelayedWhole
  <2>6. ReadComes'
    BY <1>1, <2>1, <2>2, <2>4 DEF ReadComes, DelayedWhole
  <2>7. QED
    BY <1>8, <2>5, <2>6 DEF DelayedWhole
<1>10. ASSUME Settling PROVE ReadFollows'
  <2>1. ReadFollows /\ DelayedWhole
    BY <1>10 DEF SettleInv, Settled
  <2> SUFFICES ASSUME NEW i \in 1..Len(queue'), Reads(queue'[i], Latest)
               PROVE  /\ queue'[i].target = phone.latest
                      /\ \A j \in 1..Len(queue') : i < j => ~Fills(queue'[j], Latest)
    <3>1. \A i \in 1..Len(queue') : /\ Reads(queue[i], Latest)' <=> Reads(queue'[i], Latest)
                                    /\ Fills(queue[i], Latest)' <=> Fills(queue'[i], Latest)
      BY <1>5 DEF Reads, Fills
    <3>2. QED
      BY <1>1, <1>8, <3>1 DEF ReadFollows
  <2>2. CASE i \in 1..Len(queue)
    <3>1. queue'[i] = queue[i]
      BY <1>4, <2>2
    <3>2. /\ queue[i].target = phone.latest /\ ~Delayed
          /\ \A j \in 1..Len(queue) : i < j => ~Fills(queue[j], Latest)
      BY <2>1, <2>2, <3>1 DEF ReadFollows
    <3>3. \A k \in 1..Len(timer) : ~Fills(timer[k], Latest)
      BY <3>2 DEF Delayed, Fills
    <3>4. \A j \in 1..Len(queue') : i < j => ~Fills(queue'[j], Latest)
      BY <1>4, <3>2, <3>3
    <3>5. QED
      BY <3>1, <3>2, <3>4
  <2>3. ASSUME NEW k \in 1..Len(timer), i = Len(queue) + k
        PROVE  /\ queue'[i].target = phone.latest
               /\ \A j \in 1..Len(queue') : i < j => ~Fills(queue'[j], Latest)
    <3>1. queue'[i] = timer[k]
      BY <1>4, <2>3
    <3>2. Delayed
      BY <3>1 DEF Delayed, Reads
    <3>3. /\ timer[k].target = phone.latest
          /\ \A j \in 1..Len(timer) : k < j => ~Fills(timer[j], Latest)
      BY <2>1, <3>1, <3>2 DEF DelayedWhole
    <3>4. ASSUME NEW j \in 1..Len(queue'), i < j PROVE ~Fills(queue'[j], Latest)
      <4>1. ~(j \in 1..Len(queue))
        BY <1>3, <2>3, <3>4
      <4>2. PICK m \in 1..Len(timer) : j = Len(queue) + m
        BY <1>4, <4>1
      <4>3. k < m
        BY <1>3, <2>3, <3>4, <4>2
      <4>4. queue'[j] = timer[m]
        BY <1>4, <4>2
      <4>5. QED
        BY <3>3, <4>3, <4>4
    <3>5. QED
      BY <3>1, <3>3, <3>4
  <2>4. QED
    BY <1>4, <2>2, <2>3
<1>11. QED
  BY <1>5, <1>6, <1>7, <1>9, <1>10 DEF SettleInv, Settled

(* An update queues its events.  In order, that is the last thing that     *)
(* happens to the queue but for the delayed backfill.                      *)
LEMMA MarkReadOf ==
  ASSUME NEW u \in Nat, SyncType
  PROVE  /\ updates[u].unread => Len(MarkRead(u)) = 0
         /\ ~updates[u].unread =>
               /\ Len(MarkRead(u)) = 1 /\ MarkRead(u)[1].kind = "read"
               /\ MarkRead(u)[1].update = u /\ MarkRead(u)[1].target = meta.readUpTo
<1> DEFINE e == [kind |-> "read", update |-> u, allow |-> FALSE, only |-> FALSE,
                 target |-> meta.readUpTo]
<1>1. e.kind = "read" /\ e.update = u /\ e.target = meta.readUpTo
  OBVIOUS
<1>2. MarkRead(u) = IF updates[u].unread THEN <<>> ELSE <<e>>
  BY DEF MarkRead
<1> HIDE DEF e
<1>3. Len(<<>>) = 0 /\ Len(<<e>>) = 1 /\ <<e>>[1] = e
  OBVIOUS
<1>4. QED
  BY <1>1, <1>2, <1>3

(* Every event of an update's receipt is a receipt for it, with the target *)
(* conversationMeta has.                                                   *)
LEMMA MarkReadAll ==
  ASSUME NEW u \in Nat, SyncType, NEW k \in 1..Len(MarkRead(u))
  PROVE  /\ ~updates[u].unread /\ MarkRead(u)[k].kind = "read"
         /\ MarkRead(u)[k].update = u /\ MarkRead(u)[k].target = meta.readUpTo
<1>1. ~updates[u].unread
  <2> SUFFICES ASSUME updates[u].unread PROVE FALSE
    OBVIOUS
  <2>1. Len(MarkRead(u)) = 0
    BY MarkReadOf
  <2>2. k \in 1..0
    BY <2>1
  <2>3. QED
    BY <2>2
<1>2. k = 1
  <2>1. Len(MarkRead(u)) = 1
    BY <1>1, MarkReadOf
  <2>2. k \in 1..1
    BY <2>1
  <2>3. QED
    BY <2>2
<1>3. QED
  BY <1>1, <1>2, MarkReadOf

LEMMA QueueEffect ==
  ASSUME SyncInv, NEW u \in 1..Latest, syncConversation(u)
  PROVE  LET now == updates[u].status \notin GoneStatuses /\ AllowBackfill(updates[u])
             later == updates[u].status \notin GoneStatuses /\ ~AllowBackfill(updates[u])
         IN
         /\ \A i \in 1..Len(queue) : i \in 1..Len(queue') /\ queue'[i] = queue[i]
         /\ \E n \in 1..Len(queue') :
              /\ \A i \in 1..Len(queue) : i < n
              /\ queue'[n].kind = "resync" /\ queue'[n].update = u /\ ~queue'[n].only
              /\ queue'[n].allow <=> AllowBackfill(updates[u])
              /\ \A i \in 1..Len(queue') :
                    \/ i \in 1..Len(queue) \/ i = n
                    \/ /\ i > n /\ now /\ ~updates[u].unread /\ queue'[i].kind = "read"
                       /\ queue'[i].update = u /\ queue'[i].target = meta.readUpTo
              /\ now /\ ~updates[u].unread =>
                    \E i \in 1..Len(queue') : queue'[i].kind = "read" /\ queue'[i].update = u
         /\ ~later => timer' = timer
         /\ later =>
              /\ \E k \in 1..Len(timer') : Fills(timer'[k], u)
              /\ ~updates[u].unread => \E k \in 1..Len(timer') : Reads(timer'[k], u)
              /\ \A k \in 1..Len(timer') :
                    /\ timer'[k].update = u
                    /\ Fills(timer'[k], u) => k = 1
                    /\ timer'[k].kind = "read" =>
                          ~updates[u].unread /\ timer'[k].target = meta.readUpTo
<1> DEFINE v == updates[u]
           now == v.status \notin GoneStatuses /\ AllowBackfill(v)
           later == v.status \notin GoneStatuses /\ ~AllowBackfill(v)
           r == Resync(u, AllowBackfill(v), FALSE)
           d == Resync(u, TRUE, TRUE)
           marks == MarkRead(u)
           tail == IF now THEN marks ELSE <<>>
<1>1. /\ queue' = Append(queue, r) \o tail
      /\ timer' = IF later THEN <<d>> \o marks ELSE timer
  BY DEF syncConversation
<1>2. queue \in Seq(PortalEvent) /\ SyncType /\ u \in Nat
  <2>1. Latest \in Nat
    BY LenProperties DEF SyncInv, SyncType, Latest
  <2>2. QED
    BY <2>1 DEF SyncInv, SyncType
<1>3. /\ r \in PortalEvent /\ r.kind = "resync" /\ r.update = u /\ r.only = FALSE
      /\ r.allow = AllowBackfill(v)
  <2>1. AllowBackfill(v) \in BOOLEAN
    BY DEF AllowBackfill
  <2>2. QED
    BY <1>2, <2>1 DEF Resync, PortalEvent
<1>4. d \in PortalEvent /\ d.kind = "resync" /\ d.update = u /\ d.allow = TRUE
  BY <1>2 DEF Resync, PortalEvent
<1>5. marks \in Seq(PortalEvent)
  BY <1>2, MarkReadIs
<1>6. /\ ~v.unread => Len(marks) = 1
      /\ \A k \in 1..Len(marks) : /\ ~v.unread /\ marks[k].kind = "read" /\ marks[k].update = u
                                  /\ marks[k].target = meta.readUpTo
  BY <1>2, MarkReadOf, MarkReadAll
<1> HIDE DEF r, d, marks
<1>7. tail \in Seq(PortalEvent) /\ (now => tail = marks) /\ (~now => 1..Len(tail) = {})
  BY <1>5
<1> HIDE DEF tail, now, later, v
<1> DEFINE q == Append(queue, r)
           n == Len(queue) + 1
<1>8. /\ q \in Seq(PortalEvent) /\ Len(queue) \in Nat /\ Len(q) = n /\ q[n] = r
      /\ \A i \in 1..Len(queue) : i \in 1..Len(q) /\ q[i] = queue[i]
      /\ \A i \in 1..Len(q) : i \in 1..Len(queue) \/ i = n
  BY <1>2, <1>3, Appended
<1>9. queue' = q \o tail
  BY <1>1
<1> HIDE DEF q
<1>10. /\ \A i \in 1..Len(q) : i \in 1..Len(queue') /\ queue'[i] = q[i]
       /\ \A k \in 1..Len(tail) : Len(q) + k \in 1..Len(queue') /\ queue'[Len(q) + k] = tail[k]
       /\ \A i \in 1..Len(queue') : i \in 1..Len(q) \/ \E k \in 1..Len(tail) : i = Len(q) + k
  <2> DEFINE qt == q \o tail
  <2>1. /\ \A i \in 1..Len(q) : i \in 1..Len(qt) /\ qt[i] = q[i]
        /\ \A k \in 1..Len(tail) : Len(q) + k \in 1..Len(qt) /\ qt[Len(q) + k] = tail[k]
        /\ \A i \in 1..Len(qt) : i \in 1..Len(q) \/ \E k \in 1..Len(tail) : i = Len(q) + k
    BY <1>7, <1>8, GrownTail
  <2>2. queue' = qt
    BY <1>9
  <2> HIDE DEF qt
  <2>3. QED
    BY <2>1, <2>2
<1>11. n \in 1..Len(q) /\ n \in 1..Len(queue') /\ queue'[n] = r /\ \A i \in 1..Len(queue) : i < n
  BY <1>8, <1>10
<1>12. \A i \in 1..Len(queue) : i \in 1..Len(queue') /\ queue'[i] = queue[i]
  BY <1>8, <1>10
<1>13. ASSUME NEW i \in 1..Len(queue'), ~(i \in 1..Len(queue)), i # n
       PROVE  /\ i > n /\ now /\ ~v.unread /\ queue'[i].kind = "read"
              /\ queue'[i].update = u /\ queue'[i].target = meta.readUpTo
  <2>1. ~(i \in 1..Len(q))
    BY <1>8, <1>13
  <2>2. PICK k \in 1..Len(tail) : i = Len(q) + k
    BY <1>10, <2>1
  <2>3. now /\ tail = marks /\ queue'[i] = marks[k] /\ k \in 1..Len(marks)
    BY <1>7, <1>10, <2>2
  <2>4. i > n
    BY <1>8, <2>2
  <2>5. QED
    BY <1>6, <2>3, <2>4
<1>14. ASSUME now, ~v.unread
       PROVE  \E i \in 1..Len(queue') : queue'[i].kind = "read" /\ queue'[i].update = u
  <2>1. PICK k \in 1..Len(tail) : tail[k] = marks[1] /\ 1 \in 1..Len(marks)
    BY <1>6, <1>7, <1>14
  <2>2. PICK i \in 1..Len(queue') : queue'[i] = marks[1]
    BY <1>10, <2>1
  <2>3. QED
    BY <1>6, <2>1, <2>2
<1>15. ASSUME later
       PROVE  /\ \E k \in 1..Len(timer') : Fills(timer'[k], u)
              /\ ~v.unread => \E k \in 1..Len(timer') : Reads(timer'[k], u)
              /\ \A k \in 1..Len(timer') :
                    /\ timer'[k].update = u
                    /\ Fills(timer'[k], u) => k = 1
                    /\ timer'[k].kind = "read" => ~v.unread /\ timer'[k].target = meta.readUpTo
  <2> DEFINE one == <<d>>
             dm == one \o marks
  <2>1. one \in Seq(PortalEvent) /\ Len(one) = 1 /\ one[1] = d /\ \A k \in 1..1 : k = 1
    BY <1>4
  <2> HIDE DEF one
  <2> HIDE DEF now, later
  <2>2. /\ \A i \in 1..Len(one) : i \in 1..Len(dm) /\ dm[i] = one[i]
        /\ \A k \in 1..Len(marks) : Len(one) + k \in 1..Len(dm) /\ dm[Len(one) + k] = marks[k]
        /\ \A i \in 1..Len(dm) : i \in 1..Len(one) \/ \E k \in 1..Len(marks) : i = Len(one) + k
    <3>1. one \in Seq(PortalEvent) /\ marks \in Seq(PortalEvent)
      BY <1>5, <2>1
    <3>2. QED
      BY ONLY <3>1, GrownTail
  <2>3. timer' = dm
    BY <1>1, <1>15 DEF one
  <2> HIDE DEF dm
  <2>4. 1 \in 1..Len(timer') /\ timer'[1] = d
    BY <2>1, <2>2, <2>3
  <2>5. \A k \in 1..Len(timer') : k = 1 \/ \E m \in 1..Len(marks) : timer'[k] = marks[m]
    BY <2>1, <2>2, <2>3
  <2>6. \E k \in 1..Len(timer') : Fills(timer'[k], u)
    BY <1>4, <2>4 DEF Fills
  <2>7. ~v.unread => \E k \in 1..Len(timer') : Reads(timer'[k], u)
    <3> SUFFICES ASSUME ~v.unread PROVE \E k \in 1..Len(timer') : Reads(timer'[k], u)
      OBVIOUS
    <3>1. 1 \in 1..Len(marks)
      BY <1>6
    <3>2. PICK k \in 1..Len(timer') : timer'[k] = marks[1]
      BY <2>2, <2>3, <3>1
    <3>3. QED
      BY <1>6, <3>1, <3>2 DEF Reads
  <2>8. ASSUME NEW k \in 1..Len(timer')
        PROVE  /\ timer'[k].update = u
               /\ Fills(timer'[k], u) => k = 1
               /\ timer'[k].kind = "read" => ~v.unread /\ timer'[k].target = meta.readUpTo
    BY <1>4, <1>6, <2>4, <2>5 DEF Fills
  <2>9. QED
    BY <2>6, <2>7, <2>8
<1>16. ~later => timer' = timer
  BY <1>1
<1>17. QED
  <2>1. /\ queue'[n].kind = "resync" /\ queue'[n].update = u /\ ~queue'[n].only
        /\ queue'[n].allow <=> AllowBackfill(v)
    BY <1>3, <1>11
  <2> HIDE DEF n
  <2>2. QED
    BY <1>11, <1>12, <1>13, <1>14, <1>15, <1>16, <2>1 DEF v, now, later

LEMMA QueueSettle ==
  ASSUME SyncInv, SettleInv, NEW u \in 1..Latest, syncConversation(u)
  PROVE  SettleInv'
<1> DEFINE v == updates[u]
           now == v.status \notin GoneStatuses /\ AllowBackfill(v)
           later == v.status \notin GoneStatuses /\ ~AllowBackfill(v)
<1>1. /\ syncing[u] = "queue" /\ syncing' = [syncing EXCEPT ![u] = "done"]
      /\ overtaken' = (overtaken \/ \E i, j \in DOMAIN locked :
                          i < j /\ locked[i] = u /\ syncing[locked[j]] = "done")
      /\ phone' = phone /\ updates' = updates /\ meta' = meta /\ locked' = locked
      /\ room' = room /\ bridged' = bridged /\ marker' = marker /\ dropped' = dropped
  BY DEF syncConversation, matrix
<1>2. /\ syncing \in Seq({"start", "queue", "done"}) /\ locked \in Seq(Nat)
      /\ Len(syncing) = Latest /\ Latest \in Nat /\ dropped \in BOOLEAN /\ u \in Nat
      /\ SyncType
  <2>1. Latest \in Nat
    BY LenProperties DEF SyncInv, SyncType, Latest
  <2>2. QED
    BY <2>1 DEF SyncInv, SyncType, SettleInv, LastInv, Latest
<1>3. syncing'[u] = "done" /\ \A w \in 1..Latest : w # u => syncing'[w] = syncing[w]
  <2>1. DOMAIN syncing = 1..Latest
    BY <1>2, LenProperties
  <2>2. QED
    BY <1>1, <2>1
<1>4. InOrder' => InOrder
  <2>1. (overtaken => overtaken') /\ (dropped => dropped')
    BY <1>1
  <2>2. QED
    BY <1>1, <1>2, <2>1, OrderKept
<1>5. Latest' = Latest /\ Latest \in 1..Latest
  BY <1>1, <1>2 DEF Latest
<1>6. LastInv'
  <2>1. \A w \in 1..Latest : syncing'[w] # "start" => syncing[w] # "start"
    BY <1>1, <1>3
  <2>2. QED
    BY <1>1, <1>4, <1>5, <2>1 DEF SettleInv, LastInv
<1>7. Settling' => u = Latest
  <2> SUFFICES ASSUME Settling', u # Latest PROVE FALSE
    OBVIOUS
  <2>1. InOrder' /\ InOrder /\ syncing[Latest] = "done"
    BY <1>3, <1>4, <1>5 DEF Settling
  <2>2. PICK i \in 1..Len(locked) : locked[i] = u
    BY <1>1 DEF SettleInv, LastInv
  <2>3. PICK j \in 1..Len(locked) : locked[j] = Latest
    BY <1>5, <2>1 DEF SettleInv, LastInv
  <2>4. DOMAIN locked = 1..Len(locked) /\ Len(locked) \in Nat
    BY <1>2, LenProperties
  <2>5. i < j
    <3>1. j < i => Latest < u
      BY <2>1, <2>2, <2>3, <2>4 DEF InOrder
    <3>2. ~(Latest < u) /\ i # j
      BY <1>2, <2>2, <2>3
    <3>3. i \in Int /\ j \in Int
      BY <2>4
    <3>4. QED
      BY <3>1, <3>2, <3>3
  <2>6. overtaken'
    BY <1>1, <2>1, <2>2, <2>3, <2>4, <2>5
  <2>7. QED
    BY <2>1, <2>6 DEF InOrder
<1>8. /\ \A i \in 1..Len(queue) : i \in 1..Len(queue') /\ queue'[i] = queue[i]
      /\ ~later => timer' = timer
      /\ later =>
           /\ \E k \in 1..Len(timer') : Fills(timer'[k], u)
           /\ ~v.unread => \E k \in 1..Len(timer') : Reads(timer'[k], u)
           /\ \A k \in 1..Len(timer') :
                 /\ timer'[k].update = u
                 /\ Fills(timer'[k], u) => k = 1
                 /\ timer'[k].kind = "read" => ~v.unread /\ timer'[k].target = meta.readUpTo
  BY QueueEffect
<1>9. PICK n \in 1..Len(queue') :
              /\ \A i \in 1..Len(queue) : i < n
              /\ queue'[n].kind = "resync" /\ queue'[n].update = u /\ ~queue'[n].only
              /\ queue'[n].allow <=> AllowBackfill(v)
              /\ \A i \in 1..Len(queue') :
                    \/ i \in 1..Len(queue) \/ i = n
                    \/ /\ i > n /\ now /\ ~v.unread /\ queue'[i].kind = "read"
                       /\ queue'[i].update = u /\ queue'[i].target = meta.readUpTo
              /\ now /\ ~v.unread =>
                    \E i \in 1..Len(queue') : queue'[i].kind = "read" /\ queue'[i].update = u
  BY QueueEffect
<1>10. later => ~Goes(u)
  BY DEF Goes, GoneStatuses, SpamStatuses
<1> HIDE DEF now, later
<1>11. ContentInv'
  <2>1. \A w \in 1..Latest : syncing[w] = "done" => syncing'[w] = "done"
    BY <1>3
  <2>2. ASSUME NEW i \in 1..Len(queue')
        PROVE  /\ queue'[i].kind = "message" => queue'[i].target \in 1..phone.latest
               /\ queue'[i].kind # "message" =>
                     queue'[i].update \in 1..Latest /\ syncing'[queue'[i].update] = "done"
               /\ queue'[i].kind = "resync" /\ queue'[i].only => ~Goes(queue[i].update)'
    <3>1. CASE i \in 1..Len(queue)
      <4>1. queue'[i] = queue[i]
        BY <1>8, <3>1
      <4>2. queue[i].kind = "resync" /\ queue[i].only => ~Goes(queue[i].update)
        BY <3>1 DEF SettleInv, ContentInv
      <4>3. queue'[i].kind = "resync" /\ queue'[i].only => ~Goes(queue[i].update)'
        BY <1>1, <4>1, <4>2 DEF Goes
      <4>4. QED
        BY <2>1, <3>1, <4>1, <4>3 DEF SettleInv, ContentInv
    <3>2. CASE i \notin 1..Len(queue)
      BY <1>3, <1>9, <3>2
    <3>3. QED
      BY <3>1, <3>2
  <2>3. ASSUME NEW i \in 1..Len(timer')
        PROVE  /\ timer'[i].update \in 1..Latest /\ syncing'[timer'[i].update] = "done"
               /\ timer'[i].kind = "resync" => ~Goes(timer[i].update)'
    <3>1. CASE later
      <4>1. timer'[i].update = u
        BY <1>8, <3>1
      <4>2. ~Goes(timer[i].update)'
        BY <1>1, <1>10, <3>1, <4>1 DEF Goes
      <4>3. QED
        BY <1>3, <4>1, <4>2
    <3>2. CASE ~later
      <4>1. timer' = timer
        BY <1>8, <3>2
      <4>2. timer[i].kind = "resync" => ~Goes(timer[i].update)
        BY <4>1 DEF SettleInv, ContentInv
      <4>3. timer'[i].kind = "resync" => ~Goes(timer[i].update)'
        BY <1>1, <4>1, <4>2 DEF Goes
      <4>4. QED
        BY <2>1, <4>1, <4>3 DEF SettleInv, ContentInv
    <3>3. QED
      BY <3>1, <3>2
  <2>4. QED
    BY <1>1, <1>5, <2>2, <2>3 DEF SettleInv, ContentInv
<1>12. ASSUME Settling'
       PROVE  (NewestFollows /\ RoomComes /\ FillComes /\ DelayedWhole /\ ReadFollows /\ ReadComes)'
  <2>1. u = Latest /\ v = phone /\ InOrder
    BY <1>4, <1>5, <1>7, <1>12 DEF Settling, SettleInv, LastInv
  <2>2. ~phone.unread => meta.readUpTo = phone.latest
    BY <1>1, <1>2, <1>5, <2>1 DEF SettleInv, LastInv
  <2>3. \A k \in 1..Len(timer) : timer[k].update # u
    BY <1>1 DEF SettleInv, ContentInv
  <2>4. \A i \in 1..Len(queue) : queue[i].kind # "message" => queue[i].update # u
    BY <1>1 DEF SettleInv, ContentInv
  <2>5. /\ \A i \in 1..Len(queue') : /\ Reads(queue[i], Latest)' <=> Reads(queue'[i], u)
                                     /\ Fills(queue[i], Latest)' <=> Fills(queue'[i], u)
                                     /\ Full(queue[i], Latest)' <=> Full(queue'[i], u)
        /\ \A i \in 1..Len(timer') : /\ Reads(timer[i], Latest)' <=> Reads(timer'[i], u)
                                     /\ Fills(timer[i], Latest)' <=> Fills(timer'[i], u)
    BY <1>5, <2>1 DEF Reads, Fills, Full
  <2>6. Delayed' <=> later
    <3>1. Delayed' <=> \E k \in 1..Len(timer') : timer'[k].update = u
      BY <1>5, <2>1 DEF Delayed
    <3>2. CASE later
      BY <1>8, <3>1, <3>2 DEF Fills
    <3>3. CASE ~later
      BY <1>8, <2>3, <3>1, <3>3
    <3>4. QED
      BY <3>2, <3>3
  <2>7. Full(queue'[n], u) /\ (AllowBackfill(v) => Fills(queue'[n], u))
    BY <1>9 DEF Full, Fills
  <2>8. NewestFollows'
    <3> SUFFICES ASSUME NEW j \in 1..Len(queue'), queue'[j].kind = "resync", ~queue'[j].only,
                        queue'[j].update # u
                 PROVE  \E i \in 1..Len(queue') : j < i /\ Full(queue'[i], u)
      BY <1>5, <2>1, <2>5 DEF NewestFollows
    <3>1. j < n
      BY <1>9
    <3>2. QED
      BY <2>7, <3>1
  <2>9. RoomComes'
    BY <2>5, <2>7 DEF RoomComes
  <2>10. GetType(phone) = "ChatResync" => now \/ later
    BY <2>1 DEF GetType, now, later, GoneStatuses, SpamStatuses
  <2>11. FillComes'
    <3> SUFFICES ASSUME GetType(phone) = "ChatResync"
                 PROVE  Delayed' \/ \E i \in 1..Len(queue') : Fills(queue'[i], u)
      BY <1>1, <2>5 DEF FillComes
    <3>1. CASE later
      BY <2>6, <3>1
    <3>2. CASE now
      BY <2>7, <3>2 DEF now
    <3>3. QED
      BY <2>10, <3>1, <3>2
  <2>12. DelayedWhole'
    <3> SUFFICES ASSUME later
                 PROVE  /\ \E k \in 1..Len(timer') : Fills(timer'[k], u)
                        /\ ~phone.unread => \E k \in 1..Len(timer') : Reads(timer'[k], u)
                        /\ \A k \in 1..Len(timer') : Reads(timer'[k], u) =>
                              /\ timer'[k].target = phone.latest
                              /\ \A j \in 1..Len(timer') : k < j => ~Fills(timer'[j], u)
      BY <1>1, <2>5, <2>6 DEF DelayedWhole
    <3>1. /\ \E k \in 1..Len(timer') : Fills(timer'[k], u)
          /\ ~phone.unread => \E k \in 1..Len(timer') : Reads(timer'[k], u)
      BY <1>8, <2>1
    <3>2. ASSUME NEW k \in 1..Len(timer'), Reads(timer'[k], u)
          PROVE  timer'[k].target = phone.latest
      <4>1. ~phone.unread /\ timer'[k].target = meta.readUpTo
        BY <1>8, <2>1, <3>2 DEF Reads
      <4>2. QED
        BY <2>2, <4>1
    <3>3. ASSUME NEW k \in 1..Len(timer'), NEW j \in 1..Len(timer'), k < j
          PROVE  ~Fills(timer'[j], u)
      <4>1. j # 1
        BY <3>3
      <4>2. QED
        BY <1>8, <4>1
    <3>4. QED
      BY <3>1, <3>2, <3>3
  <2>13. ReadFollows'
    <3> SUFFICES ASSUME NEW i \in 1..Len(queue'), Reads(queue'[i], u)
                 PROVE  /\ queue'[i].target = phone.latest /\ ~later
                        /\ \A j \in 1..Len(queue') : i < j => ~Fills(queue'[j], u)
      BY <1>1, <2>5, <2>6 DEF ReadFollows
    <3>1. i \notin 1..Len(queue) /\ i # n
      BY <1>8, <1>9, <2>4 DEF Reads
    <3>2. i > n /\ now /\ ~phone.unread /\ queue'[i].target = meta.readUpTo
      BY <1>9, <2>1, <3>1
    <3>3. ~later
      BY <3>2 DEF now, later
    <3>4. ASSUME NEW j \in 1..Len(queue'), i < j PROVE ~Fills(queue'[j], u)
      <4>1. j > n
        BY <3>2, <3>4
      <4>2. j \notin 1..Len(queue) /\ j # n
        BY <1>9, <4>1
      <4>3. queue'[j].kind = "read"
        BY <1>9, <4>2
      <4>4. QED
        BY <4>3 DEF Fills
    <3>5. QED
      BY <2>2, <3>2, <3>3, <3>4
  <2>14. ReadComes'
    <3> SUFFICES ASSUME GetType(phone) = "ChatResync", ~phone.unread
                 PROVE  Delayed' \/ \E i \in 1..Len(queue') : Reads(queue'[i], u)
      BY <1>1, <2>5 DEF ReadComes
    <3>1. CASE later
      BY <2>6, <3>1
    <3>2. CASE now
      BY <1>9, <2>1, <3>2 DEF Reads
    <3>3. QED
      BY <2>10, <3>1, <3>2
  <2>15. QED
    BY <2>8, <2>9, <2>11, <2>12, <2>13, <2>14
<1>13. QED
  BY <1>6, <1>11, <1>12 DEF SettleInv, Settled

(* The portal handles the first event: what the last update still needs is *)
(* done by it or comes behind it.                                          *)
LEMMA PortalSettle ==
  ASSUME SyncInv, SettleInv, Portal
  PROVE  SettleInv'
<1> DEFINE e == queue[1]
<1>1. /\ queue # <<>> /\ queue' = Tail(queue) /\ meta' = meta /\ timer' = timer
      /\ UNCHANGED <<phone, updates, syncing, locked, overtaken, dropped>>
  BY DEF Portal
<1>2. queue \in Seq(PortalEvent) /\ SyncType /\ room \in BOOLEAN /\ phone \in Version
  BY DEF SyncInv, SyncType
<1>3. /\ Len(queue) \in Nat /\ Len(queue') \in Nat /\ Head(queue) = e
      /\ Len(queue') = Len(queue) - 1 /\ \A i \in 1..Len(queue') : queue'[i] = queue[i + 1]
  BY <1>1, <1>2, HeadTailProperties, LenProperties
<1>4. /\ 1 \in 1..Len(queue)
      /\ \A i \in 1..Len(queue') : i + 1 \in 1..Len(queue) /\ queue'[i] = queue[i + 1]
      /\ \A j \in 1..Len(queue) : j # 1 => 1 < j /\ j - 1 \in 1..Len(queue') /\ queue'[j - 1] = queue[j]
  BY <1>3
<1>5. LastInv' /\ Latest' = Latest /\ (Settling' <=> Settling)
  <2>1. meta'.known = meta.known /\ meta'.unread = meta.unread /\ meta'.readUpTo = meta.readUpTo
    BY <1>1
  <2>2. QED
    BY <1>1, <1>2, <2>1, LastKept
<1>6. LastInv /\ ContentInv
  BY DEF SettleInv
<1>7. /\ bridged' \subseteq 1..phone.latest
      /\ room' \in BOOLEAN /\ (room' <=> bridged' # {})
      /\ marker' \in 0..phone.latest
      /\ room /\ ~Deletes(e) => room' /\ bridged \subseteq bridged'
      /\ ~room /\ room' => /\ phone.latest \in bridged'
                           /\ meta.known /\ ~meta.unread => marker' = phone.latest
      /\ room' /\ marker = phone.latest => marker' = phone.latest
      /\ room' /\ e.kind = "resync" /\ e.allow /\ updates[e.update] = phone
             /\ GetType(phone) = "ChatResync" => phone.latest \in bridged'
      /\ e.kind = "resync" /\ ~e.only /\ updates[e.update] = phone
             /\ phone.status \in {"ACTIVE", "ARCHIVED"} => room'
      /\ room /\ e.kind = "read" /\ e.target = phone.latest /\ phone.latest \in bridged
             => marker' = phone.latest
  BY <1>6, PortalContent
<1>8. /\ Deletes(e) => ~room'
      /\ room' => room \/ Creates(e) \/ (e.kind = "message" /\ phone.status \notin GoneStatuses)
  BY <1>2, <1>3, PortalIs
<1>9. ContentInv'
  <2>1. ASSUME NEW i \in 1..Len(queue')
        PROVE  /\ queue'[i].kind = "message" => queue'[i].target \in 1..phone.latest
               /\ queue'[i].kind # "message" =>
                     queue'[i].update \in 1..Latest /\ syncing[queue'[i].update] = "done"
               /\ queue'[i].kind = "resync" /\ queue'[i].only => ~Goes(queue[i].update)'
    <3>1. PICK j \in 1..Len(queue) : queue'[i] = queue[j]
      BY <1>4
    <3>2. queue[j].kind = "resync" /\ queue[j].only => ~Goes(queue[j].update)
      BY <1>6 DEF ContentInv
    <3>3. queue'[i].kind = "resync" /\ queue'[i].only => ~Goes(queue[i].update)'
      BY <1>1, <3>1, <3>2 DEF Goes
    <3>4. QED
      BY <1>6, <3>1, <3>3 DEF ContentInv
  <2>2. ASSUME NEW i \in 1..Len(timer')
        PROVE  /\ timer'[i].update \in 1..Latest /\ syncing[timer'[i].update] = "done"
               /\ timer'[i].kind = "resync" => ~Goes(timer[i].update)'
    <3>1. timer[i].kind = "resync" => ~Goes(timer[i].update)
      BY <1>1, <1>6 DEF ContentInv
    <3>2. timer'[i].kind = "resync" => ~Goes(timer[i].update)'
      BY <1>1, <3>1 DEF Goes
    <3>3. QED
      BY <1>1, <1>6, <3>2 DEF ContentInv
  <2>3. QED
    BY <1>1, <1>5, <1>7, <2>1, <2>2 DEF ContentInv
<1>10. ASSUME Settling
       PROVE  (NewestFollows /\ RoomComes /\ FillComes /\ DelayedWhole /\ ReadFollows /\ ReadComes)'
  <2>1. NewestFollows /\ RoomComes /\ FillComes /\ DelayedWhole /\ ReadFollows /\ ReadComes
    BY <1>10 DEF SettleInv, Settled
  <2>2. updates[Latest] = phone
    BY <1>6, <1>10 DEF Settling, LastInv
  <2>3. \A i \in 1..Len(queue') : /\ Reads(queue[i], Latest)' <=> Reads(queue'[i], Latest)
                                  /\ Fills(queue[i], Latest)' <=> Fills(queue'[i], Latest)
                                  /\ Full(queue[i], Latest)' <=> Full(queue'[i], Latest)
    BY <1>5 DEF Reads, Fills, Full
  <2>4. Delayed' <=> Delayed
    BY <1>1, <1>5 DEF Delayed
  <2>5. NewestFollows'
    <3> SUFFICES ASSUME NEW j \in 1..Len(queue'), queue'[j].kind = "resync", ~queue'[j].only,
                        queue'[j].update # Latest
                 PROVE  \E i \in 1..Len(queue') : j < i /\ Full(queue'[i], Latest)
      BY <1>5, <2>3 DEF NewestFollows
    <3>1. PICK m \in 1..Len(queue) : m = j + 1 /\ queue'[j] = queue[m]
      BY <1>4
    <3>2. PICK i \in 1..Len(queue) : m < i /\ Full(queue[i], Latest)
      BY <2>1, <3>1 DEF NewestFollows
    <3>3. i # 1 /\ j < i - 1
      BY <3>1, <3>2
    <3>4. QED
      BY <1>4, <3>2, <3>3
  <2>6. RoomComes'
    <3>1. CASE \E i \in 1..Len(queue) : i # 1 /\ Full(queue[i], Latest)
      <4>1. PICK i \in 1..Len(queue) : i # 1 /\ Full(queue[i], Latest)
        BY <3>1
      <4>2. PICK k \in 1..Len(queue') : queue'[k] = queue[i]
        BY <1>4, <4>1
      <4>3. QED
        BY <2>3, <4>1, <4>2 DEF RoomComes
    <3>2. CASE Full(e, Latest)
      <4>1. phone.status \in {"ACTIVE", "ARCHIVED"} => room'
        BY <1>7, <2>2, <3>2 DEF Full
      <4>2. phone.status \in GoneStatuses => ~room'
        BY <1>8, <2>2, <3>2 DEF Full, Deletes, Goes
      <4>3. RoomRight'
        BY <1>1, <4>1, <4>2 DEF RoomRight
      <4>4. QED
        BY <4>3 DEF RoomComes
    <3>3. CASE ~\E i \in 1..Len(queue) : Full(queue[i], Latest)
      <4>1. RoomRight
        BY <2>1, <3>3 DEF RoomComes
      <4>2. ~(e.kind = "resync" /\ ~e.only)
        <5>1. e.kind = "resync" /\ ~e.only => e.update = Latest
          BY <1>4, <2>1, <3>3 DEF NewestFollows
        <5>2. QED
          BY <1>4, <3>3, <5>1 DEF Full
      <4>3. ~Deletes(e) /\ ~Creates(e)
        BY <1>4, <1>6, <4>2 DEF Deletes, Creates, ContentInv
      <4>4. RoomRight'
        BY <1>1, <1>7, <1>8, <4>1, <4>3 DEF RoomRight
      <4>5. QED
        BY <4>4 DEF RoomComes
    <3>4. QED
      BY <3>1, <3>2, <3>3
  <2>7. FillComes'
    <3> SUFFICES ASSUME room', GetType(phone) = "ChatResync", ~Delayed
                 PROVE  \/ phone.latest \in bridged'
                        \/ \E i \in 1..Len(queue') : Fills(queue'[i], Latest)
      BY <1>1, <2>3, <2>4 DEF FillComes
    <3>1. CASE ~room
      BY <1>7, <3>1
    <3>2. CASE room /\ phone.latest \in bridged
      BY <1>7, <1>8, <3>2
    <3>3. ASSUME NEW i \in 1..Len(queue), Fills(queue[i], Latest), i # 1
          PROVE  \E k \in 1..Len(queue') : Fills(queue'[k], Latest)
      BY <1>4, <3>3
    <3>4. CASE Fills(e, Latest)
      BY <1>7, <2>2, <3>4 DEF Fills
    <3>5. QED
      BY <2>1, <3>1, <3>2, <3>3, <3>4 DEF FillComes
  <2>8. DelayedWhole'
    BY <1>1, <1>5, <2>1, <2>4 DEF DelayedWhole, Fills, Reads
  <2>9. ReadFollows'
    <3> SUFFICES ASSUME NEW i \in 1..Len(queue'), Reads(queue'[i], Latest)
                 PROVE  /\ queue'[i].target = phone.latest /\ ~Delayed
                        /\ \A j \in 1..Len(queue') : i < j => ~Fills(queue'[j], Latest)
      BY <1>1, <2>3, <2>4 DEF ReadFollows
    <3>1. PICK m \in 1..Len(queue) : m = i + 1 /\ queue'[i] = queue[m]
      BY <1>4
    <3>2. /\ queue[m].target = phone.latest /\ ~Delayed
          /\ \A j \in 1..Len(queue) : m < j => ~Fills(queue[j], Latest)
      BY <2>1, <3>1 DEF ReadFollows
    <3>3. ASSUME NEW j \in 1..Len(queue'), i < j PROVE ~Fills(queue'[j], Latest)
      <4>1. PICK k \in 1..Len(queue) : k = j + 1 /\ queue'[j] = queue[k]
        BY <1>4
      <4>2. m < k
        BY <3>1, <3>3, <4>1
      <4>3. QED
        BY <3>2, <4>1, <4>2
    <3>4. QED
      BY <3>1, <3>2, <3>3
  <2>10. ReadComes'
    <3> SUFFICES ASSUME room', GetType(phone) = "ChatResync", ~phone.unread, ~Delayed
                 PROVE  \/ marker' = phone.latest
                        \/ \E i \in 1..Len(queue') : Reads(queue'[i], Latest)
      BY <1>1, <2>3, <2>4 DEF ReadComes
    <3>1. CASE ~room
      <4>1. meta.known /\ ~meta.unread
        BY <1>6, <1>10 DEF LastInv, Settling
      <4>2. QED
        BY <1>7, <3>1, <4>1
    <3>2. CASE marker = phone.latest
      BY <1>7, <3>2
    <3>3. ASSUME NEW i \in 1..Len(queue), Reads(queue[i], Latest), i # 1
          PROVE  \E k \in 1..Len(queue') : Reads(queue'[k], Latest)
      BY <1>4, <3>3
    <3>4. CASE room /\ Reads(e, Latest)
      <4>1. e.target = phone.latest /\ \A j \in 1..Len(queue) : 1 < j => ~Fills(queue[j], Latest)
        BY <1>4, <2>1, <3>4 DEF ReadFollows
      <4>2. ~Fills(e, Latest)
        BY <3>4 DEF Reads, Fills
      <4>3. phone.latest \in bridged
        BY <1>4, <2>1, <3>4, <4>1, <4>2 DEF FillComes
      <4>4. QED
        BY <1>7, <3>4, <4>1, <4>3 DEF Reads
    <3>5. QED
      BY <2>1, <3>1, <3>2, <3>3, <3>4 DEF ReadComes
  <2>11. QED
    BY <2>5, <2>6, <2>7, <2>8, <2>9, <2>10
<1>11. QED
  BY <1>5, <1>9, <1>10 DEF SettleInv, Settled

(* Time passes, or nothing happens.                                        *)
LEMMA IdleSettle ==
  ASSUME SyncInv, SettleInv, TimePasses \/ UNCHANGED syncVars
  PROVE  SettleInv'
<1>1. UNCHANGED <<phone, updates, syncing, timer, queue, room, bridged, marker, locked, overtaken, dropped>>
  BY DEF TimePasses, syncVars, matrix
<1>2. meta'.known = meta.known /\ meta'.unread = meta.unread /\ meta'.readUpTo = meta.readUpTo
  <2>1. meta \in Meta
    BY DEF SyncInv, SyncType
  <2>2. CASE TimePasses
    BY <2>1, <2>2 DEF TimePasses, Meta
  <2>3. CASE UNCHANGED syncVars
    BY <2>3 DEF syncVars
  <2>4. QED
    BY <2>2, <2>3
<1>3. LastInv' /\ Latest' = Latest /\ (Settling' <=> Settling)
  <2>1. SyncType
    BY DEF SyncInv
  <2>2. QED
    BY <1>1, <1>2, <2>1, LastKept
<1>4. ContentInv'
  BY <1>1, <1>3 DEF SettleInv, ContentInv, Goes
<1>5. Settled'
  BY <1>1, <1>3 DEF SettleInv, Settled, NewestFollows, RoomComes, RoomRight, FillComes, DelayedWhole,
     ReadFollows, ReadComes, Delayed, Full, Fills, Reads
<1>6. QED
  BY <1>3, <1>4, <1>5 DEF SettleInv

LEMMA SettleStep == SyncInv /\ SyncInv' /\ SettleInv /\ [SyncNext]_syncVars => SettleInv'
<1> SUFFICES ASSUME SyncInv, SyncInv', SettleInv, [SyncNext]_syncVars PROVE SettleInv'
  OBVIOUS
<1>0. /\ phone \in Version /\ <<>> \in Seq(PortalEvent) /\ Len(<<>>) = 0 /\ 1..0 = {}
      /\ phone.latest \in Nat
  BY DEF SyncInv, SyncType, Version
<1>1. ASSUME NEW lost \in BOOLEAN, NewMessage(lost) PROVE SettleInv'
  <2> DEFINE n == phone.latest + 1
             e == [kind |-> "message", update |-> 0, allow |-> FALSE, only |-> FALSE, target |-> n]
             new == [phone EXCEPT !.latest = n, !.unread = TRUE]
             evts == IF lost THEN <<>> ELSE <<e>>
  <2>1. PhoneChanges(new, evts)
    BY <1>1 DEF NewMessage
  <2>2. n \in Nat /\ n \in 1..n /\ n >= phone.latest
    BY <1>0
  <2> HIDE DEF n
  <2>3. new \in Version /\ new.latest = n
    BY <1>0, <2>2 DEF Version
  <2>4. e \in PortalEvent /\ e.kind = "message" /\ e.target = n
    BY <2>2 DEF PortalEvent
  <2> HIDE DEF e
  <2>5. <<e>> \in Seq(PortalEvent) /\ Len(<<e>>) = 1 /\ <<e>>[1] = e /\ \A k \in 1..1 : k = 1
    BY <2>4
  <2>6. /\ evts \in Seq(PortalEvent)
        /\ \A k \in 1..Len(evts) : evts[k].kind = "message" /\ evts[k].target = n
    BY <1>0, <2>4, <2>5
  <2> HIDE DEF new, evts
  <2>7. \A k \in 1..Len(evts) : evts[k].kind = "message" /\ evts[k].target \in 1..new.latest
    BY <2>2, <2>3, <2>6
  <2>8. QED
    BY <2>1, <2>2, <2>3, <2>6, <2>7, PhoneSettle
<1>2. CASE ReadChat
  <2> DEFINE new == [phone EXCEPT !.unread = FALSE]
  <2>1. new \in Version /\ new.latest >= phone.latest
    <3>1. new \in Version /\ new.latest = phone.latest
      BY <1>0 DEF Version
    <3>2. phone.latest >= phone.latest
      BY <1>0
    <3>3. QED
      BY <3>1, <3>2
  <2>2. PhoneChanges(new, <<>>)
    BY <1>2 DEF ReadChat
  <2> HIDE DEF new
  <2>3. QED
    BY <1>0, <2>1, <2>2, PhoneSettle
<1>3. ASSUME NEW s \in Statuses, SetStatus(s) PROVE SettleInv'
  <2> DEFINE new == [phone EXCEPT !.status = s]
  <2>1. new \in Version /\ new.latest >= phone.latest
    <3>1. new \in Version /\ new.latest = phone.latest
      BY <1>0 DEF Version
    <3>2. phone.latest >= phone.latest
      BY <1>0
    <3>3. QED
      BY <3>1, <3>2
  <2>2. PhoneChanges(new, <<>>)
    BY <1>3 DEF SetStatus
  <2> HIDE DEF new
  <2>3. QED
    BY <1>0, <2>1, <2>2, PhoneSettle
<1>4. ASSUME NEW u \in DOMAIN syncing, syncConversationMeta(u) \/ syncConversation(u) PROVE SettleInv'
  <2>1. u \in 1..Latest
    BY LenProperties DEF SyncInv, SyncType, Latest
  <2>2. QED
    BY <1>4, <2>1, LockSettle, QueueSettle
<1>5. QED
  BY <1>1, <1>2, <1>3, <1>4, IdleSettle, TimerSettle, PortalSettle DEF SyncNext

LEMMA SettleSound == SyncInv /\ SettleInv => RoomSettles
<1> SUFFICES ASSUME SyncInv, SettleInv, Quiescent, InOrder
             PROVE  /\ phone.status \in {"ACTIVE", "ARCHIVED"} => room
                    /\ phone.status \in GoneStatuses => ~room
                    /\ room /\ GetType(phone) # "Unknown" => phone.latest \in bridged
                    /\ room /\ GetType(phone) # "Unknown" /\ ~phone.unread => marker = phone.latest
  BY DEF RoomSettles, RoomFollowsPhone, ReadShown
<1>1. Running = {} /\ timer = <<>> /\ queue = <<>> /\ updates # <<>>
  BY DEF Quiescent
<1>2. 1..Len(queue) = {} /\ 1..Len(timer) = {}
  BY <1>1
<1>3. Settling
  <2>1. /\ syncing \in Seq({"start", "queue", "done"}) /\ Len(syncing) = Latest
        /\ updates \in Seq(Version)
    BY DEF SyncInv, SyncType, Latest
  <2>2. Latest \in Nat /\ Latest # 0
    BY <1>1, <2>1, LenProperties, EmptySeq DEF Latest
  <2>3. DOMAIN syncing = 1..Latest /\ Latest \in 1..Latest
    BY <2>1, <2>2, LenProperties
  <2>4. syncing[Latest] \in {"start", "queue", "done"}
    BY <2>1, <2>3, LenProperties
  <2>5. syncing[Latest] = "done"
    BY <1>1, <2>3, <2>4 DEF Running
  <2>6. Latest > 0
    BY <2>2
  <2>7. QED
    BY <2>5, <2>6 DEF Settling
<1>4. RoomRight
  BY <1>2, <1>3 DEF SettleInv, Settled, RoomComes
<1>5. ~Delayed
  BY <1>2 DEF Delayed
<1>6. room /\ GetType(phone) # "Unknown" => GetType(phone) = "ChatResync"
  BY <1>4 DEF RoomRight, GetType
<1>7. room /\ GetType(phone) = "ChatResync" => phone.latest \in bridged
  BY <1>2, <1>3, <1>5 DEF SettleInv, Settled, FillComes
<1>8. room /\ GetType(phone) = "ChatResync" /\ ~phone.unread => marker = phone.latest
  BY <1>2, <1>3, <1>5 DEF SettleInv, Settled, ReadComes
<1>9. QED
  BY <1>4, <1>6, <1>7, <1>8 DEF RoomRight

(* However many messages, status changes and updates there are, and        *)
(* whichever message events are lost: when everything queued is handled    *)
(* and no update overtook another or was dropped, an inbox chat has a room *)
(* and a spam or deleted one has none, the room has the newest message,    *)
(* and the room of a chat that was read is read (syncConversation, its     *)
(* delayed backfill and CheckNeedsBackfill).                               *)
THEOREM RoomSettlesThm == SyncSpec => []RoomSettles
<1>1. SyncInit => SyncInv /\ SettleInv
  BY SyncInvInit, SettleInit
<1>2. (SyncInv /\ SettleInv) /\ [SyncNext]_syncVars => (SyncInv /\ SettleInv)'
  BY SyncInvStep, SettleStep
<1>3. QED
  BY <1>1, <1>2, SettleSound, PTL DEF SyncSpec
-----------------------------------------------------------------------------

(* Positions in the ring, without the remainder.                           *)
LEMMA ModSmall ==
  ASSUME NEW L \in Nat \ {0}, NEW x \in 0..(L - 1)
  PROVE  x % L = x
OBVIOUS

LEMMA ModWrap ==
  ASSUME NEW L \in Nat \ {0}, NEW x \in L..(2 * L - 1)
  PROVE  x % L = x - L
OBVIOUS

LEMMA SlotIs ==
  ASSUME TypeOK, NEW k \in 1..recentUpdatesLen
  PROVE  Slot(k) = IF k <= recentUpdatesPtr THEN recentUpdatesPtr - k
                   ELSE recentUpdatesPtr + recentUpdatesLen - k
<1>0. recentUpdatesLen \in Nat \ {0} /\ recentUpdatesPtr \in 0..(recentUpdatesLen - 1)
  BY EventHandlerAssumption DEF TypeOK
<1>1. CASE k <= recentUpdatesPtr
  <2>1. recentUpdatesPtr + recentUpdatesLen - k \in recentUpdatesLen..(2 * recentUpdatesLen - 1)
    BY <1>0, <1>1
  <2>2. QED
    BY <1>0, <1>1, <2>1, ModWrap DEF Slot
<1>2. CASE ~(k <= recentUpdatesPtr)
  <2>1. recentUpdatesPtr + recentUpdatesLen - k \in 0..(recentUpdatesLen - 1)
    BY <1>0, <1>2
  <2>2. QED
    BY <1>0, <1>2, <2>1, ModSmall DEF Slot
<1>3. QED
  BY <1>1, <1>2

LEMMA PtrIs ==
  ASSUME TypeOK
  PROVE  /\ PtrAfter = IF recentUpdatesPtr = recentUpdatesLen - 1 THEN 0 ELSE recentUpdatesPtr + 1
         /\ PtrAfter \in 0..(recentUpdatesLen - 1)
<1>0. recentUpdatesLen \in Nat \ {0} /\ recentUpdatesPtr \in 0..(recentUpdatesLen - 1)
  BY EventHandlerAssumption DEF TypeOK
<1>1. CASE recentUpdatesPtr = recentUpdatesLen - 1
  <2>1. recentUpdatesPtr + 1 \in recentUpdatesLen..(2 * recentUpdatesLen - 1)
    BY <1>0, <1>1
  <2>2. QED
    BY <1>0, <1>1, <2>1, ModWrap DEF PtrAfter
<1>2. CASE recentUpdatesPtr # recentUpdatesLen - 1
  <2>1. recentUpdatesPtr + 1 \in 0..(recentUpdatesLen - 1)
    BY <1>0, <1>2
  <2>2. QED
    BY <1>0, <1>2, <2>1, ModSmall DEF PtrAfter
<1>3. QED
  BY <1>1, <1>2
-----------------------------------------------------------------------------
(* The parts left are the last ones of the update being handled.           *)
TodoInv ==
    /\ todo # <<>> => msg \in Updates
    /\ msg \in Updates =>
         /\ Len(todo) <= Len(msg.parts)
         /\ \A i \in 1..Len(todo) : todo[i] = msg.parts[Len(msg.parts) - Len(todo) + i]

LEMMA PartsType ==
  ASSUME NEW u \in Updates
  PROVE  /\ u.parts \in Seq(Ids)
         /\ \A i, j \in 1..Len(u.parts) : u.parts[i] \in Messages => u.parts[j] \in Messages
<1>1. CASE u.parts \in Seq(Conversations)
  <2>1. u.parts \in Seq(Ids)
    BY <1>1, SeqMonotonic DEF Ids
  <2>2. \A i \in 1..Len(u.parts) : u.parts[i] \in Conversations
    BY <1>1, ElementOfSeq
  <2>3. QED
    BY <2>1, <2>2, EventHandlerAssumption
<1>2. CASE u.parts \in Seq(Messages)
  <2>1. u.parts \in Seq(Ids)
    BY <1>2, SeqMonotonic DEF Ids
  <2>2. \A i \in 1..Len(u.parts) : u.parts[i] \in Messages
    BY <1>2, ElementOfSeq
  <2>3. QED
    BY <2>1, <2>2
<1>3. QED
  BY <1>1, <1>2, EventHandlerAssumption

(* What an iteration of the loop over the parts does to them.              *)
LEMMA HeadTail ==
  ASSUME TypeOK, todo # <<>>
  PROVE  /\ Head(todo) = todo[1] /\ Head(todo) \in Ids
         /\ Tail(todo) \in Seq(Ids) /\ Len(todo) \in Nat \ {0}
         /\ Len(Tail(todo)) = Len(todo) - 1
         /\ \A i \in 1..Len(Tail(todo)) : Tail(todo)[i] = todo[i + 1]
<1>1. todo \in Seq(Ids)
  BY DEF TypeOK
<1>2. QED
  BY <1>1, HeadTailProperties, EmptySeq

LEMMA TypeInit == Init => TypeOK /\ TodoInv
<1> SUFFICES ASSUME Init PROVE TypeOK /\ TodoInv
  OBVIOUS
<1>1. recentUpdates \in [0..(recentUpdatesLen - 1) -> Items \cup {NoItem}]
  BY DEF Init
<1>2. recentUpdatesPtr \in 0..(recentUpdatesLen - 1)
  BY EventHandlerAssumption DEF Init
<1>3. todo \in Seq(Ids)
  BY EmptySeq DEF Init
<1>4. TypeOK
  BY <1>1, <1>2, <1>3 DEF Init, TypeOK
<1>5. TodoInv
  BY EventHandlerAssumption DEF Init, TodoInv
<1>6. QED
  BY <1>4, <1>5

LEMMA CountTypes ==
  ASSUME TypeOK, CountDataEvent
  PROVE  /\ skipCount' \in Nat /\ backlog' \in Nat /\ uncounted' \in Nat /\ freshOld' \in Nat
         /\ isOld' \in BOOLEAN /\ wasOld' \in BOOLEAN
BY DEF TypeOK, CountDataEvent, SkipCountAfter, MarkedOld

LEMMA TypeStep ==
  ASSUME TypeOK, TodoInv, [Next]_vars
  PROVE  TypeOK' /\ TodoInv'
<1>1. CASE UNCHANGED vars
  BY <1>1 DEF vars, ring, stream, handling, TypeOK, TodoInv
<1>2. ASSUME NEW n \in 0..MaxSkip, StartupAck(n)
      PROVE  TypeOK' /\ TodoInv'
  BY <1>2, EventHandlerAssumption DEF StartupAck, ring, handling, TypeOK, TodoInv
<1>3. CASE OldUncounted
  BY <1>3 DEF OldUncounted, ring, handling, TypeOK, TodoInv
<1>4. CASE PlainEvent
  <2>1. todo = <<>> /\ todo' = todo /\ msg' = NoUpdate /\ UNCHANGED <<ring, view, shown>>
    BY <1>4 DEF PlainEvent, CountDataEvent
  <2>2. TypeOK'
    BY <1>4, <2>1, CountTypes DEF PlainEvent, TypeOK, ring
  <2>3. QED
    BY <2>1, <2>2, EventHandlerAssumption DEF TodoInv
<1>5. ASSUME NEW u \in Updates, UpdateEvent(u)
      PROVE  TypeOK' /\ TodoInv'
  <2>1. todo' = u.parts /\ msg' = u /\ UNCHANGED <<ring, view, shown>>
    BY <1>5 DEF UpdateEvent
  <2>2. todo' \in Seq(Ids)
    BY <2>1, PartsType
  <2>3. TypeOK'
    BY <1>5, <2>1, <2>2, CountTypes DEF UpdateEvent, TypeOK, ring
  <2>4. Len(todo') \in Nat
    BY <2>2, LenProperties
  <2>5. TodoInv'
    BY <2>1, <2>4 DEF TodoInv
  <2>6. QED
    BY <2>3, <2>5
<1>6. CASE HandlePart
  <2>0. todo # <<>> /\ msg \in Updates /\ UNCHANGED <<msg, isOld, wasOld, stream>>
    BY <1>6 DEF HandlePart, TodoInv
  <2>1. /\ Head(todo) \in Ids /\ Tail(todo) \in Seq(Ids) /\ Len(todo) \in Nat \ {0}
        /\ Len(Tail(todo)) = Len(todo) - 1
        /\ \A i \in 1..Len(Tail(todo)) : Tail(todo)[i] = todo[i + 1]
    BY <2>0, HeadTail
  <2>2. Len(msg.parts) \in Nat
    BY <2>0, PartsType, LenProperties
  <2>3. CASE todo' = <<>> /\ UNCHANGED <<ring, view, shown>>
    <3>1. todo' \in Seq(Ids) /\ Len(todo') = 0
      BY <2>3, EmptySeq
    <3>2. QED
      BY <2>0, <2>2, <2>3, <3>1 DEF TypeOK, TodoInv, ring, stream
  <2>4. CASE /\ Remember(<<Head(todo), msg>>) /\ todo' = Tail(todo)
             /\ IF Forwarded(Head(todo))
                THEN /\ view' = [view EXCEPT ![Head(todo)] = msg]
                     /\ shown' = shown \cup {<<Head(todo), msg>>}
                ELSE UNCHANGED <<view, shown>>
    <3>1. <<Head(todo), msg>> \in Items
      BY <2>0, <2>1 DEF Items
    <3>2. /\ recentUpdates' \in [0..(recentUpdatesLen - 1) -> Items \cup {NoItem}]
          /\ recentUpdatesPtr' \in 0..(recentUpdatesLen - 1)
      BY <2>4, <3>1, PtrIs DEF TypeOK, Remember
    <3>3. view' \in [Ids -> Updates \cup {NoUpdate}] /\ shown' \subseteq Items
      BY <2>0, <2>1, <2>4, <3>1 DEF TypeOK
    <3>4. TypeOK'
      BY <2>0, <2>1, <2>4, <3>2, <3>3 DEF TypeOK, stream
    <3>5. TodoInv'
      BY <2>0, <2>1, <2>2, <2>4 DEF TodoInv
    <3>6. QED
      BY <3>4, <3>5
  <2>5. QED
    BY <1>6, <2>3, <2>4 DEF HandlePart
<1>7. QED
  BY <1>1, <1>2, <1>3, <1>4, <1>5, <1>6 DEF Next

(* The state of the event handler keeps its types.                         *)
THEOREM TypeCorrect == Spec => [](TypeOK /\ TodoInv)
BY TypeInit, TypeStep, PTL DEF Spec
-----------------------------------------------------------------------------
(* Remembering an item moves every other one a place further from the      *)
(* front of the ring.                                                      *)
LEMMA RingShifts ==
  ASSUME TypeOK, TypeOK', NEW item, Remember(item)
  PROVE  /\ Newest(1)' = item
         /\ \A k \in 2..recentUpdatesLen : Newest(k)' = Newest(k - 1)
<1>0. recentUpdatesLen \in Nat \ {0} /\ recentUpdatesPtr \in 0..(recentUpdatesLen - 1)
  BY EventHandlerAssumption DEF TypeOK
<1>1. recentUpdatesPtr' = IF recentUpdatesPtr = recentUpdatesLen - 1 THEN 0 ELSE recentUpdatesPtr + 1
  BY PtrIs DEF Remember
<1>2. ASSUME NEW k \in 1..recentUpdatesLen
      PROVE  Slot(k)' = IF k <= recentUpdatesPtr' THEN recentUpdatesPtr' - k
                        ELSE recentUpdatesPtr' + recentUpdatesLen - k
  <2>1. CASE k <= recentUpdatesPtr'
    <3>1. recentUpdatesPtr' + recentUpdatesLen - k \in recentUpdatesLen..(2 * recentUpdatesLen - 1)
      BY <1>0, <1>1, <1>2, <2>1
    <3>2. QED
      BY <1>0, <2>1, <3>1, <1>1, <1>2, ModWrap DEF Slot
  <2>2. CASE ~(k <= recentUpdatesPtr')
    <3>1. recentUpdatesPtr' + recentUpdatesLen - k \in 0..(recentUpdatesLen - 1)
      BY <1>0, <1>1, <1>2, <2>2
    <3>2. QED
      BY <1>0, <2>2, <3>1, <1>1, <1>2, ModSmall DEF Slot
  <2>3. QED
    BY <2>1, <2>2
<1>3. Slot(1)' = recentUpdatesPtr
  BY <1>0, <1>1, <1>2
<1>4. Newest(1)' = item
  BY <1>0, <1>3 DEF Newest, Remember, TypeOK
<1>5. ASSUME NEW k \in 2..recentUpdatesLen
      PROVE  Newest(k)' = Newest(k - 1)
  <2>1. k - 1 \in 1..recentUpdatesLen /\ k \in 1..recentUpdatesLen
    BY <1>0
  <2>2. Slot(k - 1) = IF k - 1 <= recentUpdatesPtr THEN recentUpdatesPtr - (k - 1)
                      ELSE recentUpdatesPtr + recentUpdatesLen - (k - 1)
    BY <2>1, SlotIs
  <2>3. Slot(k)' = Slot(k - 1) /\ Slot(k - 1) # recentUpdatesPtr /\ Slot(k - 1) \in 0..(recentUpdatesLen - 1)
    BY <1>0, <1>1, <1>2, <1>5, <2>1, <2>2
  <2>4. QED
    BY <2>3 DEF Newest, Remember, TypeOK
<1>6. QED
  BY <1>4, <1>5

(* The ring as the filter sees it.                                         *)
recent == [k \in 1..recentUpdatesLen |-> Newest(k)]

LEMMA RecentSeq ==
  ASSUME TypeOK
  PROVE  recent \in Seq(Items \cup {NoItem}) /\ Len(recent) = recentUpdatesLen
<1>0. recentUpdatesLen \in Nat \ {0} /\ recentUpdatesPtr \in 0..(recentUpdatesLen - 1)
  BY EventHandlerAssumption DEF TypeOK
<1>1. \A k \in 1..recentUpdatesLen : Newest(k) \in Items \cup {NoItem}
  <2>1. \A k \in 1..recentUpdatesLen : Slot(k) \in 0..(recentUpdatesLen - 1)
    BY <1>0, SlotIs
  <2>2. QED
    BY <2>1 DEF Newest, TypeOK
<1>2. recent \in [1..recentUpdatesLen -> Items \cup {NoItem}]
  BY <1>1 DEF recent
<1>3. QED
  BY <1>0, <1>2, LenProperties, SeqDef

(* Letting an update through is remembering it.                            *)
LEMMA RememberRefines ==
  ASSUME TypeOK, TypeOK', NEW item \in Items, Remember(item)
  PROVE  recent' = <<item>> \o SubSeq(recent, 1, recentUpdatesLen - 1)
<1> DEFINE older == SubSeq(recent, 1, recentUpdatesLen - 1)
           new == <<item>> \o older
<1>0. recentUpdatesLen \in Nat \ {0}
  BY EventHandlerAssumption
<1>1. recent \in Seq(Items \cup {NoItem}) /\ Len(recent) = recentUpdatesLen
  BY RecentSeq
<1>2. \A i \in 1..(recentUpdatesLen - 1) : recent[i] \in Items \cup {NoItem}
  BY <1>0, <1>1, ElementOfSeq
<1>3. /\ older \in Seq(Items \cup {NoItem})
      /\ Len(older) = recentUpdatesLen - 1
      /\ \A i \in 1..(recentUpdatesLen - 1) : older[i] = recent[i]
  BY <1>0, <1>2, SubSeqProperties
<1>4. <<item>> \in Seq(Items \cup {NoItem}) /\ Len(<<item>>) = 1 /\ <<item>>[1] = item
  OBVIOUS
<1>5. /\ new \in Seq(Items \cup {NoItem}) /\ Len(new) = recentUpdatesLen
      /\ \A i \in 1..recentUpdatesLen : new[i] = IF i <= 1 THEN item ELSE older[i - 1]
  BY <1>0, <1>3, <1>4, ConcatProperties
<1>6. \A i \in 1..recentUpdatesLen : new[i] = Newest(i)'
  <2>1. ASSUME NEW i \in 1..recentUpdatesLen
        PROVE  new[i] = Newest(i)'
    <3>1. CASE i = 1
      BY <1>5, <3>1, RingShifts
    <3>2. CASE i \in 2..recentUpdatesLen
      <4>1. new[i] = recent[i - 1]
        BY <1>0, <1>3, <1>5, <3>2
      <4>2. recent[i - 1] = Newest(i - 1)
        BY <1>0, <3>2 DEF recent
      <4>3. QED
        BY <3>2, <4>1, <4>2, RingShifts
    <3>3. QED
      BY <1>0, <3>1, <3>2
  <2>2. QED
    BY <2>1
<1>7. recent' = [k \in 1..recentUpdatesLen |-> Newest(k)']
  BY DEF recent
<1>8. new = [k \in 1..recentUpdatesLen |-> new[k]]
  BY <1>0, <1>5, LenProperties
<1>9. QED
  BY <1>6, <1>7, <1>8

LEMMA FilterStep ==
  ASSUME TypeOK, TypeOK', TodoInv, [Next]_vars
  PROVE  [Filter!Next]_recent
<1>1. CASE UNCHANGED ring
  BY <1>1 DEF ring, recent, Newest, Slot
<1>2. CASE HandlePart /\ ~UNCHANGED ring
  <2>1. todo # <<>> /\ msg \in Updates /\ ~Duplicate(<<Head(todo), msg>>) /\ Remember(<<Head(todo), msg>>)
    BY <1>2 DEF HandlePart, TodoInv
  <2>2. <<Head(todo), msg>> \in Items
    BY <2>1, HeadTail DEF Items
  <2>3. ~Filter!Repeats(<<Head(todo), msg>>)
    <3> SUFFICES ASSUME Filter!Repeats(<<Head(todo), msg>>)
                 PROVE  Duplicate(<<Head(todo), msg>>)
      BY <2>1
    <3>0. recentUpdatesLen \in Nat
      BY EventHandlerAssumption
    <3>1. PICK k \in 1..recentUpdatesLen :
              /\ recent[k] = <<Head(todo), msg>>
              /\ \A j \in 1..(k - 1) : recent[j] # NoItem => recent[j][1] # <<Head(todo), msg>>[1]
      BY DEF Filter!Repeats, recent
    <3>2. recent[k] = Newest(k) /\ \A j \in 1..(k - 1) : recent[j] = Newest(j)
      BY <3>0 DEF recent
    <3>3. Newest(k) = <<Head(todo), msg>>
      BY <3>1, <3>2
    <3>4. \A j \in 1..(k - 1) : Newest(j) # NoItem => Newest(j)[1] # <<Head(todo), msg>>[1]
      BY <3>1, <3>2
    <3>5. QED
      BY <3>3, <3>4 DEF Duplicate
  <2>4. Filter!LetThrough(<<Head(todo), msg>>)
    BY <2>1, <2>2, <2>3, RememberRefines DEF Filter!LetThrough, recent
  <2>5. QED
    BY <2>2, <2>4 DEF Filter!Next
<1>3. QED
  BY <1>1, <1>2 DEF Next, vars, StartupAck, OldUncounted, PlainEvent, UpdateEvent

(* The ring with its wrapping pointer implements the filter: the last      *)
(* recentUpdatesLen updates let through, and nothing held back but repeats *)
(* of the newest word on a thing (deduplicateHash, deduplicateUpdate).     *)
THEOREM FilterThm == Spec => FilterSpec
<1>1. Init => Filter!Init
  <2> SUFFICES ASSUME Init PROVE recent = [k \in 1..recentUpdatesLen |-> NoItem]
    BY DEF Filter!Init, recent
  <2>1. \A k \in 1..recentUpdatesLen : Newest(k) = NoItem
    <3>1. TypeOK
      BY TypeInit
    <3>2. \A k \in 1..recentUpdatesLen : Slot(k) \in 0..(recentUpdatesLen - 1)
      BY <3>1, SlotIs, EventHandlerAssumption DEF TypeOK
    <3>3. QED
      BY <3>2 DEF Init, Newest
  <2>2. QED
    BY <2>1 DEF recent
<1>2. TypeOK /\ TypeOK' /\ TodoInv /\ [Next]_vars => [Filter!Next]_recent
  BY FilterStep
<1>3. QED
  BY <1>1, <1>2, TypeCorrect, PTL DEF Spec, FilterSpec, Filter!Spec, recent
-----------------------------------------------------------------------------
(* skipCount runs ahead of the backlog by the old messages that did not    *)
(* count it down, less the new ones that did; and no new message comes     *)
(* before the backlog is through.                                          *)
SkipCountInv ==
    /\ skipCount + freshOld = backlog + uncounted
    /\ backlog > 0 => freshOld = 0
    /\ wasOld => isOld

LEMMA SkipCountStep ==
  ASSUME TypeOK, SkipCountInv, [Next]_vars
  PROVE  SkipCountInv'
<1>0. skipCount \in Nat /\ backlog \in Nat /\ uncounted \in Nat /\ freshOld \in Nat
  BY DEF TypeOK
<1>1. CASE UNCHANGED <<stream, isOld, wasOld>>
  BY <1>1 DEF stream, SkipCountInv
<1>2. ASSUME NEW n \in 0..MaxSkip, StartupAck(n)
      PROVE  SkipCountInv'
  BY <1>2, EventHandlerAssumption DEF StartupAck, handling, SkipCountInv
<1>3. CASE OldUncounted
  BY <1>0, <1>3 DEF OldUncounted, handling, SkipCountInv
<1>4. CASE CountDataEvent
  <2>1. CASE backlog > 0
    <3>1. freshOld = 0 /\ skipCount = backlog + uncounted /\ skipCount > 0
      BY <1>0, <2>1 DEF SkipCountInv
    <3>2. skipCount' = skipCount - 1 /\ backlog' = backlog - 1 /\ freshOld' = freshOld /\ uncounted' = uncounted
      BY <1>0, <1>4, <2>1, <3>1 DEF CountDataEvent, SkipCountAfter
    <3>3. isOld' = MarkedOld /\ MarkedOld
      BY <1>4, <3>1 DEF CountDataEvent, MarkedOld
    <3>4. isOld'
      BY <3>3
    <3>5. QED
      BY <1>0, <3>1, <3>2, <3>4 DEF SkipCountInv
  <2>2. CASE backlog = 0
    <3>1. backlog' = 0 /\ uncounted' = uncounted
      BY <1>4, <2>2 DEF CountDataEvent
    <3>2. ~wasOld'
      <4>1. wasOld' = (backlog > 0)
        BY <1>4 DEF CountDataEvent
      <4>2. ~(backlog > 0)
        BY <2>2
      <4>3. QED
        BY <4>1, <4>2
    <3>3. skipCount' + freshOld' = skipCount + freshOld
      BY <1>0, <1>4, <2>2 DEF CountDataEvent, SkipCountAfter
    <3>4. QED
      BY <1>0, <2>2, <3>1, <3>2, <3>3 DEF SkipCountInv
  <2>3. QED
    BY <1>0, <2>1, <2>2
<1>5. QED
  BY <1>1, <1>2, <1>3, <1>4 DEF Next, vars, handling, PlainEvent, UpdateEvent, HandlePart

(* Every message of the backlog is marked old, and no more new messages    *)
(* are marked old than messages of the backlog failed to count (the        *)
(* skipCount of HandleRPCMsg).                                             *)
THEOREM OldMarkedOldThm == Spec => []OldMarkedOld
<1>1. Init => SkipCountInv
  BY DEF Init, SkipCountInv
<1>2. TypeOK /\ SkipCountInv /\ [Next]_vars => SkipCountInv'
  BY SkipCountStep
<1>3. TypeOK /\ SkipCountInv => OldMarkedOld
  BY DEF TypeOK, SkipCountInv, OldMarkedOld
<1>4. QED
  BY <1>1, <1>2, <1>3, TypeCorrect, PTL DEF Spec
-----------------------------------------------------------------------------
(* The newest entry about a message is what the bridge was last told of it.*)
NewestShown ==
    \A id \in Messages, u \in Updates : Duplicate(<<id, u>>) => view[id] = u

(* Once the first part is dealt with, the bridge knows it.                 *)
FirstShown ==
    \A u \in Updates :
        msg = u /\ Len(todo) < Len(u.parts) /\ u.parts[1] \in Messages => view[u.parts[1]] = u

InRing(item) == \E k \in 0..(recentUpdatesLen - 1) : recentUpdates[k] = item

(* The first part of an event the loop has not reached; 1 when it is not   *)
(* in the loop.                                                            *)
Reached(u) == IF u = msg /\ todo # <<>> THEN Len(u.parts) - Len(todo) + 1 ELSE 1

(* If a part is in the ring, except for those the loop has just put there, *)
(* then every part from there on has been forwarded: a repeat hides nothing*)
(* when it ends the loop.                                                  *)
RestShown ==
    \A u \in Updates : \A i \in 1..Len(u.parts) :
        u.parts[i] \in Messages /\ i >= Reached(u) /\ InRing(<<u.parts[i], u>>) =>
            \A j \in i..Len(u.parts) : <<u.parts[j], u>> \in shown

(* The parts the loop has dealt with have been forwarded.                  *)
HandledShown ==
    \A u \in Updates : \A i \in 1..Len(u.parts) :
        msg = u /\ u.parts[i] \in Messages /\ (todo = <<>> \/ i < Reached(u)) =>
            <<u.parts[i], u>> \in shown

ShownInv == NewestShown /\ FirstShown /\ RestShown /\ HandledShown

LEMMA DuplicateInRing ==
  ASSUME TypeOK, NEW item, Duplicate(item)
  PROVE  InRing(item)
<1>0. recentUpdatesLen \in Nat \ {0} /\ recentUpdatesPtr \in 0..(recentUpdatesLen - 1)
  BY EventHandlerAssumption DEF TypeOK
<1>1. PICK k \in 1..recentUpdatesLen : Newest(k) = item
  BY DEF Duplicate
<1>2. Slot(k) \in 0..(recentUpdatesLen - 1)
  BY <1>0, SlotIs
<1>3. QED
  BY <1>1, <1>2 DEF Newest, InRing

LEMMA ShownInit ==
  ASSUME Init
  PROVE  ShownInv
<1>0. TypeOK
  BY TypeInit
<1>1. \A id \in Messages, u \in Updates : ~InRing(<<id, u>>)
  <2>1. \A id \in Messages, u \in Updates : <<id, u>> \in Items
    BY DEF Items, Ids
  <2>2. QED
    BY <2>1, EventHandlerAssumption DEF Init, InRing
<1>2. NewestShown
  BY <1>0, <1>1, DuplicateInRing DEF NewestShown
<1>3. RestShown
  BY <1>1 DEF RestShown
<1>4. FirstShown /\ HandledShown
  BY EventHandlerAssumption DEF Init, FirstShown, HandledShown
<1>5. QED
  BY <1>2, <1>3, <1>4 DEF ShownInv

(* Between events the ring, the bridge's view and what it was shown stand  *)
(* still.                                                                  *)
LEMMA ShownBetween ==
  ASSUME TypeOK, ShownInv, todo = <<>>, UNCHANGED <<ring, view, shown>>,
         \/ todo' = todo /\ msg' \in {msg, NoUpdate}
         \/ msg' \in Updates /\ todo' = msg'.parts
  PROVE  ShownInv'
<1>0. \A u \in Updates : u.parts \in Seq(Ids) /\ Len(u.parts) \in Nat
  BY PartsType, LenProperties
<1>1. NewestShown'
  BY DEF ShownInv, NewestShown, Duplicate, Newest, Slot, ring
<1>2. FirstShown'
  BY <1>0, EventHandlerAssumption DEF ShownInv, FirstShown
<1>3. \A u \in Updates : Reached(u) = 1 /\ Reached(u)' = 1
  BY <1>0 DEF Reached
<1>4. RestShown'
  BY <1>3 DEF ShownInv, RestShown, InRing, ring
<1>5. HandledShown'
  <2> SUFFICES ASSUME NEW u \in Updates, NEW i \in 1..Len(u.parts), msg' = u,
                      u.parts[i] \in Messages, todo' = <<>> \/ i < Reached(u)'
               PROVE  <<u.parts[i], u>> \in shown'
    BY DEF HandledShown
  <2>1. todo' = <<>>
    BY <1>0, <1>3
  <2>2. u.parts # <<>>
    BY <1>0, EmptySeq
  <2>3. msg = u
    BY <2>1, <2>2, EventHandlerAssumption
  <2>4. QED
    BY <2>3 DEF ShownInv, HandledShown
<1>6. QED
  BY <1>1, <1>2, <1>4, <1>5 DEF ShownInv

LEMMA ShownHandlePart ==
  ASSUME TypeOK, TypeOK', TodoInv, ShownInv, HandlePart
  PROVE  ShownInv'
<1> DEFINE L == Len(msg.parts)
           at == L - Len(todo) + 1
           h == msg.parts[at]
<1>0. todo # <<>> /\ msg \in Updates /\ msg' = msg
  BY DEF HandlePart, TodoInv
<1>1. /\ L \in Nat \ {0} /\ Len(todo) \in 1..L /\ at \in 1..L /\ Head(todo) = h /\ h \in Ids
      /\ Len(Tail(todo)) = Len(todo) - 1 /\ Tail(todo) \in Seq(Ids)
  <2>1. L \in Nat
    BY <1>0, PartsType, LenProperties
  <2>2. /\ Len(todo) \in Nat \ {0} /\ Len(todo) <= L /\ Head(todo) = todo[1] /\ Head(todo) \in Ids
        /\ Len(Tail(todo)) = Len(todo) - 1 /\ Tail(todo) \in Seq(Ids)
    BY <1>0, HeadTail DEF TodoInv
  <2>3. todo[1] = h
    BY <1>0, <2>1, <2>2 DEF TodoInv
  <2>4. QED
    BY <2>1, <2>2, <2>3
<1>2. \A j \in 1..L : msg.parts[j] \in Messages <=> h \in Messages
  BY <1>0, <1>1, PartsType
<1>3. Reached(msg) = at /\ \A u \in Updates : u # msg => Reached(u) = 1 /\ Reached(u)' = 1
  BY <1>0 DEF Reached
<1>4. CASE Duplicate(<<h, msg>>) /\ todo' = <<>> /\ UNCHANGED <<ring, view, shown>>
  <2>1. NewestShown'
    BY <1>4 DEF ShownInv, NewestShown, Duplicate, Newest, Slot, ring
  <2>2. FirstShown'
    <3>1. ASSUME msg.parts[1] \in Messages
          PROVE  view[msg.parts[1]] = msg
      <4>1. CASE Len(todo) < L
        BY <1>0, <3>1, <4>1 DEF ShownInv, FirstShown
      <4>2. CASE Len(todo) = L
        <5>1. h = msg.parts[1]
          BY <1>1, <4>2
        <5>2. QED
          BY <1>0, <1>4, <3>1, <5>1 DEF ShownInv, NewestShown
      <4>3. QED
        BY <1>1, <4>1, <4>2
    <3>2. QED
      BY <1>0, <1>4, <3>1 DEF FirstShown
  <2>3. ASSUME NEW j \in 1..L, h \in Messages
        PROVE  <<msg.parts[j], msg>> \in shown
    <3>1. CASE j < at
      BY <1>0, <1>2, <1>3, <2>3, <3>1 DEF ShownInv, HandledShown
    <3>2. CASE j >= at
      <4>1. InRing(<<h, msg>>)
        BY <1>4, DuplicateInRing
      <4>2. \A i \in at..L : <<msg.parts[i], msg>> \in shown
        <5>1. at \in 1..Len(msg.parts) /\ msg.parts[at] \in Messages /\ at >= Reached(msg)
          BY <1>1, <1>3, <2>3
        <5>2. QED
          BY <1>0, <4>1, <5>1 DEF ShownInv, RestShown
      <4>3. QED
        BY <1>1, <3>2, <4>2
    <3>3. QED
      BY <1>1, <3>1, <3>2
  <2>4. HandledShown'
    BY <1>0, <1>2, <1>4, <2>3 DEF HandledShown
  <2>5. RestShown'
    <3> SUFFICES ASSUME NEW u \in Updates, NEW i \in 1..Len(u.parts), u.parts[i] \in Messages,
                        i >= Reached(u)', InRing(<<u.parts[i], u>>)', NEW j \in i..Len(u.parts)
                 PROVE  <<u.parts[j], u>> \in shown'
      BY DEF RestShown
    <3>0. shown' = shown /\ InRing(<<u.parts[i], u>>)
      BY <1>4 DEF InRing, ring
    <3>1. CASE u # msg
      BY <1>3, <3>0, <3>1 DEF ShownInv, RestShown
    <3>2. CASE u = msg
      <4>1. j \in 1..L /\ h \in Messages
        BY <1>1, <1>2, <3>2
      <4>2. QED
        BY <2>3, <3>0, <3>2, <4>1
    <3>3. QED
      BY <3>1, <3>2
  <2>6. QED
    BY <2>1, <2>2, <2>4, <2>5 DEF ShownInv
<1>5. CASE /\ Remember(<<h, msg>>) /\ todo' = Tail(todo)
           /\ IF Forwarded(h)
              THEN /\ view' = [view EXCEPT ![h] = msg]
                   /\ shown' = shown \cup {<<h, msg>>}
              ELSE UNCHANGED <<view, shown>>
  <2>0. /\ \A id \in Ids : id # h => view'[id] = view[id]
        /\ shown \subseteq shown'
        /\ h \in Messages => view'[h] = msg /\ <<h, msg>> \in shown'
    <3>1. h \in Messages => Forwarded(h)
      BY EventHandlerAssumption DEF Forwarded
    <3>2. view \in [Ids -> Updates \cup {NoUpdate}]
      BY DEF TypeOK
    <3>3. QED
      BY <1>1, <1>5, <3>1, <3>2
  <2>1. NewestShown'
    <3> SUFFICES ASSUME NEW id \in Messages, NEW u \in Updates, Duplicate(<<id, u>>)'
                 PROVE  view'[id] = u
      BY DEF NewestShown
    <3>0. recentUpdatesLen \in Nat \ {0} /\ <<h, msg>> # NoItem
      BY <1>0, <1>1, EventHandlerAssumption DEF Items
    <3>1. PICK k \in 1..recentUpdatesLen :
              /\ Newest(k)' = <<id, u>>
              /\ \A j \in 1..(k - 1) : Newest(j)' # NoItem => Newest(j)'[1] # id
      BY DEF Duplicate
    <3>2. /\ Newest(1)' = <<h, msg>>
          /\ \A n \in 2..recentUpdatesLen : Newest(n)' = Newest(n - 1)
      BY <1>5, RingShifts
    <3>3. CASE k = 1
      BY <2>0, <3>1, <3>2, <3>3
    <3>4. CASE k \in 2..recentUpdatesLen
      <4>1. id # h
        BY <3>0, <3>1, <3>2, <3>4
      <4>2. Newest(k - 1) = <<id, u>> /\ k - 1 \in 1..recentUpdatesLen
        BY <3>0, <3>1, <3>2, <3>4
      <4>3. ASSUME NEW j \in 1..((k - 1) - 1), Newest(j) # NoItem
            PROVE  Newest(j)[1] # id
        <5>1. j + 1 \in 2..recentUpdatesLen /\ j + 1 \in 1..(k - 1) /\ (j + 1) - 1 = j
          BY <3>0, <3>4
        <5>2. Newest(j + 1)' = Newest(j)
          BY <3>2, <5>1
        <5>3. QED
          BY <3>1, <4>3, <5>1, <5>2
      <4>4. Duplicate(<<id, u>>)
        BY <4>2, <4>3 DEF Duplicate
      <4>5. QED
        BY <2>0, <4>1, <4>4 DEF ShownInv, NewestShown, Ids
    <3>5. QED
      BY <3>0, <3>3, <3>4
  <2>2. FirstShown'
    <3>1. ASSUME msg.parts[1] \in Messages
          PROVE  view'[msg.parts[1]] = msg
      <4>1. CASE h = msg.parts[1]
        BY <2>0, <3>1, <4>1
      <4>2. CASE h # msg.parts[1]
        <5>1. Len(todo) < L
          BY <1>1, <4>2
        <5>2. view[msg.parts[1]] = msg
          BY <1>0, <3>1, <5>1 DEF ShownInv, FirstShown
        <5>3. QED
          BY <2>0, <3>1, <4>2, <5>2 DEF Ids
      <4>3. QED
        BY <4>1, <4>2
    <3>2. QED
      BY <1>0, <3>1 DEF FirstShown
  <2>3. todo' # <<>> => Reached(msg)' = at + 1
    BY <1>0, <1>1, <1>5 DEF Reached
  <2>4. todo' = <<>> => at = L
    <3>1. Len(todo') = Len(todo) - 1
      BY <1>1, <1>5
    <3>2. ASSUME todo' = <<>>
          PROVE  Len(todo') = 0
      BY <3>2, EmptySeq
    <3>3. L \in Nat /\ Len(todo) \in Nat
      BY <1>1
    <3>4. ASSUME Len(todo') = 0
          PROVE  L - Len(todo) + 1 = L
      <4>1. \A m, n \in Nat : n - 1 = 0 => m - n + 1 = m
        OBVIOUS
      <4>2. Len(todo) - 1 = 0
        BY <3>1, <3>4
      <4>3. QED
        BY <3>3, <4>1, <4>2
    <3>5. QED
      BY <3>2, <3>4
  <2>5. ASSUME NEW j \in 1..at, h \in Messages
        PROVE  <<msg.parts[j], msg>> \in shown'
    <3>1. CASE j = at
      BY <2>0, <2>5, <3>1
    <3>2. CASE j < at
      <4>1. j \in 1..L /\ msg.parts[j] \in Messages
        BY <1>1, <1>2, <2>5
      <4>2. <<msg.parts[j], msg>> \in shown
        BY <1>0, <1>3, <3>2, <4>1 DEF ShownInv, HandledShown
      <4>3. QED
        BY <2>0, <4>2
    <3>3. QED
      BY <1>1, <3>1, <3>2
  <2>6. HandledShown'
    <3> SUFFICES ASSUME NEW i \in 1..L, msg.parts[i] \in Messages, todo' = <<>> \/ i < Reached(msg)'
                 PROVE  <<msg.parts[i], msg>> \in shown'
      BY <1>0 DEF HandledShown
    <3>1. i \in 1..at /\ h \in Messages
      BY <1>1, <1>2, <2>3, <2>4
    <3>2. QED
      BY <2>5, <3>1
  <2>7. RestShown'
    <3> SUFFICES ASSUME NEW u \in Updates, NEW i \in 1..Len(u.parts), u.parts[i] \in Messages,
                        i >= Reached(u)', InRing(<<u.parts[i], u>>)', NEW j \in i..Len(u.parts)
                 PROVE  <<u.parts[j], u>> \in shown'
      BY DEF RestShown
    <3>0. InRing(<<u.parts[i], u>>) \/ <<u.parts[i], u>> = <<h, msg>>
      BY <1>5 DEF InRing, Remember, TypeOK
    <3>1. CASE u # msg
      <4>1. i >= Reached(u) /\ InRing(<<u.parts[i], u>>)
        BY <1>3, <3>0, <3>1
      <4>2. <<u.parts[j], u>> \in shown
        BY <4>1 DEF ShownInv, RestShown
      <4>3. QED
        BY <2>0, <4>2
    <3>2. CASE u = msg /\ todo' = <<>>
      BY <1>1, <1>2, <2>4, <2>5, <3>2
    <3>3. CASE u = msg /\ todo' # <<>>
      <4>1. i >= at + 1
        <5>1. Reached(u)' = Reached(msg)'
          BY <1>0, <3>3 DEF Reached
        <5>2. QED
          BY <2>3, <3>3, <5>1
      <4>2. <<u.parts[i], u>> # <<h, msg>>
        BY <1>0, <1>1, <3>3, <4>1, DistinctParts
      <4>3. i >= Reached(u)
        BY <1>1, <1>3, <3>3, <4>1
      <4>4. <<u.parts[j], u>> \in shown
        BY <3>0, <4>2, <4>3 DEF ShownInv, RestShown
      <4>5. QED
        BY <2>0, <4>4
    <3>4. QED
      BY <3>1, <3>2, <3>3
  <2>8. QED
    BY <2>1, <2>2, <2>6, <2>7 DEF ShownInv
<1>6. QED
  BY <1>1, <1>4, <1>5 DEF HandlePart

LEMMA ShownStep ==
  ASSUME TypeOK, TypeOK', TodoInv, ShownInv, [Next]_vars
  PROVE  ShownInv'
<1>1. CASE UNCHANGED vars
  BY <1>1 DEF vars, ring, handling, ShownInv, NewestShown, Duplicate, Newest, Slot, FirstShown,
              RestShown, HandledShown, InRing, Reached
<1>2. ASSUME NEW n \in 0..MaxSkip, StartupAck(n)
      PROVE  ShownInv'
  BY <1>2, ShownBetween DEF StartupAck, handling
<1>3. CASE OldUncounted
  BY <1>3, ShownBetween DEF OldUncounted, handling
<1>4. CASE PlainEvent
  BY <1>4, ShownBetween DEF PlainEvent, CountDataEvent
<1>5. ASSUME NEW u \in Updates, UpdateEvent(u)
      PROVE  ShownInv'
  BY <1>5, ShownBetween DEF UpdateEvent, CountDataEvent
<1>6. CASE HandlePart
  BY <1>6, ShownHandlePart
<1>7. QED
  BY <1>1, <1>2, <1>3, <1>4, <1>5, <1>6 DEF Next

(* When an event about messages has been dealt with, the bridge's latest   *)
(* word on its first message is this event and each of its parts has been  *)
(* forwarded at some time, for every length of the ring: hiding repeats    *)
(* (deduplicateUpdate), and leaving the loop of HandleRPCMsg at the first  *)
(* of them, loses nothing when an event names no message twice.            *)
THEOREM NothingMissedThm == Spec => []NothingMissed
<1>1. Init => ShownInv
  BY ShownInit
<1>2. TypeOK /\ TypeOK' /\ TodoInv /\ ShownInv /\ [Next]_vars => ShownInv'
  BY ShownStep
<1>3. TypeOK /\ ShownInv => NothingMissed
  <2> SUFFICES ASSUME TypeOK, ShownInv, todo = <<>>, msg # NoUpdate
               PROVE  /\ msg.parts # <<>> => (msg.parts[1] \in Messages => view[msg.parts[1]] = msg)
                      /\ \A i \in 1..Len(msg.parts) :
                             msg.parts[i] \in Messages => <<msg.parts[i], msg>> \in shown
    BY DEF NothingMissed, BridgeIsCurrent, NothingSkipped
  <2>1. msg \in Updates
    BY DEF TypeOK
  <2>2. msg.parts # <<>> => Len(todo) < Len(msg.parts)
    BY <2>1, PartsType, EmptySeq, LenProperties
  <2>3. QED
    BY <2>1, <2>2 DEF ShownInv, FirstShown, HandledShown
<1>4. QED
  BY <1>1, <1>2, <1>3, TypeCorrect, PTL DEF Spec
============================================================================
