---------------------------- MODULE UpdateFilter ----------------------------
(***************************************************************************)
(* What libgm's event de-duplication promises: it remembers the last       *)
(* Window updates it let through, newest first, and holds back an update   *)
(* exactly when the newest one remembered for the same thing is equal.     *)
(***************************************************************************)
EXTENDS Naturals, Sequences

CONSTANTS
    Items,   \* updates: pairs of a thing's ID and a content hash
    NoItem,  \* an entry not used yet
    Window   \* how many updates are remembered

VARIABLE recent

Init == recent = [k \in 1..Window |-> NoItem]

(* The newest entry for the thing is this very update.                     *)
Repeats(item) ==
    \E k \in 1..Window :
        /\ recent[k] = item
        /\ \A j \in 1..(k - 1) : recent[j] # NoItem => recent[j][1] # item[1]

LetThrough(item) ==
    /\ ~Repeats(item)
    /\ recent' = <<item>> \o SubSeq(recent, 1, Window - 1)

Next == \E item \in Items : LetThrough(item)

Spec == Init /\ [][Next]_recent
=============================================================================
