------------------------------ MODULE Backfill ------------------------------
(***************************************************************************)
(* Backward backfill of one chat: FetchMessages called page by page, from  *)
(* the oldest bridged message on, until a page brings nothing.  Messages   *)
(* are numbered in the phone's order; their timestamps count here only in  *)
(* milliseconds, the unit of a cursor.  The phone and bridgev2's loop are  *)
(* external: the phone sends the newest messages up to the cursor's, which *)
(* it may include or not.                                                  *)
(***************************************************************************)
EXTENDS Integers, FiniteSets, FiniteSetsExt

CONSTANTS
    History,    \* bound: messages of the chat
    PageSize    \* messages asked for at a time

ASSUME BackfillAssumption == History \in Nat /\ PageSize \in Nat \ {0}

VARIABLES
    millis,     \* millisecond of each message
    inclusive,  \* the phone sends the cursor's message again
    stored,     \* cursor kept between two pages: a message, or 0
    got,        \* how often each message was bridged
    cursors,    \* the cursors used: history
    ended       \* an empty page ended the backfill

backfillVars == <<millis, inclusive, stored, got, cursors, ended>>

Bridged == {m \in 1..History : got[m] > 0}

BackfillInit ==
    /\ millis \in {f \in [1..History -> 1..History] : \A i \in 2..History : f[i - 1] <= f[i]}
    /\ inclusive \in BOOLEAN
    /\ stored = 0 /\ cursors = {} /\ ended = FALSE
    /\ \E newest \in 1..History : got = [m \in 1..History |-> IF m >= newest THEN 1 ELSE 0]

(* The stored cursor counts only if it is older than the anchor's.         *)
UsedCursor(anchor) ==
    IF stored = 0 \/ millis[anchor] < millis[stored] THEN anchor ELSE stored

(* The phone's answer.                                                     *)
Page(cursor) ==
    LET before == {m \in 1..History : m < cursor \/ (inclusive /\ m = cursor)} IN
    {m \in before : Cardinality({k \in before : k > m}) < PageSize}

AllKept(page, cursor, anchor) == page  \* mutant: nothing is left out

(* What FetchMessages keeps of it.                                         *)
Kept(page, cursor, anchor) == {m \in page : millis[m] < millis[cursor] /\ m # anchor}

(* The cursor for the next page is the answer's, which is the oldest       *)
(* message's, or else made from that message.                              *)
CursorAfter(page) == Min(page)

FetchMessages ==
    LET anchor == Min(Bridged)
        cursor == UsedCursor(anchor)
        page == Page(cursor)
        kept == Kept(page, cursor, anchor)
    IN  /\ ~ended
        /\ got' = [m \in 1..History |-> IF m \in kept THEN got[m] + 1 ELSE got[m]]
        /\ cursors' = cursors \cup {cursor}
        /\ ended' = (kept = {})
        /\ stored' = IF kept = {} THEN stored ELSE CursorAfter(page)
        /\ UNCHANGED <<millis, inclusive>>

(* Backfill ends with the whole history bridged, each message once, except *)
(* for messages of the same millisecond as a cursor: FetchMessages takes   *)
(* them for newer ones.  (When a whole page is of one millisecond even     *)
(* older messages are missed, so pages are assumed larger than that.)      *)
BackfillComplete ==
    /\ \A m \in 1..History : got[m] <= 1
    /\ ended /\ (\A m \in 1..History : Cardinality({k \in 1..History : millis[k] = millis[m]}) < PageSize)
         => \A m \in 1..History : got[m] = 1 \/ millis[m] \in {millis[c] : c \in cursors}
=============================================================================
