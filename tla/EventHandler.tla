---------------------------- MODULE EventHandler ----------------------------
(***************************************************************************)
(* libgm's handling of incoming updates in one long-poll reader: the ring  *)
(* of recent updates that hides repeats (recentUpdates), the count of old  *)
(* messages a new stream starts with (skipCount), and what of an update    *)
(* reaches the bridge's event handler.                                     *)
(*                                                                         *)
(* An update event carries parts, each about one conversation or message;  *)
(* its hash covers the whole event, so the event stands for it.  The       *)
(* server (external) may send any event again; the parts of one event are  *)
(* about different things.                                                 *)
(***************************************************************************)
EXTENDS Naturals, Sequences

CONSTANTS
    Conversations, Messages,  \* IDs of the things updates are about
    Updates,           \* conversation and message events, with field parts
    NoItem, NoUpdate,  \* an unused ring entry; nothing forwarded yet
    recentUpdatesLen,  \* length of the ring (8 in the code)
    MaxSkip            \* bound: the count a stream starts with

Ids == Conversations \cup Messages
Items == Ids \X Updates

ASSUME EventHandlerAssumption ==
    /\ Conversations \cap Messages = {}
    /\ \A u \in Updates : u.parts \in Seq(Conversations) \/ u.parts \in Seq(Messages)
    /\ NoItem \notin Items /\ NoUpdate \notin Updates
    /\ recentUpdatesLen \in Nat \ {0}
    /\ MaxSkip \in Nat

(* Of the server (external): an event does not name a thing twice.         *)
ASSUME DistinctParts ==
    \A u \in Updates : \A i, j \in 1..Len(u.parts) : u.parts[i] = u.parts[j] => i = j

VARIABLES
    recentUpdates,     \* the ring: items <<id, hash>>
    recentUpdatesPtr,  \* the entry to be overwritten next
    skipCount,         \* messages still to be treated as old
    backlog,           \* old messages the stream has yet to deliver
    uncounted,         \* old messages of it that did not count skipCount down
    freshOld,          \* new messages of it that did
    msg,               \* the update being handled
    todo,              \* its parts not handled yet
    isOld,             \* msg.IsOld
    wasOld,            \* whether it really was one of the backlog
    view,              \* the last update forwarded about each thing
    shown              \* every <<id, update>> ever forwarded

ring == <<recentUpdates, recentUpdatesPtr>>
stream == <<skipCount, backlog, uncounted, freshOld>>
handling == <<msg, todo, isOld, wasOld>>
vars == <<ring, stream, handling, view, shown>>

Init ==
    /\ recentUpdates = [i \in 0..(recentUpdatesLen - 1) |-> NoItem]
    /\ recentUpdatesPtr = 0
    /\ skipCount = 0 /\ backlog = 0 /\ uncounted = 0 /\ freshOld = 0
    /\ msg = NoUpdate /\ todo = <<>>
    /\ isOld = FALSE /\ wasOld = FALSE
    /\ view = [id \in Ids |-> NoUpdate]
    /\ shown = {}
-----------------------------------------------------------------------------
(* A new stream announces how many old messages it starts with.            *)
StartupAck(n) ==
    /\ todo = <<>>
    /\ skipCount' = n /\ backlog' = n
    /\ uncounted' = 0 /\ freshOld' = 0
    /\ UNCHANGED <<ring, handling, view, shown>>

(* HandleRPCMsg returns early, before skipCount, for an old message that   *)
(* answers a request, is about pairing or cannot be decoded.               *)
OldUncounted ==
    /\ todo = <<>> /\ backlog > 0
    /\ backlog' = backlog - 1
    /\ uncounted' = uncounted + 1
    /\ UNCHANGED <<skipCount, freshOld, ring, handling, view, shown>>

MarkedOldOffByOne == skipCount > 1  \* mutant

MarkedOld == skipCount > 0

SkipCountAfter == IF skipCount > 0 THEN skipCount - 1 ELSE 0

(* The DataEvent case of HandleRPCMsg; old messages come first.            *)
CountDataEvent ==
    /\ todo = <<>>
    /\ isOld' = MarkedOld
    /\ wasOld' = (backlog > 0)
    /\ skipCount' = SkipCountAfter
    /\ backlog' = IF backlog > 0 THEN backlog - 1 ELSE 0
    /\ freshOld' = IF backlog = 0 /\ skipCount > 0 THEN freshOld + 1 ELSE freshOld
    /\ UNCHANGED uncounted

(* An event that is not de-duplicated: a user alert or typing event, which *)
(* is forwarded unless marked old, a settings or account event, which is   *)
(* always forwarded, or an unexpected response, which is ignored.          *)
PlainEvent ==
    /\ CountDataEvent
    /\ msg' = NoUpdate
    /\ UNCHANGED <<todo, ring, view, shown>>

UpdateEvent(u) ==
    /\ CountDataEvent
    /\ msg' = u /\ todo' = u.parts
    /\ UNCHANGED <<ring, view, shown>>
-----------------------------------------------------------------------------
(* deduplicateHash: look at the ring from the newest entry to the oldest.  *)
Slot(k) == (recentUpdatesPtr + recentUpdatesLen - k) % recentUpdatesLen

Newest(k) == recentUpdates[Slot(k)]

DuplicateAnywhere(item) ==  \* mutant: the search goes on after a mismatch
    \E k \in 1..recentUpdatesLen : Newest(k) = item

(* The search stops at the first entry with the thing's ID.                *)
Duplicate(item) ==
    \E k \in 1..recentUpdatesLen :
        /\ Newest(k) = item
        /\ \A j \in 1..(k - 1) : Newest(j) # NoItem => Newest(j)[1] # item[1]

PtrAfterStuck == recentUpdatesPtr  \* mutant: the pointer is not advanced

PtrAfter == (recentUpdatesPtr + 1) % recentUpdatesLen

Remember(item) ==
    /\ recentUpdates' = [recentUpdates EXCEPT ![recentUpdatesPtr] = item]
    /\ recentUpdatesPtr' = PtrAfter

(* Old conversation events are ignored, though remembered.                 *)
Forwarded(id) == ~(id \in Conversations /\ isOld)

(* One iteration of the loop over the parts of the event: a repeated part  *)
(* ends the handling of the whole event.                                   *)
HandlePart ==
    LET id == Head(todo)
        item == <<id, msg>>
    IN  /\ todo # <<>>
        /\ \/ /\ Duplicate(item)
              /\ todo' = <<>>
              /\ UNCHANGED <<ring, view, shown>>
           \/ /\ ~Duplicate(item)
              /\ Remember(item)
              /\ todo' = Tail(todo)
              /\ IF Forwarded(id)
                 THEN /\ view' = [view EXCEPT ![id] = msg]
                      /\ shown' = shown \cup {item}
                 ELSE UNCHANGED <<view, shown>>
        /\ UNCHANGED <<msg, isOld, wasOld, stream>>
-----------------------------------------------------------------------------
Next ==
    \/ \E n \in 0..MaxSkip : StartupAck(n)
    \/ OldUncounted
    \/ PlainEvent
    \/ \E u \in Updates : UpdateEvent(u)
    \/ HandlePart

Spec == Init /\ [][Next]_vars
-----------------------------------------------------------------------------
TypeOK ==
    /\ recentUpdates \in [0..(recentUpdatesLen - 1) -> Items \cup {NoItem}]
    /\ recentUpdatesPtr \in 0..(recentUpdatesLen - 1)
    /\ skipCount \in Nat /\ backlog \in Nat /\ uncounted \in Nat /\ freshOld \in Nat
    /\ msg \in Updates \cup {NoUpdate}
    /\ todo \in Seq(Ids)
    /\ isOld \in BOOLEAN /\ wasOld \in BOOLEAN
    /\ view \in [Ids -> Updates \cup {NoUpdate}]
    /\ shown \subseteq Items

(* The ring implements the filter it is meant to be: Window updates, newest*)
(* first, whatever the position of the pointer.                            *)
Filter == INSTANCE UpdateFilter
    WITH Window <- recentUpdatesLen,
         recent <- [k \in 1..recentUpdatesLen |-> Newest(k)]

FilterSpec == Filter!Spec

(* When an event about messages has been handled, the bridge's latest word *)
(* on its first message is this event, even if the message went back to an *)
(* earlier state: hiding repeats never leaves the bridge with a stale one. *)
BridgeIsCurrent ==
    todo = <<>> /\ msg # NoUpdate /\ msg.parts # <<>> =>
        (msg.parts[1] \in Messages => view[msg.parts[1]] = msg)

(* ... and every part of it has been forwarded, now or before, although a  *)
(* repeated part makes the code skip the parts that follow it.             *)
NothingSkipped ==
    todo = <<>> /\ msg # NoUpdate =>
        \A i \in 1..Len(msg.parts) :
            msg.parts[i] \in Messages => <<msg.parts[i], msg>> \in shown

(* Every old message is marked old, so that no backlog is mistaken for     *)
(* news, and a new one is marked old only in place of an old message that  *)
(* did not count.                                                          *)
OldMarkedOld ==
    /\ wasOld => isOld
    /\ freshOld <= uncounted

(* Hiding repeats costs the bridge nothing: its latest word on a message   *)
(* is the phone's, and no part of an event is missed (deduplicateUpdate,   *)
(* HandleRPCMsg's loops that end at a repeated part).                      *)
NothingMissed == BridgeIsCurrent /\ NothingSkipped
=============================================================================
