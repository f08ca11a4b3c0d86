-------------------------- MODULE ConversationSync --------------------------
(***************************************************************************)
(* One chat of the phone and its Matrix room.  Every change on the phone   *)
(* sends a Conversation update, which a goroutine of its own handles:      *)
(* syncConversationMeta under a lock, then the events it queues for the    *)
(* portal, the delayed backfill among them.  A message also sends an event *)
(* of its own, which may be lost.  The portal (bridgev2, external) handles *)
(* its queue in order and asks for backfill.                               *)
(*                                                                         *)
(* Messages are numbered by time; a number is ID and timestamp.  Messages  *)
(* up to `aged` are older than five minutes.                               *)
(***************************************************************************)
EXTENDS Integers, Sequences, FiniteSets, FiniteSetsExt

CONSTANTS
    Statuses,     \* ConversationStatus values that occur
    MaxMessages,  \* bound: messages in the chat
    MaxUpdates    \* bound: Conversation updates

VARIABLES
    phone,     \* the chat on the phone: status, latest, unread
    updates,   \* the Conversation updates sent, oldest first
    syncing,   \* place of syncConversation for each update
    meta,      \* conversationMeta
    timer,     \* events of the delayed backfill that is pending
    queue,     \* the portal's events
    room,      \* the chat has a Matrix room
    bridged,   \* messages in the room
    marker,    \* the user's read marker in the room
    aged,      \* newest message older than five minutes
    locked,    \* the updates in the order in which they took the lock: history
    overtaken, \* events were queued after those of an update stored later: history
    dropped    \* an update was dropped as suspicious: history

syncVars == <<phone, updates, syncing, meta, timer, queue, room, bridged, marker, aged,
              locked, overtaken, dropped>>
matrix == <<room, bridged, marker>>

SpamStatuses == {"SPAM_FOLDER", "BLOCKED_FOLDER"}
GoneStatuses == SpamStatuses \cup {"DELETED"}

SyncInit ==
    /\ phone = [status |-> "ACTIVE", latest |-> 1, unread |-> FALSE]
    /\ updates = <<>> /\ syncing = <<>>
    /\ meta = [known |-> FALSE, unread |-> FALSE, readUpTo |-> 0, readUpToTS |-> 0, markedSpamAt |-> "never"]
    /\ timer = <<>> /\ queue = <<>>
    /\ room \in BOOLEAN /\ bridged = (IF room THEN {1} ELSE {}) /\ marker = (IF room THEN 1 ELSE 0)
    /\ aged = 1 /\ locked = <<>> /\ overtaken = FALSE /\ dropped = FALSE
-----------------------------------------------------------------------------
(* The phone (external).  Whatever changes, an update says how the chat is *)
(* now.                                                                    *)
PhoneChanges(new, evts) ==
    /\ Len(updates) < MaxUpdates
    /\ phone' = new
    /\ updates' = Append(updates, new) /\ syncing' = Append(syncing, "start")
    /\ queue' = queue \o evts
    /\ UNCHANGED <<meta, timer, matrix, aged, locked, overtaken, dropped>>

NewMessage(lost) ==
    LET n == phone.latest + 1 IN
    /\ n <= MaxMessages /\ phone.status \notin GoneStatuses
    /\ PhoneChanges([phone EXCEPT !.latest = n, !.unread = TRUE],
                    IF lost THEN <<>> ELSE <<[kind |-> "message", update |-> 0, allow |-> FALSE,
                                              only |-> FALSE, target |-> n]>>)

ReadChat ==
    /\ phone.unread
    /\ PhoneChanges([phone EXCEPT !.unread = FALSE], <<>>)

SetStatus(s) ==
    /\ s # phone.status
    /\ PhoneChanges([phone EXCEPT !.status = s], <<>>)

(* Five minutes pass; no goroutine takes that long.                        *)
Running == {u \in DOMAIN syncing : syncing[u] \in {"start", "queue"}}

TimePasses ==
    /\ Running = {} /\ timer = <<>>
    /\ aged < phone.latest \/ meta.markedSpamAt = "recently"
    /\ aged' = phone.latest
    /\ meta' = [meta EXCEPT !.markedSpamAt = IF @ = "recently" THEN "long ago" ELSE @]
    /\ UNCHANGED <<phone, updates, syncing, timer, queue, matrix, locked, overtaken, dropped>>
-----------------------------------------------------------------------------
(* An update is suspicious that brings a chat back within a minute of the  *)
(* first time it was marked as spam.                                       *)
NotSuspicious(v, m) == FALSE  \* mutant: no protection against old updates

suspiciousUnmarkedSpam(v, m) == v.status \notin GoneStatuses /\ m.markedSpamAt = "recently"

ReadOf(v, m) ==
    IF ~v.unread THEN v.latest
    ELSE IF m.readUpTo = v.latest THEN 0
    ELSE m.readUpTo

syncConversationMeta(u) ==
    LET v == updates[u]
        new == [known |-> TRUE, unread |-> v.unread, readUpTo |-> ReadOf(v, meta),
                readUpToTS |-> IF ~v.unread THEN v.latest
                               ELSE IF meta.readUpTo = v.latest THEN 0 ELSE meta.readUpToTS,
                markedSpamAt |-> IF v.status \in SpamStatuses /\ meta.markedSpamAt = "never"
                                 THEN "recently" ELSE meta.markedSpamAt]
    IN  /\ syncing[u] = "start"
        /\ meta' = new
        /\ syncing' = [syncing EXCEPT ![u] = IF suspiciousUnmarkedSpam(v, new)
                                             THEN "done" ELSE "queue"]
        /\ locked' = Append(locked, u)
        /\ dropped' = (dropped \/ suspiciousUnmarkedSpam(v, new))
        /\ UNCHANGED <<phone, updates, timer, queue, matrix, aged, overtaken>>

AllowBackfill(v) == v.latest <= aged

Resync(u, allow, only) ==
    [kind |-> "resync", update |-> u, allow |-> allow, only |-> only, target |-> 0]

MarkRead(u) ==
    IF updates[u].unread THEN <<>>
    ELSE <<[kind |-> "read", update |-> u, allow |-> FALSE, only |-> FALSE,
            target |-> meta.readUpTo]>>

(* The rest of syncConversation: a resync, and unless the chat goes away,  *)
(* the read receipt at once or with the delayed backfill, which replaces   *)
(* the one that was pending.  The receipt's target is read from meta after *)
(* the lock was released.                                                  *)
syncConversation(u) ==
    LET v == updates[u] IN
    /\ syncing[u] = "queue"
    /\ overtaken' = (overtaken \/ \E i, j \in DOMAIN locked :
                        i < j /\ locked[i] = u /\ syncing[locked[j]] = "done")
    /\ syncing' = [syncing EXCEPT ![u] = "done"]
    /\ queue' = Append(queue, Resync(u, AllowBackfill(v), FALSE)) \o
                (IF v.status \notin GoneStatuses /\ AllowBackfill(v) THEN MarkRead(u) ELSE <<>>)
    /\ timer' = IF v.status \notin GoneStatuses /\ ~AllowBackfill(v)
                THEN <<Resync(u, TRUE, TRUE)>> \o MarkRead(u) ELSE timer
    /\ UNCHANGED <<phone, updates, meta, matrix, aged, locked, dropped>>

DelayedBackfill ==
    /\ timer # <<>>
    /\ queue' = queue \o timer
    /\ timer' = <<>>
    /\ UNCHANGED <<phone, updates, syncing, meta, matrix, aged, locked, overtaken, dropped>>
-----------------------------------------------------------------------------
(* GMChatResync.                                                           *)
GetType(v) ==
    CASE v.status \in GoneStatuses -> "ChatDelete"
      [] v.status \in {"ACTIVE", "ARCHIVED", "KEEP_ARCHIVED"} -> "ChatResync"
      [] OTHER -> "Unknown"

ShouldCreatePortal(e) == ~e.only /\ updates[e.update].status \in {"ACTIVE", "ARCHIVED"}

BackfillAnyway(e) == FALSE  \* mutant: only live messages are bridged

CheckNeedsBackfill(e) ==
    /\ e.allow
    /\ bridged = {} \/ updates[e.update].latest > Max(bridged)

(* FetchMessages, forward: the messages from the anchor on, and whether    *)
(* they are to be marked as read.                                          *)
FetchedForward(have) == IF have = {} THEN 1..phone.latest ELSE Max(have)..phone.latest \ have

MarksRead(last) ==
    meta.known /\ (~meta.unread \/ meta.readUpToTS >= last \/ meta.readUpTo = last)

Backfill(have) ==
    LET new == FetchedForward(have) IN
    /\ bridged' = have \cup new
    /\ marker' = IF new # {} /\ MarksRead(Max(new)) THEN Max(new) ELSE marker

(* bridgev2 handles the queue: a resync may delete or create the room, a   *)
(* message may create it, a receipt moves the marker forward.              *)
Portal ==
    LET e == Head(queue) IN
    /\ queue # <<>>
    /\ queue' = Tail(queue)
    /\ CASE e.kind = "read" /\ room ->
              LET upTo == {m \in bridged : m <= e.target} IN
              /\ marker' = Max(upTo \cup {marker})
              /\ UNCHANGED <<room, bridged>>
         [] e.kind = "resync" /\ GetType(updates[e.update]) = "ChatDelete" ->
              room' = FALSE /\ bridged' = {} /\ marker' = 0
         [] e.kind = "resync" /\ GetType(updates[e.update]) = "ChatResync"
              /\ (room \/ ShouldCreatePortal(e)) ->
              /\ room' = TRUE
              /\ IF ~room \/ CheckNeedsBackfill(e) THEN Backfill(bridged)
                 ELSE UNCHANGED <<bridged, marker>>
         [] e.kind = "message" /\ room ->
              bridged' = bridged \cup {e.target} /\ UNCHANGED <<room, marker>>
         [] e.kind = "message" /\ ~room /\ phone.status \notin GoneStatuses ->
              room' = TRUE /\ Backfill({})  \* GetChatInfo
         [] OTHER -> UNCHANGED matrix
    /\ UNCHANGED <<phone, updates, syncing, meta, timer, aged, locked, overtaken, dropped>>
-----------------------------------------------------------------------------
SyncNext ==
    \/ (\E lost \in BOOLEAN : NewMessage(lost)) \/ ReadChat
    \/ (\E s \in Statuses : SetStatus(s)) \/ TimePasses
    \/ (\E u \in DOMAIN syncing : syncConversationMeta(u) \/ syncConversation(u))
    \/ DelayedBackfill \/ Portal
-----------------------------------------------------------------------------
(* Nothing is left to do, and no update was handled out of turn.           *)
Quiescent == Running = {} /\ timer = <<>> /\ queue = <<>> /\ updates # <<>>
InOrder == (\A i, j \in DOMAIN locked : i < j => locked[i] < locked[j]) /\ ~overtaken /\ ~dropped

(* When the dust settles the room is as the chat: an inbox chat has one, a *)
(* chat in the spam or bin has none, and a room shows the newest message   *)
(* even when its own event was lost, through the delayed backfill          *)
(* (syncConversation, CheckNeedsBackfill).  Of a chat in a status the code *)
(* does not know nothing is promised: GetType has its updates ignored.     *)
RoomFollowsPhone ==
    Quiescent /\ InOrder =>
        /\ phone.status \in {"ACTIVE", "ARCHIVED"} => room
        /\ phone.status \in GoneStatuses => ~room
        /\ room /\ GetType(phone) # "Unknown" => phone.latest \in bridged

(* Within a minute of a chat being marked as spam, an older update whose   *)
(* goroutine gets the lock late does not bring the room back: it is the    *)
(* race suspiciousUnmarkedSpam is for.                                     *)
SpamStaysGone ==
    /\ Quiescent /\ ~overtaken
    /\ phone.status \in SpamStatuses /\ meta.markedSpamAt = "recently"
    => ~room

(* A chat read on the phone ends up read in the room, also when a newer    *)
(* update replaced the delayed backfill that carried the receipt.          *)
ReadShown ==
    Quiescent /\ InOrder /\ room /\ GetType(phone) # "Unknown" /\ ~phone.unread
        => marker = phone.latest

(* Once all updates are handled in order, room and read marker are as the  *)
(* phone's chat (syncConversation and its delayed backfill).               *)
RoomSettles == RoomFollowsPhone /\ ReadShown
============================================================================
