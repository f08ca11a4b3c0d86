--------------------------- MODULE MessageUpsert ---------------------------
(***************************************************************************)
(* One message of the phone on its way into Matrix: the versions the phone *)
(* sends of it, the database rows of its parts, the Matrix events shown    *)
(* for them, and, for a message sent from Matrix, the request and its      *)
(* echo.                                                                   *)
(*                                                                         *)
(* Each chat has a portal with a queue of its own (bridgev2, external),    *)
(* which handles one event at a time; two portals run concurrently, and    *)
(* the phone may move a message from one chat to another.  A handler works *)
(* on copies of the rows it has read.  Texts are their hashes; media is    *)
(* named by what can be downloaded of it; a timestamp counts days.         *)
(***************************************************************************)
EXTENDS MessageStatus, FiniteSets

CONSTANTS
    Scenarios  \* bound: set of [outgoing, reid, rooms, versions, updates, restarts, ages]

VARIABLES
    scenario,   \* the one this behaviour is about
    phone,      \* the versions the phone has sent, oldest first
    queue,      \* events waiting in each portal, as indices into phone
    handler,    \* the event each portal handles: place, version, row copies
    rows,       \* the message's rows in the database
    events,     \* Matrix events of the message; an event's ID is its index
    rooms,      \* chats that have a Matrix room
    pending,    \* the transaction ID is in the portal's map
    send,       \* HandleMatrixMessage: "no", "sending", "taken", "ok", "failed"
    statuses,   \* the status events sent for the message
    receipts,   \* how many delivery and read receipts were sent, by whom
    reactions,  \* the reactions shown
    fullMedia,  \* the full-size request: "no", "asked", "granted", "failed"
    aged,       \* 24 hours have passed since the message
    raced,      \* two portals have worked on the message at the same time
    overtaken,  \* a portal handled a version before an older one of the other
    restarts

matrix == <<events, rooms, statuses, receipts, reactions>>
sending == <<pending, send>>
races == <<raced, overtaken>>
vars == <<scenario, phone, queue, handler, rows, matrix, sending, fullMedia,
          aged, races, restarts>>

Convs == {"dm", "group"}
Readers == {"A", "B"}  \* members of the group
Kinds == {"delivered", "read"} \cup Readers
MediaPart == "p"  \* the ActionMessageID of the attachment

(* What the phone says about the message.                                  *)
Message(conv, status, text, media) ==
    [ConversationID |-> conv, Status |-> status, text |-> text, media |-> media,
     Timestamp |-> 0, Reactions |-> 0, ReadBy |-> {}]

MessageType ==
    [ConversationID : Convs, Status : Int, text : STRING,
     media : {"none", "pending", "thumb", "full"}, Timestamp : Nat, Reactions : Nat,
     ReadBy : SUBSET Readers]

(* A message sent from Matrix has the version the phone echoes first.      *)
ASSUME ScenarioAssumption ==
    \A s \in Scenarios :
        /\ s.versions \subseteq MessageType
        /\ s.outgoing => \E v \in s.versions : v.Status = OUTGOING_SENDING

MessageInfo(v) == (IF v.text = "" THEN 0 ELSE 1) + (IF v.media = "none" THEN 0 ELSE 1)

(* MediaContent: the ID of the full file, else of the thumbnail, else none.*)
MediaID(v) == CASE v.media = "full" -> "f" [] v.media = "thumb" -> "t" [] OTHER -> ""

hasInProgressMedia(v) == v.media = "pending"

(* A new row's metadata; MediaPartID and MediaID are "" for text.          *)
MessageMetadata(v) ==
    [Type |-> v.Status, GlobalMediaStatus |-> "", GlobalPartCount |-> 0,
     GlobalStatusText |-> {}, GroupReadBy |-> {}, TextHash |-> "",
     MediaPartID |-> "", MediaID |-> "", MediaPending |-> FALSE,
     IsOutgoing |-> FALSE, MSSSent |-> FALSE, MSSFailSent |-> FALSE,
     MSSDeliverySent |-> FALSE, ReadReceiptSent |-> FALSE, OrigMXID |-> 0]

GetOrigMXID(row) == IF row.meta.OrigMXID # 0 THEN row.meta.OrigMXID ELSE row.MXID

Idle == [pc |-> "idle", v |-> Message("dm", 0, "", "none"), rows |-> {}, resync |-> FALSE]

Init ==
    /\ scenario \in Scenarios
    /\ phone = <<>> /\ queue = [p \in Convs |-> <<>>]
    /\ handler = [p \in Convs |-> Idle]
    /\ rows = {} /\ events = <<>> /\ rooms = scenario.rooms
    /\ pending = FALSE /\ send = "no"
    /\ statuses = <<>> /\ receipts = [k \in Kinds |-> 0] /\ reactions = 0
    /\ fullMedia = "no" /\ aged = FALSE /\ raced = FALSE /\ overtaken = FALSE /\ restarts = 0
-----------------------------------------------------------------------------
(* getTextPart: the text, and below it what is pending; TextHash is that   *)
(* of the text alone.                                                      *)
HasTextPart(v) == v.text # "" \/ downloadPendingStatusMessage(v.Status) # ""

getTextPart(v) ==
    LET note == downloadPendingStatusMessage(v.Status) IN
    [ID |-> "", shows |-> [text |-> v.text, note |-> note, media |-> "none"],
     meta |-> [MessageMetadata(v) EXCEPT !.TextHash = v.text,
                  !.GlobalMediaStatus = note, !.GlobalPartCount = MessageInfo(v)]]

(* convertGoogleMedia: ok says whether download, conversion and upload     *)
(* succeeded.                                                              *)
convertGoogleMedia(v, ok) ==
    IF hasInProgressMedia(v) THEN "waiting"
    ELSE IF ~ok THEN "failed"
    ELSE v.media

MediaOfMessage(v, ok) ==
    LET shown == convertGoogleMedia(v, ok)
        first == ~HasTextPart(v)
        base == [MessageMetadata(v) EXCEPT !.MediaPartID = MediaPart, !.MediaID = MediaID(v),
                    !.MediaPending = shown \in {"waiting", "failed"}]
    IN  [ID |-> IF first THEN "" ELSE MediaPart,
         shows |-> [text |-> "", note |-> "", media |-> shown],
         meta |-> IF ~first THEN base
                  ELSE [base EXCEPT !.GlobalPartCount = MessageInfo(v),
                          !.GlobalMediaStatus = downloadPendingStatusMessage(v.Status)]]

(* MergeCaption (external) gives the media part the text and its ID.  What *)
(* the code then copies from the text part's metadata, it takes from the   *)
(* merged part itself: that metadata stays the attachment's.               *)
MergeCaption(text, media) ==
    [media EXCEPT !.ID = "", !.shows.text = text.shows.text, !.shows.note = text.shows.note]

(* ConvertGoogleMessage without tombstones, which are messages of their    *)
(* own (see MessageStatus).                                                *)
ConvertGoogleMessage(v, allowMergeCaption, ok) ==
    LET text == getTextPart(v)
        media == MediaOfMessage(v, ok)
    IN  IF v.media = "none" THEN IF HasTextPart(v) THEN <<text>> ELSE <<>>
        ELSE IF ~HasTextPart(v) THEN <<media>>
        ELSE IF allowMergeCaption THEN <<MergeCaption(text, media)>>
        ELSE <<text, media>>

FullMediaForgotten(v, ok) == fullMedia  \* mutant: the thumbnail is enough

(* requestFullMedia, started for a thumbnail: remembered before it is      *)
(* sent, so it is made once whatever becomes of it.                        *)
FullMediaAfter(v, ok) ==
    IF v.media = "thumb" /\ ok /\ fullMedia = "no" THEN "asked" ELSE fullMedia

-----------------------------------------------------------------------------
(* GetMainMeta: the first row, the part with the empty ID if there is one. *)
Main(copy) == CHOOSE r \in copy : r.PartID = "" \/ \A s \in copy : s.PartID # ""

HasPendingMedia(copy) == \E r \in copy : r.meta.MediaPending

(* Media of an outgoing message is not compared.                           *)
MessageWasEdited(copy, v) ==
    \/ Main(copy).meta.TextHash # v.text
    \/ /\ ~Main(copy).meta.IsOutgoing /\ v.media # "none"
       /\ ~\E r \in copy : r.meta.MediaPartID = MediaPart /\ r.meta.MediaID = MediaID(v)

chatIDChanged(copy, p) == Main(copy).Room # p

ResyncStatusOnly(copy, v, p) ==  \* mutant: content is not compared
    \/ chatIDChanged(copy, p)
    \/ Main(copy).meta.GlobalMediaStatus # downloadPendingStatusMessage(v.Status)

doMessageResync(copy, v, p) ==
    \/ chatIDChanged(copy, p)
    \/ Main(copy).meta.GlobalMediaStatus # downloadPendingStatusMessage(v.Status)
    \/ HasPendingMedia(copy) /\ ~hasInProgressMedia(v)
    \/ MessageWasEdited(copy, v)
    \/ Main(copy).meta.GlobalPartCount # MessageInfo(v)

needsMSSEventUnflagged(meta, v) ==  \* mutant: the flag is not looked at
    meta.IsOutgoing /\ isSuccessfullySentStatus(v.Status)

needsMSSEvent(meta, v) ==
    meta.IsOutgoing /\ ~meta.MSSSent /\ isSuccessfullySentStatus(v.Status)

needsMSSFailureEvent(meta, v) ==
    ~meta.MSSFailSent /\ ~meta.MSSSent /\ getFailMessage(v.Status) # ""

needsMSSDeliveryEvent(meta, v, p) ==
    /\ ~meta.MSSDeliverySent /\ p = "dm"
    /\ v.Status \in {OUTGOING_DELIVERED, OUTGOING_DISPLAYED}

needsReadReceipt(meta, v, p) ==
    ~meta.ReadReceiptSent /\ p = "dm" /\ v.Status = OUTGOING_DISPLAYED

needsGroupReadReceipt(meta, v, p) ==
    /\ p # "dm" /\ v.Status = OUTGOING_DISPLAYED
    /\ v.ReadBy # meta.GlobalStatusText /\ v.ReadBy # {}

Downgrade(v, copy) ==
    downloadStatusRank(v.Status) < downloadStatusRank(Main(copy).meta.Type)

DeleteAndResendThreshold == 7

NothingChanged(copy, v, p) ==
    LET meta == Main(copy).meta IN
    /\ meta.Type = v.Status /\ ~doMessageResync(copy, v, p)
    /\ ~needsMSSEvent(meta, v) /\ ~needsMSSFailureEvent(meta, v)
    /\ ~needsMSSDeliveryEvent(meta, v, p) /\ ~needsReadReceipt(meta, v, p)

(* The metadata HandleExisting leaves in the main row.                     *)
MetaAfter(meta, v, p) ==
    LET group == needsGroupReadReceipt(meta, v, p) IN
    [meta EXCEPT
        !.MSSSent = @ \/ needsMSSEvent(meta, v),
        !.MSSFailSent = @ \/ (needsMSSFailureEvent(meta, v) /\ ~needsMSSEvent(meta, v)),
        !.MSSDeliverySent = @ \/ needsMSSDeliveryEvent(meta, v, p),
        !.ReadReceiptSent = @ \/ needsReadReceipt(meta, v, p),
        !.GlobalStatusText = IF group THEN v.ReadBy ELSE @,
        !.GroupReadBy = IF group THEN v.ReadBy ELSE @]

StatusSent(row, v) ==
    IF needsMSSEvent(row.meta, v)
    THEN <<[kind |-> "success", source |-> GetOrigMXID(row)]>>
    ELSE IF needsMSSFailureEvent(row.meta, v)
    THEN <<[kind |-> wrapStatusInError(v.Status), source |-> GetOrigMXID(row)]>>
    ELSE <<>>

(* Receipts of the other user of a one-on-one chat, and of the members of  *)
(* a group who read the message since (names resolved as in ChatInfo).     *)
ReceiptsSent(meta, v, p) ==
    (IF needsMSSDeliveryEvent(meta, v, p) THEN {"delivered"} ELSE {}) \cup
    (IF needsReadReceipt(meta, v, p) THEN {"read"} ELSE {}) \cup
    (IF needsGroupReadReceipt(meta, v, p) /\ ~needsReadReceipt(meta, v, p)
     THEN v.ReadBy \ meta.GroupReadBy ELSE {})

Counted(sent) == [k \in DOMAIN receipts |-> receipts[k] + (IF k \in sent THEN 1 ELSE 0)]
-----------------------------------------------------------------------------
(* The phone (external): a version of the message, the first one of an     *)
(* outgoing message only once it has taken the request.                    *)
CanSend(v) ==
    /\ scenario.outgoing => send \in {"taken", "ok", "failed"} /\ phone # <<>>
    /\ v.media = "full" /\ phone # <<>> /\ phone[Len(phone)].media = "thumb"
           => fullMedia = "granted"

PhoneUpdate(v) ==
    /\ Len(phone) < scenario.updates /\ CanSend(v)
    /\ phone # <<>> => /\ v.Timestamp >= phone[Len(phone)].Timestamp
                       /\ phone[Len(phone)].ReadBy \subseteq v.ReadBy
    /\ phone' = Append(phone, v)
    /\ queue' = [queue EXCEPT ![v.ConversationID] = Append(@, Len(phone) + 1)]
    /\ UNCHANGED <<scenario, handler, rows, matrix, sending, fullMedia, aged, races, restarts>>

(* 24 hours pass.                                                          *)
Age ==
    /\ scenario.ages /\ ~aged
    /\ aged' = TRUE
    /\ UNCHANGED <<scenario, phone, queue, handler, rows, matrix, sending, fullMedia, races, restarts>>

FullMediaResponse ==
    /\ fullMedia = "asked"
    /\ fullMedia' \in {"granted", "failed"}
    /\ UNCHANGED <<scenario, phone, queue, handler, rows, matrix, sending, aged, races, restarts>>
-----------------------------------------------------------------------------
Outgoing == CHOOSE v \in scenario.versions : v.Status = OUTGOING_SENDING

(* HandleMatrixMessage up to the request; the user's own event is shown in *)
(* the room the user wrote it in.                                          *)
HandleMatrixMessage ==
    /\ scenario.outgoing /\ send = "no" /\ Outgoing.ConversationID \in rooms
    /\ events' = <<[room |-> Outgoing.ConversationID, gone |-> FALSE, user |-> TRUE,
                    shows |-> getTextPart(Outgoing).shows]>>
    /\ pending' = TRUE /\ send' = "sending"
    /\ UNCHANGED <<scenario, phone, queue, handler, rows, rooms, statuses, receipts,
                   reactions, fullMedia, aged, races, restarts>>

(* The phone takes the message and echoes it with the transaction ID.      *)
PhoneTakes ==
    /\ send = "sending" /\ phone = <<>>
    /\ send' = "taken"
    /\ phone' = <<Outgoing>>
    /\ queue' = [queue EXCEPT ![Outgoing.ConversationID] = Append(@, 1)]
    /\ UNCHANGED <<scenario, handler, rows, matrix, pending, fullMedia, aged, races, restarts>>

SendOK ==
    /\ send = "taken"
    /\ send' = "ok"
    /\ UNCHANGED <<scenario, phone, queue, handler, rows, matrix, pending, fullMedia,
                   aged, races, restarts>>

(* An error or a response other than SUCCESS: RemovePending, and bridgev2  *)
(* reports the error.  The phone may have taken the message all the same.  *)
SendFailed ==
    /\ send \in {"sending", "taken"}
    /\ send' = "failed" /\ pending' = FALSE
    /\ statuses' = Append(statuses, [kind |-> "request failed", source |-> 1])
    /\ UNCHANGED <<scenario, phone, queue, handler, rows, events, rooms, receipts,
                   reactions, fullMedia, aged, races, restarts>>
-----------------------------------------------------------------------------
(* handleRemoteEcho: the metadata of the row made from a pending message.  *)
handleRemoteEcho(v) ==
    [MessageMetadata(v) EXCEPT !.IsOutgoing = TRUE, !.TextHash = v.text,
        !.GlobalPartCount = MessageInfo(v),
        !.MediaPartID = IF v.media = "none" THEN "" ELSE MediaPart,
        !.MediaID = IF v.media = "full" THEN "f" ELSE "",
        !.OrigMXID = IF scenario.reid THEN 1 ELSE 0]

(* bridgev2 (external): a row for a part; its rowid is the first event ID. *)
Row(part, room, mxid, v, meta) ==
    [PartID |-> part, Room |-> room, MXID |-> mxid, rowid |-> mxid,
     Timestamp |-> v.Timestamp, meta |-> meta]

Start(p, place, v, copy) ==
    /\ handler' = [handler EXCEPT ![p] = [pc |-> place, v |-> v, rows |-> copy, resync |-> FALSE]]
    /\ raced' = (raced \/ \E q \in Convs : handler[q].pc # "idle")
    /\ overtaken' = (overtaken \/ \E q \in Convs \ {p} :
                        queue[q] # <<>> /\ Head(queue[q]) < Head(queue[p]))

(* bridgev2 takes the next event of a portal and reads the message's rows. *)
Begin(p) ==
    LET v == phone[Head(queue[p])] IN
    /\ handler[p].pc = "idle" /\ queue[p] # <<>>
    /\ ~(pending /\ p = Outgoing.ConversationID)
    /\ queue' = [queue EXCEPT ![p] = Tail(@)]
    /\ IF p \notin rooms /\ ~ShouldCreatePortal(v.Status)
       THEN UNCHANGED <<handler, rooms, races>>
       ELSE /\ rooms' = rooms \cup {p}
            /\ Start(p, IF EventType(v.Status) = "MessageRemove" THEN "remove"
                        ELSE IF rows = {} THEN "new" ELSE "existing", v, rows)
    /\ UNCHANGED <<scenario, phone, rows, events, statuses, receipts, reactions, sending,
                   fullMedia, aged, restarts>>

(* ... or finds its transaction ID pending: the row is inserted, with a    *)
(* deterministic event ID if so configured, and handled as existing.       *)
ClaimEcho(p) ==
    LET v == phone[Head(queue[p])]
        row == Row("", p, IF scenario.reid THEN 2 ELSE 1, v, handleRemoteEcho(v))
    IN  /\ handler[p].pc = "idle" /\ queue[p] # <<>>
        /\ pending /\ p = Outgoing.ConversationID
        /\ queue' = [queue EXCEPT ![p] = Tail(@)]
        /\ pending' = FALSE
        /\ rows' = rows \cup {row}
        /\ Start(p, "existing", v, {row})
        /\ events' = IF scenario.reid
                     THEN <<[events[1] EXCEPT !.gone = TRUE], events[1]>>
                     ELSE events
        /\ UNCHANGED <<scenario, phone, rooms, statuses, receipts, reactions, send,
                       fullMedia, aged, restarts>>

Done(p) == handler' = [handler EXCEPT ![p] = Idle]
NotRedacted(copy) == events  \* mutant: the old room keeps its events

Redacted(copy) ==
    [i \in DOMAIN events |->
        IF \E r \in copy : r.MXID = i THEN [events[i] EXCEPT !.gone = TRUE] ELSE events[i]]

(* HandleExisting: an update that is a downgrade, or a pending download in *)
(* a group of a message that is elsewhere, is ignored.                     *)
IgnoredMove(copy, v, p) ==
    /\ chatIDChanged(copy, p) /\ p # "dm"
    /\ downloadPendingStatusMessage(v.Status) # ""

HandleExistingIgnores(p) ==
    LET v == handler[p].v copy == handler[p].rows IN
    /\ handler[p].pc = "existing"
    /\ \/ Downgrade(v, copy)
       \/ /\ v.Timestamp - Main(copy).Timestamp <= DeleteAndResendThreshold
          /\ IgnoredMove(copy, v, p) /\ ~NothingChanged(copy, v, p)
    /\ Done(p)
    /\ UNCHANGED <<scenario, phone, queue, rows, matrix, sending, fullMedia, aged, races, restarts>>

(* A timestamp far from the old one: forget the rows, send as new.         *)
HandleExistingResends(p) ==
    LET v == handler[p].v copy == handler[p].rows IN
    /\ handler[p].pc = "existing" /\ ~Downgrade(v, copy)
    /\ v.Timestamp - Main(copy).Timestamp > DeleteAndResendThreshold
    /\ rows' = {}
    /\ handler' = [handler EXCEPT ![p].pc = "new", ![p].rows = {}]
    /\ UNCHANGED <<scenario, phone, queue, matrix, sending, fullMedia, aged, races, restarts>>

HandleExisting(p) ==
    LET v == handler[p].v
        copy == handler[p].rows
        main == Main(copy)
        changed == [main EXCEPT !.meta = MetaAfter(main.meta, v, p)]
        oldRoom == main.Room \in rooms
    IN  /\ handler[p].pc = "existing" /\ ~Downgrade(v, copy)
        /\ v.Timestamp - main.Timestamp <= DeleteAndResendThreshold
        /\ IF NothingChanged(copy, v, p)
           THEN /\ handler' = [handler EXCEPT ![p].pc = "reactions"]
                /\ UNCHANGED <<events, statuses, receipts>>
           ELSE /\ ~IgnoredMove(copy, v, p)
                /\ events' = IF chatIDChanged(copy, p) /\ oldRoom THEN Redacted(copy) ELSE events
                /\ statuses' = statuses \o StatusSent(main, v)
                /\ receipts' = Counted(ReceiptsSent(main.meta, v, p))
                /\ handler' = [handler EXCEPT ![p].pc = "save",
                                 ![p].rows = (copy \ {main}) \cup {changed},
                                 ![p].resync = doMessageResync(copy, v, p)]
        /\ UNCHANGED <<scenario, phone, queue, rows, rooms, reactions, sending,
                       fullMedia, aged, races, restarts>>

(* SaveParts: every row of the copy that is still in the database.         *)
Updated(copy) ==
    {IF \E c \in copy : c.rowid = r.rowid
     THEN CHOOSE c \in copy : c.rowid = r.rowid ELSE r : r \in rows}

SaveParts(p) ==
    /\ handler[p].pc = "save"
    /\ rows' = Updated(handler[p].rows)
    /\ handler' = [handler EXCEPT ![p].pc = IF handler[p].resync THEN "edit" ELSE "reactions"]
    /\ UNCHANGED <<scenario, phone, queue, matrix, sending, fullMedia, aged, races, restarts>>
-----------------------------------------------------------------------------
FlagsNotKept(prev, new) == new  \* mutant: ConvertEdit starts with fresh flags

(* The fields ConvertEdit carries over to the new main row; the others,    *)
(* among them OrigMXID and GroupReadBy, start afresh.                      *)
KeepFlags(prev, new) ==
    [new EXCEPT !.IsOutgoing = prev.IsOutgoing, !.MSSSent = prev.MSSSent,
                !.MSSFailSent = prev.MSSFailSent, !.MSSDeliverySent = prev.MSSDeliverySent,
                !.ReadReceiptSent = prev.ReadReceiptSent]

NewEvent(p, part) == [room |-> p, gone |-> FALSE, user |-> FALSE, shows |-> part.shows]

EditedRow(r, p, mxid, meta) ==
    [r EXCEPT !.Room = p, !.MXID = mxid, !.meta = meta]

(* The parts of the conversion that are new to the message.                *)
AddedPart(copy, part) == \A r \in copy : r.PartID # part.ID

MayAddPart(p, copy) == chatIDChanged(copy, p) \/ ~aged

(* ConvertEdit and the edit event: parts with a row are edited in place,   *)
(* or sent anew when the row belongs to another room; parts without are    *)
(* added while the message is young; rows without a part are deleted.      *)
ConvertEdit(p, ok) ==
    LET v == handler[p].v
        copy == handler[p].rows
        parts == ConvertGoogleMessage(v, Cardinality(copy) = 1, ok)
        main == Main(copy)
        Meta(i) == IF i = 1 THEN KeepFlags(main.meta, parts[i].meta) ELSE parts[i].meta
        RowOf(i) == CHOOSE r \in copy : r.PartID = parts[i].ID
        moved(r) == r.Room # p
        edited == {i \in DOMAIN parts : ~AddedPart(copy, parts[i])}
        sentNew == {i \in DOMAIN parts : IF i \in edited THEN moved(RowOf(i))
                                         ELSE MayAddPart(p, copy)}
        MXIDOf(i) == IF i \in sentNew
                     THEN Len(events) + Cardinality({j \in sentNew : j <= i})
                     ELSE RowOf(i).MXID
        editedRows == {EditedRow(RowOf(i), p, MXIDOf(i), Meta(i)) : i \in edited}
        deleted == {r \in copy : \A i \in DOMAIN parts : parts[i].ID # r.PartID}
        added == {i \in sentNew \ edited : \A r \in rows : r.PartID # parts[i].ID}
        shown == [k \in DOMAIN events |->
                    IF \E i \in edited \ sentNew : RowOf(i).MXID = k
                    THEN [events[k] EXCEPT !.shows =
                            parts[CHOOSE i \in edited \ sentNew : RowOf(i).MXID = k].shows]
                    ELSE Redacted(deleted)[k]]
        fresh == [n \in 1..Cardinality(sentNew) |->
                    NewEvent(p, parts[CHOOSE i \in sentNew : MXIDOf(i) = Len(events) + n])]
    IN  /\ parts # <<>>
        /\ events' = shown \o fresh
        /\ rows' = (Updated(editedRows) \ {r \in rows : \E d \in deleted : d.rowid = r.rowid})
                   \cup {Row(parts[i].ID, p, MXIDOf(i), v, Meta(i)) : i \in added}
        /\ fullMedia' = FullMediaAfter(v, ok)

HandleEdit(p) ==
    /\ handler[p].pc = "edit"
    /\ \E ok \in BOOLEAN : ConvertEdit(p, ok)
    /\ handler' = [handler EXCEPT ![p].pc = "reactions"]
    /\ UNCHANGED <<scenario, phone, queue, rooms, statuses, receipts, reactions, sending,
                   aged, races, restarts>>

(* converted.Parts[0] of a message that has become empty: bridgev2         *)
(* recovers from the panic and drops the event.                            *)
HandleEditPanics(p) ==
    /\ handler[p].pc = "edit"
    /\ ConvertGoogleMessage(handler[p].v, TRUE, TRUE) = <<>>
    /\ Done(p)
    /\ UNCHANGED <<scenario, phone, queue, rows, matrix, sending, fullMedia, aged, races, restarts>>

(* ReactionSyncEvent, if the message has a row.                            *)
SyncReactions(p) ==
    /\ handler[p].pc = "reactions"
    /\ reactions' = IF rows = {} THEN reactions ELSE handler[p].v.Reactions
    /\ Done(p)
    /\ UNCHANGED <<scenario, phone, queue, rows, events, rooms, statuses, receipts, sending,
                   fullMedia, aged, races, restarts>>
-----------------------------------------------------------------------------
(* ConvertMessage: not before an automatic download has ended, and no old  *)
(* message below a newer one.                                              *)
NewIgnored(p) ==
    /\ handler[p].pc = "new"
    /\ NotYetDownloaded(handler[p].v.Status) \/ aged
    /\ Done(p)
    /\ UNCHANGED <<scenario, phone, queue, rows, matrix, sending, fullMedia, aged, races, restarts>>

ConvertMessage(p, ok) ==
    LET v == handler[p].v
        parts == ConvertGoogleMessage(v, TRUE, ok)
        new(i) == \A r \in rows : r.PartID # parts[i].ID
    IN  /\ handler[p].pc = "new" /\ ~NotYetDownloaded(v.Status)
        /\ events' = events \o [i \in DOMAIN parts |-> NewEvent(p, parts[i])]
        /\ rows' = rows \cup {Row(parts[i].ID, p, Len(events) + i, v, parts[i].meta) :
                                 i \in {j \in DOMAIN parts : new(j)}}
        /\ fullMedia' = FullMediaAfter(v, ok)
        /\ Done(p)
        /\ UNCHANGED <<scenario, phone, queue, rooms, statuses, receipts, reactions, sending,
                       aged, races, restarts>>

(* MESSAGE_DELETED: bridgev2 redacts the events and deletes the rows.      *)
Remove(p) ==
    /\ handler[p].pc = "remove"
    /\ events' = Redacted(handler[p].rows)
    /\ rows' = {}
    /\ Done(p)
    /\ UNCHANGED <<scenario, phone, queue, rooms, statuses, receipts, reactions, sending,
                   fullMedia, aged, races, restarts>>

(* The process dies: queues, pending transactions and the requests it made *)
(* are forgotten.  What was queued has been acknowledged to the server.    *)
Restart ==
    /\ restarts < scenario.restarts
    /\ restarts' = restarts + 1
    /\ queue' = [p \in Convs |-> <<>>] /\ handler' = [p \in Convs |-> Idle]
    /\ pending' = FALSE
    /\ send' = IF send \in {"sending", "taken"} THEN "failed" ELSE send
    /\ fullMedia' = "no"
    /\ UNCHANGED <<scenario, phone, rows, matrix, aged, races>>
-----------------------------------------------------------------------------
PortalStep(p) ==
    \/ Begin(p) \/ ClaimEcho(p)
    \/ HandleExistingIgnores(p) \/ HandleExistingResends(p) \/ HandleExisting(p)
    \/ SaveParts(p) \/ HandleEdit(p) \/ HandleEditPanics(p) \/ SyncReactions(p)
    \/ NewIgnored(p) \/ (\E ok \in BOOLEAN : ConvertMessage(p, ok)) \/ Remove(p)

Next ==
    \/ \E v \in scenario.versions : PhoneUpdate(v)
    \/ Age \/ FullMediaResponse
    \/ HandleMatrixMessage \/ PhoneTakes \/ SendOK \/ SendFailed
    \/ \E p \in Convs : PortalStep(p)
    \/ Restart

Spec == Init /\ [][Next]_vars
-----------------------------------------------------------------------------
Places == {"idle", "new", "existing", "save", "edit", "reactions", "remove"}

TypeOK ==
    /\ \A p \in Convs : handler[p].pc \in Places
    /\ \A r, s \in rows : r.PartID = s.PartID => r = s
    /\ \A r \in rows : r.MXID \in DOMAIN events /\ r.Room \in Convs
    /\ send \in {"no", "sending", "taken", "ok", "failed"}
    /\ fullMedia \in {"no", "asked", "granted", "failed"}

Quiescent ==
    /\ \A p \in Convs : handler[p].pc = "idle" /\ queue[p] = <<>>
    /\ send \notin {"sending", "taken"}

Visible == {i \in DOMAIN events : ~events[i].gone}
Last == phone[Len(phone)]
Count(kind) == Cardinality({i \in DOMAIN statuses : statuses[i].kind = kind})

(* The versions differ in text or number of parts, or one of them carries  *)
(* a download notice; the phone moved the timestamp, deleted the message.  *)
Edited ==
    \E i \in DOMAIN phone :
        \/ phone[i].text # Last.text \/ MessageInfo(phone[i]) # MessageInfo(Last)
        \/ downloadPendingStatusMessage(phone[i].Status) # ""
Resent == phone # <<>> /\ Last.Timestamp > 0
Deleted == \E i \in DOMAIN phone : phone[i].Status = MESSAGE_DELETED

(* The message is of one chat, so of one portal; and the rows it got first *)
(* are still its rows.                                                     *)
Stays == \A v, w \in scenario.versions : v.ConversationID = w.ConversationID
Kept == Stays /\ restarts = 0 /\ ~Resent /\ ~Deleted
Echoed == Kept /\ send \notin {"no", "failed"}

(* No two portals work on the message at once and nothing of their work is *)
(* lost; one sent from Matrix does not move before its echo is there.      *)
Alone == ~raced /\ restarts = 0 /\ (scenario.outgoing => Stays)

(* A message that moves between chats has a version with nothing to show.  *)
Empty(v) == ConvertGoogleMessage(v, TRUE, TRUE) = <<>>
Emptied ==
    ~Stays /\ \E i \in DOMAIN phone : Empty(phone[i]) /\ phone[i].Status # MESSAGE_DELETED

(* ConvertEdit may run, which forgets a group's readers: for another text, *)
(* for an attachment that arrives, or in another chat.                     *)
Rewritten == ~Stays \/ Edited \/ \E i \in DOMAIN phone : phone[i].media # "none"

(* The last version is a complete one and has been handled last.           *)
Followed ==
    /\ Quiescent /\ Alone /\ ~overtaken /\ ~aged /\ ~Resent /\ send # "failed"
    /\ phone # <<>> /\ Last.ConversationID \in rooms /\ Last.Status # MESSAGE_DELETED
    /\ downloadStatusRank(Last.Status) = 100 /\ MessageInfo(Last) > 0

(* A version that is sent as a new message if there is none yet.           *)
Bridged(v) ==
    /\ v.ConversationID \in scenario.rooms \/ ShouldCreatePortal(v.Status)
    /\ ~NotYetDownloaded(v.Status) /\ ~Empty(v)

(* The user learns once that a message was sent, however statuses and      *)
(* echoes are ordered: the flag is set on the copy of the row and saved    *)
(* after the event is sent, so only a crash in between repeats it (or a    *)
(* second portal, of a message that moves between chats).                  *)
SuccessOnce == Stays => Count("success") <= 1 + restarts

(* HandleExisting does not report a message as failed that it has reported *)
(* as sent, as long as it has the row that says so; only the request       *)
(* itself may still fail with a lost reply.                                *)
NoLateFailure ==
    \A i, j \in DOMAIN statuses :
        i < j /\ statuses[i].kind = "success" /\ Kept
            => statuses[j].kind \in {"success", "request failed"}

(* Once all is handled, a message that moved to another chat is shown in   *)
(* one room only, unless both portals worked on it at the same time (or    *)
(* its rows were dropped without redaction, for a timestamp far off).      *)
OneRoom ==
    Quiescent /\ Alone /\ (Stays \/ ~Resent) => Cardinality({events[i].room : i \in Visible}) <= 1

(* Rows point at events that are there to be edited and redacted, in the   *)
(* room the row names; a message that is empty when it moves is redacted   *)
(* in the old room and its edit for the new one panics.                    *)
RowShown ==
    Quiescent /\ Alone /\ ~Emptied =>
        \A r \in rows : r.MXID \in Visible /\ events[r.MXID].room = r.Room

(* Once all is handled, text and attachment shown are those of the phone's *)
(* last version, in its chat, with no leftover download notice, as long as *)
(* the two portals keep the phone's order.  An attachment the user sent is *)
(* not compared.                                                           *)
ShownIsCurrent ==
    Followed /\ ~Emptied =>
        /\ {events[i].shows.text : i \in Visible} \ {""} = {Last.text} \ {""}
        /\ \A i \in Visible : events[i].room = Last.ConversationID /\ events[i].shows.note = ""
        /\ Last.media = "full" /\ ~scenario.outgoing =>
              \E i \in Visible : events[i].shows.media \in {"full", "failed"}

(* A message sent from Matrix is not shown a second time as a remote one:  *)
(* its echo finds the transaction pending, before or after the response.   *)
NoDuplicate == Echoed => \A i \in Visible : events[i].user

(* Status events name the event the user sent, also when the bridge gave   *)
(* the message another event ID, which it knows until an edit: ConvertEdit *)
(* does not carry OrigMXID over.                                           *)
SourceIsUsers ==
    Echoed /\ ~(scenario.reid /\ Edited)
        => \A i \in DOMAIN statuses : statuses[i].source = 1

(* Each receipt is sent once: neither status updates in any order nor an   *)
(* edit of the row repeat one (an edit does forget a group's readers).     *)
ReceiptsOnce ==
    Alone /\ ~Resent /\ ~Deleted =>
        \A k \in Kinds : receipts[k] <= 1 \/ (k \in Readers /\ Rewritten)

(* Everyone the phone lists as reader in a group gets a receipt; but once  *)
(* an edit has stored the status DISPLAYED, a longer list is "nothing      *)
(* changed" and its new readers get none.                                  *)
ReadersShown ==
    Quiescent /\ Echoed /\ scenario.outgoing /\ Last.ConversationID = "group"
    /\ Last.Status = OUTGOING_DISPLAYED /\ Main(rows).meta.Type # OUTGOING_DISPLAYED
        => \A k \in Last.ReadBy : receipts[k] > 0

(* The reactions shown are those of the last version, once a version before*)
(* it was shown: they are synced to a row, never with a new message.       *)
ReactionsCurrent ==
    Followed /\ ~Deleted
    /\ (scenario.outgoing \/ \E i \in 1..Len(phone) - 1 : Bridged(phone[i]))
        => reactions = Last.Reactions

(* While a thumbnail stands in for an attachment, the full file has been   *)
(* asked for: once, and not again if that request failed.                  *)
ThumbnailAsked ==
    (\E i \in Visible : events[i].shows.media = "thumb") /\ restarts = 0 => fullMedia # "no"

(* What the user is told of a message sent from Matrix is right: success   *)
(* once, no failure after it, and of the event the user sent               *)
(* (HandleExisting and the status events of a MessageEvent).               *)
StatusesRight == SuccessOnce /\ NoLateFailure /\ SourceIsUsers

(* A message is in one room, where its rows say, and only once             *)
(* (HandleExisting's move, SaveParts, handleRemoteEcho).                   *)
PlacedOnce == OneRoom /\ RowShown /\ NoDuplicate

(* What is shown of a message, reactions included, is what the phone last  *)
(* said (ConvertEdit, doMessageResync, ReactionSyncEvent).                 *)
ContentCurrent == ShownIsCurrent /\ ReactionsCurrent

(* Receipts: each reader's, once (HandleExisting's delivery and read       *)
(* receipts).                                                              *)
ReceiptsRight == ReceiptsOnce /\ ReadersShown
============================================================================
