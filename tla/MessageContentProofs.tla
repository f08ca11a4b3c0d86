------------------------ MODULE MessageContentProofs ------------------------
(***************************************************************************)
(* Proofs about what the bridge makes of a message besides where it is:    *)
(* the receipts it sends and the text, attachment and reactions it shows,  *)
(* for every set of scenarios.                                             *)
(***************************************************************************)
EXTENDS MessageUpsertProofs

(* Receipts.  What was sent once is remembered by the row, by the copy     *)
(* while the handler is yet to save it.                                    *)
ReceiptType == receipts \in [Kinds -> Nat]
Remembered(r) ==
    /\ receipts["delivered"] > 0 => r.meta.MSSDeliverySent
    /\ receipts["read"] > 0 => r.meta.ReadReceiptSent
Once ==
    /\ receipts["delivered"] <= 1 /\ receipts["read"] <= 1
    /\ rows = {} => receipts["delivered"] = 0 /\ receipts["read"] = 0
    /\ (\A p \in Convs : handler[p].pc # "save") => \A r \in rows : Remembered(r)
    /\ \A p \in Convs : handler[p].pc = "save" => \A c \in handler[p].rows : Remembered(c)
OnceInv == ReceiptType /\ ((Alone /\ ~Resent /\ ~Deleted) => Once)

(* Of a message that stays, the portal's queue is the end of the phone's   *)
(* list, all of its chat: it works, or has worked last, on the version     *)
(* before.                                                                 *)
Taken == Len(phone) - Len(queue[Chat])
TailInv ==
    (Stays /\ restarts = 0) =>
        /\ Taken \in 0..Len(phone)
        /\ \A i \in 1..Len(queue[Chat]) : queue[Chat][i] = Taken + i
        /\ handler[Chat].pc # "idle" => Taken > 0 /\ handler[Chat].v = phone[Taken]
        /\ send \notin {"no", "sending", "failed"} => phone # <<>>
        /\ \A i \in 1..Len(phone) : phone[i].ConversationID = Chat

(* While its text and parts are the same no edit forgets a group's readers:*)
(* those of the row have their receipt, and are among the readers of the   *)
(* version it was handled for last and of every later one.                 *)
Alike(r, v) ==
    /\ r.meta.GlobalMediaStatus = "" /\ r.meta.MediaPending = FALSE
    /\ r.meta.TextHash = v.text /\ r.meta.GlobalPartCount = MessageInfo(v)
Reads ==
    /\ \A r \in Current : \A i \in 1..Len(phone) : Alike(r, phone[i])
    /\ handler[Chat].pc # "edit"
    /\ handler[Chat].pc = "save" => ~handler[Chat].resync
    /\ \A k \in Readers : receipts[k] <= 1 /\ (rows = {} => receipts[k] = 0)
    /\ \A r \in Current :
          /\ \A k \in Readers : receipts[k] > 0 => k \in r.meta.GroupReadBy
          /\ r.meta.GroupReadBy # {} => Taken > 0 /\ r.meta.GroupReadBy \subseteq phone[Taken].ReadBy
ReadInv == (Kept /\ ~Rewritten) => Reads

(* Of a message whose echo came: the readers the row lists have their      *)
(* receipt, and so has everyone in the version handled last, if it says    *)
(* DISPLAYED and the row does not yet.                                     *)
Seen(v, r) ==
    v.Status = OUTGOING_DISPLAYED /\ r.meta.Type # OUTGOING_DISPLAYED => \A k \in v.ReadBy : receipts[k] > 0
Saw ==
    /\ \A r \in Current : /\ r.meta.GlobalStatusText = r.meta.GroupReadBy /\ r.meta.GroupReadBy \subseteq Readers
                          /\ \A k \in r.meta.GroupReadBy : receipts[k] > 0
    /\ (handler[Chat].pc # "existing" /\ Taken > 0) => \A r \in Current : Seen(phone[Taken], r)
SeenInv == (Echoed /\ Chat = "group") => Saw
-----------------------------------------------------------------------------
(* What a part says of the version it is made from, and of what it shows.  *)
PartOf(part, v) ==
    LET m == part.meta s == part.shows IN
    /\ m.Type = v.Status /\ m.GlobalStatusText = {} /\ m.GroupReadBy = {}
    /\ v.media = "none" => /\ m.TextHash = v.text /\ m.GlobalPartCount = MessageInfo(v)
                           /\ m.GlobalMediaStatus = downloadPendingStatusMessage(v.Status)
                           /\ m.MediaPending = FALSE
    /\ m.GlobalPartCount # 0 => m.TextHash = s.text /\ m.GlobalMediaStatus = s.note
    /\ m.MediaID = "f" => s.media \in {"full", "failed"}
    /\ s.text = v.text /\ s.note = downloadPendingStatusMessage(v.Status)
    /\ v.media = "full" => s.media \in {"full", "failed"}

LEMMA PartFields ==
  ASSUME NEW v, NEW ok \in BOOLEAN, ConvertGoogleMessage(v, TRUE, ok) # <<>>
  PROVE  PartOf(ConvertGoogleMessage(v, TRUE, ok)[1], v)
<1> DEFINE note == downloadPendingStatusMessage(v.Status)
           text == getTextPart(v)
           media == MediaOfMessage(v, ok)
           merged == MergeCaption(text, media)
           parts == ConvertGoogleMessage(v, TRUE, ok)
           m0 == MessageMetadata(v)
           shown == convertGoogleMedia(v, ok)
           pending2 == shown \in {"waiting", "failed"}
           base == [m0 EXCEPT !.MediaPartID = MediaPart, !.MediaID = MediaID(v), !.MediaPending = pending2]
<1>1. /\ DOMAIN m0 = MetaFields /\ m0.Type = v.Status /\ m0.GlobalStatusText = {} /\ m0.GroupReadBy = {}
      /\ m0.MediaPending = FALSE /\ m0.MediaID = "" /\ m0.TextHash = "" /\ m0.GlobalMediaStatus = ""
      /\ m0.GlobalPartCount = 0
  <2>1. DOMAIN m0 = MetaFields
    BY MetaIs
  <2>2. QED
    BY <2>1 DEF MessageMetadata
<1>2. v.media = "full" => shown \in {"full", "failed"}
  BY DEF convertGoogleMedia, hasInProgressMedia
<1>3. MediaID(v) = "f" => v.media = "full"
  BY DEF MediaID
<1> HIDE DEF m0, shown
<1>4. PICK id, n, p2 : id = MediaID(v) /\ n = MessageInfo(v) /\ p2 = pending2
  OBVIOUS
<1>5. PICK b : b = base
  OBVIOUS
<1>6. /\ DOMAIN b = MetaFields /\ b.Type = v.Status /\ b.GlobalStatusText = {} /\ b.GroupReadBy = {}
      /\ b.MediaID = id /\ b.TextHash = "" /\ b.GlobalMediaStatus = "" /\ b.GlobalPartCount = 0
  <2>1. b = [m0 EXCEPT !.MediaPartID = MediaPart, !.MediaID = id, !.MediaPending = p2]
    BY <1>4, <1>5
  <2>2. QED
    BY <1>1, <2>1 DEF MetaFields
<1> HIDE DEF base
<1>7. CASE v.media = "none" /\ HasTextPart(v)
  <2>1. parts[1] = text
    BY <1>7 DEF ConvertGoogleMessage
  <2>2. PICK x : x = [m0 EXCEPT !.TextHash = v.text, !.GlobalMediaStatus = note, !.GlobalPartCount = n]
    OBVIOUS
  <2>3. /\ x.Type = v.Status /\ x.GlobalStatusText = {} /\ x.GroupReadBy = {} /\ x.MediaPending = FALSE
        /\ x.TextHash = v.text /\ x.GlobalMediaStatus = note /\ x.GlobalPartCount = n /\ x.MediaID = ""
    <3> HIDE DEF note
    <3>1. QED
      BY <1>1, <2>2 DEF MetaFields
  <2>4. text.meta = x /\ text.shows = [text |-> v.text, note |-> note, media |-> "none"]
    BY <1>4, <2>2 DEF getTextPart, m0
  <2>5. text.shows.text = v.text /\ text.shows.note = note
    BY <2>4
  <2> HIDE DEF text, note, parts
  <2>6. PartOf(text, v)
    BY <1>4, <1>7, <2>3, <2>4, <2>5 DEF PartOf, note
  <2>7. QED
    BY <2>1, <2>6 DEF parts
<1>8. ASSUME v.media # "none"
      PROVE  /\ media.shows = [text |-> "", note |-> "", media |-> shown]
             /\ media.meta = IF HasTextPart(v) THEN b
                             ELSE [b EXCEPT !.GlobalPartCount = n, !.GlobalMediaStatus = note]
  BY <1>4, <1>5 DEF MediaOfMessage, base, m0, shown
<1>9. CASE v.media # "none" /\ ~HasTextPart(v)
  <2>1. parts[1] = media
    BY <1>9 DEF ConvertGoogleMessage
  <2>2. v.text = "" /\ note = ""
    BY <1>9 DEF HasTextPart
  <2>3. PICK x : x = [b EXCEPT !.GlobalPartCount = n, !.GlobalMediaStatus = note]
    OBVIOUS
  <2>4. /\ x.Type = v.Status /\ x.GlobalStatusText = {} /\ x.GroupReadBy = {} /\ x.MediaID = id
        /\ x.TextHash = "" /\ x.GlobalMediaStatus = note
    <3> HIDE DEF note
    <3>1. QED
      BY <1>6, <2>3 DEF MetaFields
  <2>5. media.meta = x /\ media.shows = [text |-> "", note |-> "", media |-> shown]
    BY <1>8, <1>9, <2>3
  <2> HIDE DEF media, note, parts
  <2>6. media.shows.text = "" /\ media.shows.note = "" /\ media.shows.media = shown
    <3>1. \A t, c : t = "" => LET s == [text |-> t, note |-> t, media |-> c] IN s.text = "" /\ s.note = "" /\ s.media = c
      OBVIOUS
    <3>2. QED
      BY <2>5, <3>1
  <2>7. PartOf(media, v)
    BY <1>2, <1>3, <1>4, <1>9, <2>2, <2>4, <2>5, <2>6 DEF PartOf, note
  <2>8. QED
    BY <2>1, <2>7 DEF parts
<1>10. CASE v.media # "none" /\ HasTextPart(v)
  <2>1. parts[1] = merged
    BY <1>10 DEF ConvertGoogleMessage
  <2>2. PICK part, a, c, d, e : part = merged /\ a = media.ID /\ c = shown /\ d = v.text /\ e = note
    OBVIOUS
  <2>3. media = [ID |-> a, shows |-> [text |-> "", note |-> "", media |-> c], meta |-> b]
    BY <1>5, <1>10, <2>2 DEF MediaOfMessage, base, m0, shown
  <2>4. merged = [media EXCEPT !.ID = "", !.shows.text = text.shows.text, !.shows.note = text.shows.note]
    BY DEF MergeCaption
  <2>5. text.shows.text = d /\ text.shows.note = e
    BY <2>2 DEF getTextPart
  <2> HIDE DEF media, merged, text, note, parts
  <2>6. part = [[ID |-> a, shows |-> [text |-> "", note |-> "", media |-> c], meta |-> b]
                   EXCEPT !.ID = "", !.shows.text = d, !.shows.note = e]
    BY <2>2, <2>3, <2>4, <2>5
  <2>7. part.meta = b /\ part.shows = [text |-> d, note |-> e, media |-> c]
    BY <2>6
  <2>8. part.shows.text = d /\ part.shows.note = e /\ part.shows.media = c
    BY <2>7
  <2>9. PartOf(part, v)
    BY <1>2, <1>3, <1>4, <1>6, <1>10, <2>2, <2>7, <2>8 DEF PartOf, note
  <2>10. QED
    BY <2>1, <2>2, <2>9 DEF parts
<1>11. v.media = "none" => HasTextPart(v)
  BY DEF ConvertGoogleMessage
<1>12. QED
  BY <1>7, <1>9, <1>10, <1>11
-----------------------------------------------------------------------------
LEMMA CountedIs ==
  ASSUME ReceiptType, NEW sent, receipts' = Counted(sent)
  PROVE  /\ ReceiptType'
         /\ \A k \in Kinds : receipts'[k] = receipts[k] + (IF k \in sent THEN 1 ELSE 0) /\ receipts[k] \in Nat
<1>1. DOMAIN receipts = Kinds /\ \A k \in Kinds : receipts[k] \in Nat
  BY DEF ReceiptType
<1> DEFINE one(k) == IF k \in sent THEN 1 ELSE 0
<1>2. \A k \in Kinds : one(k) \in {0, 1}
  OBVIOUS
<1>3. receipts' = [k \in Kinds |-> receipts[k] + one(k)]
  BY <1>1 DEF Counted
<1> HIDE DEF one
<1>4. \A k \in Kinds : receipts'[k] = receipts[k] + one(k) /\ receipts[k] + one(k) \in Nat
  BY <1>1, <1>2, <1>3
<1>5. ReceiptType'
  BY <1>3, <1>4 DEF ReceiptType
<1>6. QED
  BY <1>1, <1>4, <1>5 DEF one

(* Which receipts HandleExisting sends.                                    *)
LEMMA SentKinds ==
  ASSUME NEW meta, NEW v \in MessageType, NEW p
  PROVE  LET sent == ReceiptsSent(meta, v, p) IN
         /\ "delivered" \in sent <=> needsMSSDeliveryEvent(meta, v, p)
         /\ "read" \in sent <=> needsReadReceipt(meta, v, p)
         /\ \A k \in Readers : k \in sent <=> /\ needsGroupReadReceipt(meta, v, p) /\ ~needsReadReceipt(meta, v, p)
                                              /\ k \in v.ReadBy /\ k \notin meta.GroupReadBy
<1>1. v.ReadBy \subseteq Readers
  BY DEF MessageType
<1>2. "delivered" \notin v.ReadBy /\ "read" \notin v.ReadBy
  BY <1>1 DEF Readers
<1>3. \A k \in Readers : k # "delivered" /\ k # "read"
  BY DEF Readers
<1>4. QED
  BY <1>2, <1>3 DEF ReceiptsSent

(* HandleExisting for the one row r: nothing is to be done, or its copy is *)
(* to be saved.                                                            *)
ExistingOne(p, r) ==
    LET v == handler[p].v IN
    /\ handler[p].pc = "existing" /\ handler[p].rows = {r} /\ rows = {r} /\ rows' = {r} /\ IsRow(r)
    /\ ~Downgrade(v, {r}) /\ v \in MessageType
    /\ handler'[p].v = v /\ \A q \in Convs : q # p => handler'[q] = handler[q] /\ handler[q].pc = "idle"
    /\ UNCHANGED <<scenario, phone, queue, rooms, reactions, pending, send, restarts, aged, raced, overtaken>>
    /\ \/ NothingChanged({r}, v, p) /\ handler'[p].pc = "reactions" /\ UNCHANGED <<events, receipts>>
       \/ /\ ~NothingChanged({r}, v, p) /\ handler'[p].pc = "save"
          /\ handler'[p].rows = {[r EXCEPT !.meta = MetaAfter(r.meta, v, p)]}
          /\ handler'[p].resync = doMessageResync({r}, v, p)
          /\ receipts' = Counted(ReceiptsSent(r.meta, v, p))

LEMMA ExistingIs ==
  ASSUME MessageInv, StatusInv, WaysInv, Alone, RowInv, VisibleInv, NEW p \in Convs, HandleExisting(p)
  PROVE  \E r : ExistingOne(p, r) /\ Placed(r)
<1> DEFINE v == handler[p].v
           copy == handler[p].rows
           main == Main(copy)
           changed == [main EXCEPT !.meta = MetaAfter(main.meta, v, p)]
           resync == doMessageResync(copy, v, p)
           set == (copy \ {main}) \cup {changed}
<1>1. /\ handler[p].pc = "existing" /\ ~Downgrade(v, copy)
      /\ \/ NothingChanged(copy, v, p) /\ handler' = [handler EXCEPT ![p].pc = "reactions"] /\ UNCHANGED <<events, receipts>>
         \/ /\ ~NothingChanged(copy, v, p) /\ receipts' = Counted(ReceiptsSent(main.meta, v, p))
            /\ handler' = [handler EXCEPT ![p].pc = "save", ![p].rows = set, ![p].resync = resync]
      /\ UNCHANGED <<scenario, phone, queue, rows, rooms, reactions, pending, send, restarts, aged, raced, overtaken>>
  BY Zenon DEF HandleExisting, sending, races
<1>2. (\A q \in Convs : q # p => handler[q].pc = "idle") /\ v \in MessageType
  BY <1>1, AtWork
<1>3. CopyOf(p) /\ VisibleAt(p)
  BY <1>2, PlacedAt
<1>4. PICK r : rows = {r} /\ Placed(r)
  BY <1>1, <1>2, <1>3, PlacedAt DEF CopyOf
<1>5. copy = {r} /\ main = r /\ IsRow(r)
  BY <1>1, <1>3, <1>4, MainOne DEF CopyOf, Placed
<1>6. HandlerType
  BY DEF MessageInv
<1>7. set = {[r EXCEPT !.meta = MetaAfter(r.meta, v, p)]}
  BY <1>5
<1> HIDE DEF set, resync, main, copy
<1>8. CASE NothingChanged(copy, v, p) /\ handler' = [handler EXCEPT ![p].pc = "reactions"] /\ UNCHANGED <<events, receipts>>
  <2>1. /\ \A q \in Convs : q # p => handler'[q] = handler[q]
        /\ handler'[p].pc = "reactions" /\ handler'[p].v = v
    BY <1>6, <1>8, HandlerMoves
  <2>2. QED
    BY <1>1, <1>2, <1>4, <1>5, <1>8, <2>1 DEF ExistingOne, copy
<1>9. CASE /\ ~NothingChanged(copy, v, p) /\ receipts' = Counted(ReceiptsSent(main.meta, v, p))
           /\ handler' = [handler EXCEPT ![p].pc = "save", ![p].rows = set, ![p].resync = resync]
  <2>1. ASSUME NEW a, NEW b, handler' = [handler EXCEPT ![p].pc = "save", ![p].rows = a, ![p].resync = b]
        PROVE  /\ \A q \in Convs : q # p => handler'[q] = handler[q]
               /\ handler'[p].pc = "save" /\ handler'[p].v = handler[p].v
               /\ handler'[p].rows = a /\ handler'[p].resync = b
    BY ONLY <1>6, <2>1, p \in Convs DEF HandlerType
  <2>2. /\ \A q \in Convs : q # p => handler'[q] = handler[q]
        /\ handler'[p].pc = "save" /\ handler'[p].v = v
        /\ handler'[p].rows = set /\ handler'[p].resync = resync
    BY <1>9, <2>1
  <2>3. QED
    BY <1>1, <1>2, <1>4, <1>5, <1>7, <1>9, <2>2 DEF ExistingOne, copy, resync
<1>10. QED
  BY <1>1, <1>8, <1>9

(* HandleEdit for the one row r.                                           *)
LEMMA EditIs ==
  ASSUME MessageInv, StatusInv, WaysInv, Alone, RowInv, VisibleInv, NEW p \in Convs, HandleEdit(p)
  PROVE  /\ \E r : \E ok \in BOOLEAN : rows = {r} /\ Placed(r) /\ OneEdited(p, r, ok)
         /\ handler[p].pc = "edit" /\ handler'[p].pc = "reactions" /\ handler'[p].v = handler[p].v
         /\ \A q \in Convs : q # p => handler'[q] = handler[q] /\ handler[q].pc = "idle"
         /\ UNCHANGED <<scenario, phone, queue, rooms, receipts, reactions, pending, send, restarts,
                        aged, raced, overtaken>>
<1>1. /\ handler[p].pc = "edit" /\ handler' = [handler EXCEPT ![p].pc = "reactions"]
      /\ UNCHANGED <<scenario, phone, queue, rooms, receipts, reactions, pending, send, restarts,
                        aged, raced, overtaken>>
  BY DEF HandleEdit, sending, races
<1>2. PICK ok \in BOOLEAN : ConvertEdit(p, ok)
  BY DEF HandleEdit
<1>3. \A q \in Convs : q # p => handler[q].pc = "idle"
  BY <1>1, AtWork
<1>4. CopyOf(p) /\ VisibleAt(p)
  BY <1>3, PlacedAt
<1>5. PICK r : rows = {r} /\ Placed(r)
  BY <1>1, <1>3, <1>4, PlacedAt DEF CopyOf
<1>6. handler[p].rows = {r}
  BY <1>1, <1>4, <1>5 DEF CopyOf
<1>7. OneEdited(p, r, ok)
  <2>1. events \in Seq(MatrixEvent)
    BY DEF MessageInv, ShownType
  <2>2. IsRow(r) /\ r.PartID = "" /\ r.MXID \in 1..Len(events)
    BY <1>5 DEF Placed
  <2>3. rows = {r}
    BY <1>5
  <2>4. QED
    BY <1>2, <1>6, <2>1, <2>2, <2>3, EditOne
<1>8. HandlerType
  BY DEF MessageInv
<1>9. /\ \A q \in Convs : q # p => handler'[q] = handler[q]
      /\ handler'[p].pc = "reactions" /\ handler'[p].v = handler[p].v
  BY <1>1, <1>8, HandlerMoves
<1>10. QED
  BY <1>1, <1>3, <1>5, <1>7, <1>9

(* ConvertMessage makes one row at most.                                   *)
LEMMA NewIs ==
  ASSUME MessageInv, StatusInv, WaysInv, Alone, RowInv, VisibleInv, NEW p \in Convs, NEW ok \in BOOLEAN,
         ConvertMessage(p, ok)
  PROVE  LET v == handler[p].v
             parts == ConvertGoogleMessage(v, TRUE, ok)
         IN  /\ rows = {} /\ v \in MessageType /\ handler[p].pc = "new" /\ handler'[p] = Idle
             /\ \A q \in Convs : q # p => handler'[q] = handler[q] /\ handler[q].pc = "idle"
             /\ UNCHANGED <<scenario, phone, queue, rooms, receipts, reactions, pending, send, restarts,
                            aged, raced, overtaken>>
             /\ parts = <<>> => rows' = {} /\ Len(events') = Len(events)
             /\ parts # <<>> => /\ rows' = {Row("", p, Len(events) + 1, v, parts[1].meta)}
                                /\ Len(events') = Len(events) + 1
                                /\ events'[Len(events) + 1] = NewEvent(p, parts[1])
             /\ \A i \in 1..Len(events) : events'[i] = events[i]
<1> DEFINE v == handler[p].v
           parts == ConvertGoogleMessage(v, TRUE, ok)
           n == Len(events)
<1>1. /\ handler[p].pc = "new" /\ handler' = [handler EXCEPT ![p] = Idle]
      /\ UNCHANGED <<scenario, phone, queue, rooms, receipts, reactions, pending, send, restarts,
                            aged, raced, overtaken>>
      /\ events' = events \o [i \in DOMAIN parts |-> NewEvent(p, parts[i])]
      /\ rows' = rows \cup {Row(parts[i].ID, p, n + i, v, parts[i].meta) :
                               i \in {j \in DOMAIN parts : \A r \in rows : r.PartID # parts[j].ID}}
  BY Zenon DEF ConvertMessage, sending, races, Done
<1>2. (\A q \in Convs : q # p => handler[q].pc = "idle") /\ v \in MessageType
  BY <1>1, AtWork
<1>3. handler'[p] = Idle /\ \A q \in Convs : q # p => handler'[q] = handler[q]
  <2>1. HandlerType
    BY DEF MessageInv
  <2>2. QED
    BY <1>1, <2>1, HandlerMoves
<1>4. rows = {}
  <2>1. CopyOf(p)
    BY DEF RowInv
  <2>2. QED
    BY <1>1, <2>1 DEF CopyOf
<1> DEFINE R(i) == Row(parts[i].ID, p, n + i, v, parts[i].meta)
           F(i) == NewEvent(p, parts[i])
           fresh == [i \in DOMAIN parts |-> F(i)]
<1>5. rows' = {R(i) : i \in DOMAIN parts} /\ events' = events \o fresh
  BY <1>1, <1>4
<1>5a. events \in Seq(MatrixEvent) /\ n \in Nat
  BY LenProperties DEF MessageInv, ShownType
<1>6. ASSUME parts = <<>>
      PROVE  rows' = {} /\ Len(events') = n /\ \A i \in 1..n : events'[i] = events[i]
  <2> HIDE DEF parts, R, F
  <2>1. DOMAIN <<>> = {}
    OBVIOUS
  <2>2. rows' = {} /\ fresh = <<>>
    <3>1. DOMAIN parts = 1..0
      BY <1>6, <2>1
    <3>2. fresh = [i \in 1..0 |-> fresh[i]]
      BY <3>1
    <3>3. QED
      BY <1>5, <1>6, <2>1, <3>2, NoneIs
  <2> HIDE DEF fresh
  <2>3. events \o <<>> = events
    BY <1>5a
  <2>4. QED
    BY <1>5, <2>2, <2>3
<1>7. ASSUME parts # <<>>
      PROVE  /\ rows' = {Row("", p, n + 1, v, parts[1].meta)} /\ Len(events') = n + 1
             /\ events'[n + 1] = NewEvent(p, parts[1]) /\ \A i \in 1..n : events'[i] = events[i]
  <2>1. DOMAIN parts = {1} /\ parts[1].ID = ""
    BY <1>7, PartOne
  <2>2. R(1) = Row("", p, n + 1, v, parts[1].meta)
    BY <2>1
  <2>3. fresh = <<F(1)>>
    <3> HIDE DEF F, parts
    <3>1. fresh = [i \in 1..1 |-> F(1)]
      BY <2>1, OneIs
    <3>2. QED
      BY <3>1, OneOf
  <2> HIDE DEF R, parts
  <2>4. rows' = {R(1)}
    BY <1>5, <2>1
  <2> DEFINE e == F(1)
  <2>5. events' = events \o <<e>>
    BY <1>5, <2>3
  <2> HIDE DEF e, F, fresh
  <2>6. events'[n + 1] = e /\ Len(events') = n + 1 /\ \A i \in 1..n : events'[i] = events[i]
    <3>1. ASSUME NEW x
          PROVE  /\ (events \o <<x>>)[n + 1] = x /\ Len(events \o <<x>>) = n + 1
                 /\ \A i \in 1..n : (events \o <<x>>)[i] = events[i]
      BY <1>5a
    <3>2. QED
      BY <2>5, <3>1
  <2>7. QED
    BY <2>2, <2>4, <2>6 DEF e, F
<1>8. QED
  BY <1>1, <1>2, <1>3, <1>4, <1>6, <1>7
-----------------------------------------------------------------------------
LEMMA OnceKept ==
  ASSUME Once, NEW p \in Convs, UNCHANGED <<rows, receipts>>, handler[p].pc # "save", handler'[p].pc # "save",
         \A q \in Convs : q # p => handler'[q] = handler[q]
  PROVE  Once'
<1>1. \A r : Remembered(r)' = Remembered(r)
  BY DEF Remembered
<1>2. \A q \in Convs : (handler'[q].pc = "save" <=> handler[q].pc = "save")
                       /\ (handler[q].pc = "save" => handler'[q] = handler[q])
  OBVIOUS
<1>3. QED
  BY <1>1, <1>2 DEF Once

(* Flags ConvertEdit carries over, and those HandleExisting sets.          *)
LEMMA FlagsCarried ==
  ASSUME NEW prev, NEW new, DOMAIN new = MetaFields
  PROVE  LET kept == KeepFlags(prev, new) IN
         /\ kept.MSSDeliverySent = prev.MSSDeliverySent /\ kept.ReadReceiptSent = prev.ReadReceiptSent
         /\ kept.Type = new.Type /\ kept.GlobalStatusText = new.GlobalStatusText
         /\ kept.GroupReadBy = new.GroupReadBy /\ kept.TextHash = new.TextHash
         /\ kept.GlobalMediaStatus = new.GlobalMediaStatus /\ kept.GlobalPartCount = new.GlobalPartCount
         /\ kept.MediaID = new.MediaID
<1>1. PICK kept : kept = KeepFlags(prev, new)
  OBVIOUS
<1>2. PICK a, b, c, d, e : /\ a = prev.IsOutgoing /\ b = prev.MSSSent /\ c = prev.MSSFailSent
                           /\ d = prev.MSSDeliverySent /\ e = prev.ReadReceiptSent
  OBVIOUS
<1>3. kept = [new EXCEPT !.IsOutgoing = a, !.MSSSent = b, !.MSSFailSent = c, !.MSSDeliverySent = d, !.ReadReceiptSent = e]
  BY <1>1, <1>2 DEF KeepFlags
<1>4. /\ kept.MSSDeliverySent = d /\ kept.ReadReceiptSent = e
      /\ kept.Type = new.Type /\ kept.GlobalStatusText = new.GlobalStatusText
      /\ kept.GroupReadBy = new.GroupReadBy /\ kept.TextHash = new.TextHash
      /\ kept.GlobalMediaStatus = new.GlobalMediaStatus /\ kept.GlobalPartCount = new.GlobalPartCount
      /\ kept.MediaID = new.MediaID
  BY <1>3 DEF MetaFields
<1>5. QED
  BY <1>1, <1>2, <1>4

(* HandleExisting sends a receipt of a kind the row does not remember.     *)
LEMMA ExistingOnce ==
  ASSUME ReceiptType, Once, NEW p \in Convs, NEW r, ExistingOne(p, r)
  PROVE  ReceiptType' /\ Once'
<1> DEFINE v == handler[p].v
           after == MetaAfter(r.meta, v, p)
           c == [r EXCEPT !.meta = after]
<1>1. /\ handler[p].pc = "existing" /\ rows = {r} /\ rows' = {r} /\ IsRow(r) /\ v \in MessageType
      /\ \A q \in Convs : q # p => handler'[q] = handler[q] /\ handler[q].pc = "idle"
      /\ \/ handler'[p].pc = "reactions" /\ UNCHANGED receipts
         \/ /\ handler'[p].pc = "save" /\ handler'[p].rows = {c}
            /\ receipts' = Counted(ReceiptsSent(r.meta, v, p))
  BY DEF ExistingOne
<1>2. CASE handler'[p].pc = "reactions" /\ UNCHANGED receipts
  <2>1. Once'
    BY <1>1, <1>2, OnceKept
  <2>2. QED
    BY <1>2, <2>1 DEF ReceiptType
<1>3. CASE /\ handler'[p].pc = "save" /\ handler'[p].rows = {c}
           /\ receipts' = Counted(ReceiptsSent(r.meta, v, p))
  <2> DEFINE sent == ReceiptsSent(r.meta, v, p)
             delivered == needsMSSDeliveryEvent(r.meta, v, p)
             read == needsReadReceipt(r.meta, v, p)
  <2>1. ("delivered" \in sent <=> delivered) /\ ("read" \in sent <=> read)
    BY <1>1, SentKinds
  <2>2. (delivered => ~r.meta.MSSDeliverySent) /\ (read => ~r.meta.ReadReceiptSent)
    BY DEF needsMSSDeliveryEvent, needsReadReceipt
  <2>3. Remembered(r) /\ receipts["delivered"] <= 1 /\ receipts["read"] <= 1
    <3>1. \A q \in Convs : handler[q].pc # "save"
      BY <1>1
    <3>2. QED
      BY <1>1, <3>1 DEF Once
  <2>4. c.meta = after
    BY <1>1 DEF IsRow, RowFields
  <2>5. /\ after.MSSDeliverySent = (r.meta.MSSDeliverySent \/ delivered)
        /\ after.ReadReceiptSent = (r.meta.ReadReceiptSent \/ read)
    BY <1>1, AfterID DEF IsRow
  <2> HIDE DEF sent, delivered, read, c, after
  <2>6. /\ ReceiptType' /\ receipts["delivered"] \in Nat /\ receipts["read"] \in Nat
        /\ receipts'["delivered"] = receipts["delivered"] + (IF "delivered" \in sent THEN 1 ELSE 0)
        /\ receipts'["read"] = receipts["read"] + (IF "read" \in sent THEN 1 ELSE 0)
    <3>1. "delivered" \in Kinds /\ "read" \in Kinds
      BY DEF Kinds
    <3>2. QED
      BY <1>3, <3>1, CountedIs DEF sent
  <2>7. receipts'["delivered"] <= 1 /\ (receipts'["delivered"] > 0 => after.MSSDeliverySent)
    <3>1. CASE delivered
      <4>1. receipts["delivered"] = 0
        BY <2>2, <2>3, <2>6, <3>1 DEF Remembered
      <4>2. "delivered" \in sent
        BY <2>1, <3>1
      <4>3. receipts'["delivered"] = 1
        BY <2>6, <4>1, <4>2
      <4>4. after.MSSDeliverySent = TRUE
        BY <2>5, <3>1
      <4>5. QED
        BY <4>3, <4>4
    <3>2. CASE ~delivered
      <4>1. receipts'["delivered"] = receipts["delivered"]
        BY <2>1, <2>6, <3>2
      <4>2. QED
        BY <2>3, <2>5, <4>1 DEF Remembered
    <3>3. QED
      BY <3>1, <3>2
  <2>8. receipts'["read"] <= 1 /\ (receipts'["read"] > 0 => after.ReadReceiptSent)
    <3>1. CASE read
      <4>1. receipts["read"] = 0
        BY <2>2, <2>3, <2>6, <3>1 DEF Remembered
      <4>2. "read" \in sent
        BY <2>1, <3>1
      <4>3. receipts'["read"] = 1
        BY <2>6, <4>1, <4>2
      <4>4. after.ReadReceiptSent = TRUE
        BY <2>5, <3>1
      <4>5. QED
        BY <4>3, <4>4
    <3>2. CASE ~read
      <4>1. receipts'["read"] = receipts["read"]
        BY <2>1, <2>6, <3>2
      <4>2. QED
        BY <2>3, <2>5, <4>1 DEF Remembered
    <3>3. QED
      BY <3>1, <3>2
  <2>9. \A d \in handler'[p].rows : Remembered(d)'
    <3>1. PICK x : x = c
      OBVIOUS
    <3>2. Remembered(x)'
      BY <2>4, <2>7, <2>8, <3>1 DEF Remembered
    <3>3. QED
      BY <1>3, <3>1, <3>2
  <2>10. \A q \in Convs : handler'[q].pc = "save" => q = p
    BY <1>1
  <2>11. QED
    BY <1>1, <1>3, <2>6, <2>7, <2>8, <2>9, <2>10 DEF Once
<1>4. QED
  BY <1>1, <1>2, <1>3

LEMMA PortalOnce ==
  ASSUME MessageInv, StatusInv, WaysInv, Alone, RowInv, VisibleInv, ReceiptType, Once, NEW p \in Convs,
         PortalStep(p), ~Resent, ~Deleted
  PROVE  ReceiptType' /\ Once'
<1>0. Idle.pc = "idle" /\ HandlerType
  BY DEF Idle, MessageInv
<1>1. CASE HandleExisting(p)
  BY <1>1, ExistingIs, ExistingOnce
<1>2. CASE HandleExistingIgnores(p) \/ HandleEditPanics(p) \/ SyncReactions(p) \/ NewIgnored(p)
  <2>1. /\ handler[p].pc # "save" /\ handler' = [handler EXCEPT ![p] = Idle]
        /\ UNCHANGED <<rows, receipts>>
    BY <1>2 DEF HandleExistingIgnores, HandleEditPanics, SyncReactions, NewIgnored, Done, matrix
  <2>2. handler'[p] = Idle /\ \A q \in Convs : q # p => handler'[q] = handler[q]
    BY <1>0, <2>1, HandlerMoves
  <2>3. Once'
    BY <1>0, <2>1, <2>2, OnceKept
  <2>4. QED
    BY <2>1, <2>3 DEF ReceiptType
<1>3. CASE Begin(p)
  <2>1. ~ClaimEcho(p)
    BY <1>3 DEF Begin, ClaimEcho
  <2>2. /\ handler[p].pc = "idle" /\ UNCHANGED <<rows, receipts>>
        /\ \A q \in Convs : q # p => handler'[q] = handler[q]
        /\ UNCHANGED handler \/ handler'[p].pc \in {"remove", "new", "existing"}
    BY <1>0, <1>3, <2>1, Began
  <2>3. Once'
    BY <2>2, OnceKept
  <2>4. QED
    BY <2>2, <2>3 DEF ReceiptType
<1>4. CASE ClaimEcho(p)
  <2>1. /\ handler[p].pc = "idle" /\ UNCHANGED receipts
        /\ \A q \in Convs : q # p => handler'[q] = handler[q]
        /\ handler'[p].pc = "existing" /\ pending /\ p = Outgoing.ConversationID
    BY <1>0, <1>4, Began
  <2>2. Stays /\ rows = {} /\ \A q \in Convs : handler[q].pc = "idle"
    <3>1. Stays
      BY <2>1 DEF WaysInv, Alone
    <3>2. QED
      BY <2>1, <3>1 DEF StatusInv, ChatInv, PendingInv, Untouched, OnePortal
  <2>3. receipts["delivered"] = 0 /\ receipts["read"] = 0
    BY <2>2 DEF Once
  <2>4. \A r : Remembered(r)'
    BY <2>1, <2>3 DEF Remembered
  <2>5. \A q \in Convs : handler'[q].pc # "save"
    BY <2>1, <2>2
  <2>6. QED
    BY <2>1, <2>3, <2>4, <2>5 DEF ReceiptType, Once
<1>5. CASE SaveParts(p)
  <2>1. /\ handler[p].pc = "save" /\ UNCHANGED receipts
        /\ handler' = [handler EXCEPT ![p].pc = IF handler[p].resync THEN "edit" ELSE "reactions"]
    BY <1>5 DEF SaveParts, matrix
  <2>2. rows' = handler[p].rows /\ rows # {} /\ rows' # {}
    BY <1>5, SavePlace
  <2>3. handler'[p].pc # "save" /\ \A q \in Convs : q # p => handler'[q] = handler[q]
    <3>1. ASSUME NEW place, handler' = [handler EXCEPT ![p].pc = place]
          PROVE  handler'[p].pc = place /\ \A q \in Convs : q # p => handler'[q] = handler[q]
      BY ONLY <1>0, <3>1, p \in Convs DEF HandlerType
    <3>2. PICK place \in {"edit", "reactions"} : place = IF handler[p].resync THEN "edit" ELSE "reactions"
      OBVIOUS
    <3>3. handler' = [handler EXCEPT ![p].pc = place]
      BY <2>1, <3>2
    <3>4. QED
      BY <3>1, <3>2, <3>3
  <2>4. \A q \in Convs : q # p => handler[q].pc = "idle"
    BY <2>1, AtWork
  <2>5. \A r : Remembered(r)' = Remembered(r)
    BY <2>1 DEF Remembered
  <2>6. \A r \in rows' : Remembered(r)'
    BY <2>1, <2>2, <2>5 DEF Once
  <2>7. QED
    BY <2>1, <2>2, <2>3, <2>4, <2>6 DEF ReceiptType, Once
<1>6. CASE HandleEdit(p)
  <2>1. PICK r : \E ok \in BOOLEAN : rows = {r} /\ Placed(r) /\ OneEdited(p, r, ok)
    BY <1>6, EditIs
  <2>2. PICK ok \in BOOLEAN : rows = {r} /\ Placed(r) /\ OneEdited(p, r, ok)
    BY <2>1
  <2>3. /\ handler[p].pc = "edit" /\ handler'[p].pc = "reactions" /\ UNCHANGED receipts
        /\ \A q \in Convs : q # p => handler'[q] = handler[q] /\ handler[q].pc = "idle"
    BY <1>6, EditIs
  <2> DEFINE id == IF r.Room = p THEN r.MXID ELSE Len(events) + 1
             part == ConvertGoogleMessage(handler[p].v, TRUE, ok)[1]
             meta == KeepFlags(r.meta, part.meta)
             new == EditedRow(r, p, id, meta)
  <2>4. rows' = {new} /\ NewMeta(part.meta)
    BY <2>2 DEF OneEdited
  <2>5. meta.MSSDeliverySent = r.meta.MSSDeliverySent /\ meta.ReadReceiptSent = r.meta.ReadReceiptSent
    BY <2>4, FlagsCarried DEF NewMeta
  <2>6. Remembered(r)
    <3>1. \A q \in Convs : handler[q].pc # "save"
      BY <2>3
    <3>2. QED
      BY <2>2, <3>1 DEF Once
  <2>7. new.meta = meta
    <3>1. IsRow(r)
      BY <2>2 DEF Placed
    <3> HIDE DEF id, meta
    <3>2. PICK x, m : x = id /\ m = meta
      OBVIOUS
    <3>3. EditedRow(r, p, x, m).meta = m
      BY ONLY <3>1 DEF EditedRow, IsRow, RowFields
    <3>4. QED
      BY <3>2, <3>3
  <2> HIDE DEF new, meta
  <2>8. PICK x : x = new
    OBVIOUS
  <2>9. Remembered(x)'
    <3>1. x.meta = meta
      BY <2>7, <2>8
    <3>2. x.meta.MSSDeliverySent = r.meta.MSSDeliverySent /\ x.meta.ReadReceiptSent = r.meta.ReadReceiptSent
      BY <2>5, <3>1
    <3>3. QED
      BY <2>3, <2>6, <3>2 DEF Remembered
  <2>10. QED
    BY <2>3, <2>4, <2>8, <2>9, <2>2 DEF ReceiptType, Once
<1>7. CASE \E ok \in BOOLEAN : ConvertMessage(p, ok)
  <2>1. /\ rows = {} /\ handler'[p] = Idle /\ UNCHANGED receipts
        /\ \A q \in Convs : q # p => handler'[q] = handler[q] /\ handler[q].pc = "idle"
    BY <1>7, NewIs
  <2>2. receipts["delivered"] = 0 /\ receipts["read"] = 0
    BY <2>1 DEF Once
  <2>3. \A r : Remembered(r)'
    BY <2>1, <2>2 DEF Remembered
  <2>4. \A q \in Convs : handler'[q].pc # "save"
    BY <1>0, <2>1
  <2>5. QED
    BY <2>1, <2>2, <2>3, <2>4 DEF ReceiptType, Once
<1>8. CASE Remove(p)
  <2>1. handler[p].pc = "remove"
    BY <1>8 DEF Remove
  <2>2. \E i \in 1..Len(phone) : phone[i].Status = MESSAGE_DELETED
    BY <2>1, AtWork
  <2>3. Deleted
    BY <2>2, LenProperties DEF Deleted, MessageInv, PhoneType
  <2>4. QED
    BY <2>3
<1>9. CASE HandleExistingResends(p)
  BY <1>9, ResendPlace
<1>10. QED
  BY <1>1, <1>2, <1>3, <1>4, <1>5, <1>6, <1>7, <1>8, <1>9 DEF PortalStep

LEMMA OnceInit == Init => OnceInv
<1> SUFFICES ASSUME Init PROVE OnceInv
  OBVIOUS
<1>1. receipts = [k \in Kinds |-> 0] /\ handler = [p \in Convs |-> Idle] /\ rows = {}
  BY DEF Init
<1>2. \A p \in Convs : handler[p].pc # "save"
  BY <1>1 DEF Idle
<1>3. "delivered" \in Kinds /\ "read" \in Kinds
  BY DEF Kinds
<1>4. receipts["delivered"] = 0 /\ receipts["read"] = 0
  BY <1>1, <1>3
<1>5. QED
  BY <1>1, <1>2, <1>4 DEF OnceInv, Once, ReceiptType

(* Only HandleExisting sends receipts.                                     *)
LEMMA ReceiptKept ==
  ASSUME [Next]_vars, ReceiptType
  PROVE  ReceiptType' /\ ((~\E p \in Convs : HandleExisting(p)) => UNCHANGED receipts)
<1>1. CASE ~\E p \in Convs : HandleExisting(p)
  <2>1. UNCHANGED receipts
    BY <1>1 DEF Next, PhoneUpdate, Age, FullMediaResponse, HandleMatrixMessage, PhoneTakes, SendOK, SendFailed,
       PortalStep, Begin, ClaimEcho, HandleExistingIgnores, HandleExistingResends, SaveParts, HandleEdit,
       HandleEditPanics, SyncReactions, NewIgnored, ConvertMessage, Remove, Restart, vars, matrix
  <2>2. QED
    BY <2>1 DEF ReceiptType
<1>2. ASSUME NEW p \in Convs, HandleExisting(p) PROVE ReceiptType'
  <2>1. PICK sent : UNCHANGED receipts \/ receipts' = Counted(sent)
    BY <1>2 DEF HandleExisting
  <2>2. QED
    BY <2>1, CountedIs DEF ReceiptType
<1>3. QED
  BY <1>1, <1>2

LEMMA OnceStep == MessageInv /\ MessageInv' /\ StatusInv /\ WaysInv /\ PlaceInv /\ OnceInv /\ [Next]_vars => OnceInv'
<1> SUFFICES ASSUME MessageInv, MessageInv', StatusInv, WaysInv, PlaceInv, OnceInv, [Next]_vars PROVE OnceInv'
  OBVIOUS
<1>1. Onward
  BY StepOnward
<1>2. ReceiptType'
  BY ReceiptKept DEF OnceInv
<1> SUFFICES ASSUME Alone', ~Resent', ~Deleted' PROVE Once'
  BY <1>2 DEF OnceInv
<1>3. Alone /\ ~Resent /\ ~Deleted
  BY <1>1, SaysGrow DEF Onward
<1>4. RowInv /\ VisibleInv /\ ReceiptType /\ Once
  BY <1>3 DEF PlaceInv, OnceInv
<1>5. ~Restart
  <2>1. Restart => restarts' # 0
    BY DEF Restart, MessageInv, ShownType
  <2>2. QED
    BY <2>1 DEF Alone
<1>6. ASSUME NEW p \in Convs, PortalStep(p) PROVE Once'
  BY <1>3, <1>4, <1>6, PortalOnce
<1>7. CASE ~\E p \in Convs : PortalStep(p)
  <2>1. UNCHANGED <<handler, rows, receipts>>
    BY <1>5, <1>7 DEF Next, PhoneUpdate, Age, FullMediaResponse, HandleMatrixMessage, PhoneTakes, SendOK, SendFailed,
                      vars, matrix
  <2>2. \A r : Remembered(r)' = Remembered(r)
    BY <2>1 DEF Remembered
  <2>3. QED
    BY <1>4, <2>1, <2>2 DEF Once
<1>8. QED
  BY <1>6, <1>7
-----------------------------------------------------------------------------
LEMMA TailInit == Init => TailInv
<1> SUFFICES ASSUME Init, Stays PROVE TailInv
  BY DEF TailInv
<1>1. phone = <<>> /\ queue = [p \in Convs |-> <<>>] /\ handler = [p \in Convs |-> Idle] /\ send = "no"
      /\ scenario \in Scenarios
  BY DEF Init
<1>2. Chat \in Convs
  BY <1>1, ChatIs
<1>3. queue[Chat] = <<>> /\ handler[Chat].pc = "idle"
  BY <1>1, <1>2 DEF Idle
<1>4. Len(phone) = 0 /\ Len(queue[Chat]) = 0
  BY <1>1, <1>3
<1>5. QED
  BY <1>1, <1>3, <1>4 DEF TailInv, Taken

(* A version is taken from the front of the queue, others come to its end. *)
LEMMA TailStep == MessageInv /\ StatusInv /\ WaysInv /\ TailInv /\ [Next]_vars => TailInv'
<1> SUFFICES ASSUME MessageInv, StatusInv, WaysInv, TailInv, [Next]_vars, Stays', restarts' = 0 PROVE TailInv'
  BY DEF TailInv
<1>0. HandlerType /\ PhoneType /\ Idle.pc = "idle"
  BY DEF MessageInv, Idle
<1>1. Onward
  BY StepOnward
<1>2. ~Restart /\ restarts = 0
  <2>1. Restart => restarts' # 0
    BY DEF Restart, MessageInv, ShownType
  <2>2. QED
    BY <1>1, <2>1 DEF Onward
<1>3. Stays /\ Chat' = Chat
  BY <1>1, ScenarioKept DEF Onward
<1>4. Chat \in Convs /\ OnePortal /\ \A v \in scenario.versions : v.ConversationID = Chat
  BY <1>0, <1>3, ChatIs DEF PhoneType, StatusInv, ChatInv
<1> DEFINE n == Len(phone)
           m == Len(queue[Chat])
<1>5. /\ queue[Chat] \in Seq(Nat) /\ n \in Nat /\ m \in Nat /\ n - m \in 0..n
      /\ \A i \in 1..m : queue[Chat][i] = n - m + i
      /\ handler[Chat].pc # "idle" => n - m > 0 /\ handler[Chat].v = phone[n - m]
      /\ send \notin {"no", "sending", "failed"} => phone # <<>>
      /\ \A i \in 1..n : phone[i].ConversationID = Chat
  BY <1>0, <1>2, <1>3, <1>4, LenProperties DEF PhoneType, TailInv, Taken
<1>6. ASSUME NEW v \in MessageType, phone' = Append(phone, v), UNCHANGED handler, v.ConversationID = Chat,
             queue' = [queue EXCEPT ![Chat] = Append(@, Len(phone) + 1)]
      PROVE  TailInv'
  <2>1. Len(phone') = n + 1 /\ phone'[n + 1] = v /\ \A i \in 1..n : phone'[i] = phone[i]
    BY <1>0, <1>6, AppendProperties DEF PhoneType
  <2>2. queue'[Chat] = Append(queue[Chat], n + 1)
    BY <1>0, <1>4, <1>6 DEF PhoneType
  <2>3. Len(queue'[Chat]) = m + 1 /\ queue'[Chat][m + 1] = n + 1 /\ \A i \in 1..m : queue'[Chat][i] = queue[Chat][i]
    BY <1>5, <2>2, AppendProperties
  <2> HIDE DEF n, m
  <2>4. (n + 1) - (m + 1) = n - m /\ n - m \in 0..n + 1
    BY <1>5
  <2>5. Taken' = n - m
    BY <1>3, <2>1, <2>3, <2>4 DEF Taken
  <2>6. ASSUME NEW i \in 1..m + 1 PROVE queue'[Chat][i] = n - m + i
    <3>1. CASE i \in 1..m
      BY <1>5, <2>3, <3>1
    <3>2. CASE i = m + 1
      BY <1>5, <2>3, <3>2
    <3>3. QED
      BY <1>5, <3>1, <3>2
  <2>7. handler'[Chat].pc # "idle" => n - m > 0 /\ handler'[Chat].v = phone'[n - m]
    <3>1. n - m > 0 => n - m \in 1..n
      BY <1>5
    <3>2. QED
      BY <1>5, <1>6, <2>1, <3>1
  <2>8. phone' # <<>>
    BY <1>5, <2>1
  <2>9. \A i \in 1..n + 1 : phone'[i].ConversationID = Chat
    BY <1>5, <1>6, <2>1
  <2>10. QED
    BY <1>3, <2>1, <2>3, <2>4, <2>5, <2>6, <2>7, <2>8, <2>9 DEF TailInv
<1>7. ASSUME UNCHANGED <<phone, queue>>, handler'[Chat].pc # "idle" => handler[Chat].pc # "idle",
             handler'[Chat].pc # "idle" => handler'[Chat].v = handler[Chat].v,
             send' \notin {"no", "sending", "failed"} => send \notin {"no", "sending", "failed"}
      PROVE  TailInv'
  <2>1. Taken' = n - m /\ Len(phone') = n /\ Len(queue'[Chat]) = m
    BY <1>3, <1>7 DEF Taken
  <2> HIDE DEF n, m
  <2>2. QED
    BY <1>3, <1>5, <1>7, <2>1 DEF TailInv
<1>8. ASSUME NEW v \in scenario.versions, PhoneUpdate(v) PROVE TailInv'
  <2>1. v \in MessageType /\ v.ConversationID = Chat
    BY <1>0, <1>4, ScenarioAssumption DEF PhoneType
  <2>2. QED
    BY <1>6, <1>8, <2>1 DEF PhoneUpdate
<1>9. CASE PhoneTakes
  <2>1. /\ send = "sending" /\ phone = <<>> /\ phone' = <<Outgoing>> /\ UNCHANGED handler
        /\ queue' = [queue EXCEPT ![Outgoing.ConversationID] = Append(@, 1)]
    BY <1>9 DEF PhoneTakes
  <2>2. scenario.outgoing
    BY <2>1 DEF WaysInv
  <2>3. Outgoing \in scenario.versions
    BY <1>0, <2>2, OutgoingOf
  <2>4. Outgoing \in MessageType /\ Outgoing.ConversationID = Chat
    BY <1>0, <1>4, <2>3, ScenarioAssumption DEF PhoneType
  <2>5. PICK v \in MessageType : v = Outgoing
    BY <2>4
  <2>6. phone' = Append(phone, v) /\ Len(phone) + 1 = 1
    BY <2>1, <2>5
  <2>7. QED
    BY <1>6, <2>1, <2>4, <2>5, <2>6
<1>10. CASE Age \/ FullMediaResponse \/ SendOK \/ SendFailed \/ HandleMatrixMessage \/ UNCHANGED vars
  BY <1>7, <1>10 DEF Age, FullMediaResponse, SendOK, SendFailed, HandleMatrixMessage, vars, matrix, sending, races
<1>11. ASSUME NEW p \in Convs, PortalStep(p), ~Begin(p), ~ClaimEcho(p) PROVE TailInv'
  <2>1. /\ handler[p].pc # "idle" /\ \A q \in Convs : q # p => handler'[q] = handler[q]
        /\ handler'[p].pc = "idle" \/ handler'[p].v = handler[p].v
        /\ UNCHANGED <<phone, queue, send>>
    BY <1>0, <1>11, Worked
  <2>2. QED
    BY <1>4, <1>7, <2>1
<1>12. ASSUME NEW p \in Convs, Begin(p) \/ ClaimEcho(p) PROVE TailInv'
  <2>1. /\ handler[p].pc = "idle" /\ queue[p] # <<>> /\ queue' = [queue EXCEPT ![p] = Tail(@)]
        /\ UNCHANGED <<scenario, phone, send>>
        /\ \/ UNCHANGED handler
           \/ handler'[p].v = phone[Head(queue[p])]
    BY <1>0, <1>12, Began
  <2>2. p = Chat
    BY <1>4, <2>1 DEF OnePortal
  <2>3. queue'[Chat] = Tail(queue[Chat])
    BY <1>0, <1>4, <2>1, <2>2 DEF PhoneType
  <2>4. /\ Len(queue'[Chat]) = m - 1 /\ m > 0 /\ Head(queue[Chat]) = queue[Chat][1]
        /\ \A i \in 1..m - 1 : queue'[Chat][i] = queue[Chat][i + 1]
    <3>1. PICK s \in Seq(Nat) : s = queue[Chat] /\ s # <<>>
      BY <1>5, <2>1, <2>2
    <3>2. /\ Len(Tail(s)) = Len(s) - 1 /\ Len(s) > 0 /\ Len(s) \in Nat /\ Head(s) = s[1]
          /\ \A i \in 1..Len(s) - 1 : Tail(s)[i] = s[i + 1]
      BY <3>1, HeadTailProperties, LenProperties, EmptySeq
    <3>3. QED
      BY <2>3, <3>1, <3>2
  <2> HIDE DEF n, m
  <2>5. n - (m - 1) = n - m + 1 /\ n - m + 1 \in 0..n /\ n - m + 1 > 0 /\ m - 1 \in Nat
    BY <1>5, <2>4
  <2>6. ASSUME NEW i \in 1..m - 1 PROVE queue'[Chat][i] = n - m + 1 + i
    <3>1. i + 1 \in 1..m
      BY <1>5, <2>4
    <3>2. queue[Chat][i + 1] = n - m + (i + 1)
      BY <1>5, <3>1
    <3>3. QED
      BY <1>5, <2>4, <3>2
  <2>7. Head(queue[Chat]) = n - m + 1
    <3>1. 1 \in 1..m
      BY <1>5, <2>4
    <3>2. QED
      BY <1>5, <2>4, <3>1
  <2>8. Taken' = n - m + 1 /\ Len(phone') = n
    BY <1>3, <2>1, <2>4, <2>5 DEF Taken, n
  <2>9. handler'[Chat].pc # "idle" => handler'[Chat].v = phone'[n - m + 1]
    BY <2>1, <2>2, <2>7
  <2>10. QED
    BY <1>3, <1>5, <2>1, <2>4, <2>5, <2>6, <2>8, <2>9 DEF TailInv
<1>13. QED
  BY <1>2, <1>8, <1>9, <1>10, <1>11, <1>12 DEF Next
-----------------------------------------------------------------------------
(* Without an edit the versions differ in nothing ConvertEdit looks at.    *)
Plain(v) == v.media = "none" /\ downloadPendingStatusMessage(v.Status) = ""
LEMMA PlainIs ==
  ASSUME PhoneType, ~Rewritten, NEW i \in 1..Len(phone)
  PROVE  /\ phone[i] \in MessageType /\ Plain(phone[i])
         /\ \A j \in 1..Len(phone) : phone[j].text = phone[i].text /\ MessageInfo(phone[j]) = MessageInfo(phone[i])
<1>1. DOMAIN phone = 1..Len(phone) /\ phone[i] \in MessageType
  BY LenProperties DEF PhoneType
<1>2. ~Edited /\ \A j \in 1..Len(phone) : phone[j].media = "none"
  BY <1>1 DEF Rewritten
<1>3. \A j \in 1..Len(phone) : /\ phone[j].text = Last.text /\ MessageInfo(phone[j]) = MessageInfo(Last)
                               /\ downloadPendingStatusMessage(phone[j].Status) = ""
  BY <1>1, <1>2 DEF Edited
<1>4. QED
  BY <1>1, <1>2, <1>3 DEF Plain

LEMMA TakenNext ==
  ASSUME PhoneType, Chat \in Convs, Chat' = Chat, queue[Chat] # <<>>, UNCHANGED phone,
         queue' = [queue EXCEPT ![Chat] = Tail(@)]
  PROVE  Taken' = Taken + 1
<1>1. PICK s \in Seq(Nat) : s = queue[Chat] /\ s # <<>>
  BY DEF PhoneType
<1>2. Len(Tail(s)) = Len(s) - 1 /\ Len(s) \in Nat /\ Len(phone) \in Nat
  BY <1>1, HeadTailProperties, LenProperties, EmptySeq DEF PhoneType
<1>3. queue'[Chat] = Tail(s)
  BY <1>1 DEF PhoneType
<1>4. Taken = Len(phone) - Len(s) /\ Taken' = Len(phone) - (Len(s) - 1)
  BY <1>1, <1>2, <1>3 DEF Taken
<1>5. QED
  BY <1>2, <1>4

LEMMA EchoReaders ==
  ASSUME NEW v
  PROVE  handleRemoteEcho(v).GroupReadBy = {} /\ handleRemoteEcho(v).GlobalStatusText = {}
<1> DEFINE m0 == MessageMetadata(v)
           m == handleRemoteEcho(v)
<1>1. DOMAIN m0 = MetaFields /\ m0.GroupReadBy = {} /\ m0.GlobalStatusText = {}
  <2>1. DOMAIN m0 = MetaFields
    BY MetaIs
  <2>2. QED
    BY <2>1 DEF MessageMetadata
<1>2. PICK t, n, a, b, o : m = [m0 EXCEPT !.IsOutgoing = TRUE, !.TextHash = t, !.GlobalPartCount = n,
                                !.MediaPartID = a, !.MediaID = b, !.OrigMXID = o]
  BY Zenon DEF handleRemoteEcho
<1> HIDE DEF m0, m
<1>3. m.GroupReadBy = {} /\ m.GlobalStatusText = {}
  BY <1>1, <1>2 DEF MetaFields
<1>4. QED
  BY <1>3 DEF m

(* The rows are as good as they were.                                      *)
LEMMA ReadMoved ==
  ASSUME PhoneType, OrderInv, Reads, Chat' = Chat, UNCHANGED <<phone, receipts>>,
         Current' = Current \/ Current' = {}, rows' = {} => rows = {},
         handler'[Chat].pc # "edit", handler'[Chat].pc = "save" => ~handler'[Chat].resync,
         Taken \in 0..Len(phone), Taken' \in {Taken, Taken + 1}, Taken' \in 0..Len(phone)
  PROVE  Reads'
<1>1. \A r \in Current' : r \in Current
  OBVIOUS
<1>2. \A r, v : Alike(r, v)' <=> Alike(r, v)
  BY DEF Alike
<1>3. Taken > 0 => Taken' > 0 /\ phone[Taken].ReadBy \subseteq phone'[Taken'].ReadBy
  <2>1. CASE Taken > 0
    <3>1. Taken \in 1..Len(phone) /\ Taken' \in 1..Len(phone) /\ Taken <= Taken' /\ Taken' > 0
      BY <2>1, LenProperties DEF PhoneType
    <3>2. PICK i \in 1..Len(phone), j \in 1..Len(phone) : i = Taken /\ j = Taken' /\ i <= j
      BY <3>1
    <3>3. phone[i].ReadBy \subseteq phone[j].ReadBy
      BY <3>2 DEF OrderInv
    <3>4. QED
      BY <3>1, <3>2, <3>3
  <2>2. QED
    BY <2>1
<1>4. ASSUME NEW r \in Current', r.meta.GroupReadBy # {}
      PROVE  Taken' > 0 /\ r.meta.GroupReadBy \subseteq phone'[Taken'].ReadBy
  BY <1>1, <1>3, <1>4 DEF Reads
<1>5. QED
  BY <1>1, <1>2, <1>4 DEF Reads

(* A row made for the version in hand has no readers yet.                  *)
LEMMA ReadFresh ==
  ASSUME PhoneType, ~Rewritten, Reads, Chat' = Chat, UNCHANGED <<phone, receipts>>, rows = {},
         handler'[Chat].pc \notin {"save", "edit"}, NEW r, rows' = {r}, r.meta.GroupReadBy = {},
         NEW i \in 1..Len(phone), Alike(r, phone[i])
  PROVE  Reads'
<1>1. Current' = {r}
  BY DEF Current
<1>2. \A j \in 1..Len(phone) : Alike(r, phone[j])'
  BY PlainIs DEF Alike
<1>3. QED
  BY <1>1, <1>2 DEF Reads

(* The version a portal works on is the one taken last.                    *)
LEMMA InHand ==
  ASSUME MessageInv, StatusInv, WaysInv, Stays, restarts = 0, TailInv, NEW p \in Convs, PortalStep(p)
  PROVE  /\ UNCHANGED <<scenario, phone>> /\ Chat' = Chat /\ Stays' /\ restarts' = 0 /\ p = Chat
         /\ Taken \in 0..Len(phone)
         /\ (Begin(p) \/ ClaimEcho(p)) => Taken' = Taken + 1
         /\ (~Begin(p) /\ ~ClaimEcho(p)) => /\ Taken' = Taken /\ Taken \in 1..Len(phone)
                                          /\ handler[p].v = phone[Taken] /\ handler[p].pc # "idle"
<1>0. HandlerType /\ PhoneType
  BY DEF MessageInv
<1>1. UNCHANGED <<scenario, phone, restarts>>
  BY <1>0, Worked, Began
<1>2. Chat' = Chat /\ Stays'
  BY <1>1, ScenarioKept
<1>3. Taken \in 0..Len(phone)
  BY DEF TailInv
<1>4. Chat \in Convs /\ OnePortal
  BY <1>0, ChatIs DEF PhoneType, StatusInv, ChatInv
<1>5. CASE ~Begin(p) /\ ~ClaimEcho(p)
  <2>1. handler[p].pc # "idle" /\ UNCHANGED queue
    BY <1>0, <1>5, Worked
  <2>2. p = Chat
    BY <1>4, <2>1 DEF OnePortal
  <2>3. Taken' = Taken
    BY <1>1, <1>2, <2>1 DEF Taken
  <2>4. Taken > 0 /\ handler[p].v = phone[Taken]
    BY <2>1, <2>2 DEF TailInv
  <2>5. Taken \in 1..Len(phone)
    BY <1>0, <1>3, <2>4, LenProperties DEF PhoneType
  <2>6. QED
    BY <1>1, <1>2, <1>3, <1>5, <2>1, <2>2, <2>3, <2>4, <2>5
<1>6. CASE Begin(p) \/ ClaimEcho(p)
  <2>1. queue[p] # <<>> /\ queue' = [queue EXCEPT ![p] = Tail(@)]
    BY <1>0, <1>6, Began
  <2>2. p = Chat
    BY <1>4, <2>1 DEF OnePortal
  <2>3. Taken' = Taken + 1
    BY <1>0, <1>1, <1>2, <1>4, <2>1, <2>2, TakenNext
  <2>4. QED
    BY <1>1, <1>2, <1>3, <1>6, <2>2, <2>3
<1>7. QED
  BY <1>5, <1>6

(* HandleExisting finds nothing to edit and lists those it sent a receipt. *)
LEMMA ReadExisting ==
  ASSUME PhoneType, ReceiptType, OrderInv, ~Rewritten, Reads, NEW p \in Convs, p = Chat, Chat' = Chat,
         NEW r, ExistingOne(p, r), r.Room = p,
         Taken \in 1..Len(phone), Taken' = Taken, handler[p].v = phone[Taken]
  PROVE  Reads'
<1> DEFINE v == handler[p].v
           after == MetaAfter(r.meta, v, p)
           c == [r EXCEPT !.meta = after]
           group == needsGroupReadReceipt(r.meta, v, p)
<1>1. /\ handler[p].pc = "existing" /\ rows = {r} /\ rows' = {r} /\ IsRow(r) /\ v \in MessageType
      /\ UNCHANGED phone
      /\ \/ handler'[p].pc = "reactions" /\ UNCHANGED receipts
         \/ /\ handler'[p].pc = "save" /\ handler'[p].rows = {c}
            /\ handler'[p].resync = doMessageResync({r}, v, p)
            /\ receipts' = Counted(ReceiptsSent(r.meta, v, p))
  BY DEF ExistingOne
<1>2. Current = {r}
  BY <1>1 DEF Current
<1>3. \A i \in 1..Len(phone) : Alike(r, phone[i])
  BY <1>2 DEF Reads
<1>4. Plain(v) /\ r.meta.TextHash = v.text /\ r.meta.GlobalPartCount = MessageInfo(v)
      /\ r.meta.GlobalMediaStatus = "" /\ r.meta.MediaPending = FALSE
  BY <1>3, PlainIs DEF Alike
<1>5. CASE handler'[p].pc = "reactions" /\ UNCHANGED receipts
  <2>1. Current' = {r}
    BY <1>1, <1>5 DEF Current
  <2>2. Taken \in 0..Len(phone) /\ Taken' \in 0..Len(phone)
    BY LenProperties DEF PhoneType
  <2>3. QED
    BY <1>1, <1>2, <1>5, <2>1, <2>2, ReadMoved
<1>6. CASE /\ handler'[p].pc = "save" /\ handler'[p].rows = {c}
           /\ handler'[p].resync = doMessageResync({r}, v, p)
           /\ receipts' = Counted(ReceiptsSent(r.meta, v, p))
  <2>1. ~doMessageResync({r}, v, p)
    <3>1. Main({r}) = r
      BY MainOne
    <3>2. ~MessageWasEdited({r}, v)
      BY <1>4, <3>1 DEF MessageWasEdited, Plain
    <3>3. ~HasPendingMedia({r})
      BY <1>4 DEF HasPendingMedia
    <3>4. ~chatIDChanged({r}, p)
      BY <3>1 DEF chatIDChanged
    <3>5. QED
      BY <1>4, <3>1, <3>2, <3>3, <3>4 DEF doMessageResync, Plain
  <2>2. c.meta = after
    BY <1>1 DEF IsRow, RowFields
  <2>3. /\ after.GlobalMediaStatus = r.meta.GlobalMediaStatus /\ after.MediaPending = r.meta.MediaPending
        /\ after.TextHash = r.meta.TextHash /\ after.GlobalPartCount = r.meta.GlobalPartCount
    BY <1>1, AfterIs DEF IsRow
  <2>4. /\ group => after.GroupReadBy = v.ReadBy
        /\ ~group => after.GroupReadBy = r.meta.GroupReadBy
    BY <1>1, AfterID DEF IsRow
  <2> HIDE DEF c, after
  <2>5. Current' = {c}
    BY <1>6 DEF Current
  <2>6. PICK x : x = c
    OBVIOUS
  <2>7. \A i \in 1..Len(phone) : Alike(x, phone[i])'
    <3>1. x.meta = after
      BY <2>2, <2>6
    <3>2. /\ x.meta.GlobalMediaStatus = r.meta.GlobalMediaStatus /\ x.meta.MediaPending = r.meta.MediaPending
          /\ x.meta.TextHash = r.meta.TextHash /\ x.meta.GlobalPartCount = r.meta.GlobalPartCount
      BY <2>3, <3>1
    <3>3. QED
      BY <1>1, <1>3, <3>2 DEF Alike
  <2>8. group => ~needsReadReceipt(r.meta, v, p)
    BY DEF needsGroupReadReceipt, needsReadReceipt
  <2>9. r.meta.GroupReadBy \subseteq v.ReadBy
    BY <1>2 DEF Reads
  <2>10. ASSUME NEW k \in Readers
         PROVE  receipts'[k] <= 1 /\ (receipts'[k] > 0 => k \in after.GroupReadBy)
    <3>1. /\ receipts'[k] = receipts[k] + (IF k \in ReceiptsSent(r.meta, v, p) THEN 1 ELSE 0)
          /\ receipts[k] \in Nat
      <4>1. k \in Kinds
        BY DEF Kinds
      <4>2. QED
        BY <1>6, <4>1, CountedIs
    <3>2. k \in ReceiptsSent(r.meta, v, p) <=> group /\ k \in v.ReadBy /\ k \notin r.meta.GroupReadBy
      BY <1>1, <2>8, SentKinds
    <3>3. receipts[k] <= 1 /\ (receipts[k] > 0 => k \in r.meta.GroupReadBy)
      BY <1>2 DEF Reads
    <3>4. r.meta.GroupReadBy \subseteq after.GroupReadBy
      BY <2>4, <2>9
    <3>5. CASE k \in ReceiptsSent(r.meta, v, p)
      <4>1. receipts'[k] = 1
        BY <3>1, <3>2, <3>3, <3>5
      <4>2. k \in after.GroupReadBy
        BY <2>4, <3>2, <3>5
      <4>3. QED
        BY <4>1, <4>2
    <3>6. CASE k \notin ReceiptsSent(r.meta, v, p)
      <4>1. receipts'[k] = receipts[k]
        BY <3>1, <3>6
      <4>2. QED
        BY <3>3, <3>4, <4>1
    <3>7. QED
      BY <3>5, <3>6
  <2>11. after.GroupReadBy \subseteq v.ReadBy
    BY <2>4, <2>9
  <2>12. Taken' > 0 /\ v = phone'[Taken']
    BY <1>1
  <2>13. x.meta.GroupReadBy = after.GroupReadBy /\ Current' = {x}
    BY <2>2, <2>5, <2>6
  <2>14. handler'[Chat'].pc = "save" /\ ~handler'[Chat'].resync /\ rows' # {} /\ UNCHANGED phone
    BY <1>1, <1>6, <2>1
  <2>15. QED
    BY <1>1, <2>7, <2>10, <2>11, <2>12, <2>13, <2>14 DEF Reads
<1>7. QED
  BY <1>1, <1>5, <1>6

LEMMA PortalRead ==
  ASSUME MessageInv, StatusInv, WaysInv, Kept, Alone, RowInv, VisibleInv, ReceiptType, TailInv, TailInv',
         ~Rewritten, Reads, NEW p \in Convs, PortalStep(p)
  PROVE  Reads'
<1>0. HandlerType /\ PhoneType /\ OrderInv /\ Idle.pc = "idle" /\ Stays /\ restarts = 0
  BY DEF MessageInv, WaysInv, Idle, Kept
<1>1. UNCHANGED <<scenario, phone>> /\ Chat' = Chat /\ Stays' /\ restarts' = 0 /\ p = Chat /\ Taken \in 0..Len(phone)
  BY <1>0, InHand
<1>2. Taken' \in 0..Len(phone)
  BY <1>1 DEF TailInv
<1>5. ASSUME ~Begin(p), ~ClaimEcho(p)
      PROVE  /\ Taken' = Taken /\ Taken \in 1..Len(phone) /\ handler[p].v = phone[Taken]
             /\ handler[p].pc # "idle"
  BY <1>0, <1>5, InHand
<1>6. CASE HandleExisting(p)
  <2>1. PICK r : ExistingOne(p, r) /\ Placed(r)
    BY <1>6, ExistingIs
  <2>2. ~Begin(p) /\ ~ClaimEcho(p)
    BY <2>1 DEF ExistingOne, Begin, ClaimEcho
  <2>3. r.Room = p
    BY <1>0, <1>1, <2>1 DEF Placed, VisibleInv
  <2>4. QED
    BY <1>0, <1>1, <1>5, <2>1, <2>2, <2>3, ReadExisting
<1>7. CASE HandleExistingIgnores(p) \/ SyncReactions(p) \/ NewIgnored(p)
  <2>1. /\ handler[p].pc \in {"existing", "reactions", "new"} /\ handler' = [handler EXCEPT ![p] = Idle]
        /\ UNCHANGED <<rows, receipts>>
    BY <1>7 DEF HandleExistingIgnores, SyncReactions, NewIgnored, Done, matrix
  <2>2. ~Begin(p) /\ ~ClaimEcho(p)
    BY <2>1 DEF Begin, ClaimEcho
  <2>3. handler'[p].pc = "idle"
    BY <1>0, <2>1, HandlerMoves
  <2>4. Current = rows /\ Current' = rows
    BY <1>1, <2>1, <2>2, <2>3 DEF Current
  <2>5. QED
    BY <1>0, <1>1, <1>2, <1>5, <2>1, <2>2, <2>3, <2>4, ReadMoved
<1>8. CASE HandleEdit(p) \/ HandleEditPanics(p)
  <2>1. handler[p].pc = "edit"
    BY <1>8 DEF HandleEdit, HandleEditPanics
  <2>2. QED
    BY <1>1, <2>1 DEF Reads
<1>9. CASE SaveParts(p)
  <2>1. /\ handler[p].pc = "save" /\ UNCHANGED receipts
        /\ handler' = [handler EXCEPT ![p].pc = IF handler[p].resync THEN "edit" ELSE "reactions"]
    BY <1>9 DEF SaveParts, matrix
  <2>2. rows' = handler[p].rows /\ rows' # {}
    BY <1>9, SavePlace
  <2>3. ~Begin(p) /\ ~ClaimEcho(p)
    BY <2>1 DEF Begin, ClaimEcho
  <2>4. ~handler[p].resync
    BY <1>1, <2>1 DEF Reads
  <2>5. handler' = [handler EXCEPT ![p].pc = "reactions"]
    BY <2>1, <2>4
  <2>6. handler'[p].pc = "reactions"
    BY <1>0, <2>5, HandlerMoves
  <2>7. Current' = Current
    BY <1>1, <2>1, <2>2, <2>3, <2>6 DEF Current
  <2>8. QED
    BY <1>0, <1>1, <1>2, <1>5, <2>1, <2>2, <2>3, <2>6, <2>7, ReadMoved
<1>10. ASSUME NEW ok \in BOOLEAN, ConvertMessage(p, ok) PROVE Reads'
  <2> DEFINE v == handler[p].v
             parts == ConvertGoogleMessage(v, TRUE, ok)
  <2>1. /\ rows = {} /\ handler[p].pc = "new" /\ handler'[p] = Idle /\ UNCHANGED receipts
        /\ parts = <<>> => rows' = {}
        /\ parts # <<>> => rows' = {Row("", p, Len(events) + 1, v, parts[1].meta)}
    BY <1>10, NewIs
  <2>2. ~Begin(p) /\ ~ClaimEcho(p)
    BY <2>1 DEF Begin, ClaimEcho
  <2>3. CASE parts = <<>>
    <3>1. Current' = {}
      BY <1>0, <1>1, <2>1, <2>3 DEF Current
    <3>2. QED
      BY <1>0, <1>1, <1>2, <1>5, <2>1, <2>2, <2>3, <3>1, ReadMoved
  <2>4. CASE parts # <<>>
    <3>1. PartOf(parts[1], v)
      BY <2>4, PartFields
    <3>2. Plain(v)
      BY <1>0, <1>5, <2>2, PlainIs
    <3>3. PICK r : r = Row("", p, Len(events) + 1, v, parts[1].meta)
      OBVIOUS
    <3>4. r.meta = parts[1].meta
      BY <3>3 DEF Row
    <3> HIDE DEF parts
    <3>5. r.meta.GroupReadBy = {} /\ Alike(r, v)
      BY <3>1, <3>2, <3>4 DEF PartOf, Plain, Alike
    <3>6. rows' = {r} /\ handler'[p].pc = "idle"
      BY <1>0, <2>1, <2>4, <3>3
    <3>7. QED
      BY <1>0, <1>1, <1>2, <1>5, <2>1, <2>2, <3>5, <3>6, ReadFresh
  <2>5. QED
    BY <2>3, <2>4
<1>11. CASE Remove(p)
  <2>1. handler[p].pc = "remove"
    BY <1>11 DEF Remove
  <2>2. \E i \in 1..Len(phone) : phone[i].Status = MESSAGE_DELETED
    BY <2>1, AtWork
  <2>3. Deleted
    BY <1>0, <2>2, LenProperties DEF Deleted, PhoneType
  <2>4. QED
    BY <2>3 DEF Kept
<1>12. CASE HandleExistingResends(p)
  BY <1>12, ResendPlace DEF Kept
<1>13. CASE Begin(p) \/ ClaimEcho(p)
  <2>1. /\ handler[p].pc = "idle" /\ queue[p] # <<>> /\ queue' = [queue EXCEPT ![p] = Tail(@)]
        /\ UNCHANGED receipts
        /\ Begin(p) => UNCHANGED rows
        /\ ClaimEcho(p) => pending /\ p = Outgoing.ConversationID /\ handler'[p].pc = "existing"
        /\ UNCHANGED handler \/ handler'[p].pc \in {"remove", "new", "existing"}
    BY <1>0, <1>13, Began
  <2>3. Taken' = Taken + 1
    BY <1>0, <1>13, InHand
  <2>4. CASE Begin(p)
    <3>1. handler'[p].pc \in {"idle", "remove", "new", "existing"}
      BY <2>1
    <3>2. Current' = Current
      BY <1>1, <2>1, <2>4, <3>1 DEF Current
    <3>3. QED
      BY <1>0, <1>1, <1>2, <2>1, <2>3, <2>4, <3>1, <3>2, ReadMoved
  <2>5. CASE ClaimEcho(p)
    <3> DEFINE v == phone[Head(queue[p])]
               row == Row("", p, IF scenario.reid THEN 2 ELSE 1, v, handleRemoteEcho(v))
    <3>1. rows = {}
      BY <1>0, <2>1, <2>5 DEF StatusInv, ChatInv, PendingInv, Untouched
    <3>2. rows' = {row}
      BY <2>5, <3>1, Zenon DEF ClaimEcho
    <3>3. Head(queue[p]) \in 1..Len(phone)
      BY <1>0, <1>1, <2>1, HeadIs
    <3>4. PICK i \in 1..Len(phone) : i = Head(queue[p])
      BY <3>3
    <3>5. Plain(phone[i]) /\ phone[i] \in MessageType
      BY <1>0, PlainIs
    <3>6. row.meta = handleRemoteEcho(phone[i])
      BY <3>4 DEF Row
    <3>7. PICK r : r = row
      OBVIOUS
    <3>8. r.meta.GroupReadBy = {} /\ Alike(r, phone[i])
      <4>1. LET w == Row("", Chat, UserMXID, phone[i], handleRemoteEcho(phone[i])) IN
            /\ w.meta.GlobalMediaStatus = "" /\ w.meta.MediaPending = FALSE
            /\ w.meta.TextHash = phone[i].text /\ w.meta.GlobalPartCount = MessageInfo(phone[i])
        BY <3>5, EchoIs
      <4>2. Row("", Chat, UserMXID, phone[i], handleRemoteEcho(phone[i])).meta = r.meta
        BY <3>6, <3>7 DEF Row
      <4>3. Alike(r, phone[i])
        BY <4>1, <4>2 DEF Alike
      <4>4. QED
        BY <3>6, <3>7, <4>3, EchoReaders
    <3>9. QED
      BY <1>0, <1>1, <2>1, <2>5, <3>1, <3>2, <3>7, <3>8, ReadFresh
  <2>6. QED
    BY <1>13, <2>4, <2>5
<1>14. QED
  BY <1>6, <1>7, <1>8, <1>9, <1>10, <1>11, <1>12, <1>13 DEF PortalStep

LEMMA ReadInit == Init => ReadInv
<1> SUFFICES ASSUME Init, Kept PROVE Reads
  BY DEF ReadInv
<1>1. /\ phone = <<>> /\ handler = [p \in Convs |-> Idle] /\ rows = {}
      /\ receipts = [k \in Kinds |-> 0] /\ scenario \in Scenarios
  BY DEF Init
<1>2. Chat \in Convs
  BY <1>1, ChatIs DEF Kept
<1>3. handler[Chat].pc = "idle"
  BY <1>1, <1>2 DEF Idle
<1>4. Current = {}
  BY <1>1, <1>3 DEF Current
<1>5. \A k \in Readers : receipts[k] = 0
  <2>1. \A k \in Readers : k \in Kinds
    BY DEF Kinds
  <2>2. QED
    BY <1>1, <2>1
<1>6. QED
  BY <1>3, <1>4, <1>5 DEF Reads

(* What the phone and the user do while no portal makes a step.            *)
Outside ==
    /\ UNCHANGED <<handler, rows, receipts>> /\ Taken' = Taken
    /\ \/ UNCHANGED phone
       \/ \E v \in MessageType : /\ phone' = Append(phone, v)
                                 /\ phone # <<>> => v.Timestamp >= phone[Len(phone)].Timestamp

LEMMA StepOutside ==
  ASSUME MessageInv, WaysInv, [Next]_vars, ~Restart, \A p \in Convs : ~PortalStep(p), Stays
  PROVE  Outside
<1>0. PhoneType /\ UNCHANGED scenario
  BY StepOnward DEF MessageInv, Onward
<1>1. Chat' = Chat /\ Chat \in Convs /\ \A v \in scenario.versions : v.ConversationID = Chat
  BY <1>0, ScenarioKept, ChatIs DEF PhoneType
<1>2. ASSUME UNCHANGED <<phone, queue, handler, rows, receipts>> PROVE Outside
  BY <1>1, <1>2 DEF Outside, Taken
<1>3. ASSUME NEW v \in MessageType, phone' = Append(phone, v), UNCHANGED <<handler, rows, receipts>>,
             phone # <<>> => v.Timestamp >= phone[Len(phone)].Timestamp,
             queue' = [queue EXCEPT ![Chat] = Append(@, Len(phone) + 1)]
      PROVE  Outside
  <2>1. PICK s \in Seq(Nat) : s = queue[Chat]
    BY <1>0, <1>1 DEF PhoneType
  <2>2. PICK n \in Nat : n = Len(phone)
    BY <1>0, LenProperties DEF PhoneType
  <2>3. queue'[Chat] = Append(s, n + 1)
    BY <1>0, <1>1, <1>3, <2>1, <2>2 DEF PhoneType
  <2>4. Len(Append(s, n + 1)) = Len(s) + 1 /\ Len(s) \in Nat
    BY AppendProperties, LenProperties
  <2>5. Len(phone') = n + 1
    BY <1>0, <1>3, <2>2, AppendProperties DEF PhoneType
  <2>6. Taken' = n + 1 - (Len(s) + 1) /\ Taken = n - Len(s)
    BY <1>1, <2>1, <2>2, <2>3, <2>4, <2>5 DEF Taken
  <2>7. Taken' = Taken
    BY <2>4, <2>6
  <2>8. QED
    BY <1>3, <2>7 DEF Outside
<1>4. ASSUME NEW v \in scenario.versions, PhoneUpdate(v) PROVE Outside
  <2>1. v \in MessageType /\ v.ConversationID = Chat
    BY <1>0, <1>1, ScenarioAssumption DEF PhoneType
  <2>2. QED
    BY <1>3, <1>4, <2>1 DEF PhoneUpdate, matrix
<1>5. CASE PhoneTakes
  <2>1. /\ send = "sending" /\ phone = <<>> /\ phone' = <<Outgoing>> /\ UNCHANGED <<handler, rows, receipts>>
        /\ queue' = [queue EXCEPT ![Outgoing.ConversationID] = Append(@, 1)]
    BY <1>5 DEF PhoneTakes, matrix
  <2>2. scenario.outgoing
    BY <2>1 DEF WaysInv
  <2>3. Outgoing \in scenario.versions
    BY <1>0, <2>2, OutgoingOf
  <2>4. Outgoing \in MessageType /\ Outgoing.ConversationID = Chat
    BY <1>0, <1>1, <2>3, ScenarioAssumption DEF PhoneType
  <2>5. PICK v \in MessageType : v = Outgoing
    BY <2>4
  <2>6. phone' = Append(phone, v) /\ Len(phone) + 1 = 1
    BY <2>1, <2>5
  <2>7. QED
    BY <1>3, <2>1, <2>4, <2>5, <2>6
<1>6. CASE Age \/ FullMediaResponse \/ SendOK \/ SendFailed \/ HandleMatrixMessage \/ UNCHANGED vars
  BY <1>2, <1>6 DEF Age, FullMediaResponse, SendOK, SendFailed, HandleMatrixMessage, vars, matrix
<1>7. QED
  BY <1>4, <1>5, <1>6 DEF Next

LEMMA ReadOutside ==
  ASSUME PhoneType, Kept, WorkInv, TailInv, Reads, Outside, ~Rewritten', UNCHANGED scenario
  PROVE  Reads'
<1>1. Chat' = Chat /\ Stays
  BY ScenarioKept DEF Kept
<1>2. Current' = Current /\ UNCHANGED <<handler, rows, receipts>> /\ Taken' = Taken
  BY <1>1 DEF Outside, Current
<1>3. Taken \in 0..Len(phone) /\ (handler[Chat].pc # "idle" => Taken > 0)
  BY DEF TailInv, Kept
<1>4. CASE UNCHANGED phone
  BY <1>1, <1>2, <1>4 DEF Reads, Alike
<1>5. ASSUME NEW v \in MessageType, phone' = Append(phone, v),
             phone # <<>> => v.Timestamp >= phone[Len(phone)].Timestamp
      PROVE  Reads'
  <2> DEFINE n == Len(phone)
  <2>1. /\ n \in Nat /\ Len(phone') = n + 1 /\ phone'[n + 1] = v
        /\ \A i \in 1..n : phone'[i] = phone[i]
        /\ ~Edited' => \A i \in 1..n : phone[i].text = v.text /\ MessageInfo(phone[i]) = MessageInfo(v)
    BY <1>5, PhoneLonger DEF PhoneType, WorkInv
  <2>2. ~Edited'
    BY DEF Rewritten
  <2>3. Current # {} => n \in 1..n
    <3>1. phone # <<>> => n > 0
      BY <2>1, EmptySeq DEF PhoneType
    <3>2. Current # {} => handler[Chat].pc # "idle" \/ rows # {}
      BY DEF Current
    <3>3. rows # {} => phone # <<>>
      BY DEF WorkInv
    <3>4. Taken > 0 => n > 0
      BY <1>3, <2>1
    <3>5. QED
      BY <1>3, <2>1, <3>1, <3>2, <3>3, <3>4
  <2> HIDE DEF n
  <2>4. ASSUME NEW r \in Current, NEW i \in 1..n + 1 PROVE Alike(r, phone'[i])
    <3>1. CASE i \in 1..n
      BY <2>1, <3>1 DEF Reads, Alike, n
    <3>2. CASE i = n + 1
      <4>1. n \in 1..n /\ phone[n].text = v.text /\ MessageInfo(phone[n]) = MessageInfo(v) /\ Alike(r, phone[n])
        BY <2>1, <2>2, <2>3 DEF Reads, n
      <4>2. QED
        BY <2>1, <3>2, <4>1 DEF Alike
    <3>3. QED
      BY <2>1, <3>1, <3>2
  <2>5. Taken > 0 => phone'[Taken] = phone[Taken]
    BY <1>3, <2>1 DEF n
  <2>6. QED
    BY <1>1, <1>2, <2>1, <2>4, <2>5 DEF Reads
<1>6. QED
  BY <1>4, <1>5 DEF Outside

LEMMA ReadStep ==
  /\ MessageInv /\ MessageInv' /\ StatusInv /\ WaysInv /\ PlaceInv /\ UserInv /\ OnceInv /\ TailInv /\ TailInv'
  /\ ReadInv /\ [Next]_vars
  => ReadInv'
<1> SUFFICES ASSUME MessageInv, MessageInv', StatusInv, WaysInv, PlaceInv, UserInv, OnceInv, TailInv, TailInv',
                    ReadInv, [Next]_vars, Kept', ~Rewritten'
             PROVE  Reads'
  BY DEF ReadInv
<1>1. Onward
  BY StepOnward
<1>2. Kept /\ UNCHANGED scenario
  BY <1>1, SaysGrow DEF Onward
<1>3. Alone /\ ~Restart /\ Stays
  <2>1. Restart => restarts' # 0
    BY DEF Restart, MessageInv, ShownType
  <2>2. QED
    BY <1>2, <2>1 DEF Alone, Kept, UserInv
<1>4. PhoneType /\ WorkInv /\ ReceiptType
  BY <1>3 DEF MessageInv, StatusInv, ChatInv, OnceInv
<1>5. ASSUME NEW p \in Convs, PortalStep(p) PROVE Reads'
  <2>1. UNCHANGED <<scenario, phone>>
    BY <1>5, Worked, Began DEF MessageInv
  <2>2. ~Rewritten
    BY <2>1, SaysKept
  <2>3. QED
    BY <1>2, <1>3, <1>4, <1>5, <2>2, PortalRead DEF ReadInv, PlaceInv
<1>6. CASE \A p \in Convs : ~PortalStep(p)
  <2>1. Outside
    BY <1>3, <1>6, StepOutside
  <2>2. ~Rewritten
    <3>1. CASE UNCHANGED phone
      BY <1>2, <3>1, SaysKept
    <3>2. ASSUME NEW v \in MessageType, phone' = Append(phone, v),
                 phone # <<>> => v.Timestamp >= phone[Len(phone)].Timestamp
          PROVE  ~Rewritten
      <4>1. /\ ~Edited' => ~Edited
            /\ Len(phone) \in Nat /\ Len(phone') = Len(phone) + 1 /\ \A i \in 1..Len(phone) : phone'[i] = phone[i]
        BY <1>2, <1>4, <3>2, PhoneLonger DEF PhoneType, WorkInv
      <4>2. DOMAIN phone = 1..Len(phone) /\ DOMAIN phone' = 1..Len(phone')
        BY LenProperties DEF MessageInv, PhoneType
      <4>3. \A i \in DOMAIN phone : i \in DOMAIN phone' /\ phone'[i] = phone[i]
        BY <4>1, <4>2
      <4>4. QED
        BY <1>3, <4>1, <4>3 DEF Rewritten
    <3>3. QED
      BY <2>1, <3>1, <3>2 DEF Outside
  <2>3. QED
    BY <1>2, <1>4, <2>1, <2>2, ReadOutside DEF ReadInv
<1>7. QED
  BY <1>5, <1>6

LEMMA SawMoved ==
  ASSUME Saw, Chat' = Chat, UNCHANGED <<phone, receipts>>,
         \/ Current' = {}
         \/ /\ Current' = Current
            /\ handler'[Chat].pc = "existing" \/ (handler[Chat].pc # "existing" /\ Taken' = Taken)
  PROVE  Saw'
<1>1. \A v, r : Seen(v, r)' <=> Seen(v, r)
  BY DEF Seen
<1>2. QED
  BY <1>1 DEF Saw

LEMMA SawFresh ==
  ASSUME Chat' = Chat, NEW r, rows' = {r}, handler'[Chat].pc # "save",
         r.meta.GroupReadBy = {}, r.meta.GlobalStatusText = {},
         handler'[Chat].pc = "existing" \/ r.meta.Type = phone'[Taken'].Status
  PROVE  Saw'
<1>1. Current' = {r}
  BY DEF Current
<1>2. handler'[Chat].pc = "existing" \/ Seen(phone[Taken], r)'
  BY DEF Seen
<1>3. QED
  BY <1>1, <1>2 DEF Saw

(* HandleExisting sends every reader of a group a receipt it has not had.  *)
LEMMA SawExisting ==
  ASSUME ReceiptType, Saw, NEW p \in Convs, p = Chat, Chat' = Chat, p = "group",
         NEW r, ExistingOne(p, r), handler[p].v = phone[Taken], Taken' = Taken
  PROVE  Saw'
<1>0. PICK v \in MessageType : v = handler[p].v
  BY DEF ExistingOne
<1> DEFINE after == MetaAfter(r.meta, v, p)
           c == [r EXCEPT !.meta = after]
           group == needsGroupReadReceipt(r.meta, v, p)
<1>1. /\ handler[p].pc = "existing" /\ rows = {r} /\ rows' = {r} /\ IsRow(r) /\ UNCHANGED phone
      /\ \/ NothingChanged({r}, v, p) /\ handler'[p].pc = "reactions" /\ UNCHANGED receipts
         \/ /\ handler'[p].pc = "save" /\ handler'[p].rows = {c}
            /\ receipts' = Counted(ReceiptsSent(r.meta, v, p))
  BY <1>0 DEF ExistingOne
<1>2. Current = {r}
  BY <1>1 DEF Current
<1>3. /\ r.meta.GlobalStatusText = r.meta.GroupReadBy /\ r.meta.GroupReadBy \subseteq Readers
      /\ \A k \in r.meta.GroupReadBy : receipts[k] > 0
  BY <1>2 DEF Saw
<1>4. CASE NothingChanged({r}, v, p) /\ handler'[p].pc = "reactions" /\ UNCHANGED receipts
  <2>1. Current' = {r}
    BY <1>1, <1>4 DEF Current
  <2>2. Main({r}) = r
    BY MainOne
  <2>3. r.meta.Type = v.Status
    BY <1>4, <2>2 DEF NothingChanged
  <2>4. Seen(v, r)'
    BY <2>3 DEF Seen
  <2>5. v = phone'[Taken']
    BY <1>0, <1>1
  <2>6. QED
    BY <1>3, <1>4, <2>1, <2>4, <2>5 DEF Saw
<1>5. CASE /\ handler'[p].pc = "save" /\ handler'[p].rows = {c}
           /\ receipts' = Counted(ReceiptsSent(r.meta, v, p))
  <2>1. c.meta = after
    BY <1>1 DEF IsRow, RowFields
  <2>2. /\ after.Type = r.meta.Type
        /\ group => after.GroupReadBy = v.ReadBy /\ after.GlobalStatusText = v.ReadBy
        /\ ~group => after.GroupReadBy = r.meta.GroupReadBy /\ after.GlobalStatusText = r.meta.GlobalStatusText
    BY <1>1, AfterID DEF IsRow
  <2> HIDE DEF c, after
  <2>3. PICK x : x = c
    OBVIOUS
  <2>4. Current' = {x} /\ x.meta = after
    BY <1>5, <2>1, <2>3 DEF Current
  <2>5. v.ReadBy \subseteq Readers
    BY <1>0 DEF MessageType
  <2>6. ~needsReadReceipt(r.meta, v, p)
    BY DEF needsReadReceipt
  <2>7. ASSUME NEW k \in Readers
        PROVE  /\ receipts[k] > 0 => receipts'[k] > 0
               /\ (group /\ k \in v.ReadBy) => receipts'[k] > 0
    <3>1. /\ receipts'[k] = receipts[k] + (IF k \in ReceiptsSent(r.meta, v, p) THEN 1 ELSE 0)
          /\ receipts[k] \in Nat
      <4>1. k \in Kinds
        BY DEF Kinds
      <4>2. QED
        BY <1>5, <4>1, CountedIs
    <3>2. k \in ReceiptsSent(r.meta, v, p) <=> group /\ k \in v.ReadBy /\ k \notin r.meta.GroupReadBy
      BY <1>1, <2>6, SentKinds
    <3>3. receipts[k] > 0 => receipts'[k] > 0
      BY <3>1
    <3>4. k \in ReceiptsSent(r.meta, v, p) => receipts'[k] > 0
      BY <3>1
    <3>5. QED
      BY <1>3, <3>2, <3>3, <3>4
  <2>9. \A k \in r.meta.GroupReadBy : receipts'[k] > 0
    BY <1>3, <2>7
  <2>10. /\ x.meta.GlobalStatusText = x.meta.GroupReadBy /\ x.meta.GroupReadBy \subseteq Readers
         /\ \A k \in x.meta.GroupReadBy : receipts'[k] > 0
    BY <1>3, <2>2, <2>4, <2>5, <2>7, <2>9
  <2>11. Seen(v, x)'
    <3> SUFFICES ASSUME v.Status = OUTGOING_DISPLAYED, NEW k \in v.ReadBy PROVE receipts'[k] > 0
      BY DEF Seen
    <3>1. CASE group
      BY <2>5, <2>7, <3>1
    <3>2. CASE ~group
      <4>1. v.ReadBy = r.meta.GlobalStatusText
        BY <3>2 DEF needsGroupReadReceipt
      <4>2. QED
        BY <1>3, <2>9, <4>1
    <3>3. QED
      BY <3>1, <3>2
  <2>12. v = phone'[Taken']
    BY <1>0, <1>1
  <2>13. QED
    BY <2>4, <2>10, <2>11, <2>12 DEF Saw
<1>6. QED
  BY <1>1, <1>4, <1>5

LEMMA PortalSaw ==
  ASSUME MessageInv, StatusInv, WaysInv, Echoed, Alone, RowInv, VisibleInv, ReceiptType, TailInv,
         Chat = "group", Saw, NEW p \in Convs, PortalStep(p)
  PROVE  Saw'
<1>0. HandlerType /\ PhoneType /\ Idle.pc = "idle" /\ Stays /\ restarts = 0 /\ ~Deleted /\ ~Resent /\ Kept
  BY DEF MessageInv, Idle, Kept, Echoed
<1>1. UNCHANGED <<scenario, phone>> /\ Chat' = Chat /\ p = Chat
  BY <1>0, InHand
<1>2. send # "no" /\ (pending \/ Claimed(rows))
  BY <1>0 DEF Echoed, StatusInv, KeptInv, LateInv
<1>3. ASSUME ~Begin(p), ~ClaimEcho(p)
      PROVE  Taken' = Taken /\ handler[p].v = phone[Taken] /\ handler[p].pc # "idle"
  BY <1>0, <1>3, InHand
<1>4. \A i \in 1..Len(phone) : phone[i].Status # MESSAGE_DELETED
  BY <1>0, LenProperties DEF Deleted, PhoneType
<1>5. ASSUME NEW r, rows = {r}, Placed(r) PROVE r.Room = p
  BY <1>0, <1>1, <1>5 DEF Placed, VisibleInv
<1>6. CASE HandleExisting(p)
  <2>1. PICK r : ExistingOne(p, r)
    BY <1>6, ExistingIs
  <2>2. ~Begin(p) /\ ~ClaimEcho(p)
    BY <2>1 DEF ExistingOne, Begin, ClaimEcho
  <2>3. QED
    BY <1>1, <1>3, <2>1, <2>2, SawExisting
<1>7. CASE HandleEditPanics(p) \/ SyncReactions(p) \/ NewIgnored(p)
  <2>1. /\ handler[p].pc \in {"edit", "reactions", "new"} /\ handler' = [handler EXCEPT ![p] = Idle]
        /\ UNCHANGED <<rows, receipts>>
    BY <1>7 DEF HandleEditPanics, SyncReactions, NewIgnored, Done, matrix
  <2>2. ~Begin(p) /\ ~ClaimEcho(p)
    BY <2>1 DEF Begin, ClaimEcho
  <2>3. handler'[p].pc = "idle"
    BY <1>0, <2>1, HandlerMoves
  <2>4. Current = rows /\ Current' = rows
    BY <1>1, <2>1, <2>3 DEF Current
  <2>5. QED
    BY <1>1, <1>3, <2>1, <2>2, <2>4, SawMoved
<1>8. CASE HandleExistingIgnores(p)
  <2>1. /\ handler[p].pc = "existing" /\ handler' = [handler EXCEPT ![p] = Idle]
        /\ UNCHANGED <<rows, receipts>>
    BY <1>8 DEF HandleExistingIgnores, Done, matrix
  <2>2. ~Begin(p) /\ ~ClaimEcho(p)
    BY <2>1 DEF Begin, ClaimEcho
  <2>3. handler'[p].pc = "idle"
    BY <1>0, <2>1, HandlerMoves
  <2>4. \A q \in Convs : q # p => handler[q].pc = "idle"
    BY <2>1, AtWork
  <2>5. PICK r : rows = {r} /\ Placed(r)
    BY <2>1, <2>4, PlacedAt DEF CopyOf
  <2>6. handler[p].rows = {r}
    BY <2>1, <2>5 DEF RowInv, CopyOf
  <2>7. handler[p].v.Status # OUTGOING_DISPLAYED
    <3> SUFFICES ASSUME handler[p].v.Status = OUTGOING_DISPLAYED PROVE FALSE
      OBVIOUS
    <3>1. Main({r}) = r
      BY MainOne
    <3>2. ~chatIDChanged({r}, p)
      BY <1>5, <2>5, <3>1 DEF chatIDChanged
    <3>3. Downgrade(handler[p].v, {r})
      BY <1>8, <2>6, <3>2 DEF HandleExistingIgnores, IgnoredMove
    <3>4. downloadStatusRank(OUTGOING_DISPLAYED) = 100
      BY DEF downloadStatusRank, OUTGOING_DISPLAYED, INCOMING_AUTO_DOWNLOADING, INCOMING_MANUAL_DOWNLOADING,
             INCOMING_RETRYING_AUTO_DOWNLOAD, INCOMING_DOWNLOAD_FAILED, INCOMING_YET_TO_MANUAL_DOWNLOAD,
             INCOMING_RETRYING_MANUAL_DOWNLOAD, INCOMING_DOWNLOAD_FAILED_SIM_HAS_NO_DATA,
             INCOMING_DOWNLOAD_FAILED_TOO_LARGE, INCOMING_DOWNLOAD_CANCELED
    <3>5. downloadStatusRank(r.meta.Type) \in {0, 1, 100}
      BY DEF downloadStatusRank
    <3>6. 100 < downloadStatusRank(r.meta.Type)
      BY <3>1, <3>3, <3>4 DEF Downgrade
    <3>7. QED
      BY <3>5, <3>6
  <2>8. Current = rows /\ Current' = rows
    BY <1>1, <2>1, <2>3 DEF Current
  <2>9. phone'[Taken'].Status # OUTGOING_DISPLAYED
    BY <1>1, <1>3, <2>2, <2>7
  <2>10. \A x \in Current' : Seen(phone[Taken], x)'
    BY <2>9 DEF Seen
  <2>11. QED
    BY <1>1, <2>1, <2>8, <2>10 DEF Saw
<1>9. CASE SaveParts(p)
  <2>1. /\ handler[p].pc = "save" /\ UNCHANGED receipts
        /\ handler' = [handler EXCEPT ![p].pc = IF handler[p].resync THEN "edit" ELSE "reactions"]
    BY <1>9 DEF SaveParts, matrix
  <2>2. rows' = handler[p].rows
    BY <1>9, SavePlace
  <2>3. ~Begin(p) /\ ~ClaimEcho(p)
    BY <2>1 DEF Begin, ClaimEcho
  <2>4. ASSUME NEW place, handler' = [handler EXCEPT ![p].pc = place] PROVE handler'[p].pc = place
    BY ONLY <1>0, <2>4, p \in Convs DEF HandlerType
  <2>5. PICK place \in {"edit", "reactions"} : place = IF handler[p].resync THEN "edit" ELSE "reactions"
    OBVIOUS
  <2>6. handler' = [handler EXCEPT ![p].pc = place]
    BY <2>1, <2>5
  <2>7. handler'[p].pc = place
    BY <2>4, <2>6
  <2>8. Current' = Current
    BY <1>1, <2>1, <2>2, <2>5, <2>7 DEF Current
  <2>9. QED
    BY <1>1, <1>3, <2>1, <2>3, <2>8, SawMoved
<1>10. CASE HandleEdit(p)
  <2>1. PICK r : \E ok \in BOOLEAN : rows = {r} /\ Placed(r) /\ OneEdited(p, r, ok)
    BY <1>10, EditIs
  <2>2. PICK ok \in BOOLEAN : rows = {r} /\ Placed(r) /\ OneEdited(p, r, ok)
    BY <2>1
  <2>3. handler[p].pc = "edit" /\ handler'[p].pc = "reactions"
    BY <1>10, EditIs
  <2>4. ~Begin(p) /\ ~ClaimEcho(p)
    BY <2>3 DEF Begin, ClaimEcho
  <2> DEFINE id == IF r.Room = p THEN r.MXID ELSE Len(events) + 1
             parts == ConvertGoogleMessage(handler[p].v, TRUE, ok)
             meta == KeepFlags(r.meta, parts[1].meta)
             new == EditedRow(r, p, id, meta)
  <2>5. rows' = {new} /\ NewMeta(parts[1].meta) /\ parts # <<>>
    BY <2>2 DEF OneEdited
  <2>6. PartOf(parts[1], handler[p].v)
    BY <2>5, PartFields
  <2>7. /\ meta.Type = parts[1].meta.Type /\ meta.GlobalStatusText = parts[1].meta.GlobalStatusText
        /\ meta.GroupReadBy = parts[1].meta.GroupReadBy
    <3>1. PICK n : n = parts[1].meta
      OBVIOUS
    <3>2. DOMAIN n = MetaFields
      BY <2>5, <3>1 DEF NewMeta
    <3>3. LET kept == KeepFlags(r.meta, n) IN
          kept.Type = n.Type /\ kept.GlobalStatusText = n.GlobalStatusText /\ kept.GroupReadBy = n.GroupReadBy
      BY <3>2, FlagsCarried
    <3>4. QED
      BY <3>1, <3>3
  <2>8. meta.Type = handler[p].v.Status /\ meta.GlobalStatusText = {} /\ meta.GroupReadBy = {}
    BY <2>6, <2>7 DEF PartOf
  <2>9. new.meta = meta
    <3>1. IsRow(r)
      BY <2>2 DEF Placed
    <3> HIDE DEF id, meta
    <3>2. PICK x, m : x = id /\ m = meta
      OBVIOUS
    <3>3. EditedRow(r, p, x, m).meta = m
      BY ONLY <3>1 DEF EditedRow, IsRow, RowFields
    <3>4. QED
      BY <3>2, <3>3
  <2> HIDE DEF new, meta, parts
  <2>10. PICK x : x = new
    OBVIOUS
  <2>11. /\ x.meta.Type = handler[p].v.Status /\ x.meta.GlobalStatusText = {} /\ x.meta.GroupReadBy = {}
         /\ rows' = {x}
    BY <2>5, <2>8, <2>9, <2>10
  <2>12. handler[p].v = phone'[Taken']
    BY <1>1, <1>3, <2>4
  <2>13. QED
    BY <1>1, <2>3, <2>11, <2>12, SawFresh
<1>11. ASSUME NEW ok \in BOOLEAN, ConvertMessage(p, ok) PROVE Saw'
  <2>1. rows = {} /\ handler[p].pc = "new"
    BY <1>11, NewIs
  <2>2. ~pending
    BY <2>1, AtWork
  <2>3. QED
    BY <1>2, <2>1, <2>2 DEF Claimed
<1>12. CASE Remove(p)
  <2>1. handler[p].pc = "remove"
    BY <1>12 DEF Remove
  <2>2. \E i \in 1..Len(phone) : phone[i].Status = MESSAGE_DELETED
    BY <2>1, AtWork
  <2>3. QED
    BY <1>4, <2>2
<1>13. CASE HandleExistingResends(p)
  BY <1>0, <1>13, ResendPlace
<1>14. CASE Begin(p)
  <2>1. ~ClaimEcho(p)
    BY <1>14 DEF Begin, ClaimEcho
  <2>2. /\ handler[p].pc = "idle" /\ queue[p] # <<>> /\ UNCHANGED <<rows, receipts>>
        /\ queue' = [queue EXCEPT ![p] = Tail(@)]
        /\ \/ p \notin rooms
           \/ /\ handler'[p].pc \in {"remove", "new", "existing"} /\ handler'[p].v = phone[Head(queue[p])]
              /\ handler'[p].pc = "remove" <=> handler'[p].v.Status = MESSAGE_DELETED
              /\ handler'[p].pc = "new" => rows = {}
    BY <1>0, <1>14, <2>1, Began
  <2>3. p \in rooms
    <3>1. scenario.outgoing /\ Outgoing.ConversationID \in rooms
      BY <1>2 DEF WaysInv
    <3>2. Outgoing.ConversationID = Chat
      BY <1>0, <3>1, OutgoingOf, ChatIs DEF PhoneType
    <3>3. QED
      BY <1>1, <3>1, <3>2
  <2>4. Head(queue[p]) \in 1..Len(phone)
    BY <1>0, <1>1, <2>2, HeadIs
  <2>5. handler'[p].pc # "remove"
    BY <1>4, <2>2, <2>3, <2>4
  <2>6. Current = rows /\ Current' = rows
    BY <1>1, <2>2, <2>3 DEF Current
  <2>7. handler'[p].pc = "existing" \/ rows = {}
    BY <2>2, <2>3, <2>5
  <2>8. QED
    BY <1>1, <2>2, <2>6, <2>7, SawMoved
<1>15. CASE ClaimEcho(p)
  <2> DEFINE v == phone[Head(queue[p])]
             row == Row("", p, IF scenario.reid THEN 2 ELSE 1, v, handleRemoteEcho(v))
  <2>1. handler'[p].pc = "existing" /\ pending
    BY <1>0, <1>15, Began
  <2>2. rows = {}
    BY <1>0, <2>1 DEF StatusInv, ChatInv, PendingInv, Untouched
  <2>3. rows' = {row}
    BY <1>15, <2>2, Zenon DEF ClaimEcho
  <2>4. PICK r, m : r = row /\ m = handleRemoteEcho(v)
    OBVIOUS
  <2>5. r.meta = m
    BY <2>4 DEF Row
  <2>6. m.GroupReadBy = {} /\ m.GlobalStatusText = {}
    BY <2>4, EchoReaders
  <2>7. rows' = {r}
    BY <2>3, <2>4
  <2>8. QED
    BY <1>1, <2>1, <2>5, <2>6, <2>7, SawFresh
<1>16. QED
  BY <1>6, <1>7, <1>8, <1>9, <1>10, <1>11, <1>12, <1>13, <1>14, <1>15 DEF PortalStep

LEMMA SeenInit == Init => SeenInv
<1> SUFFICES ASSUME Init PROVE ~Echoed
  BY DEF SeenInv
<1>1. QED
  BY DEF Init, Echoed

LEMMA SeenStep ==
  MessageInv /\ MessageInv' /\ StatusInv /\ WaysInv /\ PlaceInv /\ UserInv /\ OnceInv /\ TailInv /\ SeenInv /\ [Next]_vars
  => SeenInv'
<1> SUFFICES ASSUME MessageInv, MessageInv', StatusInv, WaysInv, PlaceInv, UserInv, OnceInv, TailInv, SeenInv,
                    [Next]_vars, Echoed', Chat' = "group"
             PROVE  Saw'
  BY DEF SeenInv
<1>1. Onward
  BY StepOnward
<1>2. /\ Kept /\ ~Restart /\ Chat' = Chat /\ Stays' = Stays
      /\ send \notin {"no", "failed"} \/ HandleMatrixMessage
  BY <1>1, SaysGrow
<1>3. Alone /\ Stays /\ restarts = 0
  BY <1>2 DEF Alone, Kept, UserInv
<1>4. PhoneType /\ ReceiptType
  BY DEF MessageInv, OnceInv
<1>5. CASE HandleMatrixMessage
  <2>1. rows = {} /\ handler[Chat].pc = "idle"
    BY <1>3, <1>5 DEF HandleMatrixMessage, StatusInv, ChatInv, PendingInv, Untouched
  <2>2. UNCHANGED <<rows, handler>>
    BY <1>5 DEF HandleMatrixMessage
  <2>3. Current' = {}
    BY <1>2, <2>1, <2>2 DEF Current
  <2>4. QED
    BY <2>3 DEF Saw
<1>6. CASE Echoed
  <2>1. Saw
    BY <1>2, <1>6 DEF SeenInv
  <2>2. ASSUME NEW p \in Convs, PortalStep(p) PROVE Saw'
    BY <1>2, <1>3, <1>4, <1>6, <2>1, <2>2, PortalSaw DEF PlaceInv
  <2>3. CASE \A p \in Convs : ~PortalStep(p)
    <3>1. UNCHANGED <<handler, rows, receipts>> /\ Taken' = Taken
      BY <1>2, <1>3, <2>3, StepOutside DEF Outside
    <3>2. Taken > 0 => phone'[Taken] = phone[Taken]
      <4>1. Taken \in 0..Len(phone)
        BY <1>3 DEF TailInv
      <4>2. Taken > 0 => Taken \in 1..Len(phone)
        BY <1>4, <4>1, LenProperties DEF PhoneType
      <4>3. QED
        BY <1>1, <4>2 DEF Onward
    <3>3. Current' = Current
      BY <1>2, <3>1 DEF Current
    <3>4. \A v, r : Seen(v, r)' <=> Seen(v, r)
      BY <3>1 DEF Seen
    <3>5. QED
      BY <1>2, <2>1, <3>1, <3>2, <3>3, <3>4 DEF Saw
  <2>4. QED
    BY <2>2, <2>3
<1>7. QED
  BY <1>2, <1>5, <1>6 DEF Echoed
-----------------------------------------------------------------------------
LEMMA ReceiptSound ==
  MessageInv /\ StatusInv /\ WaysInv /\ PlaceInv /\ UserInv /\ OnceInv /\ TailInv /\ ReadInv /\ SeenInv => ReceiptsRight
<1> SUFFICES ASSUME MessageInv, StatusInv, WaysInv, PlaceInv, UserInv, OnceInv, TailInv, ReadInv, SeenInv
             PROVE  ReceiptsOnce /\ ReadersShown
  BY DEF ReceiptsRight
<1>1. ReceiptsOnce
  <2> SUFFICES ASSUME Alone, ~Resent, ~Deleted, NEW k \in Kinds
               PROVE  receipts[k] <= 1 \/ (k \in Readers /\ Rewritten)
    BY DEF ReceiptsOnce
  <2>1. CASE k \notin Readers
    BY <2>1 DEF Kinds, OnceInv, Once
  <2>2. CASE k \in Readers /\ ~Rewritten
    <3>1. Kept
      BY <2>2 DEF Kept, Rewritten, Alone
    <3>2. QED
      BY <2>2, <3>1 DEF ReadInv, Reads
  <2>3. QED
    BY <2>1, <2>2
<1>2. ReadersShown
  <2> SUFFICES ASSUME Quiescent, Echoed, scenario.outgoing, Last.ConversationID = "group",
                      Last.Status = OUTGOING_DISPLAYED, Main(rows).meta.Type # OUTGOING_DISPLAYED,
                      NEW k \in Last.ReadBy
               PROVE  receipts[k] > 0
    BY DEF ReadersShown
  <2>1. Kept /\ Stays /\ restarts = 0 /\ PhoneType /\ OnePortal
    BY DEF Echoed, Kept, MessageInv, StatusInv, ChatInv
  <2>2. Chat \in Convs /\ \A v \in scenario.versions : v.ConversationID = Chat
    BY <2>1, ChatIs DEF PhoneType
  <2>3. handler[Chat].pc = "idle" /\ queue[Chat] = <<>> /\ send \notin {"no", "sending", "failed"}
    BY <2>2 DEF Quiescent, Echoed
  <2>4. phone # <<>> /\ Taken = Len(phone) /\ Len(phone) > 0
    <3>1. phone # <<>>
      BY <2>1, <2>3 DEF TailInv
    <3>2. Len(phone) \in Nat /\ Len(phone) # 0
      BY <2>1, <3>1, LenProperties, EmptySeq DEF PhoneType
    <3>3. Len(queue[Chat]) = 0
      BY <2>3
    <3>4. QED
      BY <3>1, <3>2, <3>3 DEF Taken
  <2>5. PICK n \in 1..Len(phone) : n = Taken /\ n = Len(phone)
    BY <2>4
  <2>6. Last = phone[n] /\ Chat = "group"
    BY <2>1, <2>5 DEF Last, TailInv
  <2>7. ~pending
    <3>1. pending => Outgoing.ConversationID = Chat
      BY <2>1, <2>2, OutgoingOf
    <3>2. QED
      BY <2>3, <2>4, <3>1 DEF WaysInv, FirstInv
  <2>8. Claimed(rows)
    BY <2>1, <2>7 DEF Echoed, StatusInv, KeptInv, LateInv
  <2>9. PICK r : rows = {r}
    BY <2>8 DEF Claimed
  <2>10. Current = {r} /\ Main(rows) = r
    BY <2>3, <2>9, MainOne DEF Current
  <2>11. Seen(phone[n], r)
    BY <2>3, <2>4, <2>5, <2>6, <2>10 DEF SeenInv, Saw
  <2>12. QED
    BY <2>6, <2>10, <2>11 DEF Seen
<1>3. QED
  BY <1>1, <1>2

(* However statuses, readers and edits follow each other: each receipt is  *)
(* sent once, and everyone the phone lists as reader of a message sent from*)
(* Matrix to a group gets one (HandleExisting's receipts, KeepFlags).      *)
THEOREM ReceiptsRightThm == Spec => []ReceiptsRight
<1>1. Init => /\ MessageInv /\ StatusInv /\ WaysInv /\ PlaceInv /\ UserInv
              /\ OnceInv /\ TailInv /\ ReadInv /\ SeenInv
  BY MessageInvInit, StatusInit, WaysInit, PlaceInit, UserInit, OnceInit, TailInit, ReadInit, SeenInit
<1>2. /\ MessageInv /\ StatusInv /\ WaysInv /\ PlaceInv /\ UserInv
      /\ OnceInv /\ TailInv /\ ReadInv /\ SeenInv /\ [Next]_vars
      => /\ MessageInv' /\ StatusInv' /\ WaysInv' /\ PlaceInv' /\ UserInv'
         /\ OnceInv' /\ TailInv' /\ ReadInv' /\ SeenInv'
  <2>1. /\ MessageInv /\ StatusInv /\ WaysInv /\ PlaceInv /\ UserInv /\ [Next]_vars
        => MessageInv' /\ StatusInv' /\ WaysInv' /\ PlaceInv' /\ UserInv'
    BY MessageInvStep, StatusStep, WaysStep, PlaceStep, UserStep
  <2>2. MessageInv /\ StatusInv /\ WaysInv /\ TailInv /\ [Next]_vars => TailInv'
    BY TailStep
  <2>3. QED
    BY <2>1, <2>2, OnceStep, ReadStep, SeenStep
<1>3. /\ MessageInv /\ StatusInv /\ WaysInv /\ PlaceInv /\ UserInv
      /\ OnceInv /\ TailInv /\ ReadInv /\ SeenInv
      => ReceiptsRight
  BY ReceiptSound
<1>4. QED
  BY <1>1, <1>2, <1>3, PTL DEF Spec
-----------------------------------------------------------------------------
(* What is shown.  A row says what its event shows, unless it counts no    *)
(* parts: then it is equal to no version (doMessageResync).  The user's    *)
(* own attachment is not compared.                                         *)
Faithful(r) ==
    LET m == r.meta s == events[r.MXID].shows IN
    /\ m.GlobalPartCount # 0 => m.TextHash = s.text /\ m.GlobalMediaStatus = s.note
    /\ ~scenario.outgoing =>
          m.IsOutgoing = FALSE /\ (m.MediaID = "f" => s.media \in {"full", "failed"})

(* Every event that is not redacted is that of a row, but for a message on *)
(* its way from Matrix, and what a row was dropped for without redaction.  *)
Owned == \A i \in 1..Len(events) : events[i].gone = FALSE => pending \/ \E r \in rows : r.MXID = i
FaithInv ==
    Alone => /\ \A r \in rows : Faithful(r)
             /\ (~Resent /\ send # "failed") => Owned
             /\ pending => events[1].shows = getTextPart(Outgoing).shows

(* A portal's queue is in the phone's order and, from its head on, misses  *)
(* no version of its chat.                                                 *)
Entries(s) == {s[i] : i \in 1..Len(s)}
Rising(s) == \A i, j \in 1..Len(s) : i < j => s[i] < s[j]
Waiting(p) == Entries(queue[p])
InQueue(p) ==
    /\ Rising(queue[p])
    /\ \A i \in Waiting(p) : phone[i].ConversationID = p
    /\ \A i \in Waiting(p) : \A j \in 1..Len(phone) :
          i <= j /\ phone[j].ConversationID = p => j \in Waiting(p)
QueueInv == scenario.rooms \subseteq rooms /\ \A p \in Convs : InQueue(p)

(* The portals keep the phone's order: n is the last version one of them   *)
(* took, and those after it are waiting, or were passed over by a portal   *)
(* without a room.                                                         *)
Passed(i) == phone[i].ConversationID \notin rooms /\ ~ShouldCreatePortal(phone[i].Status)
Order(n) ==
    /\ \A p \in Convs : \A i \in Waiting(p) : i > n
    /\ \A i \in 1..Len(phone) : i > n => (\E p \in Convs : i \in Waiting(p)) \/ Passed(i)
    /\ \A p \in Convs : handler[p].pc # "idle" =>
          n > 0 /\ handler[p].v = phone[n] /\ phone[n].ConversationID = p

(* A version that can be sent as new has been, unless it is about to be.   *)
HasRow(n) ==
    \A i \in 1..Len(phone) : i <= n /\ Bridged(phone[i]) =>
        rows # {} \/ (i = n /\ \E p \in Convs : handler[p].pc = "new")

(* The last version taken is shown once its row needs no resync, and so    *)
(* are its reactions once its portal is done, if a row was there before.   *)
Complete(v) == downloadStatusRank(v.Status) = 100 /\ v.Status # MESSAGE_DELETED /\ MessageInfo(v) > 0
Shown(v) ==
    \E r \in rows : LET s == events[r.MXID].shows IN
        /\ r.Room = v.ConversationID /\ s.text = v.text /\ s.note = ""
        /\ v.media = "full" /\ ~scenario.outgoing => s.media \in {"full", "failed"}
Unfinished(p) ==
    \/ handler[p].pc \in {"existing", "new", "edit", "remove"}
    \/ handler[p].pc = "save" /\ handler[p].resync = TRUE
Synced(n) ==
    (scenario.outgoing \/ \E i \in 1..Len(phone) : i < n /\ Bridged(phone[i])) =>
        reactions = phone[n].Reactions
Matches(n) ==
    /\ (\A p \in Convs : ~Unfinished(p)) => Shown(phone[n])
    /\ (\A p \in Convs : handler[p].pc = "idle") /\ ~Deleted => Synced(n)
Handled(n) == n > 0 /\ Complete(phone[n]) => Matches(n)

Trail == Alone /\ ~overtaken /\ ~aged /\ ~Resent /\ send # "failed"
FollowInv == Trail => \E n \in 0..Len(phone) : Order(n) /\ (~Deleted => HasRow(n)) /\ Handled(n)

-----------------------------------------------------------------------------
LEMMA TailEntries ==
  ASSUME NEW s \in Seq(Nat), s # <<>>, Rising(s)
  PROVE  /\ Rising(Tail(s)) /\ Entries(Tail(s)) = Entries(s) \ {Head(s)}
         /\ Head(s) \in Entries(s) /\ \A i \in Entries(s) : i \in Nat /\ (i = Head(s) \/ i > Head(s))
<1>1. PICK n \in Nat : n = Len(s) /\ n > 0
  BY LenProperties, EmptySeq
<1>2. /\ Len(Tail(s)) = n - 1 /\ Head(s) = s[1]
      /\ \A i \in 1..n - 1 : Tail(s)[i] = s[i + 1]
  BY <1>1, HeadTailProperties
<1>3. \A i \in 1..n : s[i] \in Nat
  BY <1>1, ElementOfSeq
<1>4. \A i \in 1..n : 1 < i => s[1] < s[i]
  BY <1>1 DEF Rising
<1>5. Rising(Tail(s))
  <2> SUFFICES ASSUME NEW i \in 1..n - 1, NEW j \in 1..n - 1, i < j PROVE Tail(s)[i] < Tail(s)[j]
    BY <1>2 DEF Rising
  <2>1. i + 1 \in 1..n /\ j + 1 \in 1..n /\ i + 1 < j + 1
    BY <1>1
  <2>2. s[i + 1] < s[j + 1]
    BY <1>1, <2>1 DEF Rising
  <2>3. QED
    BY <1>2, <2>2
<1>6. \A i \in 1..n : i = 1 \/ (i - 1 \in 1..n - 1 /\ i = (i - 1) + 1)
  BY <1>1
<1>7. \A i \in 1..n - 1 : i + 1 \in 1..n /\ 1 < i + 1
  BY <1>1
<1>8. 1 \in 1..n
  BY <1>1
<1>9. Entries(s) = {s[i] : i \in 1..n} /\ Entries(Tail(s)) = {Tail(s)[i] : i \in 1..n - 1}
  BY <1>1, <1>2 DEF Entries
<1>10. \A e \in Entries(Tail(s)) : e \in Entries(s) /\ e # Head(s)
  <2>1. \A i \in 1..n - 1 : Tail(s)[i] = s[i + 1] /\ i + 1 \in 1..n /\ s[1] < s[i + 1]
    BY <1>2, <1>4, <1>7
  <2>2. \A i \in 1..n : s[1] < s[i] => s[i] # s[1]
    BY <1>3, <1>8
  <2>3. QED
    BY <1>2, <1>9, <2>1, <2>2
<1>11. \A e \in Entries(s) : e = Head(s) \/ (e \in Entries(Tail(s)) /\ e > Head(s))
  <2> SUFFICES ASSUME NEW i \in 1..n, i # 1 PROVE s[i] \in Entries(Tail(s)) /\ s[i] > s[1]
    BY <1>2, <1>9
  <2>1. i - 1 \in 1..n - 1 /\ Tail(s)[i - 1] = s[i]
    BY <1>2, <1>6
  <2>2. s[1] < s[i]
    BY <1>4, <1>6
  <2>3. QED
    BY <1>3, <1>8, <1>9, <2>1, <2>2
<1>12. \A e \in Entries(s) : e \in Nat
  BY <1>3, <1>9
<1>13. Head(s) \in Entries(s)
  BY <1>2, <1>8, <1>9
<1>14. QED
  BY <1>5, <1>10, <1>11, <1>12, <1>13

LEMMA AppendEntries ==
  ASSUME NEW s \in Seq(Nat), NEW x \in Nat, Rising(s), \A i \in Entries(s) : i < x
  PROVE  Rising(Append(s, x)) /\ Entries(Append(s, x)) = Entries(s) \cup {x}
<1> DEFINE t == Append(s, x)
<1>1. PICK n \in Nat : n = Len(s)
  BY LenProperties
<1>2. Len(t) = n + 1 /\ t[n + 1] = x /\ \A i \in 1..n : t[i] = s[i]
  BY <1>1, AppendProperties
<1> HIDE DEF t
<1>3. \A i \in 1..n + 1 : i \in 1..n \/ i = n + 1
  BY <1>1
<1>4. (\A i \in 1..n : i \in 1..n + 1) /\ n + 1 \in 1..n + 1
  BY <1>1
<1>5. Entries(t) = Entries(s) \cup {x}
  BY <1>1, <1>2, <1>3, <1>4 DEF Entries
<1>6. Rising(t)
  <2> SUFFICES ASSUME NEW i \in 1..n + 1, NEW j \in 1..n + 1, i < j PROVE t[i] < t[j]
    BY <1>2 DEF Rising
  <2>1. i \in 1..n
    BY <1>1
  <2>2. CASE j \in 1..n
    BY <1>1, <1>2, <2>1, <2>2 DEF Rising
  <2>3. CASE j = n + 1
    BY <1>1, <1>2, <2>1, <2>3 DEF Entries
  <2>4. QED
    BY <1>3, <2>2, <2>3
<1>7. QED
  BY <1>5, <1>6 DEF t

LEMMA WaitingIs ==
  ASSUME PhoneType, NEW p \in Convs
  PROVE  /\ queue[p] \in Seq(Nat) /\ Len(phone) \in Nat
         /\ \A i \in Waiting(p) : i \in 1..Len(phone) /\ phone[i] \in MessageType /\ phone[i].ConversationID \in Convs
<1>1. queue[p] \in Seq(Nat) /\ Len(phone) \in Nat /\ \A i \in Waiting(p) : i \in 1..Len(phone)
  BY LenProperties DEF PhoneType, Waiting, Entries
<1>2. \A i \in 1..Len(phone) : phone[i] \in MessageType
  BY ElementOfSeq DEF PhoneType
<1>3. \A m \in MessageType : m.ConversationID \in Convs
  BY DEF MessageType
<1>4. QED
  BY <1>1, <1>2, <1>3

(* The front of a portal's queue.                                          *)
LEMMA QueueTaken ==
  ASSUME PhoneType, NEW p \in Convs, InQueue(p), queue[p] # <<>>, queue' = [queue EXCEPT ![p] = Tail(@)]
  PROVE  /\ Waiting(p)' = Waiting(p) \ {Head(queue[p])} /\ Rising(queue'[p])
         /\ Head(queue[p]) \in Waiting(p) /\ \A i \in Waiting(p) : i = Head(queue[p]) \/ i > Head(queue[p])
         /\ \A q \in Convs : q # p => Waiting(q)' = Waiting(q) /\ queue'[q] = queue[q]
<1>1. queue[p] \in Seq(Nat) /\ Rising(queue[p])
  BY WaitingIs DEF InQueue
<1>2. queue'[p] = Tail(queue[p]) /\ \A q \in Convs : q # p => queue'[q] = queue[q]
  BY DEF PhoneType
<1>3. QED
  BY <1>1, <1>2, TailEntries DEF Waiting

LEMMA FollowInit == Init => FaithInv /\ QueueInv /\ FollowInv
<1> SUFFICES ASSUME Init PROVE FaithInv /\ QueueInv /\ FollowInv
  OBVIOUS
<1>1. /\ phone = <<>> /\ queue = [p \in Convs |-> <<>>] /\ handler = [p \in Convs |-> Idle]
      /\ rows = {} /\ events = <<>> /\ rooms = scenario.rooms /\ pending = FALSE
  BY DEF Init
<1>2. Len(phone) = 0 /\ Len(events) = 0 /\ \A p \in Convs : queue[p] = <<>> /\ Len(queue[p]) = 0
  BY <1>1
<1>3. \A p \in Convs : handler[p].pc = "idle"
  BY <1>1 DEF Idle
<1>4. (\A i \in 1..0 : FALSE) /\ 0 \in 0..0
  OBVIOUS
<1>5. FaithInv
  BY <1>1, <1>2, <1>4 DEF FaithInv, Owned
<1>6. \A p \in Convs : Waiting(p) = {}
  BY <1>2, <1>4 DEF Waiting, Entries
<1>7. QueueInv
  BY <1>1, <1>2, <1>4, <1>6 DEF QueueInv, InQueue, Rising
<1>8. Order(0) /\ HasRow(0) /\ Handled(0)
  BY <1>2, <1>3, <1>4, <1>6 DEF Order, HasRow, Handled
<1>9. QED
  BY <1>2, <1>4, <1>5, <1>7, <1>8 DEF FollowInv

(* The phone sends a version, a portal takes one; in any case the queues   *)
(* stay in the phone's order.                                              *)
LEMMA InQueueAdded ==
  ASSUME PhoneType, \A p \in Convs : InQueue(p), NEW v \in MessageType, phone' = Append(phone, v),
         queue' = [queue EXCEPT ![v.ConversationID] = Append(@, Len(phone) + 1)]
  PROVE  /\ \A p \in Convs : InQueue(p)'
         /\ Len(phone') = Len(phone) + 1 /\ Len(phone) \in Nat /\ phone'[Len(phone) + 1] = v
         /\ \A i \in 1..Len(phone) : phone'[i] = phone[i]
         /\ \A p \in Convs : Waiting(p)' = Waiting(p) \cup (IF p = v.ConversationID THEN {Len(phone) + 1} ELSE {})
<1>1. PICK n \in Nat : n = Len(phone)
  BY LenProperties DEF PhoneType
<1>2. Len(phone') = n + 1 /\ phone'[n + 1] = v /\ \A i \in 1..n : phone'[i] = phone[i]
  BY <1>1, AppendProperties DEF PhoneType
<1>3. v.ConversationID \in Convs
  BY DEF MessageType
<1>4. PICK c \in Convs : c = v.ConversationID
  BY <1>3
<1>5. queue'[c] = Append(queue[c], n + 1) /\ \A p \in Convs : p # c => queue'[p] = queue[p]
  BY <1>1, <1>4 DEF PhoneType
<1>6. \A p \in Convs : Rising(queue[p]) /\ queue[p] \in Seq(Nat) /\ \A i \in Waiting(p) : i \in 1..n
  BY <1>1, WaitingIs DEF InQueue
<1>7. n + 1 \in Nat /\ \A i \in 1..n : i < n + 1
  BY <1>1
<1>8. Rising(queue'[c]) /\ Waiting(c)' = Waiting(c) \cup {n + 1}
  BY <1>5, <1>6, <1>7, AppendEntries DEF Waiting
<1>9. \A p \in Convs : p # c => Rising(queue'[p]) /\ Waiting(p)' = Waiting(p)
  BY <1>5, <1>6 DEF Waiting
<1>10. \A i \in 1..n + 1 : i \in 1..n \/ i = n + 1
  BY <1>1
<1>11. ASSUME NEW p \in Convs PROVE InQueue(p)'
  <2>1. Rising(queue[p])' /\ Waiting(p)' = Waiting(p) \cup (IF p = c THEN {n + 1} ELSE {})
    BY <1>8, <1>9
  <2>2. \A i \in Waiting(p)' : phone'[i].ConversationID = p
    BY <1>2, <1>4, <1>6, <2>1 DEF InQueue
  <2>3. ASSUME NEW i \in Waiting(p)', NEW j \in 1..n + 1, i <= j, phone'[j].ConversationID = p
        PROVE  j \in Waiting(p)'
    <3>1. CASE j = n + 1
      BY <1>2, <1>4, <2>1, <2>3, <3>1
    <3>2. CASE j \in 1..n
      <4>1. i \in Waiting(p)
        BY <1>7, <2>1, <2>3, <3>2
      <4>2. phone[j].ConversationID = p
        BY <1>2, <2>3, <3>2
      <4>3. j \in Waiting(p)
        BY <1>1, <2>3, <3>2, <4>1, <4>2 DEF InQueue
      <4>4. QED
        BY <2>1, <4>3
    <3>3. QED
      BY <1>10, <3>1, <3>2
  <2>4. QED
    BY <1>2, <2>1, <2>2, <2>3 DEF InQueue
<1>12. QED
  BY <1>1, <1>2, <1>4, <1>8, <1>9, <1>11

LEMMA InQueueTaken ==
  ASSUME PhoneType, NEW p \in Convs, \A q \in Convs : InQueue(q), queue[p] # <<>>,
         queue' = [queue EXCEPT ![p] = Tail(@)], UNCHANGED phone
  PROVE  \A q \in Convs : InQueue(q)'
<1>1. /\ Waiting(p)' = Waiting(p) \ {Head(queue[p])} /\ Rising(queue'[p]) /\ Head(queue[p]) \in Waiting(p)
      /\ \A i \in Waiting(p) : i = Head(queue[p]) \/ i > Head(queue[p])
      /\ \A q \in Convs : q # p => Waiting(q)' = Waiting(q) /\ queue'[q] = queue[q]
  BY QueueTaken
<1>2. ASSUME NEW q \in Convs, q # p PROVE InQueue(q)'
  BY <1>1, <1>2 DEF InQueue
<1>3. Head(queue[p]) \in Nat /\ \A i \in Waiting(p) : i \in Nat
  BY <1>1, WaitingIs
<1>4. ASSUME NEW i \in Waiting(p)', NEW j \in 1..Len(phone), i <= j, phone[j].ConversationID = p
      PROVE  j \in Waiting(p)'
  <2>1. i \in Waiting(p) /\ i > Head(queue[p])
    BY <1>1
  <2>2. j \in Waiting(p)
    BY <1>4, <2>1 DEF InQueue
  <2>3. j # Head(queue[p])
    BY <1>3, <1>4, <2>1, <2>2
  <2>4. QED
    BY <1>1, <2>2, <2>3
<1>5. InQueue(p)'
  <2>1. \A i \in Waiting(p)' : phone'[i].ConversationID = p
    BY <1>1 DEF InQueue
  <2>2. QED
    BY <1>1, <1>4, <2>1 DEF InQueue
<1>6. QED
  BY <1>2, <1>5

LEMMA QueueStep == MessageInv /\ WaysInv /\ QueueInv /\ [Next]_vars => QueueInv'
<1> SUFFICES ASSUME MessageInv, WaysInv, QueueInv, [Next]_vars PROVE QueueInv'
  OBVIOUS
<1>0. PhoneType /\ HandlerType /\ \A p \in Convs : InQueue(p)
  BY DEF MessageInv, QueueInv
<1>1. scenario.rooms \subseteq rooms
  BY DEF QueueInv
<1>2. ASSUME UNCHANGED <<scenario, phone, queue>>, rooms \subseteq rooms' PROVE QueueInv'
  <2>1. \A p \in Convs : InQueue(p)' = InQueue(p)
    BY <1>2 DEF InQueue, Waiting
  <2>2. QED
    BY <1>0, <1>1, <1>2, <2>1 DEF QueueInv
<1>3. CASE \E v \in scenario.versions : PhoneUpdate(v)
  <2>1. PICK v \in scenario.versions : PhoneUpdate(v)
    BY <1>3
  <2>2. v \in MessageType
    BY <1>0, ScenarioAssumption DEF PhoneType
  <2>3. /\ phone' = Append(phone, v) /\ UNCHANGED <<scenario, rooms>>
        /\ queue' = [queue EXCEPT ![v.ConversationID] = Append(@, Len(phone) + 1)]
    BY <2>1 DEF PhoneUpdate, matrix
  <2>4. QED
    BY <1>0, <1>1, <2>2, <2>3, InQueueAdded DEF QueueInv
<1>4. CASE PhoneTakes
  <2>1. scenario.outgoing
    BY <1>4 DEF PhoneTakes, MessageInv, ShownType
  <2>2. Outgoing \in MessageType
    BY <1>0, <2>1, OutgoingIs
  <2>3. phone' = Append(phone, Outgoing) /\ Len(phone) + 1 = 1
    BY <1>4 DEF PhoneTakes
  <2>4. /\ UNCHANGED <<scenario, rooms>>
        /\ queue' = [queue EXCEPT ![Outgoing.ConversationID] = Append(@, Len(phone) + 1)]
    BY <1>4, <2>3 DEF PhoneTakes, matrix
  <2>5. QED
    BY <1>0, <1>1, <2>2, <2>3, <2>4, InQueueAdded DEF QueueInv
<1>5. CASE Restart
  <2>1. queue' = [p \in Convs |-> <<>>] /\ UNCHANGED <<scenario, phone, rooms>>
    BY <1>5 DEF Restart, matrix
  <2>2. \A p \in Convs : queue'[p] = <<>> /\ Len(queue'[p]) = 0
    BY <2>1
  <2>3. \A i \in 1..0 : FALSE
    OBVIOUS
  <2>4. \A p \in Convs : Waiting(p)' = {}
    BY <2>2, <2>3 DEF Waiting, Entries
  <2>5. QED
    BY <1>1, <2>1, <2>2, <2>3, <2>4 DEF QueueInv, InQueue, Rising
<1>6. CASE \E p \in Convs : PortalStep(p)
  <2>1. PICK p \in Convs : PortalStep(p)
    BY <1>6
  <2>2. CASE Begin(p) \/ ClaimEcho(p)
    <3>1. /\ queue[p] # <<>> /\ queue' = [queue EXCEPT ![p] = Tail(@)] /\ UNCHANGED <<scenario, phone>>
      BY <1>0, <2>2, Began
    <3>2. rooms \subseteq rooms'
      BY <2>2 DEF Begin, ClaimEcho, Start
    <3>3. QED
      BY <1>0, <1>1, <3>1, <3>2, InQueueTaken DEF QueueInv
  <2>3. CASE ~Begin(p) /\ ~ClaimEcho(p)
    BY <1>0, <1>2, <2>1, <2>3, Worked
  <2>4. QED
    BY <2>2, <2>3
<1>7. CASE Age \/ FullMediaResponse \/ HandleMatrixMessage \/ SendOK \/ SendFailed \/ UNCHANGED vars
  BY <1>2, <1>7 DEF Age, FullMediaResponse, HandleMatrixMessage, SendOK, SendFailed, vars, matrix
<1>8. QED
  BY <1>3, <1>4, <1>5, <1>6, <1>7 DEF Next

-----------------------------------------------------------------------------
(* A step that shows nothing new may redact.                               *)
Faded ==
    /\ Len(events') = Len(events)
    /\ \A i \in 1..Len(events) : /\ events'[i].shows = events[i].shows
                                 /\ events'[i].gone = FALSE => events[i].gone = FALSE

LEMMA FadedIs ==
  ASSUME events \in Seq(MatrixEvent), UNCHANGED events \/ \E copy : events' = Redacted(copy)
  PROVE  Faded
<1>1. ASSUME NEW copy, events' = Redacted(copy) PROVE Faded
  <2>1. Len(events') = Len(events)
    BY <1>1, RedactedIs
  <2>2. ASSUME NEW i \in 1..Len(events)
        PROVE  events'[i].shows = events[i].shows /\ (events'[i].gone = FALSE => events[i].gone = FALSE)
    <3>1. /\ events'[i].shows = events[i].shows
          /\ (\E r \in copy : r.MXID = i) => events'[i].gone = TRUE
          /\ (\A r \in copy : r.MXID # i) => events'[i] = events[i]
      BY <1>1, RedactedOne
    <3>2. CASE \E r \in copy : r.MXID = i
      BY <3>1, <3>2
    <3>3. CASE \A r \in copy : r.MXID # i
      BY <3>1, <3>3
    <3>4. QED
      BY <3>2, <3>3
  <2>3. QED
    BY <2>1, <2>2 DEF Faded
<1>2. QED
  BY <1>1 DEF Faded

(* Which fields of a row say what is shown.                                *)
LEMMA FaithOf ==
  ASSUME UNCHANGED scenario, NEW r, NEW c, Faithful(r), c.MXID = r.MXID,
         events'[r.MXID].shows = events[r.MXID].shows,
         \A f \in {"IsOutgoing", "TextHash", "GlobalPartCount", "GlobalMediaStatus", "MediaID"} :
            c.meta[f] = r.meta[f]
  PROVE  Faithful(c)'
<1>1. /\ c.meta.IsOutgoing = r.meta.IsOutgoing /\ c.meta.TextHash = r.meta.TextHash
      /\ c.meta.GlobalPartCount = r.meta.GlobalPartCount /\ c.meta.GlobalMediaStatus = r.meta.GlobalMediaStatus
      /\ c.meta.MediaID = r.meta.MediaID
  OBVIOUS
<1>2. events'[c.MXID].shows = events[r.MXID].shows
  OBVIOUS
<1>3. QED
  BY <1>1, <1>2 DEF Faithful

(* Events that only fade, with the same row, or its copy saved.            *)
LEMMA FaithFades ==
  ASSUME UNCHANGED scenario, \A r \in rows : Placed(r) /\ Faithful(r), Faded,
         \/ UNCHANGED rows
         \/ \E r, c : rows = {r} /\ rows' = {c} /\ Later(r, c)
  PROVE  /\ \A r \in rows' : Faithful(r)'
         /\ ~pending /\ Owned => Owned'
<1>1. CASE UNCHANGED rows
  <2>1. ASSUME NEW r \in rows PROVE Faithful(r)'
    <3>1. events'[r.MXID].shows = events[r.MXID].shows
      BY DEF Placed, Faded
    <3>2. QED
      BY <3>1, FaithOf
  <2>2. ~pending /\ Owned => Owned'
    BY <1>1 DEF Owned, Faded
  <2>3. QED
    BY <1>1, <2>1, <2>2
<1>2. ASSUME NEW r, NEW c, rows = {r}, rows' = {c}, Later(r, c) PROVE (\A x \in rows' : Faithful(x)') /\ (~pending /\ Owned => Owned')
  <2>1. events'[r.MXID].shows = events[r.MXID].shows
    BY <1>2 DEF Placed, Faded
  <2>2. c.MXID = r.MXID /\ Faithful(r)
    BY <1>2 DEF Later
  <2>3. Faithful(c)'
    BY <1>2, <2>1, <2>2, FaithOf DEF Later
  <2>4. ~pending /\ Owned => Owned'
    BY <1>2, <2>2 DEF Owned, Faded
  <2>5. QED
    BY <1>2, <2>3, <2>4
<1>3. QED
  BY <1>1, <1>2

(* The edit shows the part the row is made from.                           *)
LEMMA EditFaith ==
  ASSUME MessageInv, StatusInv, WaysInv, Alone, RowInv, VisibleInv, \A r \in rows : Faithful(r),
         NEW p \in Convs, HandleEdit(p)
  PROVE  /\ \A r \in rows' : Faithful(r)'
         /\ Owned => Owned'
         /\ \A w : w = handler[p].v /\ w.ConversationID = p /\ Complete(w) => Shown(w)'
<1>1. PICK r : \E ok \in BOOLEAN : rows = {r} /\ Placed(r) /\ OneEdited(p, r, ok)
  BY EditIs
<1>2. PICK ok \in BOOLEAN : OneEdited(p, r, ok)
  BY <1>1
<1> DEFINE id == IF r.Room = p THEN r.MXID ELSE Len(events) + 1
           parts == ConvertGoogleMessage(handler[p].v, TRUE, ok)
           kept == KeepFlags(r.meta, parts[1].meta)
           new == EditedRow(r, p, id, kept)
<1>3. handler[p].pc = "edit" /\ UNCHANGED <<scenario, pending>> /\ \A q \in Convs : q # p => handler[q].pc = "idle"
  BY EditIs
<1>4. ~pending
  BY <1>3, AtWork
<1>5. PICK part : part = parts[1] /\ NewMeta(part.meta) /\ PartOf(part, handler[p].v)
  <2>1. parts # <<>> /\ NewMeta(parts[1].meta)
    BY <1>2 DEF OneEdited
  <2>2. PartOf(parts[1], handler[p].v)
    BY <2>1, PartFields
  <2>3. QED
    BY <2>1, <2>2
<1>6. PICK meta : meta = kept
  OBVIOUS
<1>7. meta = KeepFlags(r.meta, part.meta) /\ DOMAIN part.meta = MetaFields
  BY <1>5, <1>6 DEF NewMeta
<1>8. /\ meta.IsOutgoing = r.meta.IsOutgoing /\ meta.TextHash = part.meta.TextHash
      /\ meta.GlobalMediaStatus = part.meta.GlobalMediaStatus
      /\ meta.GlobalPartCount = part.meta.GlobalPartCount /\ meta.MediaID = part.meta.MediaID
  BY <1>7, FlagsKept, FlagsCarried
<1>9. PICK x : x = new
  OBVIOUS
<1>10. PICK k : k = id
  OBVIOUS
<1>11. rows' = {x} /\ x = EditedRow(r, p, k, meta) /\ events'[k].shows = part.shows
  BY <1>2, <1>5, <1>6, <1>9, <1>10 DEF OneEdited
<1>12. x.meta = meta /\ x.MXID = k /\ x.Room = p
  <2>1. IsRow(r)
    BY <1>1 DEF Placed
  <2>2. DOMAIN meta = MetaFields
    BY <1>7, FlagsKept
  <2>3. QED
    BY <1>11, <2>1, <2>2, EditedIs
<1>13. Faithful(r)
  BY <1>1
<1>14. Faithful(x)'
  <2>1. /\ part.meta.GlobalPartCount # 0 => /\ part.meta.TextHash = part.shows.text
                                           /\ part.meta.GlobalMediaStatus = part.shows.note
        /\ part.meta.MediaID = "f" => part.shows.media \in {"full", "failed"}
    BY <1>5 DEF PartOf
  <2>2. ~scenario.outgoing => r.meta.IsOutgoing = FALSE
    BY <1>13 DEF Faithful
  <2>3. /\ meta.GlobalPartCount # 0 => meta.TextHash = part.shows.text /\ meta.GlobalMediaStatus = part.shows.note
        /\ ~scenario.outgoing => /\ meta.IsOutgoing = FALSE
                                 /\ meta.MediaID = "f" => part.shows.media \in {"full", "failed"}
    BY <1>8, <2>1, <2>2
  <2>4. x.meta = meta /\ events'[x.MXID].shows = part.shows /\ scenario' = scenario
    BY <1>3, <1>11, <1>12
  <2>5. QED
    BY <2>3, <2>4 DEF Faithful
<1>15. ASSUME Owned PROVE Owned'
  <2>1. \A i \in 1..Len(events) : events[i].gone = FALSE => i = r.MXID
    BY <1>1, <1>4, <1>15 DEF Owned
  <2>2. \A i \in 1..Len(events) : events'[i].gone = events[i].gone
    BY <1>2 DEF OneEdited
  <2>3. events \in Seq(MatrixEvent) /\ Len(events) \in Nat
    BY LenProperties DEF MessageInv, ShownType
  <2>4. CASE r.Room = p
    <3>1. k = r.MXID /\ Len(events') = Len(events)
      BY <1>2, <1>10, <2>4 DEF OneEdited
    <3>2. QED
      BY <1>11, <1>12, <2>1, <2>2, <3>1 DEF Owned
  <2>5. CASE r.Room # p
    <3>1. k = Len(events) + 1 /\ Len(events') = Len(events) + 1
      BY <1>2, <1>10, <2>5 DEF OneEdited
    <3>2. events[r.MXID].gone = TRUE
      BY <1>1, <1>3, <2>5 DEF VisibleInv, Elsewhere
    <3>3. \A i \in 1..Len(events) : events'[i].gone # FALSE
      BY <2>1, <2>2, <3>2
    <3>4. \A i \in 1..Len(events) + 1 : i \in 1..Len(events) \/ i = Len(events) + 1
      BY <2>3
    <3>5. QED
      BY <1>11, <1>12, <3>1, <3>3, <3>4 DEF Owned
  <2>6. QED
    BY <2>4, <2>5
<1>16. ASSUME NEW v, v = handler[p].v, v.ConversationID = p, Complete(v) PROVE Shown(v)'
  <2>1. downloadPendingStatusMessage(v.Status) = ""
    BY <1>16 DEF Complete, downloadStatusRank, downloadPendingStatusMessage,
         INCOMING_AUTO_DOWNLOADING, INCOMING_MANUAL_DOWNLOADING,
         INCOMING_RETRYING_AUTO_DOWNLOAD, INCOMING_DOWNLOAD_FAILED, INCOMING_YET_TO_MANUAL_DOWNLOAD,
         INCOMING_RETRYING_MANUAL_DOWNLOAD, INCOMING_DOWNLOAD_FAILED_SIM_HAS_NO_DATA,
         INCOMING_DOWNLOAD_FAILED_TOO_LARGE, INCOMING_DOWNLOAD_CANCELED
  <2>2. /\ part.shows.text = v.text /\ part.shows.note = ""
        /\ v.media = "full" => part.shows.media \in {"full", "failed"}
    BY <1>5, <1>16, <2>1 DEF PartOf
  <2>3. QED
    BY <1>11, <1>12, <1>16, <2>2 DEF Shown
<1>17. QED
  BY <1>11, <1>14, <1>15, <1>16

LEMMA NewFaith ==
  ASSUME MessageInv, StatusInv, WaysInv, Alone, RowInv, VisibleInv, NEW p \in Convs, NEW ok \in BOOLEAN,
         ConvertMessage(p, ok)
  PROVE  /\ \A r \in rows' : Faithful(r)'
         /\ Owned => Owned'
         /\ \A w : w = handler[p].v /\ w.ConversationID = p /\ Complete(w) => Shown(w)'
         /\ ~Empty(handler[p].v) => rows' # {}
<1> DEFINE v == handler[p].v
           parts == ConvertGoogleMessage(v, TRUE, ok)
<1>1. /\ rows = {} /\ v \in MessageType /\ handler[p].pc = "new" /\ UNCHANGED <<scenario, pending>>
      /\ parts = <<>> => rows' = {} /\ Len(events') = Len(events)
      /\ parts # <<>> => /\ rows' = {Row("", p, Len(events) + 1, v, parts[1].meta)}
                         /\ Len(events') = Len(events) + 1
                         /\ events'[Len(events) + 1] = NewEvent(p, parts[1])
      /\ \A i \in 1..Len(events) : events'[i] = events[i]
  BY NewIs
<1>2. ~pending
  BY <1>1, AtWork
<1>3. Len(events) \in Nat
  BY LenProperties DEF MessageInv, ShownType
<1>4. Owned => \A i \in 1..Len(events) : events'[i].gone # FALSE
  BY <1>1, <1>2 DEF Owned
<1>5. parts = <<>> <=> Empty(v)
  BY DEF Empty, ConvertGoogleMessage
<1>6. CASE parts = <<>>
  <2>1. Complete(v) => FALSE
    <3>1. v.media = "none" /\ ~HasTextPart(v)
      BY <1>6 DEF ConvertGoogleMessage
    <3>2. v.text = ""
      BY <3>1 DEF HasTextPart
    <3>3. (IF v.text = "" THEN 0 ELSE 1) = 0 /\ (IF v.media = "none" THEN 0 ELSE 1) = 0
      BY <3>1, <3>2
    <3>4. 0 + 0 = 0
      OBVIOUS
    <3>5. MessageInfo(v) = 0
      BY <3>3, <3>4 DEF MessageInfo
    <3>6. QED
      BY <3>5 DEF Complete
  <2>2. Owned => Owned'
    BY <1>1, <1>4, <1>6 DEF Owned
  <2>3. QED
    BY <1>1, <1>5, <1>6, <2>1, <2>2
<1>7. CASE parts # <<>>
  <2>1. PICK part : part = parts[1] /\ NewMeta(part.meta) /\ PartOf(part, v)
    <3>1. NewMeta(parts[1].meta) /\ PartOf(parts[1], v)
      BY <1>7, PartOne, PartFields
    <3>2. QED
      BY <3>1
  <2>2. PICK n \in Nat : n = Len(events) + 1
    BY <1>3
  <2>3. PICK r : r = Row("", p, n, v, part.meta)
    OBVIOUS
  <2>4. r.meta = part.meta /\ r.MXID = n /\ r.Room = p
    BY <2>3 DEF Row
  <2>5. rows' = {r} /\ Len(events') = n /\ events'[n].shows = part.shows
    <3>1. rows' = {r} /\ Len(events') = n
      BY <1>1, <1>7, <2>1, <2>2, <2>3
    <3>2. events'[n] = NewEvent(p, part)
      BY <1>1, <1>7, <2>1, <2>2
    <3>3. NewEvent(p, part).shows = part.shows
      BY DEF NewEvent
    <3>4. QED
      BY <3>1, <3>2, <3>3
  <2>6. Faithful(r)'
    BY <2>1, <2>4, <2>5 DEF Faithful, PartOf, NewMeta
  <2>7. \A i \in 1..n : i \in 1..Len(events) \/ i = n
    BY <1>3, <2>2
  <2>8. Owned => Owned'
    BY <1>4, <2>4, <2>5, <2>7 DEF Owned
  <2>9. ASSUME NEW w, w = v, w.ConversationID = p, Complete(w) PROVE Shown(w)'
    <3>1. downloadPendingStatusMessage(w.Status) = ""
      BY <2>9 DEF Complete, downloadStatusRank, downloadPendingStatusMessage,
         INCOMING_AUTO_DOWNLOADING, INCOMING_MANUAL_DOWNLOADING,
         INCOMING_RETRYING_AUTO_DOWNLOAD, INCOMING_DOWNLOAD_FAILED, INCOMING_YET_TO_MANUAL_DOWNLOAD,
         INCOMING_RETRYING_MANUAL_DOWNLOAD, INCOMING_DOWNLOAD_FAILED_SIM_HAS_NO_DATA,
         INCOMING_DOWNLOAD_FAILED_TOO_LARGE, INCOMING_DOWNLOAD_CANCELED
    <3>2. /\ part.shows.text = w.text /\ part.shows.note = ""
          /\ w.media = "full" => part.shows.media \in {"full", "failed"}
      BY <2>1, <2>9, <3>1 DEF PartOf
    <3>3. QED
      BY <2>4, <2>5, <2>9, <3>2 DEF Shown
  <2>10. QED
    BY <2>5, <2>6, <2>8, <2>9
<1>8. QED
  BY <1>6, <1>7

(* The row of a claimed echo shows what the user wrote.                    *)
LEMMA EchoFaith ==
  ASSUME MessageInv, StatusInv, WaysInv, Alone, RowInv, VisibleInv,
         pending => events[1].shows = getTextPart(Outgoing).shows, NEW p \in Convs, ClaimEcho(p)
  PROVE  /\ \A r \in rows' : Faithful(r)'
         /\ Owned'
         /\ rows' # {}
<1> DEFINE v == phone[Head(queue[p])]
<1>0. HandlerType /\ PhoneType
  BY DEF MessageInv
<1>1. pending /\ ~pending' /\ p = Outgoing.ConversationID /\ scenario.outgoing /\ Stays
  BY <1>0, Began DEF WaysInv, Alone
<1>2. p = Chat
  BY <1>0, <1>1, OutgoingOf, ChatIs DEF PhoneType
<1>3. rows = {}
  BY <1>1, <1>2 DEF StatusInv, ChatInv, PendingInv, Untouched
<1>4. Len(events) = 1 /\ events[1].gone = FALSE /\ events[1].shows = getTextPart(Outgoing).shows
  BY <1>1 DEF VisibleInv
<1> DEFINE row == Row("", p, IF scenario.reid THEN 2 ELSE 1, v, handleRemoteEcho(v))
<1>5. /\ queue[p] # <<>> /\ UNCHANGED scenario
      /\ rows' = rows \cup {row}
      /\ events' = IF scenario.reid THEN <<[events[1] EXCEPT !.gone = TRUE], events[1]>> ELSE events
  BY Zenon DEF ClaimEcho
<1>6. v \in MessageType /\ v = Outgoing
  <2>1. v \in MessageType /\ phone # <<>>
    <3>0. queue' = [queue EXCEPT ![p] = Tail(@)] /\ UNCHANGED <<scenario, phone>>
      BY <1>0, Began
    <3>1. v \in MessageType /\ Head(queue[p]) \in 1..Len(phone)
      BY <1>0, <1>5, <3>0, HeadIs
    <3>2. QED
      BY <3>1, EmptySeq DEF PhoneType
  <2>2. Head(queue[p]) = 1 /\ phone[1] = Outgoing
    BY <1>1, <2>1 DEF WaysInv, FirstInv
  <2>3. QED
    BY <2>1, <2>2
<1>7. row = Row("", Chat, UserMXID, v, handleRemoteEcho(v))
  BY <1>2 DEF UserMXID
<1> HIDE DEF v
<1>8. /\ Users(row) /\ row.meta.GlobalMediaStatus = "" /\ row.meta.TextHash = v.text
  <2>1. PICK x : x = Row("", Chat, UserMXID, v, handleRemoteEcho(v))
    OBVIOUS
  <2>2. Users(x) /\ x.meta.GlobalMediaStatus = "" /\ x.meta.TextHash = v.text
    BY <1>6, <2>1, EchoIs
  <2>3. QED
    BY <1>7, <2>1, <2>2
<1> HIDE DEF row
<1>9. PICK x : x = row /\ x.MXID = UserMXID /\ x.meta.GlobalMediaStatus = "" /\ x.meta.TextHash = Outgoing.text
  BY <1>6, <1>8 DEF Users
<1>10. rows' = {x}
  BY <1>3, <1>5, <1>9
<1>11. /\ events'[UserMXID].shows = events[1].shows
       /\ \A i \in 1..Len(events') : events'[i].gone = FALSE => i = UserMXID
  <2>1. CASE ~scenario.reid
    BY <1>4, <1>5, <2>1, OneIs DEF UserMXID
  <2>2. CASE scenario.reid
    <3>1. PICK a, b : a = [events[1] EXCEPT !.gone = TRUE] /\ b = events[1]
      OBVIOUS
    <3>2. events' = <<a, b>>
      BY <1>5, <2>2, <3>1
    <3>3. Len(events') = 2 /\ events'[1] = a /\ events'[2] = b /\ \A i \in 1..2 : i = 1 \/ i = 2
      BY <3>2
    <3>4. a.gone = TRUE
      <4>1. events[1] \in MatrixEvent
        <5>1. 1 \in 1..Len(events)
          BY <1>4, OneIs
        <5>2. QED
          BY <5>1 DEF MessageInv, ShownType
      <4>2. b \in MatrixEvent /\ a = [b EXCEPT !.gone = TRUE]
        BY <3>1, <4>1
      <4>3. QED
        BY <4>2 DEF MatrixEvent
    <3>5. UserMXID = 2 /\ 2 \in 1..2
      BY <2>2 DEF UserMXID
    <3>6. QED
      BY <3>1, <3>3, <3>4, <3>5
  <2>3. QED
    BY <2>1, <2>2
<1>12. events[1].shows.text = Outgoing.text /\ events[1].shows.note = ""
  <2>1. downloadPendingStatusMessage(Outgoing.Status) = ""
    <3>1. Outgoing.Status = OUTGOING_SENDING
      BY <1>0, <1>1, OutgoingOf DEF PhoneType
    <3>2. QED
      BY <3>1 DEF downloadPendingStatusMessage, OUTGOING_SENDING,
         INCOMING_AUTO_DOWNLOADING, INCOMING_MANUAL_DOWNLOADING,
         INCOMING_RETRYING_AUTO_DOWNLOAD, INCOMING_DOWNLOAD_FAILED, INCOMING_YET_TO_MANUAL_DOWNLOAD,
         INCOMING_RETRYING_MANUAL_DOWNLOAD, INCOMING_DOWNLOAD_FAILED_SIM_HAS_NO_DATA,
         INCOMING_DOWNLOAD_FAILED_TOO_LARGE, INCOMING_DOWNLOAD_CANCELED
  <2>2. PICK a : a = events[1].shows
    OBVIOUS
  <2>3. a = [text |-> Outgoing.text, note |-> downloadPendingStatusMessage(Outgoing.Status), media |-> "none"]
    BY <1>4, <2>2 DEF getTextPart
  <2>4. a.text = Outgoing.text /\ a.note = downloadPendingStatusMessage(Outgoing.Status)
    BY <2>3
  <2>5. QED
    BY <2>1, <2>2, <2>4
<1>13. scenario'.outgoing
  BY <1>1, <1>5
<1>14. Faithful(x)'
  BY <1>9, <1>11, <1>12, <1>13 DEF Faithful
<1>15. Owned'
  BY <1>9, <1>10, <1>11 DEF Owned
<1>16. QED
  BY <1>10, <1>14, <1>15

(* A portal's step leaves no row that says something else than its event,  *)
(* and no event without a row.                                             *)
LEMMA PortalFaith ==
  ASSUME MessageInv, StatusInv, WaysInv, Alone, RowInv, VisibleInv, \A r \in rows : Faithful(r),
         pending => events[1].shows = getTextPart(Outgoing).shows, NEW p \in Convs, PortalStep(p)
  PROVE  /\ \A r \in rows' : Faithful(r)'
         /\ (~Resent /\ Owned) => Owned'
         /\ pending' => UNCHANGED <<pending, events>>
<1>0. Idle.pc = "idle" /\ HandlerType /\ events \in Seq(MatrixEvent) /\ \A r \in rows : Placed(r)
  BY DEF Idle, MessageInv, ShownType, RowInv
<1>1. CASE HandleExistingIgnores(p) \/ HandleEditPanics(p) \/ SyncReactions(p) \/ NewIgnored(p)
  <2>1. /\ handler[p].pc # "idle" /\ UNCHANGED <<scenario, rows, events, pending>>
    BY <1>0, <1>1 DEF HandleExistingIgnores, HandleEditPanics, SyncReactions, NewIgnored, Done, sending, matrix
  <2>2. ~pending
    BY <2>1, AtWork
  <2>3. Faded
    BY <1>0, <2>1, FadedIs
  <2>4. (\A r \in rows' : Faithful(r)') /\ (~pending /\ Owned => Owned')
    BY <1>0, <2>1, <2>3, FaithFades
  <2>5. QED
    BY <2>1, <2>2, <2>4
<1>2. CASE HandleExisting(p)
  <2>1. UNCHANGED <<scenario, rows, pending>> /\ handler[p].pc # "idle"
    BY <1>2 DEF HandleExisting, sending
  <2>2. UNCHANGED events \/ \E copy : events' = Redacted(copy)
    BY <1>2 DEF HandleExisting
  <2>3. ~pending
    BY <2>1, AtWork
  <2>4. Faded
    BY <1>0, <2>2, FadedIs
  <2>5. (\A r \in rows' : Faithful(r)') /\ (~pending /\ Owned => Owned')
    BY <1>0, <2>1, <2>4, FaithFades
  <2>6. QED
    BY <2>1, <2>3, <2>5
<1>3. CASE SaveParts(p)
  <2>1. UNCHANGED <<scenario, events, pending>> /\ handler[p].pc # "idle"
    BY <1>3 DEF SaveParts, sending, matrix
  <2>2. \E r, c : rows = {r} /\ rows' = {c} /\ Later(r, c)
    BY <1>3, SavePlace
  <2>3. ~pending
    BY <2>1, AtWork
  <2>4. Faded
    BY <1>0, <2>1, FadedIs
  <2>5. (\A r \in rows' : Faithful(r)') /\ (~pending /\ Owned => Owned')
    BY <1>0, <2>1, <2>2, <2>4, FaithFades
  <2>6. QED
    BY <2>1, <2>3, <2>5
<1>4. CASE HandleEdit(p)
  <2>1. handler[p].pc # "idle" /\ UNCHANGED pending
    BY <1>4, EditIs
  <2>2. ~pending
    BY <2>1, AtWork
  <2>3. QED
    BY <1>4, <2>1, <2>2, EditFaith
<1>5. CASE \E ok \in BOOLEAN : ConvertMessage(p, ok)
  <2>1. PICK ok \in BOOLEAN : ConvertMessage(p, ok)
    BY <1>5
  <2>2. handler[p].pc # "idle" /\ UNCHANGED pending
    BY <2>1, NewIs
  <2>3. ~pending
    BY <2>2, AtWork
  <2>4. QED
    BY <2>1, <2>2, <2>3, NewFaith
<1>6. CASE Remove(p)
  <2>1. handler[p].pc = "remove" /\ events' = Redacted(handler[p].rows) /\ rows' = {} /\ UNCHANGED pending
    BY <1>6 DEF Remove, sending
  <2>2. ~pending
    BY <2>1, AtWork
  <2>3. handler[p].rows = rows
    BY <2>1 DEF RowInv, CopyOf
  <2>4. ASSUME Owned PROVE Owned'
    <3>1. \A i \in 1..Len(events) :
            /\ (\E r \in rows : r.MXID = i) => events'[i].gone = TRUE
            /\ (\A r \in rows : r.MXID # i) => events'[i] = events[i]
      BY <1>0, <2>1, <2>3, RedactedOne
    <3>2. \A i \in 1..Len(events) : events'[i].gone # FALSE
      BY <2>2, <2>4, <3>1 DEF Owned
    <3>3. Len(events') = Len(events)
      BY <1>0, <2>1, RedactedIs
    <3>4. QED
      BY <3>2, <3>3 DEF Owned
  <2>5. QED
    BY <2>1, <2>2, <2>4
<1>7. CASE HandleExistingResends(p)
  <2>1. rows' = {} /\ UNCHANGED pending /\ handler[p].pc # "idle"
    BY <1>7 DEF HandleExistingResends, sending
  <2>2. ~pending /\ Resent
    BY <1>7, <2>1, AtWork, ResendPlace
  <2>3. QED
    BY <2>1, <2>2
<1>8. CASE Begin(p)
  <2>1. UNCHANGED <<scenario, rows, events, pending>>
    BY <1>8 DEF Begin, sending
  <2>2. \A r \in rows' : Faithful(r)' = Faithful(r)
    BY <2>1 DEF Faithful
  <2>3. Owned' = Owned
    BY <2>1 DEF Owned
  <2>4. QED
    BY <2>1, <2>2, <2>3
<1>9. CASE ClaimEcho(p)
  <2>1. ~pending'
    BY <1>9 DEF ClaimEcho
  <2>2. QED
    BY <1>9, <2>1, EchoFaith
<1>10. QED
  BY <1>1, <1>2, <1>3, <1>4, <1>5, <1>6, <1>7, <1>8, <1>9 DEF PortalStep

LEMMA FaithStep ==
  MessageInv /\ MessageInv' /\ StatusInv /\ WaysInv /\ PlaceInv /\ FaithInv /\ [Next]_vars => FaithInv'
<1> SUFFICES ASSUME MessageInv, MessageInv', StatusInv, WaysInv, PlaceInv, FaithInv, [Next]_vars, Alone'
             PROVE  /\ \A r \in rows' : Faithful(r)'
                    /\ (~Resent' /\ send' # "failed") => Owned'
                    /\ pending' => events'[1].shows = getTextPart(Outgoing').shows
  BY DEF FaithInv
<1>1. Onward
  BY StepOnward
<1>2. Alone /\ (Resent => Resent') /\ UNCHANGED scenario /\ ~Restart
  <2>1. Restart => restarts' # 0
    BY DEF Restart, MessageInv, ShownType
  <2>2. QED
    BY <1>1, <2>1, SaysGrow DEF Onward, Alone
<1>3. /\ RowInv /\ VisibleInv /\ (\A r \in rows : Faithful(r)) /\ ((~Resent /\ send # "failed") => Owned)
      /\ pending => events[1].shows = getTextPart(Outgoing).shows
  BY <1>2 DEF PlaceInv, FaithInv
<1>4. Outgoing' = Outgoing
  BY <1>2, OutgoingKept
<1>5. CASE (\E v \in scenario.versions : PhoneUpdate(v)) \/ PhoneTakes \/ Age \/ FullMediaResponse \/ SendOK
           \/ SendFailed \/ UNCHANGED vars
  <2>1. /\ UNCHANGED <<rows, events>> /\ (pending' => pending)
        /\ send' = "failed" \/ (UNCHANGED pending /\ send # "failed")
           \/ UNCHANGED <<pending, send>>
    <3>1. CASE SendFailed
      BY <3>1 DEF SendFailed
    <3>2. CASE PhoneTakes \/ SendOK
      BY <3>2 DEF PhoneTakes, SendOK, matrix
    <3>3. CASE (\E v \in scenario.versions : PhoneUpdate(v)) \/ Age \/ FullMediaResponse \/ UNCHANGED vars
      BY <3>3 DEF PhoneUpdate, Age, FullMediaResponse, vars, matrix, sending
    <3>4. QED
      BY <1>5, <3>1, <3>2, <3>3
  <2>2. \A r : Faithful(r)' = Faithful(r)
    BY <1>2, <2>1 DEF Faithful
  <2>3. ASSUME ~Resent', send' # "failed" PROVE Owned'
    <3>1. UNCHANGED pending /\ Owned
      BY <1>2, <1>3, <2>1, <2>3
    <3>2. QED
      BY <2>1, <3>1 DEF Owned
  <2>4. QED
    BY <1>3, <1>4, <2>1, <2>2, <2>3
<1>6. CASE HandleMatrixMessage
  <2> DEFINE e == [room |-> Outgoing.ConversationID, gone |-> FALSE, user |-> TRUE,
                   shows |-> getTextPart(Outgoing).shows]
  <2>1. scenario.outgoing /\ send = "no" /\ events' = <<e>> /\ UNCHANGED rows /\ pending'
    BY <1>6 DEF HandleMatrixMessage
  <2>2. rows = {}
    BY <1>2, <2>1 DEF Alone, StatusInv, ChatInv, PendingInv, Untouched
  <2>3. e.shows = getTextPart(Outgoing).shows
    OBVIOUS
  <2> HIDE DEF e
  <2>4. events'[1] = e
    BY <2>1
  <2>5. Owned'
    BY <2>1 DEF Owned
  <2>6. QED
    BY <1>4, <2>1, <2>2, <2>3, <2>4, <2>5
<1>7. ASSUME NEW p \in Convs, PortalStep(p)
      PROVE  /\ \A r \in rows' : Faithful(r)'
             /\ (~Resent' /\ send' # "failed") => Owned'
             /\ pending' => events'[1].shows = getTextPart(Outgoing').shows
  <2>1. /\ \A r \in rows' : Faithful(r)'
        /\ (~Resent /\ Owned) => Owned'
        /\ pending' => UNCHANGED <<pending, events>>
    BY <1>2, <1>3, <1>7, PortalFaith
  <2>2. UNCHANGED send
    <3>1. CASE Begin(p) \/ ClaimEcho(p)
      BY <3>1, Began DEF MessageInv
    <3>2. CASE ~(Begin(p) \/ ClaimEcho(p))
      BY <1>7, <3>2, Worked DEF MessageInv
    <3>3. QED
      BY <3>1, <3>2
  <2>3. QED
    BY <1>2, <1>3, <1>4, <2>1, <2>2
<1>8. QED
  BY <1>2, <1>5, <1>6, <1>7 DEF Next

(* What follows the phone has followed it.                                 *)
LEMMA TrailBack ==
  ASSUME MessageInv, MessageInv', WaysInv, [Next]_vars, Trail'
  PROVE  /\ Trail /\ UNCHANGED scenario /\ ~Restart /\ ~SendFailed
         /\ Deleted => Deleted'
<1>1. Onward /\ HandlerType
  BY StepOnward DEF MessageInv
<1>2. Alone /\ ~Resent /\ UNCHANGED scenario /\ ~Restart /\ (Deleted => Deleted')
  <2>1. Restart => restarts' # 0
    BY DEF Restart, MessageInv, ShownType
  <2>2. QED
    BY <1>1, <2>1, SaysGrow DEF Onward, Alone, Trail
<1>3. (overtaken => overtaken') /\ (aged => aged') /\ (send = "failed" => send' = "failed")
  <2>1. ASSUME UNCHANGED <<overtaken, aged, send>> PROVE <1>3!1
    BY <2>1
  <2>2. CASE (\E v \in scenario.versions : PhoneUpdate(v)) \/ FullMediaResponse \/ UNCHANGED vars
    BY <2>2 DEF PhoneUpdate, FullMediaResponse, vars, matrix, sending, races
  <2>3. CASE HandleMatrixMessage \/ PhoneTakes \/ SendOK \/ SendFailed
    <3>1. UNCHANGED <<overtaken, aged>>
      BY <2>3 DEF HandleMatrixMessage, PhoneTakes, SendOK, SendFailed, matrix, races
    <3>2. send = "failed" => send' = "failed"
      BY <2>3 DEF HandleMatrixMessage, PhoneTakes, SendOK, SendFailed
    <3>3. QED
      BY <3>1, <3>2
  <2>3a. CASE Age
    BY <2>3a DEF Age, sending, races
  <2>4. ASSUME NEW p \in Convs, PortalStep(p) PROVE (overtaken => overtaken') /\ (aged => aged') /\ (send = "failed" => send' = "failed")
    <3>1. CASE Begin(p) \/ ClaimEcho(p)
      <4>1. UNCHANGED <<aged, send>> /\ (overtaken => overtaken')
        BY <1>1, <3>1, Began
      <4>2. QED
        BY <4>1
    <3>2. CASE ~(Begin(p) \/ ClaimEcho(p))
      BY <1>1, <2>4, <3>2, Worked
    <3>3. QED
      BY <3>1, <3>2
  <2>5. QED
    BY <1>2, <2>2, <2>3, <2>3a, <2>4 DEF Next
<1>4. ~SendFailed
  BY DEF SendFailed, Trail
<1>5. QED
  BY <1>2, <1>3, <1>4 DEF Trail

LEMMA BridgedKept == ASSUME UNCHANGED scenario, NEW v PROVE Bridged(v)' = Bridged(v)
  BY DEF Bridged, Empty

(* Steps no portal makes, of a message the portals have kept up with.      *)
LEMMA FollowKept ==
  ASSUME NEW n \in 0..Len(phone), Order(n), ~Deleted => HasRow(n), Handled(n),
         UNCHANGED <<scenario, phone, queue, handler, rows, reactions, rooms>>, n = 0 \/ UNCHANGED events
  PROVE  Order(n)' /\ (~Deleted' => HasRow(n)') /\ Handled(n)'
<1>1. \A p : Waiting(p)' = Waiting(p) /\ Unfinished(p)' = Unfinished(p)
  BY DEF Waiting, Unfinished
<1>2. Order(n)'
  BY <1>1 DEF Order, Passed
<1>3. Deleted' = Deleted
  BY DEF Deleted
<1>4. HasRow(n)' = HasRow(n)
  BY DEF HasRow, Bridged, Empty
<1>5. n # 0 => \A v : Shown(v)' = Shown(v)
  BY DEF Shown
<1>6. Synced(n)' = Synced(n)
  BY DEF Synced, Bridged, Empty
<1>7. Handled(n)'
  BY <1>1, <1>3, <1>5, <1>6 DEF Handled, Matches
<1>8. QED
  BY <1>2, <1>3, <1>4, <1>7

(* A version that comes is waiting.                                        *)
LEMMA FollowLonger ==
  ASSUME PhoneType, \A p \in Convs : InQueue(p), NEW v \in MessageType, phone' = Append(phone, v),
         queue' = [queue EXCEPT ![v.ConversationID] = Append(@, Len(phone) + 1)],
         UNCHANGED <<scenario, handler, rows, reactions, rooms, events>>, Deleted => Deleted',
         NEW n \in 0..Len(phone), Order(n), ~Deleted => HasRow(n), Handled(n)
  PROVE  n \in 0..Len(phone') /\ Order(n)' /\ (~Deleted' => HasRow(n)') /\ Handled(n)'
<1>1. PICK m \in Nat : m = Len(phone)
  BY LenProperties DEF PhoneType
<1>2. /\ Len(phone') = m + 1 /\ phone'[m + 1] = v /\ \A i \in 1..m : phone'[i] = phone[i]
      /\ \A p \in Convs : Waiting(p)' = Waiting(p) \cup (IF p = v.ConversationID THEN {m + 1} ELSE {})
  BY <1>1, InQueueAdded
<1>3. v.ConversationID \in Convs
  BY DEF MessageType
<1>4. n \in 0..m + 1 /\ m + 1 > n /\ n < m + 1 /\ (n > 0 => n \in 1..m) /\ \A i \in 1..m + 1 : i \in 1..m \/ i = m + 1
  BY <1>1
<1>5. \A i \in 1..m + 1 : i <= n => i \in 1..m
  BY <1>1
<1>6. Order(n)'
  <2>1. \A p \in Convs : \A i \in Waiting(p)' : i > n
    BY <1>2, <1>4 DEF Order
  <2>2. ASSUME NEW i \in 1..m + 1, i > n PROVE (\E p \in Convs : i \in Waiting(p)') \/ Passed(i)'
    <3>1. CASE i = m + 1
      <4>1. PICK c \in Convs : c = v.ConversationID
        BY <1>3
      <4>2. i \in Waiting(c)'
        BY <1>2, <3>1, <4>1
      <4>3. QED
        BY <4>2
    <3>2. CASE i \in 1..m
      <4>1. (\E p \in Convs : i \in Waiting(p)) \/ Passed(i)
        BY <1>1, <2>2, <3>2 DEF Order
      <4>2. Passed(i)' = Passed(i)
        BY <1>2, <3>2 DEF Passed
      <4>3. QED
        BY <1>2, <4>1, <4>2
    <3>3. QED
      BY <1>4, <3>1, <3>2
  <2>3. \A p \in Convs : handler'[p].pc # "idle" => n > 0 /\ handler'[p].v = phone'[n] /\ phone'[n].ConversationID = p
    BY <1>2, <1>4 DEF Order
  <2>4. QED
    <3>1. \A i \in 1..Len(phone') : i > n => (\E p \in Convs : i \in Waiting(p)') \/ Passed(i)'
      BY <1>2, <2>2
    <3>2. QED
      BY <2>1, <2>3, <3>1 DEF Order
<1>7. ASSUME ~Deleted' PROVE HasRow(n)'
  <2>1. HasRow(n)
    BY <1>7
  <2>2. \A i \in 1..m + 1 : i <= n => i \in 1..Len(phone) /\ phone'[i] = phone[i]
    BY <1>1, <1>2, <1>5
  <2>3. QED
    BY <1>2, <2>1, <2>2 DEF HasRow, Bridged, Empty
<1>8. ASSUME n > 0, Complete(phone[n]) PROVE Matches(n)'
  <2>0. phone'[n] = phone[n]
    BY <1>2, <1>4, <1>8
  <2>1. ASSUME \A p \in Convs : ~Unfinished(p)' PROVE Shown(phone[n])'
    <3>1. \A p \in Convs : Unfinished(p)' = Unfinished(p)
      BY DEF Unfinished
    <3>2. PICK w : w = phone[n]
      OBVIOUS
    <3>3. Shown(w)
      BY <1>8, <2>1, <3>1, <3>2 DEF Handled, Matches
    <3>4. Shown(w)'
      BY <3>3 DEF Shown
    <3>5. w = phone'[n]
      BY <2>0, <3>2
    <3>6. QED
      BY <3>4, <3>5
  <2>2. ASSUME \A p \in Convs : handler'[p].pc = "idle", ~Deleted' PROVE Synced(n)'
    <3>1. Synced(n)
      BY <1>8, <2>2 DEF Handled, Matches
    <3>2. \A i \in 1..m + 1 : i < n => i \in 1..Len(phone) /\ phone'[i] = phone[i]
      BY <1>1, <1>2, <1>4, <1>5
    <3>3. QED
      BY <1>2, <2>0, <3>1, <3>2 DEF Synced, Bridged, Empty
  <2>3. QED
    BY <2>1, <2>2 DEF Matches
<1>9. Handled(n)'
  <2>1. n > 0 => (Complete(phone[n])' <=> Complete(phone[n]))
    <3>1. n > 0 => phone'[n] = phone[n]
      BY <1>2, <1>4
    <3>2. QED
      BY <3>1 DEF Complete
  <2>2. QED
    BY <1>8, <2>1 DEF Handled
<1>10. QED
  BY <1>2, <1>4, <1>6, <1>7, <1>9

(* A portal without a room passes a version over.                          *)
LEMMA FollowPassed ==
  ASSUME PhoneType, QueueInv, NEW p \in Convs, queue[p] # <<>>, queue' = [queue EXCEPT ![p] = Tail(@)],
         p \notin rooms, ~ShouldCreatePortal(phone[Head(queue[p])].Status),
         UNCHANGED <<scenario, phone, handler, rows, events, reactions, rooms>>,
         NEW n \in 0..Len(phone), Order(n), ~Deleted => HasRow(n), Handled(n)
  PROVE  Order(n)' /\ (~Deleted' => HasRow(n)') /\ Handled(n)'
<1>1. PICK h : h = Head(queue[p])
  OBVIOUS
<1>2. /\ Waiting(p)' = Waiting(p) \ {h} /\ h \in Waiting(p)
      /\ \A q \in Convs : q # p => Waiting(q)' = Waiting(q)
  BY <1>1, QueueTaken DEF QueueInv
<1>3. phone[h].ConversationID = p
  BY <1>2 DEF QueueInv, InQueue
<1>4. Passed(h)
  BY <1>1, <1>3 DEF Passed
<1>5. \A i : Passed(i)' = Passed(i)
  BY DEF Passed
<1>6. Order(n)'
  <2>1. \A q \in Convs : \A i \in Waiting(q)' : i \in Waiting(q)
    BY <1>2
  <2>2. \A q \in Convs : \A i \in Waiting(q) : i \in Waiting(q)' \/ i = h
    BY <1>2
  <2>3. \A i \in 1..Len(phone) : i > n => (\E q \in Convs : i \in Waiting(q)') \/ Passed(i)'
    BY <1>4, <1>5, <2>2 DEF Order
  <2>4. QED
    BY <2>1, <2>3 DEF Order
<1>7. Deleted' = Deleted
  BY DEF Deleted
<1>8. HasRow(n)' = HasRow(n)
  BY DEF HasRow, Bridged, Empty
<1>9. Handled(n)' = Handled(n)
  BY <1>7 DEF Handled, Matches, Unfinished, Shown, Synced, Bridged, Empty
<1>10. QED
  BY <1>6, <1>7, <1>8, <1>9

(* A portal takes the next version, which is the next of all, if none      *)
(* overtakes another.                                                      *)
LEMMA FollowBegun ==
  ASSUME PhoneType, QueueInv, NEW p \in Convs, queue[p] # <<>>, queue' = [queue EXCEPT ![p] = Tail(@)],
         \A q \in Convs : handler[q].pc = "idle" /\ (q # p => handler'[q] = handler[q]),
         \A q \in Convs \ {p} : queue[q] # <<>> => ~(Head(queue[q]) < Head(queue[p])),
         handler'[p].pc \in {"remove", "new", "existing"}, handler'[p].v = phone[Head(queue[p])],
         rooms' \subseteq rooms \cup {p}, UNCHANGED <<scenario, phone>>,
         rows # {} => rows' # {},
         ~Deleted => rows' # {} \/ handler'[p].pc = "new",
         NEW n \in 0..Len(phone), Order(n), ~Deleted => HasRow(n)
  PROVE  \E h \in 0..Len(phone') : Order(h)' /\ (~Deleted' => HasRow(h)') /\ Handled(h)'
<1>0. \A q \in Convs : InQueue(q) /\ queue[q] \in Seq(Nat) /\ \A i \in Waiting(q) : i \in 1..Len(phone)
  BY WaitingIs DEF QueueInv
<1>1. PICK h : h = Head(queue[p])
  OBVIOUS
<1>2. /\ Waiting(p)' = Waiting(p) \ {h} /\ h \in Waiting(p) /\ \A i \in Waiting(p) : i = h \/ i > h
      /\ \A q \in Convs : q # p => Waiting(q)' = Waiting(q)
  BY <1>1, QueueTaken DEF QueueInv
<1>3. h \in 1..Len(phone) /\ Len(phone) \in Nat /\ phone[h].ConversationID = p
  BY <1>0, <1>2, LenProperties DEF InQueue, PhoneType
<1>4. h > n /\ h \in 0..Len(phone)
  BY <1>2, <1>3 DEF Order
<1>5. \A q \in Convs : \A i \in Waiting(q)' : i > h
  <2>1. ASSUME NEW q \in Convs, q # p, NEW i \in Waiting(q) PROVE i > h
    <3>1. queue[q] # <<>>
      <4>1. \A j \in 1..0 : FALSE
        OBVIOUS
      <4>2. Len(<<>>) = 0
        OBVIOUS
      <4>3. QED
        BY <2>1, <4>1, <4>2 DEF Waiting, Entries
    <3>2. Head(queue[q]) \in Waiting(q) /\ (i = Head(queue[q]) \/ i > Head(queue[q]))
      BY <1>0, <2>1, <3>1, TailEntries DEF Waiting, InQueue
    <3>3. ~(Head(queue[q]) < h)
      BY <1>1, <2>1, <3>1
    <3>4. i \in Nat /\ Head(queue[q]) \in Nat /\ h \in Nat
      BY <1>0, <1>3, <2>1, <3>2
    <3>5. phone[i].ConversationID = q
      BY <1>0, <2>1 DEF InQueue
    <3>6. i # h
      BY <1>3, <2>1, <3>5
    <3>7. QED
      BY <3>2, <3>3, <3>4, <3>6
  <2>2. \A i \in Waiting(p)' : i > h
    BY <1>2
  <2>3. QED
    BY <1>2, <2>1, <2>2
<1>6. \A i \in 1..Len(phone) : i > h => i > n
  BY <1>3, <1>4
<1>7. ASSUME NEW i \in 1..Len(phone), i > h PROVE (\E q \in Convs : i \in Waiting(q)') \/ Passed(i)'
  <2>1. (\E q \in Convs : i \in Waiting(q)) \/ Passed(i)
    BY <1>6, <1>7 DEF Order
  <2>2. i # h /\ h <= i
    BY <1>3, <1>7
  <2>3. CASE \E q \in Convs : i \in Waiting(q)
    BY <1>2, <2>2, <2>3
  <2>4. CASE Passed(i)
    <3>1. CASE phone[i].ConversationID = p
      <4>1. i \in Waiting(p)
        BY <1>0, <1>2, <2>2, <3>1 DEF InQueue
      <4>2. QED
        BY <1>2, <2>2, <4>1
    <3>2. CASE phone[i].ConversationID # p
      BY <2>4, <3>2 DEF Passed
    <3>3. QED
      BY <3>1, <3>2
  <2>5. QED
    BY <2>1, <2>3, <2>4
<1>8. Order(h)'
  <2>1. h > 0
    BY <1>3
  <2>2. \A q \in Convs : handler'[q].pc # "idle" => handler'[q].v = phone'[h] /\ phone'[h].ConversationID = q
    BY <1>1, <1>3
  <2>3. \A i \in 1..Len(phone') : i > h => (\E q \in Convs : i \in Waiting(q)') \/ Passed(i)'
    BY <1>7
  <2>4. QED
    BY <1>5, <2>1, <2>2, <2>3 DEF Order
<1>9. Deleted' = Deleted
  BY DEF Deleted
<1>10. ASSUME ~Deleted, NEW i \in 1..Len(phone), i <= h, Bridged(phone[i])
       PROVE  rows' # {} \/ (i = h /\ handler'[p].pc = "new")
  <2>1. CASE i <= n
    <3>1. rows # {}
      BY <1>10, <2>1 DEF HasRow
    <3>2. QED
      BY <3>1
  <2>2. CASE i > n /\ i # h
    <3>1. i < h
      BY <1>3, <1>10, <2>2
    <3>2. ~Passed(i)
      BY <1>10 DEF Passed, Bridged, QueueInv
    <3>3. PICK q \in Convs : i \in Waiting(q)
      BY <2>2, <3>2 DEF Order
    <3>4. q # p => i \in Waiting(q)'
      BY <1>2, <3>3
    <3>5. q = p => i = h \/ i > h
      BY <1>2, <3>3
    <3>6. ~(i > h)
      BY <1>3, <3>1
    <3>7. QED
      BY <1>5, <2>2, <3>4, <3>5, <3>6
  <2>3. CASE i = h
    BY <1>10, <2>3
  <2>4. QED
    BY <2>1, <2>2, <2>3
<1>11. ~Deleted' => HasRow(h)'
  <2>1. \A i : Bridged(phone[i])' <=> Bridged(phone[i])
    BY DEF Bridged, Empty
  <2>2. QED
    BY <1>9, <1>10, <2>1 DEF HasRow
<1>12. Handled(h)'
  <2>1. Unfinished(p)' /\ handler'[p].pc # "idle"
    BY DEF Unfinished
  <2>2. Matches(h)'
    BY <2>1 DEF Matches
  <2>3. QED
    BY <2>2 DEF Handled
<1>13. QED
  BY <1>4, <1>8, <1>11, <1>12

(* What a complete version is not.                                         *)
LEMMA CompleteIs ==
  ASSUME NEW w, Complete(w)
  PROVE  /\ downloadPendingStatusMessage(w.Status) = "" /\ ~NotYetDownloaded(w.Status)
         /\ w.Status # MESSAGE_DELETED
         /\ \A s : ~(downloadStatusRank(w.Status) < downloadStatusRank(s))
         /\ ConvertGoogleMessage(w, TRUE, TRUE) # <<>>
<1>1. downloadPendingStatusMessage(w.Status) = "" /\ ~NotYetDownloaded(w.Status)
  BY DEF Complete, downloadStatusRank, downloadPendingStatusMessage, NotYetDownloaded,
         INCOMING_AUTO_DOWNLOADING, INCOMING_MANUAL_DOWNLOADING,
         INCOMING_RETRYING_AUTO_DOWNLOAD, INCOMING_DOWNLOAD_FAILED, INCOMING_YET_TO_MANUAL_DOWNLOAD,
         INCOMING_RETRYING_MANUAL_DOWNLOAD, INCOMING_DOWNLOAD_FAILED_SIM_HAS_NO_DATA,
         INCOMING_DOWNLOAD_FAILED_TOO_LARGE, INCOMING_DOWNLOAD_CANCELED
<1>2. ASSUME NEW s PROVE ~(downloadStatusRank(w.Status) < downloadStatusRank(s))
  <2>1. downloadStatusRank(s) = 0 \/ downloadStatusRank(s) = 1 \/ downloadStatusRank(s) = 100
    BY DEF downloadStatusRank
  <2>2. downloadStatusRank(w.Status) = 100
    BY DEF Complete
  <2>3. ~(100 < 0) /\ ~(100 < 1) /\ ~(100 < 100)
    OBVIOUS
  <2>4. QED
    BY <2>1, <2>2, <2>3
<1>3. ASSUME ConvertGoogleMessage(w, TRUE, TRUE) = <<>> PROVE FALSE
  <2>1. w.media = "none" /\ ~HasTextPart(w)
    BY <1>3 DEF ConvertGoogleMessage
  <2>2. w.text = ""
    BY <2>1 DEF HasTextPart
  <2>3. (IF w.text = "" THEN 0 ELSE 1) = 0 /\ (IF w.media = "none" THEN 0 ELSE 1) = 0
    BY <2>1, <2>2
  <2>4. 0 + 0 = 0
    OBVIOUS
  <2>5. MessageInfo(w) = 0
    BY <2>3, <2>4 DEF MessageInfo
  <2>6. QED
    BY <2>5 DEF Complete
<1>4. QED
  BY <1>1, <1>2, <1>3 DEF Complete

(* A row that needs no resync shows the version.                           *)
LEMMA Resynced ==
  ASSUME NEW r, rows = {r}, Placed(r), Faithful(r), NEW w, Complete(w), ~doMessageResync({r}, w, w.ConversationID)
  PROVE  Shown(w)
<1>1. Main({r}) = r
  BY MainOne
<1>2. PICK m, s : m = r.meta /\ s = events[r.MXID].shows
  OBVIOUS
<1>3. /\ r.Room = w.ConversationID /\ m.GlobalMediaStatus = downloadPendingStatusMessage(w.Status)
      /\ m.GlobalPartCount = MessageInfo(w) /\ ~MessageWasEdited({r}, w)
  BY <1>1, <1>2 DEF doMessageResync, chatIDChanged
<1>4. m.GlobalPartCount # 0
  BY <1>3 DEF Complete
<1>5. m.TextHash = w.text
  BY <1>1, <1>2, <1>3 DEF MessageWasEdited
<1>6. s.text = w.text /\ s.note = ""
  BY <1>2, <1>3, <1>4, <1>5, CompleteIs DEF Faithful
<1>7. ASSUME w.media = "full", ~scenario.outgoing PROVE s.media \in {"full", "failed"}
  <2>1. m.IsOutgoing = FALSE /\ (m.MediaID = "f" => s.media \in {"full", "failed"})
    BY <1>2, <1>7 DEF Faithful
  <2>2. w.media # "none" /\ MediaID(w) = "f"
    BY <1>7 DEF MediaID
  <2>3. m.MediaID = MediaID(w)
    BY <1>1, <1>2, <1>3, <2>1, <2>2 DEF MessageWasEdited
  <2>4. QED
    BY <2>1, <2>2, <2>3
<1>8. QED
  BY <1>2, <1>3, <1>6, <1>7 DEF Shown

LEMMA ShownFades ==
  ASSUME UNCHANGED scenario, \A r \in rows : Placed(r), Faded, NEW w, Shown(w),
         \/ UNCHANGED rows
         \/ \E r, c : rows = {r} /\ rows' = {c} /\ Later(r, c)
  PROVE  Shown(w)'
<1>1. PICK r \in rows : LET s == events[r.MXID].shows IN
        /\ r.Room = w.ConversationID /\ s.text = w.text /\ s.note = ""
        /\ w.media = "full" /\ ~scenario.outgoing => s.media \in {"full", "failed"}
  BY DEF Shown
<1>2. events'[r.MXID].shows = events[r.MXID].shows
  BY DEF Placed, Faded
<1>3. CASE UNCHANGED rows
  BY <1>1, <1>2, <1>3 DEF Shown
<1>4. CASE \E x, c : rows = {x} /\ rows' = {c} /\ Later(x, c)
  <2>1. PICK c : rows' = {c} /\ Later(r, c)
    BY <1>4
  <2>2. c.Room = r.Room /\ c.MXID = r.MXID
    BY <2>1 DEF Later
  <2>3. QED
    BY <1>1, <1>2, <2>1, <2>2 DEF Shown
<1>5. QED
  BY <1>3, <1>4

(* What a portal does with the version it has taken: a row stays, or a     *)
(* version that can be sent is; it is shown once no edit is to come; and   *)
(* its reactions are synced last.                                          *)
Progress(p, w, n) ==
    /\ ~Deleted => HasRow(n)'
    /\ Complete(w) /\ ~Unfinished(p)' => Shown(w)'
    /\ Complete(w) /\ ~Deleted /\ handler'[p].pc = "idle" => Synced(n)'

LEMMA ExistingFollow ==
  ASSUME MessageInv, StatusInv, WaysInv, Alone, RowInv, VisibleInv, \A r \in rows : Faithful(r),
         NEW p \in Convs, HandleExisting(p), NEW w, w = handler[p].v, w.ConversationID = p, NEW n
  PROVE  Progress(p, w, n)
<1>1. PICK r : ExistingOne(p, r) /\ Placed(r)
  BY ExistingIs
<1>2. /\ rows = {r} /\ rows' = {r} /\ UNCHANGED scenario /\ handler'[p].pc \in {"reactions", "save"}
      /\ \/ NothingChanged({r}, w, p)
         \/ handler'[p].pc = "save" /\ handler'[p].resync = doMessageResync({r}, w, p)
  BY <1>1 DEF ExistingOne
<1>3. Faded
  <2>1. UNCHANGED events \/ \E copy : events' = Redacted(copy)
    BY DEF HandleExisting
  <2>2. QED
    BY <2>1, FadedIs DEF MessageInv, ShownType
<1>4. HasRow(n)'
  BY <1>2 DEF HasRow
<1>5. ASSUME Complete(w), ~Unfinished(p)' PROVE Shown(w)'
  <2>1. ~doMessageResync({r}, w, p)
    <3>1. CASE NothingChanged({r}, w, p)
      BY <3>1 DEF NothingChanged
    <3>2. CASE handler'[p].pc = "save" /\ handler'[p].resync = doMessageResync({r}, w, p)
      <4>1. handler'[p].resync # TRUE
        BY <1>5, <3>2 DEF Unfinished
      <4>2. doMessageResync({r}, w, p) \in BOOLEAN
        BY DEF doMessageResync
      <4>3. QED
        BY <3>2, <4>1, <4>2
    <3>3. QED
      BY <1>2, <3>1, <3>2
  <2>2. Shown(w)
    BY <1>1, <1>2, <1>5, <2>1, Resynced
  <2>3. QED
    BY <1>1, <1>2, <1>3, <2>2, ShownFades
<1>6. handler'[p].pc # "idle"
  BY <1>2
<1>7. QED
  BY <1>4, <1>5, <1>6 DEF Progress

LEMMA IgnoredFollow ==
  ASSUME MessageInv, RowInv, NEW p \in Convs, HandleExistingIgnores(p) \/ HandleEditPanics(p),
         NEW w, w = handler[p].v, NEW n
  PROVE  Progress(p, w, n)
<1>1. ~Complete(w)
  <2>1. CASE HandleExistingIgnores(p)
    BY <2>1, CompleteIs DEF HandleExistingIgnores, Downgrade, IgnoredMove
  <2>2. CASE HandleEditPanics(p)
    BY <2>2, CompleteIs DEF HandleEditPanics
  <2>3. QED
    BY <2>1, <2>2
<1>2. rows' # {}
  <2>1. handler[p].pc \in {"existing", "edit"} /\ UNCHANGED rows
    BY DEF HandleExistingIgnores, HandleEditPanics
  <2>2. QED
    BY <2>1 DEF RowInv, CopyOf
<1>3. HasRow(n)'
  BY <1>2 DEF HasRow
<1>4. QED
  BY <1>1, <1>3 DEF Progress

LEMMA SaveFollow ==
  ASSUME MessageInv, StatusInv, WaysInv, Alone, RowInv, VisibleInv, NEW p \in Convs, SaveParts(p),
         NEW w, NEW n, Complete(w) /\ ~Unfinished(p) => Shown(w)
  PROVE  Progress(p, w, n)
<1>1. /\ handler[p].pc = "save" /\ UNCHANGED <<scenario, events>>
      /\ handler' = [handler EXCEPT ![p].pc = IF handler[p].resync THEN "edit" ELSE "reactions"]
  BY DEF SaveParts, matrix
<1>2. \E r, c : rows = {r} /\ rows' = {c} /\ Later(r, c)
  BY SavePlace
<1>3. handler'[p].pc = IF handler[p].resync THEN "edit" ELSE "reactions"
  <2>1. HandlerType
    BY DEF MessageInv
  <2>2. PICK place : place = IF handler[p].resync THEN "edit" ELSE "reactions"
    OBVIOUS
  <2>3. handler' = [handler EXCEPT ![p].pc = place]
    BY <1>1, <2>2
  <2>4. handler'[p].pc = place
    BY ONLY <2>1, <2>3, p \in Convs DEF HandlerType
  <2>5. QED
    BY <2>2, <2>4
<1>4. Faded
  BY <1>1, FadedIs DEF MessageInv, ShownType
<1>5. ASSUME Complete(w), ~Unfinished(p)' PROVE Shown(w)'
  <2>1. ~handler[p].resync
    BY <1>3, <1>5 DEF Unfinished
  <2>2. ~Unfinished(p)
    BY <1>1, <2>1 DEF Unfinished
  <2>3. QED
    BY <1>1, <1>2, <1>4, <1>5, <2>2, ShownFades DEF RowInv
<1>6. HasRow(n)'
  BY <1>2 DEF HasRow
<1>7. handler'[p].pc # "idle"
  BY <1>3
<1>8. QED
  BY <1>5, <1>6, <1>7 DEF Progress

LEMMA EditFollow ==
  ASSUME MessageInv, StatusInv, WaysInv, Alone, RowInv, VisibleInv, \A r \in rows : Faithful(r),
         NEW p \in Convs, HandleEdit(p), NEW w, w = handler[p].v, w.ConversationID = p, NEW n
  PROVE  Progress(p, w, n)
<1>1. Complete(w) => Shown(w)'
  BY EditFaith
<1>2. handler'[p].pc = "reactions" /\ \E r : \E ok \in BOOLEAN : OneEdited(p, r, ok)
  BY EditIs
<1>3. rows' # {}
  BY <1>2 DEF OneEdited
<1>4. HasRow(n)'
  BY <1>3 DEF HasRow
<1>5. QED
  BY <1>1, <1>2, <1>4 DEF Progress

LEMMA SyncFollow ==
  ASSUME MessageInv, RowInv, NEW p \in Convs, SyncReactions(p),
         NEW w, NEW n, w = handler[p].v, w = phone[n], Complete(w) /\ ~Unfinished(p) => Shown(w)
  PROVE  Progress(p, w, n)
<1>1. /\ handler[p].pc = "reactions" /\ UNCHANGED <<scenario, phone, rows, events>>
      /\ reactions' = IF rows = {} THEN reactions ELSE w.Reactions
  BY DEF SyncReactions
<1>2. rows # {}
  BY <1>1 DEF RowInv, CopyOf
<1>3. HasRow(n)'
  BY <1>1, <1>2 DEF HasRow
<1>4. ~Unfinished(p)
  BY <1>1 DEF Unfinished
<1>5. Complete(w) => Shown(w)'
  BY <1>1, <1>4 DEF Shown
<1>6. Synced(n)'
  BY <1>1, <1>2 DEF Synced
<1>7. QED
  BY <1>3, <1>5, <1>6 DEF Progress

(* A message sent from Matrix has the row of its echo when a portal works  *)
(* on it.                                                                  *)
LEMMA SentHasRow ==
  ASSUME StatusInv, Alone, ~Resent, ~Deleted, send # "failed", send # "no", scenario.outgoing, ~pending
  PROVE  rows # {}
<1>1. Stays /\ Kept
  BY DEF Alone, Kept
<1>2. Claimed(rows)
  BY <1>1 DEF StatusInv, KeptInv, LateInv
<1>3. QED
  BY <1>2 DEF Claimed

LEMMA NewFollow ==
  ASSUME MessageInv, StatusInv, WaysInv, Trail, RowInv, VisibleInv, NEW p \in Convs, NEW n \in Nat,
         NewIgnored(p) \/ \E ok \in BOOLEAN : ConvertMessage(p, ok),
         NEW w, w = handler[p].v, w = phone[n], w.ConversationID = p, ~Deleted => HasRow(n)
  PROVE  Progress(p, w, n)
<1>1. /\ handler[p].pc = "new" /\ rows = {} /\ UNCHANGED <<scenario, phone>> /\ Alone
      /\ ~pending /\ (scenario.outgoing => send # "no")
  <2>1. handler[p].pc = "new" /\ UNCHANGED <<scenario, phone>>
    BY DEF NewIgnored, ConvertMessage
  <2>2. rows = {}
    BY <2>1 DEF RowInv, CopyOf
  <2>3. QED
    BY <2>1, <2>2, AtWork DEF Trail
<1>2. ASSUME ~Deleted, NEW i \in 1..Len(phone), i <= n, Bridged(phone[i]) PROVE i = n
  BY <1>1, <1>2 DEF HasRow
<1>3. ~Deleted => ~scenario.outgoing
  BY <1>1, SentHasRow DEF Trail
<1>4. \A i : Bridged(phone[i])' <=> Bridged(phone[i])
  BY <1>1 DEF Bridged, Empty
<1>5. CASE NewIgnored(p)
  <2>1. NotYetDownloaded(w.Status) /\ UNCHANGED rows
    BY <1>5 DEF NewIgnored, Trail
  <2>2. ~Complete(w) /\ ~Bridged(w)
    BY <2>1, CompleteIs DEF Bridged
  <2>3. ~Deleted => HasRow(n)'
    BY <1>1, <1>2, <1>4, <2>2 DEF HasRow
  <2>4. QED
    BY <2>2, <2>3 DEF Progress
<1>6. ASSUME NEW ok \in BOOLEAN, ConvertMessage(p, ok) PROVE Progress(p, w, n)
  <2>1. /\ Complete(w) => Shown(w)'
        /\ ~Empty(w) => rows' # {}
    BY <1>1, <1>6, NewFaith
  <2>2. ~Deleted => HasRow(n)'
    <3>1. Bridged(w) => rows' # {}
      BY <2>1 DEF Bridged
    <3>2. QED
      BY <1>1, <1>2, <1>4, <3>1 DEF HasRow
  <2>3. ASSUME ~Deleted PROVE Synced(n)'
    <3>1. \A i \in 1..Len(phone) : i < n => ~Bridged(phone[i])
      <4>1. \A i \in 1..Len(phone) : i < n => i <= n /\ i # n
        OBVIOUS
      <4>2. QED
        BY <1>2, <2>3, <4>1
    <3>2. QED
      BY <1>1, <1>3, <1>4, <2>3, <3>1 DEF Synced
  <2>4. QED
    BY <2>1, <2>2, <2>3 DEF Progress
<1>7. QED
  BY <1>5, <1>6

(* A portal's work on the version it has taken.                            *)
LEMMA WorkFollow ==
  ASSUME MessageInv, StatusInv, WaysInv, Trail, RowInv, VisibleInv, \A r \in rows : Faithful(r),
         NEW p \in Convs, PortalStep(p), ~Begin(p), ~ClaimEcho(p), ~Resent,
         NEW n \in 0..Len(phone), Order(n), ~Deleted => HasRow(n), Handled(n)
  PROVE  Order(n)' /\ (~Deleted' => HasRow(n)') /\ Handled(n)'
<1>0. HandlerType /\ PhoneType /\ Alone /\ n \in Nat
  BY DEF MessageInv, Trail
<1>1. /\ handler[p].pc # "idle" /\ \A q \in Convs : q # p => handler'[q] = handler[q]
      /\ handler'[p].pc = "idle" \/ handler'[p].v = handler[p].v
      /\ UNCHANGED <<scenario, phone, queue, rooms>>
  BY <1>0, Worked
<1>2. \A q \in Convs : q # p => handler[q].pc = "idle"
  BY <1>0, <1>1, AtWork
<1>3. PICK w : w = handler[p].v
  OBVIOUS
<1>4. n > 0 /\ w = phone[n] /\ w.ConversationID = p
  BY <1>1, <1>3 DEF Order
<1>5. Order(n)'
  <2>1. \A q : Waiting(q)' = Waiting(q) /\ \A i : Passed(i)' = Passed(i)
    BY <1>1 DEF Waiting, Passed
  <2>2. \A q \in Convs : handler'[q].pc # "idle" => n > 0 /\ handler'[q].v = phone'[n] /\ phone'[n].ConversationID = q
    BY <1>1, <1>2, <1>3, <1>4
  <2>3. QED
    BY <1>1, <2>1, <2>2 DEF Order
<1>6. Complete(w) /\ ~Unfinished(p) => Shown(w)
  <2>1. \A q \in Convs : q # p => ~Unfinished(q)
    BY <1>2 DEF Unfinished
  <2>2. QED
    BY <1>4, <2>1 DEF Handled, Matches
<1>7. Progress(p, w, n)
  <2>1. CASE HandleExisting(p)
    BY <1>0, <1>3, <1>4, <2>1, ExistingFollow
  <2>2. CASE HandleExistingIgnores(p) \/ HandleEditPanics(p)
    BY <1>3, <2>2, IgnoredFollow
  <2>3. CASE SaveParts(p)
    BY <1>0, <1>6, <2>3, SaveFollow
  <2>4. CASE HandleEdit(p)
    BY <1>0, <1>3, <1>4, <2>4, EditFollow
  <2>5. CASE SyncReactions(p)
    BY <1>3, <1>4, <1>6, <2>5, SyncFollow
  <2>6. CASE NewIgnored(p) \/ \E ok \in BOOLEAN : ConvertMessage(p, ok)
    BY <1>0, <1>3, <1>4, <2>6, NewFollow
  <2>7. CASE Remove(p)
    <3>1. w.Status = MESSAGE_DELETED
      BY <1>0, <1>1, <1>3, <2>7, AtWork DEF Remove
    <3>2. Deleted
      <4>1. n \in DOMAIN phone
        BY <1>0, <1>4, LenProperties DEF PhoneType
      <4>2. QED
        BY <1>4, <3>1, <4>1 DEF Deleted
    <3>3. ~Complete(w)
      BY <3>1, CompleteIs
    <3>4. QED
      BY <3>2, <3>3 DEF Progress
  <2>8. CASE HandleExistingResends(p)
    BY <1>0, <2>8, ResendPlace
  <2>9. QED
    BY <2>1, <2>2, <2>3, <2>4, <2>5, <2>6, <2>7, <2>8 DEF PortalStep
<1>8. Deleted' = Deleted
  BY <1>1 DEF Deleted
<1>9. w = phone'[n]
  BY <1>1, <1>4
<1>10. Complete(w) => Matches(n)'
  <2>1. ASSUME Complete(w), \A q \in Convs : ~Unfinished(q)' PROVE Shown(phone[n])'
    <3>1. Shown(w)'
      BY <1>7, <2>1 DEF Progress
    <3>2. QED
      BY <1>9, <3>1
  <2>2. QED
    BY <1>7, <1>8, <2>1 DEF Matches, Progress
<1>11. Complete(phone[n])' <=> Complete(w)
  BY <1>1, <1>4 DEF Complete
<1>12. Handled(n)'
  BY <1>10, <1>11 DEF Handled
<1>13. QED
  BY <1>5, <1>7, <1>8, <1>12 DEF Progress

LEMMA BeginFollow ==
  ASSUME MessageInv, StatusInv, WaysInv, RowInv, VisibleInv, QueueInv, Trail, Trail',
         pending => events[1].shows = getTextPart(Outgoing).shows,
         NEW p \in Convs, Begin(p) \/ ClaimEcho(p),
         NEW n \in 0..Len(phone), Order(n), ~Deleted => HasRow(n), Handled(n)
  PROVE  \E m \in 0..Len(phone') : Order(m)' /\ (~Deleted' => HasRow(m)') /\ Handled(m)'
<1>0. HandlerType /\ PhoneType /\ Alone
  BY DEF MessageInv, Trail
<1>1. /\ handler[p].pc = "idle" /\ queue[p] # <<>> /\ queue' = [queue EXCEPT ![p] = Tail(@)]
      /\ \A q \in Convs : q # p => handler'[q] = handler[q]
      /\ UNCHANGED <<scenario, phone, reactions>>
      /\ Begin(p) => UNCHANGED <<events, rows>>
      /\ ClaimEcho(p) => UNCHANGED rooms /\ handler'[p].pc = "existing"
  BY <1>0, Began
<1>2. CASE /\ UNCHANGED <<handler, rooms>>
           /\ p \notin rooms /\ ~ShouldCreatePortal(phone[Head(queue[p])].Status)
  <2>1. Begin(p)
    BY <1>1, <1>2
  <2>2. Order(n)' /\ (~Deleted' => HasRow(n)') /\ Handled(n)'
    BY <1>0, <1>1, <1>2, <2>1, FollowPassed
  <2>3. n \in 0..Len(phone')
    BY <1>1
  <2>4. QED
    BY <2>2, <2>3
<1>3. CASE /\ handler'[p].pc \in {"remove", "new", "existing"} /\ handler'[p].v = phone[Head(queue[p])]
           /\ ClaimEcho(p) \/ rooms' = rooms \cup {p}
           /\ Begin(p) => /\ handler'[p].pc = "remove" <=> handler'[p].v.Status = MESSAGE_DELETED
                          /\ handler'[p].pc = "existing" => rows # {}
           /\ raced' = (raced \/ \E q \in Convs : handler[q].pc # "idle")
           /\ overtaken' = (overtaken \/ \E q \in Convs \ {p} :
                               queue[q] # <<>> /\ Head(queue[q]) < Head(queue[p]))
  <2>1. \A q \in Convs : handler[q].pc = "idle"
    BY <1>3 DEF Trail, Alone
  <2>2. \A q \in Convs \ {p} : queue[q] # <<>> => ~(Head(queue[q]) < Head(queue[p]))
    BY <1>3 DEF Trail
  <2>3. ClaimEcho(p) => rows' # {}
    BY <1>0, EchoFaith
  <2>4. rooms' \subseteq rooms \cup {p} /\ (rows # {} => rows' # {})
    BY <1>1, <1>3, <2>3
  <2>5. ASSUME ~Deleted PROVE rows' # {} \/ handler'[p].pc = "new"
    <3>1. Head(queue[p]) \in DOMAIN phone
      BY <1>0, <1>1, HeadIs, LenProperties DEF PhoneType
    <3>2. handler'[p].v.Status # MESSAGE_DELETED
      BY <1>3, <2>5, <3>1 DEF Deleted
    <3>3. QED
      BY <1>1, <1>3, <2>3, <3>2
  <2>6. QED
    BY <1>0, <1>1, <1>3, <2>1, <2>2, <2>4, <2>5, FollowBegun
<1>4. QED
  BY <1>0, <1>2, <1>3, Began

LEMMA FollowStep ==
  MessageInv /\ MessageInv' /\ StatusInv /\ WaysInv /\ PlaceInv /\ FaithInv /\ QueueInv /\ FollowInv /\ [Next]_vars
  => FollowInv'
<1> SUFFICES ASSUME MessageInv, MessageInv', StatusInv, WaysInv, PlaceInv, FaithInv, QueueInv, FollowInv,
                    [Next]_vars, Trail'
             PROVE  \E n \in 0..Len(phone') : Order(n)' /\ (~Deleted' => HasRow(n)') /\ Handled(n)'
  BY DEF FollowInv
<1>1. Trail /\ UNCHANGED scenario /\ ~Restart /\ ~SendFailed /\ (Deleted => Deleted')
  BY TrailBack
<1>2. /\ RowInv /\ VisibleInv /\ (\A r \in rows : Faithful(r)) /\ Alone /\ ~Resent /\ PhoneType
      /\ pending => events[1].shows = getTextPart(Outgoing).shows
      /\ \A p \in Convs : InQueue(p)
  BY <1>1 DEF Trail, PlaceInv, FaithInv, QueueInv, MessageInv
<1>3. PICK n \in 0..Len(phone) : Order(n) /\ (~Deleted => HasRow(n)) /\ Handled(n)
  BY <1>1 DEF FollowInv
<1>4. CASE \E v \in scenario.versions : PhoneUpdate(v)
  <2>1. PICK v \in scenario.versions : PhoneUpdate(v)
    BY <1>4
  <2>2. v \in MessageType
    BY <1>2, ScenarioAssumption DEF PhoneType
  <2>3. /\ phone' = Append(phone, v) /\ UNCHANGED <<handler, rows, reactions, rooms, events>>
        /\ queue' = [queue EXCEPT ![v.ConversationID] = Append(@, Len(phone) + 1)]
    BY <2>1 DEF PhoneUpdate, matrix
  <2>4. QED
    BY <1>1, <1>2, <1>3, <2>2, <2>3, FollowLonger
<1>5. CASE PhoneTakes
  <2>1. scenario.outgoing
    BY <1>5 DEF PhoneTakes, MessageInv, ShownType
  <2>2. Outgoing \in MessageType
    BY <1>2, <2>1, OutgoingIs
  <2>3. phone' = Append(phone, Outgoing) /\ Len(phone) + 1 = 1
    BY <1>5 DEF PhoneTakes
  <2>4. /\ UNCHANGED <<handler, rows, reactions, rooms, events>>
        /\ queue' = [queue EXCEPT ![Outgoing.ConversationID] = Append(@, Len(phone) + 1)]
    BY <1>5, <2>3 DEF PhoneTakes, matrix
  <2>5. QED
    BY <1>1, <1>2, <1>3, <2>2, <2>3, <2>4, FollowLonger
<1>6. CASE HandleMatrixMessage
  <2>1. phone = <<>>
    BY <1>6 DEF HandleMatrixMessage, WaysInv, FirstInv
  <2>2. n = 0
    BY <1>3, <2>1
  <2>3. UNCHANGED <<scenario, phone, queue, handler, rows, reactions, rooms>>
    BY <1>6 DEF HandleMatrixMessage
  <2>4. Order(n)' /\ (~Deleted' => HasRow(n)') /\ Handled(n)'
    BY <1>3, <2>2, <2>3, FollowKept
  <2>5. QED
    BY <1>3, <2>3, <2>4
<1>7. CASE FullMediaResponse \/ SendOK \/ UNCHANGED vars
  <2>1. UNCHANGED <<scenario, phone, queue, handler, rows, reactions, rooms, events>>
    BY <1>7 DEF FullMediaResponse, SendOK, vars, matrix
  <2>2. Order(n)' /\ (~Deleted' => HasRow(n)') /\ Handled(n)'
    BY <1>3, <2>1, FollowKept
  <2>3. QED
    BY <1>3, <2>1, <2>2
<1>8. ASSUME NEW p \in Convs, PortalStep(p), ~Begin(p), ~ClaimEcho(p)
      PROVE  \E m \in 0..Len(phone') : Order(m)' /\ (~Deleted' => HasRow(m)') /\ Handled(m)'
  <2>1. UNCHANGED phone
    BY <1>8, Worked DEF MessageInv
  <2>2. Order(n)' /\ (~Deleted' => HasRow(n)') /\ Handled(n)'
    BY <1>1, <1>2, <1>3, <1>8, WorkFollow
  <2>3. QED
    BY <1>3, <2>1, <2>2
<1>9. ~Age
  BY DEF Age, Trail
<1>10. QED
  BY <1>1, <1>2, <1>3, <1>4, <1>5, <1>6, <1>7, <1>8, <1>9, BeginFollow DEF Next

(* When all is handled, the last version was taken last.                   *)
LEMMA LastIs ==
  ASSUME MessageInv, WaysInv, FollowInv, Followed
  PROVE  Matches(Len(phone)) /\ Last \in MessageType /\ Complete(Last) /\ ~pending /\ Len(phone) \in Nat \ {0}
<1>1. /\ Trail /\ \A p \in Convs : queue[p] = <<>>
      /\ phone # <<>> /\ Last.ConversationID \in rooms /\ Complete(Last)
  BY DEF Followed, Quiescent, Trail, Complete
<1>2. PICK l \in Nat : l = Len(phone) /\ l > 0
  BY <1>1, LenProperties, EmptySeq DEF MessageInv, PhoneType
<1>3. PICK n \in 0..l : Order(n) /\ Handled(n)
  BY <1>1, <1>2 DEF FollowInv
<1>4. l \in 1..l
  BY <1>2
<1>5. \A p \in Convs : Waiting(p) = {}
  <2>1. \A i \in 1..0 : FALSE
    OBVIOUS
  <2>2. Len(<<>>) = 0
    OBVIOUS
  <2>3. QED
    BY <1>1, <2>1, <2>2 DEF Waiting, Entries
<1>6. ~Passed(l)
  BY <1>1, <1>2 DEF Passed, Last
<1>7. n = l
  <2>1. ~(l > n)
    BY <1>2, <1>3, <1>4, <1>5, <1>6 DEF Order
  <2>2. QED
    BY <1>2, <2>1
<1>8. Last = phone[l] /\ Last \in MessageType
  BY <1>2, <1>4, ElementOfSeq DEF Last, MessageInv, PhoneType
<1>9. Matches(l)
  BY <1>1, <1>2, <1>3, <1>7, <1>8 DEF Handled
<1>10. ~pending
  <2>1. ASSUME pending PROVE FALSE
    <3>1. scenario.outgoing /\ queue[Outgoing.ConversationID] # <<>>
      BY <1>1, <2>1 DEF WaysInv, FirstInv
    <3>2. Outgoing.ConversationID \in Convs
      BY <3>1, OutgoingIs DEF MessageInv, MessageType
    <3>3. QED
      BY <1>1, <3>1, <3>2
  <2>2. QED
    BY <2>1
<1>11. QED
  BY <1>1, <1>2, <1>8, <1>9, <1>10

LEMMA ContentSound ==
  MessageInv /\ WaysInv /\ PlaceInv /\ UserInv /\ FaithInv /\ FollowInv => ContentCurrent
<1> SUFFICES ASSUME MessageInv, WaysInv, PlaceInv, UserInv, FaithInv, FollowInv, Followed
             PROVE  ShownIsCurrent /\ ReactionsCurrent
  BY DEF ContentCurrent, ShownIsCurrent, ReactionsCurrent
<1>1. /\ Matches(Len(phone)) /\ Last \in MessageType /\ Complete(Last) /\ ~pending /\ Len(phone) \in Nat \ {0}
      /\ Last = phone[Len(phone)]
  BY LastIs DEF Last
<1>2. /\ Alone /\ Quiescent /\ ~Resent /\ send # "failed" /\ \A p \in Convs : handler[p].pc = "idle"
  BY DEF Followed, Quiescent
<1>3. RowInv /\ Owned /\ RowShown
  BY <1>2, PlaceSound DEF PlaceInv, FaithInv, PlacedOnce
<1>4. ReactionsCurrent
  <2>1. ~Deleted => Synced(Len(phone))
    BY <1>1, <1>2 DEF Matches
  <2>2. \A i \in 1..Len(phone) - 1 : i \in 1..Len(phone) /\ i < Len(phone)
    BY <1>1
  <2>3. QED
    BY <1>1, <2>1, <2>2 DEF ReactionsCurrent, Synced
<1>5. ASSUME ~Emptied PROVE ShownIsCurrent
  <2>1. Shown(Last)
    BY <1>1, <1>2 DEF Matches, Unfinished
  <2>2. PICK r \in rows : LET s == events[r.MXID].shows IN
        /\ r.Room = Last.ConversationID /\ s.text = Last.text /\ s.note = ""
        /\ Last.media = "full" /\ ~scenario.outgoing => s.media \in {"full", "failed"}
    BY <2>1 DEF Shown
  <2>3. r.MXID \in Visible /\ events[r.MXID].room = r.Room
    BY <1>2, <1>3, <1>5, <2>2 DEF RowShown
  <2>4. rows = {r}
    BY <1>3, <2>2 DEF RowInv, Placed
  <2>5. ASSUME NEW i \in Visible PROVE i = r.MXID
    <3>1. i \in 1..Len(events) /\ events[i].gone = FALSE
      <4>1. i \in DOMAIN events /\ ~events[i].gone
        BY <2>5 DEF Visible
      <4>2. DOMAIN events = 1..Len(events) /\ events \in Seq(MatrixEvent)
        BY LenProperties DEF MessageInv, ShownType
      <4>3. events[i] \in MatrixEvent
        BY <4>1, <4>2, ElementOfSeq
      <4>4. QED
        BY <4>1, <4>2, <4>3 DEF MatrixEvent
    <3>2. QED
      BY <1>1, <1>3, <2>4, <3>1 DEF Owned
  <2>6. Visible = {r.MXID}
    BY <2>3, <2>5
  <2>7. QED
    BY <2>2, <2>3, <2>6 DEF ShownIsCurrent
<1>6. ShownIsCurrent
  BY <1>5 DEF ShownIsCurrent
<1>7. QED
  BY <1>4, <1>6

(* However versions, edits, statuses and media of a message follow each    *)
(* other, in one chat or two: what is shown of it, and the reactions, are  *)
(* those of the last version, once it is handled and if none overtook      *)
(* another (doMessageResync, ConvertEdit, ReactionSyncEvent).              *)
THEOREM ContentCurrentThm == Spec => []ContentCurrent
<1>1. Init => /\ MessageInv /\ StatusInv /\ WaysInv /\ PlaceInv /\ UserInv
              /\ FaithInv /\ QueueInv /\ FollowInv
  BY MessageInvInit, StatusInit, WaysInit, PlaceInit, UserInit, FollowInit
<1>2. /\ MessageInv /\ StatusInv /\ WaysInv /\ PlaceInv /\ UserInv
      /\ FaithInv /\ QueueInv /\ FollowInv /\ [Next]_vars
      => /\ MessageInv' /\ StatusInv' /\ WaysInv' /\ PlaceInv' /\ UserInv'
         /\ FaithInv' /\ QueueInv' /\ FollowInv'
  <2>1. /\ MessageInv /\ StatusInv /\ WaysInv /\ PlaceInv /\ UserInv /\ [Next]_vars
        => MessageInv' /\ StatusInv' /\ WaysInv' /\ PlaceInv' /\ UserInv'
    BY MessageInvStep, StatusStep, WaysStep, PlaceStep, UserStep
  <2>2. MessageInv /\ WaysInv /\ QueueInv /\ [Next]_vars => QueueInv'
    BY QueueStep
  <2>3. QED
    BY <2>1, <2>2, FaithStep, FollowStep
<1>3. /\ MessageInv /\ StatusInv /\ WaysInv /\ PlaceInv /\ UserInv
      /\ FaithInv /\ QueueInv /\ FollowInv
      => ContentCurrent
  BY ContentSound
<1>4. QED
  BY <1>1, <1>2, <1>3, PTL DEF Spec
============================================================================
