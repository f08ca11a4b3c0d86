------------------------ MODULE MessageUpsertProofs ------------------------
(***************************************************************************)
(* Proofs about one message on its way into Matrix (MessageUpsert), for    *)
(* every set of versions the phone may send of it and any number of them,  *)
(* whichever portals work on it.                                           *)
(***************************************************************************)
EXTENDS MessageUpsert, FiniteSetTheorems, SequenceTheorems, TLAPS

(* What an event shows of an attachment, and an event.                     *)
MediaShown == {"none", "waiting", "failed", "pending", "thumb", "full"}
Texts == {v.text : v \in MessageType} \cup {""}
Notes == {downloadPendingStatusMessage(status) : status \in Int} \cup {""}
Shows == [text : Texts, note : Notes, media : MediaShown]
MatrixEvent == [room : Convs, gone : BOOLEAN, user : BOOLEAN, shows : Shows]

(* The versions, the events waiting, and the version each handler works on.*)
PhoneType ==
    /\ scenario \in Scenarios /\ phone \in Seq(MessageType)
    /\ queue \in [Convs -> Seq(Nat)]
    /\ \A p \in Convs : \A i \in 1..Len(queue[p]) : queue[p][i] \in 1..Len(phone)

HandlerType ==
    /\ DOMAIN handler = Convs
    /\ \A p \in Convs : /\ DOMAIN handler[p] = {"pc", "v", "rows", "resync"}
                        /\ handler[p].pc # "idle" => handler[p].v \in MessageType

(* The user's own event is there as long as its transaction is pending.    *)
(* Only a message written in Matrix is sent.                               *)
ShownType ==
    /\ events \in Seq(MatrixEvent)
    /\ pending => events # <<>>
    /\ send = "sending" => scenario.outgoing
    /\ fullMedia \in {"no", "asked", "granted", "failed"} /\ restarts \in Nat

(* A thumbnail was shown, redacted or not: its full file was asked for.    *)
ThumbInv ==
    restarts = 0 => \A i \in 1..Len(events) : events[i].shows.media = "thumb" => fullMedia # "no"

MessageInv == PhoneType /\ HandlerType /\ ShownType /\ ThumbInv
-----------------------------------------------------------------------------
LEMMA ShowsAre ==
  ASSUME NEW t \in Texts, NEW n \in Notes, NEW m \in MediaShown
  PROVE  /\ [text |-> t, note |-> n, media |-> m] \in Shows
         /\ [text |-> t, note |-> n, media |-> m].media = m
  BY DEF Shows

LEMMA PartIs ==
  ASSUME NEW part, NEW a, NEW b, NEW c, part = [ID |-> a, shows |-> b, meta |-> c]
  PROVE  part.shows = b
  OBVIOUS

LEMMA MergedIs ==
  ASSUME NEW a, NEW b, NEW t, NEW n, NEW x, NEW y, NEW m
  PROVE  [[ID |-> a, shows |-> [text |-> x, note |-> y, media |-> m], meta |-> b]
              EXCEPT !.ID = "", !.shows.text = t, !.shows.note = n].shows
           = [text |-> t, note |-> n, media |-> m]
  OBVIOUS

(* The conversion of a version: at most a text and an attachment, which is *)
(* a thumbnail only if the version has no more and its download succeeded. *)
LEMMA PartsAre ==
  ASSUME NEW v \in MessageType, NEW merge \in BOOLEAN, NEW ok \in BOOLEAN
  PROVE  LET parts == ConvertGoogleMessage(v, merge, ok) IN
         /\ Len(parts) \in 0..2 /\ DOMAIN parts = 1..Len(parts)
         /\ \A i \in 1..Len(parts) :
               /\ parts[i].shows \in Shows
               /\ parts[i].shows.media = "thumb" => v.media = "thumb" /\ ok
<1> DEFINE text == getTextPart(v)
           media == MediaOfMessage(v, ok)
           merged == MergeCaption(text, media)
           parts == ConvertGoogleMessage(v, merge, ok)
           Good(part) == /\ part.shows \in Shows
                         /\ part.shows.media = "thumb" => v.media = "thumb" /\ ok
<1>1. v.media \in {"none", "pending", "thumb", "full"} /\ v.Status \in Int
  BY DEF MessageType
<1>2. v.text \in Texts /\ downloadPendingStatusMessage(v.Status) \in Notes /\ "" \in Texts /\ "" \in Notes
  BY <1>1 DEF Texts, Notes
<1>3. text.shows = [text |-> v.text, note |-> downloadPendingStatusMessage(v.Status), media |-> "none"]
  BY DEF getTextPart
<1>4. Good(text)
  <2>1. "none" \in MediaShown /\ "none" # "thumb"
    BY DEF MediaShown
  <2> DEFINE s == [text |-> v.text, note |-> downloadPendingStatusMessage(v.Status), media |-> "none"]
  <2>2. s \in Shows /\ s.media = "none"
    BY <1>2, <2>1, ShowsAre
  <2>3. text.shows = s
    BY <1>3
  <2> HIDE DEF text, s
  <2>4. QED
    BY <2>1, <2>2, <2>3
<1>15. PICK shown : shown = convertGoogleMedia(v, ok)
  OBVIOUS
<1>16. PICK id, meta :
         media = [ID |-> id, shows |-> [text |-> "", note |-> "", media |-> shown], meta |-> meta]
  BY <1>15, Zenon DEF MediaOfMessage
<1>5. media.shows = [text |-> "", note |-> "", media |-> shown]
  <2> DEFINE s == [text |-> "", note |-> "", media |-> shown]
  <2>1. media = [ID |-> id, shows |-> s, meta |-> meta]
    BY <1>16
  <2> HIDE DEF s, media
  <2>2. media.shows = s
    BY <2>1, PartIs
  <2>3. QED
    BY <2>2 DEF s
<1>6. /\ shown \in MediaShown
      /\ shown = "thumb" => v.media = "thumb" /\ ok
  BY <1>1, <1>15 DEF convertGoogleMedia, hasInProgressMedia, MediaShown
<1>7. Good(media)
  <2> DEFINE s == [text |-> "", note |-> "", media |-> shown]
  <2>1. s \in Shows /\ s.media = shown
    BY <1>2, <1>6, ShowsAre
  <2>2. media.shows = s
    BY <1>5
  <2> HIDE DEF media, s
  <2>3. QED
    BY <1>6, <2>1, <2>2
<1>8. merged.shows = [text |-> v.text, note |-> downloadPendingStatusMessage(v.Status),
                      media |-> shown]
  <2>1. text.shows.text = v.text /\ text.shows.note = downloadPendingStatusMessage(v.Status)
    BY <1>3
  <2> HIDE DEF text, media
  <2>2. merged = [media EXCEPT !.ID = "", !.shows.text = text.shows.text, !.shows.note = text.shows.note]
    BY DEF MergeCaption
  <2>3. QED
    <3> DEFINE t == text.shows.text
               n == text.shows.note
    <3> HIDE DEF t, n
    <3>1. merged = [media EXCEPT !.ID = "", !.shows.text = t, !.shows.note = n]
      BY <2>2 DEF t, n
    <3> HIDE DEF merged
    <3>2. merged.shows = [text |-> t, note |-> n, media |-> shown]
      BY <1>16, <3>1, MergedIs, Zenon
    <3>3. t = v.text /\ n = downloadPendingStatusMessage(v.Status)
      BY <2>1 DEF t, n
    <3>4. QED
      BY <3>2, <3>3
<1>9. Good(merged)
  <2> DEFINE s == [text |-> v.text, note |-> downloadPendingStatusMessage(v.Status),
                   media |-> shown]
  <2>1. s \in Shows /\ s.media = shown
    BY <1>2, <1>6, ShowsAre
  <2>2. merged.shows = s
    BY <1>8
  <2> HIDE DEF merged, s
  <2>3. QED
    BY <1>6, <2>1, <2>2
<1> HIDE DEF text, media, merged, Good
<1>10. parts \in {<<text>>, <<>>, <<media>>, <<merged>>, <<text, media>>}
  BY DEF ConvertGoogleMessage, text, media, merged
<1> HIDE DEF parts
<1>11. ASSUME NEW a, Good(a), parts = <<a>>
       PROVE  Len(parts) \in 0..2 /\ DOMAIN parts = 1..Len(parts) /\ \A i \in 1..Len(parts) : Good(parts[i])
  <2>1. Len(<<a>>) = 1 /\ DOMAIN <<a>> = 1..1 /\ <<a>>[1] = a /\ \A i \in 1..1 : i = 1
    OBVIOUS
  <2>2. QED
    BY <1>11, <2>1
<1>12. CASE parts = <<>>
  BY <1>12 DEF parts
<1>13. CASE parts = <<text, media>>
  <2>1. /\ Len(parts) = 2 /\ DOMAIN parts = 1..2 /\ parts[1] = text /\ parts[2] = media
        /\ \A i \in 1..2 : i = 1 \/ i = 2
    BY <1>13
  <2>2. QED
    BY <1>4, <1>7, <2>1 DEF Good, parts
<1>14. QED
  BY <1>4, <1>7, <1>9, <1>10, <1>11, <1>12, <1>13 DEF Good, parts
-----------------------------------------------------------------------------
LEMMA MessageInvInit == Init => MessageInv
<1> SUFFICES ASSUME Init PROVE MessageInv
  OBVIOUS
<1>1. /\ scenario \in Scenarios /\ phone = <<>> /\ queue = [p \in Convs |-> <<>>]
      /\ handler = [p \in Convs |-> Idle] /\ events = <<>> /\ pending = FALSE /\ send = "no"
      /\ fullMedia = "no" /\ restarts = 0
  BY DEF Init
<1>2. Len(<<>>) = 0 /\ 1..0 = {} /\ \A S : <<>> \in Seq(S)
  OBVIOUS
<1>3. PhoneType
  BY <1>1, <1>2 DEF PhoneType
<1>4. DOMAIN Idle = {"pc", "v", "rows", "resync"} /\ Idle.pc = "idle"
  BY DEF Idle
<1>5. HandlerType
  BY <1>1, <1>4 DEF HandlerType
<1>6. ShownType /\ ThumbInv
  BY <1>1, <1>2 DEF ShownType, ThumbInv
<1>7. QED
  BY <1>3, <1>5, <1>6 DEF MessageInv
-----------------------------------------------------------------------------
(* What a step does to the events: it keeps them or shows parts of the     *)
(* version it handles, and only a restart forgets the request.             *)
EventsStep ==
    /\ events' \in Seq(MatrixEvent)
    /\ \A i \in 1..Len(events') : events'[i].shows.media = "thumb" =>
          fullMedia' # "no" \/ \E k \in 1..Len(events) : events[k].shows.media = "thumb"
    /\ fullMedia # "no" => fullMedia' # "no"
    /\ restarts' = restarts

LEMMA ThumbInvStep == ASSUME ThumbInv, EventsStep PROVE ThumbInv'
  BY DEF ThumbInv, EventsStep

LEMMA RedactedIs ==
  ASSUME events \in Seq(MatrixEvent), NEW copy
  PROVE  /\ Redacted(copy) \in Seq(MatrixEvent) /\ Len(Redacted(copy)) = Len(events)
         /\ DOMAIN Redacted(copy) = 1..Len(events)
         /\ \A i \in 1..Len(events) : /\ Redacted(copy)[i] \in MatrixEvent
                                      /\ Redacted(copy)[i].shows = events[i].shows
<1>1. Len(events) \in Nat /\ DOMAIN events = 1..Len(events) /\ \A i \in 1..Len(events) : events[i] \in MatrixEvent
  BY LenProperties
<1>2. /\ DOMAIN Redacted(copy) = 1..Len(events)
      /\ \A i \in 1..Len(events) : Redacted(copy)[i] = [events[i] EXCEPT !.gone = TRUE] \/ Redacted(copy)[i] = events[i]
  BY <1>1 DEF Redacted
<1>3. \A e \in MatrixEvent : [e EXCEPT !.gone = TRUE] \in MatrixEvent /\ [e EXCEPT !.gone = TRUE].shows = e.shows
  BY DEF MatrixEvent
<1>4. \A i \in 1..Len(events) : Redacted(copy)[i] \in MatrixEvent /\ Redacted(copy)[i].shows = events[i].shows
  BY <1>1, <1>2, <1>3
<1>5. Redacted(copy) = [i \in 1..Len(events) |-> Redacted(copy)[i]]
  BY <1>1 DEF Redacted
<1>6. Redacted(copy) \in [1..Len(events) -> MatrixEvent]
  BY <1>4, <1>5
<1>7. Redacted(copy) \in Seq(MatrixEvent)
  BY <1>1, <1>6, SeqDef
<1>8. QED
  BY <1>1, <1>2, <1>4, <1>7, LenProperties

(* Whichever of at most two parts are sent anew, each new event has a part.*)
LEMMA RankIs ==
  ASSUME NEW S \in SUBSET (1..2), NEW n \in 1..Cardinality(S)
  PROVE  \E i \in S : Cardinality({j \in S : j <= i}) = n
<1>1. S = {} \/ S = {1} \/ S = {2} \/ S = {1, 2}
  <2>1. \A j \in S : j = 1 \/ j = 2
    OBVIOUS
  <2>2. CASE 1 \in S /\ 2 \in S
    BY <2>1, <2>2
  <2>3. CASE 1 \in S /\ 2 \notin S
    BY <2>1, <2>3
  <2>4. CASE 1 \notin S /\ 2 \in S
    BY <2>1, <2>4
  <2>5. CASE 1 \notin S /\ 2 \notin S
    BY <2>1, <2>5
  <2>6. QED
    BY <2>2, <2>3, <2>4, <2>5
<1>2. /\ Cardinality({}) = 0 /\ Cardinality({1}) = 1 /\ Cardinality({2}) = 1
  <2>1. Cardinality({}) = 0
    BY FS_EmptySet
  <2>2. Cardinality({1}) = 1 /\ Cardinality({2}) = 1
    BY FS_Singleton, Zenon
  <2>3. QED
    BY <2>1, <2>2
<1>3. Cardinality({1, 2}) = 2
  <2>1. IsFiniteSet({1})
    BY FS_Singleton, Zenon
  <2>2. {1, 2} = {1} \cup {2}
    BY Zenon
  <2>3. 2 \notin {1}
    OBVIOUS
  <2>4. Cardinality({1} \cup {2}) = Cardinality({1}) + 1
    BY <2>1, <2>3, FS_AddElement, Zenon
  <2>5. QED
    BY <1>2, <2>2, <2>4
<1>4. CASE S = {}
  BY <1>2, <1>4
<1>5. CASE S = {1}
  <2>1. {j \in S : j <= 1} = {1} /\ n = 1
    BY <1>2, <1>5
  <2>2. QED
    BY <1>2, <1>5, <2>1
<1>6. CASE S = {2}
  <2>1. {j \in S : j <= 2} = {2} /\ n = 1
    BY <1>2, <1>6
  <2>2. QED
    BY <1>2, <1>6, <2>1
<1>7. CASE S = {1, 2}
  <2>1. {j \in S : j <= 1} = {1} /\ {j \in S : j <= 2} = {1, 2}
    BY <1>7
  <2>2. n = 1 \/ n = 2
    BY <1>3, <1>7
  <2>3. 1 \in S /\ 2 \in S
    BY <1>7
  <2>4. QED
    BY <1>2, <1>3, <2>1, <2>2, <2>3
<1>8. QED
  BY <1>1, <1>4, <1>5, <1>6, <1>7

(* The places a handler goes through keep its version.                     *)
LEMMA HandlerSteps ==
  ASSUME HandlerType, NEW p \in Convs, handler[p].pc # "idle", NEW place, NEW copy, NEW resync
  PROVE  /\ (handler' = [handler EXCEPT ![p] = Idle]) => HandlerType'
         /\ (handler' = [handler EXCEPT ![p].pc = place]) => HandlerType'
         /\ (handler' = [handler EXCEPT ![p].pc = place, ![p].rows = copy]) => HandlerType'
         /\ (handler' = [handler EXCEPT ![p].pc = place, ![p].rows = copy, ![p].resync = resync]) => HandlerType'
<1> DEFINE fields == {"pc", "v", "rows", "resync"}
           h == handler[p]
<1>1. DOMAIN h = fields /\ h.v \in MessageType
  <2>1. \A q \in Convs : DOMAIN handler[q] = fields /\ (handler[q].pc # "idle" => handler[q].v \in MessageType)
    BY Zenon DEF HandlerType
  <2>2. QED
    BY <2>1, Zenon
<1>2. ASSUME NEW new, handler' = [handler EXCEPT ![p] = new], DOMAIN new = fields,
             new.pc = "idle" \/ new.v \in MessageType
      PROVE  HandlerType'
  BY <1>2 DEF HandlerType
<1>3. DOMAIN Idle = fields /\ Idle.pc = "idle"
  BY DEF Idle
<1>4. DOMAIN [h EXCEPT !.pc = place] = fields /\ [h EXCEPT !.pc = place].v = h.v
  BY <1>1
<1>5. /\ DOMAIN [h EXCEPT !.pc = place, !.rows = copy] = fields
      /\ [h EXCEPT !.pc = place, !.rows = copy].v = h.v
  BY <1>1
<1>6. /\ DOMAIN [h EXCEPT !.pc = place, !.rows = copy, !.resync = resync] = fields
      /\ [h EXCEPT !.pc = place, !.rows = copy, !.resync = resync].v = h.v
  BY <1>1
<1>7. QED
  BY <1>1, <1>2, <1>3, <1>4, <1>5, <1>6

LEMMA FullMediaKept ==
  ASSUME NEW v, NEW ok \in BOOLEAN, fullMedia' = FullMediaAfter(v, ok)
  PROVE  /\ fullMedia # "no" => fullMedia' # "no"
         /\ (v.media = "thumb" /\ ok) => fullMedia' # "no"
         /\ fullMedia \in {"no", "asked", "granted", "failed"} => fullMedia' \in {"no", "asked", "granted", "failed"}
  BY DEF FullMediaAfter

(* ConvertEdit: the events edited in place and the new ones show parts of  *)
(* the version; the others stay as they are or are redacted.               *)
LEMMA EditEvents ==
  ASSUME NEW p \in Convs, NEW ok \in BOOLEAN, ConvertEdit(p, ok), handler[p].v \in MessageType,
         events \in Seq(MatrixEvent), restarts' = restarts
  PROVE  EventsStep /\ fullMedia' = FullMediaAfter(handler[p].v, ok) /\ Len(events') >= Len(events)
<1> DEFINE v == handler[p].v
           copy == handler[p].rows
           parts == ConvertGoogleMessage(v, Cardinality(copy) = 1, ok)
           RowOf(i) == CHOOSE r \in copy : r.PartID = parts[i].ID
           moved(r) == r.Room # p
           edited == {i \in DOMAIN parts : ~AddedPart(copy, parts[i])}
           sentNew == {i \in DOMAIN parts : IF i \in edited THEN moved(RowOf(i))
                                            ELSE MayAddPart(p, copy)}
           MXIDOf(i) == IF i \in sentNew
                        THEN Len(events) + Cardinality({j \in sentNew : j <= i})
                        ELSE RowOf(i).MXID
           deleted == {r \in copy : \A i \in DOMAIN parts : parts[i].ID # r.PartID}
           shown == [k \in DOMAIN events |->
                       IF \E i \in edited \ sentNew : RowOf(i).MXID = k
                       THEN [events[k] EXCEPT !.shows =
                               parts[CHOOSE i \in edited \ sentNew : RowOf(i).MXID = k].shows]
                       ELSE Redacted(deleted)[k]]
           fresh == [n \in 1..Cardinality(sentNew) |->
                       NewEvent(p, parts[CHOOSE i \in sentNew : MXIDOf(i) = Len(events) + n])]
           Shown(s) == s \in Shows /\ (s.media = "thumb" => fullMedia' # "no")
<1>1. events' = shown \o fresh /\ fullMedia' = FullMediaAfter(v, ok)
  BY Zenon DEF ConvertEdit
<1>2. /\ Len(parts) \in 0..2 /\ DOMAIN parts = 1..Len(parts)
      /\ \A i \in 1..Len(parts) : Shown(parts[i].shows)
  <2>1. (Cardinality(copy) = 1) \in BOOLEAN
    OBVIOUS
  <2>2. /\ Len(parts) \in 0..2 /\ DOMAIN parts = 1..Len(parts)
        /\ \A i \in 1..Len(parts) : /\ parts[i].shows \in Shows
                                    /\ parts[i].shows.media = "thumb" => v.media = "thumb" /\ ok
    BY <2>1, PartsAre
  <2>3. (v.media = "thumb" /\ ok) => fullMedia' # "no"
    BY <1>1, FullMediaKept
  <2> HIDE DEF parts, v
  <2>4. QED
    BY <2>2, <2>3
<1> HIDE DEF parts, v, copy
<1>3. Len(events) \in Nat /\ DOMAIN events = 1..Len(events) /\ \A k \in 1..Len(events) : events[k] \in MatrixEvent
  BY LenProperties
<1>4. \A k \in 1..Len(events) : Redacted(deleted)[k] \in MatrixEvent /\ Redacted(deleted)[k].shows = events[k].shows
  BY RedactedIs
<1>5. ASSUME NEW k \in 1..Len(events)
      PROVE  /\ shown[k] \in MatrixEvent
             /\ shown[k].shows.media = "thumb" => fullMedia' # "no" \/ events[k].shows.media = "thumb"
  <2>1. CASE \E i \in edited \ sentNew : RowOf(i).MXID = k
    <3> DEFINE i == CHOOSE i \in edited \ sentNew : RowOf(i).MXID = k
    <3>1. i \in edited
      BY <2>1
    <3>2. shown[k] = [events[k] EXCEPT !.shows = parts[i].shows]
      BY <1>3, <2>1
    <3>3. i \in 1..Len(parts)
      BY <1>2, <3>1
    <3> HIDE DEF i, shown
    <3>4. Shown(parts[i].shows)
      BY <1>2, <3>3
    <3>5. shown[k] \in MatrixEvent /\ shown[k].shows = parts[i].shows
      BY <1>3, <3>2, <3>4 DEF MatrixEvent
    <3>6. QED
      BY <3>4, <3>5
  <2>2. CASE ~\E i \in edited \ sentNew : RowOf(i).MXID = k
    <3>1. shown[k] = Redacted(deleted)[k]
      BY <1>3, <2>2
    <3> HIDE DEF shown
    <3>2. QED
      BY <1>4, <3>1
  <2>3. QED
    BY <2>1, <2>2
<1>6. shown \in Seq(MatrixEvent) /\ Len(shown) = Len(events)
  <2>1. DOMAIN shown = 1..Len(events) /\ shown = [k \in 1..Len(events) |-> shown[k]]
    BY <1>3
  <2> HIDE DEF shown
  <2>2. shown \in [1..Len(events) -> MatrixEvent]
    BY <1>5, <2>1
  <2>3. shown \in Seq(MatrixEvent)
    BY <1>3, <2>2, SeqDef
  <2>4. QED
    BY <1>3, <2>1, <2>3, LenProperties
<1>7. sentNew \in SUBSET (1..2) /\ sentNew \subseteq 1..Len(parts)
  <2>1. sentNew \subseteq DOMAIN parts
    OBVIOUS
  <2> HIDE DEF sentNew
  <2>2. QED
    BY <1>2, <2>1
<1>8. Cardinality(sentNew) \in Nat
  <2> HIDE DEF sentNew
  <2>1. IsFiniteSet(1..2)
    <3>1. 1 \in Int /\ 2 \in Int
      OBVIOUS
    <3>2. QED
      BY <3>1, FS_Interval, Zenon
  <2>2. IsFiniteSet(sentNew)
    BY <1>7, <2>1, FS_Subset
  <2>3. QED
    BY <2>2, FS_CardinalityType
<1>9. ASSUME NEW n \in 1..Cardinality(sentNew)
      PROVE  fresh[n] \in MatrixEvent /\ Shown(fresh[n].shows)
  <2> DEFINE i == CHOOSE i \in sentNew : MXIDOf(i) = Len(events) + n
  <2>1. \E j \in sentNew : MXIDOf(j) = Len(events) + n
    <3> HIDE DEF sentNew
    <3>1. PICK j \in sentNew : Cardinality({m \in sentNew : m <= j}) = n
      BY <1>7, RankIs
    <3>2. QED
      BY <3>1
  <2>2. i \in sentNew
    <3> HIDE DEF sentNew, MXIDOf
    <3>1. QED
      BY <2>1
  <2>3. fresh[n] = NewEvent(p, parts[i])
    OBVIOUS
  <2> HIDE DEF i, sentNew, fresh
  <2>4. Shown(parts[i].shows)
    BY <1>2, <1>7, <2>2
  <2>5. fresh[n] = [room |-> p, gone |-> FALSE, user |-> FALSE, shows |-> parts[i].shows]
    BY <2>3 DEF NewEvent
  <2>6. fresh[n] \in MatrixEvent /\ fresh[n].shows = parts[i].shows
    BY <2>4, <2>5 DEF MatrixEvent
  <2>7. QED
    BY <2>4, <2>6
<1>10. fresh \in Seq(MatrixEvent) /\ Len(fresh) = Cardinality(sentNew)
  <2>1. DOMAIN fresh = 1..Cardinality(sentNew) /\ fresh = [n \in 1..Cardinality(sentNew) |-> fresh[n]]
    OBVIOUS
  <2> HIDE DEF fresh, sentNew
  <2>2. fresh \in [1..Cardinality(sentNew) -> MatrixEvent]
    BY <1>9, <2>1
  <2>3. fresh \in Seq(MatrixEvent)
    BY <1>8, <2>2, SeqDef
  <2>4. QED
    BY <1>8, <2>1, <2>3, LenProperties
<1> HIDE DEF shown, fresh, sentNew
<1>11. /\ events' \in Seq(MatrixEvent) /\ Len(events') = Len(events) + Len(fresh) /\ Len(fresh) \in Nat
       /\ \A i \in 1..Len(events) + Len(fresh) :
             events'[i] = IF i <= Len(events) THEN shown[i] ELSE fresh[i - Len(events)]
  BY <1>1, <1>6, <1>10, ConcatProperties, LenProperties
<1>12. ASSUME NEW i \in 1..Len(events'), events'[i].shows.media = "thumb"
       PROVE  fullMedia' # "no" \/ \E k \in 1..Len(events) : events[k].shows.media = "thumb"
  <2>1. CASE i <= Len(events)
    <3>1. i \in 1..Len(events) /\ events'[i] = shown[i]
      BY <1>3, <1>11, <2>1
    <3>2. QED
      BY <1>5, <1>12, <3>1
  <2>2. CASE ~(i <= Len(events))
    <3>1. PICK n \in 1..Len(fresh) : events'[i] = fresh[n]
      <4>1. i - Len(events) \in 1..Len(fresh) /\ events'[i] = fresh[i - Len(events)]
        BY <1>3, <1>11, <2>2
      <4>2. QED
        BY <4>1
    <3>2. QED
      BY <1>9, <1>10, <1>12, <3>1
  <2>3. QED
    BY <2>1, <2>2
<1>13. fullMedia # "no" => fullMedia' # "no"
  BY <1>1, FullMediaKept
<1>14. Len(events') >= Len(events)
  BY <1>3, <1>11
<1>15. QED
  BY <1>1, <1>11, <1>12, <1>13, <1>14 DEF EventsStep, v
-----------------------------------------------------------------------------
LEMMA PhoneKept == ASSUME PhoneType, UNCHANGED <<scenario, phone, queue>> PROVE PhoneType'
  BY DEF PhoneType

LEMMA HandlersKept == ASSUME HandlerType, UNCHANGED handler PROVE HandlerType'
  BY DEF HandlerType

LEMMA ShownKept ==
  ASSUME ShownType, ThumbInv, UNCHANGED <<scenario, events, fullMedia, restarts>>,
         pending' => pending, send' # "sending" \/ UNCHANGED send
  PROVE  ShownType' /\ ThumbInv'
  BY DEF ShownType, ThumbInv

LEMMA ShownGrows ==
  ASSUME ShownType, ThumbInv, EventsStep, UNCHANGED <<scenario, send>>, pending' => pending,
         Len(events') >= Len(events), fullMedia' \in {"no", "asked", "granted", "failed"}
  PROVE  ShownType' /\ ThumbInv'
<1>1. events \in Seq(MatrixEvent) /\ events' \in Seq(MatrixEvent) /\ restarts' = restarts
  BY DEF ShownType, EventsStep
<1>2. Len(events) \in Nat /\ Len(events') \in Nat /\ (events # <<>> => Len(events) > 0)
      /\ (events' = <<>> => Len(events') = 0)
  BY <1>1, LenProperties, EmptySeq
<1>3. events # <<>> => events' # <<>>
  BY <1>2
<1>4. QED
  BY <1>1, <1>3, ThumbInvStep DEF ShownType

(* The head of a queue is a version of the phone's.                        *)
LEMMA HeadIs ==
  ASSUME PhoneType, NEW p \in Convs, queue[p] # <<>>, queue' = [queue EXCEPT ![p] = Tail(@)],
         UNCHANGED <<scenario, phone>>
  PROVE  PhoneType' /\ phone[Head(queue[p])] \in MessageType /\ Head(queue[p]) \in 1..Len(phone)
<1>1. queue[p] \in Seq(Nat) /\ queue \in [Convs -> Seq(Nat)] /\ phone \in Seq(MessageType)
  BY DEF PhoneType
<1>2. /\ Tail(queue[p]) \in Seq(Nat) /\ Len(queue[p]) \in Nat /\ Len(Tail(queue[p])) = Len(queue[p]) - 1
      /\ Len(queue[p]) > 0
      /\ \A i \in 1..Len(Tail(queue[p])) : Tail(queue[p])[i] = queue[p][i + 1]
  BY <1>1, HeadTailProperties, LenProperties, EmptySeq
<1>3. Head(queue[p]) = queue[p][1] /\ 1 \in 1..Len(queue[p])
  BY <1>1, <1>2
<1>4. Head(queue[p]) \in 1..Len(phone)
  BY <1>3 DEF PhoneType
<1>5. phone[Head(queue[p])] \in MessageType
  BY <1>1, <1>4, LenProperties
<1>6. queue' \in [Convs -> Seq(Nat)] /\ \A q \in Convs : queue'[q] = IF q = p THEN Tail(queue[p]) ELSE queue[q]
  BY <1>1, <1>2
<1>7. \A i \in 1..Len(Tail(queue[p])) : Tail(queue[p])[i] \in 1..Len(phone)
  <2>1. \A i \in 1..Len(Tail(queue[p])) : i + 1 \in 1..Len(queue[p])
    BY <1>2
  <2>2. QED
    BY <1>2, <2>1 DEF PhoneType
<1>8. \A q \in Convs : \A i \in 1..Len(queue'[q]) : queue'[q][i] \in 1..Len(phone)
  BY <1>6, <1>7 DEF PhoneType
<1>9. QED
  BY <1>1, <1>4, <1>5, <1>6, <1>8 DEF PhoneType

LEMMA StartIs ==
  ASSUME HandlerType, NEW p \in Convs, NEW place, NEW v \in MessageType, NEW copy, Start(p, place, v, copy)
  PROVE  HandlerType'
<1> DEFINE new == [pc |-> place, v |-> v, rows |-> copy, resync |-> FALSE]
<1>1. handler' = [handler EXCEPT ![p] = new]
  BY DEF Start
<1>2. DOMAIN new = {"pc", "v", "rows", "resync"} /\ new.v \in MessageType
  OBVIOUS
<1> HIDE DEF new
<1>3. QED
  BY <1>1, <1>2 DEF HandlerType

LEMMA OutgoingIs == ASSUME PhoneType, scenario.outgoing PROVE Outgoing \in MessageType
<1>1. scenario \in Scenarios
  BY DEF PhoneType
<1>2. \E v \in scenario.versions : v.Status = OUTGOING_SENDING
  BY <1>1, ScenarioAssumption
<1>3. Outgoing \in scenario.versions
  BY <1>2, Zenon DEF Outgoing
<1>4. QED
  BY <1>1, <1>3, ScenarioAssumption

(* A version is added to the phone's and to a queue.                       *)
LEMMA PhoneGrows ==
  ASSUME PhoneType, NEW v \in MessageType, UNCHANGED scenario, phone' = Append(phone, v),
         queue' = [queue EXCEPT ![v.ConversationID] = Append(@, Len(phone) + 1)]
  PROVE  PhoneType'
<1> DEFINE c == v.ConversationID
<1>1. c \in Convs
  BY DEF MessageType
<1>2. phone \in Seq(MessageType) /\ Len(phone) \in Nat /\ queue \in [Convs -> Seq(Nat)]
  BY LenProperties DEF PhoneType
<1>3. phone' \in Seq(MessageType) /\ Len(phone') = Len(phone) + 1
  BY <1>2
<1> HIDE DEF c
<1>4. queue[c] \in Seq(Nat) /\ Len(phone) + 1 \in Nat
  BY <1>1, <1>2
<1>5. /\ Append(queue[c], Len(phone) + 1) \in Seq(Nat) /\ Len(queue[c]) \in Nat
      /\ Len(Append(queue[c], Len(phone) + 1)) = Len(queue[c]) + 1
      /\ \A i \in 1..Len(queue[c]) : Append(queue[c], Len(phone) + 1)[i] = queue[c][i]
      /\ Append(queue[c], Len(phone) + 1)[Len(queue[c]) + 1] = Len(phone) + 1
  BY <1>4, AppendProperties, LenProperties
<1>6. /\ queue' \in [Convs -> Seq(Nat)]
      /\ \A q \in Convs : queue'[q] = IF q = c THEN Append(queue[c], Len(phone) + 1) ELSE queue[q]
  <2>1. queue' = [queue EXCEPT ![c] = Append(queue[c], Len(phone) + 1)]
    BY DEF c
  <2>2. QED
    BY <1>1, <1>2, <1>5, <2>1
<1>7. ASSUME NEW q \in Convs, NEW i \in 1..Len(queue'[q])
      PROVE  queue'[q][i] \in 1..Len(phone')
  <2>1. \A n \in 1..Len(phone) : n \in 1..Len(phone')
    BY <1>2, <1>3
  <2>2. Len(phone) + 1 \in 1..Len(phone')
    BY <1>2, <1>3
  <2>3. CASE q = c
    <3>1. i \in 1..Len(queue[c]) \/ i = Len(queue[c]) + 1
      BY <1>5, <1>6, <1>7, <2>3
    <3>2. \A n \in 1..Len(queue[c]) : queue[c][n] \in 1..Len(phone)
      BY <1>1 DEF PhoneType
    <3>3. QED
      BY <1>1, <1>5, <1>6, <2>1, <2>2, <2>3, <3>1, <3>2
  <2>4. CASE q # c
    BY <1>6, <1>7, <2>1, <2>4 DEF PhoneType
  <2>5. QED
    BY <2>3, <2>4
<1>8. QED
  BY <1>3, <1>6, <1>7 DEF PhoneType

LEMMA EchoInvStep == ASSUME MessageInv, NEW p \in Convs, ClaimEcho(p) PROVE MessageInv'
<1> DEFINE v == phone[Head(queue[p])]
           row == Row("", p, IF scenario.reid THEN 2 ELSE 1, v, handleRemoteEcho(v))
<1>1. /\ queue[p] # <<>> /\ queue' = [queue EXCEPT ![p] = Tail(@)] /\ UNCHANGED <<scenario, phone, send>>
      /\ pending /\ ~pending' /\ Start(p, "existing", v, {row}) /\ UNCHANGED <<fullMedia, restarts>>
  BY DEF ClaimEcho
<1>2. events' = IF scenario.reid THEN <<[events[1] EXCEPT !.gone = TRUE], events[1]>> ELSE events
  BY DEF ClaimEcho
<1>3. PhoneType' /\ v \in MessageType
  BY <1>1, HeadIs DEF MessageInv
<1> HIDE DEF v, row
<1>4. HandlerType'
  BY <1>1, <1>3, StartIs DEF MessageInv
<1>5. events \in Seq(MatrixEvent) /\ events # <<>>
  BY <1>1 DEF MessageInv, ShownType
<1>6. 1 \in 1..Len(events) /\ events[1] \in MatrixEvent
  <2>1. Len(events) \in Nat \ {0}
    BY <1>5, EmptySeq
  <2>2. QED
    BY <1>5, <2>1, LenProperties
<1>7. CASE ~scenario.reid
  <2>1. events' = events
    BY <1>2, <1>7
  <2>2. ShownType' /\ ThumbInv'
    BY <1>1, <2>1, ShownKept DEF MessageInv
  <2>3. QED
    BY <1>3, <1>4, <2>2 DEF MessageInv
<1>8. CASE scenario.reid
  <2> DEFINE a == [events[1] EXCEPT !.gone = TRUE]
             b == events[1]
  <2>1. a \in MatrixEvent /\ b \in MatrixEvent /\ a.shows = b.shows
    BY <1>6 DEF MatrixEvent
  <2>2. events' = <<a, b>>
    BY <1>2, <1>8
  <2> HIDE DEF a
  <2>3. /\ events' \in Seq(MatrixEvent) /\ Len(events') = 2 /\ events'[1] = a /\ events'[2] = b
        /\ \A i \in 1..2 : i = 1 \/ i = 2
    BY <2>1, <2>2
  <2>4. \A i \in 1..Len(events') : events'[i].shows = events[1].shows
    BY <2>1, <2>3
  <2>5. EventsStep
    BY <1>1, <1>6, <2>3, <2>4 DEF EventsStep
  <2>6. ThumbInv'
    BY <2>5, ThumbInvStep DEF MessageInv
  <2>7. ShownType'
    BY <1>1, <2>3 DEF MessageInv, ShownType
  <2>8. QED
    BY <1>3, <1>4, <2>6, <2>7 DEF MessageInv
<1>9. QED
  BY <1>7, <1>8

LEMMA NewInvStep ==
  ASSUME MessageInv, NEW p \in Convs, NEW ok \in BOOLEAN, ConvertMessage(p, ok)
  PROVE  MessageInv'
<1> DEFINE v == handler[p].v
           parts == ConvertGoogleMessage(v, TRUE, ok)
           fresh == [i \in DOMAIN parts |-> NewEvent(p, parts[i])]
<1>1. /\ handler[p].pc = "new" /\ events' = events \o fresh /\ fullMedia' = FullMediaAfter(v, ok) /\ Done(p)
      /\ UNCHANGED <<scenario, phone, queue, pending, send, restarts>>
  BY DEF ConvertMessage, sending
<1>2. PhoneType'
  BY <1>1, PhoneKept DEF MessageInv
<1>3. HandlerType' /\ v \in MessageType
  <2>1. handler[p].pc # "idle"
    BY <1>1
  <2>2. QED
    BY <1>1, <2>1, HandlerSteps DEF MessageInv, Done, HandlerType
<1>4. /\ Len(parts) \in 0..2 /\ DOMAIN parts = 1..Len(parts)
      /\ \A i \in 1..Len(parts) : /\ parts[i].shows \in Shows
                                  /\ parts[i].shows.media = "thumb" => v.media = "thumb" /\ ok
  <2>1. TRUE \in BOOLEAN
    OBVIOUS
  <2>2. QED
    BY <1>3, <2>1, PartsAre
<1>5. /\ fullMedia # "no" => fullMedia' # "no"
      /\ (v.media = "thumb" /\ ok) => fullMedia' # "no"
      /\ fullMedia' \in {"no", "asked", "granted", "failed"}
  BY <1>1, FullMediaKept DEF MessageInv, ShownType
<1> HIDE DEF parts, v
<1>6. \A i \in 1..Len(parts) : fresh[i] \in MatrixEvent /\ fresh[i].shows = parts[i].shows
  <2> SUFFICES ASSUME NEW i \in 1..Len(parts) PROVE fresh[i] \in MatrixEvent /\ fresh[i].shows = parts[i].shows
    OBVIOUS
  <2>1. fresh[i] = [room |-> p, gone |-> FALSE, user |-> FALSE, shows |-> parts[i].shows]
    BY <1>4 DEF NewEvent
  <2>2. parts[i].shows \in Shows
    BY <1>4
  <2> HIDE DEF fresh
  <2>3. QED
    BY <2>1, <2>2 DEF MatrixEvent
<1>7. fresh \in Seq(MatrixEvent) /\ Len(fresh) = Len(parts)
  <2>1. DOMAIN fresh = 1..Len(parts) /\ fresh = [i \in 1..Len(parts) |-> fresh[i]] /\ Len(parts) \in Nat
    BY <1>4
  <2> HIDE DEF fresh
  <2>2. fresh \in [1..Len(parts) -> MatrixEvent]
    BY <1>6, <2>1
  <2>3. fresh \in Seq(MatrixEvent)
    BY <2>1, <2>2, SeqDef
  <2>4. QED
    BY <2>1, <2>3, LenProperties
<1> HIDE DEF fresh
<1>8. events \in Seq(MatrixEvent)
  BY DEF MessageInv, ShownType
<1>9. /\ events' \in Seq(MatrixEvent) /\ Len(events') = Len(events) + Len(fresh)
      /\ Len(fresh) \in Nat /\ Len(events) \in Nat
      /\ \A i \in 1..Len(events) + Len(fresh) :
            events'[i] = IF i <= Len(events) THEN events[i] ELSE fresh[i - Len(events)]
  <2>1. Len(fresh) \in Nat /\ Len(events) \in Nat
    BY <1>7, <1>8, LenProperties
  <2>2. events' = events \o fresh
    BY <1>1
  <2>3. QED
    BY <1>7, <1>8, <2>1, <2>2, ConcatProperties
<1>10. ASSUME NEW i \in 1..Len(events'), events'[i].shows.media = "thumb"
       PROVE  fullMedia' # "no" \/ \E k \in 1..Len(events) : events[k].shows.media = "thumb"
  <2>1. CASE i <= Len(events)
    <3>1. i \in 1..Len(events) /\ events'[i] = events[i]
      BY <1>9, <2>1
    <3>2. QED
      BY <1>10, <3>1
  <2>2. CASE ~(i <= Len(events))
    <3>1. PICK n \in 1..Len(parts) : events'[i] = fresh[n]
      <4>1. i - Len(events) \in 1..Len(fresh) /\ events'[i] = fresh[i - Len(events)]
        BY <1>9, <2>2
      <4>2. QED
        BY <1>7, <4>1
    <3>2. QED
      BY <1>4, <1>5, <1>6, <1>10, <3>1
  <2>3. QED
    BY <2>1, <2>2
<1>11. EventsStep /\ Len(events') >= Len(events)
  BY <1>1, <1>5, <1>9, <1>10 DEF EventsStep
<1>12. ShownType' /\ ThumbInv'
  BY <1>1, <1>5, <1>11, ShownGrows DEF MessageInv
<1>13. QED
  BY <1>2, <1>3, <1>12 DEF MessageInv

(* The events of a copy are redacted, or nothing is shown anew.            *)
LEMMA RedactInvStep ==
  ASSUME MessageInv, UNCHANGED <<scenario, phone, queue, pending, send, fullMedia, restarts>>, HandlerType',
         events' = events \/ \E copy : events' = Redacted(copy)
  PROVE  MessageInv'
<1>1. PhoneType'
  BY PhoneKept DEF MessageInv
<1>2. CASE events' = events
  <2>1. ShownType' /\ ThumbInv'
    BY <1>2, ShownKept DEF MessageInv
  <2>2. QED
    BY <1>1, <2>1 DEF MessageInv
<1>3. ASSUME NEW copy, events' = Redacted(copy) PROVE MessageInv'
  <2>1. events \in Seq(MatrixEvent) /\ fullMedia' \in {"no", "asked", "granted", "failed"}
    BY DEF MessageInv, ShownType
  <2>2. /\ events' \in Seq(MatrixEvent) /\ Len(events') = Len(events)
        /\ \A i \in 1..Len(events) : events'[i].shows = events[i].shows
    BY <1>3, <2>1, RedactedIs
  <2>3. Len(events) \in Nat
    BY <2>1, LenProperties
  <2>4. EventsStep /\ Len(events') >= Len(events)
    BY <2>2, <2>3 DEF EventsStep
  <2>5. ShownType' /\ ThumbInv'
    BY <2>1, <2>4, ShownGrows DEF MessageInv
  <2>6. QED
    BY <1>1, <2>5 DEF MessageInv
<1>4. QED
  BY <1>2, <1>3

LEMMA ExistingInvStep == ASSUME MessageInv, NEW p \in Convs, HandleExisting(p) PROVE MessageInv'
<1> DEFINE v == handler[p].v
           copy == handler[p].rows
           main == Main(copy)
           changed == [main EXCEPT !.meta = MetaAfter(main.meta, v, p)]
<1>1. /\ handler[p].pc = "existing"
      /\ UNCHANGED <<scenario, phone, queue, pending, send, fullMedia, restarts>>
  BY DEF HandleExisting, sending
<1>2. handler[p].pc # "idle"
  BY <1>1
<1>3. CASE NothingChanged(copy, v, p)
  <2>1. handler' = [handler EXCEPT ![p].pc = "reactions"] /\ events' = events
    BY <1>3 DEF HandleExisting
  <2>2. HandlerType'
    BY <1>2, <2>1, HandlerSteps DEF MessageInv
  <2>3. QED
    BY <1>1, <2>1, <2>2, RedactInvStep
<1>4. CASE ~NothingChanged(copy, v, p)
  <2>1. /\ events' = IF chatIDChanged(copy, p) /\ main.Room \in rooms THEN Redacted(copy) ELSE events
        /\ handler' = [handler EXCEPT ![p].pc = "save", ![p].rows = (copy \ {main}) \cup {changed},
                                      ![p].resync = doMessageResync(copy, v, p)]
    BY <1>4 DEF HandleExisting
  <2> HIDE DEF copy, main, changed, v
  <2>2. HandlerType'
    BY <1>2, <2>1, HandlerSteps DEF MessageInv
  <2>3. events' = events \/ events' = Redacted(copy)
    BY <2>1
  <2>4. QED
    BY <1>1, <2>2, <2>3, RedactInvStep
<1>5. QED
  BY <1>3, <1>4

LEMMA PortalInvStep == ASSUME MessageInv, NEW p \in Convs, PortalStep(p) PROVE MessageInv'
<1>1. CASE Begin(p)
  <2> DEFINE v == phone[Head(queue[p])]
  <2>1. /\ queue[p] # <<>> /\ queue' = [queue EXCEPT ![p] = Tail(@)]
        /\ UNCHANGED <<scenario, phone, events, pending, send, fullMedia, restarts>>
    BY <1>1 DEF Begin, sending
  <2>2. PhoneType' /\ v \in MessageType
    BY <2>1, HeadIs DEF MessageInv
  <2>3. UNCHANGED handler \/ \E place, copy : Start(p, place, v, copy)
    BY <1>1, Zenon DEF Begin
  <2> HIDE DEF v
  <2>4. HandlerType'
    BY <2>2, <2>3, HandlersKept, StartIs DEF MessageInv
  <2>5. ShownType' /\ ThumbInv'
    BY <2>1, ShownKept DEF MessageInv
  <2>6. QED
    BY <2>2, <2>4, <2>5 DEF MessageInv
<1>2. CASE HandleExistingIgnores(p) \/ HandleEditPanics(p) \/ SyncReactions(p) \/ NewIgnored(p)
  <2>1. /\ handler[p].pc # "idle" /\ handler' = [handler EXCEPT ![p] = Idle]
        /\ UNCHANGED <<scenario, phone, queue, events, pending, send, fullMedia, restarts>>
    BY <1>2 DEF HandleExistingIgnores, HandleEditPanics, SyncReactions, NewIgnored, Done, sending, matrix
  <2>2. HandlerType'
    BY <2>1, HandlerSteps DEF MessageInv
  <2>3. QED
    BY <2>1, <2>2, RedactInvStep
<1>3. CASE HandleExistingResends(p)
  <2>1. /\ handler[p].pc # "idle" /\ handler' = [handler EXCEPT ![p].pc = "new", ![p].rows = {}]
        /\ UNCHANGED <<scenario, phone, queue, events, pending, send, fullMedia, restarts>>
    BY <1>3 DEF HandleExistingResends, sending, matrix
  <2>2. HandlerType'
    BY <2>1, HandlerSteps DEF MessageInv
  <2>3. QED
    BY <2>1, <2>2, RedactInvStep
<1>4. CASE SaveParts(p)
  <2>1. /\ handler[p].pc # "idle"
        /\ handler' = [handler EXCEPT ![p].pc = IF handler[p].resync THEN "edit" ELSE "reactions"]
        /\ UNCHANGED <<scenario, phone, queue, events, pending, send, fullMedia, restarts>>
    BY <1>4 DEF SaveParts, sending, matrix
  <2>2. HandlerType'
    BY <2>1, HandlerSteps DEF MessageInv
  <2>3. QED
    BY <2>1, <2>2, RedactInvStep
<1>5. CASE HandleEdit(p)
  <2>1. /\ handler[p].pc # "idle" /\ handler' = [handler EXCEPT ![p].pc = "reactions"]
        /\ UNCHANGED <<scenario, phone, queue, pending, send, restarts>>
    BY <1>5 DEF HandleEdit, sending
  <2>2. PICK ok \in BOOLEAN : ConvertEdit(p, ok)
    BY <1>5 DEF HandleEdit
  <2>3. HandlerType' /\ handler[p].v \in MessageType
    BY <2>1, HandlerSteps DEF MessageInv, HandlerType
  <2>4. events \in Seq(MatrixEvent) /\ fullMedia \in {"no", "asked", "granted", "failed"}
    BY DEF MessageInv, ShownType
  <2>5. EventsStep /\ fullMedia' = FullMediaAfter(handler[p].v, ok) /\ Len(events') >= Len(events)
    BY <2>1, <2>2, <2>3, <2>4, EditEvents
  <2>6. fullMedia' \in {"no", "asked", "granted", "failed"}
    BY <2>4, <2>5, FullMediaKept
  <2>7. ShownType' /\ ThumbInv'
    BY <2>1, <2>5, <2>6, ShownGrows DEF MessageInv
  <2>8. PhoneType'
    BY <2>1, PhoneKept DEF MessageInv
  <2>9. QED
    BY <2>3, <2>7, <2>8 DEF MessageInv
<1>6. CASE Remove(p)
  <2>1. /\ handler[p].pc # "idle" /\ handler' = [handler EXCEPT ![p] = Idle]
        /\ events' = Redacted(handler[p].rows)
        /\ UNCHANGED <<scenario, phone, queue, pending, send, fullMedia, restarts>>
    BY <1>6 DEF Remove, Done, sending
  <2>2. HandlerType'
    BY <2>1, HandlerSteps DEF MessageInv
  <2>3. QED
    BY <2>1, <2>2, RedactInvStep
<1>7. QED
  BY <1>1, <1>2, <1>3, <1>4, <1>5, <1>6, EchoInvStep, NewInvStep, ExistingInvStep DEF PortalStep

LEMMA MessageInvStep == MessageInv /\ [Next]_vars => MessageInv'
<1> SUFFICES ASSUME MessageInv, [Next]_vars PROVE MessageInv'
  OBVIOUS
<1>1. ASSUME NEW v \in scenario.versions, PhoneUpdate(v) PROVE MessageInv'
  <2>1. /\ phone' = Append(phone, v) /\ queue' = [queue EXCEPT ![v.ConversationID] = Append(@, Len(phone) + 1)]
        /\ UNCHANGED <<scenario, handler, events, pending, send, fullMedia, restarts>>
    BY <1>1 DEF PhoneUpdate, sending, matrix
  <2>2. v \in MessageType
    BY ScenarioAssumption DEF MessageInv, PhoneType
  <2>3. PhoneType'
    BY <2>1, <2>2, PhoneGrows DEF MessageInv
  <2>4. HandlerType' /\ ShownType' /\ ThumbInv'
    BY <2>1, HandlersKept, ShownKept DEF MessageInv
  <2>5. QED
    BY <2>3, <2>4 DEF MessageInv
<1>2. ASSUME UNCHANGED <<scenario, phone, queue, handler, events, fullMedia, restarts>>,
             pending' => pending, send' # "sending" \/ UNCHANGED send
      PROVE  MessageInv'
  <2>1. PhoneType' /\ HandlerType'
    BY <1>2, PhoneKept, HandlersKept DEF MessageInv
  <2>2. ShownType' /\ ThumbInv'
    BY <1>2, ShownKept DEF MessageInv
  <2>3. QED
    BY <2>1, <2>2 DEF MessageInv
<1>3. CASE Age \/ SendOK \/ SendFailed
  <2>1. /\ UNCHANGED <<scenario, phone, queue, handler, events, fullMedia, restarts>>
        /\ pending' => pending
        /\ send' # "sending" \/ UNCHANGED send
    <3>1. CASE Age
      BY <3>1 DEF Age, sending, matrix
    <3>2. CASE SendOK
      BY <3>2 DEF SendOK, matrix
    <3>3. CASE SendFailed
      BY <3>3 DEF SendFailed
    <3>4. QED
      BY <1>3, <3>1, <3>2, <3>3
  <2>2. QED
    BY <1>2, <2>1
<1>4. CASE FullMediaResponse
  <2>1. /\ fullMedia = "asked" /\ fullMedia' \in {"granted", "failed"}
        /\ UNCHANGED <<scenario, phone, queue, handler, events, pending, send, restarts>>
    BY <1>4 DEF FullMediaResponse, sending, matrix
  <2>2. PhoneType' /\ HandlerType'
    BY <2>1, PhoneKept, HandlersKept DEF MessageInv
  <2>3. ShownType' /\ ThumbInv'
    BY <2>1 DEF MessageInv, ShownType, ThumbInv
  <2>4. QED
    BY <2>2, <2>3 DEF MessageInv
<1>5. CASE HandleMatrixMessage
  <2> DEFINE e == [room |-> Outgoing.ConversationID, gone |-> FALSE, user |-> TRUE,
                   shows |-> getTextPart(Outgoing).shows]
  <2>1. /\ scenario.outgoing /\ events' = <<e>>
        /\ UNCHANGED <<scenario, phone, queue, handler, fullMedia, restarts>>
    BY <1>5 DEF HandleMatrixMessage
  <2>2. Outgoing \in MessageType
    BY <2>1, OutgoingIs DEF MessageInv
  <2>3. Outgoing.ConversationID \in Convs /\ Outgoing.Status \in Int
    BY <2>2 DEF MessageType
  <2>4. getTextPart(Outgoing).shows \in Shows /\ getTextPart(Outgoing).shows.media = "none"
    <3>1. getTextPart(Outgoing).shows =
            [text |-> Outgoing.text, note |-> downloadPendingStatusMessage(Outgoing.Status), media |-> "none"]
      BY DEF getTextPart
    <3>2. /\ Outgoing.text \in Texts /\ downloadPendingStatusMessage(Outgoing.Status) \in Notes
          /\ "none" \in MediaShown
      BY <2>2, <2>3 DEF Texts, Notes, MediaShown
    <3>3. QED
      BY <3>1, <3>2, ShowsAre
  <2>5. e \in MatrixEvent /\ e.shows.media = "none"
    BY <2>3, <2>4 DEF MatrixEvent
  <2> HIDE DEF e
  <2>6. /\ events' \in Seq(MatrixEvent) /\ events' # <<>> /\ Len(events') = 1 /\ events'[1] = e
        /\ \A i \in 1..1 : i = 1
    BY <2>1, <2>5
  <2>7. ShownType' /\ ThumbInv'
    BY <2>1, <2>5, <2>6 DEF MessageInv, ShownType, ThumbInv
  <2>8. PhoneType' /\ HandlerType'
    BY <2>1, PhoneKept, HandlersKept DEF MessageInv
  <2>9. QED
    BY <2>7, <2>8 DEF MessageInv
<1>6. CASE PhoneTakes
  <2>1. /\ send = "sending" /\ send' = "taken" /\ phone = <<>> /\ phone' = <<Outgoing>>
        /\ queue' = [queue EXCEPT ![Outgoing.ConversationID] = Append(@, 1)]
        /\ UNCHANGED <<scenario, handler, events, pending, fullMedia, restarts>>
    BY <1>6 DEF PhoneTakes, matrix
  <2>2. Outgoing \in MessageType
    BY <2>1, OutgoingIs DEF MessageInv, ShownType
  <2>3. PICK v \in MessageType : v = Outgoing
    BY <2>2
  <2>4. Append(phone, v) = <<v>> /\ Len(phone) + 1 = 1
    BY <2>1
  <2>5. PhoneType'
    <3>1. phone' = Append(phone, v) /\ queue' = [queue EXCEPT ![v.ConversationID] = Append(@, Len(phone) + 1)]
      BY <2>1, <2>3, <2>4
    <3>2. QED
      BY <2>1, <3>1, PhoneGrows DEF MessageInv
  <2>6. HandlerType' /\ ShownType' /\ ThumbInv'
    BY <2>1, HandlersKept, ShownKept DEF MessageInv
  <2>7. QED
    BY <2>5, <2>6 DEF MessageInv
<1>7. CASE Restart
  <2>1. /\ restarts' = restarts + 1 /\ queue' = [p \in Convs |-> <<>>] /\ handler' = [p \in Convs |-> Idle]
        /\ pending' = FALSE /\ fullMedia' = "no" /\ (send' # "sending") /\ UNCHANGED <<scenario, phone, events>>
    BY <1>7 DEF Restart, matrix
  <2>2. restarts \in Nat /\ events' \in Seq(MatrixEvent)
    BY <2>1 DEF MessageInv, ShownType
  <2>3. restarts' \in Nat /\ restarts' # 0
    BY <2>1, <2>2
  <2>4. ShownType' /\ ThumbInv'
    BY <2>1, <2>2, <2>3 DEF ShownType, ThumbInv
  <2>5. DOMAIN Idle = {"pc", "v", "rows", "resync"} /\ Idle.pc = "idle"
    BY DEF Idle
  <2>6. HandlerType'
    BY <2>1, <2>5 DEF HandlerType
  <2>7. PhoneType'
    <3>1. Len(<<>>) = 0 /\ 1..0 = {} /\ \A S : <<>> \in Seq(S)
      OBVIOUS
    <3>2. queue' \in [Convs -> Seq(Nat)] /\ \A p \in Convs : queue'[p] = <<>>
      BY <2>1, <3>1
    <3>3. scenario' \in Scenarios /\ phone' \in Seq(MessageType)
      BY <2>1 DEF MessageInv, PhoneType
    <3>4. QED
      BY <3>1, <3>2, <3>3 DEF PhoneType
  <2>8. QED
    BY <2>4, <2>6, <2>7 DEF MessageInv
<1>8. CASE UNCHANGED vars
  <2>1. /\ UNCHANGED <<scenario, phone, queue, handler, events, fullMedia, restarts>>
        /\ pending' => pending
        /\ UNCHANGED send
    BY <1>8 DEF vars, sending, matrix
  <2>2. QED
    BY <1>2, <2>1
<1>9. QED
  BY <1>1, <1>3, <1>4, <1>5, <1>6, <1>7, <1>8, PortalInvStep DEF Next

LEMMA MessageInvSound == MessageInv => ThumbnailAsked
<1> SUFFICES ASSUME MessageInv, NEW i \in Visible, events[i].shows.media = "thumb", restarts = 0
             PROVE  fullMedia # "no"
  BY DEF ThumbnailAsked
<1>1. i \in DOMAIN events /\ events \in Seq(MatrixEvent)
  BY DEF Visible, MessageInv, ShownType
<1>2. i \in 1..Len(events)
  BY <1>1, LenProperties
<1>3. QED
  BY <1>2 DEF MessageInv, ThumbInv

(* Whatever versions of a message the phone sends, in however many chats,  *)
(* however edits, moves and redactions interleave in the two portals:      *)
(* while a thumbnail stands in for an attachment, the full file has been   *)
(* asked for (requestFullMedia in convertGoogleMedia).                     *)
THEOREM ThumbnailAskedThm == Spec => []ThumbnailAsked
<1>1. QED
  BY MessageInvInit, MessageInvStep, MessageInvSound, PTL DEF Spec
-----------------------------------------------------------------------------
(* What the user is told of a message, as long as it is of one chat.  A    *)
(* row has its fields; the flags are those of the metadata.                *)
MetaFields ==
    {"Type", "GlobalMediaStatus", "GlobalPartCount", "GlobalStatusText", "GroupReadBy",
     "TextHash", "MediaPartID", "MediaID", "MediaPending", "IsOutgoing", "MSSSent",
     "MSSFailSent", "MSSDeliverySent", "ReadReceiptSent", "OrigMXID"}
RowFields == {"PartID", "Room", "MXID", "rowid", "Timestamp", "meta"}
IsRow(r) == DOMAIN r = RowFields /\ DOMAIN r.meta = MetaFields /\ r.Timestamp \in Nat

(* The chat of a message that stays in it, the only one whose portal has   *)
(* anything to do, and the ID of the event the user's own row stands for.  *)
Chat == CHOOSE p \in Convs : \A v \in scenario.versions : v.ConversationID = p
UserMXID == IF scenario.reid THEN 2 ELSE 1

OnePortal == \A p \in Convs : p # Chat => handler[p].pc = "idle" /\ queue[p] = <<>>

(* The row of a message written in Matrix is the one claimed from the      *)
(* pending transaction and the only one; other rows are not the user's.    *)
Users(r) ==
    /\ r.PartID = "" /\ r.Room = Chat /\ r.MXID = UserMXID /\ r.rowid = UserMXID
    /\ r.meta.IsOutgoing = TRUE /\ (scenario.reid \/ r.meta.OrigMXID = 0)
Claimed(set) == \E r \in set : set = {r} /\ Users(r)
Foreign(set) == \A r \in set : r.meta.IsOutgoing = FALSE

(* The handler works on a version the phone sent, and on rows; the phone's *)
(* timestamps never go back.                                               *)
WorkInv ==
    /\ \A r \in rows \cup handler[Chat].rows : IsRow(r)
    /\ rows # {} => phone # <<>>
    /\ handler[Chat].pc \in {"existing", "save", "edit"} => handler[Chat].rows # {}
    /\ handler[Chat].pc = "remove" => handler[Chat].v.Status = MESSAGE_DELETED
    /\ handler[Chat].pc # "idle" => \E i \in 1..Len(phone) : handler[Chat].v = phone[i]
    /\ \A i \in 1..Len(phone) : phone[i].Timestamp <= phone[Len(phone)].Timestamp

(* Before the echo is claimed nothing has happened to the message.         *)
Untouched == rows = {} /\ handler[Chat].pc = "idle" /\ statuses = <<>>
PendingInv ==
    /\ (scenario.outgoing /\ send = "no") => (Untouched /\ ~pending /\ phone = <<>>)
    /\ pending => (Untouched /\ scenario.outgoing)

(* The handler's copy is of the kind the rows are.                         *)
CopyInv ==
    /\ Claimed(rows) \/ Foreign(rows)
    /\ handler[Chat].pc = "existing" => handler[Chat].rows = rows
    /\ handler[Chat].pc = "new" => rows = {}
    /\ handler[Chat].pc \in {"save", "edit"} =>
          \/ Claimed(rows) /\ Claimed(handler[Chat].rows)
          \/ Foreign(rows) /\ Foreign(handler[Chat].rows)
    /\ (handler[Chat].pc = "edit" /\ Claimed(rows)) => handler[Chat].rows = rows

(* The rows as they are once the handler has saved its copy; success was   *)
(* reported at most once for every start of the bridge, and once less      *)
(* while a row does not say so.                                            *)
Current == IF handler[Chat].pc = "save" THEN handler[Chat].rows ELSE rows
Unsent(set) == \E r \in set : r.meta.IsOutgoing = TRUE /\ ~r.meta.MSSSent
SuccessInv ==
    /\ \E S : statuses \in Seq(S)
    /\ Count("success") <= 1 + restarts
    /\ Unsent(Current) => Count("success") <= restarts

ChatInv == OnePortal /\ WorkInv /\ PendingInv /\ CopyInv /\ SuccessInv

(* While the message is what it was: its row was claimed unless the        *)
(* request failed, remembers a success, and names the user's event.        *)
Told == \E i \in 1..Len(statuses) : statuses[i].kind = "success"
LateInv ==
    /\ Told => (Claimed(Current) /\ ~Unsent(Current))
    /\ send \notin {"no", "failed"} => (pending \/ Claimed(rows))

(* As long as the content is the same, no edit forgets the ID of the       *)
(* user's event.                                                           *)
Same(r, v) ==
    /\ r.meta.OrigMXID = 1 /\ r.meta.GlobalMediaStatus = "" /\ r.meta.MediaPending = FALSE
    /\ r.meta.TextHash = v.text /\ r.meta.GlobalPartCount = MessageInfo(v)
SourceInv ==
    (scenario.reid /\ ~Edited /\ Claimed(rows)) =>
        /\ \A r \in Current : \A i \in 1..Len(phone) : Same(r, phone[i])
        /\ handler[Chat].pc # "edit"
        /\ handler[Chat].pc = "save" => ~handler[Chat].resync

KeptInv == Kept => LateInv /\ NoLateFailure /\ SourceInv /\ SourceIsUsers

StatusInv == Stays => ChatInv /\ KeptInv

LEMMA ChatIs ==
  ASSUME Stays, scenario \in Scenarios
  PROVE  Chat \in Convs /\ \A v \in scenario.versions : v.ConversationID = Chat
<1>1. \A v \in scenario.versions : v.ConversationID \in Convs
  BY ScenarioAssumption DEF MessageType
<1>2. \E p \in Convs : \A v \in scenario.versions : v.ConversationID = p
  <2>1. CASE scenario.versions = {}
    BY <2>1 DEF Convs
  <2>2. CASE scenario.versions # {}
    <3>1. PICK w \in scenario.versions : TRUE
      BY <2>2
    <3>2. QED
      BY <1>1, <3>1 DEF Stays
  <2>3. QED
    BY <2>1, <2>2
<1>3. QED
  BY <1>2, Zenon DEF Chat

LEMMA ScenarioKept ==
  ASSUME UNCHANGED scenario
  PROVE  /\ Chat' = Chat /\ UserMXID' = UserMXID /\ (Stays' <=> Stays)
         /\ \A set : (Claimed(set)' <=> Claimed(set))
<1>1. Chat' = Chat /\ UserMXID' = UserMXID /\ (Stays' <=> Stays)
  BY DEF Chat, UserMXID, Stays
<1>2. QED
  BY <1>1 DEF Claimed, Users

LEMMA MetaIs ==
  ASSUME NEW v
  PROVE  /\ DOMAIN MessageMetadata(v) = MetaFields
         /\ MessageMetadata(v).IsOutgoing = FALSE /\ MessageMetadata(v).OrigMXID = 0
         /\ MessageMetadata(v).GlobalMediaStatus = "" /\ MessageMetadata(v).MediaPending = FALSE
         /\ MessageMetadata(v).MSSSent = FALSE
<1>1. DOMAIN MessageMetadata(v) = MetaFields
  BY DEF MessageMetadata, MetaFields
<1>2. /\ MessageMetadata(v).IsOutgoing = FALSE /\ MessageMetadata(v).OrigMXID = 0
      /\ MessageMetadata(v).GlobalMediaStatus = "" /\ MessageMetadata(v).MediaPending = FALSE
      /\ MessageMetadata(v).MSSSent = FALSE
  BY DEF MessageMetadata
<1>3. QED
  BY <1>1, <1>2

(* The row made from the pending transaction.                              *)
LEMMA EchoIs ==
  ASSUME NEW v \in MessageType
  PROVE  LET row == Row("", Chat, UserMXID, v, handleRemoteEcho(v)) IN
         /\ IsRow(row) /\ Users(row) /\ row.meta.MSSSent = FALSE
         /\ scenario.reid => row.meta.OrigMXID = 1
         /\ row.meta.GlobalMediaStatus = "" /\ row.meta.MediaPending = FALSE
         /\ row.meta.TextHash = v.text /\ row.meta.GlobalPartCount = MessageInfo(v)
<1> DEFINE m0 == MessageMetadata(v)
           m == handleRemoteEcho(v)
           row == Row("", Chat, UserMXID, v, m)
           info == MessageInfo(v)
<1>1. /\ DOMAIN m0 = MetaFields /\ m0.GlobalMediaStatus = "" /\ m0.MediaPending = FALSE
      /\ m0.MSSSent = FALSE
  BY MetaIs
<1>2. PICK a, b, o : /\ m = [m0 EXCEPT !.IsOutgoing = TRUE, !.TextHash = v.text, !.GlobalPartCount = info,
                              !.MediaPartID = a, !.MediaID = b, !.OrigMXID = o]
                     /\ o = IF scenario.reid THEN 1 ELSE 0
  BY Zenon DEF handleRemoteEcho
<1> HIDE DEF m0, m, info
<1>3. DOMAIN m = MetaFields
  BY <1>1, <1>2
<1>4. /\ m.IsOutgoing = TRUE /\ m.TextHash = v.text /\ m.GlobalPartCount = info /\ m.OrigMXID = o
      /\ m.MSSSent = FALSE /\ m.GlobalMediaStatus = "" /\ m.MediaPending = FALSE
  BY <1>1, <1>2 DEF MetaFields
<1>5. /\ DOMAIN row = RowFields /\ row.meta = m /\ row.PartID = "" /\ row.Room = Chat
      /\ row.MXID = UserMXID /\ row.rowid = UserMXID /\ row.Timestamp = v.Timestamp
  BY DEF Row, RowFields
<1>6. v.Timestamp \in Nat
  BY DEF MessageType
<1> HIDE DEF row
<1>7. IsRow(row)
  BY <1>3, <1>5, <1>6 DEF IsRow
<1>8. Users(row)
  BY <1>2, <1>4, <1>5 DEF Users
<1>9. QED
  BY <1>2, <1>4, <1>5, <1>7, <1>8 DEF row, m, info

(* What HandleExisting leaves of the metadata: it sets flags.              *)
LEMMA AfterIs ==
  ASSUME NEW meta, DOMAIN meta = MetaFields, NEW v, NEW p
  PROVE  LET after == MetaAfter(meta, v, p) IN
         /\ DOMAIN after = MetaFields
         /\ after.IsOutgoing = meta.IsOutgoing /\ after.OrigMXID = meta.OrigMXID
         /\ after.GlobalMediaStatus = meta.GlobalMediaStatus /\ after.MediaPending = meta.MediaPending
         /\ after.TextHash = meta.TextHash /\ after.GlobalPartCount = meta.GlobalPartCount
         /\ after.MSSSent <=> (meta.MSSSent \/ needsMSSEvent(meta, v))
<1> DEFINE after == MetaAfter(meta, v, p)
           sent == meta.MSSSent \/ needsMSSEvent(meta, v)
<1>1. PICK b, c, d, e, f :
         after = [meta EXCEPT !.MSSSent = sent, !.MSSFailSent = b, !.MSSDeliverySent = c,
                              !.ReadReceiptSent = d, !.GlobalStatusText = e, !.GroupReadBy = f]
  BY Zenon DEF MetaAfter
<1> HIDE DEF after, sent
<1>2. DOMAIN after = MetaFields
  BY <1>1
<1>3. /\ after.IsOutgoing = meta.IsOutgoing /\ after.OrigMXID = meta.OrigMXID
      /\ after.GlobalMediaStatus = meta.GlobalMediaStatus /\ after.MediaPending = meta.MediaPending
      /\ after.TextHash = meta.TextHash /\ after.GlobalPartCount = meta.GlobalPartCount
  BY <1>1 DEF MetaFields
<1>4. after.MSSSent = sent
  BY <1>1 DEF MetaFields
<1>5. QED
  BY <1>2, <1>3, <1>4 DEF after, sent

(* The flags ConvertEdit carries over.                                     *)
LEMMA FlagsKept ==
  ASSUME NEW prev, NEW new, DOMAIN new = MetaFields
  PROVE  LET kept == KeepFlags(prev, new) IN
         /\ DOMAIN kept = MetaFields
         /\ kept.IsOutgoing = prev.IsOutgoing /\ kept.MSSSent = prev.MSSSent /\ kept.OrigMXID = new.OrigMXID
<1> DEFINE kept == KeepFlags(prev, new)
<1>1. kept = [new EXCEPT !.IsOutgoing = prev.IsOutgoing, !.MSSSent = prev.MSSSent,
                !.MSSFailSent = prev.MSSFailSent, !.MSSDeliverySent = prev.MSSDeliverySent,
                !.ReadReceiptSent = prev.ReadReceiptSent]
  BY DEF KeepFlags
<1> HIDE DEF kept
<1>2. DOMAIN kept = MetaFields
  BY <1>1
<1>3. kept.IsOutgoing = prev.IsOutgoing /\ kept.MSSSent = prev.MSSSent /\ kept.OrigMXID = new.OrigMXID
  BY <1>1 DEF MetaFields
<1>4. QED
  BY <1>2, <1>3 DEF kept

(* A part as the conversion makes it is not the user's own.                *)
NewMeta(meta) == DOMAIN meta = MetaFields /\ meta.IsOutgoing = FALSE /\ meta.OrigMXID = 0

LEMMA PartRecord ==
  ASSUME NEW part, NEW a, NEW b, NEW c, part = [ID |-> a, shows |-> b, meta |-> c]
  PROVE  part.ID = a /\ part.meta = c
  OBVIOUS

LEMMA MergedRecord ==
  ASSUME NEW a, NEW b, NEW t, NEW n, NEW x, NEW y, NEW m
  PROVE  LET merged == [[ID |-> a, shows |-> [text |-> x, note |-> y, media |-> m], meta |-> b]
                          EXCEPT !.ID = "", !.shows.text = t, !.shows.note = n]
         IN  merged.ID = "" /\ merged.meta = b
  OBVIOUS

(* The first part has the empty ID, and is the only one if captions are    *)
(* merged.                                                                 *)
LEMMA PartsMeta ==
  ASSUME NEW v, NEW merge \in BOOLEAN, NEW ok \in BOOLEAN
  PROVE  LET parts == ConvertGoogleMessage(v, merge, ok) IN
         /\ Len(parts) \in 0..2 /\ DOMAIN parts = 1..Len(parts)
         /\ \A i \in 1..Len(parts) : NewMeta(parts[i].meta)
         /\ parts # <<>> => Len(parts) > 0 /\ parts[1].ID = ""
         /\ merge => Len(parts) \in 0..1
<1> DEFINE text == getTextPart(v)
           media == MediaOfMessage(v, ok)
           merged == MergeCaption(text, media)
           parts == ConvertGoogleMessage(v, merge, ok)
           m0 == MessageMetadata(v)
           note == downloadPendingStatusMessage(v.Status)
           info == MessageInfo(v)
           first == ~HasTextPart(v)
<1>1. NewMeta(m0)
  BY MetaIs DEF NewMeta
<1>2. text.ID = "" /\ text.meta = [m0 EXCEPT !.TextHash = v.text, !.GlobalMediaStatus = note,
                                             !.GlobalPartCount = info]
  BY DEF getTextPart
<1>3. PICK c, d, s :
        LET base == [m0 EXCEPT !.MediaPartID = MediaPart, !.MediaID = c, !.MediaPending = d] IN
        media = [ID |-> IF first THEN "" ELSE MediaPart,
                 shows |-> [text |-> "", note |-> "", media |-> s],
                 meta |-> IF ~first THEN base
                          ELSE [base EXCEPT !.GlobalPartCount = info, !.GlobalMediaStatus = note]]
  BY Zenon DEF MediaOfMessage
<1>4. first \in BOOLEAN
  BY DEF HasTextPart
<1>5. parts \in {<<text>>, <<>>, <<merged>>} \/ (parts = <<media>> /\ first) \/ (parts = <<text, media>> /\ ~merge)
  BY DEF ConvertGoogleMessage, text, media, merged
<1> HIDE DEF m0, note, info, first
<1>6. NewMeta(text.meta)
  <2> HIDE DEF text
  <2> DEFINE m == text.meta
  <2>1. m = [m0 EXCEPT !.TextHash = v.text, !.GlobalMediaStatus = note, !.GlobalPartCount = info]
    BY <1>2
  <2> HIDE DEF m
  <2>2. DOMAIN m = MetaFields /\ m.IsOutgoing = FALSE /\ m.OrigMXID = 0
    BY <1>1, <2>1 DEF MetaFields, NewMeta
  <2>3. QED
    BY <2>2 DEF NewMeta, m
<1> DEFINE base == [m0 EXCEPT !.MediaPartID = MediaPart, !.MediaID = c, !.MediaPending = d]
           full == [base EXCEPT !.GlobalPartCount = info, !.GlobalMediaStatus = note]
           b == IF ~first THEN base ELSE full
           a == IF first THEN "" ELSE MediaPart
<1>7. NewMeta(base)
  BY <1>1 DEF MetaFields, NewMeta
<1>8. NewMeta(full)
  <2> HIDE DEF base
  <2>1. QED
    BY <1>7 DEF MetaFields, NewMeta
<1>9. NewMeta(b)
  BY <1>7, <1>8
<1>10. media = [ID |-> a, shows |-> [text |-> "", note |-> "", media |-> s], meta |-> b]
  BY <1>3
<1> HIDE DEF media, text, b, a, base, full
<1>11. media.ID = a /\ media.meta = b
  BY <1>10, PartRecord
<1>12. merged.ID = "" /\ merged.meta = b
  <2> DEFINE t == text.shows.text
             n == text.shows.note
  <2>1. merged = [media EXCEPT !.ID = "", !.shows.text = t, !.shows.note = n]
    BY DEF MergeCaption
  <2> HIDE DEF t, n, merged
  <2>2. QED
    BY <1>10, <2>1, MergedRecord, Zenon
<1>13. first => media.ID = ""
  BY <1>11 DEF a
<1> HIDE DEF merged, parts
<1>14. ASSUME NEW x, NewMeta(x.meta), x.ID = "", parts = <<x>>
       PROVE  /\ Len(parts) \in 0..2 /\ DOMAIN parts = 1..Len(parts)
              /\ \A i \in 1..Len(parts) : NewMeta(parts[i].meta)
              /\ Len(parts) > 0 /\ parts[1].ID = "" /\ Len(parts) \in 0..1
  <2>1. Len(<<x>>) = 1 /\ DOMAIN <<x>> = 1..1 /\ <<x>>[1] = x /\ \A i \in 1..1 : i = 1
    OBVIOUS
  <2>2. Len(parts) = 1 /\ DOMAIN parts = 1..1 /\ parts[1] = x
    BY <1>14, <2>1
  <2>3. Len(parts) \in 0..2 /\ Len(parts) \in 0..1 /\ Len(parts) > 0 /\ \A i \in 1..Len(parts) : i = 1
    BY <2>1, <2>2
  <2>4. \A i \in 1..Len(parts) : NewMeta(parts[i].meta)
    BY <1>14, <2>2, <2>3
  <2>5. DOMAIN parts = 1..Len(parts) /\ parts[1].ID = ""
    BY <1>14, <2>2
  <2>6. QED
    BY <2>3, <2>4, <2>5
<1>15. CASE parts = <<>>
  BY <1>15 DEF parts
<1>16. CASE parts = <<text, media>> /\ ~merge
  <2>1. /\ Len(parts) = 2 /\ DOMAIN parts = 1..2 /\ parts[1] = text /\ parts[2] = media
        /\ \A i \in 1..2 : i = 1 \/ i = 2
    BY <1>16
  <2>2. NewMeta(media.meta)
    BY <1>9, <1>11
  <2>3. Len(parts) \in 0..2 /\ Len(parts) > 0 /\ \A i \in 1..Len(parts) : i = 1 \/ i = 2
    BY <2>1
  <2>4. \A i \in 1..Len(parts) : NewMeta(parts[i].meta)
    BY <1>6, <2>1, <2>2, <2>3
  <2>5. DOMAIN parts = 1..Len(parts) /\ parts[1].ID = ""
    BY <1>2, <2>1
  <2>6. QED
    BY <1>16, <2>3, <2>4, <2>5 DEF parts
<1>17. CASE parts = <<text>>
  BY <1>2, <1>6, <1>14, <1>17 DEF parts
<1>18. CASE parts = <<merged>>
  BY <1>9, <1>12, <1>14, <1>18 DEF parts
<1>19. CASE parts = <<media>> /\ first
  BY <1>9, <1>11, <1>13, <1>14, <1>19 DEF parts
<1>20. QED
  BY <1>5, <1>15, <1>16, <1>17, <1>18, <1>19
-----------------------------------------------------------------------------
(* A status event is added to those sent.                                  *)
LEMMA StatusAdded ==
  ASSUME NEW S, statuses \in Seq(S), NEW x,
         \/ statuses' = Append(statuses, x) \/ statuses' = statuses \o <<x>>
  PROVE  /\ \E T : statuses' \in Seq(T)
         /\ Len(statuses) \in Nat /\ Len(statuses') = Len(statuses) + 1
         /\ DOMAIN statuses = 1..Len(statuses) /\ DOMAIN statuses' = 1..Len(statuses')
         /\ \A i \in 1..Len(statuses) : statuses'[i] = statuses[i]
         /\ statuses'[Len(statuses) + 1] = x
<1> DEFINE T == S \cup {x}
           n == Len(statuses)
<1>1. n \in Nat /\ DOMAIN statuses = 1..n /\ statuses \in [1..n -> S]
  BY LenProperties
<1>2. statuses \in [1..n -> T]
  BY <1>1
<1>3. statuses \in Seq(T)
  BY <1>1, <1>2, SeqDef
<1> HIDE DEF n, T
<1>4. x \in T /\ <<x>> \in Seq(T) /\ Len(<<x>>) = 1 /\ <<x>>[1] = x
  BY DEF T
<1>5. CASE statuses' = Append(statuses, x)
  <2>1. /\ statuses' \in Seq(T) /\ Len(statuses') = n + 1
        /\ \A i \in 1..n : statuses'[i] = statuses[i]
        /\ statuses'[n + 1] = x
    BY <1>3, <1>4, <1>5, AppendProperties DEF n
  <2>2. QED
    BY <1>1, <2>1, LenProperties DEF n
<1>6. CASE statuses' = statuses \o <<x>>
  <2> DEFINE q == <<x>>
  <2>1. q \in Seq(T) /\ Len(q) = 1 /\ q[1] = x
    BY <1>4
  <2>2. statuses' = statuses \o q
    BY <1>6
  <2> HIDE DEF q
  <2>3. /\ statuses' \in Seq(T) /\ Len(statuses') = n + 1
        /\ \A i \in 1..n + 1 : statuses'[i] = IF i <= n THEN statuses[i] ELSE q[i - n]
    BY <1>3, <2>1, <2>2, ConcatProperties DEF n
  <2>4. \A i \in 1..n : i \in 1..n + 1 /\ i <= n
    BY <1>1
  <2>5. n + 1 \in 1..n + 1 /\ ~(n + 1 <= n) /\ (n + 1) - n = 1
    BY <1>1
  <2>6. QED
    BY <1>1, <2>1, <2>3, <2>4, <2>5, LenProperties DEF n
<1>7. QED
  BY <1>5, <1>6

LEMMA CountAdded ==
  ASSUME NEW S, statuses \in Seq(S), NEW x,
         \/ statuses' = Append(statuses, x) \/ statuses' = statuses \o <<x>>
  PROVE  /\ Count("success") \in Nat
         /\ x.kind = "success" => Count("success")' = Count("success") + 1
         /\ x.kind # "success" => Count("success")' = Count("success")
<1> DEFINE n == Len(statuses)
           A == {i \in DOMAIN statuses : statuses[i].kind = "success"}
           B == {i \in DOMAIN statuses' : statuses'[i].kind = "success"}
<1>1. /\ n \in Nat /\ DOMAIN statuses = 1..n /\ DOMAIN statuses' = 1..n + 1
      /\ \A i \in 1..n : statuses'[i] = statuses[i]
      /\ statuses'[n + 1] = x
  BY StatusAdded
<1> HIDE DEF n
<1>2. A \subseteq 1..n /\ n + 1 \notin A
  BY <1>1
<1>3. IsFiniteSet(A)
  <2>1. 1 \in Int /\ n \in Int
    BY <1>1
  <2>2. IsFiniteSet(1..n)
    BY <2>1, FS_Interval, Zenon
  <2>3. QED
    BY <1>2, <2>2, FS_Subset
<1>4. \A i : i \in 1..n + 1 <=> i \in 1..n \/ i = n + 1
  BY <1>1
<1>5. B = IF x.kind = "success" THEN A \cup {n + 1} ELSE A
  BY <1>1, <1>2, <1>4
<1>6. Cardinality(A) \in Nat /\ Cardinality(A \cup {n + 1}) = Cardinality(A) + 1
  <2> HIDE DEF A
  <2>1. QED
    BY <1>2, <1>3, FS_CardinalityType, FS_AddElement
<1>7. Count("success") = Cardinality(A) /\ Count("success")' = Cardinality(B)
  BY DEF Count
<1>8. QED
  BY <1>5, <1>6, <1>7

LEMMA CountKept ==
  ASSUME UNCHANGED statuses
  PROVE  Count("success")' = Count("success")
  BY DEF Count

LEMMA CountNone ==
  ASSUME statuses = <<>> PROVE Count("success") = 0
<1>1. {i \in DOMAIN statuses : statuses[i].kind = "success"} = {}
  OBVIOUS
<1>2. QED
  BY <1>1, FS_EmptySet DEF Count

LEMMA CountNat ==
  ASSUME NEW S, statuses \in Seq(S) PROVE Count("success") \in Nat
<1> DEFINE n == Len(statuses)
           A == {i \in DOMAIN statuses : statuses[i].kind = "success"}
<1>1. n \in Nat /\ DOMAIN statuses = 1..n
  BY LenProperties
<1>2. A \subseteq 1..n
  BY <1>1
<1>3. IsFiniteSet(1..n)
  <2>1. 1 \in Int /\ n \in Int
    BY <1>1
  <2>2. QED
    BY <2>1, FS_Interval, Zenon
<1>4. Cardinality(A) \in Nat
  BY <1>2, <1>3, FS_Subset, FS_CardinalityType
<1>5. QED
  BY <1>4 DEF Count
-----------------------------------------------------------------------------
LEMMA StatusInit == Init => StatusInv
<1> SUFFICES ASSUME Init, Stays PROVE ChatInv /\ KeptInv
  BY DEF StatusInv
<1>1. /\ scenario \in Scenarios /\ phone = <<>> /\ queue = [p \in Convs |-> <<>>]
      /\ handler = [p \in Convs |-> Idle] /\ rows = {} /\ pending = FALSE /\ send = "no"
      /\ statuses = <<>> /\ restarts = 0
  BY DEF Init
<1>2. Idle.pc = "idle" /\ Idle.rows = {}
  BY DEF Idle
<1>3. Chat \in Convs
  BY <1>1, ChatIs
<1>4. handler[Chat] = Idle /\ \A p \in Convs : handler[p].pc = "idle" /\ queue[p] = <<>>
  BY <1>1, <1>2, <1>3
<1>5. Len(<<>>) = 0 /\ 1..0 = {} /\ DOMAIN <<>> = {} /\ \A S : <<>> \in Seq(S)
  OBVIOUS
<1>6. OnePortal /\ WorkInv /\ PendingInv /\ CopyInv
  BY <1>1, <1>2, <1>4, <1>5 DEF OnePortal, WorkInv, PendingInv, Untouched, CopyInv, Foreign
<1>7. SuccessInv
  <2>1. Count("success") = 0
    BY <1>1, CountNone
  <2>2. ~Unsent(Current)
    BY <1>1, <1>2, <1>4 DEF Unsent, Current
  <2>3. QED
    BY <1>1, <1>5, <2>1, <2>2 DEF SuccessInv
<1>8. LateInv /\ NoLateFailure /\ SourceIsUsers
  BY <1>1, <1>5 DEF LateInv, Told, NoLateFailure, SourceIsUsers
<1>9. SourceInv
  BY <1>1 DEF SourceInv, Claimed
<1>10. QED
  BY <1>6, <1>7, <1>8, <1>9 DEF ChatInv, KeptInv

LEMMA CopyKept == ASSUME UNCHANGED <<scenario, handler, rows>>, CopyInv PROVE CopyInv'
<1>1. Chat' = Chat /\ UserMXID' = UserMXID
  BY ScenarioKept
<1>2. \A set : Claimed(set)' = Claimed(set) /\ Foreign(set)' = Foreign(set)
  BY <1>1 DEF Claimed, Users, Foreign
<1>3. QED
  BY <1>1, <1>2 DEF CopyInv, Claimed, Foreign, Users

(* Nothing happens to the message itself.                                  *)
LEMMA RestKept ==
  ASSUME UNCHANGED <<scenario, phone, handler, rows, restarts>>
  PROVE  /\ WorkInv => WorkInv'
         /\ CopyInv => CopyInv'
         /\ Kept' = Kept /\ Edited' = Edited
         /\ SourceInv => SourceInv'
         /\ Untouched /\ UNCHANGED statuses => Untouched'
         /\ Unsent(Current)' = Unsent(Current) /\ Claimed(Current)' = Claimed(Current)
         /\ Claimed(rows)' = Claimed(rows)
<1>1. Chat' = Chat /\ UserMXID' = UserMXID
  BY ScenarioKept
<1>2. WorkInv => WorkInv'
  BY <1>1 DEF WorkInv
<1>4. CopyInv => CopyInv'
  BY CopyKept
<1>5. Kept' = Kept /\ Edited' = Edited
  BY DEF Kept, Stays, Resent, Deleted, Last, Edited
<1>6. Unsent(Current)' = Unsent(Current)
  BY <1>1 DEF Unsent, Current
<1>7. Claimed(Current)' = Claimed(Current) /\ Claimed(rows)' = Claimed(rows)
  BY <1>1 DEF Claimed, Users, Current
<1>8. SourceInv => SourceInv'
  BY <1>1, <1>5, <1>7 DEF SourceInv, Current, Same
<1>9. Untouched /\ UNCHANGED statuses => Untouched'
  BY <1>1 DEF Untouched
<1>10. QED
  BY <1>2, <1>4, <1>5, <1>6, <1>7, <1>8, <1>9

(* A step of the phone's answer or of the clock.                           *)
LEMMA SendStatus ==
  ASSUME StatusInv, UNCHANGED <<scenario, phone, queue, handler, rows, statuses, restarts>>,
         \/ UNCHANGED <<pending, send>>
         \/ UNCHANGED pending /\ send \notin {"no", "failed"} /\ send' \notin {"no", "failed"}
         \/ scenario.outgoing /\ send = "no" /\ pending' /\ send' = "sending"
  PROVE  StatusInv'
<1> SUFFICES ASSUME Stays PROVE ChatInv' /\ KeptInv'
  BY ScenarioKept DEF StatusInv
<1>1. ChatInv /\ KeptInv
  BY DEF StatusInv
<1>2. /\ WorkInv' /\ CopyInv' /\ Kept' = Kept /\ Edited' = Edited /\ (SourceInv => SourceInv')
      /\ (Untouched => Untouched') /\ Unsent(Current)' = Unsent(Current)
      /\ Claimed(Current)' = Claimed(Current) /\ Claimed(rows)' = Claimed(rows)
  BY <1>1, RestKept DEF ChatInv
<1>3. OnePortal'
  BY <1>1, ScenarioKept DEF ChatInv, OnePortal
<1>4. PendingInv'
  BY <1>1, <1>2 DEF ChatInv, PendingInv
<1>5. SuccessInv'
  BY <1>1, <1>2, CountKept DEF ChatInv, SuccessInv
<1>6. ASSUME Kept' PROVE LateInv' /\ NoLateFailure' /\ SourceInv' /\ SourceIsUsers'
  <2>1. LateInv /\ NoLateFailure /\ SourceInv /\ SourceIsUsers
    BY <1>1, <1>2, <1>6 DEF KeptInv
  <2>2. LateInv'
    BY <1>2, <2>1 DEF LateInv, Told
  <2>3. NoLateFailure'
    BY <1>2, <2>1 DEF NoLateFailure
  <2>4. SourceIsUsers'
    <3>1. CASE scenario.outgoing /\ send = "no"
      <4>1. statuses = <<>>
        BY <1>1, <3>1 DEF ChatInv, PendingInv, Untouched
      <4>2. DOMAIN statuses' = {}
        BY <4>1
      <4>3. QED
        BY <4>2 DEF SourceIsUsers
    <3>2. CASE UNCHANGED send \/ (send \notin {"no", "failed"} /\ send' \notin {"no", "failed"})
      <4>1. Echoed' => Echoed
        BY <1>2, <3>2 DEF Echoed
      <4>2. QED
        BY <1>2, <2>1, <4>1 DEF SourceIsUsers
    <3>3. QED
      BY <3>1, <3>2
  <2>5. QED
    BY <1>2, <2>1, <2>2, <2>3, <2>4
<1>7. QED
  BY <1>2, <1>3, <1>4, <1>5, <1>6 DEF ChatInv, KeptInv

(* The request fails: only that is reported.                               *)
LEMMA FailedStatus == ASSUME StatusInv, SendFailed PROVE StatusInv'
<1> SUFFICES ASSUME Stays PROVE ChatInv' /\ KeptInv'
  BY ScenarioKept DEF StatusInv, SendFailed
<1> DEFINE x == [kind |-> "request failed", source |-> 1]
<1>1. ChatInv /\ KeptInv
  BY DEF StatusInv
<1>2. /\ UNCHANGED <<scenario, phone, queue, handler, rows, restarts>>
      /\ statuses' = Append(statuses, x) /\ send' = "failed" /\ pending' = FALSE
  BY DEF SendFailed
<1>3. /\ WorkInv' /\ CopyInv' /\ Kept' = Kept /\ Edited' = Edited /\ (SourceInv => SourceInv')
      /\ Unsent(Current)' = Unsent(Current) /\ Claimed(Current)' = Claimed(Current)
  BY <1>1, <1>2, RestKept DEF ChatInv
<1>4. OnePortal' /\ PendingInv'
  BY <1>1, <1>2, ScenarioKept DEF ChatInv, OnePortal, PendingInv
<1>5. PICK S : statuses \in Seq(S)
  BY <1>1 DEF ChatInv, SuccessInv
<1>6. x.kind = "request failed" /\ "request failed" # "success"
  OBVIOUS
<1> HIDE DEF x
<1>7. /\ \E T : statuses' \in Seq(T)
      /\ Len(statuses) \in Nat /\ Len(statuses') = Len(statuses) + 1
      /\ DOMAIN statuses = 1..Len(statuses) /\ DOMAIN statuses' = 1..Len(statuses')
      /\ \A i \in 1..Len(statuses) : statuses'[i] = statuses[i]
      /\ statuses'[Len(statuses) + 1] = x
  BY <1>2, <1>5, StatusAdded
<1>8. Count("success")' = Count("success")
  BY <1>2, <1>5, <1>6, CountAdded
<1>9. SuccessInv'
  BY <1>1, <1>2, <1>3, <1>7, <1>8 DEF ChatInv, SuccessInv
<1>10. \A i \in 1..Len(statuses') : i \in 1..Len(statuses) \/ i = Len(statuses) + 1
  BY <1>7
<1>11. ASSUME Kept' PROVE LateInv' /\ NoLateFailure' /\ SourceInv' /\ SourceIsUsers'
  <2>1. LateInv /\ NoLateFailure /\ SourceInv
    BY <1>1, <1>3, <1>11 DEF KeptInv
  <2>2. Told' => Told
    BY <1>6, <1>7, <1>10 DEF Told
  <2>3. LateInv'
    BY <1>2, <1>3, <2>1, <2>2 DEF LateInv
  <2>4. NoLateFailure'
    <3> SUFFICES ASSUME NEW i \in DOMAIN statuses', NEW j \in DOMAIN statuses', i < j,
                        statuses'[i].kind = "success"
                 PROVE  statuses'[j].kind \in {"success", "request failed"}
      BY DEF NoLateFailure
    <3>1. CASE j = Len(statuses) + 1
      BY <1>6, <1>7, <3>1
    <3>2. CASE j \in 1..Len(statuses)
      <4>1. i \in 1..Len(statuses)
        BY <1>7, <3>2
      <4>2. QED
        BY <1>3, <1>7, <1>11, <2>1, <3>2, <4>1 DEF NoLateFailure
    <3>3. QED
      BY <1>7, <1>10, <3>1, <3>2
  <2>5. SourceIsUsers'
    BY <1>2 DEF SourceIsUsers, Echoed
  <2>6. QED
    BY <1>3, <2>1, <2>3, <2>4, <2>5
<1>12. QED
  BY <1>3, <1>4, <1>9, <1>11 DEF ChatInv, KeptInv

(* A version more: the phone's timestamps grow, and what differed differs. *)
LEMMA PhoneLonger ==
  ASSUME phone \in Seq(MessageType), NEW v \in MessageType, phone' = Append(phone, v), UNCHANGED scenario,
         phone # <<>> => v.Timestamp >= phone[Len(phone)].Timestamp,
         \A i \in 1..Len(phone) : phone[i].Timestamp <= phone[Len(phone)].Timestamp
  PROVE  /\ Len(phone) \in Nat /\ Len(phone') = Len(phone) + 1 /\ phone' # <<>>
         /\ \A i \in 1..Len(phone) : phone'[i] = phone[i]
         /\ phone'[Len(phone) + 1] = v
         /\ \A i \in 1..Len(phone') : phone'[i].Timestamp <= phone'[Len(phone')].Timestamp
         /\ UNCHANGED restarts => (Kept' => Kept)
         /\ ~Edited' => /\ ~Edited
                        /\ \A i \in 1..Len(phone) : /\ phone[i].text = v.text
                                                    /\ MessageInfo(phone[i]) = MessageInfo(v)
<1> DEFINE n == Len(phone)
<1>1. /\ n \in Nat /\ DOMAIN phone = 1..n /\ \A i \in 1..n : phone[i] \in MessageType
      /\ (n = 0 => phone = <<>>)
  BY LenProperties, EmptySeq
<1>2. /\ phone' \in Seq(MessageType) /\ Len(phone') = n + 1
      /\ \A i \in 1..n : phone'[i] = phone[i]
      /\ phone'[n + 1] = v
  BY AppendProperties
<1>3. DOMAIN phone' = 1..n + 1 /\ phone' # <<>>
  BY <1>1, <1>2, LenProperties, EmptySeq
<1>4. \A i : i \in 1..n + 1 <=> i \in 1..n \/ i = n + 1
  BY <1>1
<1>5. \A w \in MessageType : w.Timestamp \in Nat
  BY DEF MessageType
<1>6. \A i \in 1..n : phone[i].Timestamp <= v.Timestamp
  <2> SUFFICES ASSUME NEW i \in 1..n PROVE phone[i].Timestamp <= v.Timestamp
    OBVIOUS
  <2>1. n \in 1..n /\ phone # <<>>
    BY <1>1, EmptySeq
  <2>2. phone[i].Timestamp \in Nat /\ phone[n].Timestamp \in Nat /\ v.Timestamp \in Nat
    BY <1>1, <1>5, <2>1
  <2>3. phone[i].Timestamp <= phone[n].Timestamp /\ phone[n].Timestamp <= v.Timestamp
    BY <2>1, <2>2
  <2>4. QED
    BY <2>2, <2>3
<1> HIDE DEF n
<1>7. \A i \in 1..n + 1 : phone'[i].Timestamp <= v.Timestamp
  BY <1>2, <1>4, <1>5, <1>6
<1>8. ASSUME UNCHANGED restarts, Kept' PROVE Kept
  <2>1. Stays /\ restarts = 0 /\ ~Resent' /\ ~Deleted'
    BY <1>8, ScenarioKept DEF Kept
  <2>2. ~Deleted
    BY <1>1, <1>2, <1>3, <1>4, <2>1 DEF Deleted, n
  <2>3. ~(v.Timestamp > 0)
    BY <1>2, <1>3, <2>1 DEF Resent, Last, n
  <2>4. ~Resent
    <3>1. CASE phone = <<>>
      BY <3>1 DEF Resent
    <3>2. CASE phone # <<>>
      <4>1. n \in 1..n
        BY <1>1, <3>2
      <4>2. phone[n].Timestamp <= v.Timestamp /\ phone[n].Timestamp \in Nat /\ v.Timestamp \in Nat
        BY <1>1, <1>5, <1>6, <4>1
      <4>3. QED
        BY <2>3, <4>2 DEF Resent, Last, n
    <3>3. QED
      BY <3>1, <3>2
  <2>5. QED
    BY <2>1, <2>2, <2>4 DEF Kept
<1>9. ASSUME ~Edited'
      PROVE  ~Edited /\ \A i \in 1..n : phone[i].text = v.text /\ MessageInfo(phone[i]) = MessageInfo(v)
  <2>1. \A i \in 1..n : /\ phone[i].text = v.text /\ MessageInfo(phone[i]) = MessageInfo(v)
                        /\ downloadPendingStatusMessage(phone[i].Status) = ""
    BY <1>2, <1>3, <1>4, <1>9 DEF Edited, Last, n
  <2>2. ~Edited
    <3> SUFFICES ASSUME NEW i \in 1..n
                 PROVE  /\ phone[i].text = phone[n].text /\ MessageInfo(phone[i]) = MessageInfo(phone[n])
                        /\ downloadPendingStatusMessage(phone[i].Status) = ""
      BY <1>1 DEF Edited, Last, n
    <3>1. n \in 1..n
      BY <1>1
    <3>2. QED
      BY <2>1, <3>1
  <2>3. QED
    BY <2>1, <2>2
<1>10. QED
  BY <1>1, <1>2, <1>3, <1>7, <1>8, <1>9 DEF n

LEMMA PhoneStatus ==
  ASSUME MessageInv, StatusInv, NEW v \in scenario.versions, phone' = Append(phone, v),
         queue' = [queue EXCEPT ![v.ConversationID] = Append(@, Len(phone) + 1)],
         phone # <<>> => v.Timestamp >= phone[Len(phone)].Timestamp,
         scenario.outgoing => send # "no",
         UNCHANGED send \/ (send \notin {"no", "failed"} /\ send' \notin {"no", "failed"}),
         UNCHANGED <<scenario, handler, rows, statuses, pending, restarts>>
  PROVE  StatusInv'
<1> SUFFICES ASSUME Stays PROVE ChatInv' /\ KeptInv'
  BY ScenarioKept DEF StatusInv
<1>1. ChatInv /\ KeptInv
  BY DEF StatusInv
<1>2. /\ scenario \in Scenarios /\ phone \in Seq(MessageType) /\ v \in MessageType
      /\ queue \in [Convs -> Seq(Nat)]
  BY ScenarioAssumption DEF MessageInv, PhoneType
<1>3. v.ConversationID = Chat /\ Chat \in Convs /\ Chat' = Chat
  BY <1>2, ChatIs, ScenarioKept
<1>4. /\ Len(phone) \in Nat /\ Len(phone') = Len(phone) + 1 /\ phone' # <<>>
      /\ \A i \in 1..Len(phone) : phone'[i] = phone[i]
      /\ phone'[Len(phone) + 1] = v
      /\ \A i \in 1..Len(phone') : phone'[i].Timestamp <= phone'[Len(phone')].Timestamp
      /\ Kept' => Kept
      /\ ~Edited' => /\ ~Edited
                     /\ \A i \in 1..Len(phone) : /\ phone[i].text = v.text
                                                 /\ MessageInfo(phone[i]) = MessageInfo(v)
  BY <1>1, <1>2, PhoneLonger DEF ChatInv, WorkInv
<1>5. \A i : i \in 1..Len(phone) + 1 <=> i \in 1..Len(phone) \/ i = Len(phone) + 1
  BY <1>4
<1>6. OnePortal'
  BY <1>1, <1>2, <1>3 DEF ChatInv, OnePortal
<1>7. WorkInv'
  <2>1. handler[Chat].pc # "idle" => \E i \in 1..Len(phone') : handler[Chat].v = phone'[i]
    BY <1>1, <1>4, <1>5 DEF ChatInv, WorkInv
  <2>2. QED
    BY <1>1, <1>3, <1>4, <2>1 DEF ChatInv, WorkInv
<1>8. PendingInv'
  BY <1>1, <1>3 DEF ChatInv, PendingInv, Untouched
<1>9. CopyInv'
  BY <1>1, CopyKept DEF ChatInv
<1>10. /\ Unsent(Current)' = Unsent(Current) /\ Claimed(Current)' = Claimed(Current)
       /\ Claimed(rows)' = Claimed(rows) /\ Current' = Current
  BY <1>3, ScenarioKept DEF Unsent, Current, Claimed, Users
<1>11. SuccessInv'
  BY <1>1, <1>10, CountKept DEF ChatInv, SuccessInv
<1>12. ASSUME Kept' PROVE LateInv' /\ NoLateFailure' /\ SourceInv' /\ SourceIsUsers'
  <2>1. LateInv /\ NoLateFailure /\ SourceInv /\ SourceIsUsers /\ Kept
    BY <1>1, <1>4, <1>12 DEF KeptInv
  <2>2. LateInv'
    BY <1>10, <2>1 DEF LateInv, Told
  <2>3. NoLateFailure'
    BY <1>4, <2>1 DEF NoLateFailure
  <2>4. SourceIsUsers'
    <3>1. Echoed' => Echoed
      BY <2>1 DEF Echoed
    <3>2. QED
      BY <1>4, <2>1, <3>1 DEF SourceIsUsers
  <2>5. SourceInv'
    <3> SUFFICES ASSUME scenario.reid, ~Edited', Claimed(rows)'
                 PROVE  /\ \A r \in Current : \A i \in 1..Len(phone') : Same(r, phone'[i])
                        /\ handler[Chat].pc # "edit"
                        /\ handler[Chat].pc = "save" => ~handler[Chat].resync
      BY <1>3, <1>10 DEF SourceInv, Same
    <3>1. /\ \A r \in Current : \A i \in 1..Len(phone) : Same(r, phone[i])
          /\ handler[Chat].pc # "edit"
          /\ handler[Chat].pc = "save" => ~handler[Chat].resync
      BY <1>4, <1>10, <2>1 DEF SourceInv
    <3>2. 1 \in 1..Len(phone)
      <4>1. rows # {}
        BY <1>10 DEF Claimed
      <4>2. phone # <<>>
        BY <1>1, <4>1 DEF ChatInv, WorkInv
      <4>3. QED
        BY <1>2, <1>4, <4>2, EmptySeq
    <3>3. ASSUME NEW r \in Current PROVE Same(r, v)
      <4>1. Same(r, phone[1]) /\ phone[1].text = v.text /\ MessageInfo(phone[1]) = MessageInfo(v)
        BY <1>4, <3>1, <3>2
      <4>2. QED
        BY <4>1 DEF Same
    <3>4. QED
      BY <1>4, <1>5, <3>1, <3>3
  <2>6. QED
    BY <2>2, <2>3, <2>4, <2>5
<1>13. QED
  BY <1>6, <1>7, <1>8, <1>9, <1>11, <1>12 DEF ChatInv, KeptInv

LEMMA RestartStatus == ASSUME MessageInv, StatusInv, Restart PROVE StatusInv'
<1> SUFFICES ASSUME Stays PROVE ChatInv' /\ KeptInv'
  BY ScenarioKept DEF StatusInv, Restart
<1>1. ChatInv
  BY DEF StatusInv
<1>2. /\ restarts' = restarts + 1 /\ queue' = [p \in Convs |-> <<>>] /\ handler' = [p \in Convs |-> Idle]
      /\ pending' = FALSE /\ (send' = "no" => send = "no") /\ UNCHANGED <<scenario, phone, rows, statuses>>
  BY DEF Restart, matrix
<1>3. restarts \in Nat /\ restarts' # 0
  BY <1>2 DEF MessageInv, ShownType
<1>4. Chat \in Convs /\ Chat' = Chat
  BY <1>2, ChatIs, ScenarioKept DEF MessageInv, PhoneType
<1>5. handler'[Chat].pc = "idle" /\ handler'[Chat].rows = {}
  BY <1>2, <1>4 DEF Idle
<1>6. OnePortal'
  BY <1>2, <1>4 DEF OnePortal, Idle
<1>7. WorkInv'
  BY <1>1, <1>2, <1>4, <1>5 DEF ChatInv, WorkInv
<1>8. PendingInv'
  BY <1>1, <1>2, <1>4, <1>5 DEF ChatInv, PendingInv, Untouched
<1>9. CopyInv'
  BY <1>1, <1>2, <1>4, <1>5, ScenarioKept DEF ChatInv, CopyInv, Claimed, Users, Foreign
<1>10. SuccessInv'
  <2>1. Count("success") \in Nat /\ Count("success") <= 1 + restarts
    BY <1>1, CountNat DEF ChatInv, SuccessInv
  <2>2. Count("success")' = Count("success")
    BY <1>2, CountKept
  <2>3. Count("success")' <= restarts' /\ Count("success")' <= 1 + restarts'
    BY <1>2, <1>3, <2>1, <2>2
  <2>4. \E S : statuses' \in Seq(S)
    BY <1>1, <1>2 DEF ChatInv, SuccessInv
  <2>5. QED
    BY <2>3, <2>4 DEF SuccessInv
<1>11. ~Kept'
  BY <1>3 DEF Kept
<1>12. QED
  BY <1>6, <1>7, <1>8, <1>9, <1>10, <1>11 DEF ChatInv, KeptInv
-----------------------------------------------------------------------------
LEMMA MainIs ==
  ASSUME NEW copy, copy # {}
  PROVE  Main(copy) \in copy
<1>1. \E r \in copy : r.PartID = "" \/ \A s \in copy : s.PartID # ""
  <2>1. CASE \E r \in copy : r.PartID = ""
    BY <2>1
  <2>2. CASE \A s \in copy : s.PartID # ""
    BY <2>2
  <2>3. QED
    BY <2>1, <2>2
<1>2. QED
  BY <1>1 DEF Main

(* What a step of a handler leaves in it.                                  *)
LEMMA HandlerMoves ==
  ASSUME HandlerType, NEW p \in Convs, NEW place, NEW copy, NEW resync
  PROVE  /\ handler' = [handler EXCEPT ![p] = Idle] =>
              handler'[p] = Idle /\ \A q \in Convs : q # p => handler'[q] = handler[q]
         /\ handler' = [handler EXCEPT ![p].pc = place] =>
              /\ handler'[p].pc = place /\ handler'[p].v = handler[p].v
              /\ handler'[p].rows = handler[p].rows /\ handler'[p].resync = handler[p].resync
              /\ \A q \in Convs : q # p => handler'[q] = handler[q]
         /\ handler' = [handler EXCEPT ![p].pc = place, ![p].rows = copy] =>
              /\ handler'[p].pc = place /\ handler'[p].v = handler[p].v /\ handler'[p].rows = copy
              /\ \A q \in Convs : q # p => handler'[q] = handler[q]
         /\ handler' = [handler EXCEPT ![p].pc = place, ![p].rows = copy, ![p].resync = resync] =>
              /\ handler'[p].pc = place /\ handler'[p].v = handler[p].v /\ handler'[p].rows = copy
              /\ handler'[p].resync = resync
              /\ \A q \in Convs : q # p => handler'[q] = handler[q]
<1> DEFINE h == handler[p]
<1>1. DOMAIN handler = Convs /\ DOMAIN h = {"pc", "v", "rows", "resync"}
  BY DEF HandlerType
<1>2. ASSUME NEW new, handler' = [handler EXCEPT ![p] = new]
      PROVE  handler'[p] = new /\ \A q \in Convs : q # p => handler'[q] = handler[q]
  BY <1>1, <1>2
<1> DEFINE a == [h EXCEPT !.pc = place]
           b == [h EXCEPT !.pc = place, !.rows = copy]
           c == [h EXCEPT !.pc = place, !.rows = copy, !.resync = resync]
<1>3. a.pc = place /\ a.v = h.v /\ a.rows = h.rows /\ a.resync = h.resync
  BY <1>1
<1>4. b.pc = place /\ b.v = h.v /\ b.rows = copy
  BY <1>1
<1>5. c.pc = place /\ c.v = h.v /\ c.rows = copy /\ c.resync = resync
  BY <1>1
<1>6. /\ [handler EXCEPT ![p].pc = place] = [handler EXCEPT ![p] = a]
      /\ [handler EXCEPT ![p].pc = place, ![p].rows = copy] = [handler EXCEPT ![p] = b]
      /\ [handler EXCEPT ![p].pc = place, ![p].rows = copy, ![p].resync = resync] = [handler EXCEPT ![p] = c]
  BY <1>1
<1> HIDE DEF a, b, c, h
<1>7. QED
  BY <1>2, <1>3, <1>4, <1>5, <1>6 DEF h

LEMMA BusyStep ==
  ASSUME MessageInv, ChatInv, Stays, handler[Chat].pc # "idle",
         UNCHANGED <<scenario, phone, queue, pending, send, restarts>>,
         \A q \in Convs : q # Chat => handler'[q] = handler[q]
  PROVE  OnePortal' /\ PendingInv' /\ Chat' = Chat /\ Kept' = Kept /\ Edited' = Edited /\ ~pending
<1>1. Chat' = Chat
  BY ScenarioKept
<1>2. OnePortal'
  BY <1>1 DEF ChatInv, OnePortal
<1>3. ~pending /\ ~(scenario.outgoing /\ send = "no")
  BY DEF ChatInv, PendingInv, Untouched
<1>4. PendingInv'
  BY <1>3 DEF PendingInv
<1>5. Kept' = Kept /\ Edited' = Edited
  BY DEF Kept, Stays, Resent, Deleted, Last, Edited
<1>6. QED
  BY <1>1, <1>2, <1>3, <1>4, <1>5

(* Sets are of the same kind before and after.                             *)
LEMMA KindKept ==
  ASSUME UNCHANGED scenario
  PROVE  \A set : Claimed(set)' = Claimed(set) /\ Foreign(set)' = Foreign(set)
  BY ScenarioKept DEF Claimed, Users, Foreign

(* The handler is done with the message, or only reactions are left.       *)
LEMMA LeaveStatus ==
  ASSUME MessageInv, StatusInv, Stays, handler[Chat].pc \notin {"idle", "save"},
         UNCHANGED <<scenario, phone, queue, rows, statuses, pending, send, restarts>>,
         handler' = [handler EXCEPT ![Chat] = Idle] \/ handler' = [handler EXCEPT ![Chat].pc = "reactions"]
  PROVE  ChatInv' /\ KeptInv'
<1>1. ChatInv /\ KeptInv
  BY DEF StatusInv
<1>2. Chat \in Convs
  BY ChatIs DEF MessageInv, PhoneType
<1>3. /\ handler'[Chat].pc \in {"idle", "reactions"}
      /\ handler'[Chat].rows = {} \/ handler'[Chat].rows = handler[Chat].rows
      /\ handler'[Chat].pc # "idle" => handler'[Chat].v = handler[Chat].v
      /\ \A q \in Convs : q # Chat => handler'[q] = handler[q]
  <2>1. HandlerType /\ Idle.pc = "idle" /\ Idle.rows = {}
    BY DEF MessageInv, Idle
  <2>2. QED
    BY <1>2, <2>1, HandlerMoves
<1>4. OnePortal' /\ PendingInv' /\ Chat' = Chat /\ Kept' = Kept /\ Edited' = Edited
  BY <1>1, <1>3, BusyStep
<1>5. WorkInv'
  BY <1>1, <1>3, <1>4 DEF ChatInv, WorkInv
<1>6. Claimed(rows)' = Claimed(rows) /\ Foreign(rows)' = Foreign(rows)
  BY <1>4, ScenarioKept DEF Claimed, Users, Foreign
<1>7. CopyInv'
  BY <1>1, <1>3, <1>4, <1>6 DEF ChatInv, CopyInv
<1>8. Current = rows /\ Current' = rows
  BY <1>3, <1>4 DEF Current
<1>9. Unsent(Current)' = Unsent(Current) /\ Claimed(Current)' = Claimed(Current)
  BY <1>4, <1>8, ScenarioKept DEF Unsent, Claimed, Users
<1>10. SuccessInv'
  BY <1>1, <1>9, CountKept DEF ChatInv, SuccessInv
<1>11. ASSUME Kept' PROVE LateInv' /\ NoLateFailure' /\ SourceInv' /\ SourceIsUsers'
  <2>1. LateInv /\ NoLateFailure /\ SourceInv /\ SourceIsUsers
    BY <1>1, <1>4, <1>11 DEF KeptInv
  <2>2. LateInv'
    BY <1>6, <1>9, <2>1 DEF LateInv, Told
  <2>3. NoLateFailure'
    BY <1>4, <2>1 DEF NoLateFailure
  <2>4. SourceIsUsers'
    BY <1>4, <2>1 DEF SourceIsUsers, Echoed
  <2>5. SourceInv'
    BY <1>3, <1>4, <1>6, <1>8, <2>1 DEF SourceInv, Same
  <2>6. QED
    BY <2>2, <2>3, <2>4, <2>5
<1>12. QED
  BY <1>4, <1>5, <1>7, <1>10, <1>11 DEF ChatInv, KeptInv

(* The rows are forgotten or deleted: the message is no longer what it was.*)
LEMMA GoneStatus ==
  ASSUME MessageInv, StatusInv, Stays, handler[Chat].pc # "idle", ~Kept,
         rows' = {}, UNCHANGED <<scenario, phone, queue, statuses, pending, send, restarts>>,
         \/ handler' = [handler EXCEPT ![Chat] = Idle]
         \/ handler' = [handler EXCEPT ![Chat].pc = "new", ![Chat].rows = {}]
  PROVE  ChatInv' /\ KeptInv'
<1>1. ChatInv /\ Chat \in Convs
  BY ChatIs DEF StatusInv, MessageInv, PhoneType
<1>2. /\ handler'[Chat].pc \in {"idle", "new"} /\ handler'[Chat].rows = {}
      /\ handler'[Chat].pc # "idle" => handler'[Chat].v = handler[Chat].v
      /\ \A q \in Convs : q # Chat => handler'[q] = handler[q]
  <2>1. HandlerType /\ Idle.pc = "idle" /\ Idle.rows = {}
    BY DEF MessageInv, Idle
  <2>2. CASE handler' = [handler EXCEPT ![Chat] = Idle]
    BY <1>1, <2>1, <2>2, HandlerMoves
  <2>3. CASE handler' = [handler EXCEPT ![Chat].pc = "new", ![Chat].rows = {}]
    <3>1. /\ handler'[Chat].pc = "new" /\ handler'[Chat].v = handler[Chat].v /\ handler'[Chat].rows = {}
          /\ \A q \in Convs : q # Chat => handler'[q] = handler[q]
      BY <1>1, <2>1, <2>3, HandlerMoves
    <3>2. QED
      BY <3>1
  <2>4. QED
    BY <2>2, <2>3
<1>3. OnePortal' /\ PendingInv' /\ Chat' = Chat /\ Kept' = Kept
  BY <1>1, <1>2, BusyStep
<1>4. WorkInv'
  BY <1>1, <1>2, <1>3 DEF ChatInv, WorkInv
<1>5. CopyInv'
  BY <1>2, <1>3 DEF CopyInv, Foreign
<1>6. SuccessInv'
  <2>1. ~Unsent(Current)'
    BY <1>2, <1>3 DEF Unsent, Current
  <2>2. QED
    BY <1>1, <2>1, CountKept DEF ChatInv, SuccessInv
<1>7. QED
  BY <1>3, <1>4, <1>5, <1>6 DEF ChatInv, KeptInv

LEMMA RemoveStatus ==
  ASSUME MessageInv, StatusInv, Stays, Remove(Chat)
  PROVE  ChatInv' /\ KeptInv'
<1>1. /\ handler[Chat].pc = "remove" /\ rows' = {} /\ handler' = [handler EXCEPT ![Chat] = Idle]
      /\ UNCHANGED <<scenario, phone, queue, statuses, pending, send, restarts>>
  BY DEF Remove, Done, sending
<1>2. PICK i \in 1..Len(phone) : handler[Chat].v = phone[i]
  BY <1>1 DEF StatusInv, ChatInv, WorkInv
<1>3. phone[i].Status = MESSAGE_DELETED /\ DOMAIN phone = 1..Len(phone)
  BY <1>1, <1>2, LenProperties DEF StatusInv, ChatInv, WorkInv, MessageInv, PhoneType
<1>4. ~Kept
  BY <1>3 DEF Kept, Deleted
<1>5. QED
  BY <1>1, <1>4, GoneStatus

LEMMA ResendStatus ==
  ASSUME MessageInv, StatusInv, Stays, HandleExistingResends(Chat)
  PROVE  ChatInv' /\ KeptInv'
<1> DEFINE copy == handler[Chat].rows
           v == handler[Chat].v
<1>1. /\ handler[Chat].pc = "existing" /\ rows' = {}
      /\ handler' = [handler EXCEPT ![Chat].pc = "new", ![Chat].rows = {}]
      /\ v.Timestamp - Main(copy).Timestamp > DeleteAndResendThreshold
      /\ UNCHANGED <<scenario, phone, queue, statuses, pending, send, restarts>>
  BY DEF HandleExistingResends, sending, matrix
<1>2. PICK i \in 1..Len(phone) : v = phone[i]
  BY <1>1 DEF StatusInv, ChatInv, WorkInv
<1>3. Main(copy).Timestamp \in Nat
  <2>1. copy # {} /\ \A r \in copy : r.Timestamp \in Nat
    BY <1>1 DEF StatusInv, ChatInv, WorkInv, IsRow
  <2>2. QED
    BY <2>1, MainIs
<1>4. /\ phone[i].Timestamp \in Nat /\ phone[i].Timestamp <= phone[Len(phone)].Timestamp
      /\ phone[Len(phone)].Timestamp \in Nat /\ phone # <<>>
  <2>1. phone \in Seq(MessageType) /\ \A w \in MessageType : w.Timestamp \in Nat
    BY DEF MessageInv, PhoneType, MessageType
  <2>2. Len(phone) \in Nat /\ \A k \in 1..Len(phone) : phone[k] \in MessageType
    BY <2>1, LenProperties
  <2>3. Len(phone) \in 1..Len(phone) /\ phone # <<>>
    BY <2>2
  <2>4. phone[i].Timestamp <= phone[Len(phone)].Timestamp
    BY DEF StatusInv, ChatInv, WorkInv
  <2>5. QED
    BY <2>1, <2>2, <2>3, <2>4
<1>5. phone[Len(phone)].Timestamp > 0
  <2>1. v.Timestamp = phone[i].Timestamp /\ v.Timestamp - Main(copy).Timestamp > 7
    BY <1>1, <1>2 DEF DeleteAndResendThreshold
  <2> HIDE DEF v, copy
  <2>2. QED
    BY <1>3, <1>4, <2>1
<1>6. ~Kept
  BY <1>4, <1>5 DEF Kept, Resent, Last
<1>7. QED
  BY <1>1, <1>6, GoneStatus

(* A new message is sent: its rows are not the user's.                     *)
LEMMA NewStatus ==
  ASSUME MessageInv, StatusInv, Stays, NEW ok \in BOOLEAN, ConvertMessage(Chat, ok)
  PROVE  ChatInv' /\ KeptInv'
<1> DEFINE v == handler[Chat].v
           parts == ConvertGoogleMessage(v, TRUE, ok)
<1>1. ChatInv /\ KeptInv /\ Chat \in Convs
  BY ChatIs DEF StatusInv, MessageInv, PhoneType
<1>2. /\ handler[Chat].pc = "new" /\ handler' = [handler EXCEPT ![Chat] = Idle]
      /\ UNCHANGED <<scenario, phone, queue, statuses, pending, send, restarts>>
      /\ \A r \in rows' : r \in rows \/ \E i \in DOMAIN parts : \E n :
            r = Row(parts[i].ID, Chat, n, v, parts[i].meta)
  BY DEF ConvertMessage, sending, Done
<1>3. rows = {}
  BY <1>1, <1>2 DEF ChatInv, CopyInv
<1>4. v \in MessageType
  BY <1>1, <1>2 DEF MessageInv, HandlerType
<1>5. v.Timestamp \in Nat /\ phone # <<>>
  <2>1. PICK i \in 1..Len(phone) : v = phone[i]
    BY <1>1, <1>2 DEF ChatInv, WorkInv
  <2>2. QED
    BY <1>4, <2>1 DEF MessageType
<1>6. /\ DOMAIN parts = 1..Len(parts)
      /\ \A i \in 1..Len(parts) : NewMeta(parts[i].meta)
  <2>1. TRUE \in BOOLEAN
    OBVIOUS
  <2>2. QED
    BY <2>1, PartsMeta
<1> HIDE DEF parts, v
<1>7. ASSUME NEW r \in rows' PROVE IsRow(r) /\ r.meta.IsOutgoing = FALSE
  <2>1. PICK i \in 1..Len(parts) : \E n : r = Row(parts[i].ID, Chat, n, v, parts[i].meta)
    BY <1>2, <1>3, <1>6
  <2> DEFINE m == parts[i].meta
             id == parts[i].ID
  <2>2. NewMeta(m)
    BY <1>6
  <2>3. PICK n : r = Row(id, Chat, n, v, m)
    BY <2>1
  <2> HIDE DEF m, id
  <2>4. r.meta = m /\ r.Timestamp = v.Timestamp /\ DOMAIN r = RowFields
    BY <2>3 DEF Row, RowFields
  <2>5. QED
    BY <1>5, <2>2, <2>4 DEF IsRow, NewMeta
<1>8. /\ handler'[Chat].pc = "idle" /\ handler'[Chat].rows = {}
      /\ \A q \in Convs : q # Chat => handler'[q] = handler[q]
  <2>1. HandlerType /\ Idle.pc = "idle" /\ Idle.rows = {}
    BY DEF MessageInv, Idle
  <2>2. QED
    BY <1>1, <1>2, <2>1, HandlerMoves
<1>9. OnePortal' /\ PendingInv' /\ Chat' = Chat /\ Kept' = Kept /\ Edited' = Edited /\ ~pending
  BY <1>1, <1>2, <1>8, BusyStep
<1>10. WorkInv'
  BY <1>1, <1>2, <1>5, <1>7, <1>8, <1>9 DEF ChatInv, WorkInv
<1>11. Foreign(rows)' /\ ~Claimed(rows)' /\ Current' = rows'
  BY <1>7, <1>8, <1>9 DEF Foreign, Claimed, Users, Current
<1>12. CopyInv'
  BY <1>8, <1>9, <1>11 DEF CopyInv
<1>13. SuccessInv'
  <2>1. ~Unsent(Current)'
    BY <1>7, <1>11 DEF Unsent
  <2>2. QED
    BY <1>1, <1>2, <2>1, CountKept DEF ChatInv, SuccessInv
<1>14. ASSUME Kept' PROVE LateInv' /\ NoLateFailure' /\ SourceInv' /\ SourceIsUsers'
  <2>1. LateInv /\ NoLateFailure /\ SourceIsUsers
    BY <1>1, <1>9, <1>14 DEF KeptInv
  <2>2. ~Claimed(rows) /\ Current = rows
    BY <1>2, <1>3 DEF Claimed, Current
  <2>3. ~Told /\ send \in {"no", "failed"}
    BY <1>9, <2>1, <2>2 DEF LateInv
  <2>4. LateInv'
    BY <1>2, <2>3 DEF LateInv, Told
  <2>5. NoLateFailure'
    BY <1>2, <1>9, <2>1 DEF NoLateFailure
  <2>6. SourceIsUsers'
    BY <1>2, <1>9, <2>1 DEF SourceIsUsers, Echoed
  <2>7. SourceInv'
    BY <1>11 DEF SourceInv
  <2>8. QED
    BY <2>4, <2>5, <2>6, <2>7
<1>15. QED
  BY <1>9, <1>10, <1>12, <1>13, <1>14 DEF ChatInv, KeptInv
-----------------------------------------------------------------------------
(* SaveParts: the user's row is replaced by the handler's copy of it; of   *)
(* other rows, those the copy has.                                         *)
LEMMA SavedRows ==
  ASSUME NEW copy, NEW kept, kept = Updated(copy)
  PROVE  /\ kept \subseteq rows \cup copy
         /\ rows = {} => kept = {}
         /\ Claimed(rows) /\ Claimed(copy) => kept = copy
<1>1. \A r \in kept : \E s \in rows :
         r = IF \E c \in copy : c.rowid = s.rowid THEN CHOOSE c \in copy : c.rowid = s.rowid ELSE s
  BY DEF Updated
<1>2. \A r \in kept : r \in rows \/ r \in copy
  <2> SUFFICES ASSUME NEW r \in kept PROVE r \in rows \/ r \in copy
    OBVIOUS
  <2>1. PICK s \in rows :
           r = IF \E c \in copy : c.rowid = s.rowid THEN CHOOSE c \in copy : c.rowid = s.rowid ELSE s
    BY <1>1
  <2>2. CASE \E c \in copy : c.rowid = s.rowid
    <3>1. (CHOOSE c \in copy : c.rowid = s.rowid) \in copy
      BY <2>2
    <3>2. QED
      BY <2>1, <2>2, <3>1
  <2>3. CASE ~\E c \in copy : c.rowid = s.rowid
    BY <2>1, <2>3
  <2>4. QED
    BY <2>2, <2>3
<1>3. rows = {} => kept = {}
  BY DEF Updated
<1>4. ASSUME Claimed(rows), Claimed(copy) PROVE kept = copy
  <2>1. PICK r \in rows : rows = {r} /\ Users(r)
    BY <1>4 DEF Claimed
  <2>2. PICK c \in copy : copy = {c} /\ Users(c)
    BY <1>4 DEF Claimed
  <2>3. c.rowid = r.rowid
    BY <2>1, <2>2 DEF Users
  <2>4. (CHOOSE x \in copy : x.rowid = r.rowid) = c
    BY <2>2, <2>3
  <2>5. \A x : x \in kept <=> x = c
    BY <2>1, <2>2, <2>3, <2>4 DEF Updated
  <2>6. QED
    BY <2>2, <2>5
<1>5. QED
  BY <1>2, <1>3, <1>4

LEMMA SaveStatus ==
  ASSUME MessageInv, StatusInv, Stays, SaveParts(Chat)
  PROVE  ChatInv' /\ KeptInv'
<1> DEFINE copy == handler[Chat].rows
           place == IF handler[Chat].resync THEN "edit" ELSE "reactions"
<1>1. ChatInv /\ KeptInv /\ Chat \in Convs
  BY ChatIs DEF StatusInv, MessageInv, PhoneType
<1>2. /\ handler[Chat].pc = "save" /\ handler' = [handler EXCEPT ![Chat].pc = place]
      /\ rows' = Updated(copy)
      /\ UNCHANGED <<scenario, phone, queue, statuses, pending, send, restarts>>
  BY DEF SaveParts, sending, matrix
<1>3. /\ handler'[Chat].pc = place /\ handler'[Chat].v = handler[Chat].v
      /\ handler'[Chat].rows = copy /\ handler'[Chat].resync = handler[Chat].resync
      /\ \A q \in Convs : q # Chat => handler'[q] = handler[q]
  <2>1. HandlerType
    BY DEF MessageInv
  <2> HIDE DEF place
  <2>2. QED
    BY <1>1, <1>2, <2>1, HandlerMoves
<1>4. OnePortal' /\ PendingInv' /\ Chat' = Chat /\ Kept' = Kept /\ Edited' = Edited /\ ~pending
  BY <1>1, <1>2, <1>3, BusyStep
<1>5. /\ rows' \subseteq rows \cup copy
      /\ rows = {} => rows' = {}
      /\ Claimed(rows) /\ Claimed(copy) => rows' = copy
  BY <1>2, SavedRows
<1>6. \A set : Claimed(set)' = Claimed(set) /\ Foreign(set)' = Foreign(set)
  BY <1>2, KindKept
<1>7. /\ Claimed(rows)' <=> \E r \in rows' : rows' = {r} /\ Users(r)
      /\ Foreign(rows)' <=> \A r \in rows' : r.meta.IsOutgoing = FALSE
  BY <1>2, ScenarioKept DEF Claimed, Users, Foreign
<1>8. handler'[Chat].pc \in {"edit", "reactions"} /\ (handler'[Chat].pc = "edit" <=> handler[Chat].resync)
  BY <1>3
<1> HIDE DEF copy, place
<1>9. CASE Claimed(rows) /\ Claimed(copy)
  <2>1. rows' = copy
    BY <1>5, <1>9
  <2>2. Claimed(rows)'
    BY <1>7, <1>9, <2>1 DEF Claimed
  <2>3. Current = copy /\ Current' = copy
    BY <1>2, <1>4, <1>8, <2>1 DEF Current, copy
  <2>4. WorkInv'
    <3>1. \A r \in rows' \cup handler'[Chat].rows : IsRow(r)
      BY <1>1, <1>3, <2>1 DEF ChatInv, WorkInv, copy
    <3>2. phone # <<>> /\ copy # {}
      BY <1>1, <1>2, <1>9 DEF ChatInv, WorkInv, Claimed, copy
    <3>3. QED
      BY <1>1, <1>2, <1>3, <1>4, <1>8, <3>1, <3>2 DEF ChatInv, WorkInv, copy
  <2>5. CopyInv'
    <3>1. Claimed(handler[Chat].rows)'
      BY <1>3, <1>4, <2>1, <2>2 DEF Claimed, Users
    <3>2. QED
      BY <1>3, <1>4, <1>8, <2>1, <2>2, <3>1 DEF CopyInv
  <2>6. Unsent(Current)' = Unsent(Current)
    BY <2>3 DEF Unsent
  <2>7. SuccessInv'
    BY <1>1, <1>2, <2>6, CountKept DEF ChatInv, SuccessInv
  <2>8. ASSUME Kept' PROVE LateInv' /\ NoLateFailure' /\ SourceInv' /\ SourceIsUsers'
    <3>1. LateInv /\ NoLateFailure /\ SourceInv /\ SourceIsUsers
      BY <1>1, <1>4, <2>8 DEF KeptInv
    <3>2. Claimed(Current)'
      BY <2>1, <2>2, <2>3 DEF Claimed, Users
    <3>3. LateInv'
      BY <1>2, <2>2, <2>6, <3>1, <3>2 DEF LateInv, Told
    <3>4. NoLateFailure' /\ SourceIsUsers'
      BY <1>2, <1>4, <3>1 DEF NoLateFailure, SourceIsUsers, Echoed
    <3>5. SourceInv'
      BY <1>2, <1>4, <1>8, <1>9, <2>3, <3>1 DEF SourceInv, Same
    <3>6. QED
      BY <3>1, <3>3, <3>4, <3>5
  <2>9. QED
    BY <1>4, <2>4, <2>5, <2>7, <2>8 DEF ChatInv, KeptInv
<1>10. CASE Foreign(rows) /\ Foreign(copy)
  <2>1. Foreign(rows)' /\ ~Claimed(rows)' /\ Foreign(handler[Chat].rows)'
    BY <1>3, <1>4, <1>5, <1>7, <1>10 DEF Foreign, Claimed, Users
  <2>2. Current = copy /\ Current' = rows' /\ ~Claimed(copy) /\ ~Claimed(rows)
    BY <1>2, <1>4, <1>8, <1>10 DEF Current, copy, Foreign, Claimed, Users
  <2>3. WorkInv'
    <3>1. \A r \in rows' \cup handler'[Chat].rows : IsRow(r)
      BY <1>1, <1>3, <1>5 DEF ChatInv, WorkInv, copy
    <3>2. copy # {} /\ (rows' # {} => phone # <<>>)
      BY <1>1, <1>2, <1>5 DEF ChatInv, WorkInv, copy
    <3>3. QED
      BY <1>1, <1>2, <1>3, <1>4, <1>8, <3>1, <3>2 DEF ChatInv, WorkInv, copy
  <2>4. CopyInv'
    BY <1>4, <1>8, <2>1 DEF CopyInv
  <2>5. SuccessInv'
    <3>1. ~Unsent(Current)'
      BY <2>1, <2>2 DEF Unsent, Foreign
    <3>2. QED
      BY <1>1, <1>2, <3>1, CountKept DEF ChatInv, SuccessInv
  <2>6. ASSUME Kept' PROVE LateInv' /\ NoLateFailure' /\ SourceInv' /\ SourceIsUsers'
    <3>1. LateInv /\ NoLateFailure /\ SourceInv /\ SourceIsUsers
      BY <1>1, <1>4, <2>6 DEF KeptInv
    <3>2. LateInv'
      BY <1>2, <1>4, <2>2, <3>1 DEF LateInv, Told
    <3>3. NoLateFailure' /\ SourceIsUsers'
      BY <1>2, <1>4, <3>1 DEF NoLateFailure, SourceIsUsers, Echoed
    <3>4. SourceInv'
      BY <2>1 DEF SourceInv
    <3>5. QED
      BY <3>1, <3>2, <3>3, <3>4
  <2>7. QED
    BY <1>4, <2>3, <2>4, <2>5, <2>6 DEF ChatInv, KeptInv
<1>11. (Claimed(rows) /\ Claimed(copy)) \/ (Foreign(rows) /\ Foreign(copy))
  BY <1>1, <1>2 DEF ChatInv, CopyInv, copy
<1>12. QED
  BY <1>9, <1>10, <1>11
-----------------------------------------------------------------------------
(* HandleExisting changes the main row's flags, and reports a success or a *)
(* failure, or nothing.                                                    *)
LEMMA ChangedIs ==
  ASSUME NEW main, IsRow(main), NEW v, NEW p
  PROVE  LET changed == [main EXCEPT !.meta = MetaAfter(main.meta, v, p)] IN
         /\ IsRow(changed) /\ (Users(main) => Users(changed))
         /\ changed.meta.IsOutgoing = main.meta.IsOutgoing
         /\ changed.meta.MSSSent <=> (main.meta.MSSSent \/ needsMSSEvent(main.meta, v))
         /\ \A w : Same(main, w) => Same(changed, w)
<1> DEFINE after == MetaAfter(main.meta, v, p)
           changed == [main EXCEPT !.meta = after]
           meta == main.meta
<1>1. DOMAIN main = RowFields /\ DOMAIN meta = MetaFields /\ main.Timestamp \in Nat
  BY DEF IsRow
<1>2. /\ DOMAIN after = MetaFields
      /\ after.IsOutgoing = meta.IsOutgoing /\ after.OrigMXID = meta.OrigMXID
      /\ after.GlobalMediaStatus = meta.GlobalMediaStatus /\ after.MediaPending = meta.MediaPending
      /\ after.TextHash = meta.TextHash /\ after.GlobalPartCount = meta.GlobalPartCount
      /\ after.MSSSent <=> (meta.MSSSent \/ needsMSSEvent(meta, v))
  BY <1>1, AfterIs
<1> HIDE DEF after
<1>3. /\ DOMAIN changed = RowFields /\ changed.meta = after /\ changed.Timestamp = main.Timestamp
      /\ changed.PartID = main.PartID /\ changed.Room = main.Room /\ changed.MXID = main.MXID
      /\ changed.rowid = main.rowid
  BY <1>1 DEF RowFields
<1> HIDE DEF changed
<1>4. IsRow(changed)
  BY <1>1, <1>2, <1>3 DEF IsRow
<1>5. Users(main) => Users(changed)
  BY <1>2, <1>3 DEF Users
<1>6. \A w : Same(main, w) => Same(changed, w)
  BY <1>2, <1>3 DEF Same
<1>7. QED
  BY <1>2, <1>3, <1>4, <1>5, <1>6 DEF changed, after

LEMMA SentIs ==
  ASSUME NEW S, statuses \in Seq(S), NEW main, NEW v, statuses' = statuses \o StatusSent(main, v)
  PROVE  \/ ~needsMSSEvent(main.meta, v) /\ UNCHANGED statuses
         \/ \E x : /\ statuses' = statuses \o <<x>> /\ x.source = GetOrigMXID(main)
                   /\ x.kind = "success" <=> needsMSSEvent(main.meta, v)
                   /\ ~main.meta.MSSSent
<1> DEFINE s == GetOrigMXID(main)
<1>1. CASE needsMSSEvent(main.meta, v)
  <2> DEFINE x == [kind |-> "success", source |-> s]
  <2>1. statuses' = statuses \o <<x>> /\ x.source = s /\ x.kind = "success"
    BY <1>1 DEF StatusSent
  <2>2. ~main.meta.MSSSent
    BY <1>1 DEF needsMSSEvent
  <2> HIDE DEF x, s
  <2>3. QED
    BY <1>1, <2>1, <2>2 DEF s
<1>2. CASE ~needsMSSEvent(main.meta, v) /\ needsMSSFailureEvent(main.meta, v)
  <2> DEFINE k == wrapStatusInError(v.Status)
             x == [kind |-> k, source |-> s]
  <2>1. k # "success"
    BY DEF wrapStatusInError
  <2>2. statuses' = statuses \o <<x>> /\ x.source = s /\ x.kind = k
    BY <1>2 DEF StatusSent
  <2>3. ~main.meta.MSSSent
    BY <1>2 DEF needsMSSFailureEvent
  <2> HIDE DEF x, s, k
  <2>4. QED
    BY <1>2, <2>1, <2>2, <2>3 DEF s
<1>3. CASE ~needsMSSEvent(main.meta, v) /\ ~needsMSSFailureEvent(main.meta, v)
  <2>1. statuses' = statuses \o <<>>
    BY <1>3 DEF StatusSent
  <2>2. statuses \o <<>> = statuses
    BY ConcatEmptySeq
  <2>3. QED
    BY <1>3, <2>1, <2>2
<1>4. QED
  BY <1>1, <1>2, <1>3

LEMMA ExistingStatus ==
  ASSUME MessageInv, StatusInv, Stays, HandleExisting(Chat)
  PROVE  ChatInv' /\ KeptInv'
<1> DEFINE v == handler[Chat].v
           copy == handler[Chat].rows
           main == Main(copy)
           changed == [main EXCEPT !.meta = MetaAfter(main.meta, v, Chat)]
           new == (copy \ {main}) \cup {changed}
           resync == doMessageResync(copy, v, Chat)
           sent == needsMSSEvent(main.meta, v)
           n == Len(statuses)
<1>1. ChatInv /\ KeptInv /\ Chat \in Convs
  BY ChatIs DEF StatusInv, MessageInv, PhoneType
<1>2. /\ handler[Chat].pc = "existing"
      /\ UNCHANGED <<scenario, phone, queue, rows, pending, send, restarts>>
  BY DEF HandleExisting, sending
<1>3. CASE NothingChanged(copy, v, Chat)
  <2>1. handler' = [handler EXCEPT ![Chat].pc = "reactions"] /\ UNCHANGED statuses
    BY <1>3 DEF HandleExisting
  <2>2. QED
    BY <1>2, <2>1, LeaveStatus
<1>4. CASE ~NothingChanged(copy, v, Chat)
  <2>1. /\ handler' = [handler EXCEPT ![Chat].pc = "save", ![Chat].rows = new, ![Chat].resync = resync]
        /\ statuses' = statuses \o StatusSent(main, v)
    BY <1>4 DEF HandleExisting
  <2>2. copy = rows /\ copy # {}
    BY <1>1, <1>2 DEF ChatInv, CopyInv, WorkInv
  <2>3. main \in copy /\ IsRow(main)
    BY <1>1, <2>2, MainIs DEF ChatInv, WorkInv
  <2>4. PICK k \in 1..Len(phone) : v = phone[k]
    BY <1>1, <1>2 DEF ChatInv, WorkInv
  <2>5. /\ IsRow(changed) /\ (Users(main) => Users(changed))
        /\ changed.meta.IsOutgoing = main.meta.IsOutgoing
        /\ changed.meta.MSSSent <=> (main.meta.MSSSent \/ sent)
        /\ \A w : Same(main, w) => Same(changed, w)
    BY <2>3, ChangedIs
  <2>6. sent => main.meta.IsOutgoing /\ ~main.meta.MSSSent
    BY DEF needsMSSEvent
  <2>7. (Users(main) /\ copy = {main} /\ Same(main, v) /\ downloadPendingStatusMessage(v.Status) = "") => ~resync
    BY DEF doMessageResync, chatIDChanged, HasPendingMedia, MessageWasEdited, Users, Same
  <2>8. (Users(main) /\ (scenario.reid => main.meta.OrigMXID = 1)) => GetOrigMXID(main) = 1
    BY DEF GetOrigMXID, Users, UserMXID
  <2>9. /\ handler'[Chat].pc = "save" /\ handler'[Chat].v = handler[Chat].v
        /\ handler'[Chat].rows = new /\ handler'[Chat].resync = resync
        /\ \A q \in Convs : q # Chat => handler'[q] = handler[q]
    <3>1. DOMAIN handler = Convs /\ DOMAIN handler[Chat] = {"pc", "v", "rows", "resync"}
      BY <1>1 DEF MessageInv, HandlerType
    <3> HIDE DEF new, resync
    <3>2. ASSUME NEW a, NEW b, handler' = [handler EXCEPT ![Chat].pc = "save", ![Chat].rows = a, ![Chat].resync = b]
          PROVE  /\ handler'[Chat].pc = "save" /\ handler'[Chat].v = handler[Chat].v
                 /\ handler'[Chat].rows = a /\ handler'[Chat].resync = b
                 /\ \A q \in Convs : q # Chat => handler'[q] = handler[q]
      BY ONLY <1>1, <3>1, <3>2
    <3>3. QED
      BY <2>1, <3>2
  <2>10. PICK S : statuses \in Seq(S)
    BY <1>1 DEF ChatInv, SuccessInv
  <2>11. \/ ~sent /\ UNCHANGED statuses
         \/ \E x : /\ statuses' = statuses \o <<x>> /\ x.source = GetOrigMXID(main)
                   /\ x.kind = "success" <=> sent
                   /\ ~main.meta.MSSSent
    BY <2>1, <2>10, SentIs
  <2> HIDE DEF main, changed, resync, sent, v, copy
  <2>12. OnePortal' /\ PendingInv' /\ Chat' = Chat /\ Kept' = Kept /\ Edited' = Edited /\ ~pending
    BY <1>1, <1>2, <2>9, BusyStep
  <2>13. Current = rows /\ Current' = new
    BY <1>2, <2>9, <2>12 DEF Current
  <2>14. \A set : Claimed(set)' = Claimed(set) /\ Foreign(set)' = Foreign(set)
    BY <1>2, KindKept
  <2>15. Claimed(rows)' = Claimed(rows) /\ Foreign(rows)' = Foreign(rows)
    BY <1>2, <2>12, ScenarioKept DEF Claimed, Users, Foreign
  <2>16. Claimed(rows) => rows = {main} /\ Users(main) /\ new = {changed}
    BY <2>2, <2>3 DEF Claimed
  <2>17. Foreign(rows) => ~sent /\ Foreign(new) /\ ~Claimed(rows)
    <3>1. Foreign(rows) => main.meta.IsOutgoing = FALSE
      BY <2>2, <2>3 DEF Foreign
    <3>2. Foreign(rows) => ~sent
      BY <2>6, <3>1
    <3>3. Foreign(rows) => Foreign(new)
      BY <2>2, <2>5, <3>1 DEF Foreign
    <3>4. Foreign(rows) => ~Claimed(rows)
      BY <2>2, <2>3, <3>1 DEF Claimed, Users
    <3>5. QED
      BY <3>2, <3>3, <3>4
  <2>18. Claimed(rows) \/ Foreign(rows)
    BY <1>1 DEF ChatInv, CopyInv
  <2>19. Claimed(rows) => Claimed(new)
    BY <2>5, <2>16 DEF Claimed
  <2>20. /\ Claimed(handler[Chat].rows)' = Claimed(new) /\ Foreign(handler[Chat].rows)' = Foreign(new)
         /\ Claimed(Current)' = Claimed(new)
    <3>1. Chat' = Chat /\ UserMXID' = UserMXID /\ handler'[Chat].rows = new /\ Current' = new
      BY <1>2, <2>9, <2>13, ScenarioKept
    <3> HIDE DEF new
    <3>2. Claimed(handler[Chat].rows)' = Claimed(new) /\ Claimed(Current)' = Claimed(new)
      BY <1>2, <3>1 DEF Claimed, Users
    <3>3. Foreign(handler[Chat].rows)' = Foreign(new)
      BY <3>1 DEF Foreign
    <3>4. QED
      BY <3>2, <3>3
  <2>21. WorkInv'
    <3>1. \A r \in rows' \cup handler'[Chat].rows : IsRow(r)
      BY <1>1, <1>2, <2>2, <2>5, <2>9 DEF ChatInv, WorkInv
    <3>2. new # {}
      OBVIOUS
    <3>3. QED
      BY <1>1, <1>2, <2>9, <2>12, <3>1, <3>2 DEF ChatInv, WorkInv
  <2>22. CopyInv'
    BY <1>2, <2>9, <2>12, <2>15, <2>17, <2>18, <2>19, <2>20 DEF CopyInv
  <2>23. /\ Claimed(rows) => (Unsent(Current) <=> ~main.meta.MSSSent)
         /\ Claimed(rows) => (Unsent(Current)' <=> ~changed.meta.MSSSent)
         /\ Foreign(rows) => ~Unsent(Current)'
    <3>1. Unsent(Current)' <=> \E r \in new : r.meta.IsOutgoing = TRUE /\ ~r.meta.MSSSent
      BY <2>13 DEF Unsent
    <3>2. Claimed(rows) => main.meta.IsOutgoing = TRUE /\ changed.meta.IsOutgoing = TRUE
      BY <2>5, <2>16 DEF Users
    <3>3. Claimed(rows) => (Unsent(Current) <=> ~main.meta.MSSSent)
      BY <2>13, <2>16, <3>2 DEF Unsent
    <3>4. Claimed(rows) => (Unsent(Current)' <=> ~changed.meta.MSSSent)
      BY <2>16, <3>1, <3>2
    <3>5. Foreign(rows) => ~Unsent(Current)'
      BY <2>17, <3>1 DEF Foreign
    <3>6. QED
      BY <3>3, <3>4, <3>5
  <2> HIDE DEF new, n
  <2>24. SuccessInv'
    <3>1. /\ Count("success") \in Nat
          /\ sent => Count("success")' = Count("success") + 1
          /\ ~sent => Count("success")' = Count("success")
          /\ \E T : statuses' \in Seq(T)
      <4>1. CASE ~sent /\ UNCHANGED statuses
        BY <2>10, <4>1, CountKept, CountNat
      <4>2. CASE \E x : statuses' = statuses \o <<x>> /\ (x.kind = "success" <=> sent)
        <5>1. PICK x : statuses' = statuses \o <<x>> /\ (x.kind = "success" <=> sent)
          BY <4>2
        <5>2. QED
          BY <2>10, <5>1, CountAdded, StatusAdded
      <4>3. QED
        BY <2>11, <4>1, <4>2
    <3>2. Count("success") <= 1 + restarts /\ (Unsent(Current) => Count("success") <= restarts)
      BY <1>1 DEF ChatInv, SuccessInv
    <3>3. restarts \in Nat /\ restarts' = restarts
      BY <1>2 DEF MessageInv, ShownType
    <3>4. sent => Claimed(rows) /\ Unsent(Current) /\ ~Unsent(Current)'
      BY <2>5, <2>6, <2>17, <2>18, <2>23
    <3>5. ~sent => (Unsent(Current)' => Unsent(Current))
      BY <2>5, <2>18, <2>23
    <3>6. CASE sent
      <4>1. Count("success")' <= 1 + restarts
        BY <3>1, <3>2, <3>3, <3>4, <3>6
      <4>2. QED
        BY <3>1, <3>3, <3>4, <3>6, <4>1 DEF SuccessInv
    <3>7. CASE ~sent
      BY <3>1, <3>2, <3>3, <3>5, <3>7 DEF SuccessInv
    <3>8. QED
      BY <3>6, <3>7
  <2>25. ASSUME Kept' PROVE LateInv' /\ NoLateFailure' /\ SourceInv' /\ SourceIsUsers'
    <3>1. LateInv /\ NoLateFailure /\ SourceInv /\ SourceIsUsers
      BY <1>1, <2>12, <2>25 DEF KeptInv
    <3>2. Told => Claimed(rows) /\ main.meta.MSSSent /\ ~sent /\ UNCHANGED statuses
      <4>1. Told => Claimed(rows) /\ main.meta.MSSSent
        BY <2>13, <2>23, <3>1 DEF LateInv
      <4>2. main.meta.MSSSent => ~sent /\ UNCHANGED statuses
        BY <2>6, <2>11
      <4>3. QED
        BY <4>1, <4>2
    <3>3. SourceInv'
      <4> SUFFICES ASSUME scenario.reid, ~Edited, Claimed(rows)
                   PROVE  (\A r \in new : \A i \in 1..Len(phone) : Same(r, phone[i])) /\ ~resync
        BY <1>2, <2>9, <2>12, <2>13, <2>15 DEF SourceInv, Same
      <4>1. \A i \in 1..Len(phone) : Same(main, phone[i])
        BY <2>13, <2>16, <3>1 DEF SourceInv
      <4>2. downloadPendingStatusMessage(v.Status) = ""
        BY <2>4, LenProperties DEF Edited, MessageInv, PhoneType
      <4>3. ~resync
        BY <2>2, <2>4, <2>7, <2>16, <4>1, <4>2
      <4>4. QED
        BY <2>5, <2>16, <4>1, <4>3
    <3>4. CASE UNCHANGED statuses
      <4>1. LateInv'
        <5>1. ~sent => (changed.meta.MSSSent <=> main.meta.MSSSent)
          BY <2>5
        <5>2. Told' => Claimed(Current)' /\ ~Unsent(Current)'
          BY <2>5, <2>19, <2>20, <2>23, <3>2, <3>4 DEF Told
        <5>3. QED
          BY <1>2, <2>15, <3>1, <5>2 DEF LateInv
      <4>2. NoLateFailure' /\ SourceIsUsers'
        BY <1>2, <2>12, <3>1, <3>4 DEF NoLateFailure, SourceIsUsers, Echoed
      <4>3. QED
        BY <3>3, <4>1, <4>2
    <3>5. CASE ~UNCHANGED statuses
      <4>1. ~Told
        BY <3>2, <3>5
      <4>2. PICK x : /\ statuses' = statuses \o <<x>> /\ x.source = GetOrigMXID(main)
                     /\ x.kind = "success" <=> sent
        BY <2>11, <3>5
      <4>3. /\ n \in Nat /\ Len(statuses') = n + 1
            /\ DOMAIN statuses = 1..n /\ DOMAIN statuses' = 1..Len(statuses')
            /\ \A i \in 1..n : statuses'[i] = statuses[i]
            /\ statuses'[n + 1] = x
        BY <2>10, <4>2, StatusAdded DEF n
      <4>4. \A i : i \in 1..n + 1 <=> i \in 1..n \/ i = n + 1
        BY <4>3
      <4>5. \A i \in 1..n : statuses'[i].kind # "success"
        BY <4>1, <4>3 DEF Told, n
      <4>6. LateInv'
        <5>1. Told' => sent
          BY <4>2, <4>3, <4>4, <4>5 DEF Told
        <5>2. Told' => Claimed(Current)' /\ ~Unsent(Current)'
          BY <2>5, <2>17, <2>18, <2>19, <2>20, <2>23, <5>1
        <5>3. QED
          BY <1>2, <2>15, <3>1, <5>2 DEF LateInv
      <4>7. NoLateFailure'
        <5> SUFFICES ASSUME NEW i \in DOMAIN statuses', NEW j \in DOMAIN statuses', i < j,
                            statuses'[i].kind = "success"
                     PROVE  FALSE
          BY DEF NoLateFailure
        <5>1. i = n + 1 /\ j \in 1..n + 1
          BY <4>3, <4>4, <4>5
        <5>2. QED
          BY <4>3, <5>1
      <4>8. SourceIsUsers'
        <5> SUFFICES ASSUME Echoed', ~(scenario.reid /\ Edited)
                     PROVE  \A i \in 1..n + 1 : statuses'[i].source = 1
          BY <1>2, <2>12, <4>3 DEF SourceIsUsers
        <5>1. Echoed /\ Claimed(rows)
          BY <1>2, <2>12, <3>1 DEF Echoed, LateInv
        <5>2. \A i \in 1..n : statuses[i].source = 1
          BY <3>1, <4>3, <5>1 DEF SourceIsUsers
        <5>3. scenario.reid => main.meta.OrigMXID = 1
          <6> SUFFICES ASSUME scenario.reid PROVE main.meta.OrigMXID = 1
            OBVIOUS
          <6>1. Same(main, phone[k])
            BY <2>4, <2>13, <2>16, <3>1, <5>1 DEF SourceInv
          <6>2. QED
            BY <6>1 DEF Same
        <5>4. x.source = 1
          BY <2>8, <2>16, <4>2, <5>1, <5>3
        <5>5. QED
          BY <4>3, <4>4, <5>2, <5>4
      <4>9. QED
        BY <3>3, <4>6, <4>7, <4>8
    <3>6. QED
      BY <3>4, <3>5
  <2>26. QED
    BY <2>12, <2>21, <2>22, <2>24, <2>25 DEF ChatInv, KeptInv
<1>5. QED
  BY <1>3, <1>4
-----------------------------------------------------------------------------
LEMMA EditedIs ==
  ASSUME NEW r, IsRow(r), NEW p, NEW id, NEW meta, DOMAIN meta = MetaFields
  PROVE  LET new == EditedRow(r, p, id, meta) IN
         /\ IsRow(new) /\ new.meta = meta /\ new.Room = p /\ new.MXID = id
         /\ new.PartID = r.PartID /\ new.rowid = r.rowid
<1> DEFINE new == EditedRow(r, p, id, meta)
<1>1. DOMAIN r = RowFields /\ r.Timestamp \in Nat
  BY DEF IsRow
<1>2. new = [r EXCEPT !.Room = p, !.MXID = id, !.meta = meta]
  BY DEF EditedRow
<1> HIDE DEF new
<1>3. /\ DOMAIN new = RowFields /\ new.meta = meta /\ new.Room = p /\ new.MXID = id
      /\ new.PartID = r.PartID /\ new.rowid = r.rowid /\ new.Timestamp = r.Timestamp
  BY <1>1, <1>2 DEF RowFields
<1>4. QED
  BY <1>1, <1>3 DEF IsRow, new

(* ConvertEdit of a message of the user's own keeps its one row, the event *)
(* it stands for and its flags; other rows stay what they are.             *)
LEMMA EditRows ==
  ASSUME Stays, NEW ok \in BOOLEAN, ConvertEdit(Chat, ok), handler[Chat].v \in MessageType,
         \A r \in rows \cup handler[Chat].rows : IsRow(r), handler[Chat].rows # {}
  PROVE  /\ (Foreign(rows) /\ Foreign(handler[Chat].rows))
                => \A r \in rows' : IsRow(r) /\ r.meta.IsOutgoing = FALSE
         /\ \A r : (rows = {r} /\ handler[Chat].rows = {r} /\ Users(r)) =>
               \E new : /\ rows' = {new} /\ Users(new) /\ IsRow(new)
                        /\ new.meta.MSSSent = r.meta.MSSSent
<1> DEFINE v == handler[Chat].v
           copy == handler[Chat].rows
           parts == ConvertGoogleMessage(v, Cardinality(copy) = 1, ok)
           main == Main(copy)
           Meta(i) == IF i = 1 THEN KeepFlags(main.meta, parts[i].meta) ELSE parts[i].meta
           RowOf(i) == CHOOSE r \in copy : r.PartID = parts[i].ID
           moved(r) == r.Room # Chat
           edited == {i \in DOMAIN parts : ~AddedPart(copy, parts[i])}
           sentNew == {i \in DOMAIN parts : IF i \in edited THEN moved(RowOf(i))
                                            ELSE MayAddPart(Chat, copy)}
           MXIDOf(i) == IF i \in sentNew
                        THEN Len(events) + Cardinality({j \in sentNew : j <= i})
                        ELSE RowOf(i).MXID
           editedRows == {EditedRow(RowOf(i), Chat, MXIDOf(i), Meta(i)) : i \in edited}
           deleted == {r \in copy : \A i \in DOMAIN parts : parts[i].ID # r.PartID}
           added == {i \in sentNew \ edited : \A r \in rows : r.PartID # parts[i].ID}
<1>1. /\ parts # <<>>
      /\ rows' = (Updated(editedRows) \ {r \in rows : \E d \in deleted : d.rowid = r.rowid})
                 \cup {Row(parts[i].ID, Chat, MXIDOf(i), v, Meta(i)) : i \in added}
  BY Zenon DEF ConvertEdit
<1>2. /\ DOMAIN parts = 1..Len(parts) /\ Len(parts) > 0 /\ parts[1].ID = "" /\ Len(parts) \in Nat
      /\ \A i \in 1..Len(parts) : NewMeta(parts[i].meta)
      /\ Cardinality(copy) = 1 => Len(parts) = 1
  <2>1. (Cardinality(copy) = 1) \in BOOLEAN
    OBVIOUS
  <2>2. /\ Len(parts) \in 0..2 /\ DOMAIN parts = 1..Len(parts)
        /\ \A i \in 1..Len(parts) : NewMeta(parts[i].meta)
        /\ parts # <<>> => Len(parts) > 0 /\ parts[1].ID = ""
        /\ Cardinality(copy) = 1 => Len(parts) \in 0..1
    BY <2>1, PartsMeta
  <2>3. parts # <<>>
    BY <1>1
  <2> DEFINE n == Len(parts)
             one == Cardinality(copy) = 1
  <2>4. n \in 0..2 /\ n > 0 /\ (one => n \in 0..1)
    BY <2>2, <2>3
  <2> HIDE DEF n, one
  <2>5. n \in Nat /\ (one => n = 1)
    BY <2>4
  <2>6. QED
    BY <2>2, <2>3, <2>4, <2>5 DEF n, one
<1> HIDE DEF parts
<1>3. main \in copy /\ v.Timestamp \in Nat /\ IsRow(main)
  BY MainIs DEF MessageType
<1>4. \A i \in edited : RowOf(i) \in copy /\ RowOf(i).PartID = parts[i].ID
  BY DEF AddedPart
<1>5. \A i \in 1..Len(parts) : DOMAIN Meta(i) = MetaFields
  BY <1>2, FlagsKept DEF NewMeta
<1>6. ASSUME Foreign(rows), Foreign(copy)
      PROVE  \A r \in rows' : IsRow(r) /\ r.meta.IsOutgoing = FALSE
  <2>1. \A i \in 1..Len(parts) : Meta(i).IsOutgoing = FALSE
    BY <1>2, <1>3, <1>6, FlagsKept DEF NewMeta, Foreign
  <2>2. ASSUME NEW e \in editedRows PROVE IsRow(e) /\ e.meta.IsOutgoing = FALSE
    <3>1. PICK i \in edited : e = EditedRow(RowOf(i), Chat, MXIDOf(i), Meta(i))
      OBVIOUS
    <3>2. i \in 1..Len(parts) /\ IsRow(RowOf(i))
      BY <1>2, <1>4
    <3>3. DOMAIN Meta(i) = MetaFields /\ Meta(i).IsOutgoing = FALSE
      BY <1>5, <2>1, <3>2
    <3> DEFINE m == Meta(i)
               s == RowOf(i)
               id == MXIDOf(i)
    <3>4. e = EditedRow(s, Chat, id, m) /\ DOMAIN m = MetaFields /\ m.IsOutgoing = FALSE /\ IsRow(s)
      BY <3>1, <3>2, <3>3
    <3> HIDE DEF m, s, id, editedRows
    <3>5. QED
      BY <3>4, EditedIs
  <2>3. \A r \in Updated(editedRows) : r \in rows \/ r \in editedRows
    <3> HIDE DEF editedRows
    <3>1. QED
      BY SavedRows
  <2>4. ASSUME NEW i \in added
        PROVE  LET r == Row(parts[i].ID, Chat, MXIDOf(i), v, Meta(i))
               IN  IsRow(r) /\ r.meta.IsOutgoing = FALSE
    <3>1. i \in 1..Len(parts)
      BY <1>2
    <3>2. DOMAIN Meta(i) = MetaFields /\ Meta(i).IsOutgoing = FALSE
      BY <1>5, <2>1, <3>1
    <3> DEFINE m == Meta(i)
               id == MXIDOf(i)
               part == parts[i].ID
    <3> HIDE DEF m, id, part, v
    <3> DEFINE r == Row(part, Chat, id, v, m)
    <3>3. r.meta = m /\ r.Timestamp = v.Timestamp /\ DOMAIN r = RowFields
      BY DEF Row, RowFields
    <3> HIDE DEF r
    <3>4. IsRow(r) /\ r.meta.IsOutgoing = FALSE
      BY <1>3, <3>2, <3>3 DEF IsRow, m
    <3>5. QED
      BY <3>4 DEF r, m, id, part
  <2>5. \A r \in rows : IsRow(r) /\ r.meta.IsOutgoing = FALSE
    BY <1>6 DEF Foreign
  <2> HIDE DEF editedRows, deleted, added, v, Meta, MXIDOf
  <2>6. \A r \in rows' : \/ r \in Updated(editedRows)
                         \/ \E i \in added : r = Row(parts[i].ID, Chat, MXIDOf(i), v, Meta(i))
    BY <1>1
  <2>7. QED
    BY <2>2, <2>3, <2>4, <2>5, <2>6
<1>7. ASSUME NEW r, rows = {r}, copy = {r}, Users(r)
      PROVE  \E new : /\ rows' = {new} /\ Users(new) /\ IsRow(new)
                      /\ new.meta.MSSSent = r.meta.MSSSent
  <2>1. Cardinality(copy) = 1
    BY <1>7, FS_Singleton
  <2>2. DOMAIN parts = {1} /\ \A i \in DOMAIN parts : i = 1
    <3>1. DOMAIN parts = 1..1
      BY <1>2, <2>1
    <3>2. 1..1 = {1}
      OBVIOUS
    <3>3. QED
      BY <3>1, <3>2
  <2>3. main = r /\ r.PartID = "" /\ r.Room = Chat
    BY <1>3, <1>7 DEF Users
  <2>4. edited = {1}
    BY <1>2, <1>7, <2>2, <2>3 DEF AddedPart
  <2>5. RowOf(1) = r
    BY <1>4, <1>7, <2>4
  <2>6. sentNew = {}
    <3> HIDE DEF RowOf
    <3>1. ~moved(RowOf(1)) /\ 1 \in edited
      BY <2>3, <2>4, <2>5
    <3> HIDE DEF edited, moved
    <3>2. QED
      BY <2>2, <3>1
  <2>7. added = {} /\ deleted = {}
    <3>1. deleted = {}
      BY <1>2, <1>7, <2>2, <2>3
    <3> HIDE DEF sentNew
    <3>2. QED
      BY <2>6, <3>1
  <2>8. MXIDOf(1) = r.MXID
    <3> HIDE DEF sentNew, RowOf
    <3>1. QED
      BY <2>5, <2>6
  <2> DEFINE m == KeepFlags(main.meta, parts[1].meta)
             new == EditedRow(r, Chat, r.MXID, m)
  <2>9. editedRows = {new}
    <3> HIDE DEF RowOf, MXIDOf, edited
    <3>1. editedRows = {EditedRow(RowOf(1), Chat, MXIDOf(1), Meta(1))}
      BY <2>4
    <3>2. Meta(1) = m
      OBVIOUS
    <3> HIDE DEF m, Meta, editedRows
    <3>3. QED
      BY <2>5, <2>8, <3>1, <3>2
  <2>10. /\ DOMAIN m = MetaFields /\ m.IsOutgoing = r.meta.IsOutgoing
         /\ m.MSSSent = r.meta.MSSSent /\ m.OrigMXID = 0
    <3>1. NewMeta(parts[1].meta)
      <4>1. 1 \in 1..Len(parts)
        <5> DEFINE n == Len(parts)
        <5>1. n \in Nat /\ n > 0
          BY <1>2
        <5> HIDE DEF n
        <5>2. 1 \in 1..n
          BY <5>1
        <5>3. QED
          BY <5>2 DEF n
      <4>2. QED
        BY <1>2, <4>1
    <3>2. QED
      BY <2>3, <3>1, FlagsKept DEF NewMeta
  <2> HIDE DEF m
  <2>11. /\ IsRow(new) /\ new.meta = m /\ new.Room = Chat /\ new.MXID = r.MXID
         /\ new.PartID = r.PartID /\ new.rowid = r.rowid
    BY <1>7, <2>10, EditedIs
  <2> HIDE DEF new, editedRows, added, deleted
  <2>12. Users(new)
    BY <1>7, <2>3, <2>10, <2>11 DEF Users
  <2>13. Updated(editedRows) = {new}
    <3>1. Claimed(rows) /\ Claimed(editedRows)
      BY <1>7, <2>9, <2>12 DEF Claimed
    <3>2. QED
      BY <2>9, <3>1, SavedRows
  <2>14. rows' = {new}
    BY <1>1, <2>7, <2>13
  <2>15. QED
    BY <2>10, <2>11, <2>12, <2>14
<1>8. QED
  BY <1>6, <1>7 DEF copy

LEMMA EditStatus ==
  ASSUME MessageInv, StatusInv, Stays, HandleEdit(Chat)
  PROVE  ChatInv' /\ KeptInv'
<1> DEFINE copy == handler[Chat].rows
<1>1. ChatInv /\ KeptInv /\ Chat \in Convs
  BY ChatIs DEF StatusInv, MessageInv, PhoneType
<1>2. /\ handler[Chat].pc = "edit" /\ handler' = [handler EXCEPT ![Chat].pc = "reactions"]
      /\ UNCHANGED <<scenario, phone, queue, statuses, pending, send, restarts>>
  BY DEF HandleEdit, sending
<1>3. PICK ok \in BOOLEAN : ConvertEdit(Chat, ok)
  BY DEF HandleEdit
<1>4. /\ handler'[Chat].pc = "reactions" /\ handler'[Chat].v = handler[Chat].v
      /\ handler'[Chat].rows = handler[Chat].rows
      /\ \A q \in Convs : q # Chat => handler'[q] = handler[q]
  <2>1. HandlerType
    BY DEF MessageInv
  <2>2. QED
    BY <1>1, <1>2, <2>1, HandlerMoves
<1>5. OnePortal' /\ PendingInv' /\ Chat' = Chat /\ Kept' = Kept /\ Edited' = Edited /\ ~pending
  BY <1>1, <1>2, <1>4, BusyStep
<1>6. /\ \A r \in rows \cup copy : IsRow(r)
      /\ copy # {} /\ phone # <<>>
  <2>1. \E i \in 1..Len(phone) : handler[Chat].v = phone[i]
    BY <1>1, <1>2 DEF ChatInv, WorkInv
  <2>2. phone # <<>>
    BY <2>1
  <2>3. QED
    BY <1>1, <1>2, <2>2 DEF ChatInv, WorkInv
<1>7. /\ (Foreign(rows) /\ Foreign(copy)) => \A r \in rows' : IsRow(r) /\ r.meta.IsOutgoing = FALSE
      /\ \A r : (rows = {r} /\ copy = {r} /\ Users(r)) =>
               \E new : /\ rows' = {new} /\ Users(new) /\ IsRow(new)
                        /\ new.meta.MSSSent = r.meta.MSSSent
  <2>1. handler[Chat].v \in MessageType
    BY <1>1, <1>2 DEF MessageInv, HandlerType
  <2>2. QED
    BY <1>3, <1>6, <2>1, EditRows
<1>8. Current = rows /\ Current' = rows'
  BY <1>2, <1>4, <1>5 DEF Current
<1>9. /\ Claimed(rows)' <=> \E r \in rows' : rows' = {r} /\ Users(r)
      /\ Foreign(rows)' <=> \A r \in rows' : r.meta.IsOutgoing = FALSE
  BY <1>2, ScenarioKept DEF Claimed, Users, Foreign
<1>10. /\ (\A r \in rows' : IsRow(r)) => WorkInv'
       /\ Claimed(rows)' \/ Foreign(rows)' => CopyInv'
  <2>1. (\A r \in rows' : IsRow(r)) => WorkInv'
    BY <1>1, <1>2, <1>4, <1>5, <1>6 DEF ChatInv, WorkInv
  <2>2. Claimed(rows)' \/ Foreign(rows)' => CopyInv'
    BY <1>4, <1>5 DEF CopyInv
  <2>3. QED
    BY <2>1, <2>2
<1>11. CASE Claimed(rows)
  <2>1. PICK r \in rows : rows = {r} /\ Users(r)
    BY <1>11 DEF Claimed
  <2>2. copy = rows
    BY <1>1, <1>2, <1>11 DEF ChatInv, CopyInv
  <2>3. PICK new : rows' = {new} /\ Users(new) /\ IsRow(new) /\ new.meta.MSSSent = r.meta.MSSSent
    BY <1>7, <2>1, <2>2
  <2>4. Claimed(rows)' /\ Claimed(Current)'
    <3>1. Claimed(rows)'
      BY <1>9, <2>3
    <3>2. QED
      BY <1>8, <3>1 DEF Claimed, Users
  <2>5. Unsent(Current)' <=> Unsent(Current)
    BY <1>8, <2>1, <2>3 DEF Unsent, Users
  <2>6. SuccessInv'
    BY <1>1, <1>2, <2>5, CountKept DEF ChatInv, SuccessInv
  <2>7. WorkInv' /\ CopyInv'
    BY <1>10, <2>3, <2>4
  <2>8. ASSUME Kept' PROVE LateInv' /\ NoLateFailure' /\ SourceInv' /\ SourceIsUsers'
    <3>1. LateInv /\ NoLateFailure /\ SourceInv /\ SourceIsUsers
      BY <1>1, <1>5, <2>8 DEF KeptInv
    <3>2. LateInv'
      BY <1>2, <2>4, <2>5, <3>1 DEF LateInv, Told
    <3>3. NoLateFailure' /\ SourceIsUsers'
      BY <1>2, <1>5, <3>1 DEF NoLateFailure, SourceIsUsers, Echoed
    <3>4. SourceInv'
      BY <1>2, <1>5, <1>11, <3>1 DEF SourceInv
    <3>5. QED
      BY <3>2, <3>3, <3>4
  <2>9. QED
    BY <1>5, <2>6, <2>7, <2>8 DEF ChatInv, KeptInv
<1>12. CASE Foreign(rows) /\ Foreign(copy)
  <2>1. \A r \in rows' : IsRow(r) /\ r.meta.IsOutgoing = FALSE
    BY <1>7, <1>12
  <2>2. Foreign(rows)' /\ ~Claimed(rows)'
    BY <1>9, <2>1 DEF Users
  <2>3. ~Unsent(Current)'
    BY <1>8, <2>1 DEF Unsent
  <2>4. SuccessInv'
    BY <1>1, <1>2, <2>3, CountKept DEF ChatInv, SuccessInv
  <2>5. WorkInv' /\ CopyInv'
    BY <1>10, <2>1, <2>2
  <2>6. ~Claimed(rows)
    BY <1>12 DEF Foreign, Claimed, Users
  <2>7. ASSUME Kept' PROVE LateInv' /\ NoLateFailure' /\ SourceInv' /\ SourceIsUsers'
    <3>1. LateInv /\ NoLateFailure /\ SourceInv /\ SourceIsUsers
      BY <1>1, <1>5, <2>7 DEF KeptInv
    <3>2. LateInv'
      BY <1>2, <1>5, <1>8, <2>6, <3>1 DEF LateInv, Told
    <3>3. NoLateFailure' /\ SourceIsUsers'
      BY <1>2, <1>5, <3>1 DEF NoLateFailure, SourceIsUsers, Echoed
    <3>4. SourceInv'
      BY <2>2 DEF SourceInv
    <3>5. QED
      BY <3>2, <3>3, <3>4
  <2>8. QED
    BY <1>5, <2>4, <2>5, <2>7 DEF ChatInv, KeptInv
<1>13. QED
  BY <1>1, <1>2, <1>11, <1>12 DEF ChatInv, CopyInv
-----------------------------------------------------------------------------
(* An event is taken from the queue.                                       *)
LEMMA TakenIs ==
  ASSUME MessageInv, ChatInv, Stays, queue[Chat] # <<>>, queue' = [queue EXCEPT ![Chat] = Tail(@)],
         UNCHANGED <<scenario, phone>>, \A q \in Convs : q # Chat => handler'[q] = handler[q]
  PROVE  /\ Chat \in Convs /\ Chat' = Chat /\ OnePortal'
         /\ Head(queue[Chat]) \in 1..Len(phone) /\ phone # <<>>
         /\ phone[Head(queue[Chat])] \in MessageType
<1>1. Chat \in Convs /\ Chat' = Chat
  BY ChatIs, ScenarioKept DEF MessageInv, PhoneType
<1>2. Head(queue[Chat]) \in 1..Len(phone) /\ phone[Head(queue[Chat])] \in MessageType
  BY <1>1, HeadIs DEF MessageInv
<1>3. phone # <<>>
  BY <1>2
<1>4. \A q \in Convs : q # Chat => queue'[q] = queue[q]
  BY <1>1 DEF MessageInv, PhoneType
<1>5. OnePortal'
  BY <1>1, <1>4 DEF ChatInv, OnePortal
<1>6. QED
  BY <1>1, <1>2, <1>3, <1>5

LEMMA BeginStatus ==
  ASSUME MessageInv, StatusInv, Stays, Begin(Chat)
  PROVE  ChatInv' /\ KeptInv'
<1> DEFINE v == phone[Head(queue[Chat])]
<1>1. ChatInv /\ KeptInv /\ Chat \in Convs
  BY ChatIs DEF StatusInv, MessageInv, PhoneType
<1>2. /\ handler[Chat].pc = "idle" /\ queue[Chat] # <<>> /\ queue' = [queue EXCEPT ![Chat] = Tail(@)]
      /\ ~(pending /\ Chat = Outgoing.ConversationID)
      /\ UNCHANGED <<scenario, phone, rows, statuses, pending, send, restarts>>
  BY DEF Begin, sending
<1>3. UNCHANGED handler \/ \E place :
          /\ handler' = [handler EXCEPT ![Chat] = [pc |-> place, v |-> v, rows |-> rows, resync |-> FALSE]]
          /\ place = IF EventType(v.Status) = "MessageRemove" THEN "remove"
                     ELSE IF rows = {} THEN "new" ELSE "existing"
  BY Zenon DEF Begin, Start
<1>4. ~pending
  <2>1. scenario.outgoing => Outgoing.ConversationID = Chat
    <3>1. scenario.outgoing => Outgoing \in scenario.versions
      BY ScenarioAssumption, Zenon DEF MessageInv, PhoneType, Outgoing
    <3>2. QED
      BY <3>1, ChatIs DEF MessageInv, PhoneType
  <2>2. QED
    BY <1>1, <1>2, <2>1 DEF ChatInv, PendingInv
<1>5. \A q \in Convs : q # Chat => handler'[q] = handler[q]
  BY <1>1, <1>3 DEF MessageInv, HandlerType
<1>6. /\ Chat' = Chat /\ OnePortal' /\ Head(queue[Chat]) \in 1..Len(phone) /\ phone # <<>>
  BY <1>1, <1>2, <1>5, TakenIs
<1>7. PendingInv'
  <2>1. ~(scenario.outgoing /\ send = "no")
    BY <1>1, <1>6 DEF ChatInv, PendingInv
  <2>2. QED
    BY <1>2, <1>4, <2>1 DEF PendingInv
<1>8. Kept' = Kept /\ Edited' = Edited
  BY <1>2 DEF Kept, Stays, Resent, Deleted, Last, Edited
<1>9. \/ UNCHANGED handler
      \/ /\ handler'[Chat].v = v /\ handler'[Chat].rows = rows
         /\ \/ handler'[Chat].pc = "remove" /\ v.Status = MESSAGE_DELETED
            \/ handler'[Chat].pc = "new" /\ rows = {}
            \/ handler'[Chat].pc = "existing" /\ rows # {}
  <2>1. CASE UNCHANGED handler
    BY <2>1
  <2>2. ASSUME NEW place,
               handler' = [handler EXCEPT ![Chat] = [pc |-> place, v |-> v, rows |-> rows, resync |-> FALSE]],
               place = IF EventType(v.Status) = "MessageRemove" THEN "remove"
                       ELSE IF rows = {} THEN "new" ELSE "existing"
        PROVE  /\ handler'[Chat].v = v /\ handler'[Chat].rows = rows
               /\ \/ handler'[Chat].pc = "remove" /\ v.Status = MESSAGE_DELETED
                  \/ handler'[Chat].pc = "new" /\ rows = {}
                  \/ handler'[Chat].pc = "existing" /\ rows # {}
    <3> HIDE DEF v
    <3>1. handler'[Chat] = [pc |-> place, v |-> v, rows |-> rows, resync |-> FALSE]
      BY <1>1, <2>2 DEF MessageInv, HandlerType
    <3>2. handler'[Chat].v = v /\ handler'[Chat].rows = rows /\ handler'[Chat].pc = place
      BY <3>1
    <3>3. EventType(v.Status) = "MessageRemove" => v.Status = MESSAGE_DELETED
      BY DEF EventType
    <3>4. \/ place = "remove" /\ v.Status = MESSAGE_DELETED
          \/ place = "new" /\ rows = {}
          \/ place = "existing" /\ rows # {}
      BY <2>2, <3>3
    <3>5. QED
      BY <3>2, <3>4
  <2>3. QED
    BY <1>3, <2>1, <2>2
<1>10. WorkInv'
  <2>1. CASE UNCHANGED handler
    BY <1>1, <1>2, <1>6, <2>1 DEF ChatInv, WorkInv
  <2>2. CASE ~UNCHANGED handler
    <3>1. \E i \in 1..Len(phone) : handler'[Chat].v = phone[i]
      BY <1>6, <1>9, <2>2
    <3> HIDE DEF v
    <3>2. QED
      BY <1>1, <1>2, <1>6, <1>9, <2>2, <3>1 DEF ChatInv, WorkInv
  <2>3. QED
    BY <2>1, <2>2
<1>11. Claimed(rows)' = Claimed(rows) /\ Foreign(rows)' = Foreign(rows)
  BY <1>2, ScenarioKept DEF Claimed, Users, Foreign
<1> HIDE DEF v
<1>12. handler'[Chat].pc \notin {"save", "edit"} /\ handler[Chat].pc \notin {"save", "edit"}
  BY <1>2, <1>9
<1>13. CopyInv'
  BY <1>1, <1>2, <1>6, <1>9, <1>11, <1>12 DEF ChatInv, CopyInv
<1>14. Current = rows /\ Current' = rows
  BY <1>2, <1>6, <1>12 DEF Current
<1>15. Unsent(Current)' = Unsent(Current) /\ Claimed(Current)' = Claimed(Current)
  BY <1>2, <1>14, ScenarioKept DEF Unsent, Claimed, Users
<1>16. SuccessInv'
  BY <1>1, <1>2, <1>15, CountKept DEF ChatInv, SuccessInv
<1>17. ASSUME Kept' PROVE LateInv' /\ NoLateFailure' /\ SourceInv' /\ SourceIsUsers'
  <2>1. LateInv /\ NoLateFailure /\ SourceInv /\ SourceIsUsers
    BY <1>1, <1>8, <1>17 DEF KeptInv
  <2>2. LateInv'
    BY <1>2, <1>11, <1>15, <2>1 DEF LateInv, Told
  <2>3. NoLateFailure' /\ SourceIsUsers'
    BY <1>2, <1>8, <2>1 DEF NoLateFailure, SourceIsUsers, Echoed
  <2>4. SourceInv'
    BY <1>2, <1>6, <1>8, <1>11, <1>12, <1>14, <2>1 DEF SourceInv, Same
  <2>5. QED
    BY <2>2, <2>3, <2>4
<1>18. QED
  BY <1>6, <1>7, <1>10, <1>13, <1>16, <1>17 DEF ChatInv, KeptInv

(* The echo of the user's message is claimed.                              *)
LEMMA EchoStatus ==
  ASSUME MessageInv, StatusInv, Stays, ClaimEcho(Chat)
  PROVE  ChatInv' /\ KeptInv'
<1> DEFINE v == phone[Head(queue[Chat])]
           row == Row("", Chat, UserMXID, v, handleRemoteEcho(v))
<1>1. ChatInv /\ KeptInv /\ Chat \in Convs
  BY ChatIs DEF StatusInv, MessageInv, PhoneType
<1>2. /\ handler[Chat].pc = "idle" /\ queue[Chat] # <<>> /\ queue' = [queue EXCEPT ![Chat] = Tail(@)]
      /\ pending /\ pending' = FALSE /\ rows' = rows \cup {row}
      /\ handler' = [handler EXCEPT ![Chat] = [pc |-> "existing", v |-> v, rows |-> {row}, resync |-> FALSE]]
      /\ UNCHANGED <<scenario, phone, statuses, send, restarts>>
  BY DEF ClaimEcho, Start, UserMXID
<1>3. rows = {} /\ statuses = <<>> /\ ~(scenario.outgoing /\ send = "no")
  BY <1>1, <1>2 DEF ChatInv, PendingInv, Untouched
<1>4. \A q \in Convs : q # Chat => handler'[q] = handler[q]
  BY <1>1, <1>2 DEF MessageInv, HandlerType
<1>5. /\ Chat' = Chat /\ OnePortal' /\ Head(queue[Chat]) \in 1..Len(phone) /\ phone # <<>>
      /\ v \in MessageType
  BY <1>1, <1>2, <1>4, TakenIs
<1>6. /\ IsRow(row) /\ Users(row) /\ row.meta.MSSSent = FALSE
      /\ scenario.reid => row.meta.OrigMXID = 1
      /\ row.meta.GlobalMediaStatus = "" /\ row.meta.MediaPending = FALSE
      /\ row.meta.TextHash = v.text /\ row.meta.GlobalPartCount = MessageInfo(v)
  BY <1>5, EchoIs
<1>7. rows' = {row}
  BY <1>2, <1>3
<1> HIDE DEF row
<1>8. /\ handler'[Chat].pc = "existing" /\ handler'[Chat].v = v /\ handler'[Chat].rows = {row}
  BY <1>1, <1>2 DEF MessageInv, HandlerType
<1>9. PendingInv'
  BY <1>2, <1>3 DEF PendingInv
<1>10. WorkInv'
  <2>1. \E i \in 1..Len(phone) : handler'[Chat].v = phone[i]
    BY <1>5, <1>8
  <2>2. QED
    BY <1>1, <1>2, <1>5, <1>6, <1>7, <1>8, <2>1 DEF ChatInv, WorkInv
<1>11. Claimed(rows)' /\ Current' = rows' /\ Claimed(Current)'
  <2>1. PICK x : x = row
    OBVIOUS
  <2>2. Users(x) /\ Chat' = Chat /\ UserMXID' = UserMXID /\ scenario' = scenario
    BY <1>2, <1>6, <2>1, ScenarioKept
  <2>3. Users(x)'
    BY <2>2 DEF Users
  <2>4. rows' = {x} /\ handler'[Chat].rows = {x} /\ Current' = rows'
    BY <1>5, <1>7, <1>8, <2>1 DEF Current
  <2>5. QED
    BY <2>3, <2>4 DEF Claimed
<1>12. CopyInv'
  BY <1>5, <1>7, <1>8, <1>11 DEF CopyInv
<1>13. SuccessInv'
  <2>1. Count("success") = 0 /\ Count("success")' = Count("success")
    BY <1>2, <1>3, CountNone, CountKept
  <2>2. restarts \in Nat /\ restarts' = restarts
    BY <1>2 DEF MessageInv, ShownType
  <2>3. 0 <= 1 + restarts /\ 0 <= restarts
    BY <2>2
  <2>4. QED
    BY <1>1, <1>2, <2>1, <2>2, <2>3 DEF ChatInv, SuccessInv
<1>14. Kept' = Kept /\ Edited' = Edited
  BY <1>2 DEF Kept, Stays, Resent, Deleted, Last, Edited
<1>15. ASSUME Kept' PROVE LateInv' /\ NoLateFailure' /\ SourceInv' /\ SourceIsUsers'
  <2>1. Len(statuses') = 0 /\ DOMAIN statuses' = {}
    BY <1>2, <1>3
  <2>2. LateInv' /\ NoLateFailure' /\ SourceIsUsers'
    BY <1>11, <2>1 DEF LateInv, Told, NoLateFailure, SourceIsUsers
  <2>3. SourceInv'
    <3> SUFFICES ASSUME scenario.reid, ~Edited, NEW i \in 1..Len(phone) PROVE Same(row, phone[i])
      BY <1>2, <1>5, <1>7, <1>8, <1>11, <1>14 DEF SourceInv, Same
    <3>1. phone[i].text = v.text /\ MessageInfo(phone[i]) = MessageInfo(v)
      <4>1. DOMAIN phone = 1..Len(phone)
        BY LenProperties DEF MessageInv, PhoneType
      <4>2. /\ phone[i].text = Last.text /\ MessageInfo(phone[i]) = MessageInfo(Last)
            /\ v.text = Last.text /\ MessageInfo(v) = MessageInfo(Last)
        BY <1>5, <4>1 DEF Edited
      <4>3. QED
        BY <4>2
    <3>2. QED
      BY <1>6, <3>1 DEF Same
  <2>4. QED
    BY <2>2, <2>3
<1>16. QED
  BY <1>5, <1>9, <1>10, <1>12, <1>13, <1>15 DEF ChatInv, KeptInv
-----------------------------------------------------------------------------
(* Only the portal of the message's chat has anything to do.               *)
LEMMA PortalIs ==
  ASSUME OnePortal, NEW p \in Convs, PortalStep(p)
  PROVE  p = Chat
<1>1. handler[p].pc # "idle" \/ queue[p] # <<>>
  BY DEF PortalStep, Begin, ClaimEcho, HandleExistingIgnores, HandleExistingResends, HandleExisting,
         SaveParts, HandleEdit, HandleEditPanics, SyncReactions, NewIgnored, ConvertMessage, Remove
<1>2. QED
  BY <1>1 DEF OnePortal

LEMMA PortalStatus ==
  ASSUME MessageInv, StatusInv, Stays, PortalStep(Chat)
  PROVE  ChatInv' /\ KeptInv'
<1>1. CASE HandleExistingIgnores(Chat) \/ HandleEditPanics(Chat) \/ SyncReactions(Chat) \/ NewIgnored(Chat)
  <2>1. /\ handler[Chat].pc \notin {"idle", "save"} /\ handler' = [handler EXCEPT ![Chat] = Idle]
        /\ UNCHANGED <<scenario, phone, queue, rows, statuses, pending, send, restarts>>
    BY <1>1 DEF HandleExistingIgnores, HandleEditPanics, SyncReactions, NewIgnored, Done, sending, matrix
  <2>2. QED
    BY <2>1, LeaveStatus
<1>2. QED
  BY <1>1, BeginStatus, EchoStatus, ResendStatus, ExistingStatus, SaveStatus, EditStatus, NewStatus,
     RemoveStatus DEF PortalStep

LEMMA StatusStep == MessageInv /\ StatusInv /\ [Next]_vars => StatusInv'
<1> SUFFICES ASSUME MessageInv, StatusInv, [Next]_vars PROVE StatusInv'
  OBVIOUS
<1>1. ASSUME NEW v \in scenario.versions, PhoneUpdate(v) PROVE StatusInv'
  <2>1. /\ phone' = Append(phone, v) /\ queue' = [queue EXCEPT ![v.ConversationID] = Append(@, Len(phone) + 1)]
        /\ phone # <<>> => v.Timestamp >= phone[Len(phone)].Timestamp
        /\ scenario.outgoing => send # "no"
        /\ UNCHANGED <<scenario, handler, rows, statuses, pending, send, restarts>>
    BY <1>1 DEF PhoneUpdate, CanSend, sending, matrix
  <2>2. QED
    BY <2>1, PhoneStatus
<1>2. CASE PhoneTakes
  <2>1. /\ send = "sending" /\ send' = "taken" /\ phone = <<>> /\ phone' = <<Outgoing>>
        /\ queue' = [queue EXCEPT ![Outgoing.ConversationID] = Append(@, 1)]
        /\ UNCHANGED <<scenario, handler, rows, statuses, pending, restarts>>
    BY <1>2 DEF PhoneTakes, matrix
  <2>2. Outgoing \in scenario.versions
    <3>1. scenario \in Scenarios /\ scenario.outgoing
      BY <2>1 DEF MessageInv, PhoneType, ShownType
    <3>2. \E v \in scenario.versions : v.Status = OUTGOING_SENDING
      BY <3>1, ScenarioAssumption
    <3>3. QED
      BY <3>2, Zenon DEF Outgoing
  <2>3. PICK v \in scenario.versions : v = Outgoing
    BY <2>2
  <2>4. Append(phone, v) = <<v>> /\ Len(phone) + 1 = 1
    BY <2>1
  <2>5. phone' = Append(phone, v) /\ queue' = [queue EXCEPT ![v.ConversationID] = Append(@, Len(phone) + 1)]
    BY <2>1, <2>3, <2>4
  <2>6. QED
    BY <2>1, <2>5, PhoneStatus
<1>3. CASE Age \/ FullMediaResponse \/ UNCHANGED vars
  <2>1. UNCHANGED <<scenario, phone, queue, handler, rows, statuses, restarts, pending, send>>
    BY <1>3 DEF Age, FullMediaResponse, vars, matrix, sending
  <2>2. QED
    BY <2>1, SendStatus
<1>4. CASE SendOK \/ HandleMatrixMessage
  <2>1. /\ UNCHANGED <<scenario, phone, queue, handler, rows, statuses, restarts>>
        /\ \/ UNCHANGED pending /\ send \notin {"no", "failed"} /\ send' \notin {"no", "failed"}
           \/ scenario.outgoing /\ send = "no" /\ pending' /\ send' = "sending"
    BY <1>4 DEF SendOK, HandleMatrixMessage, matrix
  <2>2. QED
    BY <2>1, SendStatus
<1>5. ASSUME NEW p \in Convs, PortalStep(p) PROVE StatusInv'
  <2>1. UNCHANGED scenario
    BY <1>5 DEF PortalStep, Begin, ClaimEcho, HandleExistingIgnores, HandleExistingResends, HandleExisting,
         SaveParts, HandleEdit, HandleEditPanics, SyncReactions, NewIgnored, ConvertMessage, Remove
  <2>2. ASSUME Stays PROVE ChatInv' /\ KeptInv'
    <3>1. p = Chat
      BY <1>5, <2>2, PortalIs DEF StatusInv, ChatInv
    <3>2. QED
      BY <1>5, <2>2, <3>1, PortalStatus
  <2>3. QED
    BY <2>1, <2>2, ScenarioKept DEF StatusInv
<1>6. QED
  BY <1>1, <1>2, <1>3, <1>4, <1>5, FailedStatus, RestartStatus DEF Next

LEMMA StatusSound == StatusInv => StatusesRight
<1> SUFFICES ASSUME StatusInv PROVE SuccessOnce /\ NoLateFailure /\ SourceIsUsers
  BY DEF StatusesRight
<1>1. SuccessOnce
  BY DEF StatusInv, ChatInv, SuccessInv, SuccessOnce
<1>2. NoLateFailure
  BY DEF StatusInv, KeptInv, NoLateFailure, Kept
<1>3. SourceIsUsers
  BY DEF StatusInv, KeptInv, SourceIsUsers, Echoed, Kept
<1>4. QED
  BY <1>1, <1>2, <1>3

(* However the phone's versions of a message, the answer to the request,   *)
(* the echo, edits and restarts follow each other: the user is told once   *)
(* for every start of the bridge that a message was sent, not that it      *)
(* failed after that, and of the event the user sent (HandleExisting,      *)
(* SaveParts, ConvertEdit and handleRemoteEcho).                           *)
THEOREM StatusesRightThm == Spec => []StatusesRight
<1>1. Init => MessageInv /\ StatusInv
  BY MessageInvInit, StatusInit
<1>2. MessageInv /\ StatusInv /\ [Next]_vars => MessageInv' /\ StatusInv'
  BY MessageInvStep, StatusStep
<1>3. MessageInv /\ StatusInv => StatusesRight
  BY StatusSound
<1>4. QED
  BY <1>1, <1>2, <1>3, PTL DEF Spec
-----------------------------------------------------------------------------
(* Where a message is, which receipts were sent for it and what is shown   *)
(* of it, as long as one portal at a time is at work on it.                *)

(* Whatever the portals do: a busy one has a room and a version that it    *)
(* handles as what it is; what was sent from Matrix has a room, and is what*)
(* the phone echoes first; timestamps and lists of readers grow.           *)
Solo == \A p, q \in Convs : handler[p].pc # "idle" /\ handler[q].pc # "idle" => p = q
Busy(p) ==
    /\ p \in rooms
    /\ \E i \in 1..Len(phone) : handler[p].v = phone[i]
    /\ (handler[p].pc = "remove" <=> handler[p].v.Status = MESSAGE_DELETED)
OrderInv ==
    \A i, j \in 1..Len(phone) :
        i <= j => phone[i].Timestamp <= phone[j].Timestamp /\ phone[i].ReadBy \subseteq phone[j].ReadBy
FirstInv ==
    /\ (scenario.outgoing /\ send = "no") => phone = <<>>
    /\ (scenario.outgoing /\ phone # <<>>) => phone[1] = Outgoing
    /\ (pending /\ phone # <<>>) =>
          queue[Outgoing.ConversationID] # <<>> /\ Head(queue[Outgoing.ConversationID]) = 1
WaysInv ==
    /\ ~raced => Solo
    /\ \A p \in Convs : handler[p].pc # "idle" => Busy(p)
    /\ pending => send # "no"
    /\ send # "no" => scenario.outgoing /\ Outgoing.ConversationID \in rooms
    /\ OrderInv /\ FirstInv

(* A message has one row, of its main part, in a room that exists and that *)
(* its event is in; the handler's copy is that row, with other metadata    *)
(* once it is changed.                                                     *)
Placed(r) ==
    /\ IsRow(r) /\ rows = {r} /\ r.PartID = "" /\ r.Room \in rooms
    /\ r.MXID \in 1..Len(events) /\ events[r.MXID].room = r.Room
Later(r, c) ==
    /\ IsRow(c) /\ c.PartID = r.PartID /\ c.Room = r.Room /\ c.MXID = r.MXID /\ c.rowid = r.rowid
    /\ \A f \in {"IsOutgoing", "TextHash", "GlobalPartCount", "GlobalMediaStatus", "MediaID"} :
          c.meta[f] = r.meta[f]
CopyOf(p) ==
    /\ handler[p].pc \in {"existing", "edit", "remove"} => handler[p].rows = rows
    /\ handler[p].pc \in {"existing", "edit", "reactions", "save"} => rows # {}
    /\ handler[p].pc = "new" => rows = {}
    /\ handler[p].pc = "save" => \A r \in rows :
          /\ \E c \in handler[p].rows : handler[p].rows = {c} /\ Later(r, c)
          /\ r.Room # p => handler[p].resync = TRUE
RowInv == (\A r \in rows : Placed(r)) /\ \A p \in Convs : CopyOf(p)

(* A row's event is there, unless it was redacted in another room and is   *)
(* yet to be sent in this one, or has nothing to show there.  Of a message *)
(* that moves no other event is; one that stays never leaves its room.     *)
Elsewhere(p, r) == handler[p].pc \in {"save", "edit"} /\ r.Room # p
VisibleInv ==
    /\ \A r \in rows : \A p \in Convs : Elsewhere(p, r) => events[r.MXID].gone = TRUE
    /\ \A r \in rows : events[r.MXID].gone = TRUE => Emptied \/ \E p \in Convs : Elsewhere(p, r)
    /\ (~Stays /\ ~Resent) =>
          \A i \in 1..Len(events) : events[i].gone = FALSE => \E r \in rows : r.MXID = i
    /\ Stays => \A i \in 1..Len(events) : events[i].room = Chat
    /\ pending => Len(events) = 1 /\ events[1].gone = FALSE

PlaceInv == Alone => RowInv /\ VisibleInv

(* A message that stays is never raced for; one whose echo came, or will   *)
(* come, is shown by the user's event.                                     *)
UserInv ==
    /\ Stays => ~raced
    /\ Echoed => \A i \in 1..Len(events) : events[i].user = TRUE
-----------------------------------------------------------------------------
(* Whatever a portal does with the version it works on, other portals and  *)
(* the phone are left alone.                                               *)
LEMMA Worked ==
  ASSUME HandlerType, NEW p \in Convs, PortalStep(p), ~Begin(p), ~ClaimEcho(p)
  PROVE  /\ handler[p].pc # "idle" /\ \A q \in Convs : q # p => handler'[q] = handler[q]
         /\ \/ handler'[p].pc = "idle"
            \/ /\ handler'[p].v = handler[p].v /\ handler'[p].pc # "remove" /\ handler[p].pc # "remove"
         /\ UNCHANGED <<scenario, phone, queue, rooms, pending, send, aged, raced, overtaken, restarts>>
<1>0. Idle.pc = "idle"
  BY DEF Idle
<1>1. CASE HandleExistingIgnores(p) \/ HandleEditPanics(p) \/ SyncReactions(p) \/ NewIgnored(p) \/ Remove(p)
           \/ \E ok \in BOOLEAN : ConvertMessage(p, ok)
  <2>1. /\ handler[p].pc # "idle" /\ handler' = [handler EXCEPT ![p] = Idle]
        /\ UNCHANGED <<scenario, phone, queue, rooms, pending, send, aged, raced, overtaken, restarts>>
    BY <1>1 DEF HandleExistingIgnores, HandleEditPanics, SyncReactions, NewIgnored, Remove, ConvertMessage, Done,
                sending, matrix, races
  <2>2. handler'[p] = Idle /\ \A q \in Convs : q # p => handler'[q] = handler[q]
    BY <2>1, HandlerMoves
  <2>3. QED
    BY <1>0, <2>1, <2>2
<1>2. CASE HandleExistingResends(p)
  <2>1. /\ handler[p].pc = "existing" /\ handler' = [handler EXCEPT ![p].pc = "new", ![p].rows = {}]
        /\ UNCHANGED <<scenario, phone, queue, rooms, pending, send, aged, raced, overtaken, restarts>>
    BY <1>2 DEF HandleExistingResends, sending, matrix, races
  <2>2. handler'[p].pc = "new" /\ handler'[p].v = handler[p].v /\ \A q \in Convs : q # p => handler'[q] = handler[q]
    BY <2>1, HandlerMoves
  <2>3. QED
    BY <2>1, <2>2
<1>3. CASE HandleExisting(p)
  <2> DEFINE copy == handler[p].rows
             main == Main(copy)
             set == (copy \ {main}) \cup {[main EXCEPT !.meta = MetaAfter(main.meta, handler[p].v, p)]}
             resync == doMessageResync(copy, handler[p].v, p)
  <2>1. /\ handler[p].pc = "existing"
        /\ \/ handler' = [handler EXCEPT ![p].pc = "reactions"]
           \/ handler' = [handler EXCEPT ![p].pc = "save", ![p].rows = set, ![p].resync = resync]
        /\ UNCHANGED <<scenario, phone, queue, rooms, pending, send, aged, raced, overtaken, restarts>>
    BY <1>3, Zenon DEF HandleExisting, sending, races
  <2> HIDE DEF set, resync
  <2>2. /\ handler'[p].pc \in {"reactions", "save"} /\ handler'[p].v = handler[p].v
        /\ \A q \in Convs : q # p => handler'[q] = handler[q]
    <3>1. CASE handler' = [handler EXCEPT ![p].pc = "reactions"]
      BY <3>1, HandlerMoves
    <3>2. CASE handler' = [handler EXCEPT ![p].pc = "save", ![p].rows = set, ![p].resync = resync]
      BY <3>2, HandlerMoves
    <3>3. QED
      BY <2>1, <3>1, <3>2
  <2>3. QED
    BY <2>1, <2>2
<1>4. CASE SaveParts(p) \/ HandleEdit(p)
  <2>1. /\ handler[p].pc \in {"save", "edit"}
        /\ \E place \in {"edit", "reactions"} : handler' = [handler EXCEPT ![p].pc = place]
        /\ UNCHANGED <<scenario, phone, queue, rooms, pending, send, aged, raced, overtaken, restarts>>
    BY <1>4 DEF SaveParts, HandleEdit, sending, matrix, races
  <2>2. PICK place \in {"edit", "reactions"} : handler' = [handler EXCEPT ![p].pc = place]
    BY <2>1
  <2>3. /\ handler'[p].pc = place /\ handler'[p].v = handler[p].v
        /\ \A q \in Convs : q # p => handler'[q] = handler[q]
    BY <2>2, HandlerMoves
  <2>4. QED
    BY <2>1, <2>2, <2>3
<1>5. QED
  BY <1>1, <1>2, <1>3, <1>4 DEF PortalStep

(* A portal takes an event from its queue, drops it for want of a room, or *)
(* starts on it with the rows there are.                                   *)
LEMMA Began ==
  ASSUME HandlerType, NEW p \in Convs, Begin(p) \/ ClaimEcho(p)
  PROVE  /\ handler[p].pc = "idle" /\ queue[p] # <<>> /\ queue' = [queue EXCEPT ![p] = Tail(@)]
         /\ \A q \in Convs : q # p => handler'[q] = handler[q]
         /\ UNCHANGED <<scenario, phone, statuses, receipts, reactions, send, fullMedia, aged, restarts>>
         /\ Begin(p) => UNCHANGED <<events, rows, pending>> /\ ~(pending /\ p = Outgoing.ConversationID)
         /\ ClaimEcho(p) => /\ pending /\ ~pending' /\ p = Outgoing.ConversationID /\ UNCHANGED rooms
                            /\ handler'[p].pc = "existing"
         /\ \/ /\ UNCHANGED <<handler, rooms, raced, overtaken>>
               /\ p \notin rooms /\ ~ShouldCreatePortal(phone[Head(queue[p])].Status)
            \/ /\ handler'[p].pc \in {"remove", "new", "existing"} /\ handler'[p].v = phone[Head(queue[p])]
               /\ ClaimEcho(p) \/ (rooms' = rooms \cup {p} /\ handler'[p].rows = rows)
               /\ Begin(p) => /\ handler'[p].pc = "remove" <=> handler'[p].v.Status = MESSAGE_DELETED
                              /\ handler'[p].pc = "new" => rows = {}
                              /\ handler'[p].pc = "existing" => rows # {}
               /\ raced' = (raced \/ \E q \in Convs : handler[q].pc # "idle")
               /\ overtaken' = (overtaken \/ \E q \in Convs \ {p} :
                                   queue[q] # <<>> /\ Head(queue[q]) < Head(queue[p]))
<1> DEFINE v == phone[Head(queue[p])]
<1>1. ASSUME NEW place, NEW copy, Start(p, place, v, copy)
      PROVE  /\ \A q \in Convs : q # p => handler'[q] = handler[q]
             /\ handler'[p].pc = place /\ handler'[p].v = v /\ handler'[p].rows = copy
             /\ raced' = (raced \/ \E q \in Convs : handler[q].pc # "idle")
             /\ overtaken' = (overtaken \/ \E q \in Convs \ {p} :
                                   queue[q] # <<>> /\ Head(queue[q]) < Head(queue[p]))
  <2> DEFINE new == [pc |-> place, v |-> v, rows |-> copy, resync |-> FALSE]
  <2>1. /\ handler' = [handler EXCEPT ![p] = new]
        /\ raced' = (raced \/ \E q \in Convs : handler[q].pc # "idle")
        /\ overtaken' = (overtaken \/ \E q \in Convs \ {p} :
                              queue[q] # <<>> /\ Head(queue[q]) < Head(queue[p]))
    BY <1>1 DEF Start
  <2>2. new.pc = place /\ new.v = v /\ new.rows = copy
    OBVIOUS
  <2> HIDE DEF new, v
  <2>3. handler'[p] = new /\ \A q \in Convs : q # p => handler'[q] = handler[q]
    BY <2>1 DEF HandlerType
  <2>4. QED
    BY <2>1, <2>2, <2>3
<1>2. CASE Begin(p)
  <2> DEFINE place == IF EventType(v.Status) = "MessageRemove" THEN "remove"
                      ELSE IF rows = {} THEN "new" ELSE "existing"
  <2>1. /\ handler[p].pc = "idle" /\ queue[p] # <<>> /\ queue' = [queue EXCEPT ![p] = Tail(@)]
        /\ ~(pending /\ p = Outgoing.ConversationID)
        /\ UNCHANGED <<scenario, phone, rows, events, statuses, receipts, reactions, pending, send,
                       fullMedia, aged, restarts>>
        /\ \/ UNCHANGED <<handler, rooms, raced, overtaken>> /\ p \notin rooms /\ ~ShouldCreatePortal(v.Status)
           \/ rooms' = rooms \cup {p} /\ Start(p, place, v, rows)
    BY <1>2, Zenon DEF Begin, sending, races
  <2>2. EventType(v.Status) = "MessageRemove" <=> v.Status = MESSAGE_DELETED
    BY DEF EventType
  <2> HIDE DEF v
  <2>3. /\ place \in {"remove", "new", "existing"} /\ (place = "remove" <=> v.Status = MESSAGE_DELETED)
        /\ place = "new" => rows = {}
        /\ place = "existing" => rows # {}
    BY <2>2
  <2> HIDE DEF place
  <2>4. ~ClaimEcho(p)
    BY <2>1 DEF ClaimEcho
  <2>5. CASE UNCHANGED <<handler, rooms, raced, overtaken>> /\ p \notin rooms /\ ~ShouldCreatePortal(v.Status)
    BY <1>2, <2>1, <2>4, <2>5 DEF v
  <2>6. CASE rooms' = rooms \cup {p} /\ Start(p, place, v, rows)
    <3>1. /\ \A q \in Convs : q # p => handler'[q] = handler[q]
          /\ handler'[p].pc = place /\ handler'[p].v = v /\ handler'[p].rows = rows
          /\ raced' = (raced \/ \E q \in Convs : handler[q].pc # "idle")
          /\ overtaken' = (overtaken \/ \E q \in Convs \ {p} :
                              queue[q] # <<>> /\ Head(queue[q]) < Head(queue[p]))
      BY <1>1, <2>6
    <3>2. QED
      BY <2>1, <2>3, <2>4, <2>6, <3>1 DEF v
  <2>7. QED
    BY <2>1, <2>5, <2>6
<1>3. CASE ClaimEcho(p)
  <2>1. PICK copy : /\ handler[p].pc = "idle" /\ queue[p] # <<>> /\ queue' = [queue EXCEPT ![p] = Tail(@)]
                    /\ pending /\ ~pending' /\ p = Outgoing.ConversationID
                    /\ UNCHANGED <<scenario, phone, rooms, statuses, receipts, reactions, send,
                                   fullMedia, aged, restarts>>
                    /\ Start(p, "existing", v, copy)
    BY <1>3, Zenon DEF ClaimEcho
  <2>2. ~Begin(p)
    BY <2>1 DEF Begin
  <2> HIDE DEF v
  <2>3. /\ \A q \in Convs : q # p => handler'[q] = handler[q]
        /\ handler'[p].pc = "existing" /\ handler'[p].v = v
        /\ raced' = (raced \/ \E q \in Convs : handler[q].pc # "idle")
        /\ overtaken' = (overtaken \/ \E q \in Convs \ {p} :
                              queue[q] # <<>> /\ Head(queue[q]) < Head(queue[p]))
    BY <1>1, <2>1
  <2>4. QED
    BY <1>3, <2>1, <2>2, <2>3 DEF v
<1>4. QED
  BY <1>2, <1>3
-----------------------------------------------------------------------------
LEMMA WaysInit == Init => WaysInv
<1> SUFFICES ASSUME Init PROVE WaysInv
  OBVIOUS
<1>1. handler = [p \in Convs |-> Idle] /\ phone = <<>> /\ pending = FALSE /\ send = "no"
  BY DEF Init
<1>2. Idle.pc = "idle" /\ Len(<<>>) = 0 /\ 1..0 = {}
  BY DEF Idle
<1>3. \A p \in Convs : handler[p].pc = "idle"
  BY <1>1, <1>2
<1>4. QED
  BY <1>1, <1>2, <1>3 DEF WaysInv, Solo, OrderInv, FirstInv

(* A version more, no older than the others.                               *)
LEMMA LongerOrder ==
  ASSUME PhoneType, OrderInv, NEW v \in MessageType, phone' = Append(phone, v),
         phone # <<>> => /\ v.Timestamp >= phone[Len(phone)].Timestamp
                         /\ phone[Len(phone)].ReadBy \subseteq v.ReadBy
  PROVE  /\ OrderInv' /\ Len(phone) \in Nat /\ Len(phone') = Len(phone) + 1
         /\ \A i \in 1..Len(phone) : phone'[i] = phone[i]
         /\ phone'[Len(phone) + 1] = v
<1> DEFINE n == Len(phone)
<1>1. /\ n \in Nat /\ Len(phone') = n + 1 /\ \A i \in 1..n : phone'[i] = phone[i] /\ phone[i] \in MessageType
      /\ phone'[n + 1] = v /\ phone = <<>> => n = 0
  BY LenProperties, AppendProperties DEF PhoneType
<1> HIDE DEF n
<1>2. ASSUME NEW i \in 1..n PROVE phone[i].Timestamp <= v.Timestamp /\ phone[i].ReadBy \subseteq v.ReadBy
  <2>1. n \in 1..n /\ i <= n /\ phone # <<>>
    BY <1>1, Len(<<>>) = 0 DEF n
  <2>2. /\ phone[i].Timestamp <= phone[n].Timestamp /\ phone[i].ReadBy \subseteq phone[n].ReadBy
        /\ v.Timestamp >= phone[n].Timestamp /\ phone[n].ReadBy \subseteq v.ReadBy
    BY <2>1 DEF OrderInv, n
  <2>3. phone[i].Timestamp \in Nat /\ phone[n].Timestamp \in Nat /\ v.Timestamp \in Nat
    BY <1>1, <2>1 DEF MessageType
  <2>4. phone[i].Timestamp <= v.Timestamp
    BY <2>2, <2>3
  <2>5. QED
    BY <2>2, <2>4
<1>3. v.Timestamp <= v.Timestamp
  BY DEF MessageType
<1>4. OrderInv'
  <2> SUFFICES ASSUME NEW i \in 1..n+1, NEW j \in 1..n+1, i <= j
               PROVE  phone'[i].Timestamp <= phone'[j].Timestamp /\ phone'[i].ReadBy \subseteq phone'[j].ReadBy
    BY <1>1 DEF OrderInv
  <2>1. CASE j \in 1..n
    <3>1. i \in 1..n
      BY <1>1, <2>1
    <3>2. QED
      BY <1>1, <2>1, <3>1 DEF OrderInv, n
  <2>2. CASE j = n + 1 /\ i \in 1..n
    BY <1>1, <1>2, <2>2
  <2>3. CASE j = n + 1 /\ i = n + 1
    BY <1>1, <1>3, <2>3
  <2>4. i \in 1..n \/ i = n + 1
    BY <1>1
  <2>5. j \in 1..n \/ j = n + 1
    BY <1>1
  <2>6. QED
    BY <2>1, <2>2, <2>3, <2>4, <2>5
<1>5. QED
  BY <1>1, <1>4 DEF n

LEMMA OutgoingKept == ASSUME UNCHANGED scenario PROVE Outgoing' = Outgoing
  BY DEF Outgoing

LEMMA OutgoingOf ==
  ASSUME PhoneType, scenario.outgoing
  PROVE  Outgoing \in scenario.versions /\ Outgoing.Status = OUTGOING_SENDING
<1>1. \E v \in scenario.versions : v.Status = OUTGOING_SENDING
  BY ScenarioAssumption DEF PhoneType
<1>2. QED
  BY <1>1, Zenon DEF Outgoing

(* The echo is the first version and waits as long as it is pending.       *)
LEMMA FirstStep == ASSUME MessageInv, WaysInv, [Next]_vars PROVE FirstInv'
<1> DEFINE c == Outgoing.ConversationID
<1>0. /\ PhoneType /\ HandlerType /\ FirstInv /\ (pending => send # "no") /\ (send # "no" => scenario.outgoing)
      /\ scenario.outgoing => c \in Convs
  <2>1. scenario.outgoing => Outgoing \in MessageType
    BY OutgoingIs DEF MessageInv
  <2>2. QED
    BY <2>1 DEF MessageInv, WaysInv, MessageType
<1>1. ASSUME NEW v \in scenario.versions, PhoneUpdate(v) PROVE FirstInv'
  <2>1. /\ phone' = Append(phone, v) /\ (scenario.outgoing => send # "no" /\ phone # <<>>)
        /\ queue' = [queue EXCEPT ![v.ConversationID] = Append(@, Len(phone) + 1)]
        /\ UNCHANGED <<scenario, pending, send>>
    BY <1>1 DEF PhoneUpdate, CanSend, sending
  <2>2. c' = c /\ Outgoing' = Outgoing
    BY <2>1, OutgoingKept
  <2>3. phone # <<>> => phone'[1] = phone[1]
    BY <1>0, <2>1 DEF PhoneType
  <2>4. (pending /\ phone # <<>>) => queue'[c] # <<>> /\ Head(queue'[c]) = 1
    <3> SUFFICES ASSUME pending, phone # <<>> PROVE queue'[c] # <<>> /\ Head(queue'[c]) = 1
      OBVIOUS
    <3>1. queue[c] # <<>> /\ Head(queue[c]) = 1 /\ c \in Convs /\ queue[c] \in Seq(Nat)
      BY <1>0 DEF FirstInv, PhoneType
    <3>2. PICK n : n = Len(phone) + 1
      OBVIOUS
    <3>3. queue'[c] = queue[c] \/ queue'[c] = Append(queue[c], n)
      BY <1>0, <2>1, <3>1, <3>2 DEF PhoneType
    <3>4. n \in Nat
      BY <1>0, <3>2 DEF PhoneType
    <3> HIDE DEF c
    <3>5. QED
      BY <3>1, <3>3, <3>4
  <2>5. pending => phone # <<>>
    BY <1>0, <2>1
  <2>6. QED
    BY <1>0, <2>1, <2>2, <2>3, <2>4, <2>5 DEF FirstInv
<1>2. CASE PhoneTakes
  <2>1. /\ send = "sending" /\ send' = "taken" /\ phone = <<>> /\ phone' = <<Outgoing>>
        /\ queue' = [queue EXCEPT ![c] = Append(@, 1)] /\ UNCHANGED <<scenario, pending>>
    BY <1>2 DEF PhoneTakes
  <2>2. c' = c /\ Outgoing' = Outgoing /\ c \in Convs
    BY <1>0, <2>1, OutgoingKept
  <2>3. queue[c] = <<>>
    <3>1. queue[c] \in Seq(Nat) /\ \A i \in 1..Len(queue[c]) : queue[c][i] \in 1..0
      BY <1>0, <2>1, <2>2 DEF PhoneType
    <3>2. Len(queue[c]) \in Nat /\ 1..0 = {}
      BY <3>1
    <3>3. ~(1 \in 1..Len(queue[c]))
      BY <3>1, <3>2
    <3>4. Len(queue[c]) = 0
      BY <3>2, <3>3
    <3>5. QED
      BY <3>1, <3>4, EmptySeq
  <2>4. queue'[c] = <<1>>
    <3>1. queue'[c] = Append(queue[c], 1)
      BY <1>0, <2>1, <2>2 DEF PhoneType
    <3>2. QED
      BY <2>3, <3>1
  <2>5. queue'[c] # <<>> /\ Head(queue'[c]) = 1 /\ phone'[1] = Outgoing
    <3>1. <<1>> # <<>> /\ Head(<<1>>) = 1 /\ \A x : <<x>>[1] = x
      OBVIOUS
    <3> HIDE DEF c
    <3>2. QED
      BY <2>1, <2>4, <3>1
  <2>6. QED
    BY <2>1, <2>2, <2>5 DEF FirstInv
<1>3. CASE Age \/ FullMediaResponse \/ SendOK \/ SendFailed \/ HandleMatrixMessage \/ UNCHANGED vars
  <2>1. /\ UNCHANGED <<scenario, phone, queue>>
        /\ \/ UNCHANGED <<pending, send>>
           \/ send' # "no" /\ send # "no" /\ (pending' => pending)
           \/ send' # "no" /\ scenario.outgoing /\ send = "no"
    <3>1. CASE Age \/ FullMediaResponse \/ UNCHANGED vars
      BY <3>1 DEF Age, FullMediaResponse, vars, sending
    <3>2. CASE SendOK
      BY <3>2 DEF SendOK, matrix
    <3>3. CASE SendFailed
      BY <3>3 DEF SendFailed
    <3>4. CASE HandleMatrixMessage
      BY <3>4 DEF HandleMatrixMessage
    <3>5. QED
      BY <1>3, <3>1, <3>2, <3>3, <3>4
  <2>2. c' = c /\ Outgoing' = Outgoing
    BY <2>1, OutgoingKept
  <2>3. QED
    BY <1>0, <2>1, <2>2 DEF FirstInv
<1>4. CASE Restart
  <2>1. /\ pending' = FALSE /\ UNCHANGED <<scenario, phone>>
        /\ send' = IF send \in {"sending", "taken"} THEN "failed" ELSE send
    BY <1>4 DEF Restart
  <2>2. Outgoing' = Outgoing
    BY <2>1, OutgoingKept
  <2>3. QED
    BY <1>0, <2>1, <2>2 DEF FirstInv
<1>5. ASSUME NEW p \in Convs, PortalStep(p) PROVE FirstInv'
  <2>1. CASE ~Begin(p) /\ ~ClaimEcho(p)
    <3>1. UNCHANGED <<scenario, phone, queue, pending, send>>
      BY <1>0, <1>5, <2>1, Worked
    <3>2. c' = c /\ Outgoing' = Outgoing
      BY <3>1, OutgoingKept
    <3>3. QED
      BY <1>0, <3>1, <3>2 DEF FirstInv
  <2>2. CASE Begin(p) \/ ClaimEcho(p)
    <3>1. /\ queue' = [queue EXCEPT ![p] = Tail(@)] /\ UNCHANGED <<scenario, phone, send>>
          /\ Begin(p) => UNCHANGED pending /\ ~(pending /\ p = c)
          /\ ClaimEcho(p) => ~pending'
      BY <1>0, <2>2, Began
    <3>2. c' = c /\ Outgoing' = Outgoing
      BY <3>1, OutgoingKept
    <3>3. pending' => /\ pending /\ p # c /\ c \in Convs
      BY <1>0, <2>2, <3>1
    <3>4. p # c /\ c \in Convs => queue'[c] = queue[c]
      BY <1>0, <3>1 DEF PhoneType
    <3> HIDE DEF c
    <3>5. QED
      BY <1>0, <3>1, <3>2, <3>3, <3>4 DEF FirstInv, c
  <2>3. QED
    BY <2>1, <2>2
<1>6. QED
  BY <1>1, <1>2, <1>3, <1>4, <1>5 DEF Next

LEMMA WaysStep == MessageInv /\ WaysInv /\ [Next]_vars => WaysInv'
<1> SUFFICES ASSUME MessageInv, WaysInv, [Next]_vars PROVE WaysInv'
  OBVIOUS
<1>0. HandlerType /\ PhoneType /\ Idle.pc = "idle" /\ FirstInv'
  BY FirstStep DEF MessageInv, Idle
<1>1. ASSUME NEW v \in MessageType, phone' = Append(phone, v),
             phone # <<>> => /\ v.Timestamp >= phone[Len(phone)].Timestamp
                             /\ phone[Len(phone)].ReadBy \subseteq v.ReadBy,
             UNCHANGED <<scenario, handler, rooms, pending, raced>>,
             send' = send \/ (send = "sending" /\ send' = "taken")
      PROVE  WaysInv'
  <2>1. /\ OrderInv' /\ Len(phone) \in Nat /\ Len(phone') = Len(phone) + 1
        /\ \A i \in 1..Len(phone) : phone'[i] = phone[i]
    BY <1>0, <1>1, LongerOrder DEF WaysInv
  <2>2. \A i \in 1..Len(phone) : i \in 1..Len(phone')
    BY <2>1
  <2>3. \A p \in Convs : Busy(p) => Busy(p)'
    BY <1>1, <2>1, <2>2 DEF Busy
  <2>4. send # "no" => scenario.outgoing /\ Outgoing.ConversationID \in rooms
    BY DEF WaysInv
  <2>5. send' # "no" <=> send # "no"
    BY <1>1
  <2>6. Outgoing' = Outgoing
    BY <1>1, OutgoingKept
  <2>7. QED
    BY <1>0, <1>1, <2>1, <2>3, <2>4, <2>5, <2>6 DEF WaysInv, Solo
<1>2. ASSUME UNCHANGED <<scenario, phone, handler, rooms, raced>>,
             \/ UNCHANGED <<pending, send>>
             \/ send' # "no" /\ scenario.outgoing /\ Outgoing.ConversationID \in rooms
      PROVE  WaysInv'
  <2>1. Outgoing' = Outgoing
    BY <1>2, OutgoingKept
  <2>2. OrderInv'
    BY <1>2 DEF WaysInv, OrderInv
  <2>3. (~raced => Solo)' /\ \A p \in Convs : (handler[p].pc # "idle" => Busy(p))'
    BY <1>2 DEF WaysInv, Solo, Busy
  <2>4. QED
    BY <1>0, <1>2, <2>1, <2>2, <2>3 DEF WaysInv
<1>3. ASSUME NEW v \in scenario.versions, PhoneUpdate(v) PROVE WaysInv'
  <2>1. v \in MessageType
    BY <1>3, ScenarioAssumption DEF MessageInv, PhoneType
  <2>2. QED
    BY <1>1, <1>3, <2>1 DEF PhoneUpdate, matrix, sending, races
<1>4. CASE PhoneTakes
  <2>1. /\ send = "sending" /\ send' = "taken" /\ phone = <<>> /\ phone' = <<Outgoing>>
        /\ UNCHANGED <<scenario, handler, rooms, pending, raced>>
    BY <1>4 DEF PhoneTakes, matrix, races
  <2>2. Outgoing \in MessageType
    BY <1>0, <2>1, OutgoingIs DEF WaysInv
  <2>3. PICK v \in MessageType : v = Outgoing
    BY <2>2
  <2>4. phone' = Append(phone, v)
    BY <2>1, <2>3
  <2>5. QED
    BY <1>1, <2>1, <2>4
<1>5. CASE Age \/ FullMediaResponse \/ SendOK \/ SendFailed \/ HandleMatrixMessage \/ UNCHANGED vars
  <2>1. /\ UNCHANGED <<scenario, phone, handler, rooms, raced>>
        /\ \/ UNCHANGED <<pending, send>>
           \/ send' # "no" /\ send \in {"sending", "taken"}
           \/ send' # "no" /\ scenario.outgoing /\ Outgoing.ConversationID \in rooms
    BY <1>5 DEF Age, FullMediaResponse, SendOK, SendFailed, HandleMatrixMessage, vars, matrix, sending, races
  <2>2. send \in {"sending", "taken"} => scenario.outgoing /\ Outgoing.ConversationID \in rooms
    BY DEF WaysInv
  <2>3. QED
    BY <1>2, <2>1, <2>2
<1>6. CASE Restart
  <2>1. /\ handler' = [p \in Convs |-> Idle] /\ pending' = FALSE /\ UNCHANGED <<scenario, phone, rooms, raced>>
        /\ send' = IF send \in {"sending", "taken"} THEN "failed" ELSE send
    BY <1>6 DEF Restart, matrix, races
  <2>2. \A p \in Convs : handler'[p].pc = "idle"
    BY <1>0, <2>1
  <2>3. (~raced => Solo)' /\ \A p \in Convs : (handler[p].pc # "idle" => Busy(p))'
    BY <2>2 DEF Solo
  <2>4. send # "no" => scenario.outgoing /\ Outgoing.ConversationID \in rooms
    BY DEF WaysInv
  <2>5. send' # "no" <=> send # "no"
    BY <2>1
  <2>6. Outgoing' = Outgoing
    BY <2>1, OutgoingKept
  <2>7. OrderInv'
    BY <2>1 DEF WaysInv, OrderInv
  <2>8. QED
    BY <1>0, <2>1, <2>3, <2>4, <2>5, <2>6, <2>7 DEF WaysInv
<1>7. ASSUME NEW p \in Convs, PortalStep(p) PROVE WaysInv'
  <2>1. CASE ~Begin(p) /\ ~ClaimEcho(p)
    <3>1. /\ handler[p].pc # "idle" /\ \A q \in Convs : q # p => handler'[q] = handler[q]
          /\ \/ handler'[p].pc = "idle"
             \/ handler'[p].v = handler[p].v /\ handler'[p].pc # "remove" /\ handler[p].pc # "remove"
          /\ UNCHANGED <<scenario, phone, queue, rooms, pending, send, aged, raced, overtaken, restarts>>
      BY <1>0, <1>7, <2>1, Worked
    <3>2. (~raced => Solo)'
      BY <3>1 DEF WaysInv, Solo
    <3>3. ASSUME NEW q \in Convs, handler'[q].pc # "idle" PROVE Busy(q)'
      <4>1. Busy(q)
        BY <3>1, <3>3 DEF WaysInv
      <4>2. \/ handler'[q] = handler[q]
            \/ handler'[q].v = handler[q].v /\ handler'[q].pc # "remove" /\ handler[q].pc # "remove"
        BY <3>1, <3>3
      <4>3. QED
        BY <3>1, <4>1, <4>2 DEF Busy
    <3>4. OrderInv' /\ Outgoing' = Outgoing
      BY <3>1, OutgoingKept DEF WaysInv, OrderInv
    <3>5. QED
      BY <1>0, <3>1, <3>2, <3>3, <3>4 DEF WaysInv
  <2>2. CASE Begin(p) \/ ClaimEcho(p)
    <3> DEFINE v == phone[Head(queue[p])]
    <3>1. /\ handler[p].pc = "idle" /\ queue[p] # <<>> /\ queue' = [queue EXCEPT ![p] = Tail(@)]
          /\ \A q \in Convs : q # p => handler'[q] = handler[q]
          /\ UNCHANGED <<scenario, phone, send>>
          /\ Begin(p) => UNCHANGED pending
          /\ ClaimEcho(p) => /\ pending /\ ~pending' /\ p = Outgoing.ConversationID /\ UNCHANGED rooms
                             /\ handler'[p].pc = "existing"
          /\ \/ UNCHANGED <<handler, rooms, raced, overtaken>>
             \/ /\ handler'[p].v = v
                /\ ClaimEcho(p) \/ rooms' = rooms \cup {p}
                /\ Begin(p) => (handler'[p].pc = "remove" <=> handler'[p].v.Status = MESSAGE_DELETED)
                /\ raced' = (raced \/ \E q \in Convs : handler[q].pc # "idle")
      BY <1>0, <1>7, <2>2, Began
    <3>2. OrderInv' /\ Outgoing' = Outgoing
      BY <3>1, OutgoingKept DEF WaysInv, OrderInv
    <3>3. (pending => send # "no")' /\ (send # "no" => scenario.outgoing /\ Outgoing.ConversationID \in rooms)'
      BY <2>2, <3>1, <3>2 DEF WaysInv
    <3>4. CASE UNCHANGED <<handler, rooms, raced, overtaken>>
      <4>1. (~raced => Solo)' /\ \A q \in Convs : (handler[q].pc # "idle" => Busy(q))'
        BY <3>1, <3>4 DEF WaysInv, Solo, Busy
      <4>2. QED
        BY <1>0, <3>2, <3>3, <4>1 DEF WaysInv
    <3>5. CASE ~UNCHANGED <<handler, rooms, raced, overtaken>>
      <4>1. ~raced' => \A q \in Convs : q # p => handler'[q].pc = "idle"
        BY <3>1, <3>5
      <4>2. (~raced => Solo)'
        BY <4>1 DEF Solo
      <4>3. \A q \in Convs : (q # p /\ handler'[q].pc # "idle") => Busy(q)'
        <5>1. rooms \subseteq rooms'
          BY <2>2, <3>1, <3>5
        <5>2. QED
          BY <3>1, <5>1 DEF WaysInv, Busy
      <4>4. Head(queue[p]) \in 1..Len(phone)
        BY <1>0, <3>1, HeadIs
      <4>5. \E i \in 1..Len(phone') : v = phone'[i]
        BY <3>1, <4>4
      <4>6. p \in rooms'
        <5>1. CASE ClaimEcho(p)
          BY <3>1, <5>1 DEF WaysInv
        <5>2. CASE ~ClaimEcho(p)
          BY <3>1, <3>5, <5>2
        <5>3. QED
          BY <5>1, <5>2
      <4>7. handler'[p].v = v
        BY <3>1, <3>5
      <4>8. handler'[p].pc = "remove" <=> handler'[p].v.Status = MESSAGE_DELETED
        <5>1. CASE Begin(p)
          BY <3>1, <3>5, <5>1
        <5>2. CASE ClaimEcho(p)
          <6>1. pending /\ scenario.outgoing /\ p = Outgoing.ConversationID /\ handler'[p].pc = "existing"
            BY <3>1, <5>2 DEF WaysInv
          <6>2. Head(queue[p]) = 1 /\ phone # <<>> /\ phone[1] = Outgoing
            <7>1. phone # <<>>
              BY <1>0, <4>4 DEF PhoneType
            <7>2. QED
              BY <6>1, <7>1 DEF WaysInv, FirstInv
          <6>3. v.Status = OUTGOING_SENDING
            BY <1>0, <6>1, <6>2, OutgoingOf
          <6>4. QED
            BY <4>7, <6>1, <6>3 DEF OUTGOING_SENDING, MESSAGE_DELETED
        <5>3. QED
          BY <2>2, <5>1, <5>2
      <4>9. Busy(p)'
        BY <4>5, <4>6, <4>7, <4>8 DEF Busy
      <4>10. QED
        BY <1>0, <3>2, <3>3, <4>2, <4>3, <4>9 DEF WaysInv
    <3>6. QED
      BY <3>4, <3>5
  <2>3. QED
    BY <2>1, <2>2
<1>8. QED
  BY <1>3, <1>4, <1>5, <1>6, <1>7 DEF Next
-----------------------------------------------------------------------------
(* The operators on a message that has one row.                            *)
LEMMA MainOne == ASSUME NEW r PROVE Main({r}) = r
  BY MainIs

LEMMA OneIs == 1..1 = {1} /\ (\A n \in 1..1 : n = 1) /\ 1 <= 1
  OBVIOUS

LEMMA OneOf == ASSUME NEW x PROVE [n \in 1..1 |-> x] = <<x>>
  OBVIOUS

(* Functions that are sequences.                                           *)
LEMMA SeqOf ==
  ASSUME NEW n \in Nat, NEW f, f = [k \in 1..n |-> f[k]]
  PROVE  f \in Seq({f[k] : k \in 1..n}) /\ Len(f) = n
<1> DEFINE S == {f[k] : k \in 1..n}
<1>1. \A k \in 1..n : f[k] \in S
  OBVIOUS
<1> HIDE DEF S
<1>2. f \in [1..n -> S]
  BY <1>1
<1>3. f \in Seq(S)
  BY <1>2, SeqDef
<1>4. DOMAIN f = 1..n /\ Len(f) \in Nat /\ DOMAIN f = 1..Len(f)
  BY <1>2, <1>3, LenProperties
<1>5. Len(f) = n
  BY <1>4
<1>6. QED
  BY <1>3, <1>5 DEF S

LEMMA NoneIs ==
  ASSUME NEW f, f = [n \in 1..0 |-> f[n]]
  PROVE  f = <<>>
<1>1. f \in Seq({f[k] : k \in 1..0}) /\ Len(f) = 0
  BY SeqOf
<1>2. QED
  BY <1>1, EmptySeq

(* Rows saved are those of the copy.                                       *)
LEMMA UpdatedOne ==
  ASSUME NEW r, NEW c, rows = {r}, c.rowid = r.rowid
  PROVE  Updated({c}) = {c}
<1>1. (CHOOSE x \in {c} : x.rowid = r.rowid) = c
  OBVIOUS
<1>2. \A x : x \in Updated({c}) <=> x = c
  BY <1>1 DEF Updated
<1>3. QED
  BY <1>2

(* HandleExisting changes what was sent, not what the row says is shown.   *)
LEMMA AfterID ==
  ASSUME NEW meta, DOMAIN meta = MetaFields, NEW v, NEW p
  PROVE  LET after == MetaAfter(meta, v, p) IN
         /\ after.MediaID = meta.MediaID /\ after.MediaPartID = meta.MediaPartID
         /\ after.Type = meta.Type
         /\ after.MSSDeliverySent = (meta.MSSDeliverySent \/ needsMSSDeliveryEvent(meta, v, p))
         /\ after.ReadReceiptSent = (meta.ReadReceiptSent \/ needsReadReceipt(meta, v, p))
         /\ needsGroupReadReceipt(meta, v, p) => after.GroupReadBy = v.ReadBy /\ after.GlobalStatusText = v.ReadBy
         /\ ~needsGroupReadReceipt(meta, v, p) =>
              after.GroupReadBy = meta.GroupReadBy /\ after.GlobalStatusText = meta.GlobalStatusText
<1> DEFINE after == MetaAfter(meta, v, p)
           delivered == meta.MSSDeliverySent \/ needsMSSDeliveryEvent(meta, v, p)
           read == meta.ReadReceiptSent \/ needsReadReceipt(meta, v, p)
           group == needsGroupReadReceipt(meta, v, p)
           text == IF group THEN v.ReadBy ELSE meta.GlobalStatusText
           by == IF group THEN v.ReadBy ELSE meta.GroupReadBy
<1>1. PICK b, c :
         after = [meta EXCEPT !.MSSSent = b, !.MSSFailSent = c, !.MSSDeliverySent = delivered,
                              !.ReadReceiptSent = read, !.GlobalStatusText = text, !.GroupReadBy = by]
  BY Zenon DEF MetaAfter
<1> HIDE DEF after, delivered, read, text, by
<1>2. /\ after.MediaID = meta.MediaID /\ after.MediaPartID = meta.MediaPartID /\ after.Type = meta.Type
      /\ after.MSSDeliverySent = delivered /\ after.ReadReceiptSent = read
      /\ after.GlobalStatusText = text /\ after.GroupReadBy = by
  BY <1>1 DEF MetaFields
<1>3. QED
  BY <1>2 DEF after, delivered, read, text, by

(* Redaction only marks the events of the rows.                            *)
LEMMA RedactedOne ==
  ASSUME events \in Seq(MatrixEvent), NEW copy
  PROVE  \A i \in 1..Len(events) :
           LET e == Redacted(copy)[i] IN
           /\ e.room = events[i].room /\ e.user = events[i].user /\ e.shows = events[i].shows
           /\ (\E r \in copy : r.MXID = i) => e.gone = TRUE
           /\ (\A r \in copy : r.MXID # i) => e = events[i]
<1> SUFFICES ASSUME NEW i \in 1..Len(events)
             PROVE  LET e == Redacted(copy)[i] IN
                    /\ e.room = events[i].room /\ e.user = events[i].user /\ e.shows = events[i].shows
                    /\ (\E r \in copy : r.MXID = i) => e.gone = TRUE
                    /\ (\A r \in copy : r.MXID # i) => e = events[i]
  OBVIOUS
<1>1. DOMAIN events = 1..Len(events) /\ events[i] \in MatrixEvent
  BY LenProperties
<1>2. Redacted(copy)[i] = IF \E r \in copy : r.MXID = i THEN [events[i] EXCEPT !.gone = TRUE] ELSE events[i]
  BY <1>1 DEF Redacted
<1>3. \A e \in MatrixEvent : LET g == [e EXCEPT !.gone = TRUE] IN
         g.room = e.room /\ g.user = e.user /\ g.shows = e.shows /\ g.gone = TRUE
  BY DEF MatrixEvent
<1>4. CASE \E r \in copy : r.MXID = i
  BY <1>1, <1>2, <1>3, <1>4
<1>5. CASE ~\E r \in copy : r.MXID = i
  BY <1>1, <1>2, <1>5
<1>6. QED
  BY <1>4, <1>5

(* The conversion for a message with one row has one part at most.         *)
LEMMA PartOne ==
  ASSUME NEW v, NEW ok \in BOOLEAN
  PROVE  LET parts == ConvertGoogleMessage(v, TRUE, ok) IN
         \/ parts = <<>>
         \/ /\ Len(parts) = 1 /\ DOMAIN parts = {1} /\ parts[1].ID = "" /\ NewMeta(parts[1].meta)
            /\ parts # <<>>
<1> DEFINE parts == ConvertGoogleMessage(v, TRUE, ok)
           n == Len(parts)
<1>1. /\ DOMAIN parts = 1..n /\ n \in 0..1 /\ (parts # <<>> => n > 0 /\ parts[1].ID = "")
      /\ \A i \in 1..n : NewMeta(parts[i].meta)
  BY PartsMeta
<1> HIDE DEF n, parts
<1>2. ASSUME parts # <<>> PROVE n = 1 /\ DOMAIN parts = {1} /\ parts[1].ID = "" /\ NewMeta(parts[1].meta)
  <2>0. n \in 0..1 /\ n > 0
    BY <1>1, <1>2
  <2>1. n = 1
    BY <2>0
  <2>2. 1..1 = {1} /\ 1 \in 1..1
    OBVIOUS
  <2>3. QED
    BY <1>1, <1>2, <2>1, <2>2
<1>3. QED
  BY <1>2 DEF n, parts

(* ConvertEdit: the part is shown in the row's event, or in a new one when *)
(* the row is of another room.                                             *)
OneEdited(p, r, ok) ==
    LET parts == ConvertGoogleMessage(handler[p].v, TRUE, ok)
        id == IF r.Room = p THEN r.MXID ELSE Len(events) + 1
    IN  /\ parts # <<>> /\ NewMeta(parts[1].meta)
        /\ rows' = {EditedRow(r, p, id, KeepFlags(r.meta, parts[1].meta))}
        /\ r.Room = p => Len(events') = Len(events)
        /\ r.Room # p => Len(events') = Len(events) + 1 /\ events'[id] = NewEvent(p, parts[1])
        /\ events'[id].shows = parts[1].shows
        /\ \A k \in 1..Len(events) : /\ events'[k].room = events[k].room
                                     /\ events'[k].gone = events[k].gone
                                     /\ events'[k].user = events[k].user
                                     /\ k # id => events'[k] = events[k]

LEMMA EditOne ==
  ASSUME NEW p \in Convs, NEW ok \in BOOLEAN, ConvertEdit(p, ok), events \in Seq(MatrixEvent),
         NEW r, IsRow(r), r.PartID = "", r.MXID \in 1..Len(events),
         rows = {r}, handler[p].rows = {r}
  PROVE  OneEdited(p, r, ok)
<1> SUFFICES LET parts == ConvertGoogleMessage(handler[p].v, TRUE, ok)
                 id == IF r.Room = p THEN r.MXID ELSE Len(events) + 1
             IN  /\ parts # <<>> /\ NewMeta(parts[1].meta)
                 /\ rows' = {EditedRow(r, p, id, KeepFlags(r.meta, parts[1].meta))}
                 /\ r.Room = p => Len(events') = Len(events)
                 /\ r.Room # p => Len(events') = Len(events) + 1 /\ events'[id] = NewEvent(p, parts[1])
                 /\ events'[id].shows = parts[1].shows
                 /\ \A k \in 1..Len(events) : /\ events'[k].room = events[k].room
                                              /\ events'[k].gone = events[k].gone
                                              /\ events'[k].user = events[k].user
                                              /\ k # id => events'[k] = events[k]
  BY DEF OneEdited
<1> DEFINE v == handler[p].v
           copy == handler[p].rows
           parts == ConvertGoogleMessage(v, Cardinality(copy) = 1, ok)
           main == Main(copy)
           Meta(i) == IF i = 1 THEN KeepFlags(main.meta, parts[i].meta) ELSE parts[i].meta
           RowOf(i) == CHOOSE s \in copy : s.PartID = parts[i].ID
           moved(s) == s.Room # p
           edited == {i \in DOMAIN parts : ~AddedPart(copy, parts[i])}
           sentNew == {i \in DOMAIN parts : IF i \in edited THEN moved(RowOf(i))
                                            ELSE MayAddPart(p, copy)}
           MXIDOf(i) == IF i \in sentNew
                        THEN Len(events) + Cardinality({j \in sentNew : j <= i})
                        ELSE RowOf(i).MXID
           editedRows == {EditedRow(RowOf(i), p, MXIDOf(i), Meta(i)) : i \in edited}
           deleted == {s \in copy : \A i \in DOMAIN parts : parts[i].ID # s.PartID}
           added == {i \in sentNew \ edited : \A s \in rows : s.PartID # parts[i].ID}
           shown == [k \in DOMAIN events |->
                       IF \E i \in edited \ sentNew : RowOf(i).MXID = k
                       THEN [events[k] EXCEPT !.shows =
                               parts[CHOOSE i \in edited \ sentNew : RowOf(i).MXID = k].shows]
                       ELSE Redacted(deleted)[k]]
           fresh == [n \in 1..Cardinality(sentNew) |->
                       NewEvent(p, parts[CHOOSE i \in sentNew : MXIDOf(i) = Len(events) + n])]
           id == IF r.Room = p THEN r.MXID ELSE Len(events) + 1
           meta == KeepFlags(r.meta, parts[1].meta)
<1>1. /\ parts # <<>> /\ events' = shown \o fresh
      /\ rows' = (Updated(editedRows) \ {s \in rows : \E d \in deleted : d.rowid = s.rowid})
                 \cup {Row(parts[i].ID, p, MXIDOf(i), v, Meta(i)) : i \in added}
  BY Zenon DEF ConvertEdit
<1>2. (Cardinality(copy) = 1) = TRUE
  BY FS_Singleton
<1>3. /\ parts = ConvertGoogleMessage(v, TRUE, ok)
      /\ DOMAIN parts = {1} /\ parts[1].ID = "" /\ NewMeta(parts[1].meta)
  <2>1. parts = ConvertGoogleMessage(v, TRUE, ok)
    BY <1>2
  <2>2. QED
    BY <1>1, <2>1, PartOne
<1> HIDE DEF parts
<1>4. main = r
  BY MainOne
<1>5. edited = {1}
  BY <1>3 DEF AddedPart
<1>6. RowOf(1) = r
  BY <1>3
<1>7. /\ r.Room = p => sentNew = {}
      /\ r.Room # p => sentNew = {1}
  <2> HIDE DEF RowOf, edited
  <2>1. QED
    BY <1>3, <1>5, <1>6
<1>8. deleted = {}
  BY <1>3
<1>9. added = {}
  <2> HIDE DEF sentNew, edited
  <2>1. QED
    BY <1>5, <1>7
<1>10. MXIDOf(1) = id
  <2> HIDE DEF sentNew, RowOf
  <2>1. CASE r.Room = p
    BY <1>6, <1>7, <2>1
  <2>2. CASE r.Room # p
    <3>0. sentNew = {1}
      BY <1>7, <2>2
    <3>1. {j \in sentNew : j <= 1} = {1} /\ 1 \in sentNew
      BY <3>0, OneIs
    <3>2. Cardinality({1}) = 1
      BY FS_Singleton
    <3>3. QED
      BY <2>2, <3>1, <3>2
  <2>3. QED
    BY <2>1, <2>2
<1> DEFINE new == EditedRow(r, p, id, meta)
<1>11. rows' = {new}
  <2>1. editedRows = {new}
    <3> HIDE DEF RowOf, MXIDOf, edited, id
    <3>1. editedRows = {EditedRow(RowOf(1), p, MXIDOf(1), Meta(1))}
      BY <1>5
    <3>2. Meta(1) = meta
      BY <1>4
    <3> HIDE DEF meta, Meta, editedRows
    <3>3. QED
      BY <1>6, <1>10, <3>1, <3>2
  <2>2. DOMAIN meta = MetaFields
    BY <1>3, FlagsKept DEF NewMeta
  <2> HIDE DEF meta, id
  <2>3. new.rowid = r.rowid
    BY DEF EditedRow, IsRow, RowFields
  <2> HIDE DEF new, editedRows, deleted, added
  <2>4. Updated(editedRows) = {new}
    BY <2>1, <2>3, UpdatedOne
  <2>5. QED
    BY <1>1, <1>8, <1>9, <2>4
<1>12. Len(events) \in Nat /\ DOMAIN events = 1..Len(events) /\ \A k \in 1..Len(events) : events[k] \in MatrixEvent
  BY LenProperties
<1>13. ASSUME NEW k \in 1..Len(events)
       PROVE  /\ r.Room = p /\ k = r.MXID => shown[k] = [events[k] EXCEPT !.shows = parts[1].shows]
              /\ ~(r.Room = p /\ k = r.MXID) => shown[k] = events[k]
  <2>1. /\ edited \ sentNew = IF r.Room = p THEN {1} ELSE {}
    <3> HIDE DEF edited, sentNew
    <3>1. QED
      BY <1>5, <1>7
  <2>2. Redacted(deleted)[k] = events[k]
    <3> HIDE DEF deleted
    <3>1. QED
      BY <1>8, <1>12, RedactedOne
  <2> HIDE DEF deleted
  <2>3. ASSUME r.Room = p, k = r.MXID PROVE shown[k] = [events[k] EXCEPT !.shows = parts[1].shows]
    <3> DEFINE set == edited \ sentNew
    <3>1. set = {1}
      BY <2>1, <2>3
    <3>2. shown[k] = IF \E i \in set : RowOf(i).MXID = k
                     THEN [events[k] EXCEPT !.shows = parts[CHOOSE i \in set : RowOf(i).MXID = k].shows]
                     ELSE Redacted(deleted)[k]
      BY <1>12
    <3> HIDE DEF shown, set, RowOf
    <3>3. (CHOOSE i \in set : RowOf(i).MXID = k) = 1 /\ \E i \in set : RowOf(i).MXID = k
      BY <1>6, <2>3, <3>1
    <3>4. QED
      BY <3>2, <3>3
  <2>4. ASSUME ~(r.Room = p /\ k = r.MXID) PROVE shown[k] = events[k]
    <3> DEFINE set == edited \ sentNew
    <3>1. (set = {1} /\ k # r.MXID) \/ set = {}
      BY <2>1, <2>4
    <3>2. shown[k] = IF \E i \in set : RowOf(i).MXID = k
                     THEN [events[k] EXCEPT !.shows = parts[CHOOSE i \in set : RowOf(i).MXID = k].shows]
                     ELSE Redacted(deleted)[k]
      BY <1>12
    <3> HIDE DEF shown, set, RowOf
    <3>3. ~\E i \in set : RowOf(i).MXID = k
      BY <1>6, <3>1
    <3>4. QED
      BY <2>2, <3>2, <3>3
  <2>5. QED
    BY <2>3, <2>4
<1>14. DOMAIN shown = 1..Len(events)
  BY <1>12
<1>15. CASE r.Room = p
  <2>1. fresh = <<>>
    <3>1. sentNew = {}
      BY <1>7, <1>15
    <3>2. Cardinality({}) = 0
      BY FS_EmptySet
    <3> DEFINE F(n) == NewEvent(p, parts[CHOOSE i \in sentNew : MXIDOf(i) = Len(events) + n])
    <3>3. fresh = [n \in 1..Cardinality(sentNew) |-> F(n)]
      OBVIOUS
    <3> HIDE DEF sentNew, F, fresh
    <3>4. fresh = [n \in 1..0 |-> F(n)]
      BY <3>1, <3>2, <3>3
    <3>5. DOMAIN fresh = 1..0 /\ fresh = [n \in 1..0 |-> fresh[n]]
      BY <3>4
    <3>6. QED
      BY <3>5, NoneIs
  <2> HIDE DEF fresh, shown
  <2>2. shown \in Seq({shown[k] : k \in 1..Len(events)}) /\ Len(shown) = Len(events)
    <3>1. shown = [k \in 1..Len(events) |-> shown[k]]
      BY <1>14 DEF shown
    <3>2. Len(events) \in Nat
      BY <1>12
    <3>3. QED
      BY <3>1, <3>2, SeqOf
  <2>3. events' = shown
    BY <1>1, <2>1, <2>2, ConcatEmptySeq
  <2>4. id = r.MXID
    BY <1>15
  <2>5. /\ events'[r.MXID].shows = parts[1].shows
        /\ \A k \in 1..Len(events) : /\ events'[k].room = events[k].room
                                     /\ events'[k].gone = events[k].gone
                                     /\ events'[k].user = events[k].user
                                     /\ k # r.MXID => events'[k] = events[k]
    <3>1. \A e \in MatrixEvent : \A s : LET g == [e EXCEPT !.shows = s] IN
             g.room = e.room /\ g.user = e.user /\ g.gone = e.gone /\ g.shows = s
      BY DEF MatrixEvent
    <3>2. \A k \in 1..Len(events) :
             /\ events[k] \in MatrixEvent
             /\ k = r.MXID => events'[k] = [events[k] EXCEPT !.shows = parts[1].shows]
             /\ k # r.MXID => events'[k] = events[k]
      BY <1>12, <1>13, <1>15, <2>3
    <3>3. PICK s : s = parts[1].shows
      OBVIOUS
    <3>4. ASSUME NEW k \in 1..Len(events)
          PROVE  /\ events'[k].room = events[k].room
                 /\ events'[k].gone = events[k].gone
                 /\ events'[k].user = events[k].user
                 /\ k = r.MXID => events'[k].shows = s
                 /\ k # r.MXID => events'[k] = events[k]
      <4>1. PICK e : e = events[k]
        OBVIOUS
      <4>2. PICK f : f = events'[k]
        OBVIOUS
      <4>3. /\ e \in MatrixEvent
            /\ k = r.MXID => f = [e EXCEPT !.shows = s]
            /\ k # r.MXID => f = e
        BY <3>2, <3>3, <4>1, <4>2
      <4>4. ASSUME k = r.MXID PROVE f.room = e.room /\ f.gone = e.gone /\ f.user = e.user /\ f.shows = s
        <5>1. f = [e EXCEPT !.shows = s] /\ e \in MatrixEvent
          BY <4>3, <4>4
        <5>2. QED
          BY ONLY <3>1, <5>1
      <4>5. QED
        BY <4>1, <4>2, <4>3, <4>4
    <3>5. QED
      BY <3>3, <3>4
  <2>6. QED
    BY <1>1, <1>3, <1>11, <1>15, <2>2, <2>3, <2>4, <2>5
<1>16. CASE r.Room # p
  <2>1. fresh = <<NewEvent(p, parts[1])>>
    <3>1. sentNew = {1}
      BY <1>7, <1>16
    <3>2. Cardinality(sentNew) = 1
      BY <3>1, FS_Singleton
    <3>3. MXIDOf(1) = Len(events) + 1
      BY <1>10, <1>16
    <3> DEFINE F(n) == NewEvent(p, parts[CHOOSE i \in sentNew : MXIDOf(i) = Len(events) + n])
    <3>4. fresh = [n \in 1..Cardinality(sentNew) |-> F(n)]
      OBVIOUS
    <3>5. (CHOOSE i \in sentNew : MXIDOf(i) = Len(events) + 1) = 1
      <4> HIDE DEF sentNew, MXIDOf
      <4>1. QED
        BY <3>1, <3>3
    <3>6. F(1) = NewEvent(p, parts[1])
      BY <3>5
    <3> HIDE DEF sentNew, F, fresh
    <3>7. fresh = [n \in 1..1 |-> F(n)]
      BY <3>2, <3>4
    <3>8. fresh = <<F(1)>>
      <4>1. fresh = [n \in 1..1 |-> F(1)]
        BY <3>7, OneIs
      <4>2. QED
        BY <4>1, OneOf
    <3>9. QED
      BY <3>6, <3>8
  <2>2. shown = events
    <3>1. \A k \in 1..Len(events) : shown[k] = events[k]
      BY <1>13, <1>16
    <3>2. shown = [k \in 1..Len(events) |-> shown[k]]
      BY <1>12
    <3> HIDE DEF shown
    <3>3. events = [k \in 1..Len(events) |-> events[k]]
      BY ONLY events \in Seq(MatrixEvent)
    <3>4. QED
      BY <3>1, <3>2, <3>3
  <2> DEFINE e == NewEvent(p, parts[1])
             n == Len(events)
  <2> HIDE DEF fresh, shown, e
  <2>3. events' = Append(events, e)
    <3>1. events' = events \o <<e>>
      BY <1>1, <2>1, <2>2 DEF e
    <3>2. PICK x : x = e
      OBVIOUS
    <3>3. events \o <<x>> = Append(events, x)
      BY ONLY events \in Seq(MatrixEvent)
    <3>4. QED
      BY <3>1, <3>2, <3>3
  <2>4. Len(events') = n + 1 /\ events'[n + 1] = e /\ \A k \in 1..n : events'[k] = events[k]
    <3>1. PICK x : x = e
      OBVIOUS
    <3>2. LET s == Append(events, x) IN
          Len(s) = n + 1 /\ s[n + 1] = x /\ \A k \in 1..n : s[k] = events[k]
      BY ONLY events \in Seq(MatrixEvent) DEF n
    <3>3. QED
      BY <2>3, <3>1, <3>2
  <2>5. id = n + 1
    BY <1>16
  <2>6. e.shows = parts[1].shows
    BY DEF e, NewEvent
  <2>7. \A k \in 1..n : k # n + 1
    <3>1. n \in Nat
      BY <1>12 DEF n
    <3>2. \A m \in Nat : \A k \in 1..m : k # m + 1
      BY ONLY TRUE
    <3>3. QED
      BY <3>1, <3>2
  <2> HIDE DEF n, id
  <2>8. QED
    BY <1>1, <1>3, <1>11, <1>16, <2>4, <2>5, <2>6, <2>7 DEF n, id, e
<1>17. QED
  BY <1>15, <1>16
-----------------------------------------------------------------------------
(* A portal that works on the message is alone with it.                    *)
LEMMA AtWork ==
  ASSUME MessageInv, StatusInv, WaysInv, Alone, NEW p \in Convs, handler[p].pc # "idle"
  PROVE  /\ \A q \in Convs : q # p => handler[q].pc = "idle"
         /\ p \in rooms /\ ~pending /\ handler[p].v \in MessageType
         /\ handler[p].pc = "remove" <=> handler[p].v.Status = MESSAGE_DELETED
         /\ \E i \in 1..Len(phone) : handler[p].v = phone[i]
         /\ Stays => p = Chat
         /\ scenario.outgoing => send # "no"
<1>1. Busy(p) /\ \A q \in Convs : q # p => handler[q].pc = "idle"
  BY DEF WaysInv, Alone, Solo
<1>2. Stays => p = Chat
  BY DEF StatusInv, ChatInv, OnePortal
<1>3. handler[p].v \in MessageType
  BY DEF MessageInv, HandlerType
<1>4. ~pending
  BY <1>2 DEF WaysInv, Alone, StatusInv, ChatInv, PendingInv, Untouched
<1>5. scenario.outgoing => send # "no"
  BY <1>2 DEF Alone, StatusInv, ChatInv, PendingInv, Untouched
<1>6. QED
  BY <1>1, <1>2, <1>3, <1>4, <1>5 DEF Busy

(* The place of a message with one portal at work.                         *)
VisibleAt(p) ==
    /\ \A r \in rows : Elsewhere(p, r) => events[r.MXID].gone = TRUE
    /\ \A r \in rows : events[r.MXID].gone = TRUE => Emptied \/ Elsewhere(p, r)
    /\ (~Stays /\ ~Resent) =>
          \A i \in 1..Len(events) : events[i].gone = FALSE => \E r \in rows : r.MXID = i
    /\ Stays => \A i \in 1..Len(events) : events[i].room = Chat

LEMMA PlacedAt ==
  ASSUME NEW p \in Convs, \A q \in Convs : q # p => handler[q].pc = "idle", RowInv, VisibleInv
  PROVE  /\ rows = {} \/ \E r : rows = {r} /\ Placed(r)
         /\ CopyOf(p) /\ VisibleAt(p)
<1>1. rows = {} \/ \E r : rows = {r} /\ Placed(r)
  BY DEF RowInv, Placed
<1>2. \A r \in rows : \A q \in Convs : Elsewhere(q, r) => q = p
  BY DEF Elsewhere
<1>3. VisibleAt(p)
  BY <1>2 DEF VisibleAt, VisibleInv
<1>4. QED
  BY <1>1, <1>3 DEF RowInv

LEMMA PlacedAfter ==
  ASSUME NEW p \in Convs, \A q \in Convs : q # p => handler'[q].pc = "idle", ~pending',
         \A r \in rows' : Placed(r)', CopyOf(p)', VisibleAt(p)'
  PROVE  RowInv' /\ VisibleInv'
<1>1. \A q \in Convs : q # p => CopyOf(q)'
  BY DEF CopyOf
<1>2. \A r \in rows' : \A q \in Convs : Elsewhere(q, r)' => q = p
  BY DEF Elsewhere
<1>3. RowInv'
  BY <1>1 DEF RowInv
<1>4. VisibleInv'
  BY <1>2 DEF VisibleInv, VisibleAt
<1>5. QED
  BY <1>3, <1>4

(* What the properties say of the phone does not change.                   *)
LEMMA SaysKept ==
  ASSUME UNCHANGED <<scenario, phone>>
  PROVE  Stays' = Stays /\ Emptied' = Emptied /\ Resent' = Resent /\ Deleted' = Deleted
         /\ Edited' = Edited /\ Rewritten' = Rewritten
<1>1. Stays' = Stays /\ Resent' = Resent /\ Deleted' = Deleted /\ Edited' = Edited
  BY DEF Stays, Resent, Deleted, Edited, Last
<1>2. QED
  BY <1>1 DEF Emptied, Rewritten

(* The handler is done with the message, or only reactions are left: for   *)
(* an edit it is of a version with nothing to show.                        *)
LEMMA LeavePlace ==
  ASSUME MessageInv, StatusInv, WaysInv, Alone, RowInv, VisibleInv, NEW p \in Convs,
         handler[p].pc \notin {"idle", "save", "remove"},
         handler[p].pc = "edit" => Empty(handler[p].v),
         UNCHANGED <<scenario, phone, rows, events, rooms, pending>>,
         \/ handler' = [handler EXCEPT ![p] = Idle]
         \/ handler' = [handler EXCEPT ![p].pc = "reactions"] /\ handler[p].pc = "existing"
  PROVE  RowInv' /\ VisibleInv'
<1>1. /\ \A q \in Convs : q # p => handler[q].pc = "idle"
      /\ ~pending /\ (Stays => p = Chat)
      /\ handler[p].pc = "remove" <=> handler[p].v.Status = MESSAGE_DELETED
      /\ \E i \in 1..Len(phone) : handler[p].v = phone[i]
  BY AtWork
<1>2. /\ \A q \in Convs : q # p => handler'[q] = handler[q]
      /\ handler'[p].pc = "idle" \/ (handler'[p].pc = "reactions" /\ handler[p].pc = "existing")
  <2>1. HandlerType /\ Idle.pc = "idle"
    BY DEF MessageInv, Idle
  <2>2. QED
    BY <2>1, HandlerMoves
<1>3. CopyOf(p) /\ VisibleAt(p) /\ \A r \in rows : Placed(r)
  BY <1>1, PlacedAt DEF RowInv
<1>4. CopyOf(p)'
  BY <1>2, <1>3 DEF CopyOf
<1>5. Stays' = Stays /\ Emptied' = Emptied /\ Resent' = Resent
  BY SaysKept
<1>6. ASSUME NEW r \in rows, Elsewhere(p, r) PROVE Emptied
  <2>1. handler[p].pc = "edit" /\ r.Room # p
    BY <1>6 DEF Elsewhere
  <2>2. ~Stays
    <3>1. r.Room = Chat \/ ~Stays
      BY <1>3, <1>6 DEF Placed, VisibleAt
    <3>2. QED
      BY <1>1, <2>1, <3>1
  <2>3. PICK i \in 1..Len(phone) : handler[p].v = phone[i]
    BY <1>1
  <2>4. Empty(phone[i]) /\ phone[i].Status # MESSAGE_DELETED
    BY <1>1, <2>1, <2>3
  <2>5. i \in DOMAIN phone
    BY <2>3, LenProperties DEF MessageInv, PhoneType
  <2>6. QED
    BY <2>2, <2>4, <2>5 DEF Emptied
<1>7. VisibleAt(p)'
  <2>1. \A r \in rows' : ~Elsewhere(p, r)'
    BY <1>2 DEF Elsewhere
  <2>2. \A r \in rows : events[r.MXID].gone = TRUE => Emptied
    BY <1>3, <1>6 DEF VisibleAt
  <2>3. Chat' = Chat
    BY ScenarioKept
  <2>4. QED
    BY <1>3, <1>5, <2>1, <2>2, <2>3 DEF VisibleAt
<1>8. \A r \in rows' : Placed(r)'
  BY <1>3 DEF Placed
<1>9. QED
  BY <1>1, <1>2, <1>4, <1>7, <1>8, PlacedAfter
(* HandleExisting: the old room's event is redacted, or there is nothing   *)
(* to do; a move is always followed by an edit.                            *)
LEMMA ExistingPlace ==
  ASSUME MessageInv, StatusInv, WaysInv, Alone, RowInv, VisibleInv, NEW p \in Convs, HandleExisting(p)
  PROVE  RowInv' /\ VisibleInv'
<1> DEFINE v == handler[p].v
           copy == handler[p].rows
           main == Main(copy)
           changed == [main EXCEPT !.meta = MetaAfter(main.meta, v, p)]
           resync == doMessageResync(copy, v, p)
           set == (copy \ {main}) \cup {changed}
<1>1. /\ handler[p].pc = "existing"
      /\ \/ handler' = [handler EXCEPT ![p].pc = "reactions"] /\ UNCHANGED events
         \/ /\ events' = IF chatIDChanged(copy, p) /\ main.Room \in rooms THEN Redacted(copy) ELSE events
            /\ handler' = [handler EXCEPT ![p].pc = "save", ![p].rows = set, ![p].resync = resync]
      /\ UNCHANGED <<scenario, phone, rows, rooms, pending>>
  BY Zenon DEF HandleExisting, sending
<1> HIDE DEF set, resync
<1>2. CASE handler' = [handler EXCEPT ![p].pc = "reactions"] /\ UNCHANGED events
  BY <1>1, <1>2, LeavePlace
<1>3. CASE /\ events' = IF chatIDChanged(copy, p) /\ main.Room \in rooms THEN Redacted(copy) ELSE events
           /\ handler' = [handler EXCEPT ![p].pc = "save", ![p].rows = set, ![p].resync = resync]
  <2>1. /\ \A q \in Convs : q # p => handler[q].pc = "idle"
        /\ ~pending /\ (Stays => p = Chat) /\ p \in rooms
    BY <1>1, AtWork
  <2>2. /\ \A q \in Convs : q # p => handler'[q] = handler[q]
        /\ handler'[p].pc = "save" /\ handler'[p].rows = set /\ handler'[p].resync = resync
    <3>1. HandlerType
      BY DEF MessageInv
    <3>2. ASSUME NEW a, NEW b, handler' = [handler EXCEPT ![p].pc = "save", ![p].rows = a, ![p].resync = b]
          PROVE  /\ \A q \in Convs : q # p => handler'[q] = handler[q]
                 /\ handler'[p].pc = "save" /\ handler'[p].rows = a /\ handler'[p].resync = b
      BY ONLY <3>1, <3>2, p \in Convs DEF HandlerType
    <3>3. QED
      BY <1>3, <3>2
  <2>3. CopyOf(p) /\ VisibleAt(p) /\ copy = rows
    BY <1>1, <2>1, PlacedAt DEF CopyOf
  <2>4. PICK r : rows = {r} /\ Placed(r)
    BY <1>1, <2>1, <2>3, PlacedAt DEF CopyOf
  <2>5. main = r
    BY <2>3, <2>4, MainOne
  <2>6. chatIDChanged(copy, p) <=> r.Room # p
    BY <2>5 DEF chatIDChanged
  <2>7. r.Room # p => resync = TRUE
    BY <2>6 DEF resync, doMessageResync
  <2> DEFINE c == [r EXCEPT !.meta = MetaAfter(r.meta, v, p)]
  <2>8. set = {c}
    BY <2>3, <2>4, <2>5 DEF set
  <2>9. Later(r, c)
    <3> DEFINE after == MetaAfter(r.meta, v, p)
    <3>1. IsRow(r)
      BY <2>4 DEF Placed
    <3>2. /\ DOMAIN after = MetaFields /\ after.IsOutgoing = r.meta.IsOutgoing
          /\ after.GlobalMediaStatus = r.meta.GlobalMediaStatus
          /\ after.TextHash = r.meta.TextHash /\ after.GlobalPartCount = r.meta.GlobalPartCount
      BY <3>1, AfterIs DEF IsRow
    <3>3. after.MediaID = r.meta.MediaID
      BY <3>1, AfterID DEF IsRow
    <3> HIDE DEF after
    <3>4. /\ c.meta = after /\ DOMAIN c = RowFields /\ c.Timestamp = r.Timestamp
          /\ c.PartID = r.PartID /\ c.Room = r.Room /\ c.MXID = r.MXID /\ c.rowid = r.rowid
      BY <3>1 DEF IsRow, RowFields, after
    <3> HIDE DEF c
    <3>5. IsRow(c)
      BY <3>1, <3>2, <3>4 DEF IsRow
    <3>6. QED
      BY <3>2, <3>3, <3>4, <3>5 DEF Later
  <2> HIDE DEF c, main, copy
  <2>10. CopyOf(p)'
    <3>1. handler'[p].rows = {c}
      BY <2>2, <2>8
    <3>2. c \in handler'[p].rows
      BY <3>1
    <3>3. handler'[p].pc = "save" => \A s \in rows' :
             /\ \E d \in handler'[p].rows : handler'[p].rows = {d} /\ Later(s, d)
             /\ s.Room # p => handler'[p].resync = TRUE
      BY <1>1, <2>2, <2>4, <2>7, <2>9, <3>1, <3>2
    <3>4. rows' # {}
      BY <1>1, <2>4
    <3>5. QED
      BY <2>2, <3>3, <3>4 DEF CopyOf, Later
  <2>11. /\ Len(events') = Len(events)
         /\ \A i \in 1..Len(events) :
               /\ events'[i].room = events[i].room /\ (events'[i].gone = FALSE => events[i].gone = FALSE)
               /\ r.Room = p => events'[i] = events[i]
               /\ r.Room # p /\ r.MXID = i => events'[i].gone = TRUE
    <3>1. r.Room \in rooms
      BY <2>4 DEF Placed
    <3>2. CASE r.Room = p
      BY <1>3, <2>6, <3>2
    <3>3. CASE r.Room # p
      <4>1. events' = Redacted(copy)
        BY <1>3, <2>5, <2>6, <3>1, <3>3
      <4>2. events \in Seq(MatrixEvent)
        BY DEF MessageInv, ShownType
      <4>3. QED
        <5>1. Len(events') = Len(events)
          BY <4>1, <4>2, RedactedIs
        <5>2. ASSUME NEW i \in 1..Len(events)
              PROVE  /\ events'[i].room = events[i].room
                     /\ r.MXID = i => events'[i].gone = TRUE
                     /\ r.MXID # i => events'[i] = events[i]
          BY <2>3, <2>4, <4>1, <4>2, RedactedOne
        <5>3. ASSUME NEW i \in 1..Len(events), events'[i].gone = FALSE PROVE events[i].gone = FALSE
          BY <5>2, <5>3
        <5>4. QED
          BY <3>3, <5>1, <5>2, <5>3
    <3>4. QED
      BY <3>2, <3>3
  <2>12. Stays' = Stays /\ Emptied' = Emptied /\ Resent' = Resent /\ Chat' = Chat
    BY <1>1, SaysKept, ScenarioKept
  <2>13. Placed(r)'
    BY <1>1, <2>4, <2>11 DEF Placed
  <2>14. VisibleAt(p)'
    <3>1. Elsewhere(p, r)' <=> r.Room # p
      BY <2>2 DEF Elsewhere
    <3>2. r.MXID \in 1..Len(events)
      BY <2>4 DEF Placed
    <3>3. r.Room # p => events'[r.MXID].gone = TRUE
      BY <2>11, <3>2
    <3>4. events'[r.MXID].gone = TRUE => Emptied \/ r.Room # p
      <4>1. ~Elsewhere(p, r)
        BY <1>1 DEF Elsewhere
      <4>2. r.Room = p => events'[r.MXID] = events[r.MXID]
        BY <2>11, <3>2
      <4>3. QED
        BY <2>3, <2>4, <4>1, <4>2 DEF VisibleAt
    <3>5. (~Stays /\ ~Resent) =>
             \A i \in 1..Len(events) : events'[i].gone = FALSE => \E s \in rows : s.MXID = i
      BY <2>3, <2>11 DEF VisibleAt
    <3>6. Stays => \A i \in 1..Len(events) : events'[i].room = Chat
      BY <2>3, <2>11 DEF VisibleAt
    <3>7. rows' = {r} /\ Len(events') = Len(events)
      BY <1>1, <2>4, <2>11
    <3>8. \A s \in rows' : Elsewhere(p, s)' => events'[s.MXID].gone = TRUE
      BY <3>1, <3>3, <3>7
    <3>9. \A s \in rows' : events'[s.MXID].gone = TRUE => Emptied' \/ Elsewhere(p, s)'
      BY <2>12, <3>1, <3>4, <3>7
    <3>10. QED
      BY <1>1, <2>12, <3>5, <3>6, <3>7, <3>8, <3>9 DEF VisibleAt
  <2>15. \A s \in rows' : Placed(s)'
    BY <1>1, <2>4, <2>13
  <2>16. ~pending' /\ \A q \in Convs : q # p => handler'[q].pc = "idle"
    BY <1>1, <2>1, <2>2
  <2>17. QED
    BY <2>10, <2>14, <2>15, <2>16, PlacedAfter
<1>4. QED
  BY <1>1, <1>2, <1>3

(* SaveParts: the row becomes the copy.                                    *)
LEMMA SavePlace ==
  ASSUME MessageInv, StatusInv, WaysInv, Alone, RowInv, VisibleInv, NEW p \in Convs, SaveParts(p)
  PROVE  /\ RowInv' /\ VisibleInv' /\ rows' = handler[p].rows
         /\ \E r, c : rows = {r} /\ rows' = {c} /\ Later(r, c)
<1> DEFINE place == IF handler[p].resync THEN "edit" ELSE "reactions"
<1>1. /\ handler[p].pc = "save" /\ rows' = Updated(handler[p].rows)
      /\ handler' = [handler EXCEPT ![p].pc = place]
      /\ UNCHANGED <<scenario, phone, events, rooms, pending>>
  BY DEF SaveParts, sending, matrix
<1>2. /\ \A q \in Convs : q # p => handler[q].pc = "idle"
      /\ ~pending /\ (Stays => p = Chat)
  BY <1>1, AtWork
<1>3. /\ \A q \in Convs : q # p => handler'[q] = handler[q]
      /\ handler'[p].pc = place /\ handler'[p].rows = handler[p].rows
  <2>1. HandlerType
    BY DEF MessageInv
  <2> HIDE DEF place
  <2>2. QED
    BY <1>1, <2>1, HandlerMoves
<1>4. CopyOf(p) /\ VisibleAt(p)
  BY <1>1, <1>2, PlacedAt
<1>5. PICK r : rows = {r} /\ Placed(r)
  BY <1>1, <1>2, <1>4, PlacedAt DEF CopyOf
<1>6. PICK c : handler[p].rows = {c} /\ Later(r, c)
  BY <1>1, <1>4, <1>5 DEF CopyOf
<1>7. r.Room # p => handler[p].resync = TRUE
  BY <1>1, <1>4, <1>5 DEF CopyOf
<1>8. rows' = {c}
  BY <1>1, <1>5, <1>6, UpdatedOne DEF Later
<1>9. CopyOf(p)'
  BY <1>3, <1>6, <1>8 DEF CopyOf
<1>10. Stays' = Stays /\ Emptied' = Emptied /\ Resent' = Resent /\ Chat' = Chat
  BY <1>1, SaysKept, ScenarioKept
<1>11. Placed(c)'
  BY <1>1, <1>5, <1>6, <1>8 DEF Placed, Later
<1>12. VisibleAt(p)'
  <2>1. Elsewhere(p, r) <=> r.Room # p
    BY <1>1 DEF Elsewhere
  <2>2. Elsewhere(p, c)' <=> r.Room # p
    BY <1>3, <1>6, <1>7 DEF Elsewhere, Later
  <2>3. c.MXID = r.MXID
    BY <1>6 DEF Later
  <2>4. QED
    BY <1>1, <1>4, <1>5, <1>8, <1>10, <2>1, <2>2, <2>3 DEF VisibleAt
<1>13. \A s \in rows' : Placed(s)'
  BY <1>8, <1>11
<1>14. ~pending' /\ \A q \in Convs : q # p => handler'[q].pc = "idle"
  BY <1>1, <1>2, <1>3
<1>15. QED
  BY <1>5, <1>6, <1>8, <1>9, <1>12, <1>13, <1>14, PlacedAfter

(* HandleEdit: the event stays the row's, or a new one in the new room is. *)
LEMMA EditPlace ==
  ASSUME MessageInv, StatusInv, WaysInv, Alone, RowInv, VisibleInv, NEW p \in Convs, HandleEdit(p)
  PROVE  RowInv' /\ VisibleInv'
<1>1. PICK ok \in BOOLEAN : ConvertEdit(p, ok)
  BY DEF HandleEdit
<1>2. /\ handler[p].pc = "edit" /\ handler' = [handler EXCEPT ![p].pc = "reactions"]
      /\ UNCHANGED <<scenario, phone, rooms, pending>>
  BY DEF HandleEdit, sending
<1>3. /\ \A q \in Convs : q # p => handler[q].pc = "idle"
      /\ ~pending /\ (Stays => p = Chat) /\ p \in rooms
  BY <1>2, AtWork
<1>4. /\ \A q \in Convs : q # p => handler'[q] = handler[q]
      /\ handler'[p].pc = "reactions"
  <2>1. HandlerType
    BY DEF MessageInv
  <2>2. QED
    BY <1>2, <2>1, HandlerMoves
<1>5. CopyOf(p) /\ VisibleAt(p)
  BY <1>2, <1>3, PlacedAt
<1>6. PICK r : rows = {r} /\ Placed(r)
  BY <1>2, <1>3, <1>5, PlacedAt DEF CopyOf
<1>7. handler[p].rows = {r}
  BY <1>2, <1>5, <1>6 DEF CopyOf
<1> DEFINE parts == ConvertGoogleMessage(handler[p].v, TRUE, ok)
           id == IF r.Room = p THEN r.MXID ELSE Len(events) + 1
           new == EditedRow(r, p, id, KeepFlags(r.meta, parts[1].meta))
           e == NewEvent(p, parts[1])
<1>8. /\ NewMeta(parts[1].meta) /\ rows' = {new}
      /\ r.Room = p => Len(events') = Len(events)
      /\ r.Room # p => Len(events') = Len(events) + 1 /\ events'[id] = e
      /\ \A k \in 1..Len(events) : /\ events'[k].room = events[k].room
                                   /\ events'[k].gone = events[k].gone
  <2>1. events \in Seq(MatrixEvent)
    BY DEF MessageInv, ShownType
  <2>2. IsRow(r) /\ r.PartID = "" /\ r.MXID \in 1..Len(events)
    BY <1>6 DEF Placed
  <2>3. OneEdited(p, r, ok)
    <3>1. rows = {r}
      BY <1>6
    <3>2. QED
      BY <1>1, <1>7, <2>1, <2>2, <3>1, EditOne
  <2>4. QED
    BY <2>3, Zenon DEF OneEdited
<1>9. IsRow(new) /\ new.Room = p /\ new.MXID = id /\ new.PartID = ""
  <2> DEFINE m == KeepFlags(r.meta, parts[1].meta)
  <2>1. DOMAIN m = MetaFields
    BY <1>8, FlagsKept DEF NewMeta
  <2>2. IsRow(r) /\ r.PartID = ""
    BY <1>6 DEF Placed
  <2> HIDE DEF m, id
  <2>3. PICK j, k : j = id /\ k = m
    OBVIOUS
  <2>5. PICK x : x = EditedRow(r, p, j, k)
    OBVIOUS
  <2>4. /\ DOMAIN x = RowFields /\ x.meta = k /\ x.Room = p /\ x.MXID = j
        /\ x.PartID = r.PartID /\ x.Timestamp = r.Timestamp
    BY ONLY <2>2, <2>5 DEF IsRow, RowFields, EditedRow
  <2>6. IsRow(x) /\ x.Room = p /\ x.MXID = j /\ x.PartID = ""
    BY <2>1, <2>2, <2>3, <2>4 DEF IsRow
  <2>7. x = EditedRow(r, p, id, m)
    BY <2>3, <2>5
  <2>8. QED
    BY <2>3, <2>6, <2>7 DEF m
<1>10. e.room = p /\ e.gone = FALSE
  BY DEF NewEvent
<1> DEFINE n == Len(events)
<1>11. n \in Nat /\ r.MXID \in 1..n
  BY <1>6, LenProperties DEF Placed, MessageInv, ShownType
<1> HIDE DEF new, parts, e
<1>12. /\ \A k \in 1..Len(events') : k \in 1..n \/ (r.Room # p /\ k = id)
       /\ id \in 1..Len(events') /\ \A k \in 1..n : k \in 1..Len(events')
  <2>1. CASE r.Room = p
    BY <1>8, <1>11, <2>1 DEF n
  <2>2. CASE r.Room # p
    <3>1. Len(events') = n + 1 /\ id = n + 1
      BY <1>8, <2>2 DEF n
    <3>2. QED
      BY <1>11, <2>2, <3>1
  <2>3. QED
    BY <2>1, <2>2
<1>13. Stays' = Stays /\ Emptied' = Emptied /\ Resent' = Resent /\ Chat' = Chat
  BY <1>2, SaysKept, ScenarioKept
<1>14. events'[id].room = p
  BY <1>6, <1>8, <1>10, <1>11 DEF Placed, n
<1> HIDE DEF n
<1>15. PICK x, j : rows' = {x} /\ IsRow(x) /\ x.Room = p /\ x.MXID = j /\ x.PartID = "" /\ j = id
  BY <1>8, <1>9
<1>16. Placed(x)'
  BY <1>2, <1>3, <1>12, <1>14, <1>15 DEF Placed
<1>17. CopyOf(p)'
  BY <1>4, <1>8 DEF CopyOf
<1>18. VisibleAt(p)'
  <2>1. ~Elsewhere(p, x)'
    BY <1>4 DEF Elsewhere
  <2>2. events'[x.MXID].gone = TRUE => Emptied
    <3>1. CASE r.Room = p
      <4>1. ~Elsewhere(p, r) /\ id = r.MXID
        BY <3>1 DEF Elsewhere
      <4>2. events[r.MXID].gone = TRUE => Emptied
        BY <1>5, <1>6, <4>1 DEF VisibleAt
      <4>3. QED
        BY <1>8, <1>15, <1>11, <4>1, <4>2 DEF n
    <3>2. CASE r.Room # p
      BY <1>8, <1>15, <1>10, <3>2
    <3>3. QED
      BY <3>1, <3>2
  <2>3. ASSUME ~Stays, ~Resent, NEW k \in 1..Len(events'), events'[k].gone = FALSE PROVE k = id
    <3>1. CASE k \in 1..n
      <4>1. events[k].gone = FALSE
        BY <1>8, <2>3, <3>1 DEF n
      <4>2. k = r.MXID
        BY <1>5, <1>6, <2>3, <3>1, <4>1 DEF VisibleAt, n
      <4>3. r.Room = p
        <5>1. r.Room # p => events[r.MXID].gone = TRUE
          BY <1>2, <1>5, <1>6 DEF VisibleAt, Elsewhere
        <5>2. QED
          BY <4>1, <4>2, <5>1
      <4>4. QED
        BY <4>2, <4>3
    <3>2. QED
      BY <1>12, <2>3, <3>1
  <2>4. Stays => \A k \in 1..Len(events') : events'[k].room = Chat
    <3> SUFFICES ASSUME Stays, NEW k \in 1..Len(events') PROVE events'[k].room = Chat
      OBVIOUS
    <3>1. CASE k \in 1..n
      BY <1>5, <1>8, <3>1 DEF VisibleAt, n
    <3>2. CASE k = id
      BY <1>3, <1>14, <3>2
    <3>3. QED
      BY <1>12, <3>1, <3>2
  <2>5. (~Stays /\ ~Resent) =>
           \A k \in 1..Len(events') : events'[k].gone = FALSE => \E s \in rows' : s.MXID = k
    BY <1>15, <2>3
  <2> HIDE DEF id
  <2>6. QED
    BY <1>15, <1>13, <2>1, <2>2, <2>4, <2>5 DEF VisibleAt
<1>19. \A s \in rows' : Placed(s)'
  BY <1>15, <1>16
<1>20. ~pending' /\ \A q \in Convs : q # p => handler'[q].pc = "idle"
  BY <1>2, <1>3, <1>4
<1>21. QED
  BY <1>17, <1>18, <1>19, <1>20, PlacedAfter
-----------------------------------------------------------------------------
(* ConvertMessage: a message without a row gets one for the event sent, or *)
(* none if it has nothing to show.                                         *)
LEMMA NewPlace ==
  ASSUME MessageInv, StatusInv, WaysInv, Alone, RowInv, VisibleInv, NEW p \in Convs, NEW ok \in BOOLEAN,
         ConvertMessage(p, ok)
  PROVE  RowInv' /\ VisibleInv'
<1> DEFINE v == handler[p].v
           parts == ConvertGoogleMessage(v, TRUE, ok)
           n == Len(events)
<1>1. /\ handler[p].pc = "new" /\ handler' = [handler EXCEPT ![p] = Idle]
      /\ UNCHANGED <<scenario, phone, rooms, pending>>
      /\ events' = events \o [i \in DOMAIN parts |-> NewEvent(p, parts[i])]
      /\ rows' = rows \cup {Row(parts[i].ID, p, n + i, v, parts[i].meta) :
                               i \in {j \in DOMAIN parts : \A r \in rows : r.PartID # parts[j].ID}}
  BY Zenon DEF ConvertMessage, sending, Done
<1>2. /\ \A q \in Convs : q # p => handler[q].pc = "idle"
      /\ ~pending /\ (Stays => p = Chat) /\ p \in rooms /\ v \in MessageType
  BY <1>1, AtWork
<1>3. handler'[p].pc = "idle" /\ \A q \in Convs : q # p => handler'[q] = handler[q]
  <2>1. HandlerType /\ Idle.pc = "idle"
    BY DEF MessageInv, Idle
  <2>2. QED
    BY <1>1, <2>1, HandlerMoves
<1>4. CopyOf(p) /\ VisibleAt(p)
  BY <1>2, PlacedAt
<1>5. rows = {}
  BY <1>1, <1>4 DEF CopyOf
<1>6. CopyOf(p)'
  BY <1>3 DEF CopyOf
<1>7. Stays' = Stays /\ Emptied' = Emptied /\ Resent' = Resent /\ Chat' = Chat
  BY <1>1, SaysKept, ScenarioKept
<1>8. ~pending' /\ \A q \in Convs : q # p => handler'[q].pc = "idle"
  BY <1>1, <1>2, <1>3
<1>9. events \in Seq(MatrixEvent) /\ n \in Nat
  BY LenProperties DEF MessageInv, ShownType
<1>10. CASE parts = <<>>
  <2>1. DOMAIN parts = {}
    <3> HIDE DEF parts
    <3>1. DOMAIN <<>> = {}
      OBVIOUS
    <3>2. QED
      BY <1>10, <3>1
  <2> DEFINE F(i) == NewEvent(p, parts[i])
             fresh == [i \in DOMAIN parts |-> F(i)]
  <2>2. fresh = <<>>
    <3> HIDE DEF F, parts
    <3>1. fresh = [i \in 1..0 |-> fresh[i]]
      BY <2>1
    <3> HIDE DEF fresh
    <3>2. QED
      BY <3>1, NoneIs
  <2>3. events' = events
    BY <1>1, <1>9, <2>2, ConcatEmptySeq
  <2>4. rows' = {}
    BY <1>1, <1>5, <2>1
  <2>5. VisibleAt(p)'
    BY <1>4, <1>5, <1>7, <2>3, <2>4 DEF VisibleAt
  <2>6. QED
    BY <1>6, <1>8, <2>4, <2>5, PlacedAfter
<1>11. CASE parts # <<>>
  <2> DEFINE e == NewEvent(p, parts[1])
             meta == parts[1].meta
             new == Row("", p, n + 1, v, meta)
  <2>1. DOMAIN parts = {1} /\ parts[1].ID = "" /\ NewMeta(meta)
    BY <1>11, PartOne
  <2> DEFINE F(i) == NewEvent(p, parts[i])
             fresh == [i \in DOMAIN parts |-> F(i)]
             R(i) == Row(parts[i].ID, p, n + i, v, parts[i].meta)
  <2>2. fresh = <<e>>
    <3>1. F(1) = e
      OBVIOUS
    <3> HIDE DEF F, parts, e
    <3>2. fresh = [i \in 1..1 |-> F(1)]
      BY <2>1, OneIs
    <3>3. QED
      BY <3>1, <3>2, OneOf
  <2>3. rows' = {new}
    <3>1. rows' = {R(i) : i \in DOMAIN parts}
      BY <1>1, <1>5
    <3>2. R(1) = new
      BY <2>1
    <3> HIDE DEF R, parts, new
    <3>3. QED
      BY <2>1, <3>1, <3>2
  <2>4. e.room = p /\ e.gone = FALSE
    BY DEF NewEvent
  <2>5. events' = events \o <<e>>
    BY <1>1, <2>2
  <2>6. v.Timestamp \in Nat /\ DOMAIN meta = MetaFields
    BY <1>2, <2>1 DEF MessageType, NewMeta
  <2> HIDE DEF e, meta, parts, v
  <2>7. PICK x, m, j : x = e /\ m = meta /\ j = n + 1
    OBVIOUS
  <2>8. Len(events') = n + 1 /\ events'[n + 1] = e /\ \A k \in 1..n : events'[k] = events[k]
    <3>1. LET s == events \o <<x>> IN
          Len(s) = n + 1 /\ s[n + 1] = x /\ \A k \in 1..n : s[k] = events[k]
      BY <1>9
    <3>2. QED
      BY <2>5, <2>7, <3>1
  <2>9. IsRow(new) /\ new.PartID = "" /\ new.Room = p /\ new.MXID = n + 1
    <3>1. PICK w : w = Row("", p, j, v, m)
      OBVIOUS
    <3>2. /\ w.PartID = "" /\ w.Room = p /\ w.MXID = j /\ w.meta = m /\ w.Timestamp = v.Timestamp
          /\ DOMAIN w = RowFields
      BY <3>1 DEF Row, RowFields
    <3>3. IsRow(w)
      BY <2>6, <2>7, <3>2 DEF IsRow
    <3>4. w = new
      BY <2>7, <3>1
    <3>5. QED
      BY <2>7, <3>2, <3>3, <3>4
  <2> HIDE DEF new
  <2>10. PICK w : rows' = {w} /\ IsRow(w) /\ w.PartID = "" /\ w.Room = p /\ w.MXID = n + 1
    BY <2>3, <2>9
  <2> HIDE DEF n
  <2>11. /\ n + 1 \in 1..Len(events')
         /\ \A k \in 1..Len(events') : k \in 1..n \/ k = n + 1
    BY <1>9, <2>8
  <2>12. Placed(w)'
    BY <1>1, <1>2, <2>4, <2>8, <2>10, <2>11 DEF Placed
  <2>13. VisibleAt(p)'
    <3>1. ~Elsewhere(p, w)'
      BY <1>3 DEF Elsewhere
    <3>2. events'[w.MXID].gone = FALSE
      BY <2>4, <2>8, <2>10
    <3>3. ASSUME ~Stays, ~Resent, NEW k \in 1..Len(events'), events'[k].gone = FALSE
          PROVE  \E r \in rows' : r.MXID = k
      <4>1. k \notin 1..n
        BY <1>4, <1>5, <2>8, <3>3 DEF VisibleAt, n
      <4>2. QED
        BY <2>10, <2>11, <4>1
    <3>4. ASSUME Stays, NEW k \in 1..Len(events') PROVE events'[k].room = Chat
      <4>1. CASE k \in 1..n
        BY <1>4, <2>8, <3>4, <4>1 DEF VisibleAt, n
      <4>2. CASE k = n + 1
        BY <1>2, <2>4, <2>8, <3>4, <4>2
      <4>3. QED
        BY <2>11, <4>1, <4>2
    <3>5. QED
      BY <1>7, <2>10, <3>1, <3>2, <3>3, <3>4 DEF VisibleAt
  <2>14. QED
    BY <1>6, <1>8, <2>10, <2>12, <2>13, PlacedAfter
<1>12. QED
  BY <1>10, <1>11

(* Remove: all the message's events are redacted with its rows.            *)
LEMMA RemovePlace ==
  ASSUME MessageInv, StatusInv, WaysInv, Alone, RowInv, VisibleInv, NEW p \in Convs, Remove(p)
  PROVE  RowInv' /\ VisibleInv'
<1>1. /\ handler[p].pc = "remove" /\ handler' = [handler EXCEPT ![p] = Idle]
      /\ events' = Redacted(handler[p].rows) /\ rows' = {}
      /\ UNCHANGED <<scenario, phone, rooms, pending>>
  BY DEF Remove, Done, sending
<1>2. /\ \A q \in Convs : q # p => handler[q].pc = "idle"
      /\ ~pending
  BY <1>1, AtWork
<1>3. handler'[p].pc = "idle" /\ \A q \in Convs : q # p => handler'[q] = handler[q]
  <2>1. HandlerType /\ Idle.pc = "idle"
    BY DEF MessageInv, Idle
  <2>2. QED
    BY <1>1, <2>1, HandlerMoves
<1>4. CopyOf(p) /\ VisibleAt(p)
  BY <1>2, PlacedAt
<1>5. handler[p].rows = rows
  BY <1>1, <1>4 DEF CopyOf
<1>6. CopyOf(p)'
  BY <1>1, <1>3 DEF CopyOf
<1>7. Stays' = Stays /\ Emptied' = Emptied /\ Resent' = Resent /\ Chat' = Chat
  BY <1>1, SaysKept, ScenarioKept
<1>8. events \in Seq(MatrixEvent)
  BY DEF MessageInv, ShownType
<1>9. Len(events') = Len(events)
  BY <1>1, <1>8, RedactedIs
<1>10. ASSUME NEW i \in 1..Len(events)
       PROVE  /\ events'[i].room = events[i].room
              /\ (\E r \in rows : r.MXID = i) => events'[i].gone = TRUE
              /\ (\A r \in rows : r.MXID # i) => events'[i] = events[i]
  BY <1>1, <1>5, <1>8, RedactedOne
<1>11. ASSUME ~Stays, ~Resent, NEW i \in 1..Len(events), events'[i].gone = FALSE PROVE FALSE
  <2>1. CASE \E r \in rows : r.MXID = i
    BY <1>10, <1>11, <2>1
  <2>2. CASE \A r \in rows : r.MXID # i
    BY <1>4, <1>10, <1>11, <2>2 DEF VisibleAt
  <2>3. QED
    BY <2>1, <2>2
<1>12. VisibleAt(p)'
  BY <1>1, <1>4, <1>7, <1>9, <1>10, <1>11 DEF VisibleAt
<1>13. QED
  BY <1>1, <1>2, <1>3, <1>6, <1>12, PlacedAfter

(* HandleExistingResends: the row is dropped, its event stays; the phone's *)
(* timestamp says so from then on.                                         *)
LEMMA ResendPlace ==
  ASSUME MessageInv, StatusInv, WaysInv, Alone, RowInv, VisibleInv, NEW p \in Convs, HandleExistingResends(p)
  PROVE  RowInv' /\ VisibleInv' /\ Resent
<1> DEFINE v == handler[p].v
<1>1. /\ handler[p].pc = "existing" /\ handler' = [handler EXCEPT ![p].pc = "new", ![p].rows = {}]
      /\ v.Timestamp - Main(handler[p].rows).Timestamp > 7
      /\ rows' = {} /\ UNCHANGED <<scenario, phone, events, rooms, pending>>
  BY DEF HandleExistingResends, DeleteAndResendThreshold, sending, matrix
<1>2. /\ \A q \in Convs : q # p => handler[q].pc = "idle"
      /\ ~pending /\ v \in MessageType /\ \E i \in 1..Len(phone) : v = phone[i]
  BY <1>1, AtWork
<1>3. handler'[p].pc = "new" /\ \A q \in Convs : q # p => handler'[q] = handler[q]
  <2>1. HandlerType
    BY DEF MessageInv
  <2>2. PICK x : x = {}
    OBVIOUS
  <2>3. handler' = [handler EXCEPT ![p].pc = "new", ![p].rows = x]
    BY <1>1, <2>2
  <2>4. QED
    BY <2>1, <2>3, HandlerMoves
<1>4. CopyOf(p) /\ VisibleAt(p)
  BY <1>2, PlacedAt
<1>5. PICK r : rows = {r} /\ Placed(r)
  BY <1>1, <1>2, <1>4, PlacedAt DEF CopyOf
<1>6. Main(handler[p].rows) = r /\ r.Timestamp \in Nat
  BY <1>1, <1>4, <1>5, MainOne DEF CopyOf, Placed, IsRow
<1>7. Resent
  <2>1. PICK i \in 1..Len(phone) : v = phone[i]
    BY <1>2
  <2>2. phone \in Seq(MessageType) /\ Len(phone) \in Nat /\ phone # <<>>
    BY <2>1, LenProperties DEF MessageInv, PhoneType
  <2>3. Len(phone) \in 1..Len(phone) /\ i <= Len(phone)
    BY <2>1, <2>2
  <2>4. v.Timestamp <= Last.Timestamp
    BY <2>1, <2>3 DEF WaysInv, OrderInv, Last
  <2>5. Last.Timestamp \in Nat
    <3>1. Last \in MessageType
      BY <2>2, <2>3 DEF Last
    <3>2. QED
      BY <3>1 DEF MessageType
  <2>6. v.Timestamp \in Nat
    BY <1>2 DEF MessageType
  <2>7. QED
    BY <1>1, <1>6, <2>2, <2>4, <2>5, <2>6 DEF Resent
<1>8. Stays' = Stays /\ Emptied' = Emptied /\ Resent' = Resent /\ Chat' = Chat
  BY <1>1, SaysKept, ScenarioKept
<1>9. CopyOf(p)'
  BY <1>1, <1>3 DEF CopyOf
<1>10. VisibleAt(p)'
  BY <1>1, <1>4, <1>7, <1>8 DEF VisibleAt
<1>11. QED
  BY <1>1, <1>2, <1>3, <1>7, <1>9, <1>10, PlacedAfter
-----------------------------------------------------------------------------
(* A portal starts on a version with the rows there are.                   *)
LEMMA BeginPlace ==
  ASSUME MessageInv, StatusInv, WaysInv, Alone, RowInv, VisibleInv, NEW p \in Convs, Begin(p), Alone'
  PROVE  RowInv' /\ VisibleInv'
<1>0. HandlerType /\ PhoneType
  BY DEF MessageInv
<1>1. /\ handler[p].pc = "idle" /\ queue[p] # <<>>
      /\ \A q \in Convs : q # p => handler'[q] = handler[q]
      /\ UNCHANGED <<scenario, phone, send, events, rows, pending>>
      /\ ~(pending /\ p = Outgoing.ConversationID)
      /\ \/ UNCHANGED <<handler, rooms>>
         \/ /\ handler'[p].pc \in {"remove", "new", "existing"}
            /\ rooms' = rooms \cup {p} /\ handler'[p].rows = rows
            /\ handler'[p].pc = "new" => rows = {}
            /\ handler'[p].pc = "existing" => rows # {}
            /\ raced' = (raced \/ \E q \in Convs : handler[q].pc # "idle")
  <2>1. ~ClaimEcho(p)
    BY DEF Begin, ClaimEcho
  <2>2. QED
    BY <1>0, <2>1, Began
<1>2. ~pending
  <2> SUFFICES ASSUME pending PROVE FALSE
    OBVIOUS
  <2>1. scenario.outgoing /\ Stays
    BY DEF WaysInv, Alone
  <2>2. Outgoing.ConversationID = Chat
    BY <1>0, <2>1, OutgoingOf, ChatIs DEF PhoneType
  <2>3. p = Chat
    BY <1>1, <2>1 DEF StatusInv, ChatInv, OnePortal
  <2>4. QED
    BY <1>1, <2>2, <2>3
<1>3. Stays' = Stays /\ Emptied' = Emptied /\ Resent' = Resent /\ Chat' = Chat
  BY <1>1, SaysKept, ScenarioKept
<1>4. CASE UNCHANGED <<handler, rooms>>
  <2>1. \A r : Placed(r)' = Placed(r)
    BY <1>1, <1>4 DEF Placed
  <2>2. \A q \in Convs : CopyOf(q)' = CopyOf(q) /\ \A r : Elsewhere(q, r)' = Elsewhere(q, r)
    BY <1>1, <1>4 DEF CopyOf, Elsewhere, Later
  <2>3. RowInv'
    BY <1>1, <2>1, <2>2 DEF RowInv
  <2>4. VisibleInv'
    BY <1>1, <1>3, <2>2 DEF VisibleInv
  <2>5. QED
    BY <2>3, <2>4
<1>5. CASE ~UNCHANGED <<handler, rooms>>
  <2>1. \A q \in Convs : handler[q].pc = "idle"
    BY <1>1, <1>5 DEF Alone
  <2>2. CopyOf(p) /\ VisibleAt(p)
    BY <2>1, PlacedAt
  <2>3. \A r \in rows' : Placed(r)'
    BY <1>1, <1>5 DEF RowInv, Placed
  <2>4. CopyOf(p)'
    BY <1>1, <1>5 DEF CopyOf
  <2>5. \A r : ~Elsewhere(p, r) /\ ~Elsewhere(p, r)'
    BY <1>1, <1>5 DEF Elsewhere
  <2>6. VisibleAt(p)'
    BY <1>1, <1>3, <2>2, <2>5 DEF VisibleAt
  <2>7. QED
    BY <1>1, <1>2, <2>1, <2>3, <2>4, <2>6, PlacedAfter
<1>6. QED
  BY <1>4, <1>5

(* ClaimEcho: the row is that of the user's event, or of the event that    *)
(* replaces it under the ID the bridge gives it.                           *)
LEMMA EchoPlace ==
  ASSUME MessageInv, StatusInv, WaysInv, Alone, RowInv, VisibleInv, NEW p \in Convs, ClaimEcho(p)
  PROVE  RowInv' /\ VisibleInv' /\ Stays
<1> DEFINE v == phone[Head(queue[p])]
<1>0. HandlerType /\ PhoneType
  BY DEF MessageInv
<1>1. pending /\ ~pending' /\ p = Outgoing.ConversationID /\ scenario.outgoing /\ Stays
  BY <1>0, Began DEF WaysInv, Alone
<1>2. p = Chat
  BY <1>0, <1>1, OutgoingOf, ChatIs DEF PhoneType
<1>3. rows = {} /\ \A q \in Convs : handler[q].pc = "idle"
  BY <1>1, <1>2 DEF StatusInv, ChatInv, PendingInv, Untouched, OnePortal
<1>4. Len(events) = 1 /\ events[1].gone = FALSE /\ events[1].room = Chat
  BY <1>1 DEF VisibleInv
<1> DEFINE row == Row("", p, IF scenario.reid THEN 2 ELSE 1, v, handleRemoteEcho(v))
<1>5. /\ queue[p] # <<>> /\ queue' = [queue EXCEPT ![p] = Tail(@)]
      /\ UNCHANGED <<scenario, phone, rooms>>
      /\ rows' = rows \cup {row}
      /\ events' = IF scenario.reid THEN <<[events[1] EXCEPT !.gone = TRUE], events[1]>> ELSE events
      /\ Start(p, "existing", v, {row})
  BY Zenon DEF ClaimEcho
<1>6. v \in MessageType
  BY <1>0, <1>5, HeadIs
<1>7. row = Row("", Chat, UserMXID, v, handleRemoteEcho(v))
  BY <1>2 DEF UserMXID
<1> HIDE DEF v
<1>8. IsRow(row) /\ Users(row)
  <2>1. PICK x : x = Row("", Chat, UserMXID, v, handleRemoteEcho(v))
    OBVIOUS
  <2>2. IsRow(x) /\ Users(x)
    BY <1>6, <2>1, EchoIs
  <2>3. QED
    BY <1>7, <2>1, <2>2
<1> HIDE DEF row
<1>9. PICK x : x = row /\ IsRow(x) /\ x.PartID = "" /\ x.Room = Chat /\ x.MXID = UserMXID
  BY <1>8 DEF Users
<1>10. rows' = {x}
  BY <1>3, <1>5, <1>9
<1>11. /\ handler'[p].pc = "existing" /\ handler'[p].rows = {x}
       /\ \A q \in Convs : q # p => handler'[q] = handler[q]
  <2> DEFINE new == [pc |-> "existing", v |-> v, rows |-> {x}, resync |-> FALSE]
  <2>1. handler' = [handler EXCEPT ![p] = new]
    BY <1>5, <1>9 DEF Start
  <2>2. new.pc = "existing" /\ new.rows = {x}
    OBVIOUS
  <2> HIDE DEF new
  <2>3. handler'[p] = new /\ \A q \in Convs : q # p => handler'[q] = handler[q]
    BY <1>0, <2>1 DEF HandlerType
  <2>4. QED
    BY <2>2, <2>3
<1>12. /\ Len(events') \in {1, 2} /\ UserMXID \in 1..Len(events') /\ events'[UserMXID].gone = FALSE
       /\ \A i \in 1..Len(events') : events'[i].room = Chat
  <2>1. CASE ~scenario.reid
    BY <1>4, <1>5, <2>1, OneIs DEF UserMXID
  <2>2. CASE scenario.reid
    <3>1. PICK a, b : a = [events[1] EXCEPT !.gone = TRUE] /\ b = events[1]
      OBVIOUS
    <3>2. events' = <<a, b>>
      BY <1>5, <2>2, <3>1
    <3>3. Len(events') = 2 /\ events'[1] = a /\ events'[2] = b /\ \A i \in 1..2 : i = 1 \/ i = 2
      BY <3>2
    <3>4. a.room = Chat
      <4>1. events[1] \in MatrixEvent
        <5>1. 1 \in 1..Len(events)
          BY <1>4, OneIs
        <5>2. QED
          BY <5>1 DEF MessageInv, ShownType
      <4>2. b \in MatrixEvent /\ a = [b EXCEPT !.gone = TRUE] /\ b.room = Chat
        BY <1>4, <3>1, <4>1
      <4>3. QED
        BY <4>2 DEF MatrixEvent
    <3>5. UserMXID = 2 /\ 2 \in 1..2
      BY <2>2 DEF UserMXID
    <3>6. QED
      BY <1>4, <3>1, <3>3, <3>4, <3>5
  <2>3. QED
    BY <2>1, <2>2
<1>13. p \in rooms
  BY <1>1 DEF WaysInv
<1>14. Stays' /\ Chat' = Chat
  BY <1>1, <1>5, ScenarioKept
<1>15. Placed(x)'
  BY <1>2, <1>5, <1>9, <1>10, <1>12, <1>13 DEF Placed
<1>16. CopyOf(p)'
  BY <1>10, <1>11 DEF CopyOf
<1>17. VisibleAt(p)'
  BY <1>9, <1>10, <1>11, <1>12, <1>14 DEF VisibleAt, Elsewhere
<1>18. QED
  BY <1>1, <1>3, <1>10, <1>11, <1>15, <1>16, <1>17, PlacedAfter

(* A portal's step keeps a message in its place.                           *)
LEMMA PortalPlace ==
  ASSUME MessageInv, StatusInv, WaysInv, Alone, RowInv, VisibleInv, NEW p \in Convs, PortalStep(p), Alone'
  PROVE  RowInv' /\ VisibleInv'
<1>1. CASE HandleExistingIgnores(p) \/ HandleEditPanics(p) \/ SyncReactions(p) \/ NewIgnored(p)
  <2>1. /\ handler[p].pc \notin {"idle", "save", "remove"} /\ handler' = [handler EXCEPT ![p] = Idle]
        /\ handler[p].pc = "edit" => Empty(handler[p].v)
        /\ UNCHANGED <<scenario, phone, rows, events, rooms, pending>>
    BY <1>1 DEF HandleExistingIgnores, HandleEditPanics, SyncReactions, NewIgnored, Done, sending, matrix, Empty
  <2>2. QED
    BY <2>1, LeavePlace
<1>2. CASE \E ok \in BOOLEAN : ConvertMessage(p, ok)
  BY <1>2, NewPlace
<1>3. QED
  BY <1>1, <1>2, BeginPlace, EchoPlace, ResendPlace, ExistingPlace, SavePlace, EditPlace, RemovePlace DEF PortalStep
-----------------------------------------------------------------------------
(* What a step leaves as it was: the phone takes nothing back, a portal    *)
(* that raced has raced, and only HandleMatrixMessage starts a request.    *)
Onward ==
    /\ UNCHANGED scenario
    /\ Restart \/ UNCHANGED restarts
    /\ raced => raced'
    /\ Len(phone) <= Len(phone') /\ \A i \in 1..Len(phone) : phone'[i] = phone[i]
    /\ Resent => Resent'
    /\ (send' \notin {"no", "failed"} /\ ~Restart) => send \notin {"no", "failed"} \/ HandleMatrixMessage

LEMMA StepOnward == ASSUME MessageInv, WaysInv, [Next]_vars PROVE Onward
<1>0. HandlerType /\ PhoneType
  BY DEF MessageInv
<1>0a. Len(phone) \in Nat
  BY <1>0, LenProperties DEF PhoneType
<1>1. ASSUME UNCHANGED <<scenario, phone, raced, restarts>>,
             send' \notin {"no", "failed"} => send \notin {"no", "failed"} \/ HandleMatrixMessage
      PROVE  Onward
  BY <1>0a, <1>1 DEF Onward, Resent, Last
<1>2. ASSUME NEW v \in MessageType, phone' = Append(phone, v),
             phone # <<>> => /\ v.Timestamp >= phone[Len(phone)].Timestamp
                             /\ phone[Len(phone)].ReadBy \subseteq v.ReadBy,
             UNCHANGED <<scenario, raced, restarts>>,
             send' \notin {"no", "failed"} => send \notin {"no", "failed"}
      PROVE  Onward
  <2> DEFINE n == Len(phone)
  <2>1. OrderInv' /\ Len(phone') = n + 1 /\ \A i \in 1..n : phone'[i] = phone[i]
    BY <1>0, <1>2, LongerOrder DEF WaysInv
  <2>2. n <= n + 1
    BY <1>0a
  <2>3. Resent => Resent'
    <3> SUFFICES ASSUME Resent PROVE Resent'
      OBVIOUS
    <3>1. phone # <<>> /\ phone[n].Timestamp > 0 /\ v.Timestamp >= phone[n].Timestamp
      BY <1>2 DEF Resent, Last
    <3>2. n \in 1..n
      BY <1>0, <3>1, EmptySeq, LenProperties DEF PhoneType
    <3>3. phone[n].Timestamp \in Nat /\ v.Timestamp \in Nat
      <4>1. phone[n] \in MessageType
        BY <1>0, <3>2 DEF PhoneType
      <4>2. QED
        BY <4>1 DEF MessageType
    <3>4. v.Timestamp > 0
      BY <3>1, <3>3
    <3>5. phone' # <<>> /\ phone'[n + 1] = v
      BY <1>0, <1>2, AppendProperties DEF PhoneType
    <3>6. QED
      BY <2>1, <3>4, <3>5 DEF Resent, Last
  <2>4. QED
    BY <1>2, <2>1, <2>2, <2>3 DEF Onward
<1>3. ASSUME NEW v \in scenario.versions, PhoneUpdate(v) PROVE Onward
  <2>1. v \in MessageType
    BY <1>0, <1>3, ScenarioAssumption DEF PhoneType
  <2>2. QED
    BY <1>2, <1>3, <2>1 DEF PhoneUpdate, sending, races
<1>4. CASE PhoneTakes
  <2>1. /\ send = "sending" /\ phone = <<>> /\ phone' = <<Outgoing>>
        /\ UNCHANGED <<scenario, raced, restarts>>
    BY <1>4 DEF PhoneTakes, races
  <2>2. Outgoing \in MessageType
    BY <1>0, <2>1, OutgoingIs DEF WaysInv
  <2>3. PICK v \in MessageType : v = Outgoing
    BY <2>2
  <2>4. phone' = Append(phone, v)
    BY <2>1, <2>3
  <2>5. QED
    BY <1>2, <2>1, <2>4
<1>5. CASE Age \/ FullMediaResponse \/ SendOK \/ SendFailed \/ HandleMatrixMessage \/ UNCHANGED vars
  BY <1>1, <1>5 DEF Age, FullMediaResponse, SendOK, SendFailed, HandleMatrixMessage, vars, sending, races
<1>6. CASE Restart
  <2>1. UNCHANGED <<scenario, phone, raced>>
    BY <1>6 DEF Restart, races
  <2>2. QED
    BY <1>0a, <1>6, <2>1 DEF Onward, Resent, Last
<1>7. ASSUME NEW p \in Convs, PortalStep(p) PROVE Onward
  <2>1. CASE ~Begin(p) /\ ~ClaimEcho(p)
    <3>1. UNCHANGED <<scenario, phone, send, raced, restarts>>
      BY <1>0, <1>7, <2>1, Worked
    <3>2. QED
      BY <1>1, <3>1
  <2>2. CASE Begin(p) \/ ClaimEcho(p)
    <3>1. /\ UNCHANGED <<scenario, phone, send, restarts>>
          /\ raced => raced'
      BY <1>0, <2>2, Began
    <3>2. QED
      BY <1>0a, <3>1 DEF Onward, Resent, Last
  <2>3. QED
    BY <2>1, <2>2
<1>8. QED
  BY <1>3, <1>4, <1>5, <1>6, <1>7 DEF Next

(* What the properties say of the phone comes to stay.                     *)
LEMMA SaysGrow ==
  ASSUME MessageInv, MessageInv', Onward
  PROVE  /\ Stays' = Stays /\ Chat' = Chat /\ (Emptied => Emptied') /\ (Deleted => Deleted')
         /\ (Alone' => Alone) /\ (Kept' => Kept)
         /\ (Echoed' => /\ Kept /\ ~Restart
                        /\ send \notin {"no", "failed"} \/ HandleMatrixMessage)
<1>0. UNCHANGED scenario
  BY DEF Onward
<1>1. Stays' = Stays /\ Chat' = Chat /\ UNCHANGED scenario
  BY <1>0, ScenarioKept DEF Stays
<1>2. \A i \in DOMAIN phone : i \in DOMAIN phone' /\ phone'[i] = phone[i]
  <2>1. DOMAIN phone = 1..Len(phone) /\ DOMAIN phone' = 1..Len(phone') /\ Len(phone) \in Nat /\ Len(phone') \in Nat
    BY LenProperties DEF MessageInv, PhoneType
  <2>2. QED
    BY <2>1 DEF Onward
<1>3. Emptied => Emptied'
  BY <1>1, <1>2 DEF Emptied
<1>4. Deleted => Deleted'
  BY <1>2 DEF Deleted
<1>5. restarts' = 0 => ~Restart /\ restarts = 0
  <2>1. Restart => restarts' # 0
    BY DEF Restart, MessageInv, ShownType
  <2>2. QED
    BY <2>1 DEF Onward
<1>6. Alone' => Alone
  BY <1>1, <1>5 DEF Alone, Onward
<1>7. Kept' => Kept /\ ~Restart
  BY <1>1, <1>4, <1>5 DEF Kept, Onward
<1>8. QED
  BY <1>1, <1>3, <1>4, <1>6, <1>7 DEF Echoed, Onward

LEMMA PlaceInit == Init => PlaceInv
<1> SUFFICES ASSUME Init PROVE RowInv /\ VisibleInv
  BY DEF PlaceInv
<1>1. rows = {} /\ events = <<>> /\ handler = [p \in Convs |-> Idle] /\ pending = FALSE
  BY DEF Init
<1>2. \A p \in Convs : handler[p].pc = "idle"
  BY <1>1 DEF Idle
<1>3. 1..Len(<<>>) = {}
  OBVIOUS
<1>4. RowInv
  BY <1>1, <1>2 DEF RowInv, CopyOf
<1>5. VisibleInv
  BY <1>1, <1>3 DEF VisibleInv
<1>6. QED
  BY <1>4, <1>5

LEMMA PlaceStep == MessageInv /\ MessageInv' /\ StatusInv /\ WaysInv /\ PlaceInv /\ [Next]_vars => PlaceInv'
<1> SUFFICES ASSUME MessageInv, MessageInv', StatusInv, WaysInv, PlaceInv, [Next]_vars, Alone'
             PROVE  RowInv' /\ VisibleInv'
  BY DEF PlaceInv
<1>1. Onward
  BY StepOnward
<1>2. /\ Alone /\ Stays' = Stays /\ Chat' = Chat /\ (Emptied => Emptied') /\ (Resent => Resent')
      /\ UNCHANGED scenario /\ ~Restart
  <2>1. Restart => restarts' # 0
    BY DEF Restart, MessageInv, ShownType
  <2>2. QED
    BY <1>1, <2>1, SaysGrow DEF Onward, Alone
<1>3. RowInv /\ VisibleInv
  BY <1>2 DEF PlaceInv
<1>4. ASSUME UNCHANGED <<handler, rows, events, rooms>>, pending' => pending
      PROVE  RowInv' /\ VisibleInv'
  <2>1. \A r : Placed(r)' = Placed(r)
    BY <1>4 DEF Placed
  <2>2. \A q \in Convs : CopyOf(q)' = CopyOf(q) /\ \A r : Elsewhere(q, r)' = Elsewhere(q, r)
    BY <1>4 DEF CopyOf, Elsewhere, Later
  <2>3. RowInv'
    BY <1>3, <1>4, <2>1, <2>2 DEF RowInv
  <2>4. VisibleInv'
    BY <1>2, <1>3, <1>4, <2>2 DEF VisibleInv
  <2>5. QED
    BY <2>3, <2>4
<1>5. CASE (\E v \in scenario.versions : PhoneUpdate(v)) \/ PhoneTakes \/ Age \/ FullMediaResponse \/ SendOK
           \/ SendFailed \/ UNCHANGED vars
  <2>1. UNCHANGED <<handler, rows, events, rooms>> /\ (pending' => pending)
    <3>1. CASE SendFailed
      BY <3>1 DEF SendFailed
    <3>2. CASE ~SendFailed
      BY <1>5, <3>2 DEF PhoneUpdate, PhoneTakes, Age, FullMediaResponse, SendOK, vars, matrix, sending
    <3>3. QED
      BY <3>1, <3>2
  <2>2. QED
    BY <1>4, <2>1
<1>6. CASE HandleMatrixMessage
  <2> DEFINE e == [room |-> Outgoing.ConversationID, gone |-> FALSE, user |-> TRUE,
                   shows |-> getTextPart(Outgoing).shows]
  <2>1. /\ scenario.outgoing /\ send = "no" /\ events' = <<e>>
        /\ UNCHANGED <<scenario, phone, handler, rows, rooms>>
    BY <1>6 DEF HandleMatrixMessage
  <2>2. Stays /\ rows = {} /\ handler[Chat].pc = "idle"
    BY <1>2, <2>1 DEF Alone, StatusInv, ChatInv, PendingInv, Untouched
  <2>3. \A q \in Convs : handler[q].pc = "idle"
    BY <2>2 DEF StatusInv, ChatInv, OnePortal
  <2>4. Outgoing.ConversationID = Chat
    BY <2>1, <2>2, OutgoingOf, ChatIs DEF MessageInv, PhoneType
  <2>5. e.room = Chat /\ e.gone = FALSE
    BY <2>4
  <2> HIDE DEF e
  <2>6. Len(events') = 1 /\ events'[1] = e
    BY <2>1
  <2>7. RowInv'
    BY <2>1, <2>2, <2>3 DEF RowInv, CopyOf
  <2>8. VisibleInv'
    BY <1>2, <2>1, <2>2, <2>5, <2>6, OneIs DEF VisibleInv
  <2>9. QED
    BY <2>7, <2>8
<1>7. ASSUME NEW p \in Convs, PortalStep(p) PROVE RowInv' /\ VisibleInv'
  BY <1>2, <1>3, <1>7, PortalPlace
<1>8. QED
  BY <1>2, <1>5, <1>6, <1>7 DEF Next
-----------------------------------------------------------------------------
(* A message that was sent from Matrix and is what it was has the row of   *)
(* its echo, or the echo is yet to come.                                   *)
LEMMA PortalUser ==
  ASSUME MessageInv, StatusInv, WaysInv, PlaceInv, UserInv, Echoed, NEW p \in Convs, PortalStep(p)
  PROVE  \A i \in 1..Len(events') : events'[i].user = TRUE
<1>1. /\ Stays /\ Alone /\ ChatInv /\ LateInv /\ ~Deleted
      /\ \A i \in 1..Len(events) : events[i].user = TRUE
  BY DEF Echoed, Kept, UserInv, Alone, StatusInv, KeptInv
<1>2. p = Chat
  BY <1>1, PortalIs DEF ChatInv
<1>3. pending \/ Claimed(rows)
  BY <1>1 DEF LateInv, Echoed
<1>4. events \in Seq(MatrixEvent)
  BY DEF MessageInv, ShownType
<1>5. ASSUME NEW copy, events' = Redacted(copy) \/ events' = events
      PROVE  \A i \in 1..Len(events') : events'[i].user = TRUE
  <2>1. Len(events') = Len(events)
    BY <1>4, <1>5, RedactedIs
  <2>2. ASSUME NEW i \in 1..Len(events) PROVE events'[i].user = events[i].user
    BY <1>4, <1>5, RedactedOne
  <2>3. QED
    BY <1>1, <2>1, <2>2
<1>6. handler[p].pc # "idle" => Claimed(rows)
  BY <1>1, <1>2, <1>3 DEF ChatInv, PendingInv, Untouched
<1>7. CASE ClaimEcho(p)
  <2>1. events' = IF scenario.reid THEN <<[events[1] EXCEPT !.gone = TRUE], events[1]>> ELSE events
    BY <1>7 DEF ClaimEcho
  <2>2. pending
    BY <1>7 DEF ClaimEcho
  <2>3. events[1] \in MatrixEvent /\ events[1].user = TRUE
    <3>1. 1 \in 1..Len(events)
      <4>1. Len(events) \in Nat /\ Len(events) # 0
        BY <1>4, <2>2, EmptySeq, LenProperties DEF MessageInv, ShownType
      <4>2. QED
        BY <4>1
    <3>2. QED
      BY <1>1, <1>4, <3>1
  <2>4. CASE scenario.reid
    <3>1. PICK a, b : a = [events[1] EXCEPT !.gone = TRUE] /\ b = events[1]
      OBVIOUS
    <3>2. events' = <<a, b>>
      BY <2>1, <2>4, <3>1
    <3>3. Len(events') = 2 /\ events'[1] = a /\ events'[2] = b /\ \A i \in 1..2 : i = 1 \/ i = 2
      BY <3>2
    <3>4. a.user = TRUE
      <4>1. b \in MatrixEvent /\ a = [b EXCEPT !.gone = TRUE] /\ b.user = TRUE
        BY <2>3, <3>1
      <4>2. QED
        BY <4>1 DEF MatrixEvent
    <3>5. QED
      BY <2>3, <3>1, <3>3, <3>4
  <2>5. QED
    BY <1>1, <2>1, <2>4
<1>8. CASE \E ok \in BOOLEAN : ConvertMessage(p, ok)
  <2>1. handler[p].pc = "new"
    BY <1>8 DEF ConvertMessage
  <2>2. rows = {}
    BY <1>1, <1>2, <2>1 DEF ChatInv, CopyInv
  <2>3. QED
    BY <1>6, <2>1, <2>2 DEF Claimed
<1>9. CASE HandleEdit(p)
  <2>1. handler[p].pc = "edit" /\ \E ok \in BOOLEAN : ConvertEdit(p, ok)
    BY <1>9 DEF HandleEdit
  <2>2. PICK ok \in BOOLEAN : ConvertEdit(p, ok)
    BY <2>1
  <2>3. PICK r : rows = {r} /\ Users(r)
    BY <1>6, <2>1 DEF Claimed
  <2>4. handler[p].rows = {r}
    BY <1>1, <1>2, <1>6, <2>1, <2>3 DEF ChatInv, CopyInv
  <2>5. Placed(r)
    BY <1>1, <2>3 DEF PlaceInv, RowInv
  <2>6. IsRow(r) /\ r.PartID = "" /\ r.MXID \in 1..Len(events)
    BY <2>5 DEF Placed
  <2>7. rows = {r}
    BY <2>3
  <2>8. OneEdited(p, r, ok)
    BY <1>4, <2>2, <2>4, <2>6, <2>7, EditOne
  <2>9. r.Room = p
    BY <1>2, <2>3 DEF Users
  <2>10. Len(events') = Len(events) /\ \A k \in 1..Len(events) : events'[k].user = events[k].user
    BY <2>8, <2>9, Zenon DEF OneEdited
  <2>11. QED
    BY <1>1, <2>10
<1>10. CASE HandleExisting(p)
  <2>1. events' = Redacted(handler[p].rows) \/ events' = events
    BY <1>10 DEF HandleExisting
  <2>2. QED
    BY <1>5, <2>1
<1>11. CASE Remove(p)
  <2>1. events' = Redacted(handler[p].rows)
    BY <1>11 DEF Remove
  <2>2. QED
    BY <1>5, <2>1
<1>12. CASE Begin(p) \/ HandleExistingIgnores(p) \/ HandleExistingResends(p) \/ SaveParts(p) \/ HandleEditPanics(p)
            \/ SyncReactions(p) \/ NewIgnored(p)
  <2>1. events' = events
    BY <1>12 DEF Begin, HandleExistingIgnores, HandleExistingResends, SaveParts, HandleEditPanics, SyncReactions,
                 NewIgnored, matrix
  <2>2. QED
    BY <1>1, <2>1
<1>13. QED
  BY <1>7, <1>8, <1>9, <1>10, <1>11, <1>12 DEF PortalStep

LEMMA UserInit == Init => UserInv
<1> SUFFICES ASSUME Init PROVE UserInv
  OBVIOUS
<1>1. events = <<>> /\ raced = FALSE
  BY DEF Init
<1>2. 1..Len(<<>>) = {}
  OBVIOUS
<1>3. QED
  BY <1>1, <1>2 DEF UserInv

LEMMA UserStep ==
  MessageInv /\ MessageInv' /\ StatusInv /\ WaysInv /\ PlaceInv /\ UserInv /\ [Next]_vars => UserInv'
<1> SUFFICES ASSUME MessageInv, MessageInv', StatusInv, WaysInv, PlaceInv, UserInv, [Next]_vars PROVE UserInv'
  OBVIOUS
<1>1. Onward
  BY StepOnward
<1>2. /\ Stays' = Stays
      /\ Echoed' => /\ Kept /\ ~Restart
                    /\ send \notin {"no", "failed"} \/ HandleMatrixMessage
  BY <1>1, SaysGrow
<1>3. ASSUME Stays PROVE ~raced'
  <2>1. ~raced
    BY <1>3 DEF UserInv
  <2>2. CASE \E p \in Convs : Begin(p) \/ ClaimEcho(p)
    <3>1. PICK p \in Convs : Begin(p) \/ ClaimEcho(p)
      BY <2>2
    <3>2. /\ handler[p].pc = "idle" /\ queue[p] # <<>>
          /\ raced' = raced \/ raced' = (raced \/ \E q \in Convs : handler[q].pc # "idle")
      BY <3>1, Began DEF MessageInv
    <3>3. \A q \in Convs : handler[q].pc = "idle"
      BY <1>3, <3>2 DEF StatusInv, ChatInv, OnePortal
    <3>4. QED
      BY <2>1, <3>2, <3>3
  <2>3. ASSUME NEW p \in Convs, PortalStep(p), ~Begin(p), ~ClaimEcho(p) PROVE UNCHANGED raced
    BY <2>3, Worked DEF MessageInv
  <2>4. CASE ~\E p \in Convs : PortalStep(p)
    BY <2>1, <2>4 DEF Next, PhoneUpdate, Age, FullMediaResponse, HandleMatrixMessage, PhoneTakes, SendOK, SendFailed,
                      Restart, vars, races
  <2>5. QED
    BY <2>1, <2>2, <2>3, <2>4
<1>4. ASSUME Echoed' PROVE \A i \in 1..Len(events') : events'[i].user = TRUE
  <2>1. CASE HandleMatrixMessage
    <3> DEFINE e == [room |-> Outgoing.ConversationID, gone |-> FALSE, user |-> TRUE,
                     shows |-> getTextPart(Outgoing).shows]
    <3>1. events' = <<e>>
      BY <2>1 DEF HandleMatrixMessage
    <3>2. e.user = TRUE
      OBVIOUS
    <3> HIDE DEF e
    <3>3. Len(events') = 1 /\ events'[1] = e
      BY <3>1
    <3>4. QED
      BY <3>2, <3>3, OneIs
  <2>2. CASE ~HandleMatrixMessage
    <3>1. Echoed /\ ~Restart
      BY <1>2, <1>4, <2>2 DEF Echoed
    <3>2. \A i \in 1..Len(events) : events[i].user = TRUE
      BY <3>1 DEF UserInv
    <3>3. ASSUME NEW p \in Convs, PortalStep(p) PROVE \A i \in 1..Len(events') : events'[i].user = TRUE
      BY <3>1, <3>3, PortalUser
    <3>4. CASE ~\E p \in Convs : PortalStep(p)
      <4>1. events' = events
        BY <2>2, <3>1, <3>4 DEF Next, PhoneUpdate, Age, FullMediaResponse, PhoneTakes, SendOK, SendFailed,
                      vars, matrix
      <4>2. QED
        BY <3>2, <4>1
    <3>5. QED
      BY <3>3, <3>4
  <2>3. QED
    BY <2>1, <2>2
<1>5. QED
  BY <1>2, <1>3, <1>4 DEF UserInv

LEMMA PlaceSound == MessageInv /\ WaysInv /\ PlaceInv /\ UserInv => PlacedOnce
<1> SUFFICES ASSUME MessageInv, WaysInv, PlaceInv, UserInv PROVE OneRoom /\ RowShown /\ NoDuplicate
  BY DEF PlacedOnce
<1>1. /\ DOMAIN events = 1..Len(events)
      /\ \A i \in 1..Len(events) : events[i].gone \in BOOLEAN
  <2>1. events \in Seq(MatrixEvent)
    BY DEF MessageInv, ShownType
  <2>2. DOMAIN events = 1..Len(events) /\ \A i \in 1..Len(events) : events[i] \in MatrixEvent
    BY <2>1, LenProperties
  <2>3. QED
    BY <2>2 DEF MatrixEvent
<1>2. \A i : i \in Visible <=> i \in 1..Len(events) /\ events[i].gone = FALSE
  BY <1>1 DEF Visible
<1>3. NoDuplicate
  BY <1>2 DEF NoDuplicate, UserInv
<1>4. ASSUME Quiescent, Alone
      PROVE  /\ \A r \in rows : Placed(r) /\ (events[r.MXID].gone = TRUE => Emptied)
             /\ (~Stays /\ ~Resent) => \A i \in Visible : \E r \in rows : r.MXID = i
             /\ Stays => \A i \in Visible : events[i].room = Chat
  <2>1. RowInv /\ VisibleInv
    BY <1>4 DEF PlaceInv
  <2>2. \A p \in Convs : \A r : ~Elsewhere(p, r)
    BY <1>4 DEF Quiescent, Elsewhere
  <2>3. QED
    BY <1>2, <2>1, <2>2 DEF RowInv, VisibleInv
<1>5. ASSUME Quiescent, Alone, ~Emptied PROVE \A r \in rows : r.MXID \in Visible /\ events[r.MXID].room = r.Room
  BY <1>1, <1>2, <1>4, <1>5 DEF Placed
<1>6. ASSUME Quiescent, Alone, Stays \/ ~Resent PROVE Cardinality({events[i].room : i \in Visible}) <= 1
  <2> DEFINE shown == {events[i].room : i \in Visible}
  <2>1. \E c : shown \subseteq {c}
    <3>1. CASE Stays
      BY <1>4, <1>6, <3>1
    <3>2. CASE ~Stays
      <4>1. \A i \in Visible : \E r \in rows : r.MXID = i
        BY <1>4, <1>6, <3>2
      <4>2. CASE rows = {}
        BY <4>1, <4>2
      <4>3. CASE rows # {}
        <5>1. PICK r \in rows : TRUE
          BY <4>3
        <5>2. rows = {r} /\ events[r.MXID].room = r.Room
          BY <1>4, <1>6, <5>1 DEF Placed
        <5>3. \A i \in Visible : events[i].room = r.Room
          BY <4>1, <5>2
        <5>4. QED
          BY <5>3
      <4>4. QED
        BY <4>2, <4>3
    <3>3. QED
      BY <3>1, <3>2
  <2> HIDE DEF shown
  <2>2. shown = {} \/ \E c : shown = {c}
    BY <2>1
  <2>3. Cardinality(shown) <= 1
    <3>1. CASE shown = {}
      <4>1. Cardinality(shown) = 0
        BY <3>1, FS_EmptySet
      <4>2. QED
        BY <4>1
    <3>2. ASSUME NEW c, shown = {c} PROVE Cardinality(shown) <= 1
      <4>1. Cardinality({c}) = 1
        BY FS_Singleton
      <4>2. QED
        BY <3>2, <4>1
    <3>3. QED
      BY <2>2, <3>1, <3>2
  <2>4. QED
    BY <2>3 DEF shown
<1>7. QED
  BY <1>3, <1>5, <1>6 DEF OneRoom, RowShown

(* However the phone's versions, moves between chats, edits, deletions, the*)
(* answer to a request and its echo follow each other: as long as one      *)
(* portal at a time is at work on a message it is in one room, its row     *)
(* names an event that is there, and one sent from Matrix is not shown as  *)
(* a remote one beside it (HandleExisting's move, SaveParts, ConvertEdit,  *)
(* handleRemoteEcho).                                                      *)
THEOREM PlacedOnceThm == Spec => []PlacedOnce
<1>1. Init => MessageInv /\ StatusInv /\ WaysInv /\ PlaceInv /\ UserInv
  BY MessageInvInit, StatusInit, WaysInit, PlaceInit, UserInit
<1>2. /\ MessageInv /\ StatusInv /\ WaysInv /\ PlaceInv /\ UserInv /\ [Next]_vars
      => MessageInv' /\ StatusInv' /\ WaysInv' /\ PlaceInv' /\ UserInv'
  BY MessageInvStep, StatusStep, WaysStep, PlaceStep, UserStep
<1>3. MessageInv /\ StatusInv /\ WaysInv /\ PlaceInv /\ UserInv => PlacedOnce
  BY PlaceSound
<1>4. QED
  BY <1>1, <1>2, <1>3, PTL DEF Spec
============================================================================
