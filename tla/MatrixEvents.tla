---------------------------- MODULE MatrixEvents ----------------------------
(***************************************************************************)
(* What the bridge asks of the phone for an event from Matrix: the other   *)
(* handlers of handlematrix.go, each as a function from the client's state *)
(* and the event to an error or a request.  Sending a message, its echo    *)
(* and its status are module MessageUpsert; here is what the request says. *)
(*                                                                         *)
(* c is the client: whether it is logged in, and its ID prefix.  IDs are   *)
(* as in module Identifiers.                                               *)
(***************************************************************************)
EXTENDS Identifiers

Fails(e) == [err |-> e, call |-> "none"]
Calls(request) == [err |-> "nil"] @@ request

(* A handler's common start: not without a client, not with IDs of another *)
(* login.  A refusal or an error of the phone is the handler's.            *)
Guarded(c, ids, request) ==
    IF ~c.client THEN Fails("ErrNotLoggedIn")
    ELSE IF \E id \in ids : ~ParseID(c.login, id).ok THEN Fails("ErrPrefixMismatch")
    ELSE Calls(request)

Real(c, id) == ParseID(c.login, id).id
-----------------------------------------------------------------------------
(* Reactions.  An emoji is a name; the heart has a form without the        *)
(* variation selector, which variationselector.FullyQualify (external)     *)
(* adds.                                                                   *)
Unicode == [
    LIKE |-> "thumbs up", LOVE |-> "heart eyes", LAUGH |-> "joy", SURPRISED |-> "open mouth",
    SAD |-> "sad relieved", ANGRY |-> "angry", DISLIKE |-> "thumbs down", QUESTIONING |-> "thinking",
    CRYING_FACE |-> "crying", POUTING_FACE |-> "pouting", RED_HEART |-> "heart"]

FullyQualify(emoji) == IF emoji = "heart unqualified" THEN "heart" ELSE emoji

UnicodeToEmojiType(emoji) ==
    LET types == {t \in DOMAIN Unicode : Unicode[t] = FullyQualify(emoji)} IN
    IF types = {} THEN "CUSTOM" ELSE CHOOSE t \in types : TRUE

MakeReactionData(emoji) == [Unicode |-> emoji, Type |-> UnicodeToEmojiType(emoji)]

(* ReactionSyncEvent.GetReactions: what is shown, per user; a type without *)
(* emoji is left out.                                                      *)
ShownEmoji(data) ==
    CASE data.Type = "EMOTIFY" -> ":custom:"
      [] data.Type = "CUSTOM" -> data.Unicode
      [] data.Type \in DOMAIN Unicode -> Unicode[data.Type]
      [] OTHER -> ""

GetReactions(entries) ==
    [u \in UNION {e.users : e \in {x \in entries : x.data.Type \in {"EMOTIFY", "CUSTOM"} \/ ShownEmoji(x.data) # ""}} |->
        {ShownEmoji(e.data) : e \in {x \in entries : u \in x.users}} \ {""}]

PreHandleMatrixReaction(key) == FullyQualify(key)

HandleMatrixReaction(c, target, emoji, overridden) ==
    Guarded(c, {target}, [call |-> "SendReaction", MessageID |-> Real(c, target),
                          ReactionData |-> MakeReactionData(emoji),
                          Action |-> IF overridden THEN "SWITCH" ELSE "ADD"])

HandleMatrixReactionRemove(c, target, emoji) ==
    Guarded(c, {target}, [call |-> "SendReaction", MessageID |-> Real(c, target),
                          ReactionData |-> MakeReactionData(emoji), Action |-> "REMOVE"])

(* The phone, external: each user has at most one reaction.                *)
PhoneReacts(reaction, request) ==
    CASE request.Action \in {"ADD", "SWITCH"} -> {request.ReactionData}
      [] request.Action = "REMOVE" -> reaction \ {request.ReactionData}

Emojis == Range(Unicode) \cup {"heart unqualified", "cat"}

SampleClient == [client |-> TRUE, login |-> "12"]

(* A reaction made in Matrix comes back from the phone as the one the room *)
(* has, so that the sync that follows changes nothing, also when another   *)
(* is put in its place; and taking it back takes it back on the phone,     *)
(* although the room's key may lack the variation selector.                *)
ASSUME ReactionsRoundTrip ==
    \A k1, k2 \in Emojis :
        LET m == <<"12", "m1">>
            e1 == PreHandleMatrixReaction(k1)
            e2 == PreHandleMatrixReaction(k2)
            first == PhoneReacts({}, HandleMatrixReaction(SampleClient, m, e1, FALSE))
            second == PhoneReacts(first, HandleMatrixReaction(SampleClient, m, e2, TRUE))
            shown(reaction) == GetReactions({[users |-> {"me"}, data |-> d] : d \in reaction})
        IN  /\ shown(first)["me"] = {e1} /\ shown(second)["me"] = {e2}
            /\ PhoneReacts(second, HandleMatrixReactionRemove(SampleClient, m, e2)) = {}
-----------------------------------------------------------------------------
(* The other events.                                                       *)
HandleMatrixMessageRemove(c, target) ==
    Guarded(c, {target}, [call |-> "DeleteMessage", MessageID |-> Real(c, target)])

(* exact is the message the receipt names, "nil" if it is not bridged, and *)
(* before the last one at or before it.                                    *)
HandleMatrixReadReceipt(c, portal, exact, before) ==
    LET target == IF exact # <<"nil">> THEN exact ELSE before IN
    IF ~c.client THEN Fails("ErrNotLoggedIn")
    ELSE IF target = <<"nil">> THEN Fails("target not found")
    ELSE Guarded(c, {portal, target}, [call |-> "MarkRead", ConversationID |-> Real(c, portal),
                                       MessageID |-> Real(c, target)])

HandleMatrixTyping(c, portal, typing) ==
    IF ~typing THEN Fails("nil")
    ELSE Guarded(c, {portal}, [call |-> "SetTyping", ConversationID |-> Real(c, portal)])

(* Deleting a chat.  A direct chat needs the number of the other side: the *)
(* ghost's, or else that of the first other visible participant the phone  *)
(* names now.                                                              *)
PhoneOf(ghost, conversation) ==
    LET others == SelectSeq(conversation, LAMBDA p : p.visible /\ ~p.me /\ p.number # "") IN
    IF ghost.phone # "" THEN ghost.phone ELSE IF others = <<>> THEN "" ELSE others[1].number

HandleMatrixDeleteChat(c, portal, dm, ghost, answer) ==
    LET phone == IF dm THEN PhoneOf(ghost, answer.participants) ELSE ""
        request == [call |-> "DeleteConversation", ConversationID |-> Real(c, portal), Phone |-> phone]
    IN  IF Guarded(c, {portal}, request).err # "nil" THEN Guarded(c, {portal}, request)
        ELSE IF dm /\ ~ghost.exists THEN Fails("ghost not found")
        ELSE IF dm /\ ghost.phone = "" /\ answer.err THEN Fails("failed to get conversation")
        ELSE IF dm /\ phone = "" THEN Fails("phone number not available")
        ELSE Calls(request)

Participants == [visible : BOOLEAN, me : BOOLEAN, number : {"", "n1"}]

(* A direct chat is deleted only under a number, and never under one of    *)
(* the user's own or of someone the chat does not show.                    *)
ASSUME DeletedByNumber ==
    \A exists, err \in BOOLEAN : \A phone \in {"", "n0"} : \A ps \in UNION {[1..n -> Participants] : n \in 0..2} :
        LET o == HandleMatrixDeleteChat(SampleClient, <<"12", "c1">>, TRUE, [exists |-> exists, phone |-> phone],
                                        [err |-> err, participants |-> IF err THEN <<>> ELSE ps])
        IN  o.call = "DeleteConversation" =>
                /\ exists /\ o.Phone # ""
                /\ o.Phone = phone \/ (\E i \in DOMAIN ps : ps[i].number = o.Phone /\ ps[i].visible /\ ~ps[i].me)

(* Nothing of one login is asked of the phone of another, and nothing at   *)
(* all without a client.                                                   *)
ASSUME NothingCrossesLogins ==
    \A client \in BOOLEAN : \A m, p \in {<<"12", "x">>, <<"1f", "x">>, <<"x">>} :
        LET c == [client |-> client, login |-> "12"]
            noGhost == [exists |-> FALSE, phone |-> ""]
            calls == { HandleMatrixReaction(c, m, "cat", FALSE), HandleMatrixReactionRemove(c, m, "cat"),
                       HandleMatrixMessageRemove(c, m), HandleMatrixTyping(c, m, TRUE),
                       HandleMatrixReadReceipt(c, p, m, <<"nil">>), HandleMatrixReadReceipt(c, p, <<"nil">>, m),
                       HandleMatrixDeleteChat(c, m, FALSE, noGhost, [err |-> FALSE, participants |-> <<>>]) }
        IN  \A o \in calls : o.call # "none" =>
                /\ client /\ m[1] = "12"
                /\ o.call = "MarkRead" => p[1] = "12"
-----------------------------------------------------------------------------
(* ConvertMatrixMessage.  ForceRCS goes along only while the chat is one   *)
(* where the phone may choose.                                             *)
ForceRCSOf(portal) == portal.Type = "RCS" /\ portal.SendMode = "SEND_MODE_AUTO" /\ portal.ForceRCS

TextOf(content) == IF content.MsgType = "m.emote" THEN <<"/me ", content.Body>> ELSE <<content.Body>>

(* reuploadMedia: the file's name and type; voice messages become m4a if   *)
(* ffmpeg is there.                                                        *)
reuploadMedia(content, ffmpeg) ==
    LET mime == IF content.MimeType = "" THEN content.detected ELSE content.MimeType
        name == IF content.FileName # "" THEN <<content.FileName>> ELSE <<content.Body>>
        convert == content.MsgType = "m.audio" /\ content.voice /\ mime # "audio/mp4" /\ ffmpeg
    IN  [name |-> IF convert THEN name \o <<".m4a">> ELSE name, mime |-> IF convert THEN "audio/mp4" ELSE mime]

Caption(content) == IF content.FileName \notin {"", content.Body} THEN <<[text |-> <<content.Body>>]>> ELSE <<>>

MessageInfo(content, ffmpeg) ==
    CASE content.MsgType \in {"m.text", "m.emote", "m.notice"} -> <<[text |-> TextOf(content)]>>
      [] content.MsgType \in {"m.image", "m.video", "m.audio", "m.file"} ->
            <<[media |-> reuploadMedia(content, ffmpeg)]>> \o Caption(content)
      [] OTHER -> <<>>

ConvertMatrixMessage(c, portal, content, replyTo, txnID, ffmpeg) ==
    LET ids == {portal.ID} \cup (IF replyTo = <<"nil">> THEN {} ELSE {replyTo})
        parts == MessageInfo(content, ffmpeg)
        o == Guarded(c, ids, [call |-> "SendMessage", ConversationID |-> Real(c, portal.ID),
                              TmpIDs |-> <<txnID, txnID, txnID>>, ParticipantID |-> portal.OutgoingID,
                              ForceRCS |-> ForceRCSOf(portal), Parts |-> parts])
    IN  IF o.err = "nil" /\ parts = <<>> THEN Fails("ErrUnsupportedMessageType") ELSE o

Contents == [MsgType : {"m.text", "m.emote", "m.image", "m.audio", "m.location"}, Body : {"a", "b"},
             FileName : {"", "a"}, MimeType : {"", "audio/ogg", "audio/mp4"}, detected : {"audio/ogg"},
             voice : BOOLEAN]

(* What the user wrote arrives: the body of a message as its text, that of *)
(* a file as its name or as its caption, exactly one of the two; and a     *)
(* file is sent under the type its bytes have after the conversion.        *)
ASSUME ContentArrives ==
    \A content \in Contents : \A ffmpeg \in BOOLEAN :
        LET portal == [ID |-> <<"12", "c1">>, OutgoingID |-> "2", Type |-> "RCS", SendMode |-> "SEND_MODE_AUTO",
                       ForceRCS |-> TRUE]
            o == ConvertMatrixMessage(SampleClient, portal, content, <<"nil">>, "t1", ffmpeg)
            texts == {i \in DOMAIN o.Parts : "text" \in DOMAIN o.Parts[i]}
            asText == \E i \in texts : Last(o.Parts[i].text) = content.Body
            asName == \E i \in DOMAIN o.Parts \ texts : o.Parts[i].media.name[1] = content.Body
            converted == \E i \in DOMAIN o.Parts \ texts : Last(o.Parts[i].media.name) = ".m4a"
        IN  IF content.MsgType = "m.location" THEN o.err = "ErrUnsupportedMessageType"
            ELSE /\ o.err = "nil" /\ (asText \/ asName) /\ ~(asText /\ asName)
                 /\ converted => \A i \in DOMAIN o.Parts \ texts : o.Parts[i].media.mime = "audio/mp4"
=============================================================================
