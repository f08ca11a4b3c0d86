-------------------------------- MODULE Rpc --------------------------------
(***************************************************************************)
(* What a request to the phone consists of and what comes back: the        *)
(* methods of the client, the envelope buildMessage puts around them, the  *)
(* HTTP layer below and the decoding of the answer above.  The waiting in  *)
(* between is module SessionHandler.  Bodies and keys are model values: a  *)
(* payload is the type and the encoding it was made with.                  *)
(***************************************************************************)
EXTENDS Gmproto, TLC

(* One request of the client: action, payload type, and what the method    *)
(* does with the answer: "typed" converts it, "any" only waits, "async"    *)
(* hands out the channel, "none" does not wait.                            *)
Typed(a, req, resp) == [action |-> a, request |-> req, response |-> resp, waits |-> "typed"]
Sends(a, req, w) == [action |-> a, request |-> req, response |-> "", waits |-> w]

Methods == [
    ListConversations |-> Typed("LIST_CONVERSATIONS", "ListConversationsRequest", "ListConversationsResponse"),
    ListContacts |-> Typed("LIST_CONTACTS", "ListContactsRequest", "ListContactsResponse"),
    ListTopContacts |-> Typed("LIST_TOP_CONTACTS", "ListTopContactsRequest", "ListTopContactsResponse"),
    GetOrCreateConversation |-> Typed("GET_OR_CREATE_CONVERSATION", "GetOrCreateConversationRequest",
                                      "GetOrCreateConversationResponse"),
    GetConversationType |-> Typed("GET_CONVERSATION_TYPE", "GetConversationTypeRequest",
                                  "GetConversationTypeResponse"),
    GetConversation |-> Typed("GET_CONVERSATION", "GetConversationRequest", "GetConversationResponse"),
    FetchMessages |-> Typed("LIST_MESSAGES", "ListMessagesRequest", "ListMessagesResponse"),
    SendMessage |-> Typed("SEND_MESSAGE", "SendMessageRequest", "SendMessageResponse"),
    GetParticipantThumbnail |-> Typed("GET_PARTICIPANTS_THUMBNAIL", "GetThumbnailRequest", "GetThumbnailResponse"),
    GetContactThumbnail |-> Typed("GET_CONTACTS_THUMBNAIL", "GetThumbnailRequest", "GetThumbnailResponse"),
    UpdateConversation |-> Typed("UPDATE_CONVERSATION", "UpdateConversationRequest", "UpdateConversationResponse"),
    SendReaction |-> Typed("SEND_REACTION", "SendReactionRequest", "SendReactionResponse"),
    DeleteMessage |-> Typed("DELETE_MESSAGE", "DeleteMessageRequest", "DeleteMessageResponse"),
    MarkRead |-> Sends("MESSAGE_READ", "MessageReadRequest", "any"),
    SetTyping |-> Sends("TYPING_UPDATES", "TypingUpdateRequest", "none"),
    UpdateSettings |-> Sends("SETTINGS_UPDATE", "SettingsUpdateRequest", "none"),
    SetActiveSession |-> Sends("GET_UPDATES", "nil", "none"),
    IsBugleDefault |-> Typed("IS_BUGLE_DEFAULT", "nil", "IsBugleDefaultResponse"),
    NotifyDittoActivity |-> Sends("NOTIFY_DITTO_ACTIVITY", "NotifyDittoActivityRequest", "async"),
    ackBrowserPresence |-> Sends("ACK_BROWSER_PRESENCE", "nil", "none"),
    GetFullSizeImage |-> Typed("GET_FULL_SIZE_IMAGE", "GetFullSizeImageRequest", "GetFullSizeImageResponse")]

(* The first list of conversations is asked for as an annotation.          *)
ListConversationsType(fetchedOnce) == IF fetchedOnce THEN "BUGLE_MESSAGE" ELSE "BUGLE_ANNOTATION"
-----------------------------------------------------------------------------
(* buildMessage.  Payloads go encrypted unless the caller says otherwise,  *)
(* and the message's lifetime is the token's unless it is given or waived. *)
SendMessageParams(a, req) ==
    [Action |-> a, Data |-> req, RequestID |-> "", OmitTTL |-> FALSE, CustomTTL |-> 0,
     DontEncrypt |-> FALSE, MessageType |-> "UNKNOWN_MESSAGE_TYPE"]

buildMessage(p, auth, fresh) ==
    LET id == IF p.RequestID = "" THEN fresh ELSE p.RequestID
        data == IF p.Data = "nil" THEN <<>>
                ELSE IF p.DontEncrypt THEN [UnencryptedProtoData |-> p.Data]
                ELSE [EncryptedProtoData |-> p.Data]
        ttl == IF p.CustomTTL # 0 THEN p.CustomTTL ELSE IF p.OmitTTL THEN 0 ELSE auth.TachyonTTL
    IN  [ Mobile |-> auth.Mobile, TTL |-> ttl,
          DestRegistrationIDs |-> IF auth.DestRegID = "" THEN <<>> ELSE <<auth.DestRegID>>,
          Auth |-> [RequestID |-> id, TachyonAuthToken |-> auth.TachyonAuthToken],
          Data |-> [ RequestID |-> id, BugleRoute |-> "DataEvent",
                     MessageType |-> IF p.MessageType = "UNKNOWN_MESSAGE_TYPE"
                                     THEN "BUGLE_MESSAGE" ELSE p.MessageType,
                     MessageData |-> data @@ [RequestID |-> id, Action |-> p.Action,
                                              SessionID |-> auth.sessionID]] ]

SetActiveSession(auth, fresh) ==
    LET a == [auth EXCEPT !.sessionID = fresh] IN
    buildMessage([SendMessageParams("GET_UPDATES", "nil") EXCEPT
                      !.OmitTTL = TRUE, !.RequestID = a.sessionID], a, fresh)

GaiaPairingMessage(action, auth, fresh) ==
    buildMessage([SendMessageParams(action, "GaiaPairingRequestContainer") EXCEPT
                      !.DontEncrypt = TRUE, !.CustomTTL = 300000000,
                      !.MessageType = IF action = "CREATE_GAIA_PAIRING_CLIENT_FINISHED"
                                      THEN "BUGLE_MESSAGE" ELSE "GAIA_2"], auth, fresh)
-----------------------------------------------------------------------------
(* HTTP.  An answer has a status, a content type and a body, of some type  *)
(* in some encoding; a nil answer is a network error.                      *)
BaseURL(cookies) == IF cookies THEN "clients6" ELSE "googleapis"

decodeProtoResp(resp, t) ==
    LET decoder == CASE resp.contentType = "application/x-protobuf" -> "protobuf"
                     [] resp.contentType \in {"application/json+protobuf", "text/plain"} -> "pblite"
                     [] OTHER -> "unknown"
    IN  IF decoder = resp.body.encoding /\ resp.body.type = t THEN "ok" ELSE "error"

typedHTTPResponse(resp, t) ==
    CASE resp.status = 0 -> [err |-> "network", type |-> "nil", data |-> <<>>]
      [] resp.status \in 200..299 /\ decodeProtoResp(resp, t) = "ok" ->
            [err |-> "nil", type |-> t, data |-> resp.body.data]
      [] resp.status \in 200..299 /\ decodeProtoResp(resp, t) = "error" ->
            [err |-> "decode", type |-> t, data |-> <<>>]
      [] OTHER ->
            IF decodeProtoResp(resp, "ErrorResponse") = "ok" /\ Get(resp.body.data, "Message", "") # ""
            THEN [err |-> "RequestError", type |-> "nil", data |-> resp.body.data]
            ELSE [err |-> "HTTPError", type |-> "nil", data |-> <<>>]

(* RequestError.Is: the same type and message; the class does not matter.  *)
RequestErrorIs(e, known) ==
    /\ e.err = "RequestError"
    /\ Get(e.data, "Type", 0) = known.Type /\ Get(e.data, "Message", "") = known.Message

KnownErrors == [
    ErrRequestedEntityNotFound |-> [Type |-> 5, Message |-> "entity not found"],
    ErrInvalidCredentials |-> [Type |-> 16, Message |-> "invalid credentials"],
    ErrCallerNoPermission |-> [Type |-> 7, Message |-> "no permission"]]
-----------------------------------------------------------------------------
(* Answers.  The action says what the decrypted data is read as; an answer *)
(* without data is an empty message of that type.                          *)
responseType == [
    IS_BUGLE_DEFAULT |-> "IsBugleDefaultResponse", GET_UPDATES |-> "UpdateEvents",
    LIST_CONVERSATIONS |-> "ListConversationsResponse",
    NOTIFY_DITTO_ACTIVITY |-> "NotifyDittoActivityResponse",
    GET_CONVERSATION_TYPE |-> "GetConversationTypeResponse",
    GET_CONVERSATION |-> "GetConversationResponse", LIST_MESSAGES |-> "ListMessagesResponse",
    SEND_MESSAGE |-> "SendMessageResponse", SEND_REACTION |-> "SendReactionResponse",
    DELETE_MESSAGE |-> "DeleteMessageResponse",
    GET_PARTICIPANTS_THUMBNAIL |-> "GetThumbnailResponse",
    GET_CONTACTS_THUMBNAIL |-> "GetThumbnailResponse", LIST_CONTACTS |-> "ListContactsResponse",
    LIST_TOP_CONTACTS |-> "ListTopContactsResponse",
    GET_OR_CREATE_CONVERSATION |-> "GetOrCreateConversationResponse",
    UPDATE_CONVERSATION |-> "UpdateConversationResponse",
    GET_FULL_SIZE_IMAGE |-> "GetFullSizeImageResponse"]

Undecodable == [type |-> "error", data |-> <<>>]

(* data is the decrypted payload, of the type the phone made it with.      *)
decryptInternalMessage(msg) ==
    LET t == IF msg.action \in DOMAIN responseType THEN responseType[msg.action] ELSE "nil" IN
    CASE msg.route \in {"PairEvent", "GaiaEvent"} ->
            [type |-> IF msg.route = "PairEvent" THEN "RPCPairData" ELSE "RPCGaiaData", data |-> msg.data]
      [] msg.route = "DataEvent" /\ msg.in = "EncryptedData" ->
            IF ~msg.decrypts \/ (t # "nil" /\ t # msg.type) THEN Undecodable
            ELSE [type |-> t, data |-> msg.data]
      [] msg.route = "DataEvent" /\ msg.in = "EncryptedData2" ->
            IF ~msg.decrypts \/ msg.type # "EncryptedData2Container" THEN Undecodable
            ELSE [type |-> t, data |-> <<>>]
      [] msg.route = "DataEvent" /\ msg.in = "nothing" -> [type |-> t, data |-> <<>>]
      [] OTHER -> Undecodable

typedResponse(answer, t) == IF answer.type = t THEN answer ELSE Undecodable

(* The answer to a method, read by the method.                             *)
CallResult(m, answer) ==
    CASE Methods[m].waits = "typed" -> typedResponse(answer, Methods[m].response)
      [] OTHER -> answer
-----------------------------------------------------------------------------
PhoneAnswer(m, t, in, data) ==
    [route |-> "DataEvent", action |-> Methods[m].action, in |-> in, type |-> t, decrypts |-> TRUE,
     data |-> data]

(* The table responseType and the conversions of methods.go agree: every   *)
(* method that converts its answer gets what the phone put into it, and an *)
(* answer without data gives the empty message rather than an error.       *)
ASSUME MethodsDecode ==
    \A m \in {n \in DOMAIN Methods : Methods[n].waits = "typed"} :
        LET t == Methods[m].response IN
        /\ t \in DOMAIN Messages
        /\ \A d \in Samples(t) :
             CallResult(m, decryptInternalMessage(PhoneAnswer(m, t, "EncryptedData", d)))
                 = [type |-> t, data |-> d]
        /\ CallResult(m, decryptInternalMessage(PhoneAnswer(m, t, "nothing", <<>>)))
               = [type |-> t, data |-> <<>>]

(* Every request names an action and a payload type of the protocol.       *)
ASSUME RequestsKnown ==
    \A m \in DOMAIN Methods :
        /\ Methods[m].action \in DOMAIN ActionType
        /\ Methods[m].request \in DOMAIN Messages \cup {"nil"}

SampleAuth == [Mobile |-> "phone", DestRegID |-> "", TachyonAuthToken |-> "token", TachyonTTL |-> 86400,
               sessionID |-> "session"]

(* A request sets only fields of the envelope's types, carries its payload *)
(* in one place and has the same ID throughout; the one that opens a       *)
(* session uses the session's ID and has no lifetime of its own.           *)
ASSUME EnvelopeWellFormed ==
    \A m \in DOMAIN Methods : \A dest \in {"", "device"} :
        LET auth == [SampleAuth EXCEPT !.DestRegID = dest]
            msg == IF m = "SetActiveSession" THEN SetActiveSession(auth, "fresh")
                   ELSE buildMessage(SendMessageParams(Methods[m].action, Methods[m].request), auth, "fresh")
        IN  /\ DOMAIN msg \subseteq DOMAIN OutgoingRPCMessage
            /\ DOMAIN msg.Data.MessageData \subseteq DOMAIN OutgoingRPCData
            /\ msg.Data.RequestID = msg.Auth.RequestID
            /\ m = "SetActiveSession" => msg.TTL = 0 /\ msg.Data.MessageData.SessionID = msg.Data.RequestID
            /\ m # "SetActiveSession" => msg.TTL = auth.TachyonTTL

(* The messages that agree on the keys are not encrypted with them.        *)
ASSUME PairingUnencrypted ==
    \A a \in {"CREATE_GAIA_PAIRING_CLIENT_INIT", "CREATE_GAIA_PAIRING_CLIENT_FINISHED"} :
        LET d == GaiaPairingMessage(a, SampleAuth, "fresh").Data.MessageData IN
        "UnencryptedProtoData" \in DOMAIN d /\ "EncryptedProtoData" \notin DOMAIN d

(* An error body is recognised by its type and message whatever its        *)
(* status, class or encoding, and one known error is never taken for       *)
(* another; a body that is no error message is a plain HTTP error.         *)
ASSUME ErrorsRecognised ==
    \A k, l \in DOMAIN KnownErrors : \A class \in {<<>>, [Class |-> "TachyonError"]} :
    \A ct \in {"application/json+protobuf", "text/plain", "text/html"} : \A s \in {400, 401, 403, 404, 500} :
        LET body == [type |-> "ErrorResponse", encoding |-> "pblite", data |-> KnownErrors[k] @@ class]
            e == typedHTTPResponse([status |-> s, contentType |-> ct, body |-> body], "OutgoingRPCResponse")
        IN  RequestErrorIs(e, KnownErrors[l]) <=> (k = l /\ ct # "text/html")
============================================================================
