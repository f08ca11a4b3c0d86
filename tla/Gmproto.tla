------------------------------ MODULE Gmproto ------------------------------
(***************************************************************************)
(* The protocol's messages (gmproto): the enumerations with their numbers  *)
(* and the message types with each field's number and type, for the types  *)
(* the bridge sends or receives and the ones these contain, and their two  *)
(* encodings: protobuf, a set of numbered values, and PBLite, an array     *)
(* indexed by field number.  An unset field is absent from a message, and  *)
(* from its encoding; its getter gives the default.                        *)
(***************************************************************************)
EXTENDS Naturals, FiniteSets, FiniteSetsExt, Sequences

One(n, t) == [number |-> n, type |-> t, many |-> FALSE, of |-> ""]
Many(n, t) == [number |-> n, type |-> t, many |-> TRUE, of |-> ""]
Oneof(o, n, t) == [number |-> n, type |-> t, many |-> FALSE, of |-> o]

Scalars == {"string", "bytes", "bool", "int32", "int64", "uint32", "uint64"}
-----------------------------------------------------------------------------
(* Enumerations: number of each name.                                      *)
DeviceType == [UNKNOWN_DEVICE_TYPE |-> 0, WEB |-> 1, TABLET |-> 2, PWA |-> 3]
GaiaPairingErrorCode == [NONE |-> 0, UKEY2_ALERT_ERROR |-> 1, REQUEST_OUT_OF_DATE |-> 2,
    REQUEST_NOT_RECEIVED_QUICKLY |-> 3, INVALID_USER |-> 4,
    WRONG_VERIFICATION_CODE_SELECTED |-> 5, VERIFICATION_TIMED_OUT |-> 6,
    USER_CANCELED_VERIFICATION |-> 7, UKEY2_OTHER_ERROR |-> 8,
    VERIFICATION_EMOJI_DOWNLOAD_FAILED |-> 9, NOT_LATEST_ATTEMPT |-> 10,
    VERIFICATION_DATA_SERVICE_NOT_PRESENT |-> 11, VERIFICATION_INTENTS_NOT_PRESENT |-> 12,
    WRONG_UKEY2_MESSAGE_TYPE |-> 13, REQUEST_COMPLETE_WITH_UNKNOWN_RESULT |-> 14,
    PHONE_NOT_AWAITING_CONFIRMATION |-> 15, UKEY2_MESSAGE_MISSING |-> 16,
    CLIENT_INIT_TIMEOUT |-> 17, CLIENT_FINISHED_TIMEOUT |-> 18, UNKNOWN |-> 19,
    WEB_CANCEL_BUTTON_CLICKED |-> 20, WEB_BACK_BUTTON_CLICKED |-> 21,
    WEB_LEAVE_PAIR_PAGE |-> 22, NEW_REQUEST_WHILE_WAITING_FOR_VERIFICATION |-> 23,
    UKEY2_HANDSHAKE_ERROR |-> 24, VERIFICATION_CODE_REVISION_MISMATCH |-> 25,
    USER_CANCELED_VERIFICATION_ON_WEB |-> 26, USER_DENIED_VERIFICATION_NOT_ME |-> 27,
    KEY_DERIVATION_REVISION_MISMATCH |-> 28, CMS_BACKUP_KEY_NOT_FOUND |-> 29,
    UNABLE_TO_ENCRYPT_CMS_BACKUP_KEY |-> 30, UNABLE_TO_DECRYPT_CMS_BACKUP_KEY |-> 31]
ConversationActionStatus == [UNKNOWN_ACTION_STATUS |-> 0, DELETE |-> 1, UNBLOCK |-> 2,
    BLOCK |-> 7, BLOCK_AND_REPORT |-> 8]
ListConversationsRequest_Folder == [UNKNOWN |-> 0, INBOX |-> 1, ARCHIVE |-> 2,
    SPAM_BLOCKED |-> 5]
GetOrCreateConversationResponse_Status == [UNKNOWN |-> 0, SUCCESS |-> 1, CREATE_RCS |-> 3]
SendMessageResponse_Status == [UNKNOWN |-> 0, SUCCESS |-> 1, FAILURE_2 |-> 2, FAILURE_3 |-> 3,
    FAILURE_4 |-> 4]
SendReactionRequest_Action == [UNSPECIFIED |-> 0, ADD |-> 1, REMOVE |-> 2, SWITCH |-> 3]
EmojiType == [REACTION_TYPE_UNSPECIFIED |-> 0, LIKE |-> 1, LOVE |-> 2, LAUGH |-> 3,
    SURPRISED |-> 4, SAD |-> 5, ANGRY |-> 6, DISLIKE |-> 7, CUSTOM |-> 8, QUESTIONING |-> 9,
    CRYING_FACE |-> 10, POUTING_FACE |-> 11, RED_HEART |-> 12, EMOTIFY |-> 13]
IdentifierType == [UNKNOWN |-> 0, PHONE |-> 1, EMAIL |-> 2]
ConversationSendMode == [SEND_MODE_AUTO |-> 0, SEND_MODE_XMS |-> 1, SEND_MODE_XMS_LATCH |-> 2]
ConversationType == [UNKNOWN_CONVERSATION_TYPE |-> 0, SMS |-> 1, RCS |-> 2]
ConversationStatus == [UNKNOWN_CONVERSATION_STATUS |-> 0, ACTIVE |-> 1, ARCHIVED |-> 2,
    DELETED |-> 3, KEEP_ARCHIVED |-> 4, SPAM_FOLDER |-> 5, BLOCKED_FOLDER |-> 6,
    CROSS_COUNTRY_FOLDER |-> 7]
MediaFormats == [UNSPECIFIED_TYPE |-> 0, IMAGE_JPEG |-> 1, IMAGE_JPG |-> 2, IMAGE_PNG |-> 3,
    IMAGE_GIF |-> 4, IMAGE_WBMP |-> 5, IMAGE_X_MS_BMP |-> 6, IMAGE_UNSPECIFIED |-> 7,
    VIDEO_MP4 |-> 8, VIDEO_3G2 |-> 9, VIDEO_3GPP |-> 10, VIDEO_WEBM |-> 11, VIDEO_MKV |-> 12,
    VIDEO_UNSPECIFIED |-> 13, AUDIO_AAC |-> 14, AUDIO_AMR |-> 15, AUDIO_MP3 |-> 16,
    AUDIO_MPEG |-> 17, AUDIO_MPG |-> 18, AUDIO_MP4 |-> 19, AUDIO_MP4_LATM |-> 20,
    AUDIO_3GPP |-> 21, AUDIO_OGG |-> 22, AUDIO_UNSPECIFIED |-> 23, TEXT_VCARD |-> 24,
    APP_PDF |-> 25, APP_TXT |-> 26, APP_HTML |-> 27, APP_DOC |-> 28, APP_DOCX |-> 29,
    APP_PPTX |-> 30, APP_PPT |-> 31, APP_XLSX |-> 32, APP_XLS |-> 33, APP_APK |-> 34,
    APP_ZIP |-> 35, APP_JAR |-> 36, APP_UNSPECIFIED |-> 37, CAL_TEXT_VCALENDAR |-> 38,
    CAL_TEXT_XVCALENDAR |-> 39, CAL_TEXT_CALENDAR |-> 40, CAL_APPLICATION_VCS |-> 41,
    CAL_APPLICATION_ICS |-> 42, CAL_APPLICATION_HBSVCS |-> 43]
AlertType == [ALERT_TYPE_UNKNOWN |-> 0, BROWSER_INACTIVE |-> 1, BROWSER_ACTIVE |-> 2,
    MOBILE_DATA_CONNECTION |-> 3, MOBILE_WIFI_CONNECTION |-> 4, MOBILE_BATTERY_LOW |-> 5,
    MOBILE_BATTERY_RESTORED |-> 6, BROWSER_INACTIVE_FROM_TIMEOUT |-> 7,
    BROWSER_INACTIVE_FROM_INACTIVITY |-> 8, RCS_CONNECTION |-> 9, OBSERVER_REGISTERED |-> 10,
    MOBILE_DATABASE_SYNCING |-> 11, MOBILE_DATABASE_SYNC_COMPLETE |-> 12,
    MOBILE_DATABASE_SYNC_STARTED |-> 13, MOBILE_DATABASE_PARTIAL_SYNC_COMPLETED |-> 14,
    MOBILE_DATABASE_PARTIAL_SYNC_STARTED |-> 15, CONTACTS_REFRESH_STARTED |-> 16,
    CONTACTS_REFRESH_COMPLETED |-> 17, DISCONNECTED_FROM_SATELLITE |-> 18,
    BR_MESSAGE_RESTORING |-> 19, BR_MESSAGE_RESTORE_COMPLETED |-> 20,
    BR_MESSAGE_RESTORE_STARTED |-> 21, PUSH_THROTTLING |-> 22, PUSH_THROTTLE_STARTED |-> 23,
    PUSH_THROTTLE_ENDED |-> 24, PUSH_THROTTLE_STARTED_IN_DARK_LAUNCH |-> 25,
    PUSH_THROTTLE_ENDED_IN_DARK_LAUNCH |-> 26, PUSH_THROTTLING_IN_DARK_LAUNCH |-> 27]
TypingTypes == [STOPPED_TYPING |-> 0, STARTED_TYPING |-> 1]
BugleRoute == [Unknown |-> 0, DataEvent |-> 19, PairEvent |-> 14, GaiaEvent |-> 7]
ActionType == [UNSPECIFIED |-> 0, LIST_CONVERSATIONS |-> 1, LIST_MESSAGES |-> 2,
    SEND_MESSAGE |-> 3, MESSAGE_UPDATES |-> 4, LIST_CONTACTS |-> 6, CONVERSATION_UPDATES |-> 7,
    GET_OR_CREATE_CONVERSATION |-> 9, MESSAGE_READ |-> 10, BROWSER_PRESENCE_CHECK |-> 11,
    TYPING_UPDATES |-> 12, SETTINGS_UPDATE |-> 13, USER_ALERT |-> 14,
    UPDATE_CONVERSATION |-> 15, GET_UPDATES |-> 16, ACK_BROWSER_PRESENCE |-> 17,
    LIST_STICKER_SETS |-> 18, LEAVE_RCS_GROUP |-> 19, ADD_PARTICIPANT_TO_RCS_GROUP |-> 20,
    GET_CONVERSATION_TYPE |-> 21, NOTIFY_DITTO_ACTIVITY |-> 22, DELETE_MESSAGE |-> 23,
    INSTALL_STICKER_SET |-> 24, RESEND_MESSAGE |-> 25, GET_CONTACT_RCS_GROUP_STATUS |-> 26,
    DOWNLOAD_MESSAGE |-> 27, LIST_TOP_CONTACTS |-> 28, GET_CONTACTS_THUMBNAIL |-> 29,
    CHANGE_PARTICIPANT_COLOR |-> 30, IS_BUGLE_DEFAULT |-> 31, STICKER_USER_CONTEXT |-> 32,
    FAVORITE_STICKER_PACKS |-> 33, RECENT_STICKERS |-> 34, UPDATE_RECENT_STICKERS |-> 35,
    GET_FULL_SIZE_IMAGE |-> 36, GET_PARTICIPANTS_THUMBNAIL |-> 37, SEND_REACTION |-> 38,
    SEND_REPLY |-> 39, GET_BLOB_FOR_ATTACHMENT |-> 40,
    GET_DEVICES_AVAILABLE_FOR_GAIA_PAIRING |-> 41, CREATE_GAIA_PAIRING |-> 42,
    GET_CONVERSATION |-> 43, CREATE_GAIA_PAIRING_CLIENT_INIT |-> 44,
    CREATE_GAIA_PAIRING_CLIENT_FINISHED |-> 45, UNPAIR_GAIA_PAIRING |-> 46,
    CANCEL_GAIA_PAIRING |-> 47, PREWARM |-> 48, CONVERSATION_GROUP_NAME_SEARCH |-> 49,
    LINK_RCS_IDENTITY |-> 50, UNLINK_RCS_IDENTITY |-> 51]
MessageType == [UNKNOWN_MESSAGE_TYPE |-> 0, BUGLE_MESSAGE |-> 2, GAIA_1 |-> 3,
    BUGLE_ANNOTATION |-> 16, GAIA_2 |-> 20]
Ukey2HandshakeCipher == [RESERVED |-> 0, P256_SHA512 |-> 100, CURVE25519_SHA512 |-> 200]
PublicKeyType == [UNKNOWN_PUBLIC_KEY_TYPE |-> 0, EC_P256 |-> 1, RSA2048 |-> 2,
    DH2048_MODP |-> 3]
Ukey2Message_Type == [UNKNOWN_DO_NOT_USE |-> 0, ALERT |-> 1, CLIENT_INIT |-> 2,
    SERVER_INIT |-> 3, CLIENT_FINISH |-> 4]

Enums == [DeviceType |-> DeviceType, GaiaPairingErrorCode |-> GaiaPairingErrorCode,
    ConversationActionStatus |-> ConversationActionStatus,
    ListConversationsRequest_Folder |-> ListConversationsRequest_Folder,
    GetOrCreateConversationResponse_Status |-> GetOrCreateConversationResponse_Status,
    SendMessageResponse_Status |-> SendMessageResponse_Status,
    SendReactionRequest_Action |-> SendReactionRequest_Action, EmojiType |-> EmojiType,
    IdentifierType |-> IdentifierType, ConversationSendMode |-> ConversationSendMode,
    ConversationType |-> ConversationType, ConversationStatus |-> ConversationStatus,
    MediaFormats |-> MediaFormats, AlertType |-> AlertType, TypingTypes |-> TypingTypes,
    BugleRoute |-> BugleRoute, ActionType |-> ActionType, MessageType |-> MessageType,
    Ukey2HandshakeCipher |-> Ukey2HandshakeCipher, PublicKeyType |-> PublicKeyType,
    Ukey2Message_Type |-> Ukey2Message_Type]
-----------------------------------------------------------------------------
(* Message types: number and type of each field.                           *)

(* The envelope: long poll, requests, answers, acknowledgements, events.   *)
LongPollingPayload == [Data |-> One(2, "IncomingRPCMessage"), Heartbeat |-> One(3, "EmptyArr"),
    Ack |-> One(4, "StartAckMessage"), StartRead |-> One(5, "EmptyArr")]
IncomingRPCMessage == [ResponseID |-> One(1, "string"), BugleRoute |-> One(2, "BugleRoute"),
    StartExecute |-> One(3, "uint64"), MessageType |-> One(5, "MessageType"),
    FinishExecute |-> One(6, "uint64"), MicrosecondsTaken |-> One(7, "uint64"),
    Mobile |-> One(8, "Device"), Browser |-> One(9, "Device"), MessageData |-> One(12, "bytes"),
    SignatureID |-> One(17, "string"), Timestamp |-> One(21, "string"),
    GdittoSource |-> One(23, "IncomingRPCMessage_GDittoSource")]
RPCMessageData == [SessionID |-> One(1, "string"), Timestamp |-> One(3, "int64"),
    Action |-> One(4, "ActionType"), UnencryptedData |-> One(5, "bytes"),
    Bool1 |-> One(6, "bool"), Bool2 |-> One(7, "bool"), EncryptedData |-> One(8, "bytes"),
    Bool3 |-> One(9, "bool"), EncryptedData2 |-> One(11, "bytes")]
OutgoingRPCMessage == [Mobile |-> One(1, "Device"), Data |-> One(2, "OutgoingRPCMessage_Data"),
    Auth |-> One(3, "OutgoingRPCMessage_Auth"), TTL |-> One(5, "int64"),
    DestRegistrationIDs |-> Many(9, "string")]
OutgoingRPCMessage_Auth == [RequestID |-> One(1, "string"),
    TachyonAuthToken |-> One(6, "bytes"), ConfigVersion |-> One(7, "ConfigVersion")]
OutgoingRPCMessage_Data == [RequestID |-> One(1, "string"), BugleRoute |-> One(2, "BugleRoute"),
    MessageData |-> One(12, "bytes"),
    MessageTypeData |-> One(23, "OutgoingRPCMessage_Data_Type")]
OutgoingRPCMessage_Data_Type == [EmptyArr |-> One(1, "EmptyArr"),
    MessageType |-> One(2, "MessageType")]
OutgoingRPCData == [RequestID |-> One(1, "string"), Action |-> One(2, "ActionType"),
    UnencryptedProtoData |-> One(3, "bytes"), EncryptedProtoData |-> One(5, "bytes"),
    SessionID |-> One(6, "string")]
OutgoingRPCResponse == [SomeIdentifier |-> One(1, "OutgoingRPCResponse_SomeIdentifier"),
    Timestamp |-> One(2, "string")]
ReceiveMessagesRequest == [Auth |-> One(1, "AuthMessage"),
    Unknown |-> One(4, "ReceiveMessagesRequest_UnknownEmptyObject2")]
AckMessageRequest == [AuthData |-> One(1, "AuthMessage"), EmptyArr |-> One(2, "EmptyArr"),
    Acks |-> Many(4, "AckMessageRequest_Message")]
AckMessageRequest_Message == [RequestID |-> One(1, "string"), Device |-> One(2, "Device")]
AuthMessage == [RequestID |-> One(1, "string"), Network |-> One(3, "string"),
    TachyonAuthToken |-> One(6, "bytes"), ConfigVersion |-> One(7, "ConfigVersion")]
RPCPairData == [Paired |-> Oneof("Event", 4, "PairedData"),
    Revoked |-> Oneof("Event", 5, "RevokePairData")]
UpdateEvents == [ConversationEvent |-> Oneof("Event", 2, "ConversationEvent"),
    MessageEvent |-> Oneof("Event", 3, "MessageEvent"),
    TypingEvent |-> Oneof("Event", 4, "TypingEvent"),
    SettingsEvent |-> Oneof("Event", 5, "Settings"),
    UserAlertEvent |-> Oneof("Event", 6, "UserAlertEvent"),
    BrowserPresenceCheckEvent |-> Oneof("Event", 7, "BrowserPresenceCheckEvent"),
    AccountChange |-> Oneof("Event", 15, "AccountChangeOrSomethingEvent")]
EncryptedData2Container == [AccountChange |-> One(2, "AccountChangeOrSomethingEvent")]
ConversationEvent == [Data |-> Many(2, "Conversation")]
TypingEvent == [Data |-> One(2, "TypingData")]
MessageEvent == [Data |-> Many(2, "Message")]
UserAlertEvent == [AlertType |-> One(2, "AlertType")]
AccountChangeOrSomethingEvent == [Account |-> One(1, "string"), Enabled |-> One(2, "bool")]
TypingData == [ConversationID |-> One(1, "string"), User |-> One(2, "User"),
    Type |-> One(3, "TypingTypes"), SomeKindOfGroupID |-> One(4, "SomeKindOfGroupID")]
User == [Field1 |-> One(1, "int64"), Number |-> One(2, "string")]

(* Requests and their answers.                                             *)
NotifyDittoActivityRequest == [Success |-> One(2, "bool")]
NotifyDittoActivityResponse == <<>>
MessageReadRequest == [ConversationID |-> One(2, "string"), MessageID |-> One(3, "string")]
StartMediaUploadRequest == [AttachmentType |-> One(1, "int64"),
    AuthData |-> One(2, "AuthMessage"), Mobile |-> One(3, "Device")]
UploadMediaResponse == [Media |-> One(1, "UploadedMedia"), Message |-> One(2, "string")]
UploadedMedia == [MediaID |-> One(1, "string"), MediaNumber |-> One(2, "int64")]
DownloadAttachmentRequest == [Info |-> One(1, "AttachmentInfo"),
    AuthData |-> One(2, "AuthMessage")]
AttachmentInfo == [AttachmentID |-> One(1, "string"), Encrypted |-> One(2, "bool")]
GetThumbnailRequest == [Identifiers |-> Many(1, "string")]
GetThumbnailResponse == [Thumbnail |-> Many(1, "GetThumbnailResponse_Thumbnail")]
GetThumbnailResponse_Thumbnail == [Identifier |-> One(1, "string"),
    Data |-> One(2, "ThumbnailData")]
ThumbnailData == [ImageBuffer |-> One(3, "bytes"), SomeInt |-> One(4, "int32"),
    Dimensions |-> One(5, "Dimensions"),
    MysteriousData |-> One(2, "ThumbnailData_MysteriousData")]
Cursor == [LastItemID |-> One(1, "string"), LastItemTimestamp |-> One(2, "int64")]
ListMessagesRequest == [ConversationID |-> One(2, "string"), Count |-> One(3, "int64"),
    Cursor |-> One(5, "Cursor")]
ListMessagesResponse == [Messages |-> Many(2, "Message"), SomeBytes |-> One(3, "bytes"),
    TotalMessages |-> One(4, "int64"), Cursor |-> One(5, "Cursor")]
ListContactsRequest == [I1 |-> One(5, "int32"), I2 |-> One(6, "int32"), I3 |-> One(7, "int32")]
ListContactsResponse == [Contacts |-> Many(2, "Contact")]
ListTopContactsRequest == [Count |-> One(1, "int32")]
ListTopContactsResponse == [Contacts |-> Many(1, "Contact")]
ListConversationsRequest == [Count |-> One(2, "int64"),
    Folder |-> One(4, "ListConversationsRequest_Folder"), Cursor |-> One(5, "Cursor")]
ListConversationsResponse == [Conversations |-> Many(2, "Conversation"),
    CursorBytes |-> One(3, "bytes"), Cursor |-> One(5, "Cursor")]
GetOrCreateConversationRequest == [Numbers |-> Many(2, "ContactNumber"),
    RCSGroupName |-> One(3, "string"), CreateRCSGroup |-> One(4, "bool")]
GetOrCreateConversationResponse == [Conversation |-> One(2, "Conversation"),
    Status |-> One(3, "GetOrCreateConversationResponse_Status")]
DeleteMessageRequest == [MessageID |-> One(2, "string")]
DeleteMessageResponse == [Success |-> One(2, "bool")]
UpdateConversationRequest == [Action |-> One(2, "ConversationActionStatus"),
    ConversationID |-> One(3, "string"), Action5 |-> One(5, "ConversationAction5"),
    DeleteData |-> Oneof("Data", 6, "DeleteConversationData"),
    UpdateData |-> Oneof("Data", 1, "UpdateConversationData")]
DeleteConversationData == [ConversationID |-> One(1, "string"), Phone |-> One(3, "string")]
UpdateConversationResponse == [Success |-> One(1, "bool")]
GetConversationTypeRequest == [ConversationID |-> One(2, "string")]
GetConversationTypeResponse == [ConversationID |-> One(2, "string"), Type |-> One(3, "int32"),
    Bool1 |-> One(5, "bool"), Number2 |-> One(6, "int32")]
GetConversationRequest == [ConversationID |-> One(1, "string")]
GetConversationResponse == [Conversation |-> One(1, "Conversation")]
IsBugleDefaultResponse == [Success |-> One(1, "bool")]
SendMessageRequest == [ConversationID |-> One(2, "string"),
    MessagePayload |-> One(3, "MessagePayload"), SIMPayload |-> One(4, "SIMPayload"),
    TmpID |-> One(5, "string"), ForceRCS |-> One(6, "bool"), Reply |-> One(8, "ReplyPayload")]
ReplyPayload == [MessageID |-> One(1, "string")]
MessagePayload == [TmpID |-> One(1, "string"),
    MessagePayloadContent |-> One(6, "MessagePayloadContent"),
    ConversationID |-> One(7, "string"), ParticipantID |-> One(9, "string"),
    MessageInfo |-> Many(10, "MessageInfo"), TmpID2 |-> One(12, "string")]
SendMessageResponse == [GoogleAccountSwitch |-> One(2, "AccountChangeOrSomethingEvent"),
    Status |-> One(3, "SendMessageResponse_Status")]
SendReactionRequest == [MessageID |-> One(1, "string"), ReactionData |-> One(2, "ReactionData"),
    Action |-> One(3, "SendReactionRequest_Action"), SIMPayload |-> One(4, "SIMPayload")]
SendReactionResponse == [Success |-> One(1, "bool")]
TypingUpdateRequest == [Data |-> One(2, "TypingUpdateRequest_Data"),
    SIMPayload |-> One(3, "SIMPayload")]
TypingUpdateRequest_Data == [ConversationID |-> One(1, "string"), Typing |-> One(3, "bool")]
SettingsUpdateRequest == [PushSettings |-> One(3, "SettingsUpdateRequest_PushSettings")]
SettingsUpdateRequest_PushSettings == [Enabled |-> One(3, "bool")]
GetFullSizeImageRequest == [MessageID |-> One(1, "string"),
    ActionMessageID |-> One(2, "string")]
GetFullSizeImageResponse == <<>>

(* Chats, messages, people and settings.                                   *)
Conversation == [ConversationID |-> One(1, "string"), Name |-> One(2, "string"),
    LatestMessage |-> One(4, "LatestMessage"), LastMessageTimestamp |-> One(5, "int64"),
    Unread |-> One(6, "bool"), IsGroupChat |-> One(10, "bool"),
    DefaultOutgoingID |-> One(11, "string"), Status |-> One(12, "ConversationStatus"),
    ReadOnly |-> One(13, "bool"), AvatarHexColor |-> One(15, "string"),
    LatestMessageID |-> One(17, "string"), SendMode |-> One(18, "ConversationSendMode"),
    Participants |-> Many(20, "Participant"), OtherParticipants |-> Many(21, "string"),
    Type |-> One(22, "ConversationType"), SubType |-> One(24, "bool"),
    Pinned |-> One(26, "bool"), UnknownTimestamp |-> One(28, "int64"),
    ThirdType |-> One(29, "bool"), SomeKindOfGroupID |-> One(31, "SomeKindOfGroupID"),
    SimCard |-> One(32, "SIMCard"), GroupAvatarURL |-> One(34, "string"),
    LatestMessageAnoherID |-> One(35, "AnotherMessageID")]
Participant == [ID |-> One(1, "SmallInfo"), FirstName |-> One(2, "string"),
    FullName |-> One(3, "string"), AvatarHexColor |-> One(5, "string"), IsMe |-> One(6, "bool"),
    SimPayload |-> One(7, "SIMPayload"), IsVisible |-> One(8, "bool"),
    ContactID |-> One(10, "string"), Bs |-> One(14, "int64"),
    FormattedNumber |-> One(15, "string"), SomeInt1 |-> One(19, "int64"),
    SomeInt2 |-> One(20, "int64")]
SmallInfo == [Type |-> One(1, "IdentifierType"), Number |-> One(2, "string"),
    ParticipantID |-> One(3, "string")]
Contact == [ParticipantID |-> One(1, "string"), Name |-> One(2, "string"),
    Number |-> One(3, "ContactNumber"), AvatarHexColor |-> One(7, "string"),
    UnknownBool |-> One(10, "bool"), ContactID |-> One(11, "string")]
ContactNumber == [MysteriousInt |-> One(1, "int32"), Number |-> One(2, "string"),
    Number2 |-> One(3, "string"), FormattedNumber |-> One(4, "string")]
Message == [MessageID |-> One(1, "string"), MsgType |-> One(3, "MsgType"),
    MessageStatus |-> One(4, "MessageStatus"), Timestamp |-> One(5, "int64"),
    ConversationID |-> One(7, "string"), ParticipantID |-> One(9, "string"),
    MessageInfo |-> Many(10, "MessageInfo"), Type |-> One(11, "int64"),
    TmpID |-> One(12, "string"), Subject |-> One(14, "string"), SomeInt |-> One(16, "int64"),
    Reactions |-> Many(19, "ReactionEntry"), ReplyMessage |-> One(21, "ReplyMessage"),
    SomeKindOfGroupID |-> One(23, "SomeKindOfGroupID"),
    AnotherMessageID |-> One(24, "AnotherMessageID"),
    SenderParticipant |-> One(25, "Participant")]
MessageInfo == [ActionMessageID |-> One(1, "string"),
    MessageContent |-> Oneof("Data", 2, "MessageContent"),
    MediaContent |-> Oneof("Data", 3, "MediaContent")]
MediaContent == [Format |-> One(1, "MediaFormats"), MediaID |-> One(2, "string"),
    MediaName |-> One(4, "string"), Size |-> One(5, "int64"),
    Dimensions |-> One(6, "Dimensions"), MediaData |-> One(7, "bytes"),
    ThumbnailMediaID |-> One(9, "string"), DecryptionKey |-> One(11, "bytes"),
    ThumbnailDecryptionKey |-> One(12, "bytes"), MimeType |-> One(14, "string")]
MessageContent == [Content |-> One(1, "string")]
MessageStatus == [Status |-> One(2, "MessageStatusType"), SubCode |-> One(3, "int64"),
    ErrMsg |-> One(4, "string"), StatusText |-> One(5, "string"), ThirdCode |-> One(6, "int64")]
ReactionEntry == [Data |-> One(1, "ReactionData"), ParticipantIDs |-> Many(2, "string")]
ReactionData == [Unicode |-> One(1, "string"), Type |-> One(2, "EmojiType"),
    CustomEmoji |-> One(101, "CustomEmojiData")]
ReplyMessage == [MessageID |-> One(1, "string"), ConversationID |-> One(2, "string"),
    ReplyMessageData |-> One(3, "ReplyMessageData")]
LatestMessage == [DisplayContent |-> One(1, "string"), FromMe |-> One(2, "int64"),
    DisplayName |-> One(4, "string"), LatestMessageStatus |-> One(5, "LatestMessageStatus")]
Settings == [SIMCards |-> Many(2, "SIMCard"), OpCodeData |-> One(3, "SomeData"),
    RCSSettings |-> One(4, "RCSSettings"), BugleVersion |-> One(5, "string"),
    Bool1 |-> One(7, "bool"), BoolFields2 |-> One(8, "BooleanFields2"),
    MysteriousBytes |-> One(9, "bytes"), BoolFields3 |-> One(10, "BooleanFields3")]
SIMCard == [RCSChats |-> One(3, "RCSChats"), SIMData |-> One(5, "SIMData"),
    Bool1 |-> One(6, "bool"), SIMParticipant |-> One(7, "SIMParticipant")]
SIMPayload == [Two |-> One(1, "int32"), SIMNumber |-> One(2, "int32")]
SIMData == [SIMPayload |-> One(1, "SIMPayload"), Bool1 |-> One(2, "bool"),
    CarrierName |-> One(3, "string"), ColorHex |-> One(4, "string"), Int1 |-> One(5, "int64"),
    FormattedPhoneNumber |-> One(6, "string"), InternationalPhoneNumber |-> One(7, "string")]
SIMParticipant == [ID |-> One(1, "string")]
RCSSettings == [IsEnabled |-> One(1, "bool"), SendReadReceipts |-> One(2, "bool"),
    ShowTypingIndicators |-> One(3, "bool"), IsDefaultSMSApp |-> One(4, "bool")]

(* Registration, pairing and errors.                                       *)
AuthenticationContainer == [AuthMessage |-> One(1, "AuthMessage"),
    BrowserDetails |-> One(3, "BrowserDetails"), KeyData |-> Oneof("Data", 4, "KeyData"),
    DeviceData |-> Oneof("Data", 5, "CurrentDeviceData")]
BrowserDetails == [UserAgent |-> One(1, "string"), BrowserType |-> One(2, "BrowserType"),
    OS |-> One(3, "string"), DeviceType |-> One(6, "DeviceType")]
ConfigVersion == [Year |-> One(3, "int32"), Month |-> One(4, "int32"), Day |-> One(5, "int32"),
    V1 |-> One(7, "int32"), V2 |-> One(9, "int32")]
KeyData == [Mobile |-> One(1, "Device"), EcdsaKeys |-> One(6, "ECDSAKeys"),
    WebAuthKeyData |-> One(2, "WebAuthKey"), Browser |-> One(3, "Device")]
ECDSAKeys == [Field1 |-> One(1, "int64"), EncryptedKeys |-> One(2, "bytes")]
TokenData == [TachyonAuthToken |-> One(1, "bytes"), TTL |-> One(2, "int64")]
PairedData == [Mobile |-> One(1, "Device"), TokenData |-> One(2, "TokenData"),
    Browser |-> One(3, "Device")]
RevokePairData == [RevokedDevice |-> One(1, "Device")]
Device == [UserID |-> One(1, "int64"), SourceID |-> One(2, "string"),
    Network |-> One(3, "string")]
URLData == [PairingKey |-> One(1, "bytes"), AESKey |-> One(2, "bytes"),
    HMACKey |-> One(3, "bytes")]
RegisterPhoneRelayResponse == [Coordinates |-> One(1, "CoordinateMessage"),
    Browser |-> One(2, "Device"), PairingKey |-> One(3, "bytes"), ValidFor |-> One(4, "int64"),
    AuthKeyData |-> One(5, "TokenData"), ResponseID |-> One(6, "string")]
RefreshPhoneRelayResponse == [Coordinates |-> One(1, "CoordinateMessage"),
    PairKey |-> One(2, "bytes"), ValidFor |-> One(3, "int64")]
RegisterRefreshRequest == [MessageAuth |-> One(1, "AuthMessage"),
    CurrBrowserDevice |-> One(2, "Device"), UnixTimestamp |-> One(3, "int64"),
    Signature |-> One(4, "bytes"), Parameters |-> One(13, "RegisterRefreshRequest_Parameters"),
    MessageType |-> One(16, "int32")]
RegisterRefreshRequest_Parameters == [EmptyArr |-> One(9, "EmptyArr"),
    MoreParameters |-> One(23, "RegisterRefreshRequest_MoreParameters")]
RegisterRefreshRequest_MoreParameters == [Three |-> One(1, "int32"),
    PushReg |-> One(102, "RegisterRefreshRequest_PushRegistration")]
RegisterRefreshRequest_PushRegistration == [Type |-> One(1, "string"), Url |-> One(2, "string"),
    P256Dh |-> One(3, "string"), Auth |-> One(4, "string")]
RegisterRefreshResponse == [TokenData |-> One(2, "TokenData")]
SignInGaiaRequest == [AuthMessage |-> One(1, "AuthMessage"),
    Inner |-> One(2, "SignInGaiaRequest_Inner"), UnknownInt3 |-> One(3, "int32"),
    Network |-> One(4, "string")]
SignInGaiaRequest_Inner == [DeviceID |-> One(1, "SignInGaiaRequest_Inner_DeviceID"),
    SomeData |-> One(36, "SignInGaiaRequest_Inner_Data")]
SignInGaiaRequest_Inner_DeviceID == [UnknownInt1 |-> One(1, "int32"),
    DeviceID |-> One(2, "string")]
SignInGaiaRequest_Inner_Data == [SomeData |-> One(3, "bytes")]
SignInGaiaResponse == [Header |-> One(1, "SignInGaiaResponse_Header"),
    MaybeBrowserUUID |-> One(2, "string"),
    DeviceData |-> One(3, "SignInGaiaResponse_DeviceData"), TokenData |-> One(4, "TokenData")]
RPCGaiaData == [Command |-> One(1, "int32"),
    MaybeServerData |-> One(108, "RPCGaiaData_UnknownContainer")]
GaiaPairingRequestContainer == [PairingAttemptID |-> One(1, "string"),
    BrowserDetails |-> One(2, "BrowserDetails"), StartTimestamp |-> One(3, "int64"),
    Data |-> One(4, "bytes"), ProposedVerificationCodeVersion |-> One(5, "int32"),
    ProposedKeyDerivationVersion |-> One(6, "int32")]
GaiaPairingResponseContainer == [FinishErrorType |-> One(1, "int32"),
    FinishErrorCode |-> One(2, "GaiaPairingErrorCode"), UnknownInt3 |-> One(3, "int32"),
    SessionUUID |-> One(4, "string"), Data |-> One(5, "bytes"),
    ConfirmedVerificationCodeVersion |-> One(6, "int32"),
    ConfirmedKeyDerivationVersion |-> One(7, "int32")]
RevokeGaiaPairingRequest == [PairingAttemptID |-> One(1, "string")]
RevokeRelayPairingRequest == [AuthMessage |-> One(1, "AuthMessage"),
    Browser |-> One(2, "Device")]
RevokeRelayPairingResponse == <<>>
ErrorResponse == [Type |-> One(1, "int64"), Message |-> One(2, "string"),
    Class |-> Many(3, "ErrorResponse_ErrorClass")]
ErrorResponse_ErrorClass == [Class |-> One(1, "string")]
WebEncryptionKeyResponse == [Coordinates |-> One(1, "CoordinateMessage"),
    Key |-> One(2, "bytes")]
Ukey2Message == [MessageType |-> One(1, "Ukey2Message_Type"), MessageData |-> One(2, "bytes")]
Ukey2ClientInit == [Version |-> One(1, "int32"), Random |-> One(2, "bytes"),
    CipherCommitments |-> Many(3, "Ukey2ClientInit_CipherCommitment"),
    NextProtocol |-> One(4, "string")]
Ukey2ClientInit_CipherCommitment == [HandshakeCipher |-> One(1, "Ukey2HandshakeCipher"),
    Commitment |-> One(2, "bytes")]
Ukey2ServerInit == [Version |-> One(1, "int32"), Random |-> One(2, "bytes"),
    HandshakeCipher |-> One(3, "Ukey2HandshakeCipher"),
    PublicKey |-> One(4, "GenericPublicKey")]
Ukey2ClientFinished == [PublicKey |-> One(1, "GenericPublicKey")]
GenericPublicKey == [Type |-> One(1, "PublicKeyType"),
    EcP256PublicKey |-> Oneof("PublicKey", 2, "EcP256PublicKey"),
    Rsa2048PublicKey |-> Oneof("PublicKey", 3, "SimpleRsaPublicKey"),
    Dh2048PublicKey |-> Oneof("PublicKey", 4, "DhPublicKey")]
EcP256PublicKey == [X |-> One(1, "bytes"), Y |-> One(2, "bytes")]
EmptyArr == <<>>

Messages == [LongPollingPayload |-> LongPollingPayload,
    IncomingRPCMessage |-> IncomingRPCMessage, RPCMessageData |-> RPCMessageData,
    OutgoingRPCMessage |-> OutgoingRPCMessage,
    OutgoingRPCMessage_Auth |-> OutgoingRPCMessage_Auth,
    OutgoingRPCMessage_Data |-> OutgoingRPCMessage_Data,
    OutgoingRPCMessage_Data_Type |-> OutgoingRPCMessage_Data_Type,
    OutgoingRPCData |-> OutgoingRPCData, OutgoingRPCResponse |-> OutgoingRPCResponse,
    ReceiveMessagesRequest |-> ReceiveMessagesRequest, AckMessageRequest |-> AckMessageRequest,
    AckMessageRequest_Message |-> AckMessageRequest_Message, AuthMessage |-> AuthMessage,
    RPCPairData |-> RPCPairData, UpdateEvents |-> UpdateEvents,
    EncryptedData2Container |-> EncryptedData2Container,
    ConversationEvent |-> ConversationEvent, TypingEvent |-> TypingEvent,
    MessageEvent |-> MessageEvent, UserAlertEvent |-> UserAlertEvent,
    AccountChangeOrSomethingEvent |-> AccountChangeOrSomethingEvent, TypingData |-> TypingData,
    User |-> User, NotifyDittoActivityRequest |-> NotifyDittoActivityRequest,
    NotifyDittoActivityResponse |-> NotifyDittoActivityResponse,
    MessageReadRequest |-> MessageReadRequest,
    StartMediaUploadRequest |-> StartMediaUploadRequest,
    UploadMediaResponse |-> UploadMediaResponse, UploadedMedia |-> UploadedMedia,
    DownloadAttachmentRequest |-> DownloadAttachmentRequest, AttachmentInfo |-> AttachmentInfo,
    GetThumbnailRequest |-> GetThumbnailRequest, GetThumbnailResponse |-> GetThumbnailResponse,
    GetThumbnailResponse_Thumbnail |-> GetThumbnailResponse_Thumbnail,
    ThumbnailData |-> ThumbnailData, Cursor |-> Cursor,
    ListMessagesRequest |-> ListMessagesRequest, ListMessagesResponse |-> ListMessagesResponse,
    ListContactsRequest |-> ListContactsRequest, ListContactsResponse |-> ListContactsResponse,
    ListTopContactsRequest |-> ListTopContactsRequest,
    ListTopContactsResponse |-> ListTopContactsResponse,
    ListConversationsRequest |-> ListConversationsRequest,
    ListConversationsResponse |-> ListConversationsResponse,
    GetOrCreateConversationRequest |-> GetOrCreateConversationRequest,
    GetOrCreateConversationResponse |-> GetOrCreateConversationResponse,
    DeleteMessageRequest |-> DeleteMessageRequest,
    DeleteMessageResponse |-> DeleteMessageResponse,
    UpdateConversationRequest |-> UpdateConversationRequest,
    DeleteConversationData |-> DeleteConversationData,
    UpdateConversationResponse |-> UpdateConversationResponse,
    GetConversationTypeRequest |-> GetConversationTypeRequest,
    GetConversationTypeResponse |-> GetConversationTypeResponse,
    GetConversationRequest |-> GetConversationRequest,
    GetConversationResponse |-> GetConversationResponse,
    IsBugleDefaultResponse |-> IsBugleDefaultResponse,
    SendMessageRequest |-> SendMessageRequest, ReplyPayload |-> ReplyPayload,
    MessagePayload |-> MessagePayload, SendMessageResponse |-> SendMessageResponse,
    SendReactionRequest |-> SendReactionRequest, SendReactionResponse |-> SendReactionResponse,
    TypingUpdateRequest |-> TypingUpdateRequest,
    TypingUpdateRequest_Data |-> TypingUpdateRequest_Data,
    SettingsUpdateRequest |-> SettingsUpdateRequest,
    SettingsUpdateRequest_PushSettings |-> SettingsUpdateRequest_PushSettings,
    GetFullSizeImageRequest |-> GetFullSizeImageRequest,
    GetFullSizeImageResponse |-> GetFullSizeImageResponse, Conversation |-> Conversation,
    Participant |-> Participant, SmallInfo |-> SmallInfo, Contact |-> Contact,
    ContactNumber |-> ContactNumber, Message |-> Message, MessageInfo |-> MessageInfo,
    MediaContent |-> MediaContent, MessageContent |-> MessageContent,
    MessageStatus |-> MessageStatus, ReactionEntry |-> ReactionEntry,
    ReactionData |-> ReactionData, ReplyMessage |-> ReplyMessage,
    LatestMessage |-> LatestMessage, Settings |-> Settings, SIMCard |-> SIMCard,
    SIMPayload |-> SIMPayload, SIMData |-> SIMData, SIMParticipant |-> SIMParticipant,
    RCSSettings |-> RCSSettings, AuthenticationContainer |-> AuthenticationContainer,
    BrowserDetails |-> BrowserDetails, ConfigVersion |-> ConfigVersion, KeyData |-> KeyData,
    ECDSAKeys |-> ECDSAKeys, TokenData |-> TokenData, PairedData |-> PairedData,
    RevokePairData |-> RevokePairData, Device |-> Device, URLData |-> URLData,
    RegisterPhoneRelayResponse |-> RegisterPhoneRelayResponse,
    RefreshPhoneRelayResponse |-> RefreshPhoneRelayResponse,
    RegisterRefreshRequest |-> RegisterRefreshRequest,
    RegisterRefreshRequest_Parameters |-> RegisterRefreshRequest_Parameters,
    RegisterRefreshRequest_MoreParameters |-> RegisterRefreshRequest_MoreParameters,
    RegisterRefreshRequest_PushRegistration |-> RegisterRefreshRequest_PushRegistration,
    RegisterRefreshResponse |-> RegisterRefreshResponse,
    SignInGaiaRequest |-> SignInGaiaRequest,
    SignInGaiaRequest_Inner |-> SignInGaiaRequest_Inner,
    SignInGaiaRequest_Inner_DeviceID |-> SignInGaiaRequest_Inner_DeviceID,
    SignInGaiaRequest_Inner_Data |-> SignInGaiaRequest_Inner_Data,
    SignInGaiaResponse |-> SignInGaiaResponse, RPCGaiaData |-> RPCGaiaData,
    GaiaPairingRequestContainer |-> GaiaPairingRequestContainer,
    GaiaPairingResponseContainer |-> GaiaPairingResponseContainer,
    RevokeGaiaPairingRequest |-> RevokeGaiaPairingRequest,
    RevokeRelayPairingRequest |-> RevokeRelayPairingRequest,
    RevokeRelayPairingResponse |-> RevokeRelayPairingResponse, ErrorResponse |-> ErrorResponse,
    ErrorResponse_ErrorClass |-> ErrorResponse_ErrorClass,
    WebEncryptionKeyResponse |-> WebEncryptionKeyResponse, Ukey2Message |-> Ukey2Message,
    Ukey2ClientInit |-> Ukey2ClientInit,
    Ukey2ClientInit_CipherCommitment |-> Ukey2ClientInit_CipherCommitment,
    Ukey2ServerInit |-> Ukey2ServerInit, Ukey2ClientFinished |-> Ukey2ClientFinished,
    GenericPublicKey |-> GenericPublicKey, EcP256PublicKey |-> EcP256PublicKey,
    EmptyArr |-> EmptyArr]

(* Types of fields the bridge carries along or skips; MessageStatusType is *)
(* the subject of module MessageStatus.                                    *)
Opaque == {"AnotherMessageID", "BooleanFields2", "BooleanFields3", "BrowserPresenceCheckEvent",
    "BrowserType", "ConversationAction5", "CoordinateMessage", "CurrentDeviceData",
    "CustomEmojiData", "DhPublicKey", "Dimensions", "IncomingRPCMessage_GDittoSource",
    "LatestMessageStatus", "MessagePayloadContent", "MessageStatusType", "MsgType",
    "OutgoingRPCResponse_SomeIdentifier", "RCSChats", "RPCGaiaData_UnknownContainer",
    "ReceiveMessagesRequest_UnknownEmptyObject2", "ReplyMessageData",
    "SignInGaiaResponse_DeviceData", "SignInGaiaResponse_Header", "SimpleRsaPublicKey",
    "SomeData", "SomeKindOfGroupID", "StartAckMessage", "ThumbnailData_MysteriousData",
    "UpdateConversationData", "WebAuthKey"}
-----------------------------------------------------------------------------
(* What the generated getters and the two codecs (google.golang.org's      *)
(* protobuf and go.mau.fi/util/pblite, external) do with a message: here a *)
(* function from its set fields to their values.                           *)
Get(m, f, default) == IF f \in DOMAIN m THEN m[f] ELSE default

Marshal(t, m) == {<<Messages[t][f].number, m[f]>> : f \in DOMAIN m}

Unmarshal(t, wire) ==
    [f \in {g \in DOMAIN Messages[t] : \E e \in wire : e[1] = Messages[t][g].number} |->
        (CHOOSE e \in wire : e[1] = Messages[t][f].number)[2]]

MarshalPBLite(t, m) ==
    LET at(i) == {f \in DOMAIN m : Messages[t][f].number = i}
        last == IF DOMAIN m = {} THEN 0 ELSE Max({Messages[t][f].number : f \in DOMAIN m})
    IN  [i \in 1..last |-> IF at(i) = {} THEN "null" ELSE m[CHOOSE f \in at(i) : TRUE]]

UnmarshalPBLite(t, arr) ==
    [f \in {g \in DOMAIN Messages[t] : /\ Messages[t][g].number \in DOMAIN arr
                                       /\ arr[Messages[t][g].number] # "null"} |->
        arr[Messages[t][f].number]]

(* The messages of type t with at most two fields set, one per oneof.      *)
Samples(t) ==
    LET fields == DOMAIN Messages[t]
        together(f, g) == f = g \/ Messages[t][f].of = "" \/ Messages[t][f].of # Messages[t][g].of
    IN  {<<>>} \cup UNION {[{f, g} -> {"a", "b"}] : <<f, g>> \in
                              {p \in fields \X fields : together(p[1], p[2])}}

(* Reading back what was sent gives the same message, in both encodings.   *)
ASSUME RoundTrip ==
    \A t \in DOMAIN Messages : \A m \in Samples(t) :
        /\ Unmarshal(t, Marshal(t, m)) = m
        /\ UnmarshalPBLite(t, MarshalPBLite(t, m)) = m

(* Every field's type is known.                                            *)
ASSUME TypesKnown ==
    \A t \in DOMAIN Messages : \A f \in DOMAIN Messages[t] :
        Messages[t][f].type \in Scalars \cup DOMAIN Enums \cup DOMAIN Messages \cup Opaque

(* A name or a number of an enumeration stands for one value.              *)
ASSUME EnumsInjective ==
    \A e \in DOMAIN Enums : \A a, b \in DOMAIN Enums[e] : Enums[e][a] = Enums[e][b] => a = b
============================================================================
