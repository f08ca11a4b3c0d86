------------------------------- MODULE Media -------------------------------
(***************************************************************************)
(* Attachments: the tables between MIME types and the protocol's formats,  *)
(* the two ciphers' layouts and the upload.  The ciphers themselves are    *)
(* ideal: sealing bytes gives bytes that only the same key and associated  *)
(* data open again.                                                        *)
(***************************************************************************)
EXTENDS Integers, Sequences, SequencesExt, FiniteSets

(* MimeToMediaType: <<MIME type, file extension, format>>; a class without *)
(* a slash is the fallback for its types.                                  *)
MimeToMediaType == {
    <<"image/jpeg", "jpeg", "IMAGE_JPEG">>, <<"image/jpg", "jpg", "IMAGE_JPG">>,
    <<"image/png", "png", "IMAGE_PNG">>, <<"image/gif", "gif", "IMAGE_GIF">>,
    <<"image/wbmp", "wbmp", "IMAGE_WBMP">>, <<"image/bmp", "bmp", "IMAGE_X_MS_BMP">>,
    <<"image/x-ms-bmp", "bmp", "IMAGE_X_MS_BMP">>, <<"video/mp4", "mp4", "VIDEO_MP4">>,
    <<"video/3gpp2", "3gpp2", "VIDEO_3G2">>, <<"video/3gpp", "3gpp", "VIDEO_3GPP">>,
    <<"video/webm", "webm", "VIDEO_WEBM">>, <<"video/x-matroska", "mkv", "VIDEO_MKV">>,
    <<"audio/aac", "aac", "AUDIO_AAC">>, <<"audio/amr", "amr", "AUDIO_AMR">>,
    <<"audio/mp3", "mp3", "AUDIO_MP3">>, <<"audio/mpeg", "mpeg", "AUDIO_MPEG">>,
    <<"audio/mpg", "mpg", "AUDIO_MPG">>, <<"audio/mp4", "mp4", "AUDIO_MP4">>,
    <<"audio/mp4-latm", "latm", "AUDIO_MP4_LATM">>, <<"audio/3gpp", "3gpp", "AUDIO_3GPP">>,
    <<"audio/ogg", "ogg", "AUDIO_OGG">>, <<"text/vcard", "vcard", "TEXT_VCARD">>,
    <<"application/pdf", "pdf", "APP_PDF">>, <<"text/plain", "txt", "APP_TXT">>,
    <<"text/html", "html", "APP_HTML">>, <<"application/msword", "doc", "APP_DOC">>,
    <<"wordprocessingml", "docx", "APP_DOCX">>, <<"presentationml", "pptx", "APP_PPTX">>,
    <<"vnd.ms-powerpoint", "ppt", "APP_PPT">>, <<"spreadsheetml", "xlsx", "APP_XLSX">>,
    <<"vnd.ms-excel", "xls", "APP_XLS">>, <<"android.package-archive", "apk", "APP_APK">>,
    <<"application/zip", "zip", "APP_ZIP">>, <<"java-archive", "jar", "APP_JAR">>,
    <<"text/x-calendar", "vcs", "CAL_TEXT_VCALENDAR">>, <<"text/calendar", "ics", "CAL_TEXT_CALENDAR">>,
    <<"image", "", "IMAGE_UNSPECIFIED">>, <<"video", "", "VIDEO_UNSPECIFIED">>,
    <<"audio", "", "AUDIO_UNSPECIFIED">>, <<"application", "", "APP_UNSPECIFIED">>,
    <<"text", "", "APP_TXT">>}

Classes == {"image", "video", "audio", "application", "text"}

(* FormatToMediaType is filled by ranging over a map, in any order: the    *)
(* last entry of a format stays.  A class leaves the MIME type empty.  The *)
(* calendar aliases are set first.                                         *)
FormatToMediaType(format) ==
    LET entries == {e \in MimeToMediaType : e[3] = format}
        named(e) == [Extension |-> e[2], Format |-> IF e[1] \in Classes THEN "" ELSE e[1]]
        alias == CASE format \in {"CAL_TEXT_XVCALENDAR", "CAL_APPLICATION_VCS"} -> {"text/x-calendar"}
                   [] format = "CAL_APPLICATION_ICS" -> {"text/calendar"}
                   [] OTHER -> {}
    IN  IF entries # {} THEN {named(e) : e \in entries}
        ELSE {[named(e) EXCEPT !.Format = ""] : e \in {x \in MimeToMediaType : x[1] \in alias}}

(* The format an upload announces: the MIME type's, or its class's.        *)
UploadFormat(mime, class) ==
    LET of(k) == {e[3] : e \in {x \in MimeToMediaType : x[1] = k}} IN
    IF of(mime) # {} THEN of(mime) ELSE IF of(class) # {} THEN of(class) ELSE {"UNSPECIFIED_TYPE"}

(* convertGoogleMedia: the type the room is told is the format's, or what  *)
(* the bytes look like; the type sent along does not count.  Audio becomes *)
(* ogg if ffmpeg is there.  A class is the part of a type before the slash *)
(* and says what kind of message shows it.                                 *)
convertGoogleMedia(format, detected, class, ffmpeg) ==
    LET told == {IF t.Format = "" THEN detected ELSE t.Format : t \in FormatToMediaType(format)}
        types == IF told = {} THEN {detected} ELSE told
        kind(m) == IF class[m] \in {"image", "video", "audio"} THEN class[m] ELSE "file"
    IN  {[ msgtype |-> kind(m), converted |-> kind(m) = "audio" /\ m # "audio/ogg" /\ ffmpeg,
           mime |-> IF kind(m) = "audio" /\ ffmpeg THEN "audio/ogg" ELSE m ] : m \in types}

(* One format stands for two types only where the table says so: which of  *)
(* the two an attachment gets depends on the order of a map.               *)
ASSUME FormatsDetermined ==
    {f \in {e[3] : e \in MimeToMediaType} : Cardinality(FormatToMediaType(f)) > 1}
        = {"IMAGE_X_MS_BMP", "APP_TXT"}

(* What was uploaded as a known type is never announced as unspecified.    *)
ASSUME UploadsAnnounced ==
    \A e \in MimeToMediaType : \A c \in Classes : UploadFormat(e[1], c) = {e[3]}

(* The types capabilities.go offers for images, audio and video.           *)
imageMimes == {"image/png", "image/jpeg", "image/gif", "image/bmp", "image/wbmp", "image/webp"}
audioMimes == {"audio/aac", "audio/amr", "audio/mpeg", "audio/mp4", "audio/mp4-latm", "audio/3gpp", "audio/ogg"}
videoMimes == {"video/mp4", "video/3gpp", "video/webm"}

ClassOf == [m \in imageMimes |-> "image"] @@ [m \in audioMimes |-> "audio"] @@ [m \in videoMimes |-> "video"]
              @@ [m \in {"image/x-ms-bmp"} |-> "image"]

(* A file of an offered type that is sent to the phone and comes back is   *)
(* shown as the same kind of thing and, audio aside, under the same type:  *)
(* webp has no format of its own and depends on its bytes being looked at, *)
(* and a bmp may come back under its other name.                           *)
ASSUME OfferedTypesReturn ==
    \A m \in DOMAIN ClassOf : \A ffmpeg \in BOOLEAN : \A f \in UploadFormat(m, ClassOf[m]) :
        /\ f # "UNSPECIFIED_TYPE"
        /\ \A back \in convertGoogleMedia(f, m, ClassOf, ffmpeg) :
             /\ back.msgtype = ClassOf[m]
             /\ back.mime = m \/ {back.mime, m} = {"image/bmp", "image/x-ms-bmp"}
                 \/ (back.msgtype = "audio" /\ back.mime = "audio/ogg" /\ ffmpeg)
-----------------------------------------------------------------------------
(* AES-GCM in chunks.  A sealed chunk is longer than its data by a nonce   *)
(* and a tag.  A byte of a sealed chunk is all of it and its own position. *)
Overhead == 3  \* the code's 28, scaled with the chunk

Seal(data, aad) == [i \in 1..(Len(data) + Overhead) |-> [aad |-> aad, data |-> data, pos |-> i]]

Error == [ok |-> FALSE, data |-> <<>>]

Open(chunk, aad) ==
    IF chunk # <<>> /\ chunk = Seal(chunk[1].data, aad) THEN [ok |-> TRUE, data |-> chunk[1].data]
    ELSE Error

calculateAAD(index, last) == <<last, index>>

(* The start of each chunk of n bytes taken size at a time.                *)
Starts(n, size) == {i \in 0..(n - 1) : i % size = 0}

Chunk(data, size, i) ==
    LET end == IF i + size >= Len(data) THEN Len(data) ELSE i + size IN
    [data |-> SubSeq(data, i + 1, end), aad |-> calculateAAD(i \div size, i + size >= Len(data))]

Chunks(data, size) == [k \in 1..Cardinality(Starts(Len(data), size)) |-> Chunk(data, size, (k - 1) * size)]

(* The header holds the logarithm of the chunk size, the overhead included. *)
EncryptData(data, log2) ==
    LET cs == Chunks(data, 2^log2 - Overhead)
    IN  [header |-> log2, body |-> FlattenSeq([k \in DOMAIN cs |-> Seal(cs[k].data, cs[k].aad)])]

DecryptData(enc) ==
    LET cs == Chunks(enc.body, 2^enc.header)
        opened == [k \in DOMAIN cs |-> Open(cs[k].data, cs[k].aad)]
    IN  IF \A k \in DOMAIN opened : opened[k].ok
        THEN [ok |-> TRUE, data |-> FlattenSeq([k \in DOMAIN opened |-> opened[k].data])]
        ELSE Error

Bytes(n) == [i \in 1..n |-> i]

(* What is sealed in chunks is opened again, at every length around the    *)
(* chunk boundary, the empty one included; and a body that lost or         *)
(* repeated a whole chunk or its end does not open as something else.      *)
ASSUME ChunksRoundTrip ==
    \A log2 \in 2..3 : \A n \in 0..12 :
        LET enc == EncryptData(Bytes(n), log2)
            cut(k) == [enc EXCEPT !.body = SubSeq(@, 1, k)]
            tail(k) == [enc EXCEPT !.body = SubSeq(@, k + 1, Len(@))]
        IN  /\ DecryptData(enc) = [ok |-> TRUE, data |-> Bytes(n)]
            /\ \A k \in 1..(Len(enc.body) - 1) : ~DecryptData(cut(k)).ok /\ ~DecryptData(tail(k)).ok
-----------------------------------------------------------------------------
(* AES-CTR: ciphertext, initialisation vector, MAC of both.                *)
Encrypt(plain, key) ==
    LET masked == [i \in 1..Len(plain) |-> <<plain[i], key.AESKey, "iv", i>>] \o [i \in 1..16 |-> <<"iv", i>>]
    IN  masked \o [i \in 1..32 |-> <<"mac", key.HMACKey, masked, i>>]

Decrypt(enc, key) ==
    LET n == Len(enc)
        masked == SubSeq(enc, 1, n - 32)
        mac == [i \in 1..32 |-> <<"mac", key.HMACKey, masked, i>>]
    IN  IF n < 48 THEN Error
        ELSE IF SubSeq(enc, n - 31, n) # mac THEN Error
        ELSE [ok |-> TRUE, data |-> [i \in 1..(n - 48) |->
                  IF masked[i][2] = key.AESKey THEN masked[i][1] ELSE "noise"]]

(* A request decrypts with the keys it was encrypted with, the empty one   *)
(* too, and a message that is cut short or under another MAC key is an     *)
(* error.                                                                  *)
ASSUME RequestsRoundTrip ==
    LET key == [AESKey |-> "a", HMACKey |-> "h"] IN
    \A n \in 0..3 :
        LET enc == Encrypt(Bytes(n), key) IN
        /\ Decrypt(enc, key) = [ok |-> TRUE, data |-> Bytes(n)]
        /\ ~Decrypt(enc, [key EXCEPT !.HMACKey = "other"]).ok
        /\ \A k \in 0..(Len(enc) - 1) : ~Decrypt(SubSeq(enc, 1, k), key).ok
-----------------------------------------------------------------------------
(* The upload: a start and a finalize request.  An answer is a status and  *)
(* what a caller reads from it.                                            *)
StartUploadMedia(res) ==
    IF res.status # 200 \/ ~res.granularity THEN Error ELSE [ok |-> TRUE, data |-> <<res.url>>]

(* The body may be base64; one that happens to look like it is taken for   *)
(* it, and one without media makes the client panic.                       *)
FinalizeUploadMedia(res) ==
    IF res.status # 200 THEN Error
    ELSE IF res.looksBase64 # res.isBase64 THEN Error
    ELSE IF res.media = "nil" THEN [ok |-> FALSE, data |-> <<"panic">>]
    ELSE [ok |-> TRUE, data |-> <<res.media>>]

UploadMedia(mime, class, start, final) ==
    IF StartUploadMedia(start).ok /\ FinalizeUploadMedia(final).ok
    THEN [ok |-> TRUE, data |-> <<UploadFormat(mime, class), final.media>>]
    ELSE Error

(* The status of a download is not looked at: what is not an encrypted     *)
(* file does not open, except that nothing opens as nothing.               *)
DownloadMedia(res) ==
    IF ~res.ok THEN Error
    ELSE IF res.body = "empty" THEN [ok |-> TRUE, data |-> <<>>]
    ELSE IF res.body = "page" THEN Error
    ELSE DecryptData(res.body)

DownloadAvatar(res) == IF res.status \in 200..299 THEN [ok |-> TRUE, data |-> res.data] ELSE Error
============================================================================
