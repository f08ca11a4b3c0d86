--------------------------- MODULE MessageStatus ---------------------------
(***************************************************************************)
(* The status numbers a message carries and what the connector concludes   *)
(* from one: who sent the message, whether it counts as sent, failed or    *)
(* still downloading, whether it is bridged at all.  Statuses are int32 on *)
(* the wire: a phone may send numbers the enum does not list.              *)
(***************************************************************************)
EXTENDS Integers, Sequences

Seqs == INSTANCE SequencesExt

(* The numbers of the enum: outgoing, incoming, tombstones, deleted.       *)
MessageStatusType ==
    {0} \cup 1..22 \cup 100..114 \cup 200..275 \cup {300}

(* The ones the code calls by name.                                        *)
STATUS_UNKNOWN == 0
OUTGOING_COMPLETE == 1
OUTGOING_DELIVERED == 2
OUTGOING_SENDING == 5
OUTGOING_FAILED_GENERIC == 8
OUTGOING_DISPLAYED == 11
OUTGOING_CANCELED == 12
INCOMING_COMPLETE == 100
INCOMING_YET_TO_MANUAL_DOWNLOAD == 101
INCOMING_RETRYING_MANUAL_DOWNLOAD == 102
INCOMING_MANUAL_DOWNLOADING == 103
INCOMING_RETRYING_AUTO_DOWNLOAD == 104
INCOMING_AUTO_DOWNLOADING == 105
INCOMING_DOWNLOAD_FAILED == 106
INCOMING_DOWNLOAD_CANCELED == 110
INCOMING_DOWNLOAD_FAILED_TOO_LARGE == 111
INCOMING_DOWNLOAD_FAILED_SIM_HAS_NO_DATA == 112
MESSAGE_DELETED == 300

(* Tombstones: creation and protocol switches of a one-on-one chat, those  *)
(* of a group with the ones never shown, and the four that turn forced RCS *)
(* on or off.                                                              *)
OneOnOneTombstones == {206, 207, 213, 214, 215, 216, 219} \cup 235..238
NeverBridgedTombstones == {203, 204, 205, 210, 229, 233, 234, 245, 259}
SwitchToE2EE == {235, 237}
SwitchFromE2EE == {236, 238}
-----------------------------------------------------------------------------
isSuccessfullySentStatus(status) ==
    status \in {OUTGOING_DELIVERED, OUTGOING_COMPLETE, OUTGOING_DISPLAYED}

(* The reason, or "" for a status that is no failure.                      *)
getFailMessage(status) ==
    CASE status = OUTGOING_FAILED_GENERIC -> "generic carrier error"
      [] status = 9 -> "emergency number error"
      [] status = OUTGOING_CANCELED -> "canceled"
      [] status = 13 -> "too large"
      [] status = 17 -> "recipient lost RCS support"
      [] status = 18 -> "no fallback error"
      [] status \in {19, 22} -> "recipient failed to decrypt message"
      [] status = 21 -> "recipient lost encryption support"
      [] OTHER -> ""

(* wrapStatusInError: the error reported to the user, nil for no failure.  *)
wrapStatusInError(status) ==
    IF getFailMessage(status) = "" THEN "nil" ELSE "send notice"

shouldIgnoreStatus(status, isDM) ==
    \/ status \in OneOnOneTombstones /\ isDM
    \/ status \in NeverBridgedTombstones

(* An update with a lower rank than what is stored is a downgrade.         *)
downloadStatusRank(status) ==
    CASE status = INCOMING_AUTO_DOWNLOADING -> 0
      [] status \in {INCOMING_MANUAL_DOWNLOADING, INCOMING_RETRYING_AUTO_DOWNLOAD,
                     INCOMING_DOWNLOAD_FAILED, INCOMING_YET_TO_MANUAL_DOWNLOAD,
                     INCOMING_RETRYING_MANUAL_DOWNLOAD,
                     INCOMING_DOWNLOAD_FAILED_SIM_HAS_NO_DATA,
                     INCOMING_DOWNLOAD_FAILED_TOO_LARGE,
                     INCOMING_DOWNLOAD_CANCELED} -> 1
      [] OTHER -> 100

downloadPendingStatusMessage(status) ==
    CASE status = INCOMING_YET_TO_MANUAL_DOWNLOAD -> "auto-download is disabled"
      [] status \in {INCOMING_MANUAL_DOWNLOADING, INCOMING_AUTO_DOWNLOADING,
                     INCOMING_RETRYING_MANUAL_DOWNLOAD,
                     INCOMING_RETRYING_AUTO_DOWNLOAD} -> "downloading"
      [] status = INCOMING_DOWNLOAD_FAILED -> "failed"
      [] status = INCOMING_DOWNLOAD_FAILED_TOO_LARGE -> "failed (too large)"
      [] status = INCOMING_DOWNLOAD_FAILED_SIM_HAS_NO_DATA -> "failed (no data)"
      [] status = INCOMING_DOWNLOAD_CANCELED -> "canceled"
      [] OTHER -> ""

(* GetType of a MessageEvent.                                              *)
EventType(status) ==
    IF status = MESSAGE_DELETED THEN "MessageRemove" ELSE "MessageUpsert"

(* Whether a message may create the room of a chat that has none yet.      *)
ShouldCreatePortal(status) ==
    status \in {INCOMING_COMPLETE, OUTGOING_COMPLETE, OUTGOING_DELIVERED,
                OUTGOING_DISPLAYED}

(* The messages ConvertMessage refuses to send as new.                     *)
NotYetDownloaded(status) ==
    status \in {INCOMING_AUTO_DOWNLOADING, INCOMING_RETRYING_AUTO_DOWNLOAD}

(* ConvertMessage keeps in ForceRCS whether the last switch was to         *)
(* encryption; saving the portal may fail, which is only logged.           *)
ForceRCSAfter(status, forceRCS) ==
    CASE status \in SwitchToE2EE -> TRUE
      [] status \in SwitchFromE2EE -> FALSE
      [] OTHER -> forceRCS

(* getEventSenderFromMessage: the bot for tombstones; otherwise a direction*)
(* forced by the number, or none.                                          *)
SenderOfStatus(status) ==
    CASE 200 <= status /\ status < 300 -> "bot"
      [] 1 <= status /\ status < 100 -> "outgoing"
      [] 100 <= status /\ status < 200 -> "incoming"
      [] OTHER -> "unforced"

(* No status counts as sent and failed at once, both are the user's own    *)
(* messages; a placeholder is shown for exactly the incoming statuses that *)
(* rank below a complete message, so that the complete one replaces it;    *)
(* and only the bot's tombstones are left out of the room.                 *)
ASSUME StatusesConsistent ==
    \A s \in MessageStatusType :
        /\ ~(isSuccessfullySentStatus(s) /\ getFailMessage(s) # "")
        /\ isSuccessfullySentStatus(s) \/ getFailMessage(s) # ""
                => SenderOfStatus(s) = "outgoing"
        /\ downloadPendingStatusMessage(s) # "" <=>
                downloadStatusRank(s) < downloadStatusRank(INCOMING_COMPLETE)
        /\ downloadPendingStatusMessage(s) # "" \/ NotYetDownloaded(s)
                => SenderOfStatus(s) = "incoming"
        /\ ShouldCreatePortal(s) =>
                s = INCOMING_COMPLETE \/ isSuccessfullySentStatus(s)
        /\ shouldIgnoreStatus(s, TRUE) \/ shouldIgnoreStatus(s, FALSE)
                => SenderOfStatus(s) = "bot"

(* The protocol switches are never shown in a direct chat, yet the last of *)
(* them decides whether the next message is forced to RCS.                 *)
ASSUME LastSwitchDecides ==
    LET Switches == SwitchToE2EE \cup SwitchFromE2EE
    IN  /\ \A s \in Switches : shouldIgnoreStatus(s, TRUE) /\ ~shouldIgnoreStatus(s, FALSE)
        /\ \A seen \in Seqs!BoundedSeq(Switches \cup {INCOMING_COMPLETE}, 3), before \in BOOLEAN :
              LET switched == SelectSeq(seen, LAMBDA s : s \in Switches)
              IN  Seqs!FoldLeft(LAMBDA force, s : ForceRCSAfter(s, force), before, seen) =
                    IF switched = <<>> THEN before
                    ELSE Seqs!Last(switched) \in SwitchToE2EE
============================================================================
