--------------------------- MODULE SessionHandler ---------------------------
(***************************************************************************)
(* libgm's request/response layer: requests to the phone and the channels  *)
(* their callers wait on (responseWaiters), the long-poll readers that     *)
(* hand responses to them, and the queue of acknowledgements (ackMap).     *)
(*                                                                         *)
(* A request stands for its random requestID and for the channel made for  *)
(* it.  The server (external) stores a message until it is acknowledged    *)
(* and may hand it to any reader, again and in any order.  A request can   *)
(* be answered, in sessions of a Google account, by a "prelim" message     *)
(* with no encrypted part, which the code skips, and by the "real"         *)
(* response; "update" messages answer none.                                *)
(***************************************************************************)
EXTENDS Naturals, Sequences

CONSTANTS
    Requests,     \* calls of sendAsyncMessage, identified by requestID
    Updates,      \* messages from the phone that answer no request
    Readers,      \* goroutines inside readLongPoll
    Ackers,       \* goroutines that call sendAckRequest
    HasCookies,   \* TRUE: the session is one of a Google account
    LostReplies,  \* TRUE: the HTTP request may fail after the server took it
    Garbled,      \* kinds of messages that may fail to decode or decrypt
    Nobody        \* a reader with no message

ASSUME SessionAssumption ==
    /\ Requests \cap Updates = {}
    /\ HasCookies \in BOOLEAN /\ LostReplies \in BOOLEAN
    /\ Garbled \subseteq {"prelim", "real", "update"}
    /\ Nobody \notin (Requests \cup Updates) \X {"prelim", "real", "update"}

Msgs == (Requests \X {"prelim", "real"}) \cup (Updates \X {"update"})

VARIABLES
    responseWaiters,  \* requests with an entry in the map
    chan,             \* the channel: "none", "empty", "full" or "closed"
    call,             \* control point of the request's caller
    answer,           \* kind of the message put into its channel
    accepted,         \* requests the server has taken
    sent,             \* messages the phone has sent
    server,           \* of those, the ones the server has no ack for
    rpc,              \* control point of each reader in HandleRPCMsg
    msg,              \* the message it is handling
    ackMap,           \* message IDs waiting to be acknowledged
    batch,            \* dataToAck of each sendAckRequest call under way
    panicked          \* a send on a closed channel has killed the process

callVars == <<responseWaiters, chan, call, answer>>
phoneVars == <<accepted, sent, server>>
readerVars == <<rpc, msg>>
ackVars == <<ackMap, batch>>
vars == <<callVars, phoneVars, readerVars, ackVars, panicked>>

Waiting == {"waiting", "nudged"}

InSeq(x, s) == \E i \in 1..Len(s) : s[i] = x

Init ==
    /\ responseWaiters = {}
    /\ chan = [r \in Requests |-> "none"]
    /\ call = [r \in Requests |-> "idle"]
    /\ answer = [r \in Requests |-> "none"]
    /\ accepted = {} /\ sent = {} /\ server = {}
    /\ rpc = [d \in Readers |-> "idle"]
    /\ msg = [d \in Readers |-> Nobody]
    /\ ackMap = <<>>
    /\ batch = [s \in Ackers |-> <<>>]
    /\ panicked = FALSE
-----------------------------------------------------------------------------
(* sendAsyncMessage, then sendMessageWithParams, sendGaiaPairingMessage or *)
(* the pinger waiting on the channel.                                      *)

WaitersBeforeSendLate(r) == responseWaiters  \* mutant: registered after the request

(* waitResponse comes before the HTTP request.                             *)
WaitersBeforeSend(r) == responseWaiters \cup {r}

SendStart(r) ==
    /\ call[r] = "idle"
    /\ responseWaiters' = WaitersBeforeSend(r)
    /\ chan' = [chan EXCEPT ![r] = "empty"]
    /\ call' = [call EXCEPT ![r] = "sending"]
    /\ UNCHANGED <<answer, phoneVars, readerVars, ackVars, panicked>>

SendOK(r) ==
    /\ call[r] = "sending" /\ r \in accepted
    /\ call' = [call EXCEPT ![r] = "waiting"]
    /\ UNCHANGED <<responseWaiters, chan, answer, phoneVars, readerVars, ackVars, panicked>>

(* A failed request: cancelResponse closes the channel and removes the     *)
(* waiter under the lock, whoever may already hold the channel.            *)
SendFailed(r) ==
    /\ call[r] = "sending"
    /\ r \notin accepted \/ LostReplies
    /\ chan' = [chan EXCEPT ![r] = "closed"]
    /\ responseWaiters' = responseWaiters \ {r}
    /\ call' = [call EXCEPT ![r] = "failed"]
    /\ UNCHANGED <<answer, phoneVars, readerVars, ackVars, panicked>>

(* Five seconds without an answer: offer pingShortCircuit a token (dropped *)
(* unless a pinger is listening), then wait with no limit.                 *)
Nudge(r) ==
    /\ call[r] = "waiting"
    /\ call' = [call EXCEPT ![r] = "nudged"]
    /\ UNCHANGED <<responseWaiters, chan, answer, phoneVars, readerVars, ackVars, panicked>>

Return(r) ==
    /\ call[r] \in Waiting /\ chan[r] = "full"
    /\ call' = [call EXCEPT ![r] = "returned"]
    /\ chan' = [chan EXCEPT ![r] = "empty"]
    /\ UNCHANGED <<responseWaiters, answer, phoneVars, readerVars, ackVars, panicked>>

ChanAfterGivingUpClosed(r) == [chan EXCEPT ![r] = "closed"]  \* mutant: closes the channel

ChanAfterGivingUp(r) == chan

(* A pairing message whose context ends and a ping that is given up leave  *)
(* their waiter and their channel behind.                                  *)
GiveUp(r) ==
    /\ call[r] = "waiting"
    /\ call' = [call EXCEPT ![r] = "gaveUp"]
    /\ chan' = ChanAfterGivingUp(r)
    /\ UNCHANGED <<responseWaiters, answer, phoneVars, readerVars, ackVars, panicked>>
-----------------------------------------------------------------------------
(* The server and the phone (external).                                    *)
ServerAccepts(r) ==
    /\ call[r] = "sending" /\ r \notin accepted
    /\ accepted' = accepted \cup {r}
    /\ UNCHANGED <<callVars, sent, server, readerVars, ackVars, panicked>>

PhoneSends(m) ==
    /\ m \notin sent
    /\ m[2] # "update" => m[1] \in accepted
    /\ m[2] = "prelim" => HasCookies /\ <<m[1], "real">> \notin sent
    /\ sent' = sent \cup {m}
    /\ server' = server \cup {m}
    /\ UNCHANGED <<accepted, callVars, readerVars, ackVars, panicked>>
-----------------------------------------------------------------------------
(* HandleRPCMsg in reader d.                                               *)

QueuedOnlyUpdates(m) ==  \* mutant: responses are not acknowledged
    IF InSeq(m, ackMap) \/ m[2] # "update" THEN ackMap ELSE Append(ackMap, m)

QueuedTwice(m) == Append(ackMap, m)  \* mutant: no look at what is queued

(* queueMessageAck                                                         *)
Queued(m) == IF InSeq(m, ackMap) THEN ackMap ELSE Append(ackMap, m)

(* The ack is queued whatever becomes of the message.                      *)
Receive(d, m) ==
    /\ rpc[d] = "idle" /\ m \in server
    /\ ackMap' = Queued(m)
    /\ rpc' = [rpc EXCEPT ![d] = "claim"]
    /\ msg' = [msg EXCEPT ![d] = m]
    /\ UNCHANGED <<callVars, phoneVars, batch, panicked>>

ReceiveGarbled(d, m) ==
    /\ rpc[d] = "idle" /\ m \in server /\ m[2] \in Garbled
    /\ ackMap' = Queued(m)
    /\ UNCHANGED <<callVars, phoneVars, readerVars, batch, panicked>>

IsResponseAny(m) == m[2] # "update"  \* mutant: the preliminary message is not skipped

(* receiveResponse skips events, and messages with only unencrypted data   *)
(* in a Google account's session.                                          *)
IsResponse(m) == m[2] = "real" \/ (m[2] = "prelim" /\ ~HasCookies)

WaitersAfterClaimKept(r) == responseWaiters  \* mutant: the waiter stays in the map

WaitersAfterClaim(r) == responseWaiters \ {r}

(* receiveResponse up to the unlock: take the waiter out of the map.       *)
Claim(d) ==
    /\ rpc[d] = "claim"
    /\ IsResponse(msg[d]) /\ msg[d][1] \in responseWaiters
    /\ responseWaiters' = WaitersAfterClaim(msg[d][1])
    /\ rpc' = [rpc EXCEPT ![d] = "deliver"]
    /\ UNCHANGED <<chan, call, answer, phoneVars, msg, ackVars, panicked>>

(* Not a response anyone waits for: it goes to the event handlers.         *)
Dispatch(d) ==
    /\ rpc[d] = "claim"
    /\ ~(IsResponse(msg[d]) /\ msg[d][1] \in responseWaiters)
    /\ rpc' = [rpc EXCEPT ![d] = "idle"]
    /\ msg' = [msg EXCEPT ![d] = Nobody]
    /\ UNCHANGED <<callVars, phoneVars, ackVars, panicked>>

(* ch <- msg, after the unlock: blocks while the buffer is full, panics on *)
(* a closed channel.                                                       *)
Deliver(d) ==
    LET r == msg[d][1] IN
    /\ rpc[d] = "deliver" /\ chan[r] = "empty"
    /\ chan' = [chan EXCEPT ![r] = "full"]
    /\ answer' = [answer EXCEPT ![r] = msg[d][2]]
    /\ rpc' = [rpc EXCEPT ![d] = "idle"]
    /\ msg' = [msg EXCEPT ![d] = Nobody]
    /\ UNCHANGED <<responseWaiters, call, phoneVars, ackVars, panicked>>

DeliverPanics(d) ==
    /\ rpc[d] = "deliver" /\ chan[msg[d][1]] = "closed"
    /\ panicked' = TRUE
    /\ UNCHANGED <<callVars, phoneVars, readerVars, ackVars>>
-----------------------------------------------------------------------------
(* sendAckRequest: take the queue, send it, forget it either way.          *)
AckTake(s) ==
    /\ batch[s] = <<>> /\ ackMap # <<>>
    /\ batch' = [batch EXCEPT ![s] = ackMap]
    /\ ackMap' = <<>>
    /\ UNCHANGED <<callVars, phoneVars, readerVars, panicked>>

AckSent(s) ==
    /\ batch[s] # <<>>
    /\ server' = {m \in server : ~InSeq(m, batch[s])}
    /\ batch' = [batch EXCEPT ![s] = <<>>]
    /\ UNCHANGED <<callVars, accepted, sent, readerVars, ackMap, panicked>>

AckLost(s) ==
    /\ batch[s] # <<>>
    /\ batch' = [batch EXCEPT ![s] = <<>>]
    /\ UNCHANGED <<callVars, phoneVars, readerVars, ackMap, panicked>>
-----------------------------------------------------------------------------
CallerStep(r) ==
    \/ SendStart(r) \/ SendOK(r) \/ SendFailed(r)
    \/ Nudge(r) \/ Return(r) \/ GiveUp(r)

ReaderStep(d) == Claim(d) \/ Dispatch(d) \/ Deliver(d) \/ DeliverPanics(d)

AckStep(s) == AckTake(s) \/ AckSent(s) \/ AckLost(s)

Next ==
    /\ ~panicked
    /\ \/ \E r \in Requests : CallerStep(r) \/ ServerAccepts(r)
       \/ \E m \in Msgs : PhoneSends(m)
       \/ \E d \in Readers, m \in Msgs : Receive(d, m) \/ ReceiveGarbled(d, m)
       \/ \E d \in Readers : ReaderStep(d)
       \/ \E s \in Ackers : AckStep(s)

Spec == Init /\ [][Next]_vars

(* Fairness: goroutines run; HTTP requests end; the server goes on handing *)
(* out what is not acknowledged, and the network does not lose every ack.  *)
(* Nothing obliges the phone to answer.                                    *)
Fairness ==
    /\ \A r \in Requests : WF_vars(SendOK(r) \/ SendFailed(r)) /\ WF_vars(Return(r))
    /\ \A d \in Readers : WF_vars(ReaderStep(d))
    /\ \A m \in Msgs : SF_vars(\E d \in Readers : Receive(d, m))
    /\ \A s \in Ackers : WF_vars(AckTake(s)) /\ SF_vars(AckSent(s))

FairSpec == Spec /\ Fairness
-----------------------------------------------------------------------------
TypeOK ==
    /\ responseWaiters \subseteq Requests
    /\ chan \in [Requests -> {"none", "empty", "full", "closed"}]
    /\ call \in [Requests -> {"idle", "sending", "returned", "failed", "gaveUp"} \cup Waiting]
    /\ answer \in [Requests -> {"none", "prelim", "real"}]
    /\ accepted \subseteq Requests
    /\ sent \subseteq Msgs
    /\ server \subseteq sent
    /\ rpc \in [Readers -> {"idle", "claim", "deliver"}]
    /\ msg \in [Readers -> Msgs \cup {Nobody}]
    /\ ackMap \in Seq(Msgs)
    /\ batch \in [Ackers -> Seq(Msgs)]
    /\ panicked \in BOOLEAN

(* The long-poll reader never blocks handing over a response: a claimed    *)
(* request's buffer of one is free and no other reader has claimed it,     *)
(* even when the same response is delivered on two streams.                *)
ReaderNeverBlocks ==
    \A d \in Readers :
        rpc[d] = "deliver" =>
            /\ chan[msg[d][1]] # "full"
            /\ \A e \in Readers : rpc[e] = "deliver" /\ msg[e][1] = msg[d][1] => e = d

(* The process only dies on a closed channel when the answer to a request  *)
(* overtook its own failed HTTP request: no timeout, abandoned wait or     *)
(* duplicate delivery ever leads there.                                    *)
CrashOnlyAfterLostReply ==
    panicked => \E r \in Requests : call[r] = "failed" /\ r \in accepted

(* A caller that returns has the real response, never the preliminary      *)
(* message that precedes it.                                               *)
AnswerIsReal == \A r \in Requests : call[r] = "returned" => answer[r] = "real"

(* An acknowledgement is queued once, however often its message arrives.   *)
AckQueuedOnce ==
    \A i, j \in 1..Len(ackMap) : ackMap[i] = ackMap[j] => i = j

(* Once the phone has answered a request that is being waited for, its     *)
(* caller gets that answer (or had given up, or its request failed).       *)
AnswerReachesCaller ==
    \A r \in Requests :
        <<r, "real">> \in sent ~> call[r] \in {"returned", "failed", "gaveUp"}

(* Every message is acknowledged in the end, although acks that fail are   *)
(* forgotten: the server's redelivery queues them again.                   *)
EventuallyAcked == \A m \in Msgs : m \in sent ~> m \notin server
=============================================================================
