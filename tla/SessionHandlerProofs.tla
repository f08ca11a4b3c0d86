------------------------ MODULE SessionHandlerProofs ------------------------
(***************************************************************************)
(* Proofs about SessionHandler for any sets of requests, updates, readers  *)
(* and ack senders, any garbling, and with or without lost HTTP replies.   *)
(***************************************************************************)
EXTENDS SessionHandler, TLAPS

(* A message in a reader's hands is one the phone sent, and the phone only *)
(* answers requests that the server has accepted.                          *)
MsgInv ==
    /\ \A d \in Readers : rpc[d] # "idle" => msg[d] \in sent
    /\ \A m \in sent : m[2] # "update" => m[1] \in accepted
    /\ \A m \in sent : m[2] = "prelim" => HasCookies
    /\ \A r \in accepted : call[r] # "idle"

(* A channel is open and empty as long as its waiter is in the map; it is  *)
(* closed exactly when the request failed.                                 *)
ChanInv ==
    \A r \in Requests :
        /\ r \in responseWaiters =>
             chan[r] = "empty" /\ call[r] \in {"sending", "gaveUp"} \cup Waiting
        /\ chan[r] = "closed" => call[r] = "failed"
        /\ call[r] = "idle" => chan[r] = "none"
        /\ chan[r] = "full" => answer[r] = "real"
        /\ call[r] = "returned" => answer[r] = "real"

(* A claimed request has left the map, was claimed by one reader only, and *)
(* its channel has not been written to.                                    *)
ClaimInv ==
    \A d \in Readers :
        rpc[d] = "deliver" =>
            /\ msg[d] \in Requests \X {"real"}
            /\ msg[d][1] \notin responseWaiters
            /\ chan[msg[d][1]] \in {"empty", "closed"}
            /\ \A e \in Readers : rpc[e] = "deliver" /\ msg[e][1] = msg[d][1] => e = d

LEMMA QueuedType ==
  ASSUME NEW m \in Msgs, ackMap \in Seq(Msgs)
  PROVE  Queued(m) \in Seq(Msgs)
BY DEF Queued

LEMMA TypeInit == Init => TypeOK
<1> SUFFICES ASSUME Init PROVE TypeOK
  OBVIOUS
<1>1. chan \in [Requests -> {"none", "empty", "full", "closed"}]
  BY DEF Init
<1>2. call \in [Requests -> {"idle", "sending", "returned", "failed", "gaveUp"} \cup Waiting]
  BY DEF Init
<1>3. answer \in [Requests -> {"none", "prelim", "real"}]
  BY DEF Init
<1>4. rpc \in [Readers -> {"idle", "claim", "deliver"}] /\ msg \in [Readers -> Msgs \cup {Nobody}]
  BY DEF Init
<1>5. ackMap \in Seq(Msgs) /\ batch \in [Ackers -> Seq(Msgs)]
  BY DEF Init
<1>6. QED
  BY <1>1, <1>2, <1>3, <1>4, <1>5 DEF Init, TypeOK

LEMMA TypeStep ==
  ASSUME TypeOK, ClaimInv, [Next]_vars
  PROVE  TypeOK'
<1> USE DEF TypeOK, Waiting, callVars, phoneVars, readerVars, ackVars
<1>1. CASE UNCHANGED vars
  BY <1>1 DEF vars
<1>2. ASSUME NEW r \in Requests, SendStart(r) \/ SendOK(r) \/ SendFailed(r)
      PROVE  TypeOK'
  BY <1>2 DEF SendStart, SendOK, SendFailed, WaitersBeforeSend
<1>3. ASSUME NEW r \in Requests, Nudge(r) \/ Return(r) \/ GiveUp(r)
      PROVE  TypeOK'
  BY <1>3 DEF Nudge, Return, GiveUp, ChanAfterGivingUp
<1>4. ASSUME NEW r \in Requests, ServerAccepts(r)
      PROVE  TypeOK'
  BY <1>4 DEF ServerAccepts
<1>5. ASSUME NEW m \in Msgs, PhoneSends(m)
      PROVE  TypeOK'
  BY <1>5 DEF PhoneSends
<1>6. ASSUME NEW d \in Readers, NEW m \in Msgs, Receive(d, m) \/ ReceiveGarbled(d, m)
      PROVE  TypeOK'
  BY <1>6, QueuedType DEF Receive, ReceiveGarbled
<1>7. ASSUME NEW d \in Readers, Claim(d) \/ Dispatch(d) \/ DeliverPanics(d)
      PROVE  TypeOK'
  BY <1>7 DEF Claim, Dispatch, DeliverPanics, WaitersAfterClaim
<1>8. ASSUME NEW d \in Readers, Deliver(d)
      PROVE  TypeOK'
  <2>1. msg[d][1] \in Requests /\ msg[d][2] = "real"
    BY <1>8 DEF Deliver, ClaimInv
  <2>2. chan' \in [Requests -> {"none", "empty", "full", "closed"}]
    BY <1>8, <2>1 DEF Deliver
  <2>3. answer' \in [Requests -> {"none", "prelim", "real"}]
    BY <1>8, <2>1 DEF Deliver
  <2>4. rpc' \in [Readers -> {"idle", "claim", "deliver"}] /\ msg' \in [Readers -> Msgs \cup {Nobody}]
    BY <1>8 DEF Deliver
  <2>5. QED
    BY <1>8, <2>2, <2>3, <2>4 DEF Deliver
<1>9. ASSUME NEW s \in Ackers, AckTake(s)
      PROVE  TypeOK'
  <2>1. ackMap' \in Seq(Msgs) /\ batch' \in [Ackers -> Seq(Msgs)]
    BY <1>9 DEF AckTake
  <2>2. QED
    BY <1>9, <2>1 DEF AckTake
<1>10. ASSUME NEW s \in Ackers, AckSent(s) \/ AckLost(s)
       PROVE  TypeOK'
  <2>1. batch' = [batch EXCEPT ![s] = <<>>] /\ <<>> \in Seq(Msgs)
    BY <1>10 DEF AckSent, AckLost
  <2>2. batch' \in [Ackers -> Seq(Msgs)]
    BY <2>1
  <2>3. server' \subseteq server
    BY <1>10 DEF AckSent, AckLost
  <2>4. QED
    BY <1>10, <2>2, <2>3 DEF AckSent, AckLost
<1>11. QED
  BY <1>1, <1>2, <1>3, <1>4, <1>5, <1>6, <1>7, <1>8, <1>9, <1>10
     DEF Next, CallerStep, ReaderStep, AckStep
-----------------------------------------------------------------------------
(* What each step may do to the state the three invariants speak of.       *)

LEMMA MsgStep ==
  ASSUME TypeOK, MsgInv, ClaimInv, [Next]_vars
  PROVE  MsgInv'
<1> USE DEF TypeOK, Waiting, callVars, phoneVars, readerVars, ackVars
<1>1. CASE UNCHANGED vars
  BY <1>1 DEF vars, MsgInv
<1>2. ASSUME NEW r \in Requests, SendStart(r) \/ SendOK(r) \/ SendFailed(r)
      PROVE  MsgInv'
  BY <1>2 DEF SendStart, SendOK, SendFailed, MsgInv
<1>3. ASSUME NEW r \in Requests, Nudge(r) \/ Return(r) \/ GiveUp(r)
      PROVE  MsgInv'
  BY <1>3 DEF Nudge, Return, GiveUp, MsgInv
<1>4. ASSUME NEW r \in Requests, ServerAccepts(r)
      PROVE  MsgInv'
  BY <1>4 DEF ServerAccepts, MsgInv
<1>5. ASSUME NEW m \in Msgs, PhoneSends(m)
      PROVE  MsgInv'
  BY <1>5 DEF PhoneSends, MsgInv
<1>6. ASSUME NEW d \in Readers, NEW m \in Msgs, Receive(d, m)
      PROVE  MsgInv'
  BY <1>6 DEF Receive, MsgInv
<1>7. ASSUME NEW d \in Readers, NEW m \in Msgs, ReceiveGarbled(d, m)
      PROVE  MsgInv'
  BY <1>7 DEF ReceiveGarbled, MsgInv
<1>8. ASSUME NEW d \in Readers, ReaderStep(d)
      PROVE  MsgInv'
  BY <1>8 DEF ReaderStep, Claim, Dispatch, Deliver, DeliverPanics, MsgInv
<1>9. ASSUME NEW s \in Ackers, AckStep(s)
      PROVE  MsgInv'
  BY <1>9 DEF AckStep, AckTake, AckSent, AckLost, MsgInv
<1>10. QED
  BY <1>1, <1>2, <1>3, <1>4, <1>5, <1>6, <1>7, <1>8, <1>9 DEF Next, CallerStep

LEMMA ChanStep ==
  ASSUME TypeOK, ChanInv, ClaimInv, [Next]_vars
  PROVE  ChanInv'
<1> USE DEF TypeOK, Waiting, callVars, phoneVars, readerVars, ackVars
<1>1. CASE UNCHANGED vars
  BY <1>1 DEF vars, ChanInv
<1>2. ASSUME NEW r \in Requests, SendStart(r)
      PROVE  ChanInv'
  BY <1>2 DEF SendStart, WaitersBeforeSend, ChanInv
<1>3. ASSUME NEW r \in Requests, SendOK(r) \/ SendFailed(r)
      PROVE  ChanInv'
  BY <1>3 DEF SendOK, SendFailed, ChanInv
<1>4. ASSUME NEW r \in Requests, Nudge(r) \/ Return(r) \/ GiveUp(r)
      PROVE  ChanInv'
  BY <1>4 DEF Nudge, Return, GiveUp, ChanAfterGivingUp, ChanInv
<1>5. ASSUME UNCHANGED callVars
      PROVE  ChanInv'
  BY <1>5 DEF ChanInv
<1>6. ASSUME NEW d \in Readers, Claim(d)
      PROVE  ChanInv'
  BY <1>6 DEF Claim, WaitersAfterClaim, ChanInv
<1>7. ASSUME NEW d \in Readers, Deliver(d)
      PROVE  ChanInv'
  <2>1. msg[d][1] \in Requests /\ msg[d][2] = "real" /\ msg[d][1] \notin responseWaiters
    BY <1>7 DEF Deliver, ClaimInv
  <2>2. PICK r \in Requests : r = msg[d][1]
    BY <2>1
  <2>3. chan[r] = "empty" /\ chan' = [chan EXCEPT ![r] = "full"]
        /\ answer' = [answer EXCEPT ![r] = "real"] /\ UNCHANGED <<responseWaiters, call>>
    BY <1>7, <2>1, <2>2 DEF Deliver
  <2>4. QED
    BY <2>1, <2>2, <2>3 DEF ChanInv
<1>8. QED
  BY <1>1, <1>2, <1>3, <1>4, <1>5, <1>6, <1>7
     DEF Next, CallerStep, ReaderStep, AckStep, ServerAccepts, PhoneSends, Receive,
         ReceiveGarbled, Dispatch, DeliverPanics, AckTake, AckSent, AckLost

(* The claimed requests stay claimed by the same readers.                  *)
LEMMA ClaimKept ==
  ASSUME ClaimInv, UNCHANGED <<responseWaiters, chan>>,
         \A d \in Readers : rpc'[d] = "deliver" => rpc[d] = "deliver" /\ msg'[d] = msg[d]
  PROVE  ClaimInv'
BY DEF ClaimInv

LEMMA ClaimStep ==
  ASSUME TypeOK, MsgInv, ChanInv, ClaimInv, [Next]_vars
  PROVE  ClaimInv'
<1> USE DEF TypeOK, Waiting, callVars, phoneVars, readerVars, ackVars
<1>1. CASE UNCHANGED vars
  BY <1>1, ClaimKept DEF vars
<1>2. ASSUME NEW r \in Requests, SendStart(r)
      PROVE  ClaimInv'
  <2>1. \A d \in Readers : rpc[d] = "deliver" => msg[d][1] # r
    BY <1>2 DEF SendStart, ChanInv, ClaimInv
  <2>2. QED
    BY <1>2, <2>1 DEF SendStart, WaitersBeforeSend, ClaimInv
<1>3. ASSUME NEW r \in Requests, SendFailed(r)
      PROVE  ClaimInv'
  BY <1>3 DEF SendFailed, ClaimInv
<1>4. ASSUME NEW r \in Requests, Return(r)
      PROVE  ClaimInv'
  BY <1>4 DEF Return, ClaimInv
<1>5. ASSUME NEW r \in Requests, SendOK(r) \/ Nudge(r) \/ GiveUp(r) \/ ServerAccepts(r)
      PROVE  ClaimInv'
  BY <1>5, ClaimKept DEF SendOK, Nudge, GiveUp, ChanAfterGivingUp, ServerAccepts
<1>6. ASSUME NEW m \in Msgs, PhoneSends(m)
      PROVE  ClaimInv'
  BY <1>6, ClaimKept DEF PhoneSends
<1>7. ASSUME NEW d \in Readers, NEW m \in Msgs, Receive(d, m) \/ ReceiveGarbled(d, m)
      PROVE  ClaimInv'
  BY <1>7, ClaimKept DEF Receive, ReceiveGarbled
<1>8. ASSUME NEW d \in Readers, Claim(d)
      PROVE  ClaimInv'
  <2>1. PICK r \in Requests : r = msg[d][1] /\ r \in responseWaiters
    BY <1>8 DEF Claim
  <2>2. msg[d] \in Requests \X {"real"}
    <3>1. msg[d] \in sent /\ msg[d] \in Msgs
      BY <1>8 DEF Claim, MsgInv
    <3>2. msg[d][2] = "real"
      BY <1>8, <3>1 DEF Claim, MsgInv, IsResponse
    <3>3. QED
      BY <3>1, <3>2, SessionAssumption DEF Msgs
  <2>3. chan[r] = "empty"
    BY <2>1 DEF ChanInv
  <2>4. \A e \in Readers : rpc[e] = "deliver" => msg[e][1] # r
    BY <2>1 DEF ClaimInv
  <2>5. \A e \in Readers : rpc'[e] = "deliver" => e = d \/ rpc[e] = "deliver"
    BY <1>8 DEF Claim
  <2>6. responseWaiters' = responseWaiters \ {r} /\ UNCHANGED <<chan, msg>>
    BY <1>8, <2>1 DEF Claim, WaitersAfterClaim
  <2>7. QED
    BY <2>1, <2>2, <2>3, <2>4, <2>5, <2>6 DEF ClaimInv
<1>9. ASSUME NEW d \in Readers, Dispatch(d) \/ DeliverPanics(d)
      PROVE  ClaimInv'
  BY <1>9, ClaimKept DEF Dispatch, DeliverPanics
<1>10. ASSUME NEW d \in Readers, Deliver(d)
       PROVE  ClaimInv'
  <2>1. \A e \in Readers : rpc'[e] = "deliver" =>
          e # d /\ rpc[e] = "deliver" /\ msg'[e] = msg[e] /\ msg[e][1] # msg[d][1]
    BY <1>10 DEF Deliver, ClaimInv
  <2>2. \A e \in Readers : rpc'[e] = "deliver" => chan'[msg[e][1]] = chan[msg[e][1]]
    BY <1>10, <2>1 DEF Deliver, ClaimInv
  <2>3. responseWaiters' = responseWaiters
    BY <1>10 DEF Deliver
  <2>4. QED
    BY <2>1, <2>2, <2>3 DEF ClaimInv
<1>11. ASSUME NEW s \in Ackers, AckStep(s)
       PROVE  ClaimInv'
  BY <1>11, ClaimKept DEF AckStep, AckTake, AckSent, AckLost
<1>12. QED
  BY <1>1, <1>2, <1>3, <1>4, <1>5, <1>6, <1>7, <1>8, <1>9, <1>10, <1>11
     DEF Next, CallerStep, ReaderStep

LEMMA CrashStep ==
  ASSUME TypeOK, MsgInv, ChanInv, ClaimInv, CrashOnlyAfterLostReply, [Next]_vars
  PROVE  CrashOnlyAfterLostReply'
<1> USE DEF callVars, phoneVars, readerVars, ackVars
<1>1. CASE UNCHANGED vars
  BY <1>1 DEF vars, CrashOnlyAfterLostReply
<1>2. CASE Next /\ panicked' = panicked
  BY <1>2 DEF Next, CrashOnlyAfterLostReply
<1>3. ASSUME NEW d \in Readers, DeliverPanics(d)
      PROVE  CrashOnlyAfterLostReply'
  <2>1. PICK r \in Requests : r = msg[d][1] /\ msg[d][2] = "real" /\ chan[r] = "closed"
    BY <1>3 DEF DeliverPanics, ClaimInv
  <2>2. call[r] = "failed"
    BY <2>1 DEF ChanInv
  <2>3. r \in accepted
    BY <1>3, <2>1 DEF DeliverPanics, MsgInv
  <2>4. QED
    BY <1>3, <2>2, <2>3 DEF DeliverPanics, CrashOnlyAfterLostReply
<1>4. QED
  BY <1>1, <1>2, <1>3
     DEF Next, CallerStep, ReaderStep, AckStep, SendStart, SendOK, SendFailed, Nudge, Return,
         GiveUp, ServerAccepts, PhoneSends, Receive, ReceiveGarbled, Claim, Dispatch, Deliver,
         AckTake, AckSent, AckLost

LEMMA AckQueueStep ==
  ASSUME TypeOK, AckQueuedOnce, [Next]_vars
  PROVE  AckQueuedOnce'
<1> USE DEF TypeOK, callVars, phoneVars, readerVars, ackVars
<1>1. ASSUME UNCHANGED ackMap
      PROVE  AckQueuedOnce'
  BY <1>1 DEF AckQueuedOnce
<1>2. ASSUME NEW m \in Msgs, ackMap' = Queued(m)
      PROVE  AckQueuedOnce'
  <2>1. CASE InSeq(m, ackMap)
    BY <1>1, <1>2, <2>1 DEF Queued
  <2>2. CASE ~InSeq(m, ackMap)
    <3>1. ackMap' = Append(ackMap, m)
      BY <1>2, <2>2 DEF Queued
    <3>2. \A i \in 1..Len(ackMap) : ackMap[i] # m
      BY <2>2 DEF InSeq
    <3>3. QED
      BY <3>1, <3>2 DEF AckQueuedOnce
  <2>3. QED
    BY <2>1, <2>2
<1>3. ASSUME NEW s \in Ackers, AckTake(s)
      PROVE  AckQueuedOnce'
  BY <1>3 DEF AckTake, AckQueuedOnce
<1>4. QED
  BY <1>1, <1>2, <1>3
     DEF vars, Next, CallerStep, ReaderStep, AckStep, SendStart, SendOK, SendFailed, Nudge, Return,
         GiveUp, ServerAccepts, PhoneSends, Receive, ReceiveGarbled, Claim, Dispatch, Deliver,
         DeliverPanics, AckSent, AckLost
-----------------------------------------------------------------------------
IInv == TypeOK /\ MsgInv /\ ChanInv /\ ClaimInv

LEMMA InitIInv == Init => IInv
<1> SUFFICES ASSUME Init PROVE IInv
  OBVIOUS
<1>1. TypeOK
  BY TypeInit
<1>2. MsgInv
  BY DEF Init, MsgInv
<1>3. ChanInv
  BY DEF Init, ChanInv
<1>4. ClaimInv
  BY DEF Init, ClaimInv
<1>5. QED
  BY <1>1, <1>2, <1>3, <1>4 DEF IInv

(* The session handler keeps its state in shape: maps, channels, readers   *)
(* and ack batches have their types, and the invariants above hold.        *)
THEOREM TypeCorrect == Spec => [](TypeOK /\ IInv)
<1>1. IInv /\ [Next]_vars => IInv'
  BY TypeStep, MsgStep, ChanStep, ClaimStep DEF IInv
<1>2. IInv => TypeOK
  BY DEF IInv
<1>3. QED
  BY <1>1, <1>2, InitIInv, PTL DEF Spec

(* No reader of the long poll ever blocks handing a response over, however *)
(* many streams deliver it (receiveResponse).                              *)
THEOREM ReaderNeverBlocksThm == Spec => []ReaderNeverBlocks
<1>1. IInv => ReaderNeverBlocks
  BY DEF IInv, ClaimInv, ReaderNeverBlocks
<1>2. QED
  BY <1>1, TypeCorrect, PTL

(* A caller of sendMessageWithParams that returns has the real response.   *)
THEOREM AnswerIsRealThm == Spec => []AnswerIsReal
<1>1. IInv => AnswerIsReal
  BY DEF IInv, ChanInv, AnswerIsReal
<1>2. QED
  BY <1>1, TypeCorrect, PTL

(* A send on a closed channel takes a request that the server accepted and *)
(* whose HTTP reply was lost (cancelResponse against receiveResponse).     *)
THEOREM CrashThm == Spec => []CrashOnlyAfterLostReply
<1>1. Init => CrashOnlyAfterLostReply
  BY DEF Init, CrashOnlyAfterLostReply
<1>2. IInv /\ CrashOnlyAfterLostReply /\ [Next]_vars => CrashOnlyAfterLostReply'
  BY CrashStep DEF IInv
<1>3. QED
  BY <1>1, <1>2, TypeCorrect, PTL DEF Spec

(* queueMessageAck never queues an acknowledgement twice.                  *)
THEOREM AckQueuedOnceThm == Spec => []AckQueuedOnce
<1>1. Init => AckQueuedOnce
  BY DEF Init, AckQueuedOnce
<1>2. IInv /\ AckQueuedOnce /\ [Next]_vars => AckQueuedOnce'
  BY AckQueueStep DEF IInv
<1>3. QED
  BY <1>1, <1>2, TypeCorrect, PTL DEF Spec
=============================================================================
