-------------------------- MODULE ResponderProofs --------------------------
(***************************************************************************)
(* What is proved of the responder for every value of the constants.       *)
(***************************************************************************)
EXTENDS Responder, PsnMathProofs, FiniteSetTheorems, SequenceTheorems

-----------------------------------------------------------------------------
(***************************************************************************)
(* The types, in the groups in which the actions set them.                 *)
(***************************************************************************)
Slots == 0 .. (CtxSlots - 1)

GoodCtxs(C) == DOMAIN C \subseteq Slots /\ C \in [DOMAIN C -> BOOLEAN]

\* What a whole call sets before it comes to the end of the request.
CallType == curIdx \in Slots /\ seqPending \in BOOLEAN /\ rposted \in 0 .. MaxRecvs

\* What the message of the request sets.
MessageType ==
  /\ epsn \in Psn /\ openMsg \in {"NONE", "SEND", "WRITE"} /\ done \in Seq(Nat)
  /\ rq \in Nat /\ GoodCtxs(ctxs)

\* What the ends of a request set.
EndType ==
  /\ rqps \in {"RTR", "ERR"} /\ saved \subseteq Psn /\ rnrPending \in BOOLEAN
  /\ rcqes \in Nat /\ rfault \in RFaults

LEMMA TypeSplit == RespTypeOK <=> CallType /\ MessageType /\ EndType
  BY DEF RespTypeOK, CallType, MessageType, EndType, GoodCtxs, Slots

LEMMA TypeJoin ==
  ASSUME CallType', MessageType', EndType'
  PROVE  RespTypeOK'
  BY DEF RespTypeOK, CallType, MessageType, EndType, GoodCtxs, Slots

LEMMA NextIdxType ==
  ASSUME curIdx \in Slots
  PROVE  next_idx \in Slots
  BY ResponderAssumption DEF next_idx, Slots

LEMMA RequestType ==
  ASSUME NEW k \in Request
  PROVE  /\ k.psn \in Psn /\ k.ssn \in Nat /\ k.len \in Nat \ {0}
         /\ k.op \in {"SEND", "WRITE", "WRITE_IMM", "READ", "ATOMIC"}
         /\ k.place \in {"FIRST", "MIDDLE", "LAST", "ONLY"} /\ k.ackreq \in BOOLEAN
  BY DEF Request

-----------------------------------------------------------------------------
(***************************************************************************)
(* The receive WRs that contexts hold, as contexts come and go.            *)
(***************************************************************************)
Held(C) == {i \in DOMAIN C : C[i]}

LEMMA HeldFinite ==
  ASSUME NEW C, GoodCtxs(C)
  PROVE  IsFiniteSet(Held(C)) /\ Cardinality(Held(C)) \in Nat
<1>1. IsFiniteSet(Slots)
  BY ResponderAssumption, FS_Interval DEF Slots
<1>2. Held(C) \in SUBSET Slots
  BY DEF Held, GoodCtxs
<1> QED
  BY <1>1, <1>2, FS_Subset, FS_CardinalityType

\* A new context holds one receive WR more if it has one, ...
LEMMA HeldPut ==
  ASSUME NEW C, GoodCtxs(C), NEW i \in Slots, i \notin DOMAIN C, NEW b \in BOOLEAN
  PROVE  /\ GoodCtxs(Put(C, i, b)) /\ i \in DOMAIN Put(C, i, b) /\ Put(C, i, b)[i] = b
         /\ Cardinality(Held(Put(C, i, b))) = Cardinality(Held(C)) + IF b THEN 1 ELSE 0
<1>1. GoodCtxs(Put(C, i, b)) /\ i \in DOMAIN Put(C, i, b) /\ Put(C, i, b)[i] = b
  BY DEF Put, GoodCtxs
<1>2. Held(Put(C, i, b)) = IF b THEN Held(C) \cup {i} ELSE Held(C)
  BY DEF Put, Held, GoodCtxs
<1>3. i \notin Held(C) /\ IsFiniteSet(Held(C)) /\ Cardinality(Held(C)) \in Nat
  BY HeldFinite DEF Held
<1>4. Cardinality(Held(C) \cup {i}) = Cardinality(Held(C)) + 1
  BY <1>3, FS_AddElement
<1>5. CASE b
  BY <1>1, <1>2, <1>4, <1>5
<1>6. CASE ~b
  BY <1>1, <1>2, <1>3, <1>6
<1> QED
  BY <1>5, <1>6

\* ... and one less is held when it is given back.
LEMMA HeldWithout ==
  ASSUME NEW C, GoodCtxs(C), NEW i \in DOMAIN C
  PROVE  /\ GoodCtxs(Without(C, {i}))
         /\ Cardinality(Held(Without(C, {i}))) = Cardinality(Held(C)) - IF C[i] THEN 1 ELSE 0
<1>1. GoodCtxs(Without(C, {i}))
  BY DEF Without, Only, GoodCtxs
<1>2. Held(Without(C, {i})) = Held(C) \ {i}
  BY DEF Without, Only, Held
<1>3. IsFiniteSet(Held(C)) /\ Cardinality(Held(C)) \in Nat /\ C[i] \in BOOLEAN
  BY HeldFinite DEF GoodCtxs
<1>4. CASE C[i]
  <2>1. i \in Held(C)
    BY <1>4 DEF Held
  <2>2. Cardinality(Held(C) \ {i}) = Cardinality(Held(C)) - 1
    BY <1>3, <2>1, FS_RemoveElement
  <2> QED
    BY <1>1, <1>2, <1>4, <2>2
<1>5. CASE ~C[i]
  <2>1. Held(C) \ {i} = Held(C)
    BY <1>5 DEF Held
  <2>2. Cardinality(Held(Without(C, {i}))) = Cardinality(Held(C))
    BY <1>2, <2>1, Zenon
  <2> QED
    BY <1>1, <1>3, <1>5, <2>2
<1> QED
  BY <1>4, <1>5

-----------------------------------------------------------------------------
(***************************************************************************)
(* The ends of a request keep the types.                                   *)
(***************************************************************************)
LEMMA RaiseType ==
  ASSUME EndType, NEW e \in RFaults, Raise(e)
  PROVE  EndType'
  BY DEF EndType, Raise

LEMMA RnrType ==
  ASSUME EndType, NEW k \in Request, Rnr(k)
  PROVE  EndType'
  BY RequestType DEF EndType, Rnr, RFaults

LEMMA ReplyType ==
  ASSUME EndType, NEW packets, NEW save \in BOOLEAN, Reply(packets, save),
         save => \A p \in packets : p.psn \in Psn, rcqes' \in Nat
  PROVE  EndType'
<1>1. saved' \subseteq Psn
  BY DEF EndType, Reply
<1> QED
  BY <1>1 DEF EndType, Reply

LEMMA RefuseType ==
  ASSUME MessageType, EndType, NEW k \in Request, NEW n \in Nat, NEW C, GoodCtxs(C),
         NEW r \in Nat, Refuse(k, n, C, r)
  PROVE  MessageType' /\ EndType' /\ ~Up'
<1>1. /\ rqps' = "ERR" /\ saved' = saved \cup {k.psn} /\ rq' = 0 /\ ctxs' = EmptyFcn
      /\ rcqes' = rcqes + n + Cardinality(Held(C)) + r
      /\ UNCHANGED <<epsn, openMsg, done, rnrPending, rfault>>
  BY DEF Refuse, Held
<1>2. rcqes' \in Nat
  BY <1>1, HeldFinite DEF EndType
<1>3. GoodCtxs(EmptyFcn)
  BY DEF GoodCtxs, EmptyFcn
<1>4. EndType' /\ ~Up'
  BY <1>1, <1>2, RequestType DEF EndType, Up
<1> QED
  BY <1>1, <1>3, <1>4 DEF MessageType

\* A packet of a send or write, stored or not.
LEMMA StoreType ==
  ASSUME MessageType, EndType, NEW k \in Request, IsMessage(k), NEW C, GoodCtxs(C),
         NEW i, NEW r \in Nat, Store(k, C, i, r)
  PROVE  MessageType' /\ EndType'
<1> DEFINE imm == k.op = "WRITE_IMM" /\ Ends(k)
<1>1. CASE Refuse(k, 1, C, r)
  BY <1>1, RefuseType
<1>2. CASE /\ rq' = r /\ ctxs' = C
           /\ UNCHANGED <<epsn, openMsg, done>>
           /\ Raise("IndexError")
  BY <1>2, RaiseType DEF MessageType, RFaults
<1>3. CASE rq' = r /\ ctxs' = C /\ Rnr(k)
  BY <1>3, RnrType DEF MessageType, Rnr
<1>4. CASE /\ imm => k.place = "ONLY" /\ r > 0
           /\ epsn' = next_psn(epsn)
           /\ openMsg' = IF Ends(k) THEN "NONE" ELSE Kind(k)
           /\ rq' = IF imm THEN r - 1 ELSE r
           /\ ctxs' = IF Ends(k) THEN Without(C, {i}) ELSE C
           /\ done' = IF Ends(k) THEN Append(done, k.ssn) ELSE done
           /\ rcqes' = IF imm \/ (k.op = "SEND" /\ Ends(k)) THEN rcqes + 1 ELSE rcqes
           /\ Reply(IF k.ackreq THEN {Ack(k.psn, "ACK")} ELSE {}, TRUE)
  <2>1. epsn' \in Psn
    BY <1>4, NextPsnType DEF MessageType
  <2>2. openMsg' \in {"NONE", "SEND", "WRITE"}
    BY <1>4 DEF Kind, IsMessage
  <2>3. rq' \in Nat
    BY <1>4
  <2>4. GoodCtxs(ctxs')
    BY <1>4 DEF GoodCtxs, Without, Only
  <2>5. done' \in Seq(Nat)
    BY <1>4, RequestType, AppendProperties DEF MessageType
  <2>6. rcqes' \in Nat
    BY <1>4 DEF EndType
  <2>7. \A p \in IF k.ackreq THEN {Ack(k.psn, "ACK")} ELSE {} : p.psn \in Psn
    BY RequestType DEF Ack, Response
  <2>8. EndType'
    BY <1>4, <2>6, <2>7, ReplyType
  <2> QED
    BY <2>1, <2>2, <2>3, <2>4, <2>5, <2>8 DEF MessageType
<1> QED
  BY <1>1, <1>2, <1>3, <1>4 DEF Store

LEMMA MessageTypes ==
  ASSUME CallType, MessageType, EndType, NEW k \in Request, IsMessage(k), Message(k)
  PROVE  curIdx' \in Slots /\ MessageType' /\ EndType'
<1> DEFINE r == IF k.op = "SEND" THEN rq - 1 ELSE rq
           C == Put(ctxs, next_idx, k.op = "SEND")
<1>1. rq \in Nat /\ GoodCtxs(ctxs) /\ next_idx \in Slots /\ curIdx \in Slots
  BY NextIdxType DEF CallType, MessageType
<1>2. CASE UNCHANGED <<curIdx, rq, ctxs>> /\ Rnr(k)
  BY <1>1, <1>2, RnrType DEF MessageType, Rnr
<1>3. ASSUME r >= 0 PROVE r \in Nat /\ rq - r \in Nat
  BY <1>1, <1>3
<1>4. CASE r >= 0 /\ UNCHANGED curIdx /\ Refuse(k, rq - r, ctxs, r)
  <2> HIDE DEF r
  <2> QED
    BY <1>1, <1>3, <1>4, RefuseType
<1>5. CASE /\ r >= 0 /\ rq' = r
           /\ UNCHANGED <<curIdx, ctxs, epsn, openMsg, done>>
           /\ Raise("AssertionError")
  <2> HIDE DEF r
  <2> QED
    BY <1>1, <1>3, <1>5, RaiseType DEF MessageType, RFaults
<1>6. CASE /\ r >= 0 /\ next_idx \notin DOMAIN ctxs /\ curIdx' = next_idx
           /\ Store(k, C, next_idx, r)
  <2>1. GoodCtxs(C)
    BY <1>1, <1>6, HeldPut
  <2> HIDE DEF r, C
  <2> QED
    BY <1>1, <1>3, <1>6, <2>1, StoreType
<1>7. CASE UNCHANGED curIdx /\ Store(k, ctxs, curIdx, rq)
  BY <1>1, <1>7, StoreType
<1>8. CASE /\ UNCHANGED <<curIdx, rq, ctxs, epsn, openMsg, done>>
           /\ Raise("AssertionError")
  BY <1>1, <1>8, RaiseType DEF MessageType, RFaults
<1> QED
  BY <1>2, <1>4, <1>5, <1>6, <1>7, <1>8 DEF Message

LEMMA AnswerTypes ==
  ASSUME CallType, MessageType, EndType, NEW k \in Request, NEW packets, NEW save \in BOOLEAN,
         save => \A p \in packets : p.psn \in Psn, Answer(k, packets, save)
  PROVE  curIdx' \in Slots /\ MessageType' /\ EndType'
<1>1. rq \in Nat /\ GoodCtxs(ctxs) /\ next_idx \in Slots /\ curIdx \in Slots
  BY NextIdxType DEF CallType, MessageType
<1>2. CASE UNCHANGED curIdx /\ Refuse(k, 0, ctxs, rq)
  BY <1>1, <1>2, RefuseType
<1>3. CASE /\ UNCHANGED <<curIdx, rq, ctxs, epsn, openMsg, done>>
           /\ Raise("AssertionError")
  BY <1>1, <1>3, RaiseType DEF MessageType, RFaults
<1>4. CASE /\ curIdx' = next_idx
           /\ UNCHANGED <<rq, ctxs, rcqes>>
           /\ Reply(packets, save)
           /\ IF k.psn = epsn
                THEN /\ epsn' = (epsn + k.len) % MAX_PSN
                     /\ openMsg' = "NONE" /\ done' = Append(done, k.ssn)
                ELSE UNCHANGED <<epsn, openMsg, done>>
  <2>1. EndType'
    BY <1>4, ReplyType DEF EndType
  <2>2. epsn' \in Psn /\ openMsg' \in {"NONE", "SEND", "WRITE"} /\ done' \in Seq(Nat)
    <3>1. (epsn + k.len) % MAX_PSN \in Psn
      BY RequestType, MaxPsnAssumption DEF MessageType, Psn
    <3>2. Append(done, k.ssn) \in Seq(Nat)
      BY RequestType, AppendProperties DEF MessageType
    <3> QED
      BY <1>4, <3>1, <3>2 DEF MessageType
  <2> QED
    BY <1>1, <1>4, <2>1, <2>2 DEF MessageType
<1> QED
  BY <1>2, <1>3, <1>4 DEF Answer

\* The four ways a request is received.
LEMMA RecvTypes ==
  ASSUME RespTypeOK, NEW k \in Request, RecvRequest(k)
  PROVE  RespTypeOK'
<1>0. CallType /\ MessageType /\ EndType
  BY TypeSplit
<1>1. CASE RecvExpected(k)
  <2>1. rposted' = rposted
    BY <1>1 DEF RecvExpected
  <2>2. CASE /\ UNCHANGED <<seqPending, curIdx, rq, ctxs, epsn, openMsg, done>>
             /\ Raise("AssertionError")
    <3>1. EndType'
      BY <1>0, <2>2, RaiseType DEF RFaults
    <3>2. CallType' /\ MessageType'
      BY <1>0, <2>1, <2>2 DEF CallType, MessageType
    <3> QED
      BY <3>1, <3>2, TypeJoin
  <2>3. CASE seqPending' = FALSE /\ IsMessage(k) /\ Message(k)
    <3>1. curIdx' \in Slots /\ MessageType' /\ EndType'
      BY <1>0, <2>3, MessageTypes
    <3> QED
      BY <1>0, <2>1, <2>3, <3>1, TypeJoin DEF CallType
  <2>4. CASE seqPending' = FALSE /\ Answer(k, ReadResponses(k), FALSE)
    <3>1. curIdx' \in Slots /\ MessageType' /\ EndType'
      BY <1>0, <2>4, AnswerTypes
    <3> QED
      BY <1>0, <2>1, <2>4, <3>1, TypeJoin DEF CallType
  <2>5. CASE seqPending' = FALSE /\ Answer(k, {Response("ATOMIC_ACK", k.psn, "ACK")}, TRUE)
    <3>1. \A p \in {Response("ATOMIC_ACK", k.psn, "ACK")} : p.psn \in Psn
      BY RequestType DEF Response
    <3>2. curIdx' \in Slots /\ MessageType' /\ EndType'
      BY <1>0, <2>5, <3>1, AnswerTypes
    <3> QED
      BY <1>0, <2>1, <2>5, <3>2, TypeJoin DEF CallType
  <2> QED
    BY <1>1, <2>2, <2>3, <2>4, <2>5 DEF RecvExpected
<1>2. CASE RecvDuplicate(k)
  <2>1. seqPending' = seqPending /\ rposted' = rposted
    BY <1>2 DEF RecvDuplicate
  <2>2. CASE Answer(k, ReadResponses(k), FALSE)
    <3>1. curIdx' \in Slots /\ MessageType' /\ EndType'
      BY <1>0, <2>2, AnswerTypes
    <3> QED
      BY <1>0, <2>1, <3>1, TypeJoin DEF CallType
  <2>3. CASE /\ UNCHANGED <<curIdx, rq, ctxs, epsn, openMsg, done>>
             /\ \/ Reply({SavedAgain(k)}, FALSE) /\ UNCHANGED rcqes
                \/ Raise("KeyError")
    <3>1. CallType' /\ MessageType'
      BY <1>0, <2>1, <2>3 DEF CallType, MessageType
    <3>2. EndType'
      <4>1. CASE Reply({SavedAgain(k)}, FALSE) /\ UNCHANGED rcqes
        BY <1>0, <4>1, ReplyType DEF EndType
      <4>2. CASE Raise("KeyError")
        BY <1>0, <4>2, RaiseType DEF RFaults
      <4> QED
        BY <2>3, <4>1, <4>2
    <3> QED
      BY <3>1, <3>2, TypeJoin
  <2> QED
    BY <1>2, <2>2, <2>3 DEF RecvDuplicate
<1>3. CASE RecvFuture(k)
  <2> DEFINE packets == IF seqPending \/ rnrPending THEN {} ELSE {Ack(epsn, "NAK_SEQ")}
  <2>1. CallType' /\ MessageType'
    BY <1>0, <1>3 DEF CallType, MessageType, EndType, RecvFuture
  <2>2. \A p \in packets : p.psn \in Psn
    BY <1>0 DEF Ack, Response, MessageType
  <2>3. rcqes' \in Nat /\ Reply(packets, TRUE)
    BY <1>0, <1>3 DEF EndType, RecvFuture
  <2> HIDE DEF packets
  <2>4. EndType'
    BY <1>0, <2>2, <2>3, ReplyType
  <2> QED
    BY <2>1, <2>4, TypeJoin
<1>4. CASE RecvInError(k)
  <2>1. EndType'
    BY <1>0, <1>4, RaiseType DEF RecvInError, RFaults
  <2>2. CallType' /\ MessageType'
    BY <1>0, <1>4 DEF CallType, MessageType, RecvInError
  <2> QED
    BY <2>1, <2>2, TypeJoin
<1> QED
  BY <1>1, <1>2, <1>3, <1>4 DEF RecvRequest

LEMMA InitTypes == RespInit => RespTypeOK
<1> SUFFICES ASSUME RespInit PROVE RespTypeOK
  OBVIOUS
<1>1. GoodCtxs(EmptyFcn)
  BY DEF GoodCtxs, EmptyFcn
<1>2. /\ curIdx = 0 /\ rposted = 0 /\ rq = 0 /\ rcqes = 0 /\ done = <<>>
      /\ epsn = RespInitPsn /\ openMsg = "NONE" /\ ctxs = EmptyFcn
      /\ rqps = "RTR" /\ saved = {} /\ rfault = "none"
      /\ seqPending \in BOOLEAN /\ rnrPending \in BOOLEAN
  BY Zenon DEF RespInit
<1>3. CallType
  BY <1>2, ResponderAssumption DEF CallType, Slots
<1>4. MessageType
  BY <1>1, <1>2, ResponderAssumption DEF MessageType
<1>5. EndType
  BY <1>2 DEF EndType, RFaults
<1> QED
  BY <1>3, <1>4, <1>5, TypeSplit

LEMMA NextTypes == RespTypeOK /\ [RespNext]_rvars => RespTypeOK'
<1> SUFFICES ASSUME RespTypeOK, [RespNext]_rvars PROVE RespTypeOK'
  OBVIOUS
<1>1. CASE PostRecv
  BY <1>1, ResponderAssumption DEF PostRecv, RespTypeOK
<1>2. CASE RnrTimeout
  BY <1>2 DEF RnrTimeout, RespTypeOK
<1>3. ASSUME NEW k \in Request, RecvRequest(k) PROVE RespTypeOK'
  BY <1>3, RecvTypes
<1>4. CASE UNCHANGED rvars
  BY <1>4 DEF rvars, RespTypeOK
<1> QED
  BY <1>1, <1>2, <1>3, <1>4, ResponderAssumption DEF RespNext

-----------------------------------------------------------------------------
(***************************************************************************)
(* The responder keeps to its types, however many slots, receive WRs and   *)
(* requests: ePSN stays reduced, contexts lie in slots, and the count of   *)
(* posted receive WRs never goes below zero.                               *)
(***************************************************************************)
THEOREM RespTypeCorrect == RespSpec => []RespTypeOK
  BY InitTypes, NextTypes, PTL DEF RespSpec

-----------------------------------------------------------------------------
(***************************************************************************)
(* Where the receive work requests are.  RecvConservation alone is not     *)
(* inductive: the last packet of a message gives the slot of cur_req_idx   *)
(* back, and whether that frees a receive WR must follow from the kind of  *)
(* the message.  A duplicate read moves cur_req_idx on in the middle of a  *)
(* message, but only to a slot without a context.                          *)
(***************************************************************************)
ContextMatches ==
  Up /\ openMsg # "NONE" /\ curIdx \in DOMAIN ctxs => ctxs[curIdx] = (openMsg = "SEND")

RecvInv == RespTypeOK /\ ContextMatches /\ RecvConservation

\* What a packet stored in context i leaves, if the queue pair still works.
LEMMA StoreKeeps ==
  ASSUME MessageType, EndType, Up, NEW k \in Request, IsMessage(k), LegalOrder(k),
         NEW C, GoodCtxs(C), NEW i \in DOMAIN C, C[i] = (k.op = "SEND"), NEW r \in Nat,
         rposted = r + rcqes + Cardinality(Held(C)), rposted' = rposted, Store(k, C, i, r), Up'
  PROVE  /\ rposted' = rq' + rcqes' + Cardinality(Held(ctxs'))
         /\ openMsg' = "NONE" \/ (openMsg' = Kind(k) /\ ctxs' = C)
<1> DEFINE imm == k.op = "WRITE_IMM" /\ Ends(k)
<1>0. rcqes \in Nat /\ Cardinality(Held(C)) \in Nat /\ rposted = r + rcqes + Cardinality(Held(C))
  BY HeldFinite DEF EndType
<1>1. CASE Refuse(k, 1, C, r)
  BY <1>1, RefuseType
<1>2. CASE Raise("IndexError")
  BY <1>2 DEF Raise, Up
<1>3. CASE k.place = "ONLY" /\ rq' = r /\ ctxs' = C /\ Rnr(k)
  BY <1>0, <1>3 DEF Rnr, LegalOrder, Begins
<1>4. CASE /\ imm => k.place = "ONLY" /\ r > 0
           /\ epsn' = next_psn(epsn)
           /\ openMsg' = IF Ends(k) THEN "NONE" ELSE Kind(k)
           /\ rq' = IF imm THEN r - 1 ELSE r
           /\ ctxs' = IF Ends(k) THEN Without(C, {i}) ELSE C
           /\ done' = IF Ends(k) THEN Append(done, k.ssn) ELSE done
           /\ rcqes' = IF imm \/ (k.op = "SEND" /\ Ends(k)) THEN rcqes + 1 ELSE rcqes
           /\ Reply(IF k.ackreq THEN {Ack(k.psn, "ACK")} ELSE {}, TRUE)
  <2>1. CASE ~Ends(k)
    BY <1>0, <1>4, <2>1
  <2>2. CASE Ends(k) /\ k.op = "SEND"
    <3>1. C[i]
      BY <2>2
    <3>2. Cardinality(Held(ctxs')) = Cardinality(Held(C)) - 1
      BY <1>4, <2>2, <3>1, HeldWithout
    <3>3. rq' = r /\ rcqes' = rcqes + 1 /\ openMsg' = "NONE"
      BY <1>4, <2>2
    <3> QED
      BY <1>0, <3>2, <3>3
  <2>3. CASE Ends(k) /\ k.op # "SEND"
    <3>1. ~C[i]
      BY <2>3
    <3>2. Cardinality(Held(ctxs')) = Cardinality(Held(C))
      BY <1>0, <1>4, <2>3, <3>1, HeldWithout
    <3>3. openMsg' = "NONE" /\ rq' + rcqes' = r + rcqes
      BY <1>0, <1>4, <2>3
    <3>4. rq' \in Nat /\ rcqes' \in Nat
      BY <1>0, <1>4, <2>3
    <3> QED
      BY <1>0, <3>2, <3>3, <3>4
  <2> QED
    BY <2>1, <2>2, <2>3
<1> QED
  BY <1>1, <1>2, <1>3, <1>4 DEF Store

LEMMA MessageKeeps ==
  ASSUME RecvInv, Up, NEW k \in Request, IsMessage(k), LegalOrder(k), rposted' = rposted,
         Message(k), Up'
  PROVE  ContextMatches' /\ RecvConservation'
<1> DEFINE r == IF k.op = "SEND" THEN rq - 1 ELSE rq
           C == Put(ctxs, next_idx, k.op = "SEND")
<1>0. CallType /\ MessageType /\ EndType /\ ContextMatches
  BY TypeSplit DEF RecvInv
<1>1. /\ rq \in Nat /\ rcqes \in Nat /\ GoodCtxs(ctxs) /\ next_idx \in Slots
      /\ Cardinality(Held(ctxs)) \in Nat
  BY <1>0, NextIdxType, HeldFinite DEF CallType, MessageType, EndType
<1>2. rposted = rq + rcqes + Cardinality(Held(ctxs))
  BY DEF RecvInv, RecvConservation, Held
<1>3. RecvConservation' <=> rposted' = rq' + rcqes' + Cardinality(Held(ctxs'))
  BY DEF RecvConservation, Held
<1>4. CASE k.op = "SEND" /\ Begins(k) /\ UNCHANGED <<curIdx, rq, ctxs>> /\ Rnr(k)
  <2>1. openMsg' = openMsg /\ rcqes' = rcqes /\ openMsg = "NONE"
    BY <1>4 DEF Rnr, LegalOrder
  <2> QED
    BY <1>1, <1>2, <1>3, <1>4, <2>1 DEF ContextMatches
<1>5. ASSUME r >= 0, Refuse(k, rq - r, ctxs, r) PROVE FALSE
  <2>1. r \in Nat /\ rq - r \in Nat
    BY <1>1, <1>5
  <2> HIDE DEF r
  <2> QED
    BY <1>0, <1>1, <1>5, <2>1, RefuseType
<1>6. ASSUME Raise("AssertionError") PROVE FALSE
  BY <1>6 DEF Raise, Up
<1>7. CASE /\ r >= 0 /\ next_idx \notin DOMAIN ctxs /\ curIdx' = next_idx
           /\ Store(k, C, next_idx, r)
  <2>1. /\ GoodCtxs(C) /\ next_idx \in DOMAIN C /\ C[next_idx] = (k.op = "SEND")
        /\ Cardinality(Held(C)) = Cardinality(Held(ctxs)) + IF k.op = "SEND" THEN 1 ELSE 0
    BY <1>1, <1>7, HeldPut
  <2>2. r \in Nat /\ rposted = r + rcqes + Cardinality(Held(C))
    <3>1. CASE k.op = "SEND"
      BY <1>1, <1>2, <1>7, <2>1, <3>1
    <3>2. CASE k.op # "SEND"
      BY <1>1, <1>2, <1>7, <2>1, <3>2
    <3> QED
      BY <3>1, <3>2
  <2>3. /\ rposted' = rq' + rcqes' + Cardinality(Held(ctxs'))
        /\ openMsg' = "NONE" \/ (openMsg' = Kind(k) /\ ctxs' = C)
    <3> HIDE DEF C, r
    <3> QED
      BY <1>0, <1>7, <2>1, <2>2, StoreKeeps
  <2>4. (Kind(k) = "SEND") <=> (k.op = "SEND")
    BY DEF Kind, IsMessage
  <2>5. ContextMatches'
    <3> HIDE DEF C
    <3> QED
      BY <1>7, <2>1, <2>3, <2>4 DEF ContextMatches
  <2> QED
    BY <1>3, <2>3, <2>5
<1>8. CASE ~Begins(k) /\ curIdx \in DOMAIN ctxs /\ UNCHANGED curIdx /\ Store(k, ctxs, curIdx, rq)
  <2>1. Kind(k) = openMsg /\ openMsg # "NONE"
    BY <1>8 DEF LegalOrder
  <2>2. (openMsg = "SEND") <=> (k.op = "SEND")
    BY <2>1 DEF Kind, IsMessage
  <2>3. ctxs[curIdx] = (openMsg = "SEND")
    BY <1>0, <1>8, <2>1 DEF ContextMatches
  <2>4. ctxs[curIdx] = (k.op = "SEND")
    BY <2>2, <2>3, Zenon
  <2>5. /\ rposted' = rq' + rcqes' + Cardinality(Held(ctxs'))
        /\ openMsg' = "NONE" \/ (openMsg' = Kind(k) /\ ctxs' = ctxs)
    BY <1>0, <1>1, <1>2, <1>8, <2>4, StoreKeeps
  <2>6. ContextMatches'
    BY <1>8, <2>1, <2>3, <2>5 DEF ContextMatches
  <2> QED
    BY <1>3, <2>5, <2>6
<1> QED
  BY <1>4, <1>5, <1>6, <1>7, <1>8 DEF Message

LEMMA AnswerKeeps ==
  ASSUME RecvInv, Up, NEW k \in Request, NEW packets, NEW save, rposted' = rposted,
         k.psn = epsn \/ UNCHANGED openMsg, Answer(k, packets, save), Up'
  PROVE  ContextMatches' /\ RecvConservation'
<1>0. CallType /\ MessageType /\ EndType /\ ContextMatches
  BY TypeSplit DEF RecvInv
<1>1. ASSUME Refuse(k, 0, ctxs, rq) PROVE FALSE
  BY <1>0, <1>1, RefuseType DEF MessageType
<1>2. ASSUME Raise("AssertionError") PROVE FALSE
  BY <1>2 DEF Raise, Up
<1>3. CASE /\ next_idx \notin DOMAIN ctxs /\ curIdx' = next_idx
           /\ UNCHANGED <<rq, ctxs, rcqes>>
  BY <1>3 DEF RecvInv, RecvConservation, ContextMatches
<1> QED
  BY <1>1, <1>2, <1>3 DEF Answer

LEMMA RecvKeeps ==
  ASSUME RecvInv, NEW k \in Request, RecvRequest(k)
  PROVE  ContextMatches' /\ RecvConservation'
<1> SUFFICES ASSUME Up' PROVE ContextMatches' /\ RecvConservation'
  BY DEF ContextMatches, RecvConservation
<1>0. ASSUME NEW e, Raise(e), e # "none" PROVE FALSE
  BY <1>0 DEF Raise, Up
<1>1. CASE RecvExpected(k)
  <2>1. Up /\ rposted' = rposted /\ k.psn = epsn
    BY <1>1 DEF RecvExpected, IsExpected
  <2>2. CASE LegalOrder(k) /\ IsMessage(k) /\ Message(k)
    BY <2>1, <2>2, MessageKeeps
  <2>3. CASE Answer(k, ReadResponses(k), FALSE)
    BY <2>1, <2>3, AnswerKeeps
  <2>4. CASE Answer(k, {Response("ATOMIC_ACK", k.psn, "ACK")}, TRUE)
    BY <2>1, <2>4, AnswerKeeps
  <2> QED
    BY <1>0, <1>1, <2>2, <2>3, <2>4 DEF RecvExpected
<1>2. CASE RecvDuplicate(k)
  <2>1. Up /\ rposted' = rposted
    BY <1>2 DEF RecvDuplicate
  <2>2. CASE Answer(k, ReadResponses(k), FALSE)
    <3>1. ASSUME Refuse(k, 0, ctxs, rq) PROVE FALSE
      BY <3>1 DEF Refuse, Up
    <3>2. ASSUME Raise("AssertionError") PROVE FALSE
      BY <1>0, <3>2
    <3>3. k.psn = epsn \/ UNCHANGED openMsg
      BY <2>2, <3>1, <3>2 DEF Answer
    <3> QED
      BY <2>1, <2>2, <3>3, AnswerKeeps
  <2>3. CASE UNCHANGED <<curIdx, rq, ctxs, openMsg, rcqes>>
    BY <2>1, <2>3 DEF RecvInv, RecvConservation, ContextMatches
  <2> QED
    BY <1>0, <1>2, <2>2, <2>3 DEF RecvDuplicate
<1>3. CASE RecvFuture(k)
  BY <1>3 DEF RecvFuture, RecvInv, RecvConservation, ContextMatches
<1>4. CASE RecvInError(k)
  BY <1>0, <1>4 DEF RecvInError
<1> QED
  BY <1>1, <1>2, <1>3, <1>4 DEF RecvRequest

LEMMA InitRecvs == RespInit => ContextMatches /\ RecvConservation
<1> SUFFICES ASSUME RespInit PROVE ContextMatches /\ RecvConservation
  OBVIOUS
<1>1. Held(EmptyFcn) = {}
  BY DEF Held, EmptyFcn
<1>2. Cardinality(Held(ctxs)) = 0
  BY <1>1, FS_EmptySet DEF RespInit
<1> QED
  BY <1>2 DEF RespInit, ContextMatches, RecvConservation, Held

LEMMA NextRecvs == RecvInv /\ [RespNext]_rvars => RecvInv'
<1> SUFFICES ASSUME RecvInv, [RespNext]_rvars PROVE RecvInv'
  OBVIOUS
<1>1. RespTypeOK /\ RespTypeOK'
  BY NextTypes DEF RecvInv
<1>2. CASE PostRecv
  <2>1. /\ rq' = rq + 1 /\ rposted' = rposted + 1
        /\ UNCHANGED <<rqps, rfault, openMsg, curIdx, ctxs, rcqes>>
    BY <1>2 DEF PostRecv
  <2>2. rq \in Nat /\ rcqes \in Nat /\ Cardinality(Held(ctxs)) \in Nat
    BY <1>1, TypeSplit, HeldFinite DEF MessageType, EndType
  <2>3. ContextMatches' /\ RecvConservation'
    BY <2>1, <2>2 DEF RecvInv, ContextMatches, RecvConservation, Up, Held
  <2> QED
    BY <1>1, <2>3 DEF RecvInv
<1>3. CASE RnrTimeout
  BY <1>1, <1>3 DEF RnrTimeout, RecvInv, ContextMatches, RecvConservation, Up
<1>4. ASSUME NEW k \in Request, RecvRequest(k) PROVE RecvInv'
  BY <1>1, <1>4, RecvKeeps DEF RecvInv
<1>5. CASE UNCHANGED rvars
  BY <1>1, <1>5 DEF rvars, RecvInv, ContextMatches, RecvConservation, Up
<1> QED
  BY <1>2, <1>3, <1>4, <1>5, ResponderAssumption DEF RespNext

(***************************************************************************)
(* No receive work request is lost or completed twice while the queue pair *)
(* works: for every number of slots and of posted receives, and for any    *)
(* packets, however often and in whatever order they arrive.               *)
(***************************************************************************)
THEOREM ReceivesConserved == RespSpec => []RecvConservation
<1>1. RespInit => RecvInv
  BY InitTypes, InitRecvs DEF RecvInv
<1>2. RecvInv => RecvConservation
  BY DEF RecvInv
<1> QED
  BY <1>1, <1>2, NextRecvs, PTL DEF RespSpec

-----------------------------------------------------------------------------
(***************************************************************************)
(* The retry NAKs.                                                         *)
(***************************************************************************)
RetryNaksApart ==
  \A p \in out' :
    /\ p.aeth = "NAK_SEQ" => ~seqPending /\ ~rnrPending /\ seqPending'
    /\ p.aeth = "RNR" => ~rnrPending /\ rnrPending'

\* Packets that ask for no retry.
Harmless(packets) == \A p \in packets : p.aeth \notin {"NAK_SEQ", "RNR"}

LEMMA HarmlessApart ==
  ASSUME NEW packets, Harmless(packets), out' = packets
  PROVE  RetryNaksApart
  BY DEF Harmless, RetryNaksApart

LEMMA RaiseApart ==
  ASSUME NEW e, Raise(e)
  PROVE  RetryNaksApart
  BY DEF Raise, RetryNaksApart

LEMMA RnrApart ==
  ASSUME NEW k, Rnr(k)
  PROVE  RetryNaksApart
<1>1. CASE rnrPending
  BY <1>1 DEF Rnr, RetryNaksApart
<1>2. CASE ~rnrPending
  <2>1. out' = {Ack(k.psn, "RNR")} /\ rnrPending'
    BY <1>2, Zenon DEF Rnr
  <2>2. \A p \in out' : p.aeth = "RNR"
    BY <2>1 DEF Ack, Response
  <2> QED
    BY <1>2, <2>1, <2>2 DEF RetryNaksApart
<1> QED
  BY <1>1, <1>2

LEMMA RefuseApart ==
  ASSUME NEW k, NEW n, NEW C, NEW r, Refuse(k, n, C, r)
  PROVE  RetryNaksApart
<1>1. PICK status \in Refusals : out' = {Ack(k.psn, status)}
  BY DEF Refuse
<1>2. status \notin {"NAK_SEQ", "RNR"}
  BY ResponderAssumption
<1>3. Harmless({Ack(k.psn, status)})
  BY <1>2 DEF Harmless, Ack, Response
<1> QED
  BY <1>1, <1>3, HarmlessApart

LEMMA ReplyApart ==
  ASSUME NEW packets, NEW save, Harmless(packets), Reply(packets, save)
  PROVE  RetryNaksApart
  BY HarmlessApart DEF Reply

LEMMA AnswersHarmless ==
  ASSUME NEW k
  PROVE  /\ Harmless(ReadResponses(k))
         /\ Harmless({Response("ATOMIC_ACK", k.psn, "ACK")})
         /\ Harmless(IF k.ackreq THEN {Ack(k.psn, "ACK")} ELSE {})
         /\ Harmless({SavedAgain(k)})
  BY DEF Harmless, ReadResponses, Response, Ack, SavedAgain

LEMMA StoreApart ==
  ASSUME NEW k, NEW C, NEW i, NEW r, Store(k, C, i, r)
  PROVE  RetryNaksApart
  BY RaiseApart, RnrApart, RefuseApart, ReplyApart, AnswersHarmless DEF Store

LEMMA MessageApart ==
  ASSUME NEW k, Message(k)
  PROVE  RetryNaksApart
  BY RaiseApart, RnrApart, RefuseApart, StoreApart DEF Message

LEMMA AnswerApart ==
  ASSUME NEW k, NEW packets, NEW save, Harmless(packets), Answer(k, packets, save)
  PROVE  RetryNaksApart
  BY RaiseApart, RefuseApart, ReplyApart DEF Answer

LEMMA FutureApart ==
  ASSUME NEW k, RecvFuture(k)
  PROVE  RetryNaksApart
<1>1. CASE seqPending \/ rnrPending
  BY <1>1 DEF RecvFuture, Reply, RetryNaksApart
<1>2. CASE ~(seqPending \/ rnrPending)
  <2>1. out' = {Ack(epsn, "NAK_SEQ")} /\ seqPending'
    BY <1>2, Zenon DEF RecvFuture, Reply
  <2>2. \A p \in out' : p.aeth = "NAK_SEQ"
    BY <2>1 DEF Ack, Response
  <2> QED
    BY <1>2, <2>1, <2>2 DEF RetryNaksApart
<1> QED
  BY <1>1, <1>2

LEMMA NextApart == RespNext => RetryNaksApart
<1>1. ASSUME NEW k \in Request, RecvRequest(k) PROVE RetryNaksApart
  <2>1. CASE RecvExpected(k)
    BY <2>1, RaiseApart, MessageApart, AnswerApart, AnswersHarmless DEF RecvExpected
  <2>2. CASE RecvDuplicate(k)
    BY <2>2, RaiseApart, AnswerApart, ReplyApart, AnswersHarmless DEF RecvDuplicate
  <2>3. CASE RecvFuture(k)
    BY <2>3, FutureApart
  <2>4. CASE RecvInError(k)
    BY <2>4, RaiseApart DEF RecvInError
  <2> QED
    BY <1>1, <2>1, <2>2, <2>3, <2>4 DEF RecvRequest
<1>2. PostRecv \/ RnrTimeout => RetryNaksApart
  BY DEF PostRecv, RnrTimeout, RetryNaksApart
<1> QED
  BY <1>1, <1>2, ResponderAssumption DEF RespNext

(***************************************************************************)
(* The responder never asks for a second retry while it waits for the      *)
(* first: in every step of every behaviour, no sequence NAK goes out while *)
(* one is pending or the RNR wait runs, and no RNR NAK within the wait.    *)
(***************************************************************************)
THEOREM RetryNaksAreSingle == RespSpec => OneRetryNakPending
<1>1. [RespNext]_rvars => [RetryNaksApart]_rvars
  BY NextApart
<1>2. [][RespNext]_rvars => [][RetryNaksApart]_rvars
  BY <1>1, PTL
<1> QED
  BY <1>2 DEF RespSpec, OneRetryNakPending, RetryNaksApart

-----------------------------------------------------------------------------
(***************************************************************************)
(* Distances from the first PSN.                                           *)
(***************************************************************************)
LEMMA OffsetCases ==
  ASSUME NEW x \in Psn
  PROVE  /\ Offset(x) = IF RespInitPsn <= x THEN x - RespInitPsn ELSE x - RespInitPsn + MAX_PSN
         /\ Offset(x) \in Nat /\ Offset(x) < MAX_PSN
  BY RangeLenCases, ResponderAssumption, MaxPsnAssumption DEF Offset, Psn

LEMMA OffsetInjective ==
  ASSUME NEW x \in Psn, NEW y \in Psn, Offset(x) = Offset(y)
  PROVE  x = y
  BY OffsetCases, ResponderAssumption, MaxPsnAssumption DEF Psn

LEMMA OffsetPlus ==
  ASSUME NEW x \in Psn, NEW m \in Nat, Offset(x) + m < MAX_PSN
  PROVE  (x + m) % MAX_PSN \in Psn /\ Offset((x + m) % MAX_PSN) = Offset(x) + m
<1>0. MAX_PSN \in Nat /\ MAX_PSN > 0 /\ x \in Int /\ x + m \in Int /\ 0 <= x + m /\ x < MAX_PSN
  BY MaxPsnAssumption DEF Psn
<1>1. RespInitPsn \in Int /\ 0 <= RespInitPsn /\ RespInitPsn < MAX_PSN
  BY ResponderAssumption, MaxPsnAssumption DEF Psn
<1>2. Offset(x) = IF RespInitPsn <= x THEN x - RespInitPsn ELSE x - RespInitPsn + MAX_PSN
  BY OffsetCases
<1>3. (x + m) % MAX_PSN = IF x + m < MAX_PSN THEN x + m ELSE x + m - MAX_PSN
  <2>1. CASE x + m < MAX_PSN
    BY <1>0, <2>1, ModLow
  <2>2. CASE ~(x + m < MAX_PSN)
    <3>1. MAX_PSN <= x + m /\ x + m < 2 * MAX_PSN
      BY <1>0, <1>1, <1>2, <2>2
    <3> QED
      BY <1>0, <2>2, <3>1, ModHigh
  <2> QED
    BY <2>1, <2>2
<1>4. (x + m) % MAX_PSN \in Psn
  BY <1>0, <1>1, <1>2, <1>3 DEF Psn
<1> DEFINE y == (x + m) % MAX_PSN
<1>5. Offset(y) = IF RespInitPsn <= y THEN y - RespInitPsn ELSE y - RespInitPsn + MAX_PSN
  BY <1>4, OffsetCases
<1>6. y = IF x + m < MAX_PSN THEN x + m ELSE x + m - MAX_PSN
  BY <1>3
<1> HIDE DEF y
<1>7. Offset(y) = Offset(x) + m
  BY <1>0, <1>1, <1>2, <1>5, <1>6
<1> QED
  BY <1>4, <1>7 DEF y

\* What psn_compare takes to be behind lies behind, unless it is half of the
\* space ahead.
LEMMA CompareOffsets ==
  ASSUME NEW x \in Psn, NEW y \in Psn, Offset(y) < Offset(x) + HALF
  PROVE  psn_compare(x, y, x) > 0 => Offset(y) < Offset(x)
<1>1. /\ x \in Int /\ y \in Int /\ 0 <= x /\ x < MAX_PSN /\ 0 <= y /\ y < MAX_PSN
      /\ RespInitPsn \in Int /\ 0 <= RespInitPsn /\ RespInitPsn < MAX_PSN
  BY ResponderAssumption, MaxPsnAssumption DEF Psn
<1>2. /\ HALF \in Nat /\ MAX_PSN = HALF + HALF /\ HALF >= 2
      /\ oldest_psn(x) = IF HALF <= x THEN x - HALF ELSE x + HALF
  BY OldestCases
<1>3. /\ Offset(x) = IF RespInitPsn <= x THEN x - RespInitPsn ELSE x - RespInitPsn + MAX_PSN
      /\ Offset(y) = IF RespInitPsn <= y THEN y - RespInitPsn ELSE y - RespInitPsn + MAX_PSN
  BY OffsetCases
<1> QED
  BY <1>1, <1>2, <1>3 DEF psn_compare

-----------------------------------------------------------------------------
(***************************************************************************)
(* What receiving a request does to the state that execution is about:     *)
(* nothing, or the one step of the request that is expected.               *)
(***************************************************************************)
Stays == UNCHANGED <<epsn, openMsg, done>> /\ saved \subseteq saved'

Executes(k) ==
  \/ /\ IsMessage(k)
     /\ epsn' = next_psn(epsn)
     /\ openMsg' = IF Ends(k) THEN "NONE" ELSE Kind(k)
     /\ done' = IF Ends(k) THEN Append(done, k.ssn) ELSE done
     /\ saved' = saved \cup IF k.ackreq THEN {k.psn} ELSE {}
  \/ /\ ~IsMessage(k)
     /\ epsn' = (epsn + k.len) % MAX_PSN
     /\ openMsg' = "NONE" /\ done' = Append(done, k.ssn)
     /\ saved' = saved \cup IF k.op = "ATOMIC" THEN {k.psn} ELSE {}

\* What goes out with either: nothing, a NAK, or the answer.
Naks(p) == out' = {} \/ \E c \in {"RNR", "NAK_SEQ"} \cup Refusals : out' = {Ack(p, c)}

AnswerTo(k) ==
  IF IsMessage(k) THEN {Ack(k.psn, "ACK")}
  ELSE IF k.op = "READ" THEN ReadResponses(k)
  ELSE {Response("ATOMIC_ACK", k.psn, "ACK")}

Answered(k) == out' \subseteq AnswerTo(k)

\* What a duplicate gets: the answer to a read, or the saved response wrapped up.
AnsweredAgain(k) ==
  \/ k.op = "READ" /\ out' = ReadResponses(k)
  \/ out' = {SavedAgain(k)}

Behind(k) == psn_compare(epsn, k.psn, epsn) > 0

LEMMA RaiseStays ==
  ASSUME UNCHANGED <<epsn, openMsg, done>>, NEW p, NEW e, Raise(e)
  PROVE  Stays /\ Naks(p)
  BY DEF Stays, Raise, Naks

LEMMA RnrStays ==
  ASSUME NEW k, Rnr(k)
  PROVE  Stays /\ Naks(k.psn)
<1>1. Stays
  BY DEF Stays, Rnr
<1>2. CASE rnrPending
  BY <1>1, <1>2 DEF Rnr, Naks
<1>3. CASE ~rnrPending
  BY <1>1, <1>3 DEF Rnr, Naks
<1> QED
  BY <1>2, <1>3

LEMMA RefuseStays ==
  ASSUME NEW k, NEW n, NEW C, NEW r, Refuse(k, n, C, r)
  PROVE  Stays /\ Naks(k.psn)
<1>1. Stays
  BY DEF Stays, Refuse
<1>2. PICK c \in Refusals : out' = {Ack(k.psn, c)}
  BY DEF Refuse
<1> QED
  BY <1>1, <1>2 DEF Naks

LEMMA StoreEffect ==
  ASSUME NEW k, IsMessage(k), NEW C, NEW i, NEW r, Store(k, C, i, r)
  PROVE  (Stays /\ Naks(k.psn)) \/ (Executes(k) /\ Answered(k))
<1> DEFINE packets == IF k.ackreq THEN {Ack(k.psn, "ACK")} ELSE {}
<1>1. CASE Refuse(k, 1, C, r)
  BY <1>1, RefuseStays
<1>2. CASE UNCHANGED <<epsn, openMsg, done>> /\ Raise("IndexError")
  BY <1>2, RaiseStays
<1>3. CASE Rnr(k)
  BY <1>3, RnrStays
<1>4. CASE /\ epsn' = next_psn(epsn)
           /\ openMsg' = IF Ends(k) THEN "NONE" ELSE Kind(k)
           /\ done' = IF Ends(k) THEN Append(done, k.ssn) ELSE done
           /\ Reply(packets, TRUE)
  <2>1. {p.psn : p \in packets} = IF k.ackreq THEN {k.psn} ELSE {}
    <3>1. Ack(k.psn, "ACK").psn = k.psn
      BY DEF Ack, Response
    <3>2. CASE k.ackreq
      BY <3>1, <3>2
    <3>3. CASE ~k.ackreq
      BY <3>3
    <3> QED
      BY <3>2, <3>3
  <2>2. saved' = saved \cup {p.psn : p \in packets} /\ out' = packets
    BY <1>4 DEF Reply
  <2>3. packets \subseteq AnswerTo(k)
    BY DEF AnswerTo
  <2> HIDE DEF packets
  <2>4. saved' = saved \cup IF k.ackreq THEN {k.psn} ELSE {}
    BY <2>1, <2>2
  <2> QED
    BY <1>4, <2>2, <2>3, <2>4 DEF Executes, Answered
<1> QED
  BY <1>1, <1>2, <1>3, <1>4 DEF Store

LEMMA MessageEffect ==
  ASSUME NEW k, IsMessage(k), Message(k)
  PROVE  (Stays /\ Naks(k.psn)) \/ (Executes(k) /\ Answered(k))
  BY RefuseStays, RnrStays, RaiseStays, StoreEffect DEF Message

LEMMA AnswerEffect ==
  ASSUME NEW k, ~IsMessage(k), NEW packets, NEW save \in BOOLEAN,
         {p.psn : p \in packets} = {k.psn} \/ ~save, save <=> k.op = "ATOMIC",
         Answer(k, packets, save)
  PROVE  \/ Stays /\ (Naks(k.psn) \/ (k.psn # epsn /\ out' = packets))
         \/ k.psn = epsn /\ Executes(k) /\ out' = packets
<1>1. CASE Refuse(k, 0, ctxs, rq)
  BY <1>1, RefuseStays
<1>2. CASE UNCHANGED <<epsn, openMsg, done>> /\ Raise("AssertionError")
  BY <1>2, RaiseStays
<1>3. CASE /\ Reply(packets, save)
           /\ IF k.psn = epsn
                THEN /\ epsn' = (epsn + k.len) % MAX_PSN
                     /\ openMsg' = "NONE" /\ done' = Append(done, k.ssn)
                ELSE UNCHANGED <<epsn, openMsg, done>>
  <2>1. saved' = saved \cup (IF k.op = "ATOMIC" THEN {k.psn} ELSE {}) /\ out' = packets
    BY <1>3 DEF Reply
  <2> QED
    BY <1>3, <2>1 DEF Executes, Stays
<1> QED
  BY <1>1, <1>2, <1>3 DEF Answer

LEMMA RecvEffect ==
  ASSUME RespTypeOK, NEW k \in Request, RecvRequest(k)
  PROVE  /\ \/ Stays /\ Naks(epsn)
            \/ Stays /\ Behind(k) /\ (Naks(k.psn) \/ AnsweredAgain(k))
            \/ Up /\ k.psn = epsn /\ LegalOrder(k) /\ Executes(k) /\ Answered(k)
         /\ Up' => Up
<1>0. (k.op = "READ" \/ k.op = "ATOMIC") <=> ~IsMessage(k)
  BY RequestType DEF IsMessage
<1>1. CASE RecvExpected(k)
  <2>0. k.psn = epsn /\ Up
    BY <1>1 DEF RecvExpected, IsExpected
  <2>1. CASE LegalOrder(k) /\ IsMessage(k) /\ Message(k)
    <3>1. (Stays /\ Naks(k.psn)) \/ (Executes(k) /\ Answered(k))
      BY <2>1, MessageEffect
    <3> QED
      BY <2>0, <2>1, <3>1
  <2>2. CASE LegalOrder(k) /\ k.op = "READ" /\ Answer(k, ReadResponses(k), FALSE)
    <3>1. \/ Stays /\ (Naks(k.psn) \/ (k.psn # epsn /\ out' = ReadResponses(k)))
          \/ k.psn = epsn /\ Executes(k) /\ out' = ReadResponses(k)
      BY <1>0, <2>2, AnswerEffect
    <3>2. out' = ReadResponses(k) => Answered(k)
      BY <1>0, <2>2 DEF Answered, AnswerTo
    <3> QED
      BY <2>0, <2>2, <3>1, <3>2
  <2>3. CASE /\ LegalOrder(k) /\ k.op = "ATOMIC"
             /\ Answer(k, {Response("ATOMIC_ACK", k.psn, "ACK")}, TRUE)
    <3> DEFINE answer == {Response("ATOMIC_ACK", k.psn, "ACK")}
    <3>1. {p.psn : p \in answer} = {k.psn}
      BY DEF Response
    <3>2. out' = answer => Answered(k)
      BY <1>0, <2>3 DEF Answered, AnswerTo
    <3> HIDE DEF answer
    <3>3. \/ Stays /\ (Naks(k.psn) \/ (k.psn # epsn /\ out' = answer))
          \/ k.psn = epsn /\ Executes(k) /\ out' = answer
      BY <1>0, <2>3, <3>1, AnswerEffect DEF answer
    <3> QED
      BY <2>0, <2>3, <3>2, <3>3
  <2>4. CASE UNCHANGED <<epsn, openMsg, done>> /\ Raise("AssertionError")
    BY <2>0, <2>4, RaiseStays
  <2> QED
    BY <1>1, <2>1, <2>2, <2>3, <2>4 DEF RecvExpected
<1>2. CASE RecvDuplicate(k)
  <2>1. k.psn # epsn /\ Behind(k) /\ Up
    <3>1. Behind(k) /\ Up
      BY <1>2 DEF RecvDuplicate, Behind
    <3>2. epsn \in Int /\ k.psn \in Int
      BY RequestType, MaxPsnAssumption DEF RespTypeOK, Psn
    <3>3. k.psn = epsn => psn_compare(epsn, k.psn, epsn) = 0
      BY <3>2 DEF psn_compare
    <3> QED
      BY <3>1, <3>3 DEF Behind
  <2>2. CASE k.op = "READ" /\ Answer(k, ReadResponses(k), FALSE)
    <3>1. \/ Stays /\ (Naks(k.psn) \/ (k.psn # epsn /\ out' = ReadResponses(k)))
          \/ k.psn = epsn /\ Executes(k) /\ out' = ReadResponses(k)
      BY <1>0, <2>2, AnswerEffect
    <3> QED
      BY <2>1, <2>2, <3>1 DEF AnsweredAgain
  <2>3. CASE UNCHANGED <<epsn, openMsg, done>> /\ Reply({SavedAgain(k)}, FALSE)
    BY <2>1, <2>3 DEF Reply, Stays, AnsweredAgain
  <2>4. CASE UNCHANGED <<epsn, openMsg, done>> /\ Raise("KeyError")
    BY <2>1, <2>4, RaiseStays
  <2> QED
    BY <1>2, <2>1, <2>2, <2>3, <2>4 DEF RecvDuplicate
<1>3. CASE RecvFuture(k)
  <2>1. Stays /\ Up
    BY <1>3 DEF RecvFuture, Reply, Stays
  <2>2. out' = IF seqPending \/ rnrPending THEN {} ELSE {Ack(epsn, "NAK_SEQ")}
    BY <1>3 DEF RecvFuture, Reply
  <2>3. Naks(epsn)
    BY <2>2 DEF Naks
  <2> QED
    BY <2>1, <2>3
<1>4. CASE RecvInError(k)
  <2>1. UNCHANGED <<epsn, openMsg, done>> /\ Raise("AssertionError") /\ ~Up'
    BY <1>4 DEF RecvInError, Raise, Up
  <2> QED
    BY <2>1, RaiseStays
<1> QED
  BY <1>1, <1>2, <1>3, <1>4 DEF RecvRequest

-----------------------------------------------------------------------------
(***************************************************************************)
(* The inductive invariant for the packets of one requester: ePSN lies at  *)
(* the first packet of the next message or, when one is open, past its     *)
(* first and not past its last packet; the answers of what lies before     *)
(* ePSN are saved.                                                         *)
(***************************************************************************)
NextPacket(n, start) ==
  /\ Len(done) <= n
  /\ openMsg = "NONE" => Offset(epsn) = start[Len(done) + 1]
  /\ openMsg # "NONE" => /\ Len(done) < n
                         /\ start[Len(done) + 1] < Offset(epsn)
                         /\ Offset(epsn) < start[Len(done) + 2]

AnswersSaved ==
  \A k \in Requests :
    k.op # "READ" /\ k.ackreq /\ Offset(k.psn) < Offset(epsn) => k.psn \in saved

ExecInv(n, start) == RespTypeOK /\ ExecutesInOrder /\ NextPacket(n, start)

OrderInv(n, start) == ExecInv(n, start) /\ AnswersSaved

\* ePSN lies within the plan: not before what is done, not behind its end.
LEMMA EpsnInPlan ==
  ASSUME NEW n \in Nat, NEW start, PlanOf(n, start), ExecInv(n, start)
  PROVE  /\ Len(done) \in Nat /\ Len(done) <= n /\ Offset(epsn) \in Nat
         /\ start[Len(done) + 1] <= Offset(epsn) /\ Offset(epsn) <= start[n + 1]
         /\ \A s \in 1 .. n : start[s + 1] <= Offset(epsn) <=> s <= Len(done)
<1> DEFINE d == Len(done)
           o == Offset(epsn)
<1>1. d \in Nat /\ d <= n /\ o \in Nat
  BY LenProperties, OffsetCases DEF ExecInv, RespTypeOK, NextPacket
<1>2. /\ \A a \in 1 .. (n + 1) : start[a] \in Nat
      /\ \A a, b \in 1 .. (n + 1) : a < b => start[a] < start[b]
  BY DEF PlanOf
<1>3. /\ openMsg = "NONE" => o = start[d + 1]
      /\ openMsg # "NONE" => d < n /\ start[d + 1] < o /\ o < start[d + 2]
  BY DEF ExecInv, NextPacket
<1> HIDE DEF d, o
<1>4. \A a, b \in 1 .. (n + 1) : a <= b => start[a] <= start[b]
  BY <1>2
<1>5. d + 1 \in 1 .. (n + 1) /\ n + 1 \in 1 .. (n + 1)
  BY <1>1
<1>6. start[d + 1] <= o
  BY <1>1, <1>2, <1>3, <1>5
<1>7. o <= start[n + 1]
  <2>1. CASE openMsg = "NONE"
    BY <1>3, <1>4, <1>5, <1>1, <2>1
  <2>2. CASE openMsg # "NONE"
    <3>1. d + 2 \in 1 .. (n + 1) /\ d + 2 <= n + 1 /\ o < start[d + 2]
      BY <1>1, <1>3, <2>2
    <3>2. start[d + 2] <= start[n + 1]
      BY <1>4, <1>5, <3>1
    <3> QED
      BY <1>1, <1>2, <1>5, <3>1, <3>2
  <2> QED
    BY <2>1, <2>2
<1>8. ASSUME NEW s \in 1 .. n PROVE start[s + 1] <= o <=> s <= d
  <2>0. s + 1 \in 1 .. (n + 1) /\ start[s + 1] \in Nat /\ start[d + 1] \in Nat
    BY <1>1, <1>2, <1>5
  <2>1. CASE s <= d
    <3>1. start[s + 1] <= start[d + 1]
      BY <1>1, <1>4, <1>5, <2>0, <2>1
    <3> QED
      BY <1>1, <1>6, <2>0, <2>1, <3>1
  <2>2. CASE ~(s <= d)
    <3>1. d + 1 < s + 1 /\ start[d + 1] < start[s + 1]
      BY <1>1, <1>2, <1>5, <2>0, <2>2
    <3>2. CASE openMsg = "NONE"
      BY <1>1, <1>3, <2>0, <2>2, <3>1, <3>2
    <3>3. CASE openMsg # "NONE"
      <4>1. d + 2 \in 1 .. (n + 1) /\ d + 2 <= s + 1 /\ o < start[d + 2] /\ start[d + 2] \in Nat
        BY <1>1, <1>2, <1>3, <2>2, <3>3
      <4>2. start[d + 2] <= start[s + 1]
        BY <1>4, <2>0, <4>1
      <4> QED
        BY <1>1, <2>0, <2>2, <4>1, <4>2
    <3> QED
      BY <3>2, <3>3
  <2> QED
    BY <2>1, <2>2
<1> QED
  BY <1>1, <1>6, <1>7, <1>8 DEF d, o

\* The expected packet belongs to the message that is open or comes next.
LEMMA ExpectedIsNext ==
  ASSUME NEW n \in Nat, NEW start, PlanOf(n, start), ExecInv(n, start),
         NEW k \in Request, Fits(k, n, start), k.psn = epsn
  PROVE  /\ Len(done) \in Nat /\ Len(done) < n /\ k.ssn = Len(done) + 1
         /\ openMsg = "NONE" <=> Offset(epsn) = start[k.ssn]
<1> DEFINE d == Len(done)
           s == k.ssn
           o == Offset(epsn)
<1>1. d \in Nat /\ d <= n
  BY LenProperties DEF ExecInv, NextPacket, RespTypeOK
<1>2. s \in 1 .. n /\ start[s] <= o /\ o < start[s + 1]
  BY DEF Fits
<1>3. \A a \in 1 .. (n + 1) : start[a] \in Nat
  BY DEF PlanOf
<1>4. \A a, b \in 1 .. (n + 1) : a < b => start[a] < start[b]
  BY DEF PlanOf
<1>5. o \in Nat
  BY RequestType, OffsetCases
<1>6. /\ openMsg = "NONE" => o = start[d + 1]
      /\ openMsg # "NONE" => d < n /\ start[d + 1] < o /\ o < start[d + 2]
  BY DEF ExecInv, NextPacket
<1> HIDE DEF d, s, o
<1>7. start[d + 1] <= o
  BY <1>1, <1>3, <1>5, <1>6
<1>8. s + 1 \in 1 .. (n + 1) /\ s \in 1 .. (n + 1) /\ d + 1 \in 1 .. (n + 1)
  BY <1>1, <1>2
<1>9. ~(d + 1 > s)
  <2> SUFFICES ASSUME d + 1 > s PROVE FALSE
    OBVIOUS
  <2>1. start[s + 1] <= start[d + 1]
    <3>1. CASE d + 1 = s + 1
      BY <1>3, <1>8, <3>1
    <3>2. CASE d + 1 # s + 1
      BY <1>1, <1>2, <1>3, <1>4, <1>8, <3>2
    <3> QED
      BY <3>1, <3>2
  <2> QED
    BY <1>2, <1>3, <1>5, <1>7, <1>8, <2>1
<1>10. ~(d + 1 < s)
  <2> SUFFICES ASSUME d + 1 < s PROVE FALSE
    OBVIOUS
  <2>1. d + 2 \in 1 .. (n + 1) /\ start[d + 1] < start[s]
    BY <1>1, <1>4, <1>8
  <2>2. start[d + 2] <= start[s]
    <3>1. CASE d + 2 = s
      BY <1>3, <1>8, <3>1
    <3>2. CASE d + 2 # s
      BY <1>1, <1>2, <1>3, <1>4, <1>8, <2>1, <3>2
    <3> QED
      BY <3>1, <3>2
  <2> QED
    BY <1>2, <1>3, <1>5, <1>6, <1>8, <2>1, <2>2
<1>11. s = d + 1 /\ d < n
  BY <1>1, <1>2, <1>8, <1>9, <1>10
<1>12. openMsg = "NONE" <=> o = start[s]
  BY <1>3, <1>5, <1>6, <1>8, <1>11
<1> QED
  BY <1>1, <1>11, <1>12 DEF d, s, o

\* Executing it takes ePSN to its end.
LEMMA ExecutesNext ==
  ASSUME NEW n \in Nat, NEW start, PlanOf(n, start), ExecInv(n, start), RespTypeOK',
         NEW k \in Request, Fits(k, n, start), k.psn = epsn, LegalOrder(k), Executes(k)
  PROVE  ExecInv(n, start)' /\ Offset(epsn)' = Offset(epsn) + (IF IsMessage(k) THEN 1 ELSE k.len)
<1> DEFINE s == k.ssn
           o == Offset(epsn)
           m == IF IsMessage(k) THEN 1 ELSE k.len
<1>1. /\ Len(done) \in Nat /\ Len(done) < n /\ s = Len(done) + 1
      /\ openMsg = "NONE" <=> o = start[s]
  BY ExpectedIsNext
<1>2. epsn \in Psn /\ o \in Nat /\ m \in Nat \ {0} /\ done \in Seq(Nat)
  <2>1. epsn \in Psn /\ done \in Seq(Nat)
    BY DEF ExecInv, RespTypeOK
  <2>2. o \in Nat
    BY <2>1, OffsetCases
  <2>3. m \in Nat \ {0}
    BY RequestType
  <2> QED
    BY <2>1, <2>2, <2>3
<1>3. /\ s \in 1 .. n /\ s \in 1 .. (n + 1) /\ s + 1 \in 1 .. (n + 1)
      /\ start[s] <= o /\ o < start[s + 1]
  BY DEF Fits
<1>4. \A a \in 1 .. (n + 1) : start[a] \in Nat /\ start[a] <= start[n + 1]
  BY DEF PlanOf
<1>5. start[n + 1] < MAX_PSN /\ MAX_PSN \in Nat
  BY MaxPsnAssumption DEF PlanOf
<1>6. /\ IsMessage(k) => /\ Begins(k) <=> o = start[s]
                         /\ Ends(k) <=> o + 1 = start[s + 1]
      /\ ~IsMessage(k) => k.place = "ONLY" /\ o + k.len = start[s + 1]
  BY DEF Fits
<1>7. o + m <= start[s + 1]
  <2>1. CASE IsMessage(k)
    BY <1>2, <1>3, <1>4, <2>1
  <2>2. CASE ~IsMessage(k)
    BY <1>2, <1>3, <1>4, <1>6, <2>2
  <2> QED
    BY <2>1, <2>2
<1>8. epsn' = (epsn + m) % MAX_PSN
  BY DEF Executes, next_psn
<1> HIDE DEF o, m
<1>9. Offset(epsn)' = o + m
  <2>1. Offset(epsn) + m < MAX_PSN
    BY <1>2, <1>3, <1>4, <1>5, <1>7 DEF o
  <2>2. Offset((epsn + m) % MAX_PSN) = Offset(epsn) + m
    BY <1>2, <2>1, OffsetPlus
  <2> QED
    BY <1>8, <2>2 DEF o
<1>10. k.ssn \in Nat
  BY RequestType
<1>11. ExecutesInOrder'
  <2>1. CASE done' = done
    BY <2>1 DEF ExecInv, ExecutesInOrder
  <2>2. CASE done' = Append(done, k.ssn)
    <3>1. /\ Len(done') = Len(done) + 1 /\ DOMAIN done' = 1 .. (Len(done) + 1)
          /\ DOMAIN done = 1 .. Len(done)
          /\ \A i \in 1 .. Len(done) : done'[i] = done[i]
          /\ done'[Len(done) + 1] = k.ssn
      BY <1>2, <1>10, <2>2, AppendProperties, LenProperties
    <3> SUFFICES ASSUME NEW i \in DOMAIN done' PROVE done'[i] = i
      BY DEF ExecutesInOrder
    <3>2. CASE i \in 1 .. Len(done)
      BY <3>1, <3>2 DEF ExecInv, ExecutesInOrder
    <3>3. CASE i = Len(done) + 1
      BY <1>1, <3>1, <3>3
    <3> QED
      BY <1>1, <3>1, <3>2, <3>3
  <2> QED
    BY <2>1, <2>2 DEF Executes
<1>12. NextPacket(n, start)'
  <2>1. CASE done' = Append(done, k.ssn)
    <3>1. Len(done') = Len(done) + 1
      BY <1>2, <1>10, <2>1, AppendProperties
    <3>2. openMsg' = "NONE" /\ Offset(epsn)' = start[s + 1]
      <4>1. CASE IsMessage(k)
        <5>1. Ends(k)
          <6>1. done' # done
            BY <1>1, <3>1
          <6> QED
            BY <4>1, <6>1 DEF Executes
        <5> QED
          BY <1>6, <1>9, <4>1, <5>1 DEF Executes, m
      <4>2. CASE ~IsMessage(k)
        BY <1>6, <1>9, <4>2 DEF Executes, m
      <4> QED
        BY <4>1, <4>2
    <3> QED
      BY <1>1, <3>1, <3>2 DEF NextPacket
  <2>2. CASE done' # Append(done, k.ssn)
    <3>1. IsMessage(k) /\ ~Ends(k) /\ done' = done /\ openMsg' = Kind(k) /\ m = 1
      BY <2>2 DEF Executes, m
    <3>2. Kind(k) # "NONE"
      BY <3>1 DEF Kind, IsMessage
    <3>3. o + 1 # start[s + 1] /\ Offset(epsn)' = o + 1
      BY <1>6, <1>9, <3>1
    <3>4. start[s] < o + 1 /\ o + 1 < start[s + 1]
      BY <1>2, <1>3, <1>4, <3>3
    <3> QED
      BY <1>1, <3>1, <3>2, <3>3, <3>4 DEF NextPacket
  <2> QED
    BY <2>1, <2>2
<1> QED
  BY <1>9, <1>11, <1>12 DEF ExecInv, m, o

\* What it answers is saved, so that the answers before ePSN still are.
LEMMA SavesNext ==
  ASSUME NEW n \in Nat, NEW start, Planned(n, start), OrderInv(n, start),
         NEW k \in Requests, k.psn = epsn, LegalOrder(k), Executes(k),
         Offset(epsn)' = Offset(epsn) + (IF IsMessage(k) THEN 1 ELSE k.len)
  PROVE  AnswersSaved'
<1> DEFINE s == k.ssn
           o == Offset(epsn)
           m == IF IsMessage(k) THEN 1 ELSE k.len
<1>0. k \in Request /\ Requests \subseteq Request /\ PlanOf(n, start) /\ Fits(k, n, start)
  BY ResponderAssumption DEF Planned
<1>2. epsn \in Psn /\ o \in Nat /\ m \in Nat \ {0}
  <2>1. epsn \in Psn
    BY DEF OrderInv, ExecInv, RespTypeOK
  <2>2. o \in Nat
    BY <2>1, OffsetCases
  <2>3. m \in Nat \ {0}
    BY <1>0, RequestType
  <2> QED
    BY <2>1, <2>2, <2>3
<1>3. /\ s \in 1 .. n /\ s \in 1 .. (n + 1) /\ s + 1 \in 1 .. (n + 1)
      /\ start[s] <= o /\ o < start[s + 1]
  BY <1>0 DEF Fits
<1>4. \A a \in 1 .. (n + 1) : start[a] \in Nat /\ start[a] <= start[n + 1]
  BY <1>0 DEF PlanOf
<1>6. /\ IsMessage(k) => (Ends(k) <=> o + 1 = start[s + 1])
      /\ ~IsMessage(k) => o + k.len = start[s + 1]
  BY <1>0 DEF Fits
<1>7. o + m <= start[s + 1]
  <2>1. CASE IsMessage(k)
    BY <1>2, <1>3, <1>4, <2>1
  <2>2. CASE ~IsMessage(k)
    BY <1>2, <1>3, <1>4, <1>6, <2>2
  <2> QED
    BY <2>1, <2>2
<1>9. Offset(epsn)' = o + m
  OBVIOUS
<1> HIDE DEF o, m
<1>13. AnswersSaved'
  <2> SUFFICES ASSUME NEW j \in Requests, j.op # "READ", j.ackreq,
                      Offset(j.psn) < Offset(epsn)'
               PROVE  j.psn \in saved'
    BY DEF AnswersSaved, Offset
  <2>0. Offset(j.psn) \in Nat /\ j.psn \in Psn /\ j \in Request
    BY <1>0, OffsetCases, RequestType
  <2>1. saved \subseteq saved'
    BY DEF Executes
  <2>2. CASE Offset(j.psn) < o
    BY <2>1, <2>2 DEF OrderInv, AnswersSaved, o
  <2>3. CASE ~(Offset(j.psn) < o)
    <3>1. o <= Offset(j.psn) /\ Offset(j.psn) < o + m
      BY <1>2, <1>9, <2>0, <2>3
    <3>2. j.ssn = s
      <4>1. /\ j.ssn \in 1 .. n /\ start[j.ssn] <= Offset(j.psn)
            /\ Offset(j.psn) < start[j.ssn + 1]
        BY DEF Planned, Fits
      <4>2. start[s] <= Offset(j.psn) /\ Offset(j.psn) < start[s + 1]
        BY <1>2, <1>3, <1>4, <1>7, <2>0, <3>1
      <4>3. ~(j.ssn < s)
        <5> SUFFICES ASSUME j.ssn < s PROVE FALSE
          OBVIOUS
        <5>1. j.ssn + 1 = s \/ j.ssn + 1 < s
          BY <1>3, <4>1
        <5>2. j.ssn + 1 \in 1 .. (n + 1)
          BY <4>1
        <5>3. start[j.ssn + 1] <= start[s]
          BY <1>0, <1>3, <1>4, <5>1, <5>2 DEF PlanOf
        <5> QED
          BY <1>3, <1>4, <2>0, <4>1, <4>2, <5>2, <5>3
      <4>4. ~(s < j.ssn)
        <5> SUFFICES ASSUME s < j.ssn PROVE FALSE
          OBVIOUS
        <5>1. s + 1 = j.ssn \/ s + 1 < j.ssn
          BY <1>3, <4>1
        <5>2. j.ssn \in 1 .. (n + 1)
          BY <4>1
        <5>3. start[s + 1] <= start[j.ssn]
          BY <1>0, <1>3, <1>4, <5>1, <5>2 DEF PlanOf
        <5> QED
          BY <1>3, <1>4, <2>0, <4>1, <4>2, <5>2, <5>3
      <4> QED
        BY <1>3, <4>1, <4>3, <4>4
    <3>3. j.op = k.op
      BY <3>2 DEF Planned
    <3>4. m = 1
      <4>1. k.op = "ATOMIC" => k.len = 1
        BY <1>0 DEF Fits
      <4> QED
        BY <1>0, <3>3, <4>1, RequestType DEF m, IsMessage
    <3>5. Offset(j.psn) = Offset(k.psn)
      BY <1>2, <2>0, <3>1, <3>4 DEF o
    <3>6. j.psn = k.psn
      BY <1>0, <2>0, <3>5, RequestType, OffsetInjective
    <3>7. k.ackreq
      BY <3>3, <3>6 DEF Planned
    <3>8. IsMessage(k) \/ k.op = "ATOMIC"
      BY <1>0, <3>3, RequestType DEF IsMessage
    <3> QED
      BY <3>6, <3>7, <3>8 DEF Executes, IsMessage
  <2> QED
    BY <2>2, <2>3
<1> QED
  BY <1>13

LEMMA InitExec ==
  ASSUME NEW n \in Nat, NEW start, PlanOf(n, start), RespInit
  PROVE  ExecInv(n, start) /\ Offset(epsn) = 0
<1>1. Offset(epsn) = 0
  BY OffsetCases, ResponderAssumption, MaxPsnAssumption DEF RespInit, Psn
<1>2. done = <<>> /\ Len(done) = 0 /\ openMsg = "NONE"
  BY DEF RespInit
<1>3. ExecutesInOrder
  BY <1>2 DEF ExecutesInOrder
<1>4. NextPacket(n, start)
  BY <1>1, <1>2 DEF NextPacket, PlanOf
<1> QED
  BY <1>1, <1>3, <1>4, InitTypes DEF ExecInv

LEMMA InitOrder ==
  ASSUME NEW n \in Nat, NEW start, Planned(n, start), RespInit
  PROVE  OrderInv(n, start)
<1>1. ExecInv(n, start) /\ Offset(epsn) = 0
  BY InitExec DEF Planned
<1>2. \A k \in Requests : Offset(k.psn) \in Nat
  BY RequestType, OffsetCases, ResponderAssumption
<1>3. AnswersSaved
  <2>1. \A k \in Requests : ~(Offset(k.psn) < Offset(epsn))
    BY <1>1, <1>2
  <2> QED
    BY <2>1 DEF AnswersSaved
<1> QED
  BY <1>1, <1>3 DEF OrderInv

LEMMA StaysExec ==
  ASSUME NEW n, NEW start, ExecInv(n, start), RespTypeOK', Stays
  PROVE  ExecInv(n, start)' /\ Offset(epsn)' = Offset(epsn)
  BY DEF Stays, ExecInv, ExecutesInOrder, NextPacket, Offset

LEMMA NextOrder ==
  ASSUME NEW n \in Nat, NEW start, Planned(n, start)
  PROVE  OrderInv(n, start) /\ [RespNext]_rvars => OrderInv(n, start)'
<1> SUFFICES ASSUME OrderInv(n, start), [RespNext]_rvars PROVE OrderInv(n, start)'
  OBVIOUS
<1>1. RespTypeOK /\ RespTypeOK' /\ ExecInv(n, start) /\ AnswersSaved
  BY NextTypes DEF OrderInv, ExecInv
<1>2. CASE Stays
  <2>1. ExecInv(n, start)' /\ epsn' = epsn /\ saved \subseteq saved'
    BY <1>1, <1>2, StaysExec DEF Stays
  <2>2. AnswersSaved'
    BY <1>1, <2>1 DEF AnswersSaved, Offset
  <2> QED
    BY <2>1, <2>2 DEF OrderInv
<1>3. ASSUME NEW k \in Requests, RecvRequest(k) PROVE OrderInv(n, start)'
  <2>1. k \in Request /\ PlanOf(n, start) /\ Fits(k, n, start)
    BY ResponderAssumption DEF Planned
  <2>2. CASE k.psn = epsn /\ LegalOrder(k) /\ Executes(k)
    <3>1. ExecInv(n, start)' /\ Offset(epsn)' = Offset(epsn) + (IF IsMessage(k) THEN 1 ELSE k.len)
      BY <1>1, <2>1, <2>2, ExecutesNext
    <3>2. AnswersSaved'
      BY <2>2, <3>1, SavesNext
    <3> QED
      BY <3>1, <3>2 DEF OrderInv
  <2> QED
    BY <1>1, <1>2, <1>3, <2>1, <2>2, RecvEffect
<1>4. PostRecv \/ RnrTimeout \/ UNCHANGED rvars => Stays
  BY DEF PostRecv, RnrTimeout, rvars, Stays
<1> QED
  BY <1>2, <1>3, <1>4 DEF RespNext

(***************************************************************************)
(* Messages, reads and atomics are carried out in the order of their SSNs  *)
(* and each once, although the network repeats, loses and reorders the     *)
(* packets of the requester and reads come again in part: for every plan   *)
(* of work requests that uses no PSN twice.  A packet from more than half  *)
(* of the space ago looks new, but is not the one expected.                *)
(***************************************************************************)
THEOREM RequestsExecutedInOrder ==
  ASSUME NEW n \in Nat, NEW start, Planned(n, start)
  PROVE  RespSpec => []ExecutesInOrder
<1>1. RespInit => OrderInv(n, start)
  BY InitOrder
<1>2. OrderInv(n, start) /\ [RespNext]_rvars => OrderInv(n, start)'
  BY NextOrder
<1>3. OrderInv(n, start) => ExecutesInOrder
  BY DEF OrderInv, ExecInv
<1> QED
  BY <1>1, <1>2, <1>3, PTL DEF RespSpec

(***************************************************************************)
(* Whatever message or atomic before ePSN is sent again, the responder     *)
(* still has the answer to it, for the plans of work requests that take    *)
(* fewer than half of the PSNs.  One that is farther ahead would look like *)
(* a duplicate.                                                            *)
(***************************************************************************)
THEOREM DuplicatesAnswerable ==
  ASSUME NEW n \in Nat, NEW start, Planned(n, start), start[n + 1] < HALF
  PROVE  RespSpec => []DuplicateIsAnswerable
<1>1. RespInit => OrderInv(n, start)
  BY InitOrder
<1>2. OrderInv(n, start) /\ [RespNext]_rvars => OrderInv(n, start)'
  BY NextOrder
<1>3. OrderInv(n, start) => DuplicateIsAnswerable
  <2> SUFFICES ASSUME OrderInv(n, start), NEW k \in Requests, k.op # "READ", k.ackreq,
                      psn_compare(epsn, k.psn, epsn) > 0
               PROVE  k.psn \in saved
    BY DEF DuplicateIsAnswerable
  <2>0. epsn \in Psn /\ k.psn \in Psn
    BY RequestType, ResponderAssumption DEF OrderInv, ExecInv, RespTypeOK
  <2>1. Offset(epsn) \in Nat
    BY <2>0, OffsetCases
  <2>2. Offset(k.psn) < HALF
    <3>1. /\ k.ssn \in 1 .. n /\ Offset(k.psn) < start[k.ssn + 1]
          /\ \A a, b \in 1 .. (n + 1) : a < b => start[a] < start[b]
          /\ \A a \in 1 .. (n + 1) : start[a] \in Nat
          /\ start[n + 1] < HALF
      BY DEF Planned, Fits, PlanOf
    <3>2. start[k.ssn + 1] <= start[n + 1]
      BY <3>1
    <3>3. Offset(k.psn) \in Nat /\ HALF \in Nat /\ start[k.ssn + 1] \in Nat /\ start[n + 1] \in Nat
      BY <2>0, <3>1, OffsetCases, OldestCases
    <3> QED
      BY <3>1, <3>2, <3>3
  <2> QED
    <3>1. HALF \in Nat /\ Offset(k.psn) \in Nat
      BY <2>0, OffsetCases, OldestCases
    <3>2. Offset(k.psn) < Offset(epsn)
      BY <2>0, <2>1, <2>2, <3>1, CompareOffsets
    <3> QED
      BY <3>2 DEF OrderInv, AnswersSaved
<1> QED
  BY <1>1, <1>2, <1>3, PTL DEF RespSpec
=============================================================================
