----------------------------- MODULE Responder -----------------------------
(***************************************************************************)
(* The responder of one reliable connection of the RoCEv2 emulator: the    *)
(* receive queue of Remu/src/roce_rq.py (classes RQ, RXLogic and the       *)
(* request contexts) with the request path of QP.recv_pkt in               *)
(* Remu/src/roce_v2.py.  An action is a whole call, as in Requester; the   *)
(* packets it hands to send() are the output out.                          *)
(*                                                                         *)
(* The queue pair of this model only answers: its own send queue is empty. *)
(***************************************************************************)
EXTENDS PsnMath, Dicts, FiniteSets, Sequences

CONSTANTS
  CtxSlots,     \* MAX_PENDING_REQ_NUM: slots for request contexts
  RespInitPsn,  \* the first PSN expected
  Requests,     \* the request packets the network may deliver
  Refusals,     \* statuses with which a memory check may refuse a request
  MaxRecvs      \* bound: receive work requests posted in a behaviour

Request == [ssn : Nat, op : {"SEND", "WRITE", "WRITE_IMM", "READ", "ATOMIC"}, psn : Psn,
            place : {"FIRST", "MIDDLE", "LAST", "ONLY"}, ackreq : BOOLEAN, len : Nat \ {0}]

ASSUME ResponderAssumption ==
  /\ CtxSlots \in Nat \ {0}
  /\ RespInitPsn \in Psn
  /\ Requests \subseteq Request
  /\ Refusals \subseteq {"REM_INV_REQ_ERR", "REM_ACCESS_ERR"}
  /\ MaxRecvs \in Nat

VARIABLES
  rqps,        \* QP.qps: "RTR" or "ERR"
  epsn,        \* RXLogic.rq_psn
  rq,          \* number of receive work requests in RQ.rq
  openMsg,     \* RXLogic.pre_req_pkt_op: the kind of message left unfinished
  curIdx,      \* RXLogic.cur_req_idx
  ctxs,        \* RXLogic.pending_req_ctx_dict: slot -> has a receive WR
  saved,       \* the PSNs of RXLogic.resp_pkt_dict
  seqPending,  \* RXLogic.nak_seq_err_pending
  rnrPending,  \* the time rnr_nak_wait_clear_ts_ns has not passed
  done,        \* SSNs of the messages, reads and atomics executed, in order
  rposted,     \* number of post_recv calls (bounded by MaxRecvs)
  rcqes,       \* number of completions of receive work requests
  out,         \* packets the last call handed to send()
  rfault       \* "none", or the exception that ended the program

rvars == <<rqps, epsn, rq, openMsg, curIdx, ctxs, saved, seqPending, rnrPending,
           done, rposted, rcqes, out, rfault>>

RespInit ==
  /\ rqps = "RTR" /\ epsn = RespInitPsn /\ rq = 0
  /\ openMsg = "NONE" /\ curIdx = 0 /\ ctxs = EmptyFcn
  /\ saved = {} /\ seqPending = FALSE /\ rnrPending = FALSE
  /\ done = <<>> /\ rposted = 0 /\ rcqes = 0 /\ out = {} /\ rfault = "none"

Up == rfault = "none" /\ rqps = "RTR"

-----------------------------------------------------------------------------
(***************************************************************************)
(* What requests and responses are made of.                                *)
(***************************************************************************)
Response(op, psn, aeth) == [op |-> op, psn |-> psn, aeth |-> aeth]

AckNext(psn, code) == Response("ACK", next_psn(psn), code)

Ack(psn, code) == Response("ACK", psn, code)

\* The saved response to a duplicate message or atomic is a whole IP packet and
\* goes out as the payload of a new one: the receiver takes it for a packet to
\* another queue pair.
SavedAgain(k) == Response("WRAPPED", k.psn, "NONE")

Wrapped(r) == r.op = "WRAPPED"

\* ReadReqCtx.commit: the packets that answer read request k.
ReadResponses(k) ==
  {Response(CASE k.len = 1                -> "READ_ONLY"
              [] k.len > 1 /\ i = 0       -> "READ_FIRST"
              [] k.len > 1 /\ i = k.len-1 -> "READ_LAST"
              [] OTHER                    -> "READ_MIDDLE",
            (k.psn + i) % MAX_PSN,
            IF k.len > 2 /\ i \in 1 .. (k.len - 2) THEN "NONE" ELSE "ACK")
     : i \in 0 .. (k.len - 1)}

IsMessage(k) == k.op \in {"SEND", "WRITE", "WRITE_IMM"}

Kind(k) == IF k.op = "WRITE_IMM" THEN "WRITE" ELSE k.op

Begins(k) == k.place \in {"FIRST", "ONLY"}

Ends(k) == k.place \in {"LAST", "ONLY"}

\* Util.check_pre_cur_ops on requests; it asserts, so FALSE is an exception.
LegalOrder(k) ==
  IF openMsg = "NONE" THEN Begins(k) ELSE Kind(k) = openMsg /\ ~Begins(k)

next_idx_unwrapped == curIdx + 1

next_idx == (curIdx + 1) % CtxSlots

-----------------------------------------------------------------------------
(***************************************************************************)
(* RQ.push: the application posts a receive work request.                  *)
(***************************************************************************)
PostRecv ==
  /\ Up /\ rposted < MaxRecvs
  /\ rq' = rq + 1 /\ rposted' = rposted + 1 /\ out' = {}
  /\ UNCHANGED <<rqps, epsn, openMsg, curIdx, ctxs, saved, seqPending, rnrPending,
                 done, rcqes, rfault>>

\* The RNR wait time passes.
RnrTimeout ==
  /\ Up /\ rnrPending
  /\ rnrPending' = FALSE /\ out' = {}
  /\ UNCHANGED <<rqps, epsn, rq, openMsg, curIdx, ctxs, saved, seqPending, done,
                 rposted, rcqes, rfault>>

(***************************************************************************)
(* The ends a request can come to.  Raise: an exception nobody catches.    *)
(* Rnr: process_nak_rnr, which says nothing while an earlier RNR NAK is    *)
(* pending.  Refuse: process_nak_err and RQ.goto_err_state, which complete *)
(* the refused receive WR, if there is one (n = 1), then the receive WRs   *)
(* of the contexts C and the r posted ones.                                *)
(***************************************************************************)
Raise(exception) ==
  /\ rfault' = exception /\ out' = {}
  /\ UNCHANGED <<rqps, saved, rnrPending, rcqes>>

RnrEveryTime(k) ==
  /\ out' = {Ack(k.psn, "RNR")}
  /\ saved' = saved \cup {k.psn}
  /\ rnrPending' = TRUE
  /\ UNCHANGED <<rqps, epsn, openMsg, done, rcqes, rfault>>

RnrCompletes(k) ==
  /\ out' = IF rnrPending THEN {} ELSE {Ack(k.psn, "RNR")}
  /\ saved' = IF rnrPending THEN saved ELSE saved \cup {k.psn}
  /\ rnrPending' = TRUE /\ rcqes' = rcqes + 1
  /\ UNCHANGED <<rqps, epsn, openMsg, done, rfault>>

Rnr(k) ==
  /\ out' = IF rnrPending THEN {} ELSE {Ack(k.psn, "RNR")}
  /\ saved' = IF rnrPending THEN saved ELSE saved \cup {k.psn}
  /\ rnrPending' = TRUE
  /\ UNCHANGED <<rqps, epsn, openMsg, done, rcqes, rfault>>

Refuse(k, n, C, r) ==
  \E status \in Refusals :
    /\ out' = {Ack(k.psn, status)} /\ saved' = saved \cup {k.psn}
    /\ rqps' = "ERR"
    /\ rcqes' = rcqes + n + Cardinality({i \in DOMAIN C : C[i]}) + r
    /\ rq' = 0 /\ ctxs' = EmptyFcn
    /\ UNCHANGED <<epsn, openMsg, done, rnrPending, rfault>>

ReplyUnsaved(packets, save) ==
  out' = packets /\ UNCHANGED <<saved, rqps, rnrPending, rfault>>

Reply(packets, save) ==
  /\ out' = packets
  /\ saved' = IF save THEN saved \cup {p.psn : p \in packets} ELSE saved
  /\ UNCHANGED <<rqps, rnrPending, rfault>>

(***************************************************************************)
(* A packet of a send or write in context C[i], with r receive WRs posted  *)
(* (handle_send_write_req_helper).  The data is stored when the last       *)
(* packet is there.  A write with immediate takes a receive WR only then:  *)
(* without one the context stays behind, and the last packet of a longer   *)
(* one lacks the header the code reads.                                    *)
(***************************************************************************)
Store(k, C, i, r) ==
  LET imm == k.op = "WRITE_IMM" /\ Ends(k) IN
  \/ k.op = "SEND" /\ Refuse(k, 1, C, r)
  \/ /\ imm /\ k.place = "LAST"
     /\ rq' = r /\ ctxs' = C
     /\ UNCHANGED <<epsn, openMsg, done>>
     /\ Raise("IndexError")
  \/ /\ imm /\ k.place = "ONLY" /\ r = 0
     /\ rq' = r /\ ctxs' = C
     /\ Rnr(k)
  \/ /\ imm => k.place = "ONLY" /\ r > 0
     /\ epsn' = next_psn(epsn)
     /\ openMsg' = IF Ends(k) THEN "NONE" ELSE Kind(k)
     /\ rq' = IF imm THEN r - 1 ELSE r
     /\ ctxs' = IF Ends(k) THEN Without(C, {i}) ELSE C
     /\ done' = IF Ends(k) THEN Append(done, k.ssn) ELSE done
     /\ rcqes' = IF imm \/ (k.op = "SEND" /\ Ends(k)) THEN rcqes + 1 ELSE rcqes
     /\ Reply(IF k.ackreq THEN {Ack(k.psn, "ACK")} ELSE {}, TRUE)

Message(k) ==
  LET r == IF k.op = "SEND" THEN rq - 1 ELSE rq
      C == Put(ctxs, next_idx, k.op = "SEND")
  IN
  \/ /\ Begins(k) /\ k.op = "SEND" /\ rq = 0
     /\ UNCHANGED <<curIdx, rq, ctxs>>
     /\ Rnr(k)
  \/ /\ Begins(k) /\ r >= 0
     /\ \/ /\ UNCHANGED curIdx
           /\ Refuse(k, rq - r, ctxs, r)
        \/ /\ next_idx \in DOMAIN ctxs
           /\ rq' = r
           /\ UNCHANGED <<curIdx, ctxs, epsn, openMsg, done>>
           /\ Raise("AssertionError")
        \/ /\ next_idx \notin DOMAIN ctxs
           /\ curIdx' = next_idx
           /\ Store(k, C, next_idx, r)
  \/ /\ ~Begins(k) /\ curIdx \in DOMAIN ctxs
     /\ UNCHANGED curIdx
     /\ Store(k, ctxs, curIdx, rq)
  \/ /\ ~Begins(k) /\ curIdx \notin DOMAIN ctxs
     /\ UNCHANGED <<curIdx, rq, ctxs, epsn, openMsg, done>>
     /\ Raise("AssertionError")

(***************************************************************************)
(* A read, the first time or again, and an atomic: the context takes a     *)
(* slot and gives it back, so cur_req_idx moves on.                        *)
(***************************************************************************)
Answer(k, packets, save) ==
  \/ UNCHANGED curIdx /\ Refuse(k, 0, ctxs, rq)
  \/ /\ next_idx \in DOMAIN ctxs
     /\ UNCHANGED <<curIdx, rq, ctxs, epsn, openMsg, done>>
     /\ Raise("AssertionError")
  \/ /\ next_idx \notin DOMAIN ctxs
     /\ curIdx' = next_idx
     /\ UNCHANGED <<rq, ctxs>>
     /\ Reply(packets, save)
     /\ IF k.psn = epsn
          THEN /\ epsn' = (epsn + k.len) % MAX_PSN
               /\ openMsg' = "NONE" /\ done' = Append(done, k.ssn)
          ELSE UNCHANGED <<epsn, openMsg, done>>
     /\ UNCHANGED rcqes

(***************************************************************************)
(* QP.recv_pkt and RXLogic.handle_request: the request the responder       *)
(* expects, a duplicate, one from the future, and any after an error.      *)
(***************************************************************************)
IsExpectedOrBefore(k) == psn_compare(k.psn, epsn, epsn) <= 0

IsExpected(k) == k.psn = epsn

RecvExpected(k) ==
  /\ Up /\ IsExpected(k)
  /\ \/ /\ ~LegalOrder(k)
        /\ UNCHANGED <<seqPending, curIdx, rq, ctxs, epsn, openMsg, done>>
        /\ Raise("AssertionError")
     \/ /\ LegalOrder(k) /\ seqPending' = FALSE
        /\ \/ IsMessage(k) /\ Message(k)
           \/ k.op = "READ" /\ Answer(k, ReadResponses(k), FALSE)
           \/ /\ k.op = "ATOMIC"
              /\ Answer(k, {Response("ATOMIC_ACK", k.psn, "ACK")}, TRUE)
  /\ UNCHANGED rposted

RecvDuplicate(k) ==
  /\ Up /\ psn_compare(epsn, k.psn, epsn) > 0
  /\ \/ k.op = "READ" /\ Answer(k, ReadResponses(k), FALSE)
     \/ /\ k.op # "READ"
        /\ UNCHANGED <<curIdx, rq, ctxs, epsn, openMsg, done>>
        /\ \/ k.psn \in saved /\ Reply({SavedAgain(k)}, FALSE) /\ UNCHANGED rcqes
           \/ k.psn \notin saved /\ Raise("KeyError")
  /\ UNCHANGED <<seqPending, rposted>>

RecvFuture(k) ==
  /\ Up /\ psn_compare(epsn, k.psn, epsn) < 0
  /\ Reply(IF seqPending \/ rnrPending THEN {} ELSE {Ack(epsn, "NAK_SEQ")}, TRUE)
  /\ seqPending' = (seqPending \/ ~rnrPending)
  /\ UNCHANGED <<curIdx, rq, ctxs, epsn, openMsg, done, rcqes, rposted>>

RecvInError(k) ==
  /\ rfault = "none" /\ rqps = "ERR"
  /\ Raise("AssertionError")
  /\ UNCHANGED <<curIdx, rq, ctxs, epsn, openMsg, done, seqPending, rposted>>

RecvRequest(k) ==
  RecvExpected(k) \/ RecvDuplicate(k) \/ RecvFuture(k) \/ RecvInError(k)

RespNext == PostRecv \/ RnrTimeout \/ \E k \in Requests : RecvRequest(k)

RespSpec == RespInit /\ [][RespNext]_rvars

-----------------------------------------------------------------------------
RFaults == {"none", "AssertionError", "KeyError", "IndexError"}

\* The state has the types the code's classes give it.
RespTypeOK ==
  /\ rqps \in {"RTR", "ERR"}
  /\ epsn \in Psn
  /\ rq \in Nat /\ rcqes \in Nat /\ rposted \in 0 .. MaxRecvs
  /\ openMsg \in {"NONE", "SEND", "WRITE"}
  /\ curIdx \in 0 .. (CtxSlots - 1)
  /\ DOMAIN ctxs \subseteq 0 .. (CtxSlots - 1)
  /\ ctxs \in [DOMAIN ctxs -> BOOLEAN]
  /\ saved \subseteq Psn
  /\ seqPending \in BOOLEAN /\ rnrPending \in BOOLEAN
  /\ done \in Seq(Nat)
  /\ rfault \in RFaults

(***************************************************************************)
(* Requests are the packets of one requester that sends n messages, reads  *)
(* and atomics: number s takes the PSNs from start[s] up to start[s+1],    *)
(* counted from RespInitPsn, and in all they do not use a PSN twice.  A    *)
(* read is sent again from any of its PSNs for the rest of the answer;     *)
(* other packets are the same each time.                                   *)
(***************************************************************************)
Offset(psn) == RangeLen(RespInitPsn, psn, MAX_PSN)

PlanOf(n, start) ==
  /\ start \in [1 .. (n + 1) -> Nat] /\ start[1] = 0 /\ start[n + 1] < MAX_PSN
  /\ \A a, b \in 1 .. (n + 1) : a < b => start[a] < start[b]

Fits(k, n, start) ==
  /\ k.ssn \in 1 .. n
  /\ start[k.ssn] <= Offset(k.psn) /\ Offset(k.psn) < start[k.ssn + 1]
  /\ IsMessage(k) => /\ Begins(k) <=> Offset(k.psn) = start[k.ssn]
                     /\ Ends(k) <=> Offset(k.psn) + 1 = start[k.ssn + 1]
  /\ ~IsMessage(k) => k.place = "ONLY" /\ Offset(k.psn) + k.len = start[k.ssn + 1]
  /\ k.op = "ATOMIC" => k.len = 1

Planned(n, start) ==
  /\ PlanOf(n, start)
  /\ \A k \in Requests : Fits(k, n, start)
  /\ \A j, k \in Requests :
       /\ j.ssn = k.ssn => j.op = k.op
       /\ j.psn = k.psn /\ k.op # "READ" => j.ackreq = k.ackreq

\* Messages, reads and atomics are executed in the order of their SSNs, each
\* once, for whatever order and repetition of request packets arrives.
ExecutesInOrder == \A i \in DOMAIN done : done[i] = i

\* While the queue pair works, a receive work request is waiting, held by a
\* context, or complete: RNR NAKs, duplicates and sequence errors neither lose nor
\* complete one.  (A refused send completes its own twice as the queue flushes.)
RecvConservation ==
  Up => rposted = rq + rcqes + Cardinality({i \in DOMAIN ctxs : ctxs[i]})

\* Whatever went on before, the responder still has the answer to every message
\* and atomic before ePSN that asked for one, in case it is sent again.
DuplicateIsAnswerable ==
  Up => \A k \in Requests :
          k.op # "READ" /\ k.ackreq /\ psn_compare(epsn, k.psn, epsn) > 0 => k.psn \in saved

\* At most one NAK that asks for a retry is outstanding: no sequence error is
\* reported while one is pending or the RNR wait runs, and no second RNR NAK
\* inside the RNR wait.
OneRetryNakPending ==
  [][\A p \in out' :
       /\ p.aeth = "NAK_SEQ" => ~seqPending /\ ~rnrPending /\ seqPending'
       /\ p.aeth = "RNR" => ~rnrPending /\ rnrPending']_rvars
=============================================================================
