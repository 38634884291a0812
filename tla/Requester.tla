----------------------------- MODULE Requester -----------------------------
(***************************************************************************)
(* The requester of one reliable connection of the RoCEv2 emulator: the    *)
(* send queue of Remu/src/roce_sq.py (classes SQ, TXLogic, RetryLogic,     *)
(* RespLogic and the contexts they keep) with the response path of QP in   *)
(* Remu/src/roce_v2.py.                                                    *)
(*                                                                         *)
(* The code is one thread per queue pair, so an action is a whole call:    *)
(* post_send, process_one_sr, recv_pkt on a response, and                  *)
(* check_timeout_and_retry.  The network is the environment: a response is *)
(* any packet of Responses, and the packets a call hands to send() are the *)
(* output tx (module RCLink connects both to a responder).                 *)
(*                                                                         *)
(* A Python exception nobody catches ends the script that drives the queue *)
(* pair.  The variable fault names it, and no action is enabled after one. *)
(***************************************************************************)
EXTENDS PsnMath, Dicts, FiniteSets, Sequences

CONSTANTS
  MAX_SSN,              \* size of the send sequence number space
  MAX_PENDING_REQ_NUM,  \* work requests that may be outstanding
  max_dest_rd_atomic,   \* reads and atomics that may be outstanding
  retry_cnt,            \* times a packet may be sent, RNR apart
  rnr_retry,            \* times a packet may be sent after RNR NAKs
  InitPsn,              \* the first PSN of the connection
  WorkReqs,             \* the work requests the application may post
  NakErrors,            \* the statuses of NAKs that must not be retried
  RespPsns,             \* bound: PSNs of the responses in a behaviour
  MaxPosts              \* bound: work requests posted in a behaviour

ASSUME RequesterAssumption ==
  /\ MAX_SSN \in Nat /\ MAX_SSN > MAX_PENDING_REQ_NUM + 1
  /\ MAX_PENDING_REQ_NUM \in Nat \ {0}
  /\ max_dest_rd_atomic \in Nat \ {0}
  /\ retry_cnt \in Nat \ {0}
  /\ rnr_retry \in Nat \ {0}
  /\ InitPsn \in Psn
  /\ NakErrors \subseteq {"REM_INV_REQ_ERR", "REM_ACCESS_ERR", "REM_OP_ERR"}
  /\ RespPsns \subseteq Psn
  /\ MaxPosts \in Nat

(***************************************************************************)
(* A work request: its operation, the PSNs it takes (packets of the        *)
(* message, or of the answer to a read) and its SIGNALED flag.  Addresses, *)
(* keys, lengths below a packet and payloads are left out.                 *)
(***************************************************************************)
Ops == {"SEND", "WRITE", "WRITE_IMM", "READ", "ATOMIC"}

WorkReq == [op : Ops, n : Nat \ {0}, sig : BOOLEAN]

ASSUME WorkReqsAssumption ==
  /\ WorkReqs \subseteq WorkReq
  /\ \A w \in WorkReqs : /\ w.n < MAX_PSN \div 2
                         /\ w.op = "ATOMIC" => w.n = 1

ReadOrAtomic(w) == w.op \in {"READ", "ATOMIC"}

(***************************************************************************)
(* A response: its opcode, PSN and AETH.  READ_MIDDLE carries no AETH; the *)
(* other read responses and the atomic one acknowledge.                    *)
(***************************************************************************)
ReadOps == {"READ_FIRST", "READ_MIDDLE", "READ_LAST", "READ_ONLY"}

Responses ==
  [op : {"ACK"}, psn : Psn, aeth : {"ACK", "RNR", "NAK_SEQ", "RESERVED"} \cup NakErrors]
    \cup [op : {"READ_MIDDLE"}, psn : Psn, aeth : {"NONE"}]
    \cup [op : (ReadOps \ {"READ_MIDDLE"}) \cup {"ATOMIC_ACK"}, psn : Psn, aeth : {"ACK"}]

RespOps == ReadOps \cup {"ACK", "ATOMIC_ACK"}

VARIABLES
  qps,       \* QP.qps: "RTS" or "ERR"
  sq,        \* SQ.sq: work requests posted and not yet sent
  ssn,       \* SQ.ssn: the next send sequence number
  sqPsn,     \* TXLogic.sq_psn: the next PSN
  mpsn,      \* RespLogic.min_unacked_psn
  mssn,      \* RespLogic.min_unakced_wr_ssn
  preOp,     \* RespLogic.pre_resp_pkt_op
  pend,      \* RetryLogic.pending_wr_ctx_dict: SSN -> context
  reqSsn,    \* RetryLogic.req_pkt_psn_wr_ssn_dict: PSN -> SSN
  rdAtomic,  \* RetryLogic.pending_rd_atomic_wr_num
  timerOn,   \* RetryLogic.oldest_sent_ts_ns is not None
  respSsn,   \* RespLogic.read_resp_psn_wr_ssn_dict: PSN -> SSN
  readPsn,   \* RespLogic.read_resp_ctx_dict: SSN -> PSN expected next
  cq,        \* completions pushed for this queue, oldest first
  posted,    \* number of post_send calls so far (bounded by MaxPosts)
  tx,        \* packets the last call handed to send()
  fault      \* "none", or the exception that ended the program

vars == <<qps, sq, ssn, sqPsn, mpsn, mssn, preOp, pend, reqSsn, rdAtomic,
          timerOn, respSsn, readPsn, cq, posted, tx, fault>>

NoPsn == -1     \* Python None as the first PSN of a context with no packet

Ssn == 0 .. (MAX_SSN - 1)

next_ssn(s) == (s + 1) % MAX_SSN

ssn_range(start, end) == RangeSet(start, end, MAX_SSN)

-----------------------------------------------------------------------------
(***************************************************************************)
(* Contexts.  A WorkReqCtx holds the work request, its first PSN and the   *)
(* retry counters of each of its packets, by PSN; both start at 1.         *)
(***************************************************************************)
FreshAtZero == [rnr |-> 0, other |-> 0]

Fresh == [rnr |-> 1, other |-> 1]

WrCtx(w, first, psns) == [wr |-> w, first |-> first, pkts |-> [p \in psns |-> Fresh]]

\* maybe_retry_one_wr takes the packets of a context to lie below this PSN.
PsnEnd(c) == (c.first + Cardinality(DOMAIN c.pkts)) % MAX_PSN

(***************************************************************************)
(* The PSNs under which the packets of a new request are recorded: one for *)
(* a read or an atomic, otherwise sq_psn + i with no reduction modulo      *)
(* MAX_PSN (sq_psn itself is reduced).  The header field keeps 24 bits.    *)
(***************************************************************************)
ReqPsns(w) == IF ReadOrAtomic(w) THEN {sqPsn} ELSE sqPsn .. (sqPsn + w.n - 1)

(***************************************************************************)
(* A packet on the wire: the WR it belongs to, its PSN, its place in the   *)
(* message, and whether it asks for an acknowledgement.  len is the number *)
(* of response packets a read asks for.                                    *)
(***************************************************************************)
Place(c, p) ==
  LET i == p - c.first IN
  IF ReadOrAtomic(c.wr) \/ c.wr.n = 1 THEN "ONLY"
  ELSE IF i = 0 THEN "FIRST" ELSE IF i = c.wr.n - 1 THEN "LAST" ELSE "MIDDLE"

Packet(s, c, p) ==
  [ssn |-> s, op |-> c.wr.op, psn |-> p % MAX_PSN, place |-> Place(c, p),
   ackreq |-> ReadOrAtomic(c.wr) \/ (c.wr.sig /\ Place(c, p) \in {"LAST", "ONLY"}),
   len |-> IF c.wr.op = "READ" THEN c.wr.n - RangeLen(c.first, p, MAX_PSN) ELSE 1]

-----------------------------------------------------------------------------
Init ==
  /\ qps = "RTS" /\ sq = <<>> /\ ssn = 1
  /\ sqPsn = InitPsn /\ mpsn = InitPsn /\ mssn = 1
  /\ preOp = "NONE" /\ pend = EmptyFcn /\ reqSsn = EmptyFcn
  /\ rdAtomic = 0 /\ timerOn = FALSE
  /\ respSsn = EmptyFcn /\ readPsn = EmptyFcn
  /\ cq = <<>> /\ posted = 0 /\ tx = {} /\ fault = "none"

Running == fault = "none"

(***************************************************************************)
(* QP.post_send and SQ.push.  A WR the assertions refuse changes nothing.  *)
(***************************************************************************)
PostSend(w) ==
  /\ Running /\ qps = "RTS" /\ posted < MaxPosts
  /\ sq' = Append(sq, w)
  /\ posted' = posted + 1
  /\ tx' = {}
  /\ UNCHANGED <<qps, ssn, sqPsn, mpsn, mssn, preOp, pend, reqSsn, rdAtomic,
                 timerOn, respSsn, readPsn, cq, fault>>

busyLate == \/ rdAtomic > max_dest_rd_atomic
            \/ Cardinality(DOMAIN pend) >= MAX_PENDING_REQ_NUM

busy == \/ rdAtomic >= max_dest_rd_atomic
        \/ Cardinality(DOMAIN pend) >= MAX_PENDING_REQ_NUM

(***************************************************************************)
(* QP.process_one_sr: pop the oldest WR, register its context, send its    *)
(* packets; a read also registers the PSN of every response it expects.    *)
(***************************************************************************)
ProcessReq ==
  /\ Running /\ qps = "RTS" /\ sq # <<>> /\ ~busy
  /\ LET w == Head(sq)
         c == WrCtx(w, sqPsn, ReqPsns(w))
         end == (sqPsn + w.n) % MAX_PSN
     IN  /\ sq' = Tail(sq)
         /\ ssn' = next_ssn(ssn)
         /\ sqPsn' = end
         /\ pend' = Put(pend, ssn, c)
         /\ reqSsn' = [p \in DOMAIN reqSsn \cup ReqPsns(w) |->
                         IF p \in ReqPsns(w) THEN ssn ELSE reqSsn[p]]
         /\ rdAtomic' = IF ReadOrAtomic(w) THEN rdAtomic + 1 ELSE rdAtomic
         /\ timerOn' = (timerOn \/ ReadOrAtomic(w) \/ w.sig)
         /\ IF w.op = "READ"
              THEN /\ respSsn' = [p \in DOMAIN respSsn \cup psn_range(sqPsn, end) |->
                                    IF p \in psn_range(sqPsn, end) THEN ssn ELSE respSsn[p]]
                   /\ readPsn' = Put(readPsn, ssn, sqPsn)
              ELSE UNCHANGED <<respSsn, readPsn>>
         /\ tx' = {Packet(ssn, c, p) : p \in ReqPsns(w)}
  /\ UNCHANGED <<qps, mpsn, mssn, preOp, cq, posted, fault>>

-----------------------------------------------------------------------------
(***************************************************************************)
(* What is left after the WRs from mssn up to and without h were deleted   *)
(* as implicitly acknowledged.                                             *)
(***************************************************************************)
PendAll(h) == pend

PendFrom(h) == Without(pend, ssn_range(mssn, h))

ReqAll(h) == reqSsn

ReqPast(h) == Only(reqSsn, {p \in DOMAIN reqSsn : reqSsn[p] \notin ssn_range(mssn, h) \cup {h}})

ReqFrom(h) == Only(reqSsn, {p \in DOMAIN reqSsn : reqSsn[p] \notin ssn_range(mssn, h)})

(***************************************************************************)
(* SQ.goto_err_state for the packet with PSN p, with contexts P, PSN map R *)
(* and oldest WR m.  The WR of p completes with the error, it must be the  *)
(* oldest one, and the queue is flushed.  RetryLogic.cq calls a CQ object  *)
(* (TypeError) as soon as a context is left, and SQ.flush asks the popped  *)
(* SendWR for wr() (AttributeError) as soon as a posted WR is left.        *)
(***************************************************************************)
GotoErrState(P, R, m, p, status) ==
  /\ qps' = "ERR"
  /\ UNCHANGED <<sqPsn, posted>>
  /\ \/ /\ p \notin DOMAIN R
        /\ fault' = "KeyError"
        /\ pend' = P /\ reqSsn' = R /\ mssn' = m
        /\ UNCHANGED <<sq, ssn, rdAtomic, respSsn, readPsn, cq>>
     \/ /\ p \in DOMAIN R
        /\ LET s    == R[p]
               rest == Without(P, {s})
               left == IF ReadOrAtomic(P[s].wr) THEN rdAtomic - 1 ELSE rdAtomic
           IN /\ cq' = Append(cq, [ssn |-> s, status |-> status])
              /\ reqSsn' = Only(R, {q \in DOMAIN R : R[q] # s})
              /\ \/ /\ s # m
                    /\ fault' = "AssertionError"
                    /\ pend' = rest /\ mssn' = m /\ rdAtomic' = left
                    /\ UNCHANGED <<sq, ssn, respSsn, readPsn>>
                 \/ /\ s = m
                    /\ mssn' = next_ssn(s)
                    /\ respSsn' = EmptyFcn /\ readPsn' = EmptyFcn
                    /\ \/ /\ DOMAIN rest # {}
                          /\ fault' = "TypeError"
                          /\ pend' = rest /\ rdAtomic' = left
                          /\ UNCHANGED <<sq, ssn>>
                       \/ /\ DOMAIN rest = {} /\ sq # <<>>
                          /\ fault' = "AttributeError"
                          /\ sq' = Tail(sq) /\ ssn' = next_ssn(ssn)
                          /\ pend' = Put(rest, ssn, WrCtx(Head(sq), NoPsn, {}))
                          /\ rdAtomic' = IF ReadOrAtomic(Head(sq)) THEN left + 1 ELSE left
                       \/ /\ DOMAIN rest = {} /\ sq = <<>>
                          /\ pend' = EmptyFcn /\ rdAtomic' = left
                          /\ UNCHANGED <<sq, ssn, fault>>

-----------------------------------------------------------------------------
(***************************************************************************)
(* RetryLogic.retry_pkts (all = TRUE) and the single partial_retry_one_wr  *)
(* of a timeout (all = FALSE), after the WRs before h were deleted.        *)
(* Packets go out in SSN order and, within a WR, in PSN order; the first   *)
(* one that has no record (KeyError) or was sent often enough ends it.     *)
(* A retry from the middle of a read's answer records a new read request.  *)
(***************************************************************************)
counter(type) == IF type = "RNR" THEN "rnr" ELSE "other"

limitPlusOne(type) == IF type = "RNR" THEN rnr_retry + 1 ELSE retry_cnt + 1

limit(type) == IF type = "RNR" THEN rnr_retry ELSE retry_cnt

ResendOrder(x, y, from) ==
  \/ (x[1] - from) % MAX_SSN < (y[1] - from) % MAX_SSN
  \/ /\ x[1] = y[1]
     /\ (x[2] - pend[x[1]].first) % MAX_PSN < (y[2] - pend[x[1]].first) % MAX_PSN

Inc(c, field) == [c EXCEPT ![field] = @ + 1]

\* The packets of sent, pairs of an SSN and a PSN, go out once more.
RetryInc(C, sent, field) ==
  [s \in DOMAIN C |->
     [C[s] EXCEPT !.pkts = [p \in DOMAIN C[s].pkts |->
       IF <<s, p>> \in sent THEN Inc(C[s].pkts[p], field) ELSE C[s].pkts[p]]]]

Retry(h, from, type, all) ==
  LET partial == from \notin DOMAIN reqSsn
      cur     == IF partial THEN respSsn[from] ELSE reqSsn[from]
      ctxs    == IF partial THEN [PendFrom(h) EXCEPT ![cur].pkts = Put(@, from, Fresh)]
                            ELSE PendFrom(h)
      reqs    == IF partial THEN Put(ReqFrom(h), from, cur) ELSE ReqFrom(h)
      begin   == IF partial THEN {from} ELSE psn_range(from, PsnEnd(pend[cur]))
      later   == IF all THEN ssn_range(next_ssn(cur), ssn) ELSE {}
      plan    == ({cur} \X begin) \cup
                   UNION {{s} \X psn_range(pend[s].first, PsnEnd(pend[s])) : s \in later}
      lost(x) == x[2] \notin DOMAIN ctxs[x[1]].pkts
      done(x) == ~lost(x) /\ ctxs[x[1]].pkts[x[2]][counter(type)] >= limit(type)
      bad     == {x \in plan : lost(x) \/ done(x)}
      stops   == {x \in bad : \A y \in bad \ {x} : ResendOrder(x, y, cur)}
      sent    == {x \in plan \ bad : \A y \in bad : ResendOrder(x, y, cur)}
      bumped  == RetryInc(ctxs, sent, counter(type))
      inOrder == /\ psn_compare(pend[cur].first, from, sqPsn) <= 0
                 /\ psn_compare(from, PsnEnd(pend[cur]), sqPsn) <= 0
      known   == partial => from \in DOMAIN respSsn
  IN  \/ /\ ~known \/ (~partial /\ ~inOrder)
         /\ fault' = "AssertionError"
         /\ pend' = PendFrom(h) /\ reqSsn' = ReqFrom(h) /\ mssn' = h /\ tx' = {}
         /\ UNCHANGED <<qps, sq, ssn, sqPsn, rdAtomic, respSsn, readPsn, cq, posted>>
      \/ /\ known /\ (partial \/ inOrder)
         /\ tx' = {Packet(x[1], ctxs[x[1]], x[2]) : x \in sent}
         /\ \/ /\ \A x \in stops : lost(x)
               /\ fault' = IF stops = {} THEN "none" ELSE "KeyError"
               /\ pend' = bumped /\ reqSsn' = reqs /\ mssn' = h
               /\ UNCHANGED <<qps, sq, ssn, sqPsn, rdAtomic, respSsn, readPsn, cq, posted>>
            \/ \E x \in stops :
                 /\ done(x)
                 /\ GotoErrState(bumped, reqs, h, x[2],
                      IF type = "RNR" THEN "RNR_RETRY_EXC_ERR" ELSE "RETRY_EXC_ERR")

-----------------------------------------------------------------------------
(***************************************************************************)
(* Receiving a response (QP.recv_pkt, RespLogic).                          *)
(***************************************************************************)
upToNextPsn(p) == mpsn # sqPsn /\ psn_compare(sqPsn, p, sqPsn) > 0

is_expected_resp(p) ==
  /\ mpsn # sqPsn
  /\ psn_compare(mpsn, p, sqPsn) <= 0
  /\ psn_compare(sqPsn, p, sqPsn) > 0

\* is_expected_resp asserts that the window of unanswered PSNs is below half.
WindowOverrun == mpsn # sqPsn /\ ~(psn_compare(mpsn, sqPsn, sqPsn) < 0)

\* Util.check_pre_cur_ops on responses; it asserts, so FALSE is an exception.
LegalSequence(op) ==
  /\ preOp \in {"READ_FIRST", "READ_MIDDLE"}
       => op \in {"READ_MIDDLE", "READ_LAST", "ACK"}
  /\ preOp \in {"READ_LAST", "READ_ONLY", "ATOMIC_ACK", "ACK"}
       => op \notin {"READ_MIDDLE", "READ_LAST"}

Known(r) ==
  \/ r.psn \in DOMAIN reqSsn
  \/ r.psn \in DOMAIN respSsn /\ (r.op \in ReadOps \/ (r.op = "ACK" /\ r.aeth # "ACK"))

\* The WR the response belongs to.
Cur(r) == IF r.psn \in DOMAIN reqSsn THEN reqSsn[r.psn] ELSE respSsn[r.psn]

(***************************************************************************)
(* The WRs before the one of the response are implicitly acknowledged, in  *)
(* order, up to the first read or atomic, which has to be retried instead. *)
(* A READ_LAST acknowledges nothing before its own WR.                     *)
(***************************************************************************)
FirstToRetry(h, s) ==
  /\ h \in ssn_range(mssn, s) /\ ReadOrAtomic(pend[h].wr)
  /\ \A k \in ssn_range(mssn, h) : ~ReadOrAtomic(pend[k].wr)

ImplicitNakAtomic(r) ==
  r.op # "READ_LAST" /\ \E h \in ssn_range(mssn, Cur(r)) : pend[h].wr.op = "ATOMIC"

ImplicitNak(r) ==
  r.op # "READ_LAST" /\ \E h \in ssn_range(mssn, Cur(r)) : ReadOrAtomic(pend[h].wr)

\* The oldest WR left by the implicit acknowledgements, when they all succeed.
Unacked(r) == IF r.op = "READ_LAST" THEN mssn ELSE Cur(r)

Expected(r) ==
  /\ Running /\ qps = "RTS" /\ ~WindowOverrun
  /\ is_expected_resp(r.psn) /\ LegalSequence(r.op) /\ Known(r)

MpsnAt(r) == IF r.op = "READ_LAST" THEN mpsn ELSE r.psn

\* The contexts left after the completion of WR s (RespLogic.delete_wr).
KeepWr(h, s) == PendFrom(h)

DeleteWr(h, s) == Without(PendFrom(h), {s})

\* recv_pkt restarts the timer unless an exception went through it.
TimerStops == timerOn' = (fault' # "none" /\ timerOn)

TimerAfterRecv ==
  timerOn' = IF fault' = "none" THEN DOMAIN pend' # {}
             ELSE timerOn \/ ( /\ fault' = "AttributeError"
                               /\ ReadOrAtomic(Head(sq)) \/ Head(sq).sig )

ReadData(r, last) ==
  /\ r.op \in ReadOps /\ Cur(r) \in DOMAIN readPsn
  /\ r.psn = readPsn[Cur(r)]
  /\ last <=> r.op \in {"READ_LAST", "READ_ONLY"}

LastReadPsn(s) == (pend[s].first + pend[s].wr.n - 1) % MAX_PSN

(***************************************************************************)
(* A response that acknowledges part of a WR, or, with a reserved code,    *)
(* nothing: the packet before the last of a message, a READ_FIRST or       *)
(* READ_MIDDLE.                                                            *)
(***************************************************************************)
RecvPartial(r) ==
  /\ Expected(r) /\ ~ImplicitNak(r)
  /\ LET s == Cur(r) IN
     /\ \/ /\ r.op = "ACK" /\ r.aeth = "ACK" /\ ~ReadOrAtomic(pend[s].wr)
           /\ Place(pend[s], r.psn) \notin {"LAST", "ONLY"}
           /\ UNCHANGED readPsn
        \/ /\ r.op = "ACK" /\ r.aeth = "RESERVED"
           /\ UNCHANGED readPsn
        \/ /\ ReadData(r, FALSE)
           /\ readPsn' = [readPsn EXCEPT ![s] = next_psn(@)]
     /\ mpsn' = IF r.aeth = "ACK" THEN next_psn(r.psn) ELSE r.psn
     /\ pend' = PendFrom(s) /\ reqSsn' = ReqFrom(s) /\ mssn' = s
  /\ preOp' = r.op /\ tx' = {}
  /\ UNCHANGED <<qps, sq, ssn, sqPsn, rdAtomic, respSsn, cq, posted, fault>>
  /\ TimerAfterRecv

(***************************************************************************)
(* A response that completes its WR.  The completion is pushed before      *)
(* delete_wr asserts that the WR is the oldest one.                        *)
(***************************************************************************)
RecvComplete(r) ==
  /\ Expected(r) /\ ~ImplicitNak(r)
  /\ LET s == Cur(r)
         h == Unacked(r)
     IN
     /\ \/ /\ r.op = "ACK" /\ r.aeth = "ACK" /\ ~ReadOrAtomic(pend[s].wr)
           /\ Place(pend[s], r.psn) \in {"LAST", "ONLY"}
        \/ r.op = "ATOMIC_ACK"
        \/ ReadData(r, TRUE) /\ r.psn = LastReadPsn(s)
     /\ mpsn' = next_psn(r.psn)
     /\ cq' = Append(cq, [ssn |-> s, status |-> "SUCCESS"])
     /\ pend' = DeleteWr(h, s)
     /\ reqSsn' = Only(ReqFrom(h), {p \in DOMAIN ReqFrom(h) : reqSsn[p] # s})
     /\ rdAtomic' = IF ReadOrAtomic(pend[s].wr) THEN rdAtomic - 1 ELSE rdAtomic
     /\ \/ /\ s = h
           /\ mssn' = next_ssn(s)
           /\ respSsn' = Only(respSsn, {p \in DOMAIN respSsn : respSsn[p] # s})
           /\ readPsn' = Without(readPsn, {s})
           /\ UNCHANGED fault
        \/ /\ s # h
           /\ mssn' = h /\ fault' = "AssertionError"
           /\ UNCHANGED <<respSsn, readPsn>>
  /\ preOp' = r.op /\ tx' = {}
  /\ UNCHANGED <<qps, sq, ssn, sqPsn, posted>>
  /\ TimerAfterRecv

(***************************************************************************)
(* A response that makes the requester retry: an implicit NAK (the code    *)
(* raises before it moves min_unacked_psn), an ACK where a read or an      *)
(* atomic wants its answer, an RNR or sequence NAK, and read data out of   *)
(* order.                                                                  *)
(***************************************************************************)
RecvRetry(r) ==
  /\ Expected(r)
  /\ LET s == Cur(r)
         h == Unacked(r)
     IN \/ /\ ImplicitNak(r)
           /\ mpsn' = mpsn
           /\ \E k \in Ssn : /\ FirstToRetry(k, s)
                             /\ Retry(k, pend[k].first, "IMPLICIT", TRUE)
        \/ /\ ~ImplicitNak(r) /\ mpsn' = MpsnAt(r)
           /\ \/ /\ r.op = "ACK" /\ r.aeth = "ACK" /\ ReadOrAtomic(pend[s].wr)
                 /\ Retry(h, pend[s].first, "IMPLICIT", TRUE)
              \/ /\ r.op = "ACK" /\ r.aeth = "RNR"
                 /\ Retry(h, r.psn, "RNR", TRUE)
              \/ /\ r.op = "ACK" /\ r.aeth = "NAK_SEQ"
                 /\ Retry(h, r.psn, "SEQ", TRUE)
              \/ /\ r.op \in ReadOps /\ s \in DOMAIN readPsn /\ r.psn # readPsn[s]
                 /\ Retry(h, readPsn[s], "READ_RESP_SEQ", TRUE)
  /\ preOp' = r.op
  /\ TimerAfterRecv

(***************************************************************************)
(* A response that ends the connection: a NAK that must not be retried,    *)
(* and a last read response at another PSN than the last one of the WR.    *)
(***************************************************************************)
RecvError(r) ==
  /\ Expected(r) /\ ~ImplicitNak(r)
  /\ LET h == Unacked(r) IN
     \/ /\ r.op = "ACK" /\ r.aeth \in NakErrors
        /\ GotoErrState(PendFrom(h), ReqFrom(h), h, r.psn, r.aeth)
     \/ /\ ReadData(r, TRUE) /\ r.psn # LastReadPsn(Cur(r))
        /\ GotoErrState(PendFrom(h), ReqFrom(h), h, r.psn, "LOC_LEN_ERR")
  /\ mpsn' = MpsnAt(r) /\ preOp' = r.op /\ tx' = {}
  /\ TimerAfterRecv

(***************************************************************************)
(* A response nobody waits for is ignored, with two assertions if it is an *)
(* unsolicited acknowledgement of the PSN before min_unacked_psn.          *)
(***************************************************************************)
RecvUnexpected(r) ==
  /\ Running /\ qps = "RTS" /\ ~WindowOverrun /\ ~is_expected_resp(r.psn)
  /\ fault' = IF /\ mpsn # sqPsn
                 /\ psn_compare(r.psn, mpsn, sqPsn) < 0 /\ next_psn(r.psn) = mpsn
                 /\ r.aeth # "ACK"
              THEN "AssertionError" ELSE "none"
  /\ tx' = {}
  /\ UNCHANGED <<qps, sq, ssn, sqPsn, mpsn, mssn, preOp, pend, reqSsn, rdAtomic,
                 respSsn, readPsn, cq, posted>>
  /\ TimerAfterRecv

(***************************************************************************)
(* The responses whose handler fails before it does anything else: an      *)
(* illegal sequence, a PSN no request has, a read response to another WR.  *)
(***************************************************************************)
RecvCrash(r) ==
  /\ Running /\ tx' = {}
  /\ \/ /\ \/ qps = "ERR" \/ WindowOverrun
           \/ is_expected_resp(r.psn) /\ ~LegalSequence(r.op)
        /\ fault' = "AssertionError"
        /\ UNCHANGED <<preOp, mpsn, mssn, pend, reqSsn>>
     \/ /\ qps = "RTS" /\ ~WindowOverrun
        /\ is_expected_resp(r.psn) /\ LegalSequence(r.op) /\ ~Known(r)
        /\ fault' = IF r.op \in ReadOps \/ (r.op = "ACK" /\ r.aeth # "ACK")
                    THEN "KeyError" ELSE "AssertionError"
        /\ preOp' = r.op
        /\ UNCHANGED <<mpsn, mssn, pend, reqSsn>>
     \/ /\ Expected(r) /\ ~ImplicitNak(r)
        /\ r.op \in ReadOps /\ Cur(r) \notin DOMAIN readPsn
        /\ fault' = "KeyError" /\ preOp' = r.op
        /\ mpsn' = MpsnAt(r) /\ mssn' = Unacked(r)
        /\ pend' = PendFrom(Unacked(r)) /\ reqSsn' = ReqFrom(Unacked(r))
  /\ UNCHANGED <<qps, sq, ssn, sqPsn, rdAtomic, timerOn, respSsn, readPsn, cq, posted>>

RecvResponse(r) ==
  \/ RecvPartial(r) \/ RecvComplete(r) \/ RecvRetry(r) \/ RecvError(r)
  \/ RecvUnexpected(r) \/ RecvCrash(r)

-----------------------------------------------------------------------------
(***************************************************************************)
(* QP.check_timeout_and_retry.  Each check restarts the timer, whatever it *)
(* found: it stops when nothing is outstanding, and otherwise counts from  *)
(* now on, also for WRs that ask for no answer.  CheckEarly is a check     *)
(* with nothing older than the timeout, CheckTimeout one with the oldest   *)
(* request overdue: it resends the WR of min_unacked_psn from there.  An   *)
(* exception (the one that reports the retry limit included) skips the     *)
(* restart.                                                                *)
(***************************************************************************)
CheckEarly ==
  /\ Running
  /\ timerOn' = (DOMAIN pend # {})
  /\ tx' = {}
  /\ UNCHANGED <<qps, sq, ssn, sqPsn, mpsn, mssn, preOp, pend, reqSsn, rdAtomic,
                 respSsn, readPsn, cq, posted, fault>>

CheckTimeout ==
  /\ Running /\ timerOn
  /\ \/ /\ ~(psn_compare(mpsn, sqPsn, sqPsn) < 0 /\ mpsn \in DOMAIN reqSsn)
        /\ fault' = IF psn_compare(mpsn, sqPsn, sqPsn) < 0
                    THEN "KeyError" ELSE "AssertionError"
        /\ tx' = {}
        /\ UNCHANGED <<qps, sq, ssn, sqPsn, mssn, pend, reqSsn, rdAtomic,
                       respSsn, readPsn, cq, posted>>
     \/ /\ psn_compare(mpsn, sqPsn, sqPsn) < 0 /\ mpsn \in DOMAIN reqSsn
        /\ Retry(mssn, mpsn, "TIMEOUT", FALSE)
  /\ UNCHANGED <<mpsn, preOp, timerOn>>

Next ==
  \/ \E w \in WorkReqs : PostSend(w)
  \/ ProcessReq
  \/ \E r \in Responses : r.psn \in RespPsns /\ RecvResponse(r)
  \/ CheckEarly
  \/ CheckTimeout

Spec == Init /\ [][Next]_vars

-----------------------------------------------------------------------------
(***************************************************************************)
(* How long a connection lives: fewer WRs than there are SSNs, and         *)
(* requests of at most N packets that end before the PSNs wrap.  Three of  *)
(* the properties are proved for such connections.                         *)
(***************************************************************************)
FewPosts == MaxPosts + 1 < MAX_SSN

FewPsns(N) ==
  /\ \A w \in WorkReqs : w.n <= N
  /\ InitPsn + MaxPosts * N < MAX_PSN

\* A WR needs an answer when it is a read, an atomic or was posted with the
\* SIGNALED flag.
NeedsAnswer(w) == ReadOrAtomic(w) \/ w.sig

Faults == {"none", "AssertionError", "KeyError", "TypeError", "AttributeError"}

Statuses == {"SUCCESS", "LOC_LEN_ERR", "RETRY_EXC_ERR", "RNR_RETRY_EXC_ERR"} \cup NakErrors

IsCtx(c) ==
  /\ c = [wr |-> c.wr, first |-> c.first, pkts |-> c.pkts]
  /\ c.wr \in WorkReqs
  /\ c.first \in Psn \cup {NoPsn}
  /\ c.pkts \in [DOMAIN c.pkts -> [rnr : Nat \ {0}, other : Nat \ {0}]]

\* The state has the types the code's classes give it: SSNs and PSNs are reduced
\* and a packet that was registered counts as sent at least once.
TypeOK ==
  /\ qps \in {"RTS", "ERR"}
  /\ sq \in Seq(WorkReqs)
  /\ ssn \in Ssn /\ mssn \in Ssn
  /\ sqPsn \in Psn /\ mpsn \in Psn
  /\ preOp \in RespOps \cup {"NONE"}
  /\ DOMAIN pend \subseteq Ssn
  /\ \A s \in DOMAIN pend : IsCtx(pend[s])
  /\ reqSsn \in [DOMAIN reqSsn -> Ssn]
  /\ rdAtomic \in Int
  /\ timerOn \in BOOLEAN
  /\ respSsn \in [DOMAIN respSsn -> Ssn] /\ DOMAIN respSsn \subseteq Psn
  /\ readPsn \in [DOMAIN readPsn -> Psn] /\ DOMAIN readPsn \subseteq Ssn
  /\ cq \in Seq([ssn : Ssn, status : Statuses])
  /\ posted \in 0 .. MaxPosts
  /\ fault \in Faults

\* The outstanding WRs are those from min_unakced_wr_ssn up to the next SSN,
\* with no hole: responses that arrive out of order, acknowledge implicitly or
\* start a retry neither lose a WR nor leave one behind.
PendingIsWindow ==
  Running /\ qps = "RTS" => DOMAIN pend = ssn_range(mssn, ssn)

\* The PSN index (req_pkt_psn_wr_ssn_dict) and the packets of the contexts
\* agree in both directions, also after partial read retries added packets.
PsnIndexConsistent ==
  Running =>
    /\ \A s \in DOMAIN pend : \A p \in DOMAIN pend[s].pkts :
         p \in DOMAIN reqSsn /\ reqSsn[p] = s
    /\ \A p \in DOMAIN reqSsn :
         reqSsn[p] \in DOMAIN pend /\ p \in DOMAIN pend[reqSsn[p]].pkts

\* A response context and response PSNs are kept exactly for the outstanding
\* reads: no response is ever matched to a read that is done.
ReadIndexConsistent ==
  Running =>
    /\ DOMAIN readPsn = {s \in DOMAIN pend : pend[s].wr.op = "READ"}
    /\ \A s \in DOMAIN readPsn :
         {p \in DOMAIN respSsn : respSsn[p] = s} =
           psn_range(pend[s].first, (pend[s].first + pend[s].wr.n) % MAX_PSN)
    /\ \A p \in DOMAIN respSsn : respSsn[p] \in DOMAIN readPsn

\* pending_rd_atomic_wr_num counts the outstanding reads and atomics and stays
\* within max_dest_rd_atomic.
RdAtomicCount ==
  Running =>
    /\ rdAtomic = Cardinality({s \in DOMAIN pend : ReadOrAtomic(pend[s].wr)})
    /\ rdAtomic <= max_dest_rd_atomic

\* While a WR that needs an answer is outstanding on a working queue pair the
\* retransmission timer runs: such a WR is never forgotten.
TimerCoversPending ==
  Running /\ (\E s \in DOMAIN pend : NeedsAnswer(pend[s].wr)) => timerOn

WithinBudget(c) ==
  \A p \in DOMAIN c.pkts : c.pkts[p].rnr <= rnr_retry /\ c.pkts[p].other <= retry_cnt

\* No packet is sent more often than the queue pair allows.
RetryBudget == \A s \in DOMAIN pend : WithinBudget(pend[s])

\* A WR completes at most once, in the order of posting, and not while it is
\* outstanding; an error completion is the last one.
CompletionsInOrder ==
  /\ \A i, j \in DOMAIN cq : i < j =>
       cq[i].ssn < cq[j].ssn /\ (Running => cq[i].status = "SUCCESS")
  /\ Running => \A i \in DOMAIN cq : cq[i].ssn \notin DOMAIN pend

\* min_unacked_psn only moves forward, up to the next PSN.
MpsnAdvances ==
  [][(mpsn' - mpsn) % MAX_PSN <= (sqPsn' - mpsn) % MAX_PSN]_vars
=============================================================================
