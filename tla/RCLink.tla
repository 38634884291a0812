------------------------------- MODULE RCLink -------------------------------
(***************************************************************************)
(* A reliable connection of the RoCEv2 emulator: a requester and a         *)
(* responder joined by UDP/IP.  Each direction is a queue; a packet may be *)
(* lost, overtaken by others or delivered twice.  The driver of the        *)
(* requester (RoCEv2.recv_pkts) takes packets as they come and checks the  *)
(* timer when it hears nothing; with LateAnswers the silence may just be a *)
(* slow network.  How often it checks is up to the driver.                 *)
(***************************************************************************)
EXTENDS Requester, Responder

CONSTANTS
  MaxMishaps,   \* bound: packets lost, delayed or duplicated in a behaviour
  LateAnswers,  \* may a check come with packets still in the network?
  Patience      \* steps of time until a request is overdue; with 0 time is
                \* left out, and a check may find it overdue at any moment

\* The responder was told the requester's first PSN, and refuses with statuses
\* the requester knows.
ASSUME LinkAssumption ==
  /\ RespInitPsn = InitPsn
  /\ Refusals \subseteq NakErrors
  /\ MaxMishaps \in Nat /\ Patience \in Nat
  /\ LateAnswers \in BOOLEAN

VARIABLES
  reqCh,   \* packets under way to the responder
  respCh,  \* packets under way to the requester
  mishaps, \* number of packets lost, delayed or duplicated so far
  age      \* steps of time since oldest_sent_ts_ns was set

linkVars == <<vars, rvars, reqCh, respCh, mishaps, age>>

-----------------------------------------------------------------------------
\* The packets of one call in the order of its send() calls.
Sorted(packets, Before(_, _)) ==
  {q \in [1 .. Cardinality(packets) -> packets] :
     \A i, j \in DOMAIN q : i < j => Before(q[i], q[j])}

InPsnOrder(packets, first) ==
  Sorted(packets, LAMBDA x, y : (x.psn - first) % MAX_PSN < (y.psn - first) % MAX_PSN)

\* A requester sends WRs in the order of their SSNs, which is that of their PSNs.
\* No PSN from sq_psn on is in use, so the oldest is the first one after it.
InOrder(packets) == InPsnOrder(packets, sqPsn')

LinkInit ==
  /\ Init /\ RespInit
  /\ reqCh = <<>> /\ respCh = <<>> /\ mishaps = 0 /\ age = 0

\* The requester's program acts; what it sends enters the network.
RequesterStep ==
  /\ \/ \E w \in WorkReqs : PostSend(w)
     \/ ProcessReq
  /\ \E q \in InOrder(tx') : reqCh' = reqCh \o q
  /\ UNCHANGED <<rvars, respCh, mishaps, age>>

\* Time passes while the timer runs.
Elapse ==
  /\ timerOn /\ age < Patience /\ age' = age + 1
  /\ UNCHANGED <<vars, rvars, reqCh, respCh, mishaps>>

(***************************************************************************)
(* The driver heard nothing and checks the timer, before the oldest        *)
(* request is overdue (EarlyStep) or after (TimeoutStep).  Either way it   *)
(* starts from zero again, but for an exception (the retry limit, which    *)
(* ends in the error state, included).                                     *)
(***************************************************************************)
Silence == LateAnswers \/ (reqCh = <<>> /\ respCh = <<>>)

EarlyStep ==
  /\ Silence /\ (age < Patience \/ Patience = 0)
  /\ CheckEarly /\ age' = 0
  /\ UNCHANGED <<rvars, reqCh, respCh, mishaps>>

TimeoutStep ==
  /\ Silence /\ age = Patience
  /\ CheckTimeout
  /\ age' = IF fault' = "none" /\ qps' = "RTS" THEN 0 ELSE age
  /\ \E q \in InOrder(tx') : reqCh' = reqCh \o q
  /\ UNCHANGED <<rvars, respCh, mishaps>>

\* Every response restarts the timer, also one that nobody waits for.
DeliverResponse ==
  /\ respCh # <<>> /\ ~Wrapped(Head(respCh)) /\ RecvResponse(Head(respCh))
  /\ age' = IF fault' = "none" THEN 0 ELSE age
  /\ \E q \in InOrder(tx') : reqCh' = reqCh \o q
  /\ respCh' = Tail(respCh)
  /\ UNCHANGED <<rvars, mishaps>>

(***************************************************************************)
(* A saved response that was wrapped into a second packet seems to be for  *)
(* a queue pair that does not exist.  recv_pkts skips it when the driver   *)
(* named the queue pair it waits for; otherwise an assertion fails.        *)
(***************************************************************************)
DeliverWrapped ==
  /\ Running /\ respCh # <<>> /\ Wrapped(Head(respCh))
  /\ fault' \in {"none", "AssertionError"} /\ tx' = {}
  /\ respCh' = Tail(respCh)
  /\ UNCHANGED <<qps, sq, ssn, sqPsn, mpsn, mssn, preOp, pend, reqSsn, rdAtomic, timerOn,
                 respSsn, readPsn, cq, posted, rvars, reqCh, mishaps, age>>

DeliverRequest ==
  /\ reqCh # <<>> /\ RecvRequest(Head(reqCh))
  /\ reqCh' = Tail(reqCh)
  /\ \E q \in InPsnOrder(out', Head(reqCh).psn) : respCh' = respCh \o q
  /\ UNCHANGED <<vars, mishaps, age>>

ResponderStep ==
  /\ PostRecv \/ RnrTimeout
  /\ UNCHANGED <<vars, reqCh, respCh, mishaps, age>>

\* A queue after packet i is lost, falls behind all others, or is copied.
Disturbed(ch) ==
  UNION {LET rest == SubSeq(ch, 1, i - 1) \o SubSeq(ch, i + 1, Len(ch))
         IN  {rest, Append(rest, ch[i]), Append(ch, ch[i])} : i \in DOMAIN ch}

Mishap ==
  /\ mishaps < MaxMishaps /\ mishaps' = mishaps + 1
  /\ \/ reqCh' \in Disturbed(reqCh) /\ UNCHANGED respCh
     \/ respCh' \in Disturbed(respCh) /\ UNCHANGED reqCh
  /\ UNCHANGED <<vars, rvars, age>>

\* A packet for a program that has ended goes nowhere.
Discard ==
  \/ /\ fault # "none" /\ respCh # <<>> /\ respCh' = Tail(respCh)
     /\ UNCHANGED <<vars, rvars, reqCh, mishaps, age>>
  \/ /\ rfault # "none" /\ reqCh # <<>> /\ reqCh' = Tail(reqCh)
     /\ UNCHANGED <<vars, rvars, respCh, mishaps, age>>

LinkNext ==
  \/ RequesterStep \/ Elapse \/ EarlyStep \/ TimeoutStep
  \/ DeliverResponse \/ DeliverWrapped
  \/ DeliverRequest \/ ResponderStep \/ Mishap \/ Discard

LinkSpec == LinkInit /\ [][LinkNext]_linkVars

(***************************************************************************)
(* What liveness asks of the drivers, for the library has no thread of its *)
(* own: a posted WR is processed, a packet that stays in the network is    *)
(* received, an overdue timer is checked, the RNR wait ends.  Of checks    *)
(* before that nothing is assumed: they may come for ever or never.        *)
(***************************************************************************)
LinkFairness ==
  /\ WF_linkVars(ProcessReq /\ RequesterStep)
  /\ WF_linkVars(Elapse) /\ WF_linkVars(TimeoutStep)
  /\ WF_linkVars(DeliverResponse) /\ WF_linkVars(DeliverWrapped) /\ WF_linkVars(DeliverRequest)
  /\ WF_linkVars(RnrTimeout /\ ResponderStep) /\ WF_linkVars(Discard)

LinkFairSpec == LinkSpec /\ LinkFairness

-----------------------------------------------------------------------------
\* With requests of at most N packets, those outstanding never take half of the
\* PSNs, as is_expected_resp asserts.  The theorems assume it.
WindowBelowHalf(N) == MAX_PENDING_REQ_NUM * N < HALF

\* One theorem needs room for twice as many: min_unacked_psn may stay behind the
\* WRs an implicit NAK deleted while as many new ones are sent.
TwoWindows(N) == 2 * (MAX_PENDING_REQ_NUM * N) <= HALF

\* The responder executes every message, read and atomic exactly once and in
\* the order of posting, whatever is lost, overtaken, duplicated, answered late or
\* sent again.
ExecutedInOrder == \A i \in DOMAIN done : done[i] = i

\* A WR that completes with success was executed by the responder, and so was
\* every WR before it: an implicit acknowledgement never covers a lost request.
SuccessMeansExecuted ==
  \A i \in DOMAIN cq : cq[i].status = "SUCCESS" => cq[i].ssn <= Len(done)

\* The two ends agree: ePSN of the responder never leaves the requester's
\* window between min_unacked_psn and the next PSN.
EpsnInWindow == (epsn - mpsn) % MAX_PSN <= (sqPsn - mpsn) % MAX_PSN

\* Every PSN from min_unacked_psn up to the next one belongs to an outstanding
\* WR, so that an answer finds its request; but those before the oldest WR,
\* as an implicit NAK deletes the WRs it acknowledges without moving
\* min_unacked_psn past them (handle_expected_resp raises first).
WindowHasOwners ==
  fault = "none" /\ qps = "RTS" =>
    \A i \in 0 .. (RangeLen(mpsn, sqPsn, MAX_PSN) - 1) :
      LET p == (mpsn + i) % MAX_PSN IN
      \/ p \in DOMAIN reqSsn \cup DOMAIN respSsn
      \/ mssn \in DOMAIN pend /\ psn_compare(p, pend[mssn].first, sqPsn) < 0

\* The connection implements the service: posting, execution and completion
\* happen as RCService allows, through loss, reordering, duplication, retries,
\* late answers and errors.
Service == INSTANCE RCService WITH
  accepted <- posted, executed <- Len(done), completions <- cq,
  Errors <- Statuses \ {"SUCCESS"}

ImplementsService == Service!Spec

Awaiting == {s \in DOMAIN pend : NeedsAnswer(pend[s].wr)}

TimerPutOff == []<><<EarlyStep /\ age' < age>>_linkVars

\* A WR that needs an answer does not stay outstanding for ever: it completes,
\* or the queue pair goes to the error state, or the program has ended.  As posts
\* are bounded, a moment comes when none is left.  The one excuse is a driver
\* whose checks come before the timeout for ever: each one restarts the timer, as
\* check_timeout_and_retry does whatever it finds.
EveryRequestSettles ==
  \/ TimerPutOff
  \/ Awaiting # {} ~> (Awaiting = {} \/ fault # "none")
=============================================================================
