---------------------------- MODULE SanitySide ----------------------------
(***************************************************************************)
(* The two servers a test case of the emulator's harness drives.  Side 2   *)
(* is Remu/src/sanity_side.py: gRPC handlers over one queue pair of the    *)
(* emulator per case, which processes packets only while RecvPkt runs.     *)
(* Side 1 is Remu/src/sanity_side.rs over a real NIC, which answers        *)
(* packets by itself.  The handlers are operators on this module's         *)
(* variables; the scripts that call them are in Harness.                   *)
(*                                                                         *)
(* A queue pair has one request of its own outstanding at a time, as in    *)
(* the cases modelled; windows, PSNs and retransmission after a loss are   *)
(* the matter of Requester and RCLink.  A memory region is one value.      *)
(***************************************************************************)
EXTENDS Naturals, Sequences

CONSTANTS
  Contents,   \* what a memory region or a payload may hold
  Blank       \* what a new memory region holds

ASSUME SideAssumption == Blank \in Contents

Requests == {"SEND", "WRITE", "WRITE_IMM", "READ", "ATOMIC"}

Answers == {"ACK", "DATA", "RNR"}

Packet == [qp : Nat \ {0}, kind : Requests \cup Answers, data : Contents, old : Contents]

NoRequest == [kind |-> "none"]

VARIABLES
  retry_count,   \* side 2: the global retry_count
  unblockRetry,  \* side 2: UnblockRetry is "idle", "waiting", or "passed" its loop
  recvPkt,       \* side 2: RecvPkt's phase, the packets still to come, the last one taken
  py,            \* side 2: the case's queue pair, completion queue and memory region
  server,        \* side 1: "up", or "down" after its minute
  nic,           \* side 1: the case's queue pair and memory region
  tasks,         \* side 1: tasks of local_recv waiting for a message, of any case
  copies,        \* side 1: messages received that a task has yet to copy
  toPy,          \* packets in the socket of side 2, of whatever queue pair
  toRust         \* packets on their way to the NIC

calls == <<retry_count, unblockRetry, recvPkt>>
rust == <<server, nic, tasks, copies>>
wire == <<toPy, toRust>>
sideVars == <<retry_count, unblockRetry, recvPkt, py, server, nic, tasks, copies, toPy, toRust>>

NotReceiving == [phase |-> "idle", left |-> 0, last |-> "none"]

NewPy == [qps |-> "INIT", rq |-> 0, sr |-> NoRequest, rnr_retry |-> 0, rnr |-> 0,
          cq |-> <<>>, mr |-> Blank]

NewNic == [qps |-> "INIT", req |-> NoRequest, rnr_retry |-> 0, rnr |-> 0, mr |-> Blank]

SideTypeOK ==
  /\ retry_count \in Nat
  /\ unblockRetry \in {"idle", "waiting", "passed"}
  /\ recvPkt \in [phase : {"idle", "receiving", "blocked"}, left : Nat,
                  last : Requests \cup Answers \cup {"none"}]
  /\ py \in [qps : {"INIT", "RTR", "RTS", "ERR"}, rq : Nat, rnr_retry : Nat, rnr : Nat,
             mr : Contents, sr : Packet \cup {NoRequest}, cq : Seq({"SUCCESS", "RECV", "RNR_RETRY_EXC_ERR"})]
  /\ nic \in [qps : {"INIT", "RTS", "ERR"}, rnr_retry : Nat, rnr : Nat, mr : Contents,
              req : Packet \cup {NoRequest}]
  /\ server \in {"up", "down"} /\ tasks \in Nat /\ copies \in Seq(Contents)
  /\ toPy \in Seq(Packet) /\ toRust \in Seq(Packet)

SideInit ==
  /\ retry_count = 0 /\ unblockRetry = "idle" /\ recvPkt = NotReceiving
  /\ py = NewPy /\ server = "up" /\ nic = NewNic /\ tasks = 0 /\ copies = <<>>
  /\ toPy = <<>> /\ toRust = <<>>

\* A task of local_recv holds RDMA_MAP for reading until it has copied its
\* message; OpenDevice and ConnectQp of side 1 take it for writing.
MapFree == tasks = 0 /\ copies = <<>>

\* OpenDevice, CreateQp and CreateMr of both sides: fresh objects, the globals kept.
SidePrepare ==
  /\ server = "up" /\ MapFree
  /\ py' = NewPy /\ nic' = NewNic
  /\ UNCHANGED <<calls, wire, server, tasks, copies>>

-----------------------------------------------------------------------------
(***************************************************************************)
(* What a responder does with a request, on either side.                   *)
(***************************************************************************)
NeedsRecv(p) == p.kind \in {"SEND", "WRITE_IMM"}

Executed(p, mem) ==
  CASE p.kind \in {"SEND", "WRITE", "WRITE_IMM"} -> p.data
    [] p.kind = "READ"                           -> mem
    [] p.kind = "ATOMIC"                         -> IF mem = p.old THEN p.data ELSE mem

Answer(p, kind, mem) == [qp |-> p.qp, kind |-> kind, data |-> mem, old |-> Blank]

Rnr(p) == Answer(p, "RNR", Blank)

Done(p, mem) ==
  IF p.kind \in {"READ", "ATOMIC"} THEN Answer(p, "DATA", mem) ELSE Answer(p, "ACK", Blank)

-----------------------------------------------------------------------------
(***************************************************************************)
(* Side 2, the handlers that return at once.                               *)
(***************************************************************************)
PyOnly == UNCHANGED <<calls, rust, wire>>

PyConnectQp(rnr) == py' = [py EXCEPT !.qps = "RTS", !.rnr_retry = rnr] /\ PyOnly

PyLocalWrite(content) == py' = [py EXCEPT !.mr = content] /\ PyOnly

\* The queue pair is left in RTR, from which nothing can be sent.
PyLocalRecv ==
  /\ py.qps \in {"RTS", "RTR"}
  /\ py' = [py EXCEPT !.rq = @ + 1, !.qps = "RTR"]
  /\ PyOnly

\* PollComplete takes a completion if there is one.
PyPollComplete == py' = [py EXCEPT !.cq = IF @ = <<>> THEN @ ELSE Tail(@)] /\ PyOnly

\* RemoteSend and its like: post_send and process_one_sr.
PyRemote(p) ==
  /\ py.qps = "RTS" /\ py.sr = NoRequest
  /\ py' = [py EXCEPT !.sr = p, !.rnr = py.rnr_retry]
  /\ toRust' = Append(toRust, p)
  /\ UNCHANGED <<calls, rust, toPy>>

(***************************************************************************)
(* UnblockRetry: the loop reads retry_count without the lock; the          *)
(* decrement is a later step.                                              *)
(***************************************************************************)
UnblockBegin ==
  /\ unblockRetry = "idle"
  /\ unblockRetry' = "waiting"
  /\ UNCHANGED <<retry_count, recvPkt, py, rust, wire>>

UnblockAtOnce ==
  /\ unblockRetry = "waiting"
  /\ unblockRetry' = "passed"
  /\ UNCHANGED <<retry_count, recvPkt, py, rust, wire>>

UnblockPass ==
  /\ unblockRetry = "waiting" /\ retry_count # 0
  /\ unblockRetry' = "passed"
  /\ UNCHANGED <<retry_count, recvPkt, py, rust, wire>>

UnblockReturn ==
  /\ unblockRetry = "passed"
  /\ unblockRetry' = "idle" /\ retry_count' = retry_count - 1
  /\ UNCHANGED <<recvPkt, py, rust, wire>>

(***************************************************************************)
(* RecvPkt: takes cnt packets of the case's queue pair, number qp.  A      *)
(* packet of another queue pair is taken from the socket and not counted.  *)
(***************************************************************************)
RecvBegin(cnt) ==
  /\ recvPkt.phase = "idle"
  /\ recvPkt' = [phase |-> "receiving", left |-> cnt, last |-> "none"]
  /\ UNCHANGED <<retry_count, unblockRetry, py, rust, wire>>

Counted(p) == [phase |-> "receiving", left |-> recvPkt.left - 1, last |-> p.kind]

Waiting == recvPkt.phase = "receiving" /\ recvPkt.left > 0 /\ toPy # <<>>

AnyQueuePair(p, qp) == FALSE

Skipped(p, qp) == p.qp # qp

RecvSkip(qp) ==
  /\ Waiting /\ Skipped(Head(toPy), qp)
  /\ toPy' = Tail(toPy)
  /\ UNCHANGED <<calls, py, rust, toRust>>

\* RXLogic.handle_request: execute, or answer that no receive is posted.
RecvRequest(qp) ==
  LET p == Head(toPy)
      rnr == NeedsRecv(p) /\ py.rq = 0
  IN /\ Waiting /\ ~Skipped(p, qp) /\ p.kind \in Requests
     /\ py.qps \in {"RTS", "RTR"}
     /\ recvPkt' = Counted(p)
     /\ IF rnr THEN UNCHANGED py
        ELSE py' = [py EXCEPT !.mr = Executed(p, @),
                              !.rq = IF NeedsRecv(p) THEN @ - 1 ELSE @,
                              !.cq = IF NeedsRecv(p) THEN Append(@, "RECV") ELSE @]
     /\ toRust' = Append(toRust, IF rnr THEN Rnr(p) ELSE Done(p, py.mr))
     /\ toPy' = Tail(toPy)
     /\ UNCHANGED <<retry_count, unblockRetry, rust>>

\* RespLogic: an ACK or a read or atomic response completes the request.
RecvAnswer(qp) ==
  LET p == Head(toPy)
  IN /\ Waiting /\ ~Skipped(p, qp) /\ p.kind \in {"ACK", "DATA"}
     /\ py.qps \in {"RTS", "RTR"}
     /\ recvPkt' = Counted(p)
     /\ py' = [py EXCEPT !.sr = NoRequest, !.cq = Append(@, "SUCCESS"),
                         !.mr = IF p.kind = "DATA" THEN p.data ELSE @]
     /\ toPy' = Tail(toPy)
     /\ UNCHANGED <<retry_count, unblockRetry, rust, toRust>>

\* process_retry after an RNR NAK: send once more, or give the request up.
Retried ==
  IF py.rnr > 0
  THEN /\ py' = [py EXCEPT !.rnr = @ - 1]
       /\ toRust' = Append(toRust, py.sr)
  ELSE /\ py' = [py EXCEPT !.qps = "ERR", !.sr = NoRequest,
                           !.cq = Append(@, "RNR_RETRY_EXC_ERR")]
       /\ UNCHANGED toRust

CountedOnce(wait_for_retry) == retry_count + 1

Blocked(barrier_cnt) == retry_count + barrier_cnt

\* An RNR NAK: with wait_for_retry the handler first adds the number of
\* UnblockRetry calls it waits for.
RecvRnr(qp, wait_for_retry) ==
  LET p == Head(toPy)
  IN /\ Waiting /\ ~Skipped(p, qp) /\ p.kind = "RNR"
     /\ py.qps \in {"RTS", "RTR"}
     /\ toPy' = Tail(toPy)
     /\ IF wait_for_retry = 0
        THEN recvPkt' = Counted(p) /\ Retried /\ UNCHANGED retry_count
        ELSE /\ recvPkt' = [Counted(p) EXCEPT !.phase = "blocked"]
             /\ retry_count' = Blocked(wait_for_retry)
             /\ UNCHANGED <<py, toRust>>
     /\ UNCHANGED <<unblockRetry, rust>>

RetryReleased ==
  /\ recvPkt.phase = "blocked" /\ retry_count = 0
  /\ recvPkt' = [recvPkt EXCEPT !.phase = "receiving"]
  /\ Retried
  /\ UNCHANGED <<retry_count, unblockRetry, rust, toPy>>

\* RecvPkt returns after the last packet, with a completion polled if asked.
RecvReturn(poll_cqe) ==
  /\ recvPkt.phase = "receiving" /\ recvPkt.left = 0
  /\ recvPkt' = NotReceiving
  /\ py' = IF poll_cqe /\ py.cq # <<>> THEN [py EXCEPT !.cq = Tail(@)] ELSE py
  /\ UNCHANGED <<retry_count, unblockRetry, rust, wire>>

\* recvfrom times out, or an assertion fails: the RPC ends with an exception.
RecvTimeout ==
  /\ recvPkt.phase = "receiving" /\ recvPkt.left > 0 /\ toPy = <<>>
  /\ recvPkt' = NotReceiving
  /\ UNCHANGED <<retry_count, unblockRetry, py, rust, wire>>

RecvAssert(qp) ==
  /\ Waiting /\ ~Skipped(Head(toPy), qp) /\ py.qps \notin {"RTS", "RTR"}
  /\ recvPkt' = NotReceiving /\ toPy' = Tail(toPy)
  /\ UNCHANGED <<retry_count, unblockRetry, py, rust, toRust>>

-----------------------------------------------------------------------------
(***************************************************************************)
(* Side 1: the handlers, and the NIC.                                      *)
(***************************************************************************)
NicOnly == UNCHANGED <<calls, py, wire>>

NicConnectQp(rnr) ==
  /\ MapFree
  /\ nic' = [nic EXCEPT !.qps = "RTS", !.rnr_retry = rnr]
  /\ NicOnly /\ UNCHANGED <<server, tasks, copies>>

NicLocalWrite(content) ==
  /\ nic' = [nic EXCEPT !.mr = content]
  /\ NicOnly /\ UNCHANGED <<server, tasks, copies>>

\* local_recv returns once its task has posted the receive.
NicLocalRecv == tasks' = tasks + 1 /\ NicOnly /\ UNCHANGED <<server, nic, copies>>

NicRemote(p) ==
  /\ nic.qps = "RTS" /\ nic.req = NoRequest
  /\ nic' = [nic EXCEPT !.req = p, !.rnr = nic.rnr_retry]
  /\ toPy' = Append(toPy, p)
  /\ UNCHANGED <<calls, py, server, tasks, copies, toRust>>

\* The NIC gives the request up: the queue pair is in error.
NicFailed == [nic EXCEPT !.qps = "ERR", !.req = NoRequest]

NicGiveUp ==
  /\ nic.req # NoRequest
  /\ nic' = NicFailed
  /\ NicOnly /\ UNCHANGED <<server, tasks, copies>>

\* A packet for another queue pair, or for one not connected, is dropped, and
\* so is an answer that nothing waits for.
NicDrop(qp) ==
  /\ toRust # <<>>
  /\ \/ Head(toRust).qp # qp \/ nic.qps # "RTS"
     \/ Head(toRust).kind \in Answers /\ nic.req = NoRequest
  /\ toRust' = Tail(toRust)
  /\ UNCHANGED <<calls, py, rust, toPy>>

NicAccepts(qp) == toRust # <<>> /\ Head(toRust).qp = qp /\ nic.qps = "RTS"

\* A SEND goes into the buffer of a task, which copies it later.  A write with
\* immediate wakes a task too; it copies nothing (the cases give it length 0), and
\* the moment it still holds RDMA_MAP is left out.
NicRequest(qp) ==
  LET p == Head(toRust)
      rnr == NeedsRecv(p) /\ tasks = 0
  IN /\ NicAccepts(qp) /\ p.kind \in Requests
     /\ IF rnr THEN UNCHANGED <<nic, tasks, copies>>
        ELSE /\ nic' = IF p.kind = "SEND" THEN nic
                       ELSE [nic EXCEPT !.mr = Executed(p, @)]
             /\ tasks' = IF NeedsRecv(p) THEN tasks - 1 ELSE tasks
             /\ copies' = IF p.kind = "SEND" THEN Append(copies, p.data) ELSE copies
     /\ toPy' = Append(toPy, IF rnr THEN Rnr(p) ELSE Done(p, nic.mr))
     /\ toRust' = Tail(toRust)
     /\ UNCHANGED <<calls, py, server>>

NicAnswer(qp) ==
  LET p == Head(toRust)
  IN /\ NicAccepts(qp) /\ p.kind \in Answers /\ nic.req # NoRequest
     /\ toRust' = Tail(toRust)
     /\ IF p.kind = "RNR" /\ nic.rnr > 0
        THEN /\ nic' = [nic EXCEPT !.rnr = @ - 1]
             /\ toPy' = Append(toPy, nic.req)
        ELSE /\ nic' = IF p.kind = "RNR" THEN NicFailed
                       ELSE [nic EXCEPT !.req = NoRequest,
                                        !.mr = IF nic.req.kind = "READ" THEN p.data ELSE @]
             /\ UNCHANGED toPy
     /\ UNCHANGED <<calls, py, server, tasks, copies>>

\* The task of local_recv writes the message into the memory region; a remote
\* operation holds MR_MAP until it is complete.
NicCopy ==
  /\ copies # <<>> /\ nic.req = NoRequest
  /\ nic' = [nic EXCEPT !.mr = Head(copies)] /\ copies' = Tail(copies)
  /\ NicOnly /\ UNCHANGED <<server, tasks>>

\* The server ends a minute after it started, and the queue pair with it.
NicShutdown ==
  /\ server = "up" /\ server' = "down"
  /\ nic' = NicFailed /\ tasks' = 0 /\ copies' = <<>>
  /\ NicOnly
=============================================================================
