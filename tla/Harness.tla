------------------------------ MODULE Harness ------------------------------
(***************************************************************************)
(* The manager of the emulator's test harness, Remu/src/sanity_manager.py  *)
(* and Remu/src/case/base.py: it runs its cases one after another, each as *)
(* two threads that carry out the commands of two scripts, side 1 on the   *)
(* server over a NIC and side 2 on the server over the emulator (module    *)
(* SanitySide).  The threads meet at a barrier that all cases share, and   *)
(* side 1 can hold back side 2's retry with unblock_other.                 *)
(***************************************************************************)
EXTENDS SanitySide, FiniteSets

CONSTANT Cases   \* the cases, each the commands of two scripts after prepare

Remote == [remote_send |-> "SEND", remote_write |-> "WRITE", remote_write_imm |-> "WRITE_IMM",
           remote_read |-> "READ", remote_atomic_cas |-> "ATOMIC"]

\* Commands that change nothing the model tells apart; side 1 has no modify_qp
\* and no set_hook.
Silent == {"sleep", "modify_qp", "notify_cq", "set_hook"}

Command ==
  [name : {"connect_qp"}, rnr_retry : Nat]
  \cup [name : {"local_recv", "unblock_other", "barrier"} \cup Silent]
  \cup [name : {"local_write"}, content : Contents]
  \cup [name : {"local_check"}, expected : Contents]
  \cup [name : {"check_qp_status"}, status : {"INIT", "RTR", "RTS", "ERR"}]
  \cup [name : {"poll_complete"}, status : {"any", "SUCCESS", "RECV"}]
  \cup [name : {"recv_pkt"}, cnt : Nat \ {0}, wait_for_retry : Nat, poll_cqe : BOOLEAN,
        expect : Requests \cup Answers \cup {"any"}]
  \cup [name : DOMAIN Remote, allow_err : BOOLEAN, old : Contents, new : Contents]

ASSUME HarnessAssumption == Cases \in Seq(Seq(Command) \X Seq(Command))

Sides == {1, 2}

Other(s) == 3 - s

VARIABLES
  manager,    \* SanityManager.run: "idle" between cases, "running" one, or how it ended
  caseNo,     \* the case that runs, or ran last
  at,         \* process_command: side -> the command it carries out
  result,     \* process_command: side -> "running", or what it returned
  barrier,    \* GlobalBarrier: its state and the sides waiting in it
  causes      \* what kept the case from its course (history)

scripts == <<at, result>>
managing == <<manager, caseNo>>
harness == <<manager, caseNo, at, result, barrier, causes>>
vars == <<harness, sideVars>>

Causes == {"timeout", "broken", "unconnected", "unready", "uncopied", "qp_state",
           "no_handler"}

HarnessTypeOK ==
  /\ SideTypeOK
  /\ manager \in {"idle", "running", "finished", "aborted"}
  /\ caseNo \in 0 .. Len(Cases)
  /\ at \in [Sides -> Nat \ {0}]
  /\ result \in [Sides -> {"running", "passed", "failed"}]
  /\ barrier \in [state : {"filling", "draining", "broken"}, inside : SUBSET Sides]
  /\ causes \subseteq Causes

Init ==
  /\ SideInit
  /\ manager = "idle" /\ caseNo = 0
  /\ at = [s \in Sides |-> 1] /\ result = [s \in Sides |-> "passed"]
  /\ barrier = [state |-> "filling", inside |-> {}] /\ causes = {}

Script(s) == Cases[caseNo][s]

-----------------------------------------------------------------------------
(***************************************************************************)
(* TestCase.run: prepare both sides, run both scripts, wait for both.      *)
(***************************************************************************)
PrepareCase ==
  /\ manager = "idle" /\ caseNo < Len(Cases)
  /\ manager' = "running" /\ caseNo' = caseNo + 1
  /\ at' = [s \in Sides |-> 1]
  /\ result' = [s \in Sides |-> IF Cases[caseNo'][s] = <<>> THEN "passed" ELSE "running"]
  /\ causes' = IF barrier.state = "broken" THEN {"broken"} ELSE {}
  /\ SidePrepare
  /\ UNCHANGED barrier

\* An exception of prepare ends the manager and the cases to come.
PrepareFails ==
  /\ manager = "idle" /\ caseNo < Len(Cases)
  /\ manager' = "aborted"
  /\ UNCHANGED <<caseNo, scripts, barrier, causes, sideVars>>

Returned(s) == result[s] # "running"

EndCaseEarly ==
  /\ manager = "running" /\ \E s \in Sides : Returned(s)
  /\ manager' = IF caseNo = Len(Cases) THEN "finished" ELSE "idle"
  /\ UNCHANGED <<caseNo, scripts, barrier, causes, sideVars>>

EndCase ==
  /\ manager = "running" /\ \A s \in Sides : Returned(s)
  /\ manager' = IF caseNo = Len(Cases) THEN "finished" ELSE "idle"
  /\ UNCHANGED <<caseNo, scripts, barrier, causes, sideVars>>

-----------------------------------------------------------------------------
(***************************************************************************)
(* process_command: a script stops at the first command that fails.        *)
(***************************************************************************)
Calls(s, names) ==
  /\ manager = "running" /\ result[s] = "running"
  /\ Script(s)[at[s]].name \in names

Cmd(s) == Script(s)[at[s]]

Advance(s) ==
  /\ at' = [at EXCEPT ![s] = @ + 1]
  /\ result' = IF at[s] = Len(Script(s)) THEN [result EXCEPT ![s] = "passed"] ELSE result

Fail(s) == result' = [result EXCEPT ![s] = "failed"] /\ UNCHANGED at

Return(s, ok) == IF ok THEN Advance(s) ELSE Fail(s)

Note(cs) == causes' = causes \cup cs

Plain == UNCHANGED <<managing, barrier, causes>>

\* The packet of a remote command of side s, its payload read from the region.
RequestOf(s, mem) ==
  LET kind == Remote[Cmd(s).name]
  IN [qp |-> caseNo, kind |-> kind,
      data |-> CASE kind = "ATOMIC" -> Cmd(s).new [] kind = "READ" -> Blank [] OTHER -> mem,
      old |-> IF kind = "ATOMIC" THEN Cmd(s).old ELSE Blank]

-----------------------------------------------------------------------------
(***************************************************************************)
(* Commands of side 2.                                                     *)
(***************************************************************************)
Py(names) == Calls(2, names) /\ Plain

PyCommand ==
  \/ Py({"connect_qp"}) /\ PyConnectQp(Cmd(2).rnr_retry) /\ Advance(2)
  \/ Py({"local_write"}) /\ PyLocalWrite(Cmd(2).content) /\ Advance(2)
  \/ Py({"local_recv"}) /\ PyLocalRecv /\ Advance(2)
  \/ Py(DOMAIN Remote) /\ PyRemote(RequestOf(2, py.mr)) /\ Advance(2)
  \/ /\ Py({"poll_complete"}) /\ PyPollComplete
     /\ Return(2, Cmd(2).status = "any" \/ (py.cq # <<>> /\ Head(py.cq) = Cmd(2).status))
  \/ /\ Py({"local_check", "check_qp_status"}) /\ UNCHANGED sideVars
     /\ Return(2, IF Cmd(2).name = "local_check" THEN py.mr = Cmd(2).expected
                  ELSE py.qps = Cmd(2).status)
  \/ Py(Silent) /\ UNCHANGED sideVars /\ Advance(2)
  \/ Py({"unblock_other"}) /\ server = "up" /\ UNCHANGED sideVars /\ Advance(2)

\* The state of the queue pair fails an assertion of the handler.
PyAssert ==
  /\ \/ Calls(2, DOMAIN Remote) /\ py.qps # "RTS"
     \/ Calls(2, {"local_recv"}) /\ py.qps \notin {"RTR", "RTS"}
  /\ Fail(2) /\ Note({"qp_state"}) /\ UNCHANGED <<managing, barrier, sideVars>>

RecvPktCall == Py({"recv_pkt"}) /\ RecvBegin(Cmd(2).cnt) /\ UNCHANGED scripts

RecvPktStep ==
  /\ Py({"recv_pkt"}) /\ UNCHANGED scripts
  /\ RecvSkip(caseNo) \/ RecvRequest(caseNo) \/ RecvAnswer(caseNo)

RecvPktRnr ==
  /\ Calls(2, {"recv_pkt"}) /\ RecvRnr(caseNo, Cmd(2).wait_for_retry)
  /\ Note(IF Cmd(2).expect = "RNR" THEN {} ELSE {"unready"})
  /\ UNCHANGED <<managing, scripts, barrier>>

RecvPktReleased == Py({"recv_pkt"}) /\ RetryReleased /\ UNCHANGED scripts

RecvPktReturn ==
  /\ Py({"recv_pkt"}) /\ RecvReturn(Cmd(2).poll_cqe)
  /\ Return(2, Cmd(2).expect \in {"any", recvPkt.last})

RecvPktRaises ==
  /\ Calls(2, {"recv_pkt"}) /\ Fail(2)
  /\ \/ RecvTimeout /\ Note({"timeout"})
     \/ RecvAssert(caseNo) /\ Note({"qp_state"})
  /\ UNCHANGED <<managing, barrier>>

-----------------------------------------------------------------------------
(***************************************************************************)
(* Commands of side 1.                                                     *)
(***************************************************************************)
RustCalls == {"connect_qp", "local_write", "local_recv", "local_check", "recv_pkt",
              "poll_complete", "check_qp_status", "notify_cq", "modify_qp", "set_hook"}
             \cup DOMAIN Remote

Rust(names) == Calls(1, names) /\ server = "up"

RustCommand ==
  /\ Plain
  /\ \/ Rust({"connect_qp"}) /\ NicConnectQp(Cmd(1).rnr_retry) /\ Advance(1)
     \/ Rust({"local_write"}) /\ NicLocalWrite(Cmd(1).content) /\ Advance(1)
     \/ Rust({"local_recv"}) /\ NicLocalRecv /\ Advance(1)
     \/ Calls(1, {"sleep"}) /\ Advance(1) /\ UNCHANGED sideVars
     \/ Rust({"notify_cq", "recv_pkt", "poll_complete"}) /\ Advance(1) /\ UNCHANGED sideVars
     \/ /\ Rust({"check_qp_status"}) /\ UNCHANGED sideVars
        /\ Return(1, nic.qps = Cmd(1).status)
     \/ Rust(DOMAIN Remote) /\ NicRemote(RequestOf(1, nic.mr)) /\ UNCHANGED scripts

RustCheck ==
  /\ Rust({"local_check"}) /\ UNCHANGED <<sideVars, managing, barrier>>
  /\ Return(1, nic.mr = Cmd(1).expected)
  /\ Note(IF copies # <<>> THEN {"uncopied"} ELSE {})

\* A remote operation that cannot be posted, or is given up, ends in
\* error_check, which panics unless the command allows an error.
RustError == Return(1, Cmd(1).allow_err)

RustNotPosted ==
  /\ Rust(DOMAIN Remote) /\ nic.qps # "RTS"
  /\ RustError /\ Note({"qp_state"}) /\ UNCHANGED <<managing, barrier, sideVars>>

RustGiveUp ==
  /\ Rust(DOMAIN Remote) /\ NicGiveUp
  /\ RustError /\ Note({"timeout"}) /\ UNCHANGED <<managing, barrier>>

\* The answer to a remote operation of side 1 reaches the NIC.
RustAnswer ==
  /\ Calls(1, DOMAIN Remote) /\ NicAnswer(caseNo) /\ Plain
  /\ IF nic'.req # NoRequest THEN UNCHANGED scripts
     ELSE IF nic'.qps = "ERR" THEN RustError ELSE Advance(1)

\* A command that side 1's server does not answer: it is down, or has no such call.
Unanswered(s) ==
  /\ \/ /\ Calls(1, RustCalls) /\ s = 1
        /\ server = "down" \/ Cmd(1).name \in {"modify_qp", "set_hook"}
     \/ Calls(2, {"unblock_other"}) /\ s = 2 /\ server = "down"
  /\ Fail(s) /\ Note({"no_handler"}) /\ UNCHANGED <<managing, barrier, sideVars>>

\* unblock_other of side 1 is a call of side 2.
UnblockCall == Calls(1, {"unblock_other"}) /\ UnblockBegin /\ UNCHANGED scripts /\ Plain

UnblockLoop == UnblockPass /\ UNCHANGED scripts /\ Plain

UnblockDone == UnblockReturn /\ Advance(1) /\ Plain

-----------------------------------------------------------------------------
(***************************************************************************)
(* barrier: threading.Barrier(2, timeout=10) with no reset.                *)
(***************************************************************************)
BarrierWait(s) ==
  /\ Calls(s, {"barrier"}) /\ s \notin barrier.inside
  /\ barrier.state = "filling" /\ Other(s) \notin barrier.inside
  /\ barrier' = [barrier EXCEPT !.inside = {s}]
  /\ UNCHANGED <<managing, scripts, causes, sideVars>>

\* The second to arrive releases the first, and the barrier drains.
BarrierRelease(s) ==
  /\ Calls(s, {"barrier"}) /\ s \notin barrier.inside
  /\ barrier.state = "filling" /\ Other(s) \in barrier.inside
  /\ barrier' = [barrier EXCEPT !.state = "draining"]
  /\ Advance(s)
  /\ UNCHANGED <<managing, causes, sideVars>>

BarrierLeave(s) ==
  /\ s \in barrier.inside /\ barrier.state = "draining"
  /\ barrier' = [state |-> "filling", inside |-> {}]
  /\ Advance(s)
  /\ UNCHANGED <<managing, causes, sideVars>>

BarrierWithoutTimeout(s) == FALSE

BarrierTimeout(s) ==
  /\ s \in barrier.inside /\ barrier.state = "filling"
  /\ barrier' = [state |-> "broken", inside |-> {}]
  /\ Fail(s) /\ Note({"timeout"})
  /\ UNCHANGED <<managing, sideVars>>

BrokenBarrierPasses(s) ==
  /\ Calls(s, {"barrier"}) /\ barrier.state = "broken"
  /\ Advance(s)
  /\ UNCHANGED <<managing, barrier, causes, sideVars>>

BarrierBroken(s) ==
  /\ Calls(s, {"barrier"}) /\ barrier.state = "broken"
  /\ Fail(s)
  /\ UNCHANGED <<managing, barrier, causes, sideVars>>

Barrier(s) ==
  \/ BarrierWait(s) \/ BarrierRelease(s) \/ BarrierLeave(s)
  \/ BarrierTimeout(s) \/ BarrierBroken(s)

-----------------------------------------------------------------------------
(***************************************************************************)
(* What happens beside the commands.                                       *)
(***************************************************************************)
Background ==
  /\ UNCHANGED <<managing, scripts, barrier>>
  /\ \/ (NicRequest(caseNo) \/ NicCopy) /\ UNCHANGED causes
     \/ /\ NicDrop(caseNo)
        /\ Note(IF Head(toRust).qp = caseNo /\ nic.qps = "INIT" THEN {"unconnected"} ELSE {})
     \/ NicShutdown /\ UNCHANGED causes

Next ==
  \/ PrepareCase \/ PrepareFails \/ EndCase
  \/ \E s \in Sides : Unanswered(s) \/ Barrier(s)
  \/ PyCommand \/ PyAssert
  \/ RecvPktCall \/ RecvPktStep \/ RecvPktRnr \/ RecvPktReleased
  \/ RecvPktReturn \/ RecvPktRaises
  \/ RustCommand \/ RustCheck \/ RustNotPosted \/ RustGiveUp \/ RustAnswer
  \/ UnblockCall \/ UnblockLoop \/ UnblockDone
  \/ Background

Spec == Init /\ [][Next]_vars

\* Threads run, timeouts elapse, packets travel: something that can happen does.
FairSpec == Spec /\ WF_vars(Next)

-----------------------------------------------------------------------------
(***************************************************************************)
(* Between two cases nothing of the last one is left: no handler of side 2 *)
(* runs, nobody waits in the barrier, and retry_count is zero, so that the *)
(* next case's handshake starts from where it must.                        *)
(***************************************************************************)
NoLeftovers ==
  manager # "running" => /\ retry_count = 0 /\ unblockRetry = "idle"
                         /\ recvPkt = NotReceiving /\ barrier.inside = {}

\* The barriers among the commands before the one that side s carries out.
Before(s) == {i \in 1 .. (at[s] - 1) : Script(s)[i].name = "barrier"}

AtBarrier(s) == at[s] <= Len(Script(s)) /\ Cmd(s).name = "barrier"

Reached(s) == Cardinality(Before(s)) + (IF AtBarrier(s) THEN 1 ELSE 0)

(***************************************************************************)
(* The barriers of a case pair up: a side is past its n-th barrier only    *)
(* when the other has reached its n-th, whatever failed or timed out, in   *)
(* this case or in an earlier one.                                         *)
(***************************************************************************)
BarriersPair ==
  manager = "running" => \A s \in Sides : Cardinality(Before(s)) <= Reached(Other(s))

\* Calls of UnblockRetry that returned, and that the commands up to i wait for.
Unblocked == Cardinality({i \in 1 .. (at[1] - 1) : Script(1)[i].name = "unblock_other"})

Awaited(i) ==
  Cardinality(UNION {{j} \X (1 .. Script(2)[j].wait_for_retry) :
                       j \in {k \in 1 .. i : k <= Len(Script(2)) /\ Script(2)[k].name = "recv_pkt"}})

\* As the shipped cases do: a command that waits for a retry takes one packet
\* and fails unless it is the RNR NAK.
RetriesAreExpected ==
  \A n \in 1 .. Len(Cases) : \A j \in 1 .. Len(Cases[n][2]) :
    LET command == Cases[n][2][j]
    IN  command.name = "recv_pkt" /\ command.wait_for_retry > 0 =>
          command.cnt = 1 /\ command.expect = "RNR"

(***************************************************************************)
(* The retry handshake pairs up: an unblock_other has returned only for a  *)
(* retry that side 2 has reached, and side 2 is past a retry (which the    *)
(* RNR NAK its command expects sets off) only when as many unblock_others  *)
(* have returned as it waits for.                                          *)
(***************************************************************************)
HandshakePairs ==
  manager = "running" =>
    /\ Unblocked <= Awaited(at[2])
    /\ result[2] # "failed" => Awaited(at[2] - 1) <= Unblocked

(***************************************************************************)
(* A script of these cases, which all expect to pass, fails only for a     *)
(* cause that lies outside the scripts: a wait that timed out, a barrier   *)
(* broken by an earlier case, a packet before the peer was connected or    *)
(* had its receive posted, a check before side 1 had copied the message,   *)
(* a queue pair in a state the command asserts against, or a call that     *)
(* side 1's server does not answer.  Packets of earlier cases, which stay in *)
(* the socket of side 2, are no cause.                                     *)
(***************************************************************************)
FailuresHaveCauses ==
  manager = "running" /\ (\E s \in Sides : result[s] = "failed") => causes # {}

\* A side waits in the retry handshake and the other's script is over.
Orphaned ==
  \/ unblockRetry = "waiting" /\ Returned(2)
  \/ recvPkt.phase = "blocked" /\ Returned(1)

(***************************************************************************)
(* Every case ends, unless one side waits in the retry handshake, which    *)
(* has no timeout, for a side whose script has already returned: then the  *)
(* manager hangs for ever.                                                 *)
(***************************************************************************)
CasesEnd == manager = "running" ~> (manager # "running" \/ Orphaned)
=============================================================================
