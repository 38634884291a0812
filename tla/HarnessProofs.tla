--------------------------- MODULE HarnessProofs ---------------------------
(***************************************************************************)
(* What holds of the test harness for any cases whatever: proofs about     *)
(* Harness.  The barriers of a case pair up, and between two cases nothing *)
(* of the last one is left, since a script stands at a command as long as  *)
(* the handler it called is at work.  The harness keeps its types, since a *)
(* request of side 2 is in one place at a time.                            *)
(***************************************************************************)
EXTENDS Harness, FiniteSetTheorems, SequenceTheorems, TLAPS

steps == <<manager, caseNo, at, result, barrier, calls>>

Shape ==
  /\ caseNo \in 0 .. Len(Cases) /\ (manager = "running" => caseNo # 0)
  /\ at \in [Sides -> Nat \ {0}] /\ result \in [Sides -> {"running", "passed", "failed"}]
  /\ barrier \in [state : {"filling", "draining", "broken"}, inside : SUBSET Sides]
  /\ barrier.state = "broken" => barrier.inside = {}
  /\ retry_count \in Nat

\* A side whose script runs is at one of its commands.
AtACommand ==
  manager = "running" =>
    \A s \in Sides : result[s] = "running" => at[s] \in 1 .. Len(Script(s))

\* A handler that is at work was called by a command, which has not returned.
HandlersAreCalled ==
  /\ recvPkt = NotReceiving
       \/ (recvPkt.phase \in {"receiving", "blocked"} /\ Calls(2, {"recv_pkt"}))
  /\ unblockRetry # "idle" => Calls(1, {"unblock_other"})
  /\ \A s \in barrier.inside : Calls(s, {"barrier"})

\* retry_count is above zero only while a retry waits for it.
CountIsAwaited ==
  /\ retry_count > 0 => recvPkt.phase = "blocked"
  /\ unblockRetry = "passed" => retry_count > 0

Passed(s) == Cardinality(Before(s))

\* The sides are past equally many barriers, but for one that drains.
PassedAlike ==
  /\ barrier.state = "draining" =>
       \E a \in Sides : /\ barrier.inside = {a}
                        /\ manager = "running" => Passed(Other(a)) = Passed(a) + 1
  /\ manager = "running" /\ barrier.state # "draining" => Passed(1) = Passed(2)

HInv == Shape /\ AtACommand /\ HandlersAreCalled /\ CountIsAwaited /\ PassedAlike

LEMMA OtherSide == \A s \in Sides : Other(s) \in Sides /\ Other(s) # s /\ Other(Other(s)) = s
  BY DEF Sides, Other

-----------------------------------------------------------------------------
(***************************************************************************)
(* What a step of one script does to the sides' positions.                 *)
(***************************************************************************)
LEMMA BeforeIsFinite ==
  ASSUME NEW s \in Sides, Shape
  PROVE  IsFiniteSet(Before(s)) /\ Passed(s) \in Nat
<1>1. at[s] - 1 \in Int
  BY DEF Shape
<1>2. IsFiniteSet(1 .. (at[s] - 1))
  BY <1>1, FS_Interval
<1>3. Before(s) \in SUBSET (1 .. (at[s] - 1))
  BY DEF Before
<1>4. IsFiniteSet(Before(s))
  BY <1>2, <1>3, FS_Subset
<1> QED
  BY <1>4, FS_CardinalityType DEF Passed

\* The side that does not move keeps its position.
LEMMA OtherStays ==
  ASSUME NEW s \in Sides, Shape, Advance(s) \/ Fail(s), UNCHANGED managing
  PROVE  /\ at'[Other(s)] = at[Other(s)] /\ result'[Other(s)] = result[Other(s)]
         /\ \A names : Calls(Other(s), names) => Calls(Other(s), names)'
         /\ Passed(Other(s))' = Passed(Other(s))
<1>1. at'[Other(s)] = at[Other(s)] /\ result'[Other(s)] = result[Other(s)]
  BY OtherSide DEF Advance, Fail, Shape
<1>2. manager' = manager /\ caseNo' = caseNo
  BY DEF managing
<1>3. ASSUME NEW names, Calls(Other(s), names) PROVE Calls(Other(s), names)'
  BY <1>1, <1>2, <1>3 DEF Calls, Script
<1>4. Before(Other(s))' = Before(Other(s))
  BY <1>1, <1>2 DEF Before, Script
<1> QED
  BY <1>1, <1>3, <1>4 DEF Passed

\* The side that moves.
LEMMA MoverMoves ==
  ASSUME NEW s \in Sides, Shape, AtACommand, manager = "running", result[s] = "running",
         Advance(s) \/ Fail(s), UNCHANGED managing
  PROVE  /\ at' \in [Sides -> Nat \ {0}]
         /\ result' \in [Sides -> {"running", "passed", "failed"}]
         /\ AtACommand'
         /\ Cmd(s).name # "barrier" \/ Fail(s) => Passed(s)' = Passed(s)
         /\ Cmd(s).name = "barrier" /\ Advance(s) => Passed(s)' = Passed(s) + 1
<1>1. manager' = manager /\ caseNo' = caseNo
  BY DEF managing
<1>2. at[s] \in 1 .. Len(Script(s)) /\ at[s] \in Nat \ {0}
  BY DEF AtACommand, Shape
<1>3. CASE Fail(s)
  <2>1. at' = at /\ result' = [result EXCEPT ![s] = "failed"]
    BY <1>3 DEF Fail
  <2>2. /\ at' \in [Sides -> Nat \ {0}]
        /\ result' \in [Sides -> {"running", "passed", "failed"}]
    BY <2>1 DEF Shape
  <2>3. AtACommand'
    BY <1>1, <2>1 DEF AtACommand, Shape, Script
  <2>4. Before(s)' = Before(s)
    BY <1>1, <2>1 DEF Before, Script
  <2>5. ~Advance(s)
    <3>1. result'[s] = "failed"
      BY <2>1 DEF Shape
    <3>2. Advance(s) => result'[s] # "failed"
      BY DEF Advance, Shape
    <3> QED
      BY <3>1, <3>2
  <2> QED
    BY <2>2, <2>3, <2>4, <2>5 DEF Passed
<1>4. CASE Advance(s) /\ ~Fail(s)
  <2>1. /\ at' = [at EXCEPT ![s] = @ + 1] /\ at'[s] = at[s] + 1
        /\ at[s] = Len(Script(s)) => result' = [result EXCEPT ![s] = "passed"]
        /\ at[s] # Len(Script(s)) => result' = result
    BY <1>4 DEF Advance, Shape
  <2>2. /\ at' \in [Sides -> Nat \ {0}]
        /\ result' \in [Sides -> {"running", "passed", "failed"}]
    BY <2>1, <1>2 DEF Shape
  <2>3. AtACommand'
    <3>1. ASSUME NEW t \in Sides, result'[t] = "running" PROVE at'[t] \in 1 .. Len(Script(t))
      <4>1. CASE t = s
        <5>1. at[s] # Len(Script(s))
          BY <2>1, <3>1, <4>1 DEF Shape
        <5> QED
          BY <1>2, <2>1, <4>1, <5>1
      <4>2. CASE t # s
        <5>1. at'[t] = at[t] /\ result[t] = "running"
          BY <2>1, <3>1, <4>2 DEF Shape
        <5> QED
          BY <5>1 DEF AtACommand
      <4> QED
        BY <4>1, <4>2
    <3>2. \A t \in Sides : Script(t)' = Script(t)
      BY <1>1 DEF Script
    <3> QED
      BY <3>1, <3>2 DEF AtACommand
  <2>4. Before(s)' = {i \in 1 .. at[s] : Script(s)[i].name = "barrier"}
    BY <1>1, <1>2, <2>1 DEF Before, Script
  <2>5. \A i : i \in 1 .. at[s] <=> i \in 1 .. (at[s] - 1) \/ i = at[s]
    BY <1>2
  <2>6. CASE Cmd(s).name # "barrier"
    <3>1. Before(s)' = Before(s)
      BY <2>4, <2>5, <2>6 DEF Before, Cmd
    <3> QED
      BY <1>4, <2>2, <2>3, <2>6, <3>1 DEF Passed
  <2>7. CASE Cmd(s).name = "barrier"
    <3>1. Before(s)' = Before(s) \cup {at[s]}
      BY <2>4, <2>5, <2>7 DEF Before, Cmd
    <3>2. at[s] \notin Before(s)
      BY <1>2 DEF Before
    <3>3. Cardinality(Before(s) \cup {at[s]}) = Cardinality(Before(s)) + 1
      BY <3>2, BeforeIsFinite, FS_AddElement
    <3> QED
      BY <1>4, <2>2, <2>3, <2>7, <3>1, <3>3 DEF Passed
  <2> QED
    BY <2>6, <2>7
<1> QED
  BY <1>3, <1>4

-----------------------------------------------------------------------------
(***************************************************************************)
(* Steps that leave the scripts, the barrier and the handlers alone, and   *)
(* commands whose handler has returned with them.                          *)
(***************************************************************************)
LEMMA StayKeeps ==
  ASSUME HInv, UNCHANGED steps
  PROVE  HInv'
<1>1. UNCHANGED <<manager, caseNo, at, result, barrier, retry_count, unblockRetry, recvPkt>>
  BY DEF steps, calls
<1>2. Shape' /\ CountIsAwaited'
  BY <1>1 DEF HInv, Shape, CountIsAwaited
<1>3. AtACommand' /\ HandlersAreCalled'
  BY <1>1 DEF HInv, AtACommand, HandlersAreCalled, Calls, Script
<1>4. \A s \in Sides : Passed(s)' = Passed(s)
  BY <1>1 DEF Passed, Before, Script
<1>5. PassedAlike'
  BY <1>1, <1>4, OtherSide DEF HInv, PassedAlike, Sides
<1> QED
  BY <1>2, <1>3, <1>5 DEF HInv

\* A command of side s returns, and the handler it called with it.
LEMMA ReturnKeeps ==
  ASSUME NEW s \in Sides, HInv, manager = "running", result[s] = "running",
         Cmd(s).name # "barrier", Advance(s) \/ Fail(s), UNCHANGED <<managing, barrier>>,
         s = 1 => unblockRetry' = "idle" /\ recvPkt' = recvPkt,
         s = 2 => unblockRetry' = unblockRetry /\ recvPkt' = NotReceiving,
         retry_count' \in Nat, CountIsAwaited'
  PROVE  HInv'
<1>1. manager' = manager /\ caseNo' = caseNo /\ barrier' = barrier
  BY DEF managing
<1>2. /\ at' \in [Sides -> Nat \ {0}] /\ result' \in [Sides -> {"running", "passed", "failed"}]
      /\ AtACommand' /\ Passed(s)' = Passed(s)
  BY MoverMoves DEF HInv
<1>3. /\ \A names : Calls(Other(s), names) => Calls(Other(s), names)'
      /\ Passed(Other(s))' = Passed(Other(s))
  BY OtherStays DEF HInv
<1>4. Shape'
  BY <1>1, <1>2 DEF HInv, Shape
<1>5. \A t \in Sides : t = s \/ t = Other(s)
  BY DEF Sides, Other
<1>6. HandlersAreCalled'
  <2>1. s = 1 => Other(s) = 2
    BY DEF Other
  <2>2. s = 2 => Other(s) = 1
    BY DEF Other
  <2>3. s = 1 \/ s = 2
    BY DEF Sides
  <2>4. ~Calls(s, {"barrier"})
    BY DEF Calls, Cmd
  <2>5. \/ recvPkt' = NotReceiving
        \/ recvPkt'.phase \in {"receiving", "blocked"} /\ Calls(2, {"recv_pkt"})'
    BY <1>3, <2>1, <2>3 DEF HInv, HandlersAreCalled
  <2>6. unblockRetry' # "idle" => Calls(1, {"unblock_other"})'
    BY <1>3, <2>2, <2>3 DEF HInv, HandlersAreCalled
  <2>7. \A t \in barrier.inside : Calls(t, {"barrier"})'
    BY <1>3, <1>5, <2>4 DEF HInv, HandlersAreCalled, Shape
  <2> QED
    BY <1>1, <2>5, <2>6, <2>7 DEF HandlersAreCalled
<1>7. \A t \in Sides : Passed(t)' = Passed(t)
  BY <1>2, <1>3, <1>5
<1>8. PassedAlike'
  BY <1>1, <1>7, OtherSide DEF HInv, PassedAlike, Sides
<1> QED
  BY <1>2, <1>4, <1>6, <1>8 DEF HInv

\* A command whose handler returns at once, or that calls none.
LEMMA MoveKeeps ==
  ASSUME NEW s \in Sides, HInv, manager = "running", result[s] = "running",
         Cmd(s).name # "barrier", s = 1 => Cmd(s).name # "unblock_other",
         s = 2 => Cmd(s).name # "recv_pkt",
         Advance(s) \/ Fail(s), UNCHANGED <<managing, barrier, calls>>
  PROVE  HInv'
<1>1. retry_count' = retry_count /\ unblockRetry' = unblockRetry /\ recvPkt' = recvPkt
  BY DEF calls
<1>2. s = 1 => unblockRetry = "idle"
  BY DEF HInv, HandlersAreCalled, Calls, Cmd
<1>3. s = 2 => recvPkt = NotReceiving
  BY DEF HInv, HandlersAreCalled, Calls, Cmd
<1>4. retry_count' \in Nat /\ CountIsAwaited'
  BY <1>1 DEF HInv, Shape, CountIsAwaited
<1> QED
  BY <1>1, <1>2, <1>3, <1>4, ReturnKeeps

LEMMA RemoteNames == DOMAIN Remote = {"remote_send", "remote_write", "remote_write_imm",
                                      "remote_read", "remote_atomic_cas"}
  BY DEF Remote

LEMMA InitKeeps == Init => HInv
<1> SUFFICES ASSUME Init PROVE HInv
  OBVIOUS
<1>1. Len(Cases) \in Nat
  BY HarnessAssumption, LenProperties
<1>2. Shape
  BY <1>1 DEF Init, SideInit, Shape, Sides
<1>3. AtACommand /\ PassedAlike
  BY DEF Init, AtACommand, PassedAlike
<1>4. HandlersAreCalled /\ CountIsAwaited
  BY DEF Init, SideInit, HandlersAreCalled, CountIsAwaited
<1> QED
  BY <1>2, <1>3, <1>4 DEF HInv

\* Nobody is at work between two cases.
LEMMA NothingLeft ==
  ASSUME HInv, manager # "running"
  PROVE  retry_count = 0 /\ unblockRetry = "idle" /\ recvPkt = NotReceiving /\ barrier.inside = {}
<1>1. \A s, names : ~Calls(s, names)
  BY DEF Calls
<1>2. recvPkt = NotReceiving /\ unblockRetry = "idle" /\ barrier.inside = {}
  BY <1>1 DEF HInv, HandlersAreCalled
<1>3. ~(retry_count > 0) /\ retry_count \in Nat
  BY <1>2 DEF HInv, CountIsAwaited, NotReceiving, Shape
<1> QED
  BY <1>2, <1>3

LEMMA ManagerKeeps == HInv /\ (PrepareCase \/ PrepareFails \/ EndCase) => HInv'
<1> SUFFICES ASSUME HInv, PrepareCase \/ PrepareFails \/ EndCase PROVE HInv'
  OBVIOUS
<1>0. Len(Cases) \in Nat
  BY HarnessAssumption, LenProperties
<1>1. CASE PrepareCase
  <2>1. /\ manager # "running" /\ manager' = "running" /\ caseNo' = caseNo + 1
        /\ caseNo < Len(Cases) /\ barrier' = barrier /\ at' = [s \in Sides |-> 1]
        /\ result' = [s \in Sides |-> IF Cases[caseNo'][s] = <<>> THEN "passed" ELSE "running"]
        /\ retry_count' = retry_count /\ unblockRetry' = unblockRetry /\ recvPkt' = recvPkt
    BY <1>1 DEF PrepareCase, SidePrepare, calls
  <2>2. retry_count = 0 /\ unblockRetry = "idle" /\ recvPkt = NotReceiving /\ barrier.inside = {}
    BY <2>1, NothingLeft
  <2>3. caseNo' \in 1 .. Len(Cases)
    BY <1>0, <2>1 DEF HInv, Shape
  <2>4. Shape'
    <3>1. at' \in [Sides -> Nat \ {0}] /\ result' \in [Sides -> {"running", "passed", "failed"}]
      BY <2>1
    <3> QED
      BY <1>0, <2>1, <2>3, <3>1 DEF HInv, Shape
  <2>5. AtACommand'
    <3>1. ASSUME NEW s \in Sides, result'[s] = "running" PROVE at'[s] \in 1 .. Len(Script(s)')
      <4>1. Cases[caseNo'] \in Seq(Command) \X Seq(Command)
        BY <2>3, HarnessAssumption, ElementOfSeq
      <4>2. Cases[caseNo'][s] \in Seq(Command) /\ Cases[caseNo'][s] # <<>>
        BY <2>1, <3>1, <4>1 DEF Sides
      <4>3. Len(Cases[caseNo'][s]) \in Nat \ {0}
        BY <4>2, LenProperties, EmptySeq
      <4> QED
        BY <2>1, <4>3 DEF Script
    <3> QED
      BY <3>1 DEF AtACommand
  <2>6. HandlersAreCalled' /\ CountIsAwaited'
    BY <2>1, <2>2 DEF HandlersAreCalled, CountIsAwaited, NotReceiving
  <2>7. PassedAlike'
    <3>1. \A s \in Sides : Before(s)' = {}
      <4>1. \A s \in Sides : at'[s] - 1 = 0
        BY <2>1
      <4> QED
        BY <4>1 DEF Before
    <3>2. Passed(1)' = Passed(2)'
      BY <3>1 DEF Passed, Sides
    <3>3. barrier.state # "draining"
      BY <2>2 DEF HInv, PassedAlike
    <3> QED
      BY <2>1, <3>2, <3>3 DEF PassedAlike
  <2> QED
    BY <2>4, <2>5, <2>6, <2>7 DEF HInv
<1>2. CASE PrepareFails \/ EndCase
  <2>1. /\ manager' # "running" /\ caseNo' = caseNo /\ at' = at /\ result' = result
        /\ barrier' = barrier
        /\ retry_count' = retry_count /\ unblockRetry' = unblockRetry /\ recvPkt' = recvPkt
    BY <1>2 DEF PrepareFails, EndCase, scripts, sideVars
  <2>2. \A s \in Sides : \A names : ~Calls(s, names)
    BY <1>2 DEF PrepareFails, EndCase, Returned, Calls
  <2>3. recvPkt = NotReceiving /\ unblockRetry = "idle" /\ barrier.inside = {}
    BY <2>2 DEF HInv, HandlersAreCalled, Sides, Shape
  <2>4. Shape' /\ CountIsAwaited'
    BY <2>1 DEF HInv, Shape, CountIsAwaited
  <2>5. AtACommand' /\ HandlersAreCalled'
    BY <2>1, <2>3 DEF AtACommand, HandlersAreCalled
  <2>6. barrier.state # "draining"
    BY <2>3 DEF HInv, PassedAlike
  <2>7. PassedAlike'
    BY <2>1, <2>6 DEF PassedAlike
  <2> QED
    BY <2>4, <2>5, <2>7 DEF HInv
<1> QED
  BY <1>1, <1>2

\* Side s carries out a command whose handler has returned with it.
Moves(s) ==
  /\ manager = "running" /\ result[s] = "running"
  /\ s = 1 => Cmd(s).name # "unblock_other"
  /\ s = 2 => Cmd(s).name # "recv_pkt"
  /\ Advance(s) \/ Fail(s)
  /\ UNCHANGED <<managing, calls>>

LEMMA CommandsMove ==
  ASSUME \/ PyCommand \/ PyAssert \/ RustCommand \/ RustCheck \/ RustNotPosted \/ RustGiveUp
         \/ RustAnswer \/ \E s \in Sides : Unanswered(s)
  PROVE  \/ UNCHANGED steps
         \/ \E s \in Sides : Moves(s) /\ Cmd(s).name # "barrier" /\ UNCHANGED barrier
<1> DEFINE moves(s) == Moves(s) /\ Cmd(s).name # "barrier" /\ UNCHANGED barrier
<1>1. 1 \in Sides /\ 2 \in Sides
  BY DEF Sides
<1>2. CASE PyCommand
  <2>1. moves(2)
    BY <1>2, RemoteNames DEF Moves, PyCommand, Py, Plain, Calls, Cmd, Return, PyConnectQp,
       PyLocalWrite, PyLocalRecv, PyRemote, PyPollComplete, PyOnly, Silent, sideVars, calls
  <2> QED
    BY <1>1, <2>1
<1>3. CASE PyAssert
  <2>1. moves(2)
    BY <1>3, RemoteNames DEF Moves, PyAssert, Calls, Cmd, sideVars, calls
  <2> QED
    BY <1>1, <2>1
<1>4. CASE RustCommand
  <2>1. CASE Rust(DOMAIN Remote) /\ NicRemote(RequestOf(1, nic.mr)) /\ UNCHANGED scripts
    BY <1>4, <2>1 DEF RustCommand, Plain, managing, scripts, NicRemote, steps
  <2>2. CASE ~(Rust(DOMAIN Remote) /\ NicRemote(RequestOf(1, nic.mr)) /\ UNCHANGED scripts)
    <3>1. moves(1)
      BY <1>4, <2>2 DEF Moves, RustCommand, Rust, Plain, Calls, Cmd, Return, NicConnectQp,
         NicLocalWrite, NicLocalRecv, NicOnly, sideVars, calls
    <3> QED
      BY <1>1, <3>1
  <2> QED
    BY <2>1, <2>2
<1>5. CASE RustCheck \/ RustNotPosted \/ RustGiveUp
  <2>1. moves(1)
    BY <1>5, RemoteNames DEF Moves, RustCheck, RustNotPosted, RustGiveUp, RustError, Rust, Calls,
       Cmd, Return, NicGiveUp, NicOnly, sideVars, calls
  <2> QED
    BY <1>1, <2>1
<1>6. CASE RustAnswer
  <2>1. UNCHANGED <<managing, barrier, calls>>
    BY <1>6 DEF RustAnswer, Plain, NicAnswer
  <2>2. CASE UNCHANGED scripts
    BY <2>1, <2>2 DEF managing, scripts, steps
  <2>3. CASE Advance(1) \/ Fail(1)
    <3>1. moves(1)
      BY <1>6, <2>1, <2>3, RemoteNames DEF Moves, RustAnswer, Calls, Cmd
    <3> QED
      BY <1>1, <3>1
  <2> QED
    BY <1>6, <2>2, <2>3 DEF RustAnswer, RustError, Return
<1>7. ASSUME NEW s \in Sides, Unanswered(s) PROVE moves(s)
  BY <1>7, RemoteNames DEF Moves, Unanswered, Calls, Cmd, RustCalls, sideVars, calls
<1> HIDE DEF moves
<1>8. UNCHANGED steps \/ \E s \in Sides : moves(s)
  BY <1>2, <1>3, <1>4, <1>5, <1>6, <1>7 DEF moves
<1> QED
  BY <1>8 DEF moves

LEMMA CommandsKeep ==
  HInv /\ (PyCommand \/ PyAssert \/ RustCommand \/ RustCheck \/ RustNotPosted \/ RustGiveUp
             \/ RustAnswer \/ \E s \in Sides : Unanswered(s)) => HInv'
<1>1. ASSUME HInv, NEW s \in Sides, Moves(s), Cmd(s).name # "barrier", UNCHANGED barrier
      PROVE  HInv'
  BY <1>1, MoveKeeps DEF Moves
<1> QED
  BY <1>1, CommandsMove, StayKeeps

-----------------------------------------------------------------------------
(***************************************************************************)
(* The handlers that stay at work: RecvPkt and UnblockRetry.               *)
(***************************************************************************)
\* Only a handler takes a step.
LEMMA HandlerKeeps ==
  ASSUME HInv, UNCHANGED <<managing, scripts, barrier>>,
         retry_count' \in Nat, CountIsAwaited',
         \/ recvPkt' = recvPkt
         \/ recvPkt'.phase \in {"receiving", "blocked"} /\ Calls(2, {"recv_pkt"}),
         unblockRetry' # "idle" => Calls(1, {"unblock_other"})
  PROVE  HInv'
<1>1. UNCHANGED <<manager, caseNo, at, result, barrier>>
  BY DEF managing, scripts
<1>2. Shape' /\ AtACommand'
  BY <1>1 DEF HInv, Shape, AtACommand, Script
<1>3. \A s, names : Calls(s, names) <=> Calls(s, names)'
  BY <1>1 DEF Calls, Script
<1>4. HandlersAreCalled'
  BY <1>1, <1>3 DEF HInv, HandlersAreCalled
<1>5. \A s \in Sides : Passed(s)' = Passed(s)
  BY <1>1 DEF Passed, Before, Script
<1>6. PassedAlike'
  BY <1>1, <1>5, OtherSide DEF HInv, PassedAlike, Sides
<1> QED
  BY <1>2, <1>4, <1>6 DEF HInv

\* The command that a side carries out is one.
LEMMA CmdIsACommand ==
  ASSUME HInv, NEW s \in Sides, manager = "running", result[s] = "running"
  PROVE  Cmd(s) \in Command
<1>1. caseNo \in 1 .. Len(Cases)
  <2>1. Len(Cases) \in Nat
    BY HarnessAssumption, LenProperties
  <2> QED
    BY <2>1 DEF HInv, Shape
<1>2. Cases[caseNo] \in Seq(Command) \X Seq(Command)
  BY <1>1, HarnessAssumption, ElementOfSeq
<1>3. Script(s) \in Seq(Command)
  BY <1>2 DEF Script, Sides
<1>4. at[s] \in 1 .. Len(Script(s))
  BY DEF HInv, AtACommand
<1> QED
  BY <1>3, <1>4, ElementOfSeq DEF Cmd

LEMMA RecvPktKeeps ==
  HInv /\ (RecvPktCall \/ RecvPktStep \/ RecvPktRnr \/ RecvPktReleased \/ RecvPktReturn
             \/ RecvPktRaises) => HInv'
<1> SUFFICES ASSUME HInv,
                    RecvPktCall \/ RecvPktStep \/ RecvPktRnr \/ RecvPktReleased
                      \/ RecvPktReturn \/ RecvPktRaises
             PROVE HInv'
  OBVIOUS
<1>0. Calls(2, {"recv_pkt"})
  BY DEF RecvPktCall, RecvPktStep, RecvPktRnr, RecvPktReleased, RecvPktReturn, RecvPktRaises, Py
<1>1. unblockRetry' = unblockRetry
  BY DEF RecvPktCall, RecvPktStep, RecvPktRnr, RecvPktReleased, RecvPktReturn, RecvPktRaises,
     RecvBegin, RecvSkip, RecvRequest, RecvAnswer, RecvRnr, RetryReleased, RecvReturn,
     RecvTimeout, RecvAssert, calls
<1>2. unblockRetry' # "idle" => Calls(1, {"unblock_other"})
  BY <1>1 DEF HInv, HandlersAreCalled
<1>3. recvPkt.phase # "blocked" => retry_count = 0 /\ unblockRetry # "passed"
  BY DEF HInv, CountIsAwaited, Shape
<1>4. CASE RecvPktCall \/ RecvPktStep
  <2>1. UNCHANGED <<managing, scripts, barrier, retry_count>>
    BY <1>4 DEF RecvPktCall, RecvPktStep, Py, Plain, RecvBegin, RecvSkip, RecvRequest,
       RecvAnswer, calls
  <2>2. \/ recvPkt' = recvPkt
        \/ recvPkt'.phase = "receiving" /\ recvPkt.phase # "blocked"
    BY <1>4 DEF RecvPktCall, RecvPktStep, RecvBegin, RecvSkip, RecvRequest, RecvAnswer, Waiting,
       Counted, calls
  <2>3. retry_count' \in Nat /\ CountIsAwaited'
    BY <1>1, <1>3, <2>1, <2>2 DEF HInv, Shape, CountIsAwaited
  <2> QED
    BY <1>0, <1>2, <2>1, <2>2, <2>3, HandlerKeeps
<1>5. CASE RecvPktRnr
  <2>1. UNCHANGED <<managing, scripts, barrier>> /\ recvPkt.phase = "receiving"
    BY <1>5 DEF RecvPktRnr, RecvRnr, Waiting
  <2>2. \/ recvPkt'.phase = "receiving" /\ retry_count' = retry_count
        \/ /\ recvPkt'.phase = "blocked"
           /\ retry_count' = retry_count + Cmd(2).wait_for_retry
    BY <1>5 DEF RecvPktRnr, RecvRnr, Counted, Blocked
  <2>3. Cmd(2).wait_for_retry \in Nat
    <3>1. Cmd(2) \in Command
      BY <1>0, CmdIsACommand DEF Calls, Sides
    <3>2. Cmd(2).name = "recv_pkt"
      BY <1>0 DEF Calls, Cmd
    <3> QED
      BY <3>1, <3>2, RemoteNames DEF Command, Silent
  <2>4. retry_count' \in Nat /\ CountIsAwaited'
    BY <1>1, <1>3, <2>1, <2>2, <2>3 DEF HInv, Shape, CountIsAwaited
  <2> QED
    BY <1>0, <1>2, <2>1, <2>2, <2>4, HandlerKeeps
<1>6. CASE RecvPktReleased
  <2>1. UNCHANGED <<managing, scripts, barrier, retry_count>> /\ retry_count = 0
    BY <1>6 DEF RecvPktReleased, RetryReleased, Py, Plain
  <2>2. recvPkt'.phase = "receiving"
    <3>1. recvPkt.phase = "blocked" /\ recvPkt' = [recvPkt EXCEPT !.phase = "receiving"]
      BY <1>6 DEF RecvPktReleased, RetryReleased
    <3> QED
      BY <3>1
  <2>3. retry_count' \in Nat /\ CountIsAwaited'
    BY <1>1, <2>1 DEF HInv, CountIsAwaited
  <2> QED
    BY <1>0, <1>2, <2>1, <2>2, <2>3, HandlerKeeps
<1>7. CASE RecvPktReturn \/ RecvPktRaises
  <2>1. /\ UNCHANGED <<managing, barrier, retry_count>> /\ recvPkt' = NotReceiving
        /\ recvPkt.phase = "receiving"
        /\ Advance(2) \/ Fail(2)
    BY <1>7 DEF RecvPktReturn, RecvPktRaises, RecvReturn, RecvTimeout, RecvAssert, Waiting, Py,
       Plain, Return
  <2>2. retry_count' \in Nat /\ CountIsAwaited'
    BY <1>1, <1>3, <2>1 DEF HInv, Shape, CountIsAwaited
  <2>3. manager = "running" /\ result[2] = "running" /\ Cmd(2).name # "barrier"
    BY <1>0 DEF Calls, Cmd
  <2> QED
    BY <1>1, <2>1, <2>2, <2>3, ReturnKeeps DEF Sides
<1> QED
  BY <1>4, <1>5, <1>6, <1>7

LEMMA UnblockKeeps == HInv /\ (UnblockCall \/ UnblockLoop \/ UnblockDone) => HInv'
<1> SUFFICES ASSUME HInv, UnblockCall \/ UnblockLoop \/ UnblockDone PROVE HInv'
  OBVIOUS
<1>0. Calls(1, {"unblock_other"}) /\ recvPkt' = recvPkt
  BY DEF HInv, HandlersAreCalled, UnblockCall, UnblockLoop, UnblockDone, UnblockBegin,
     UnblockPass, UnblockReturn
<1>1. CASE UnblockCall \/ UnblockLoop
  <2>1. /\ UNCHANGED <<managing, scripts, barrier, retry_count>>
        /\ unblockRetry' = "waiting" \/ retry_count # 0
    BY <1>1 DEF UnblockCall, UnblockLoop, UnblockBegin, UnblockPass, Plain
  <2>2. retry_count' \in Nat /\ CountIsAwaited'
    BY <1>0, <2>1 DEF HInv, Shape, CountIsAwaited
  <2> QED
    BY <1>0, <2>1, <2>2, HandlerKeeps
<1>2. CASE UnblockDone
  <2>1. /\ UNCHANGED <<managing, barrier>> /\ Advance(1)
        /\ unblockRetry = "passed" /\ unblockRetry' = "idle" /\ retry_count' = retry_count - 1
    BY <1>2 DEF UnblockDone, UnblockReturn, Plain
  <2>2. retry_count' \in Nat /\ CountIsAwaited'
    BY <1>0, <2>1 DEF HInv, Shape, CountIsAwaited
  <2>3. manager = "running" /\ result[1] = "running" /\ Cmd(1).name # "barrier"
    BY <1>0 DEF Calls, Cmd
  <2> QED
    BY <1>0, <2>1, <2>2, <2>3, ReturnKeeps DEF Sides
<1> QED
  BY <1>1, <1>2

-----------------------------------------------------------------------------
(***************************************************************************)
(* The barrier.                                                            *)
(***************************************************************************)
\* Side s passes a barrier, or fails in it.
LEMMA MeetKeeps ==
  ASSUME NEW s \in Sides, HInv, Calls(s, {"barrier"}), Advance(s) \/ Fail(s),
         UNCHANGED <<managing, calls>>,
         barrier' \in [state : {"filling", "draining", "broken"}, inside : SUBSET Sides],
         barrier'.state = "broken" => barrier'.inside = {},
         barrier'.inside \subseteq barrier.inside \ {s}, PassedAlike'
  PROVE  HInv'
<1>1. /\ manager' = manager /\ caseNo' = caseNo
      /\ retry_count' = retry_count /\ unblockRetry' = unblockRetry /\ recvPkt' = recvPkt
  BY DEF managing, calls
<1>2. manager = "running" /\ result[s] = "running" /\ Cmd(s).name = "barrier"
  BY DEF Calls, Cmd
<1>3. /\ at' \in [Sides -> Nat \ {0}] /\ result' \in [Sides -> {"running", "passed", "failed"}]
      /\ AtACommand'
  BY <1>2, MoverMoves DEF HInv
<1>4. Shape' /\ CountIsAwaited'
  BY <1>1, <1>3 DEF HInv, Shape, CountIsAwaited
<1>5. \A names : Calls(Other(s), names) => Calls(Other(s), names)'
  BY OtherStays DEF HInv
<1>6. HandlersAreCalled'
  <2>1. \A t \in Sides : t = s \/ t = Other(s)
    BY DEF Sides, Other
  <2>2. ~Calls(s, {"recv_pkt"}) /\ ~Calls(s, {"unblock_other"})
    BY <1>2 DEF Calls, Cmd
  <2>3. 1 \in Sides /\ 2 \in Sides
    BY DEF Sides
  <2>4. Calls(2, {"recv_pkt"}) => Calls(2, {"recv_pkt"})'
    BY <1>5, <2>1, <2>2, <2>3
  <2>5. Calls(1, {"unblock_other"}) => Calls(1, {"unblock_other"})'
    BY <1>5, <2>1, <2>2, <2>3
  <2>6. \A t \in barrier'.inside : Calls(t, {"barrier"})'
    BY <1>5, <2>1 DEF HInv, HandlersAreCalled, Shape
  <2> QED
    BY <1>1, <2>4, <2>5, <2>6 DEF HInv, HandlersAreCalled
<1> QED
  BY <1>3, <1>4, <1>6 DEF HInv

LEMMA BarrierKeeps == ASSUME NEW s \in Sides, HInv, Barrier(s) PROVE HInv'
<1>0. barrier \in [state : {"filling", "draining", "broken"}, inside : SUBSET Sides]
  BY DEF HInv, Shape
<1>1. CASE BarrierWait(s)
  <2>1. /\ UNCHANGED <<manager, caseNo, at, result, retry_count, unblockRetry, recvPkt>>
        /\ Calls(s, {"barrier"}) /\ barrier.state = "filling"
        /\ barrier' = [barrier EXCEPT !.inside = {s}]
    BY <1>1 DEF BarrierWait, managing, scripts, sideVars
  <2>2. barrier'.state = "filling" /\ barrier'.inside = {s}
    BY <1>0, <2>1
  <2>3. Shape' /\ CountIsAwaited'
    BY <1>0, <2>1, <2>2 DEF HInv, Shape, CountIsAwaited
  <2>4. \A t, names : Calls(t, names) <=> Calls(t, names)'
    BY <2>1 DEF Calls, Script
  <2>5. AtACommand' /\ HandlersAreCalled'
    BY <2>1, <2>2, <2>4 DEF HInv, AtACommand, HandlersAreCalled, Script
  <2>6. \A t \in Sides : Passed(t)' = Passed(t)
    BY <2>1 DEF Passed, Before, Script
  <2>7. PassedAlike'
    BY <2>1, <2>2, <2>6 DEF HInv, PassedAlike, Sides
  <2> QED
    BY <2>3, <2>5, <2>7 DEF HInv
<1>2. ASSUME Calls(s, {"barrier"}), Advance(s) \/ Fail(s), UNCHANGED managing
      PROVE  /\ Passed(Other(s))' = Passed(Other(s)) /\ manager' = "running"
             /\ Advance(s) => Passed(s)' = Passed(s) + 1
             /\ Fail(s) => Passed(s)' = Passed(s)
  <2>1. manager = "running" /\ result[s] = "running" /\ Cmd(s).name = "barrier"
    BY <1>2 DEF Calls, Cmd
  <2>2. manager' = "running"
    BY <1>2, <2>1 DEF managing
  <2> QED
    BY <1>2, <2>1, <2>2, MoverMoves, OtherStays DEF HInv
<1>3. CASE BarrierRelease(s)
  <2>1. /\ Calls(s, {"barrier"}) /\ Advance(s) /\ UNCHANGED <<managing, calls>>
        /\ barrier.state = "filling" /\ s \notin barrier.inside /\ Other(s) \in barrier.inside
        /\ barrier' = [barrier EXCEPT !.state = "draining"]
    BY <1>3 DEF BarrierRelease, sideVars, calls
  <2>2. barrier'.state = "draining" /\ barrier'.inside = {Other(s)}
        /\ barrier.inside = {Other(s)}
    <3>1. barrier.inside = {Other(s)}
      BY <1>0, <2>1 DEF Sides, Other
    <3> QED
      BY <1>0, <2>1, <3>1
  <2>3. Passed(1) = Passed(2)
    BY <2>1 DEF HInv, PassedAlike, Calls
  <2>4. Passed(s) = Passed(Other(s))
    BY <2>3 DEF Sides, Other
  <2>5. /\ Passed(Other(s))' = Passed(Other(s)) /\ manager' = "running"
        /\ Passed(s)' = Passed(s) + 1
    BY <1>2, <2>1
  <2>6. PassedAlike'
    <3>1. Other(s) \in Sides /\ Other(Other(s)) = s
      BY OtherSide
    <3>2. Passed(Other(Other(s)))' = Passed(Other(s))' + 1
      BY <2>4, <2>5, <3>1
    <3> QED
      BY <2>2, <3>1, <3>2 DEF PassedAlike
  <2>7. barrier' \in [state : {"filling", "draining", "broken"}, inside : SUBSET Sides]
    BY <1>0, <2>1
  <2>8. s # Other(s)
    BY OtherSide
  <2> QED
    BY <2>1, <2>2, <2>6, <2>7, <2>8, MeetKeeps
<1>4. CASE BarrierLeave(s)
  <2>1. /\ Advance(s) /\ UNCHANGED <<managing, calls>>
        /\ s \in barrier.inside /\ barrier.state = "draining"
        /\ barrier' = [state |-> "filling", inside |-> {}]
    BY <1>4 DEF BarrierLeave, sideVars, calls
  <2>2. Calls(s, {"barrier"}) /\ manager = "running"
    BY <2>1 DEF HInv, HandlersAreCalled, Calls
  <2>3. Passed(Other(s)) = Passed(s) + 1
    BY <2>1, <2>2 DEF HInv, PassedAlike
  <2>4. Passed(s)' = Passed(Other(s))'
    BY <1>2, <2>1, <2>2, <2>3
  <2>5. Passed(1)' = Passed(2)'
    BY <2>4 DEF Sides, Other
  <2>6. PassedAlike'
    BY <2>1, <2>5 DEF PassedAlike
  <2> QED
    BY <2>1, <2>2, <2>6, MeetKeeps
<1>5. CASE BarrierTimeout(s) \/ BarrierBroken(s)
  <2>1. /\ Fail(s) /\ UNCHANGED <<managing, calls>> /\ barrier.state # "draining"
        /\ barrier'.state = "broken" /\ barrier'.inside = {}
        /\ barrier' \in [state : {"filling", "draining", "broken"}, inside : SUBSET Sides]
    BY <1>0, <1>5 DEF BarrierTimeout, BarrierBroken, sideVars, calls, HInv, Shape
  <2>2. Calls(s, {"barrier"}) /\ manager = "running"
    BY <1>5 DEF BarrierTimeout, BarrierBroken, HInv, HandlersAreCalled, Calls
  <2>3. /\ Passed(Other(s))' = Passed(Other(s)) /\ Passed(s)' = Passed(s)
    BY <1>2, <2>1, <2>2
  <2>4. Passed(1) = Passed(2)
    BY <2>1, <2>2 DEF HInv, PassedAlike
  <2>5. Passed(1)' = Passed(2)'
    BY <2>3, <2>4 DEF Sides, Other
  <2>6. PassedAlike'
    BY <2>1, <2>5 DEF PassedAlike
  <2> QED
    BY <2>1, <2>2, <2>6, MeetKeeps
<1> QED
  BY <1>1, <1>3, <1>4, <1>5 DEF Barrier

-----------------------------------------------------------------------------
LEMMA HInvHolds == Spec => []HInv
<1>1. HInv /\ [Next]_vars => HInv'
  <2> SUFFICES ASSUME HInv, [Next]_vars PROVE HInv'
    OBVIOUS
  <2>1. CASE UNCHANGED vars \/ Background
    <3>1. UNCHANGED steps
      BY <2>1 DEF vars, harness, sideVars, steps, calls, Background, managing, scripts,
         NicRequest, NicCopy, NicDrop, NicShutdown, NicOnly
    <3> QED
      BY <3>1, StayKeeps
  <2>2. ASSUME NEW s \in Sides, Barrier(s) PROVE HInv'
    BY <2>2, BarrierKeeps
  <2> QED
    BY <2>1, <2>2, ManagerKeeps, CommandsKeep, RecvPktKeeps, UnblockKeeps DEF Next
<1> QED
  BY <1>1, InitKeeps, PTL DEF Spec

(***************************************************************************)
(* Between two cases nothing of the last one is left: TestCase.run returns *)
(* only when both threads have, each stands at its command as long as the  *)
(* handler or the barrier it called is at work, and retry_count is above   *)
(* zero only while a RecvPkt waits for it.  For any cases whatever.        *)
(***************************************************************************)
THEOREM NothingIsLeftOver == Spec => []NoLeftovers
<1>1. HInv => NoLeftovers
  BY NothingLeft DEF NoLeftovers
<1> QED
  BY <1>1, HInvHolds, PTL

(***************************************************************************)
(* The barriers of a case pair up, whatever failed or timed out before and *)
(* however many barriers the two scripts have.                             *)
(***************************************************************************)
THEOREM BarriersPairUp == Spec => []BarriersPair
<1>1. HInv => BarriersPair
  <2> SUFFICES ASSUME HInv, manager = "running", NEW s \in Sides
               PROVE  Passed(s) <= Reached(Other(s))
    BY DEF BarriersPair, Passed
  <2>0. Other(s) \in Sides /\ Other(Other(s)) = s
    BY OtherSide
  <2>1. /\ Passed(s) \in Nat /\ Passed(Other(s)) \in Nat
        /\ Reached(Other(s)) = Passed(Other(s)) + (IF AtBarrier(Other(s)) THEN 1 ELSE 0)
    BY <2>0, BeforeIsFinite DEF HInv, Reached, Passed
  <2>2. CASE barrier.state # "draining"
    <3>1. Passed(s) = Passed(Other(s))
      BY <2>2 DEF HInv, PassedAlike, Sides, Other
    <3> QED
      BY <2>1, <3>1
  <2>3. CASE barrier.state = "draining"
    <3>1. PICK a \in Sides : barrier.inside = {a} /\ Passed(Other(a)) = Passed(a) + 1
      BY <2>3 DEF HInv, PassedAlike
    <3>2. CASE a = s
      BY <2>1, <3>1, <3>2
    <3>3. CASE a # s
      <4>1. a = Other(s)
        BY <3>3 DEF Sides, Other
      <4>2. Passed(s) = Passed(Other(s)) + 1
        BY <2>0, <3>1, <4>1
      <4>3. Calls(Other(s), {"barrier"})
        BY <3>1, <4>1 DEF HInv, HandlersAreCalled
      <4>4. AtBarrier(Other(s))
        <5>1. at[Other(s)] \in 1 .. Len(Script(Other(s)))
          BY <2>0, <4>3 DEF HInv, AtACommand, Calls
        <5> QED
          BY <4>3, <5>1 DEF AtBarrier, Calls, Cmd
      <4> QED
        BY <2>1, <4>2, <4>4
    <3> QED
      BY <3>2, <3>3
  <2> QED
    BY <2>2, <2>3
<1> QED
  BY <1>1, HInvHolds, PTL

-----------------------------------------------------------------------------
(***************************************************************************)
(* What the sides hold and send.  A request of side 2 is in one place at a *)
(* time: on its way to the NIC, answered on its way back, or held while    *)
(* RecvPkt is blocked; so an RNR NAK finds the request it is about, and    *)
(* what RetryLogic sends again is a packet.                                *)
(***************************************************************************)
CasePacket == [qp : 1 .. caseNo, kind : Requests \cup Answers, data : Contents, old : Contents]

\* The requests of the case that runs, and the answers to them.
Sent == {p \in CasePacket : p.qp = caseNo /\ p.kind \in Requests}

Back == {p \in CasePacket : p.qp = caseNo /\ p.kind \in Answers}

RecvShape == recvPkt \in [phase : {"idle", "receiving", "blocked"}, left : Nat,
                          last : Requests \cup Answers \cup {"none"}]

PyShape == py \in [qps : {"INIT", "RTR", "RTS", "ERR"}, rq : Nat, rnr_retry : Nat, rnr : Nat,
                   mr : Contents, sr : Sent \cup {NoRequest},
                   cq : Seq({"SUCCESS", "RECV", "RNR_RETRY_EXC_ERR"})]

NicShape == /\ nic \in [qps : {"INIT", "RTS", "ERR"}, rnr_retry : Nat, rnr : Nat, mr : Contents,
                        req : Sent \cup {NoRequest}]
            /\ server \in {"up", "down"} /\ tasks \in Nat /\ copies \in Seq(Contents)

WireShape == toPy \in Seq(CasePacket) /\ toRust \in Seq(CasePacket)

RunShape == /\ manager \in {"idle", "running", "finished", "aborted"} /\ causes \subseteq Causes
            /\ unblockRetry \in {"idle", "waiting", "passed"}

Without(S, K) == \A i \in 1 .. Len(S) : S[i] \notin K

Single(S, K) == \A i, j \in 1 .. Len(S) : S[i] \in K /\ S[j] \in K => i = j

InOnePlace ==
  /\ Single(toRust, Sent) /\ Single(toPy, Back)
  /\ Without(toRust, Sent) \/ Without(toPy, Back)
  /\ py.sr = NoRequest \/ recvPkt.phase = "blocked" => Without(toRust, Sent) /\ Without(toPy, Back)
  /\ recvPkt.phase = "blocked" => py.sr # NoRequest

SInv == RecvShape /\ PyShape /\ NicShape /\ WireShape /\ RunShape /\ InOnePlace

LEMMA AppendKeeps ==
  ASSUME NEW T, NEW S \in Seq(T), NEW x \in T, NEW K
  PROVE  /\ Append(S, x) \in Seq(T)
         /\ Without(S, K) /\ x \notin K => Without(Append(S, x), K)
         /\ Single(S, K) /\ (x \notin K \/ Without(S, K)) => Single(Append(S, x), K)
<1>1. /\ Append(S, x) \in Seq(T) /\ Len(Append(S, x)) = Len(S) + 1 /\ Len(S) \in Nat
      /\ \A i \in 1 .. Len(S) : Append(S, x)[i] = S[i]
      /\ Append(S, x)[Len(S) + 1] = x
  BY AppendProperties, LenProperties
<1>2. \A i \in 1 .. (Len(S) + 1) : i \in 1 .. Len(S) \/ i = Len(S) + 1
  BY <1>1
<1> QED
  BY <1>1, <1>2 DEF Without, Single

LEMMA TailKeeps ==
  ASSUME NEW T, NEW S \in Seq(T), NEW K, S # <<>>
  PROVE  /\ Tail(S) \in Seq(T) /\ Head(S) \in T
         /\ Without(S, K) => Without(Tail(S), K) /\ Head(S) \notin K
         /\ Single(S, K) => Single(Tail(S), K)
         /\ Single(S, K) /\ Head(S) \in K => Without(Tail(S), K)
<1>1. /\ Tail(S) \in Seq(T) /\ Head(S) \in T /\ Len(S) \in Nat /\ Len(S) # 0
      /\ Len(Tail(S)) = Len(S) - 1 /\ Head(S) = S[1]
      /\ \A i \in 1 .. Len(Tail(S)) : Tail(S)[i] = S[i + 1]
  BY HeadTailProperties, LenProperties, EmptySeq
<1>2. \A i \in 1 .. Len(Tail(S)) : i + 1 \in 1 .. Len(S) /\ i + 1 # 1
  BY <1>1
<1>3. 1 \in 1 .. Len(S)
  BY <1>1
<1>4. Without(S, K) => Without(Tail(S), K) /\ Head(S) \notin K
  BY <1>1, <1>2, <1>3 DEF Without
<1>5. Single(S, K) => Single(Tail(S), K)
  <2>1. \A i, j \in 1 .. Len(Tail(S)) : i + 1 = j + 1 => i = j
    BY <1>1
  <2> QED
    BY <1>1, <1>2, <2>1 DEF Single
<1>6. Single(S, K) /\ Head(S) \in K => Without(Tail(S), K)
  BY <1>1, <1>2, <1>3 DEF Single, Without
<1> QED
  BY <1>1, <1>4, <1>5, <1>6

LEMMA SameCase ==
  ASSUME caseNo' = caseNo
  PROVE  CasePacket' = CasePacket /\ Sent' = Sent /\ Back' = Back
  BY DEF CasePacket, Sent, Back

LEMMA Kinds ==
  /\ \A p \in CasePacket : p \in Sent <=> p.qp = caseNo /\ p.kind \in Requests
  /\ \A p \in CasePacket : p \in Back <=> p.qp = caseNo /\ p.kind \in Answers
  /\ \A p : p \in Sent => p \notin Back /\ p # NoRequest /\ p \in CasePacket
  /\ \A p \in CasePacket : /\ p.kind \in Requests \cup Answers /\ p.data \in Contents
                           /\ p.kind \in Requests <=> p.kind \notin Answers
  BY DEF CasePacket, Sent, Back, Requests, Answers, NoRequest

LEMMA RequestIsSent ==
  ASSUME HInv, NEW s \in Sides, Calls(s, DOMAIN Remote), NEW mem \in Contents
  PROVE  RequestOf(s, mem) \in Sent
<1>1. Cmd(s) \in Command /\ Cmd(s).name \in DOMAIN Remote
  BY CmdIsACommand DEF Calls, Cmd
<1>2. Cmd(s).new \in Contents /\ Cmd(s).old \in Contents
  BY <1>1, RemoteNames DEF Command, Silent
<1>3. Remote[Cmd(s).name] \in Requests
  BY <1>1, RemoteNames DEF Remote, Requests
<1>4. caseNo \in 1 .. caseNo
  BY DEF HInv, Shape, Calls
<1>5. Blank \in Contents
  BY SideAssumption
<1> QED
  BY <1>2, <1>3, <1>4, <1>5 DEF RequestOf, Sent, CasePacket

LEMMA AnswerIsAPacket ==
  ASSUME NEW p \in CasePacket, p.kind \in Requests, NEW mem \in Contents
  PROVE  /\ Rnr(p) \in CasePacket /\ Rnr(p).kind \in Answers /\ Rnr(p).qp = p.qp
         /\ Done(p, mem) \in CasePacket /\ Done(p, mem).kind \in Answers /\ Done(p, mem).qp = p.qp
         /\ Executed(p, mem) \in Contents
<1>1. p.qp \in 1 .. caseNo /\ p.data \in Contents /\ Blank \in Contents
  BY SideAssumption DEF CasePacket
<1>2. Executed(p, mem) \in Contents
  BY <1>1 DEF Executed, Requests
<1> QED
  BY <1>1, <1>2 DEF Rnr, Done, Answer, CasePacket, Answers

\* What a step may do that sends and takes no packet.
LEMMA QuietKeeps ==
  ASSUME SInv, caseNo' = caseNo, UNCHANGED wire, py'.sr = py.sr,
         PyShape', NicShape', RunShape', RecvShape',
         recvPkt'.phase = "blocked" => recvPkt.phase = "blocked"
  PROVE  SInv'
<1>1. CasePacket' = CasePacket /\ Sent' = Sent /\ Back' = Back
  BY SameCase
<1>2. toPy' = toPy /\ toRust' = toRust
  BY DEF wire
<1>3. WireShape' /\ InOnePlace'
  BY <1>1, <1>2 DEF SInv, WireShape, InOnePlace, Without, Single
<1> QED
  BY <1>3 DEF SInv

\* A step of a script, of UnblockRetry or of the barrier that leaves both sides alone.
LEMMA SidesStay ==
  ASSUME SInv, UNCHANGED <<caseNo, recvPkt, py, rust, wire>>, RunShape'
  PROVE  SInv'
<1>1. /\ recvPkt' = recvPkt /\ py' = py /\ server' = server /\ nic' = nic
      /\ tasks' = tasks /\ copies' = copies
  BY DEF rust
<1>2. CasePacket' = CasePacket /\ Sent' = Sent /\ Back' = Back
  BY SameCase
<1>3. RecvShape' /\ PyShape' /\ NicShape'
  BY <1>1, <1>2 DEF SInv, RecvShape, PyShape, NicShape
<1> QED
  BY <1>1, <1>3, QuietKeeps

LEMMA ManagerIsSafe == HInv /\ SInv /\ (PrepareCase \/ PrepareFails \/ EndCase) => SInv'
<1> SUFFICES ASSUME HInv, SInv, PrepareCase \/ PrepareFails \/ EndCase PROVE SInv'
  OBVIOUS
<1>1. CASE PrepareCase
  <2>1. /\ manager # "running" /\ manager' = "running" /\ caseNo' = caseNo + 1
        /\ causes' \subseteq Causes /\ py' = NewPy /\ nic' = NewNic
        /\ UNCHANGED <<recvPkt, unblockRetry, server, tasks, copies, toPy, toRust>>
    BY <1>1 DEF PrepareCase, SidePrepare, calls, wire, Causes
  <2>2. recvPkt = NotReceiving
    BY <2>1, NothingLeft
  <2>3. caseNo \in Nat
    <3>1. Len(Cases) \in Nat
      BY HarnessAssumption, LenProperties
    <3> QED
      BY <3>1 DEF HInv, Shape
  <2>4. CasePacket \subseteq CasePacket' /\ \A p \in CasePacket : p \notin Sent' /\ p \notin Back'
    BY <2>1, <2>3 DEF CasePacket, Sent, Back
  <2>5. WireShape'
    <3>1. \A S \in Seq(CasePacket) : S \in Seq(CasePacket')
      BY <2>4, ElementOfSeq, SeqDef
    <3> QED
      BY <2>1, <3>1 DEF SInv, WireShape
  <2>6. InOnePlace'
    <3>1. \A i \in 1 .. Len(toRust) : toRust[i] \in CasePacket
      BY ElementOfSeq DEF SInv, WireShape
    <3>2. \A i \in 1 .. Len(toPy) : toPy[i] \in CasePacket
      BY ElementOfSeq DEF SInv, WireShape
    <3>3. Without(toRust, Sent') /\ Without(toPy, Back')
      BY <2>4, <3>1, <3>2 DEF Without
    <3>4. Single(toRust, Sent') /\ Single(toPy, Back')
      BY <3>3 DEF Without, Single
    <3>5. recvPkt'.phase # "blocked"
      BY <2>1, <2>2 DEF NotReceiving
    <3> QED
      BY <2>1, <3>3, <3>4, <3>5 DEF InOnePlace
  <2>7. PyShape' /\ NicShape'
    <3>1. py' \in [qps : {"INIT", "RTR", "RTS", "ERR"}, rq : Nat, rnr_retry : Nat, rnr : Nat,
                   mr : Contents, sr : Sent' \cup {NoRequest},
                   cq : Seq({"SUCCESS", "RECV", "RNR_RETRY_EXC_ERR"})]
      BY <2>1, SideAssumption, EmptySeq DEF NewPy
    <3>2. nic' \in [qps : {"INIT", "RTS", "ERR"}, rnr_retry : Nat, rnr : Nat, mr : Contents,
                    req : Sent' \cup {NoRequest}]
      BY <2>1, SideAssumption DEF NewNic
    <3> QED
      BY <2>1, <3>1, <3>2 DEF SInv, PyShape, NicShape
  <2>8. RecvShape' /\ RunShape'
    BY <2>1 DEF SInv, RecvShape, RunShape
  <2> QED
    BY <2>5, <2>6, <2>7, <2>8 DEF SInv
<1>2. CASE PrepareFails \/ EndCase
  <2>1. UNCHANGED <<caseNo, recvPkt, py, rust, wire, unblockRetry, causes>>
    BY <1>2 DEF PrepareFails, EndCase, sideVars, rust, wire
  <2>2. RunShape'
    BY <1>2, <2>1 DEF PrepareFails, EndCase, SInv, RunShape
  <2> QED
    BY <2>1, <2>2, SidesStay
<1> QED
  BY <1>1, <1>2

\* What the commands bring along.
LEMMA CommandFields ==
  ASSUME HInv, NEW s \in Sides, manager = "running", result[s] = "running"
  PROVE  /\ Cmd(s).name = "connect_qp" => Cmd(s).rnr_retry \in Nat
         /\ Cmd(s).name = "local_write" => Cmd(s).content \in Contents
         /\ Cmd(s).name = "recv_pkt" => Cmd(s).cnt \in Nat
  BY CmdIsACommand, RemoteNames DEF Command, Silent

\* Only side 2's queue pair and memory change.
LEMMA PyKeeps ==
  ASSUME SInv, UNCHANGED <<caseNo, manager, causes, unblockRetry, rust, wire>>,
         RecvShape', recvPkt'.phase = "blocked" => recvPkt.phase = "blocked",
         PyShape', py'.sr = py.sr
  PROVE  SInv'
<1>1. server' = server /\ nic' = nic /\ tasks' = tasks /\ copies' = copies
  BY DEF rust
<1>2. Sent' = Sent
  BY SameCase
<1>3. NicShape' /\ RunShape'
  BY <1>1, <1>2 DEF SInv, NicShape, RunShape
<1> QED
  BY <1>3, QuietKeeps

LEMMA PyCommandIsSafe == HInv /\ SInv /\ (PyCommand \/ PyAssert) => SInv'
<1> SUFFICES ASSUME HInv, SInv, PyCommand \/ PyAssert PROVE SInv'
  OBVIOUS
<1>0. caseNo' = caseNo /\ manager' = manager /\ 2 \in Sides
  BY DEF PyCommand, PyAssert, Py, Plain, managing, Sides
<1>1. CasePacket' = CasePacket /\ Sent' = Sent /\ Back' = Back
  BY <1>0, SameCase
<1>2. py \in [qps : {"INIT", "RTR", "RTS", "ERR"}, rq : Nat, rnr_retry : Nat, rnr : Nat,
              mr : Contents, sr : Sent \cup {NoRequest},
              cq : Seq({"SUCCESS", "RECV", "RNR_RETRY_EXC_ERR"})]
  BY DEF SInv, PyShape
<1>3. CASE /\ UNCHANGED <<causes, calls, rust, wire>>
           /\ \/ Calls(2, {"connect_qp"}) /\ PyConnectQp(Cmd(2).rnr_retry)
              \/ Calls(2, {"local_write"}) /\ PyLocalWrite(Cmd(2).content)
              \/ PyLocalRecv \/ PyPollComplete
  <2>1. /\ Calls(2, {"connect_qp"}) => Cmd(2).rnr_retry \in Nat
        /\ Calls(2, {"local_write"}) => Cmd(2).content \in Contents
    BY <1>0, CommandFields DEF Calls, Cmd
  <2>2. py.cq # <<>> => Tail(py.cq) \in Seq({"SUCCESS", "RECV", "RNR_RETRY_EXC_ERR"})
    BY <1>2, HeadTailProperties
  <2>3. py'.sr = py.sr
        /\ py' \in [qps : {"INIT", "RTR", "RTS", "ERR"}, rq : Nat, rnr_retry : Nat, rnr : Nat,
                    mr : Contents, sr : Sent \cup {NoRequest},
                    cq : Seq({"SUCCESS", "RECV", "RNR_RETRY_EXC_ERR"})]
    <3>1. CASE Calls(2, {"connect_qp"}) /\ PyConnectQp(Cmd(2).rnr_retry)
      BY <1>2, <2>1, <3>1 DEF PyConnectQp
    <3>2. CASE Calls(2, {"local_write"}) /\ PyLocalWrite(Cmd(2).content)
      BY <1>2, <2>1, <3>2 DEF PyLocalWrite
    <3>3. CASE PyLocalRecv
      <4>1. py.rq \in Nat /\ py.rq + 1 \in Nat
        BY <1>2
      <4>2. py' = [py EXCEPT !.rq = py.rq + 1, !.qps = "RTR"]
        BY <3>3 DEF PyLocalRecv
      <4> QED
        BY <1>2, <4>1, <4>2
    <3>4. CASE PyPollComplete
      BY <1>2, <2>2, <3>4 DEF PyPollComplete
    <3> QED
      BY <1>3, <3>1, <3>2, <3>3, <3>4
  <2>4. PyShape' /\ RecvShape' /\ recvPkt' = recvPkt /\ unblockRetry' = unblockRetry
    BY <1>1, <1>3, <2>3 DEF PyShape, SInv, RecvShape, calls
  <2> QED
    BY <1>0, <1>3, <2>3, <2>4, PyKeeps
<1>4. CASE Calls(2, DOMAIN Remote) /\ PyRemote(RequestOf(2, py.mr)) /\ UNCHANGED causes
  <2> DEFINE p == RequestOf(2, py.mr)
  <2>1. p \in Sent
    BY <1>0, <1>2, <1>4, RequestIsSent
  <2>2. p \in CasePacket /\ p \notin Back /\ p # NoRequest
    BY <2>1, Kinds
  <2> HIDE DEF p
  <2>3. /\ py.sr = NoRequest /\ py' = [py EXCEPT !.sr = p, !.rnr = py.rnr_retry]
        /\ toRust' = Append(toRust, p) /\ toPy' = toPy /\ UNCHANGED <<recvPkt, unblockRetry, rust>>
    BY <1>4 DEF PyRemote, p, calls
  <2>4. recvPkt.phase # "blocked"
    <3>1. ~Calls(2, {"recv_pkt"})
      BY <1>4, RemoteNames DEF Calls
    <3>2. recvPkt = NotReceiving
      BY <3>1 DEF HInv, HandlersAreCalled
    <3> QED
      BY <3>2 DEF NotReceiving
  <2>5. PyShape' /\ py'.sr = p
    <3>1. py'.sr = p
          /\ py' \in [qps : {"INIT", "RTR", "RTS", "ERR"}, rq : Nat, rnr_retry : Nat, rnr : Nat,
                      mr : Contents, sr : Sent \cup {NoRequest},
                      cq : Seq({"SUCCESS", "RECV", "RNR_RETRY_EXC_ERR"})]
      BY <1>2, <2>1, <2>3
    <3> QED
      BY <1>1, <3>1 DEF PyShape
  <2>6. toRust \in Seq(CasePacket) /\ Without(toRust, Sent) /\ Without(toPy, Back)
        /\ Single(toRust, Sent) /\ Single(toPy, Back)
    BY <2>3 DEF SInv, WireShape, InOnePlace
  <2>7. toRust' \in Seq(CasePacket) /\ Single(toRust', Sent)
    BY <2>2, <2>3, <2>6, AppendKeeps
  <2>8. InOnePlace' /\ WireShape'
    BY <1>1, <2>2, <2>3, <2>4, <2>5, <2>6, <2>7 DEF InOnePlace, WireShape, SInv
  <2>9. RecvShape' /\ NicShape' /\ RunShape'
    BY <1>0, <1>1, <1>4, <2>3 DEF SInv, RecvShape, NicShape, RunShape, rust
  <2> QED
    BY <2>5, <2>8, <2>9 DEF SInv
<1>5. CASE UNCHANGED sideVars
  <2>1. UNCHANGED <<recvPkt, py, rust, wire, unblockRetry>>
    BY <1>5 DEF sideVars, rust, wire
  <2>2. causes' \subseteq Causes
    BY DEF PyCommand, PyAssert, Py, Plain, Note, Causes, SInv, RunShape
  <2>3. RunShape'
    BY <1>0, <2>1, <2>2 DEF SInv, RunShape
  <2> QED
    BY <1>0, <2>1, <2>3, SidesStay
<1>6. PyCommand => UNCHANGED causes
  BY DEF PyCommand, Py, Plain
<1>7. PyAssert => UNCHANGED sideVars
  BY DEF PyAssert
<1>8. PyCommand =>
        \/ UNCHANGED sideVars
        \/ Calls(2, DOMAIN Remote) /\ PyRemote(RequestOf(2, py.mr))
        \/ /\ UNCHANGED <<calls, rust, wire>>
           /\ \/ Calls(2, {"connect_qp"}) /\ PyConnectQp(Cmd(2).rnr_retry)
              \/ Calls(2, {"local_write"}) /\ PyLocalWrite(Cmd(2).content)
              \/ PyLocalRecv \/ PyPollComplete
  BY DEF PyCommand, Py, PyConnectQp, PyLocalWrite, PyLocalRecv, PyPollComplete, PyOnly
<1> QED
  BY <1>3, <1>4, <1>5, <1>6, <1>7, <1>8

-----------------------------------------------------------------------------
(***************************************************************************)
(* RecvPkt takes a packet of the case from the socket.                     *)
(***************************************************************************)
LEMMA TakenFromSocket ==
  ASSUME SInv, Waiting
  PROVE  /\ Head(toPy) \in CasePacket /\ Tail(toPy) \in Seq(CasePacket)
         /\ Without(toPy, Back) => Without(Tail(toPy), Back) /\ Head(toPy) \notin Back
         /\ Single(Tail(toPy), Back)
         /\ Head(toPy) \in Back => /\ Without(Tail(toPy), Back) /\ Without(toRust, Sent)
                                   /\ py.sr # NoRequest
         /\ Counted(Head(toPy)) \in [phase : {"receiving"}, left : Nat, last : Requests \cup Answers]
         /\ recvPkt.phase = "receiving"
<1>1. toPy \in Seq(CasePacket) /\ toPy # <<>> /\ recvPkt.left \in Nat /\ recvPkt.left > 0
      /\ recvPkt.phase = "receiving"
  BY DEF SInv, WireShape, Waiting, RecvShape
<1>2. /\ Head(toPy) \in CasePacket /\ Tail(toPy) \in Seq(CasePacket)
      /\ Without(toPy, Back) => Without(Tail(toPy), Back) /\ Head(toPy) \notin Back
      /\ Single(toPy, Back) => Single(Tail(toPy), Back)
      /\ Single(toPy, Back) /\ Head(toPy) \in Back => Without(Tail(toPy), Back)
  BY <1>1, TailKeeps
<1>3. Head(toPy).kind \in Requests \cup Answers
  BY <1>2, Kinds
<1>4. Counted(Head(toPy)) \in [phase : {"receiving"}, left : Nat, last : Requests \cup Answers]
  BY <1>1, <1>3 DEF Counted
<1> QED
  BY <1>1, <1>2, <1>4 DEF SInv, InOnePlace

\* RetryLogic sends the request again, or gives it up: the request is held
\* by side 2, and no copy of it or answer to it is under way.
LEMMA RetriedIsSafe ==
  ASSUME SInv, Retried, UNCHANGED <<caseNo, manager, unblockRetry, rust>>, causes' \subseteq Causes,
         py.sr # NoRequest, Without(toRust, Sent), toPy' \in Seq(CasePacket),
         Without(toPy', Back), RecvShape', recvPkt'.phase # "blocked"
  PROVE  SInv'
<1>1. CasePacket' = CasePacket /\ Sent' = Sent /\ Back' = Back
  BY SameCase
<1>2. py \in [qps : {"INIT", "RTR", "RTS", "ERR"}, rq : Nat, rnr_retry : Nat, rnr : Nat,
              mr : Contents, sr : Sent \cup {NoRequest},
              cq : Seq({"SUCCESS", "RECV", "RNR_RETRY_EXC_ERR"})]
  BY DEF SInv, PyShape
<1>3. toRust \in Seq(CasePacket) /\ Single(toRust, Sent) /\ Single(toPy', Back)
  BY DEF SInv, WireShape, InOnePlace, Without, Single
<1>4. CASE py.rnr > 0
  <2>1. /\ py' = [py EXCEPT !.rnr = py.rnr - 1] /\ toRust' = Append(toRust, py.sr)
        /\ py.rnr - 1 \in Nat /\ py.sr \in Sent
    BY <1>2, <1>4 DEF Retried
  <2>2. py.sr \in CasePacket
    BY <2>1, Kinds
  <2>3. toRust' \in Seq(CasePacket) /\ Single(toRust', Sent)
    BY <1>3, <2>1, <2>2, AppendKeeps
  <2>4. /\ py'.sr = py.sr
        /\ py' \in [qps : {"INIT", "RTR", "RTS", "ERR"}, rq : Nat, rnr_retry : Nat, rnr : Nat,
                    mr : Contents, sr : Sent \cup {NoRequest},
                    cq : Seq({"SUCCESS", "RECV", "RNR_RETRY_EXC_ERR"})]
    BY <1>2, <2>1
  <2>5. PyShape' /\ WireShape' /\ InOnePlace'
    BY <1>1, <1>3, <2>3, <2>4 DEF PyShape, WireShape, InOnePlace
  <2>6. NicShape' /\ RunShape'
    BY <1>1 DEF SInv, NicShape, RunShape, rust
  <2> QED
    BY <2>5, <2>6 DEF SInv
<1>5. CASE ~(py.rnr > 0)
  <2>1. /\ py' = [py EXCEPT !.qps = "ERR", !.sr = NoRequest,
                            !.cq = Append(py.cq, "RNR_RETRY_EXC_ERR")]
        /\ toRust' = toRust
    BY <1>5 DEF Retried
  <2>2. Append(py.cq, "RNR_RETRY_EXC_ERR") \in Seq({"SUCCESS", "RECV", "RNR_RETRY_EXC_ERR"})
    BY <1>2, AppendProperties
  <2>3. /\ py'.sr = NoRequest
        /\ py' \in [qps : {"INIT", "RTR", "RTS", "ERR"}, rq : Nat, rnr_retry : Nat, rnr : Nat,
                    mr : Contents, sr : Sent \cup {NoRequest},
                    cq : Seq({"SUCCESS", "RECV", "RNR_RETRY_EXC_ERR"})]
    BY <1>2, <2>1, <2>2
  <2>4. PyShape' /\ WireShape' /\ InOnePlace'
    BY <1>1, <1>3, <2>1, <2>3 DEF PyShape, WireShape, InOnePlace
  <2>5. NicShape' /\ RunShape'
    BY <1>1 DEF SInv, NicShape, RunShape, rust
  <2> QED
    BY <2>4, <2>5 DEF SInv
<1> QED
  BY <1>4, <1>5

LEMMA RecvRequestIsSafe ==
  ASSUME SInv, RecvRequest(caseNo), UNCHANGED <<caseNo, manager, causes>>
  PROVE  SInv'
<1> DEFINE p == Head(toPy)
           rnr == NeedsRecv(p) /\ py.rq = 0
<1>1. CasePacket' = CasePacket /\ Sent' = Sent /\ Back' = Back
  BY SameCase
<1>2. /\ Waiting /\ p.kind \in Requests /\ recvPkt' = Counted(p)
      /\ toRust' = Append(toRust, IF rnr THEN Rnr(p) ELSE Done(p, py.mr))
      /\ toPy' = Tail(toPy) /\ UNCHANGED <<unblockRetry, rust>>
      /\ IF rnr THEN UNCHANGED py
         ELSE py' = [py EXCEPT !.mr = Executed(p, py.mr),
                               !.rq = IF NeedsRecv(p) THEN py.rq - 1 ELSE py.rq,
                               !.cq = IF NeedsRecv(p) THEN Append(py.cq, "RECV") ELSE py.cq]
  BY DEF RecvRequest
<1>3. /\ p \in CasePacket /\ toPy' \in Seq(CasePacket)
      /\ Without(toPy, Back) => Without(toPy', Back)
      /\ Single(toPy', Back)
      /\ recvPkt' \in [phase : {"receiving"}, left : Nat, last : Requests \cup Answers]
      /\ recvPkt.phase = "receiving"
  BY <1>2, TakenFromSocket
<1>4. py \in [qps : {"INIT", "RTR", "RTS", "ERR"}, rq : Nat, rnr_retry : Nat, rnr : Nat,
              mr : Contents, sr : Sent \cup {NoRequest},
              cq : Seq({"SUCCESS", "RECV", "RNR_RETRY_EXC_ERR"})]
  BY DEF SInv, PyShape
<1>5. /\ Rnr(p) \in CasePacket /\ Rnr(p) \notin Sent
      /\ Done(p, py.mr) \in CasePacket /\ Done(p, py.mr) \notin Sent
      /\ Executed(p, py.mr) \in Contents
  <2>1. /\ Rnr(p) \in CasePacket /\ Rnr(p).kind \in Answers
        /\ Done(p, py.mr) \in CasePacket /\ Done(p, py.mr).kind \in Answers
        /\ Executed(p, py.mr) \in Contents
    BY <1>2, <1>3, <1>4, AnswerIsAPacket
  <2> QED
    BY <2>1, Kinds
<1>6. /\ toRust' \in Seq(CasePacket) /\ Single(toRust', Sent)
      /\ Without(toRust, Sent) => Without(toRust', Sent)
  <2> DEFINE q == IF rnr THEN Rnr(p) ELSE Done(p, py.mr)
  <2>1. toRust \in Seq(CasePacket) /\ q \in CasePacket /\ q \notin Sent /\ toRust' = Append(toRust, q)
        /\ Single(toRust, Sent)
    BY <1>2, <1>5 DEF SInv, WireShape, InOnePlace
  <2> HIDE DEF q
  <2> QED
    BY <2>1, AppendKeeps
<1>7. /\ py'.sr = py.sr
      /\ py' \in [qps : {"INIT", "RTR", "RTS", "ERR"}, rq : Nat, rnr_retry : Nat, rnr : Nat,
                  mr : Contents, sr : Sent \cup {NoRequest},
                  cq : Seq({"SUCCESS", "RECV", "RNR_RETRY_EXC_ERR"})]
  <2> DEFINE c == IF NeedsRecv(p) THEN Append(py.cq, "RECV") ELSE py.cq
             r == IF NeedsRecv(p) THEN py.rq - 1 ELSE py.rq
             m == Executed(p, py.mr)
  <2>1. c \in Seq({"SUCCESS", "RECV", "RNR_RETRY_EXC_ERR"})
    BY <1>4, AppendProperties
  <2>2. ~rnr => r \in Nat
    BY <1>4
  <2>3. rnr => py' = py
    BY <1>2
  <2>4. ~rnr => py' = [py EXCEPT !.mr = m, !.rq = r, !.cq = c]
    BY <1>2
  <2>5. m \in Contents
    BY <1>5
  <2> HIDE DEF c, r, m, rnr
  <2>6. CASE rnr
    BY <1>4, <2>3, <2>6
  <2>7. CASE ~rnr
    BY <1>4, <2>1, <2>2, <2>4, <2>5, <2>7
  <2> QED
    BY <2>6, <2>7
<1> HIDE DEF p, rnr
<1>8. PyShape' /\ WireShape' /\ RecvShape'
  BY <1>1, <1>3, <1>6, <1>7 DEF PyShape, WireShape, RecvShape
<1>9. InOnePlace'
  BY <1>1, <1>3, <1>6, <1>7 DEF SInv, InOnePlace
<1>10. NicShape' /\ RunShape'
  BY <1>1, <1>2 DEF SInv, NicShape, RunShape, rust
<1> QED
  BY <1>8, <1>9, <1>10 DEF SInv

LEMMA RecvAnswerIsSafe ==
  ASSUME SInv, RecvAnswer(caseNo), UNCHANGED <<caseNo, manager, causes>>
  PROVE  SInv'
<1> DEFINE p == Head(toPy)
<1>1. CasePacket' = CasePacket /\ Sent' = Sent /\ Back' = Back
  BY SameCase
<1>2. /\ Waiting /\ p.qp = caseNo /\ p.kind \in {"ACK", "DATA"} /\ recvPkt' = Counted(p)
      /\ py' = [py EXCEPT !.sr = NoRequest, !.cq = Append(py.cq, "SUCCESS"),
                          !.mr = IF p.kind = "DATA" THEN p.data ELSE py.mr]
      /\ toPy' = Tail(toPy) /\ toRust' = toRust /\ UNCHANGED <<unblockRetry, rust>>
  BY DEF RecvAnswer, Skipped
<1>3. /\ p \in CasePacket /\ toPy' \in Seq(CasePacket) /\ Single(toPy', Back)
      /\ p \in Back => Without(toPy', Back) /\ Without(toRust, Sent)
      /\ recvPkt' \in [phase : {"receiving"}, left : Nat, last : Requests \cup Answers]
  BY <1>2, TakenFromSocket
<1>4. p \in Back /\ p.data \in Contents
  BY <1>2, <1>3, Kinds DEF Answers
<1>5. py \in [qps : {"INIT", "RTR", "RTS", "ERR"}, rq : Nat, rnr_retry : Nat, rnr : Nat,
              mr : Contents, sr : Sent \cup {NoRequest},
              cq : Seq({"SUCCESS", "RECV", "RNR_RETRY_EXC_ERR"})]
  BY DEF SInv, PyShape
<1>6. /\ py'.sr = NoRequest
      /\ py' \in [qps : {"INIT", "RTR", "RTS", "ERR"}, rq : Nat, rnr_retry : Nat, rnr : Nat,
                  mr : Contents, sr : Sent \cup {NoRequest},
                  cq : Seq({"SUCCESS", "RECV", "RNR_RETRY_EXC_ERR"})]
  <2> DEFINE c == Append(py.cq, "SUCCESS")
             m == IF p.kind = "DATA" THEN p.data ELSE py.mr
  <2>1. c \in Seq({"SUCCESS", "RECV", "RNR_RETRY_EXC_ERR"}) /\ m \in Contents
    BY <1>4, <1>5, AppendProperties
  <2>2. py' = [py EXCEPT !.sr = NoRequest, !.cq = c, !.mr = m]
    BY <1>2
  <2> HIDE DEF c, m
  <2> QED
    BY <1>5, <2>1, <2>2
<1> HIDE DEF p
<1>7. PyShape' /\ WireShape' /\ RecvShape'
  BY <1>1, <1>2, <1>3, <1>6 DEF SInv, PyShape, WireShape, RecvShape
<1>8. InOnePlace'
  BY <1>1, <1>2, <1>3, <1>4, <1>6 DEF SInv, InOnePlace
<1>9. NicShape' /\ RunShape'
  BY <1>1, <1>2 DEF SInv, NicShape, RunShape, rust
<1> QED
  BY <1>7, <1>8, <1>9 DEF SInv

LEMMA RecvPktIsSafe ==
  HInv /\ SInv /\ (RecvPktCall \/ RecvPktStep \/ RecvPktRnr \/ RecvPktReleased \/ RecvPktReturn
                     \/ RecvPktRaises) => SInv'
<1> SUFFICES ASSUME HInv, SInv,
                    RecvPktCall \/ RecvPktStep \/ RecvPktRnr \/ RecvPktReleased
                      \/ RecvPktReturn \/ RecvPktRaises
             PROVE SInv'
  OBVIOUS
<1>0. /\ caseNo' = caseNo /\ manager' = manager /\ Calls(2, {"recv_pkt"}) /\ 2 \in Sides
      /\ causes' \subseteq Causes
  BY DEF RecvPktCall, RecvPktStep, RecvPktRnr, RecvPktReleased, RecvPktReturn, RecvPktRaises, Py,
     Plain, managing, Sides, Note, Causes, SInv, RunShape
<1>1. CasePacket' = CasePacket /\ Sent' = Sent /\ Back' = Back
  BY <1>0, SameCase
<1>2. py \in [qps : {"INIT", "RTR", "RTS", "ERR"}, rq : Nat, rnr_retry : Nat, rnr : Nat,
              mr : Contents, sr : Sent \cup {NoRequest},
              cq : Seq({"SUCCESS", "RECV", "RNR_RETRY_EXC_ERR"})]
  BY DEF SInv, PyShape
<1>3. CASE RecvPktCall
  <2>1. /\ recvPkt' = [phase |-> "receiving", left |-> Cmd(2).cnt, last |-> "none"]
        /\ UNCHANGED <<unblockRetry, py, rust, wire, causes>>
    BY <1>3 DEF RecvPktCall, RecvBegin, Py, Plain
  <2>2. Cmd(2).cnt \in Nat
    BY <1>0, CommandFields DEF Calls, Cmd
  <2>3. RecvShape' /\ PyShape' /\ recvPkt'.phase # "blocked" /\ py'.sr = py.sr
    BY <1>1, <1>2, <2>1, <2>2 DEF RecvShape, PyShape
  <2> QED
    BY <1>0, <2>1, <2>3, PyKeeps
<1>4. CASE RecvPktStep
  <2>1. UNCHANGED <<caseNo, manager, causes>>
    BY <1>4 DEF RecvPktStep, Py, Plain, managing
  <2>2. CASE RecvSkip(caseNo)
    <3>1. /\ Waiting /\ Head(toPy).qp # caseNo /\ toPy' = Tail(toPy) /\ toRust' = toRust
          /\ py' = py /\ UNCHANGED <<recvPkt, unblockRetry, rust>>
      BY <2>2 DEF RecvSkip, Skipped, calls
    <3>2. /\ toPy' \in Seq(CasePacket) /\ Single(toPy', Back)
          /\ Without(toPy, Back) => Without(toPy', Back)
      BY <3>1, TakenFromSocket
    <3>3. WireShape' /\ InOnePlace'
      BY <1>1, <3>1, <3>2 DEF SInv, WireShape, InOnePlace
    <3>4. RecvShape' /\ PyShape' /\ NicShape' /\ RunShape'
      BY <1>1, <2>1, <3>1 DEF SInv, RecvShape, PyShape, NicShape, RunShape, rust
    <3> QED
      BY <3>3, <3>4 DEF SInv
  <2> QED
    BY <1>4, <2>1, <2>2, RecvRequestIsSafe, RecvAnswerIsSafe DEF RecvPktStep
<1>5. CASE RecvPktRnr
  <2> DEFINE p == Head(toPy)
             w == Cmd(2).wait_for_retry
  <2>1. /\ Waiting /\ p.qp = caseNo /\ p.kind = "RNR" /\ toPy' = Tail(toPy)
        /\ UNCHANGED <<unblockRetry, rust>>
        /\ IF w = 0 THEN recvPkt' = Counted(p) /\ Retried
           ELSE recvPkt' = [Counted(p) EXCEPT !.phase = "blocked"] /\ UNCHANGED <<py, toRust>>
    BY <1>5 DEF RecvPktRnr, RecvRnr, Skipped
  <2>2. /\ p \in CasePacket /\ toPy' \in Seq(CasePacket)
        /\ p \in Back => Without(toPy', Back) /\ Without(toRust, Sent) /\ py.sr # NoRequest
        /\ Counted(p) \in [phase : {"receiving"}, left : Nat, last : Requests \cup Answers]
    BY <2>1, TakenFromSocket
  <2>3. p \in Back
    BY <2>1, <2>2, Kinds DEF Answers
  <2> HIDE DEF p, w
  <2>4. CASE w = 0
    <3>1. RecvShape' /\ recvPkt'.phase # "blocked"
      BY <2>1, <2>2, <2>4 DEF RecvShape
    <3> QED
      BY <1>0, <2>1, <2>2, <2>3, <2>4, <3>1, RetriedIsSafe
  <2>5. CASE w # 0
    <3>1. recvPkt' = [Counted(p) EXCEPT !.phase = "blocked"] /\ py' = py /\ toRust' = toRust
      BY <2>1, <2>5
    <3>2. RecvShape'
      BY <2>2, <3>1 DEF RecvShape
    <3>3. WireShape' /\ InOnePlace'
      BY <1>1, <2>2, <2>3, <3>1 DEF SInv, WireShape, InOnePlace, Without, Single
    <3>4. PyShape' /\ NicShape' /\ RunShape'
      BY <1>0, <1>1, <2>1, <3>1 DEF SInv, PyShape, NicShape, RunShape, rust
    <3> QED
      BY <3>2, <3>3, <3>4 DEF SInv
  <2> QED
    BY <2>4, <2>5
<1>6. CASE RecvPktReleased
  <2>1. /\ recvPkt.phase = "blocked" /\ recvPkt' = [recvPkt EXCEPT !.phase = "receiving"]
        /\ Retried /\ UNCHANGED <<unblockRetry, rust, toPy>>
    BY <1>6 DEF RecvPktReleased, RetryReleased
  <2>2. RecvShape' /\ recvPkt'.phase # "blocked"
    BY <2>1 DEF SInv, RecvShape
  <2>3. /\ py.sr # NoRequest /\ Without(toRust, Sent) /\ Without(toPy', Back)
        /\ toPy' \in Seq(CasePacket)
    BY <2>1 DEF SInv, WireShape, InOnePlace
  <2> QED
    BY <1>0, <2>1, <2>2, <2>3, RetriedIsSafe
<1>7. CASE RecvPktReturn
  <2>1. /\ recvPkt' = NotReceiving /\ UNCHANGED <<unblockRetry, rust, wire, causes>>
        /\ py' = py \/ (py.cq # <<>> /\ py' = [py EXCEPT !.cq = Tail(py.cq)])
    BY <1>7 DEF RecvPktReturn, RecvReturn, Py, Plain
  <2>2. py.cq # <<>> => Tail(py.cq) \in Seq({"SUCCESS", "RECV", "RNR_RETRY_EXC_ERR"})
    BY <1>2, HeadTailProperties
  <2>3. /\ py'.sr = py.sr
        /\ py' \in [qps : {"INIT", "RTR", "RTS", "ERR"}, rq : Nat, rnr_retry : Nat, rnr : Nat,
                    mr : Contents, sr : Sent \cup {NoRequest},
                    cq : Seq({"SUCCESS", "RECV", "RNR_RETRY_EXC_ERR"})]
    BY <1>2, <2>1, <2>2
  <2>4. PyShape' /\ RecvShape' /\ recvPkt'.phase # "blocked"
    BY <1>1, <2>1, <2>3 DEF PyShape, RecvShape, NotReceiving
  <2> QED
    BY <1>0, <2>1, <2>3, <2>4, PyKeeps
<1>8. CASE RecvPktRaises
  <2>1. /\ recvPkt' = NotReceiving /\ UNCHANGED <<unblockRetry, py, rust, toRust>>
        /\ toPy' = toPy \/ (Waiting /\ toPy' = Tail(toPy))
    BY <1>8 DEF RecvPktRaises, RecvTimeout, RecvAssert, wire
  <2>2. /\ toPy' \in Seq(CasePacket) /\ Single(toPy', Back)
        /\ Without(toPy, Back) => Without(toPy', Back)
    BY <2>1, TakenFromSocket DEF SInv, WireShape, InOnePlace
  <2>3. RecvShape' /\ recvPkt'.phase # "blocked"
    BY <2>1 DEF RecvShape, NotReceiving
  <2>4. WireShape' /\ InOnePlace'
    BY <1>1, <2>1, <2>2, <2>3 DEF SInv, WireShape, InOnePlace
  <2>5. PyShape' /\ NicShape' /\ RunShape'
    BY <1>0, <1>1, <2>1 DEF SInv, PyShape, NicShape, RunShape, rust
  <2> QED
    BY <2>3, <2>4, <2>5 DEF SInv
<1> QED
  BY <1>3, <1>4, <1>5, <1>6, <1>7, <1>8

-----------------------------------------------------------------------------
(***************************************************************************)
(* Side 1: the commands, and the NIC that takes packets by itself.         *)
(***************************************************************************)
\* Only the NIC and its server change.
LEMMA NicKeeps ==
  ASSUME SInv, UNCHANGED <<caseNo, manager, recvPkt, unblockRetry, py, wire>>, NicShape',
         causes' \subseteq Causes
  PROVE  SInv'
<1>1. Sent' = Sent
  BY SameCase
<1>2. RecvShape' /\ PyShape' /\ RunShape'
  BY <1>1 DEF SInv, RecvShape, PyShape, RunShape
<1> QED
  BY <1>2, QuietKeeps

\* A step whose packets are for others than the outstanding request of side 2.
LEMMA WireKeeps ==
  ASSUME SInv, UNCHANGED <<caseNo, manager, recvPkt, unblockRetry, py>>, NicShape',
         causes' \subseteq Causes, WireShape', InOnePlace'
  PROVE  SInv'
<1>1. Sent' = Sent
  BY SameCase
<1>2. RecvShape' /\ PyShape' /\ RunShape'
  BY <1>1 DEF SInv, RecvShape, PyShape, RunShape
<1> QED
  BY <1>2 DEF SInv

LEMMA RustCommandIsSafe ==
  HInv /\ SInv /\ (RustCommand \/ RustCheck \/ RustNotPosted \/ RustGiveUp
                     \/ \E s \in Sides : Unanswered(s)) => SInv'
<1> SUFFICES ASSUME HInv, SInv,
                    RustCommand \/ RustCheck \/ RustNotPosted \/ RustGiveUp
                      \/ \E s \in Sides : Unanswered(s)
             PROVE SInv'
  OBVIOUS
<1>0. caseNo' = caseNo /\ manager' = manager /\ causes' \subseteq Causes /\ 1 \in Sides
  BY DEF RustCommand, RustCheck, RustNotPosted, RustGiveUp, Unanswered, Plain, managing, Note,
     Causes, SInv, RunShape, Sides
<1>1. CasePacket' = CasePacket /\ Sent' = Sent /\ Back' = Back
  BY <1>0, SameCase
<1>2. /\ nic \in [qps : {"INIT", "RTS", "ERR"}, rnr_retry : Nat, rnr : Nat, mr : Contents,
                  req : Sent \cup {NoRequest}]
      /\ server \in {"up", "down"} /\ tasks \in Nat /\ copies \in Seq(Contents)
  BY DEF SInv, NicShape
<1>3. CASE UNCHANGED sideVars
  <2>1. UNCHANGED <<recvPkt, py, rust, wire, unblockRetry>>
    BY <1>3 DEF sideVars, rust, wire
  <2>2. RunShape'
    BY <1>0, <2>1 DEF SInv, RunShape
  <2> QED
    BY <1>0, <2>1, <2>2, SidesStay
<1>4. CASE Calls(1, {"connect_qp"}) /\ NicConnectQp(Cmd(1).rnr_retry)
  <2>1. Cmd(1).rnr_retry \in Nat
    BY <1>0, <1>4, CommandFields DEF Calls, Cmd
  <2>2. /\ nic' = [nic EXCEPT !.qps = "RTS", !.rnr_retry = Cmd(1).rnr_retry]
        /\ UNCHANGED <<recvPkt, unblockRetry, py, wire, server, tasks, copies>>
    BY <1>4 DEF NicConnectQp, NicOnly, calls
  <2>3. NicShape'
    BY <1>1, <1>2, <2>1, <2>2 DEF NicShape
  <2> QED
    BY <1>0, <2>2, <2>3, NicKeeps
<1>5. CASE Calls(1, {"local_write"}) /\ NicLocalWrite(Cmd(1).content)
  <2>1. Cmd(1).content \in Contents
    BY <1>0, <1>5, CommandFields DEF Calls, Cmd
  <2>2. /\ nic' = [nic EXCEPT !.mr = Cmd(1).content]
        /\ UNCHANGED <<recvPkt, unblockRetry, py, wire, server, tasks, copies>>
    BY <1>5 DEF NicLocalWrite, NicOnly, calls
  <2>3. NicShape'
    BY <1>1, <1>2, <2>1, <2>2 DEF NicShape
  <2> QED
    BY <1>0, <2>2, <2>3, NicKeeps
<1>6. CASE NicLocalRecv
  <2>1. /\ tasks' = tasks + 1
        /\ UNCHANGED <<recvPkt, unblockRetry, py, wire, server, nic, copies>>
    BY <1>6 DEF NicLocalRecv, NicOnly, calls
  <2>2. NicShape'
    BY <1>1, <1>2, <2>1 DEF NicShape
  <2> QED
    BY <1>0, <2>1, <2>2, NicKeeps
<1>7. CASE NicGiveUp
  <2>1. /\ nic' = [nic EXCEPT !.qps = "ERR", !.req = NoRequest]
        /\ UNCHANGED <<recvPkt, unblockRetry, py, wire, server, tasks, copies>>
    BY <1>7 DEF NicGiveUp, NicFailed, NicOnly, calls
  <2>2. NicShape'
    BY <1>1, <1>2, <2>1 DEF NicShape
  <2> QED
    BY <1>0, <2>1, <2>2, NicKeeps
<1>8. CASE Calls(1, DOMAIN Remote) /\ NicRemote(RequestOf(1, nic.mr))
  <2> DEFINE p == RequestOf(1, nic.mr)
  <2>1. p \in Sent
    BY <1>0, <1>2, <1>8, RequestIsSent
  <2>2. p \in CasePacket /\ p \notin Back
    BY <2>1, Kinds
  <2>3. /\ nic' = [nic EXCEPT !.req = p, !.rnr = nic.rnr_retry] /\ toPy' = Append(toPy, p)
        /\ UNCHANGED <<recvPkt, unblockRetry, py, server, tasks, copies, toRust>>
    BY <1>8 DEF NicRemote, calls
  <2> HIDE DEF p
  <2>4. NicShape'
    BY <1>1, <1>2, <2>1, <2>3 DEF NicShape
  <2>5. toPy \in Seq(CasePacket) /\ Single(toPy, Back)
    BY DEF SInv, WireShape, InOnePlace
  <2>6. /\ toPy' \in Seq(CasePacket) /\ Single(toPy', Back)
        /\ Without(toPy, Back) => Without(toPy', Back)
    BY <2>2, <2>3, <2>5, AppendKeeps
  <2>7. WireShape' /\ InOnePlace'
    BY <1>1, <2>3, <2>6 DEF SInv, WireShape, InOnePlace
  <2> QED
    BY <1>0, <2>3, <2>4, <2>7, WireKeeps
<1>9. RustCommand =>
        \/ UNCHANGED sideVars
        \/ Calls(1, {"connect_qp"}) /\ NicConnectQp(Cmd(1).rnr_retry)
        \/ Calls(1, {"local_write"}) /\ NicLocalWrite(Cmd(1).content)
        \/ NicLocalRecv
        \/ Calls(1, DOMAIN Remote) /\ NicRemote(RequestOf(1, nic.mr))
  BY DEF RustCommand, Rust
<1>10. /\ RustCheck \/ RustNotPosted \/ (\E s \in Sides : Unanswered(s)) => UNCHANGED sideVars
       /\ RustGiveUp => NicGiveUp
  BY DEF RustCheck, RustNotPosted, RustGiveUp, Unanswered
<1> QED
  BY <1>3, <1>4, <1>5, <1>6, <1>7, <1>8, <1>9, <1>10

\* A packet that reaches the NIC leaves the wire.
LEMMA TakenFromWire ==
  ASSUME SInv, toRust # <<>>
  PROVE  /\ Head(toRust) \in CasePacket /\ Tail(toRust) \in Seq(CasePacket)
         /\ Single(Tail(toRust), Sent)
         /\ Without(toRust, Sent) => Without(Tail(toRust), Sent)
         /\ Head(toRust) \in Sent => /\ Without(Tail(toRust), Sent) /\ Without(toPy, Back)
                                     /\ py.sr # NoRequest /\ recvPkt.phase # "blocked"
<1>1. toRust \in Seq(CasePacket) /\ Single(toRust, Sent)
  BY DEF SInv, WireShape, InOnePlace
<1>2. /\ Head(toRust) \in CasePacket /\ Tail(toRust) \in Seq(CasePacket)
      /\ Without(toRust, Sent) => Without(Tail(toRust), Sent) /\ Head(toRust) \notin Sent
      /\ Single(Tail(toRust), Sent)
      /\ Head(toRust) \in Sent => Without(Tail(toRust), Sent)
  BY <1>1, TailKeeps
<1> QED
  BY <1>2 DEF SInv, InOnePlace

LEMMA RustAnswerIsSafe == HInv /\ SInv /\ RustAnswer => SInv'
<1> SUFFICES ASSUME HInv, SInv, RustAnswer PROVE SInv'
  OBVIOUS
<1> DEFINE p == Head(toRust)
<1>0. UNCHANGED <<caseNo, manager, causes>> /\ causes' \subseteq Causes
  BY DEF RustAnswer, Plain, managing, SInv, RunShape
<1>1. CasePacket' = CasePacket /\ Sent' = Sent /\ Back' = Back
  BY <1>0, SameCase
<1>2. nic \in [qps : {"INIT", "RTS", "ERR"}, rnr_retry : Nat, rnr : Nat, mr : Contents,
               req : Sent \cup {NoRequest}]
  BY DEF SInv, NicShape
<1>3. /\ toRust # <<>> /\ nic.req # NoRequest /\ toRust' = Tail(toRust)
      /\ IF p.kind = "RNR" /\ nic.rnr > 0
         THEN nic' = [nic EXCEPT !.rnr = nic.rnr - 1] /\ toPy' = Append(toPy, nic.req)
         ELSE /\ nic' = IF p.kind = "RNR" THEN [nic EXCEPT !.qps = "ERR", !.req = NoRequest]
                        ELSE [nic EXCEPT !.req = NoRequest,
                                         !.mr = IF nic.req.kind = "READ" THEN p.data ELSE nic.mr]
              /\ toPy' = toPy
      /\ UNCHANGED <<recvPkt, unblockRetry, py, server, tasks, copies>>
  BY DEF RustAnswer, NicAnswer, NicAccepts, NicFailed, calls
<1>4. /\ p \in CasePacket /\ toRust' \in Seq(CasePacket) /\ Single(toRust', Sent)
      /\ Without(toRust, Sent) => Without(toRust', Sent)
  BY <1>3, TakenFromWire
<1>5. p.data \in Contents
  BY <1>4, Kinds
<1> HIDE DEF p
<1>6. nic' \in [qps : {"INIT", "RTS", "ERR"}, rnr_retry : Nat, rnr : Nat, mr : Contents,
                req : Sent \cup {NoRequest}]
  <2> DEFINE m == IF nic.req.kind = "READ" THEN p.data ELSE nic.mr
  <2>1. m \in Contents
    BY <1>2, <1>5
  <2>2. \/ nic.rnr > 0 /\ nic' = [nic EXCEPT !.rnr = nic.rnr - 1]
        \/ nic' = [nic EXCEPT !.qps = "ERR", !.req = NoRequest]
        \/ nic' = [nic EXCEPT !.req = NoRequest, !.mr = m]
    BY <1>3
  <2> HIDE DEF m
  <2>3. nic.rnr > 0 => nic.rnr - 1 \in Nat
    BY <1>2
  <2> QED
    BY <1>2, <2>1, <2>2, <2>3
<1>7. NicShape'
  BY <1>1, <1>3, <1>6 DEF SInv, NicShape
<1>8. toPy \in Seq(CasePacket) /\ Single(toPy, Back)
  BY DEF SInv, WireShape, InOnePlace
<1>9. /\ toPy' \in Seq(CasePacket) /\ Single(toPy', Back)
      /\ Without(toPy, Back) => Without(toPy', Back)
  <2>1. CASE toPy' = toPy
    BY <1>8, <2>1
  <2>2. CASE toPy' = Append(toPy, nic.req)
    <3>1. nic.req \in CasePacket /\ nic.req \notin Back
      BY <1>2, <1>3, Kinds
    <3> QED
      BY <1>8, <2>2, <3>1, AppendKeeps
  <2> QED
    BY <1>3, <2>1, <2>2
<1>10. WireShape' /\ InOnePlace'
  BY <1>1, <1>3, <1>4, <1>9 DEF SInv, WireShape, InOnePlace
<1> QED
  BY <1>0, <1>3, <1>7, <1>10, WireKeeps

LEMMA NicRequestIsSafe ==
  ASSUME SInv, NicRequest(caseNo), UNCHANGED <<caseNo, manager, causes>>
  PROVE  SInv'
<1> DEFINE p == Head(toRust)
           rnr == NeedsRecv(p) /\ tasks = 0
           q == IF rnr THEN Rnr(p) ELSE Done(p, nic.mr)
<1>1. CasePacket' = CasePacket /\ Sent' = Sent /\ Back' = Back
  BY SameCase
<1>2. /\ nic \in [qps : {"INIT", "RTS", "ERR"}, rnr_retry : Nat, rnr : Nat, mr : Contents,
                  req : Sent \cup {NoRequest}]
      /\ server \in {"up", "down"} /\ tasks \in Nat /\ copies \in Seq(Contents)
  BY DEF SInv, NicShape
<1>3. /\ toRust # <<>> /\ p.qp = caseNo /\ p.kind \in Requests
      /\ toPy' = Append(toPy, q) /\ toRust' = Tail(toRust)
      /\ UNCHANGED <<recvPkt, unblockRetry, py, server>>
      /\ IF rnr THEN UNCHANGED <<nic, tasks, copies>>
         ELSE /\ nic' = IF p.kind = "SEND" THEN nic ELSE [nic EXCEPT !.mr = Executed(p, nic.mr)]
              /\ tasks' = IF NeedsRecv(p) THEN tasks - 1 ELSE tasks
              /\ copies' = IF p.kind = "SEND" THEN Append(copies, p.data) ELSE copies
  BY DEF NicRequest, NicAccepts, calls
<1>4. /\ p \in CasePacket /\ toRust' \in Seq(CasePacket) /\ Single(toRust', Sent)
      /\ p \in Sent => /\ Without(toRust', Sent) /\ Without(toPy, Back)
                       /\ py.sr # NoRequest /\ recvPkt.phase # "blocked"
  BY <1>3, TakenFromWire
<1>5. p \in Sent /\ p.data \in Contents
  BY <1>3, <1>4, Kinds
<1>6. q \in CasePacket /\ Executed(p, nic.mr) \in Contents
  BY <1>2, <1>3, <1>4, AnswerIsAPacket
<1>7. NicShape'
  <2>1. nic' \in [qps : {"INIT", "RTS", "ERR"}, rnr_retry : Nat, rnr : Nat, mr : Contents,
                  req : Sent \cup {NoRequest}]
    <3> DEFINE m == Executed(p, nic.mr)
    <3>1. m \in Contents /\ (nic' = nic \/ nic' = [nic EXCEPT !.mr = m])
      BY <1>3, <1>6
    <3> HIDE DEF m
    <3> QED
      BY <1>2, <3>1
  <2>2. tasks' \in Nat
    BY <1>2, <1>3
  <2>3. copies' \in Seq(Contents)
    <3>1. Append(copies, p.data) \in Seq(Contents)
      BY <1>2, <1>5, AppendProperties
    <3> QED
      BY <1>2, <1>3, <3>1
  <2> QED
    BY <1>1, <1>2, <1>3, <2>1, <2>2, <2>3 DEF NicShape
<1> HIDE DEF p, q, rnr
<1>8. toPy \in Seq(CasePacket) /\ Single(toPy, Back)
  BY DEF SInv, WireShape, InOnePlace
<1>9. toPy' \in Seq(CasePacket) /\ Single(toPy', Back)
  BY <1>3, <1>4, <1>5, <1>6, <1>8, AppendKeeps
<1>10. WireShape' /\ InOnePlace'
  BY <1>1, <1>3, <1>4, <1>5, <1>9 DEF WireShape, InOnePlace
<1>11. causes' \subseteq Causes
  BY DEF SInv, RunShape
<1> QED
  BY <1>3, <1>7, <1>10, <1>11, WireKeeps

LEMMA BackgroundIsSafe == SInv /\ Background => SInv'
<1> SUFFICES ASSUME SInv, Background PROVE SInv'
  OBVIOUS
<1>0. UNCHANGED <<caseNo, manager>> /\ causes' \subseteq Causes
  BY DEF Background, managing, Note, Causes, SInv, RunShape
<1>1. CasePacket' = CasePacket /\ Sent' = Sent /\ Back' = Back
  BY <1>0, SameCase
<1>2. /\ nic \in [qps : {"INIT", "RTS", "ERR"}, rnr_retry : Nat, rnr : Nat, mr : Contents,
                  req : Sent \cup {NoRequest}]
      /\ server \in {"up", "down"} /\ tasks \in Nat /\ copies \in Seq(Contents)
  BY DEF SInv, NicShape
<1>3. CASE NicRequest(caseNo) /\ UNCHANGED causes
  BY <1>0, <1>3, NicRequestIsSafe
<1>4. CASE NicCopy
  <2>1. /\ copies # <<>> /\ nic' = [nic EXCEPT !.mr = Head(copies)] /\ copies' = Tail(copies)
        /\ UNCHANGED <<recvPkt, unblockRetry, py, wire, server, tasks>>
    BY <1>4 DEF NicCopy, NicOnly, calls
  <2>2. Head(copies) \in Contents /\ Tail(copies) \in Seq(Contents)
    BY <1>2, <2>1, HeadTailProperties
  <2>3. NicShape'
    BY <1>1, <1>2, <2>1, <2>2 DEF NicShape
  <2> QED
    BY <1>0, <2>1, <2>3, NicKeeps
<1>5. CASE NicDrop(caseNo)
  <2>1. /\ toRust # <<>> /\ toRust' = Tail(toRust) /\ toPy' = toPy
        /\ UNCHANGED <<recvPkt, unblockRetry, py, rust>>
    BY <1>5 DEF NicDrop, calls
  <2>2. /\ toRust' \in Seq(CasePacket) /\ Single(toRust', Sent)
        /\ Without(toRust, Sent) => Without(toRust', Sent)
    BY <2>1, TakenFromWire
  <2>3. NicShape'
    BY <1>1, <2>1 DEF SInv, NicShape, rust
  <2>4. WireShape' /\ InOnePlace'
    BY <1>1, <2>1, <2>2 DEF SInv, WireShape, InOnePlace
  <2> QED
    BY <1>0, <2>1, <2>3, <2>4, WireKeeps
<1>6. CASE NicShutdown
  <2>1. /\ server' = "down" /\ nic' = [nic EXCEPT !.qps = "ERR", !.req = NoRequest]
        /\ tasks' = 0 /\ copies' = <<>> /\ UNCHANGED <<recvPkt, unblockRetry, py, wire>>
    BY <1>6 DEF NicShutdown, NicFailed, NicOnly, calls
  <2>2. NicShape'
    BY <1>1, <1>2, <2>1, EmptySeq DEF NicShape
  <2> QED
    BY <1>0, <2>1, <2>2, NicKeeps
<1> QED
  BY <1>3, <1>4, <1>5, <1>6 DEF Background

LEMMA ScriptsAreSafe ==
  SInv /\ (UnblockCall \/ UnblockLoop \/ UnblockDone \/ \E s \in Sides : Barrier(s)) => SInv'
<1> SUFFICES ASSUME SInv, UnblockCall \/ UnblockLoop \/ UnblockDone \/ \E s \in Sides : Barrier(s)
             PROVE SInv'
  OBVIOUS
<1>1. /\ UNCHANGED <<caseNo, manager, recvPkt, py, rust, wire>>
      /\ unblockRetry' \in {unblockRetry, "idle", "waiting", "passed"}
      /\ causes' \subseteq Causes
  <2>1. CASE UnblockCall \/ UnblockLoop \/ UnblockDone
    BY <2>1 DEF UnblockCall, UnblockLoop, UnblockDone, UnblockBegin, UnblockPass, UnblockReturn,
       Plain, managing, SInv, RunShape
  <2>2. ASSUME NEW s \in Sides, Barrier(s)
        PROVE  UNCHANGED <<caseNo, manager, recvPkt, unblockRetry, py, rust, wire>>
                 /\ causes' \subseteq Causes
    BY <2>2 DEF Barrier, BarrierWait, BarrierRelease, BarrierLeave, BarrierTimeout, BarrierBroken,
       managing, sideVars, rust, wire, Note, Causes, SInv, RunShape
  <2> QED
    BY <2>1, <2>2
<1>2. RunShape'
  BY <1>1 DEF SInv, RunShape
<1> QED
  BY <1>1, <1>2, SidesStay

LEMMA SInvHolds == Spec => [](HInv /\ SInv)
<1>1. Init => SInv
  <2> SUFFICES ASSUME Init PROVE SInv
    OBVIOUS
  <2>1. /\ manager = "idle" /\ causes = {} /\ unblockRetry = "idle" /\ recvPkt = NotReceiving
        /\ py = NewPy /\ server = "up" /\ nic = NewNic /\ tasks = 0 /\ copies = <<>>
        /\ toPy = <<>> /\ toRust = <<>>
    BY DEF Init, SideInit
  <2>2. RecvShape /\ RunShape
    BY <2>1 DEF RecvShape, RunShape, NotReceiving
  <2>3. PyShape /\ NicShape
    BY <2>1, SideAssumption, EmptySeq DEF PyShape, NicShape, NewPy, NewNic
  <2>4. WireShape /\ InOnePlace
    <3>1. Len(toPy) = 0 /\ Len(toRust) = 0 /\ recvPkt.phase # "blocked"
      BY <2>1, EmptySeq DEF NotReceiving
    <3> QED
      BY <2>1, <3>1, EmptySeq DEF WireShape, InOnePlace, Without, Single
  <2> QED
    BY <2>2, <2>3, <2>4 DEF SInv
<1>2. HInv /\ SInv /\ [Next]_vars => SInv'
  <2> SUFFICES ASSUME HInv, SInv, [Next]_vars PROVE SInv'
    OBVIOUS
  <2>1. CASE UNCHANGED vars
    <3>1. UNCHANGED <<caseNo, recvPkt, py, rust, wire, manager, causes, unblockRetry>>
      BY <2>1 DEF vars, harness, sideVars, rust, wire
    <3>2. RunShape'
      BY <3>1 DEF SInv, RunShape
    <3> QED
      BY <3>1, <3>2, SidesStay
  <2> QED
    BY <2>1, ManagerIsSafe, PyCommandIsSafe, RecvPktIsSafe, RustCommandIsSafe, RustAnswerIsSafe,
       BackgroundIsSafe, ScriptsAreSafe DEF Next
<1> QED
  BY <1>1, <1>2, HInvHolds, PTL DEF Spec

(***************************************************************************)
(* The harness keeps its types for any cases whatever.  This takes that a  *)
(* retry after an RNR NAK finds its request: RetryLogic of side 2 sends    *)
(* py.sr again, which is a packet only because a request is never answered *)
(* twice and no packet of an earlier case is taken for one of this case.   *)
(***************************************************************************)
THEOREM HarnessTypeCorrect == Spec => []HarnessTypeOK
<1>1. HInv /\ SInv => HarnessTypeOK
  <2> SUFFICES ASSUME HInv, SInv PROVE HarnessTypeOK
    OBVIOUS
  <2>1. CasePacket \subseteq Packet
    BY DEF CasePacket, Packet
  <2>2. Sent \subseteq Packet
    BY <2>1 DEF Sent
  <2>3. toPy \in Seq(Packet) /\ toRust \in Seq(Packet)
    <3>1. \A S \in Seq(CasePacket) : S \in Seq(Packet)
      BY <2>1, ElementOfSeq, SeqDef
    <3> QED
      BY <3>1 DEF SInv, WireShape
  <2>4. py \in [qps : {"INIT", "RTR", "RTS", "ERR"}, rq : Nat, rnr_retry : Nat, rnr : Nat,
                mr : Contents, sr : Packet \cup {NoRequest},
                cq : Seq({"SUCCESS", "RECV", "RNR_RETRY_EXC_ERR"})]
    BY <2>2 DEF SInv, PyShape
  <2>5. nic \in [qps : {"INIT", "RTS", "ERR"}, rnr_retry : Nat, rnr : Nat, mr : Contents,
                 req : Packet \cup {NoRequest}]
    BY <2>2 DEF SInv, NicShape
  <2> QED
    BY <2>3, <2>4, <2>5 DEF HInv, Shape, SInv, RecvShape, RunShape, NicShape, HarnessTypeOK,
       SideTypeOK
<1> QED
  BY <1>1, SInvHolds, PTL

-----------------------------------------------------------------------------
(***************************************************************************)
(* The retry handshake.  What a RecvPkt waits for, and where the count of  *)
(* UnblockRetry calls stands against it.                                   *)
(***************************************************************************)
IsRecvPkt(j) == j <= Len(Script(2)) /\ Script(2)[j].name = "recv_pkt"

Waits(j) == IF IsRecvPkt(j) THEN Script(2)[j].wait_for_retry ELSE 0

HandshakeInv ==
  manager = "running" =>
    /\ recvPkt.phase = "blocked" =>
         Unblocked + retry_count = Awaited(at[2]) /\ retry_count <= Waits(at[2])
    /\ recvPkt.phase = "receiving" =>
         Unblocked = Awaited(IF recvPkt.left = 0 /\ recvPkt.last = "RNR" THEN at[2] ELSE at[2] - 1)
    /\ recvPkt.phase = "idle" =>
         \/ Unblocked = Awaited(at[2] - 1)
         \/ result[2] = "failed" /\ Unblocked = Awaited(at[2])
    /\ recvPkt.phase # "idle" /\ Waits(at[2]) > 0 => recvPkt.left \in {0, 1}
    /\ recvPkt.phase = "blocked" /\ Waits(at[2]) > 0 => recvPkt.left = 0 /\ recvPkt.last = "RNR"

\* The retries that the commands up to i wait for, and those of one command.
AwaitedBy(i) ==
  UNION {{j} \X (1 .. Script(2)[j].wait_for_retry) : j \in {k \in 1 .. i : IsRecvPkt(k)}}

LEMMA SmallSets ==
  /\ \A x : IsFiniteSet({x}) /\ Cardinality({x}) = 1
  /\ \A n \in Nat : IsFiniteSet(1 .. n) /\ Cardinality(1 .. n) = n
<1>1. ASSUME NEW x PROVE IsFiniteSet({x}) /\ Cardinality({x}) = 1
  BY FS_Singleton, Zenon
<1>2. ASSUME NEW n \in Nat PROVE IsFiniteSet(1 .. n) /\ Cardinality(1 .. n) = n
  <2>1. 1 \in Int /\ n \in Int
    OBVIOUS
  <2>2. /\ IsFiniteSet(1 .. n)
        /\ Cardinality(1 .. n) = IF 1 > n THEN 0 ELSE n - 1 + 1
    BY <2>1, FS_Interval
  <2> QED
    BY <2>2
<1> QED
  BY <1>1, <1>2

LEMMA WaitIsNat ==
  ASSUME HInv, manager = "running", NEW j \in Nat \ {0}, IsRecvPkt(j)
  PROVE  Script(2)[j] \in Command /\ Script(2)[j].wait_for_retry \in Nat
<1>1. caseNo \in 1 .. Len(Cases)
  <2>1. Len(Cases) \in Nat
    BY HarnessAssumption, LenProperties
  <2> QED
    BY <2>1 DEF HInv, Shape
<1>2. Cases[caseNo] \in Seq(Command) \X Seq(Command)
  BY <1>1, HarnessAssumption, ElementOfSeq
<1>3. Script(2) \in Seq(Command)
  BY <1>2 DEF Script
<1>4. Len(Script(2)) \in Nat
  BY <1>3, LenProperties
<1>5. Script(2)[j] \in Command
  BY <1>3, <1>4, ElementOfSeq DEF IsRecvPkt
<1> QED
  BY <1>5, RemoteNames DEF Command, Silent, IsRecvPkt

LEMMA AwaitedIsFinite ==
  ASSUME HInv, manager = "running", NEW i \in Nat
  PROVE  IsFiniteSet(AwaitedBy(i)) /\ Awaited(i) = Cardinality(AwaitedBy(i)) /\ Awaited(i) \in Nat
<1> DEFINE K == {k \in 1 .. i : IsRecvPkt(k)}
           f == [j \in K |-> {j} \X (1 .. Script(2)[j].wait_for_retry)]
<1>1. IsFiniteSet(K)
  <2>1. IsFiniteSet(1 .. i) /\ K \in SUBSET (1 .. i)
    BY FS_Interval
  <2> QED
    BY <2>1, FS_Subset
<1>2. IsFiniteSet({f[j] : j \in K})
  <2> DEFINE T == {f[j] : j \in K}
  <2>1. f \in [K -> T] /\ \A t \in T : \E j \in K : f[j] = t
    OBVIOUS
  <2> HIDE DEF f, K, T
  <2>2. f \in Surjection(K, T)
    BY <2>1 DEF Surjection
  <2> QED
    BY <1>1, <2>2, FS_Surjection DEF T
<1>3. ASSUME NEW j \in K PROVE IsFiniteSet(f[j])
  <2>1. Script(2)[j].wait_for_retry \in Nat
    BY WaitIsNat
  <2>2. IsFiniteSet(1 .. Script(2)[j].wait_for_retry) /\ IsFiniteSet({j})
    BY <2>1, SmallSets
  <2> QED
    BY <2>2, FS_Product
<1>4. IsFiniteSet(UNION {f[j] : j \in K})
  <2>1. \A T \in {f[j] : j \in K} : IsFiniteSet(T)
    BY <1>3
  <2> HIDE DEF f, K
  <2> QED
    BY <1>2, <2>1, FS_UNION
<1>5. {f[j] : j \in K} = {{j} \X (1 .. Script(2)[j].wait_for_retry) : j \in K}
  BY Zenon
<1>6. UNION {f[j] : j \in K} = AwaitedBy(i)
  BY <1>5, Zenon DEF AwaitedBy
<1>7. Awaited(i) = Cardinality(AwaitedBy(i))
  BY DEF Awaited, AwaitedBy, IsRecvPkt
<1> QED
  BY <1>4, <1>6, <1>7, FS_CardinalityType

LEMMA AwaitedGrows ==
  ASSUME HInv, manager = "running", NEW i \in Nat \ {0}
  PROVE  /\ Waits(i) \in Nat /\ Awaited(i - 1) \in Nat
         /\ Awaited(i) = Awaited(i - 1) + Waits(i)
<1> DEFINE N == {i} \X (1 .. Waits(i))
<1>1. Waits(i) \in Nat
  BY WaitIsNat DEF Waits
<1>2. IsFiniteSet(N) /\ Cardinality(N) = Waits(i)
  <2>1. /\ IsFiniteSet({i}) /\ Cardinality({i}) = 1
        /\ IsFiniteSet(1 .. Waits(i)) /\ Cardinality(1 .. Waits(i)) = Waits(i)
    BY <1>1, SmallSets
  <2>2. /\ IsFiniteSet(N)
        /\ Cardinality(N) = Cardinality({i}) * Cardinality(1 .. Waits(i))
    BY <2>1, FS_Product
  <2>3. Cardinality(N) = 1 * Waits(i)
    BY <2>1, <2>2, Zenon
  <2>4. 1 * Waits(i) = Waits(i)
    BY <1>1
  <2> QED
    BY <2>2, <2>3, <2>4, Zenon
<1>3. AwaitedBy(i) = AwaitedBy(i - 1) \cup N
  <2>1. CASE IsRecvPkt(i)
    <3>1. {k \in 1 .. i : IsRecvPkt(k)} = {k \in 1 .. (i - 1) : IsRecvPkt(k)} \cup {i}
      BY <2>1
    <3>2. N = {i} \X (1 .. Script(2)[i].wait_for_retry)
      BY <2>1 DEF Waits
    <3> QED
      BY <3>1, <3>2 DEF AwaitedBy
  <2>2. CASE ~IsRecvPkt(i)
    <3>1. {k \in 1 .. i : IsRecvPkt(k)} = {k \in 1 .. (i - 1) : IsRecvPkt(k)}
      <4>1. \A k \in 1 .. i : k \in 1 .. (i - 1) \/ k = i
        OBVIOUS
      <4>2. \A k \in 1 .. (i - 1) : k \in 1 .. i
        OBVIOUS
      <4> QED
        BY <2>2, <4>1, <4>2
    <3>2. N = {}
      BY <2>2 DEF Waits
    <3> QED
      BY <3>1, <3>2 DEF AwaitedBy
  <2> QED
    BY <2>1, <2>2
<1>4. AwaitedBy(i - 1) \cap N = {}
  BY DEF AwaitedBy
<1>5. i - 1 \in Nat
  OBVIOUS
<1>6. IsFiniteSet(AwaitedBy(i - 1)) /\ Cardinality(AwaitedBy(i - 1)) = Awaited(i - 1)
      /\ Awaited(i - 1) \in Nat /\ Awaited(i) = Cardinality(AwaitedBy(i))
  BY <1>5, AwaitedIsFinite
<1> HIDE DEF N
<1>7. /\ Cardinality(AwaitedBy(i - 1) \cup N)
           = Cardinality(AwaitedBy(i - 1)) + Cardinality(N) - Cardinality(AwaitedBy(i - 1) \cap N)
  BY <1>2, <1>6, FS_Union
<1>8. Cardinality(AwaitedBy(i - 1) \cap N) = 0
  BY <1>4, FS_EmptySet
<1> QED
  BY <1>1, <1>2, <1>3, <1>6, <1>7, <1>8

LEMMA AwaitedStays ==
  ASSUME caseNo' = caseNo
  PROVE  \A i : Awaited(i)' = Awaited(i) /\ Waits(i)' = Waits(i)
<1>1. Script(2)' = Script(2)
  BY DEF Script
<1> QED
  BY <1>1 DEF Awaited, Waits, IsRecvPkt

LEMMA UnblockedIsNat ==
  ASSUME HInv
  PROVE  /\ IsFiniteSet({i \in 1 .. (at[1] - 1) : Script(1)[i].name = "unblock_other"})
         /\ Unblocked \in Nat
<1> DEFINE U == {i \in 1 .. (at[1] - 1) : Script(1)[i].name = "unblock_other"}
<1>1. at[1] - 1 \in Nat
  BY DEF HInv, Shape, Sides
<1>2. IsFiniteSet(1 .. (at[1] - 1)) /\ U \in SUBSET (1 .. (at[1] - 1))
  BY <1>1, SmallSets
<1>3. IsFiniteSet(U)
  BY <1>2, FS_Subset
<1> QED
  BY <1>3, FS_CardinalityType DEF Unblocked

\* The count of unblock_others moves with the call that returns.
LEMMA UnblockedMoves ==
  ASSUME HInv, manager = "running", UNCHANGED caseNo
  PROVE  /\ Unblocked \in Nat
         /\ at'[1] = at[1] => Unblocked' = Unblocked
         /\ at[1] \in 1 .. Len(Script(1)) /\ at'[1] = at[1] + 1 =>
              Unblocked' = IF Cmd(1).name = "unblock_other" THEN Unblocked + 1 ELSE Unblocked
<1> DEFINE U == {i \in 1 .. (at[1] - 1) : Script(1)[i].name = "unblock_other"}
<1>1. Script(1)' = Script(1)
  BY DEF Script
<1>2. at[1] \in Nat \ {0}
  BY DEF HInv, Shape, Sides
<1>3. IsFiniteSet(U) /\ Unblocked \in Nat
  BY UnblockedIsNat
<1>5. at'[1] = at[1] => Unblocked' = Unblocked
  BY <1>1 DEF Unblocked
<1>6. ASSUME at'[1] = at[1] + 1
      PROVE  Unblocked' = IF Cmd(1).name = "unblock_other" THEN Unblocked + 1 ELSE Unblocked
  <2>0. at'[1] - 1 = at[1]
    BY <1>2, <1>6
  <2>1. Unblocked' = Cardinality({i \in 1 .. at[1] : Script(1)[i].name = "unblock_other"})
    BY <1>1, <2>0 DEF Unblocked
  <2>2. \A i : i \in 1 .. at[1] <=> i \in 1 .. (at[1] - 1) \/ i = at[1]
    BY <1>2
  <2>3. CASE Cmd(1).name = "unblock_other"
    <3>1. {i \in 1 .. at[1] : Script(1)[i].name = "unblock_other"} = U \cup {at[1]}
      BY <2>2, <2>3 DEF Cmd
    <3>2. at[1] \notin U
      BY <1>2
    <3>3. Cardinality(U \cup {at[1]}) = Cardinality(U) + 1
      BY <1>3, <3>2, FS_AddElement
    <3> QED
      BY <2>1, <2>3, <3>1, <3>3 DEF Unblocked
  <2>4. CASE Cmd(1).name # "unblock_other"
    <3>1. {i \in 1 .. at[1] : Script(1)[i].name = "unblock_other"} = U
      BY <2>2, <2>4 DEF Cmd
    <3> QED
      BY <2>1, <2>4, <3>1 DEF Unblocked
  <2> QED
    BY <2>3, <2>4
<1> QED
  BY <1>3, <1>5, <1>6

\* Neither script moves past a command, and no handler takes a step.
LEMMA HandshakeStays ==
  ASSUME HInv, HandshakeInv, UNCHANGED <<managing, calls>>, at' = at, result'[2] = result[2]
  PROVE  HandshakeInv'
<1>1. manager' = manager /\ caseNo' = caseNo /\ retry_count' = retry_count /\ recvPkt' = recvPkt
  BY DEF managing, calls
<1>2. CASE manager = "running"
  <2>1. Unblocked' = Unblocked
    BY <1>1, <1>2, UnblockedMoves
  <2> QED
    BY <1>1, <2>1, AwaitedStays DEF HandshakeInv
<1>3. CASE manager # "running"
  BY <1>1, <1>3 DEF HandshakeInv
<1> QED
  BY <1>2, <1>3

\* A command that is none of the handshake.
LEMMA HandshakeMoves ==
  ASSUME HInv, HandshakeInv, NEW s \in Sides, Moves(s)
  PROVE  HandshakeInv'
<1>1. /\ manager = "running" /\ caseNo' = caseNo /\ retry_count' = retry_count
      /\ recvPkt' = recvPkt /\ result[s] = "running" /\ (Advance(s) \/ Fail(s))
  BY DEF Moves, managing, calls
<1>2. at[s] \in 1 .. Len(Script(s)) /\ at \in [Sides -> Nat \ {0}]
      /\ result \in [Sides -> {"running", "passed", "failed"}]
  BY <1>1 DEF HInv, Shape, AtACommand
<1>3. \/ /\ at' = [at EXCEPT ![s] = at[s] + 1]
         /\ result' = result \/ result' = [result EXCEPT ![s] = "passed"]
      \/ at' = at /\ result' = [result EXCEPT ![s] = "failed"]
  BY <1>1 DEF Advance, Fail
<1>4. \A i : Awaited(i)' = Awaited(i) /\ Waits(i)' = Waits(i)
  BY <1>1, AwaitedStays
<1>5. CASE s = 1
  <2>1. at'[2] = at[2] /\ result'[2] = result[2]
    BY <1>2, <1>3, <1>5 DEF Sides
  <2>2. at'[1] = at[1] \/ at'[1] = at[1] + 1
    BY <1>2, <1>3, <1>5 DEF Sides
  <2>3. Cmd(1).name # "unblock_other"
    BY <1>5 DEF Moves
  <2>4. Unblocked' = Unblocked
    BY <1>1, <1>2, <1>5, <2>2, <2>3, UnblockedMoves
  <2> QED
    BY <1>1, <1>4, <2>1, <2>4 DEF HandshakeInv
<1>6. CASE s = 2
  <2>1. recvPkt = NotReceiving
    BY <1>6 DEF HInv, HandlersAreCalled, Moves, Calls, Cmd
  <2>2. at'[1] = at[1] /\ (at'[2] = at[2] + 1 \/ (at'[2] = at[2] /\ result'[2] = "failed"))
    BY <1>2, <1>3, <1>6 DEF Sides
  <2>3. Unblocked' = Unblocked /\ Unblocked = Awaited(at[2] - 1)
    BY <1>1, <1>6, <2>1, <2>2, UnblockedMoves DEF HandshakeInv, NotReceiving
  <2>4. Waits(at[2]) = 0
    BY <1>6 DEF Waits, IsRecvPkt, Moves, Cmd
  <2>5. at[2] \in Nat \ {0}
    BY <1>2, <1>6
  <2>6. Awaited(at[2]) = Awaited(at[2] - 1) + Waits(at[2]) /\ Awaited(at[2] - 1) \in Nat
    BY <1>1, <2>5, AwaitedGrows
  <2>7. (at[2] + 1) - 1 = at[2]
    BY <2>5
  <2>8. Unblocked' = Awaited(at'[2] - 1)
    BY <2>2, <2>3, <2>4, <2>6, <2>7
  <2> QED
    BY <1>1, <1>4, <2>1, <2>8 DEF HandshakeInv, NotReceiving
<1> QED
  BY <1>5, <1>6 DEF Sides

LEMMA BarrierMoves ==
  ASSUME HInv, NEW s \in Sides, Barrier(s)
  PROVE  Moves(s) \/ UNCHANGED <<managing, calls, at, result>>
<1>1. CASE BarrierWait(s)
  BY <1>1 DEF BarrierWait, scripts, sideVars, calls, managing
<1>2. CASE ~BarrierWait(s)
  <2>1. Calls(s, {"barrier"})
    BY <1>2 DEF Barrier, BarrierRelease, BarrierLeave, BarrierTimeout, BarrierBroken, HInv,
       HandlersAreCalled
  <2>2. (Advance(s) \/ Fail(s)) /\ UNCHANGED <<managing, calls>>
    BY <1>2 DEF Barrier, BarrierRelease, BarrierLeave, BarrierTimeout, BarrierBroken, sideVars,
       calls
  <2> QED
    BY <2>1, <2>2 DEF Moves, Calls, Cmd
<1> QED
  BY <1>1, <1>2

LEMMA UnblockPairs ==
  ASSUME HInv, HandshakeInv, UnblockCall \/ UnblockLoop \/ UnblockDone
  PROVE  HandshakeInv'
<1>1. manager = "running" /\ caseNo' = caseNo /\ recvPkt' = recvPkt /\ Calls(1, {"unblock_other"})
  BY DEF HInv, HandlersAreCalled, UnblockCall, UnblockLoop, UnblockDone, UnblockBegin,
     UnblockPass, UnblockReturn, Plain, managing, Calls
<1>2. \A i : Awaited(i)' = Awaited(i) /\ Waits(i)' = Waits(i)
  BY <1>1, AwaitedStays
<1>3. CASE UnblockCall \/ UnblockLoop
  <2>1. UNCHANGED <<at, result, retry_count>>
    BY <1>3 DEF UnblockCall, UnblockLoop, UnblockBegin, UnblockPass, scripts
  <2>2. Unblocked' = Unblocked
    BY <1>1, <2>1, UnblockedMoves
  <2> QED
    BY <1>1, <1>2, <2>1, <2>2 DEF HandshakeInv
<1>4. CASE UnblockDone
  <2>1. /\ Advance(1) /\ unblockRetry = "passed" /\ retry_count' = retry_count - 1
    BY <1>4 DEF UnblockDone, UnblockReturn
  <2>2. /\ at[1] \in 1 .. Len(Script(1)) /\ Cmd(1).name = "unblock_other"
        /\ at \in [Sides -> Nat \ {0}] /\ result \in [Sides -> {"running", "passed", "failed"}]
        /\ retry_count \in Nat /\ retry_count > 0
    BY <1>1, <2>1 DEF HInv, Shape, AtACommand, CountIsAwaited, Calls, Cmd, Sides
  <2>3. at'[1] = at[1] + 1 /\ at'[2] = at[2] /\ result'[2] = result[2]
    BY <2>1, <2>2 DEF Advance, Sides
  <2>4. Unblocked' = Unblocked + 1 /\ Unblocked \in Nat
    BY <1>1, <2>2, <2>3, UnblockedMoves
  <2>5. recvPkt.phase = "blocked"
    BY <2>2 DEF HInv, CountIsAwaited
  <2>6. Unblocked' + retry_count' = Unblocked + retry_count /\ retry_count' <= retry_count
    BY <2>1, <2>2, <2>4
  <2>7. Waits(at[2]) \in Nat
    BY <1>1, <2>2, AwaitedGrows DEF Sides
  <2>8. retry_count <= Waits(at[2]) => retry_count' <= Waits(at[2])
    BY <2>1, <2>2, <2>6, <2>7
  <2> QED
    BY <1>1, <1>2, <2>3, <2>5, <2>6, <2>8 DEF HandshakeInv
<1> QED
  BY <1>3, <1>4

\* The recv_pkt that side 2 carries out.
LEMMA RecvPktWaits ==
  ASSUME HInv, RetriesAreExpected, Calls(2, {"recv_pkt"})
  PROVE  /\ at[2] \in Nat \ {0} /\ Waits(at[2]) = Cmd(2).wait_for_retry /\ Waits(at[2]) \in Nat
         /\ Awaited(at[2] - 1) \in Nat /\ Awaited(at[2]) = Awaited(at[2] - 1) + Waits(at[2])
         /\ Waits(at[2]) > 0 => Cmd(2).cnt = 1 /\ Cmd(2).expect = "RNR"
<1>1. /\ manager = "running" /\ at[2] \in Nat \ {0} /\ at[2] \in 1 .. Len(Script(2))
      /\ IsRecvPkt(at[2])
  BY DEF HInv, Shape, AtACommand, Calls, IsRecvPkt, Sides
<1>2. /\ Waits(at[2]) \in Nat /\ Awaited(at[2] - 1) \in Nat
      /\ Awaited(at[2]) = Awaited(at[2] - 1) + Waits(at[2])
  BY <1>1, AwaitedGrows
<1>3. Waits(at[2]) = Cmd(2).wait_for_retry
  BY <1>1 DEF Waits, Cmd
<1>4. caseNo \in 1 .. Len(Cases)
  <2>1. Len(Cases) \in Nat
    BY HarnessAssumption, LenProperties
  <2> QED
    BY <1>1, <2>1 DEF HInv, Shape
<1>5. Waits(at[2]) > 0 => Cmd(2).cnt = 1 /\ Cmd(2).expect = "RNR"
  BY <1>1, <1>3, <1>4 DEF RetriesAreExpected, Script, Cmd, Calls
<1> QED
  BY <1>1, <1>2, <1>3, <1>5

LEMMA RecvPktPairs ==
  ASSUME HInv, RecvShape, HandshakeInv, RetriesAreExpected,
         \/ RecvPktCall \/ RecvPktStep \/ RecvPktRnr \/ RecvPktReleased \/ RecvPktReturn
         \/ RecvPktRaises
  PROVE  HandshakeInv'
<1> DEFINE w == Waits(at[2])
           before == Awaited(at[2] - 1)
           after == Awaited(at[2])
<1>0. Calls(2, {"recv_pkt"}) /\ caseNo' = caseNo /\ manager' = manager
  BY DEF RecvPktCall, RecvPktStep, RecvPktRnr, RecvPktReleased, RecvPktReturn, RecvPktRaises, Py,
     Plain, managing
<1>1. manager = "running" /\ result[2] = "running" /\ recvPkt.left \in Nat
  BY <1>0 DEF Calls, RecvShape
<1>2. /\ at[2] \in Nat \ {0} /\ w = Cmd(2).wait_for_retry /\ w \in Nat
      /\ before \in Nat /\ after = before + w
      /\ w > 0 => Cmd(2).cnt = 1 /\ Cmd(2).expect = "RNR"
  BY <1>0, RecvPktWaits
<1>3. \A i : Awaited(i)' = Awaited(i) /\ Waits(i)' = Waits(i)
  BY <1>0, AwaitedStays
<1>4. Unblocked' = Unblocked /\ Unblocked \in Nat
  <2>1. at'[1] = at[1]
    BY DEF RecvPktCall, RecvPktStep, RecvPktRnr, RecvPktReleased, RecvPktReturn, RecvPktRaises,
       scripts, Return, Advance, Fail, HInv, Shape, Sides
  <2> QED
    BY <1>0, <1>1, <2>1, UnblockedMoves
<1>5. recvPkt.phase # "blocked" => retry_count = 0
  BY DEF HInv, Shape, CountIsAwaited
<1>6. /\ recvPkt.phase = "blocked" => Unblocked + retry_count = after
      /\ recvPkt.phase = "receiving" =>
           Unblocked = IF recvPkt.left = 0 /\ recvPkt.last = "RNR" THEN after ELSE before
      /\ recvPkt.phase = "idle" => Unblocked = before
      /\ recvPkt.phase # "idle" /\ w > 0 => recvPkt.left \in {0, 1}
      /\ recvPkt.phase = "blocked" /\ w > 0 => recvPkt.left = 0 /\ recvPkt.last = "RNR"
  BY <1>1 DEF HandshakeInv
<1>7. ASSUME UNCHANGED scripts, recvPkt'.phase # "idle",
             recvPkt'.phase = "blocked" => Unblocked + retry_count' = after /\ retry_count' <= w,
             recvPkt'.phase = "receiving" =>
               Unblocked = IF recvPkt'.left = 0 /\ recvPkt'.last = "RNR" THEN after ELSE before,
             w > 0 => recvPkt'.left \in {0, 1},
             recvPkt'.phase = "blocked" /\ w > 0 => recvPkt'.left = 0 /\ recvPkt'.last = "RNR"
      PROVE  HandshakeInv'
  BY <1>3, <1>4, <1>7 DEF HandshakeInv, scripts
<1> HIDE DEF w, before, after
<1>8. CASE RecvPktCall
  <2>1. /\ UNCHANGED scripts /\ recvPkt.phase = "idle"
        /\ recvPkt' = [phase |-> "receiving", left |-> Cmd(2).cnt, last |-> "none"]
    BY <1>8 DEF RecvPktCall, RecvBegin
  <2> QED
    BY <1>2, <1>6, <1>7, <2>1
<1>9. CASE RecvPktStep
  <2>1. UNCHANGED scripts /\ recvPkt.phase = "receiving" /\ recvPkt.left > 0
    BY <1>9 DEF RecvPktStep, RecvSkip, RecvRequest, RecvAnswer, Waiting
  <2>2. \/ recvPkt' = recvPkt
        \/ \E kind \in Requests \cup {"ACK", "DATA"} :
             recvPkt' = [phase |-> "receiving", left |-> recvPkt.left - 1, last |-> kind]
    BY <1>9 DEF RecvPktStep, RecvSkip, RecvRequest, RecvAnswer, Counted, calls
  <2>3. CASE recvPkt' = recvPkt
    BY <1>6, <1>7, <2>1, <2>3
  <2>4. CASE recvPkt' # recvPkt
    <3>1. /\ recvPkt'.phase = "receiving" /\ recvPkt'.left = recvPkt.left - 1
          /\ recvPkt'.last # "RNR"
      BY <2>2, <2>4 DEF Requests
    <3> QED
      BY <1>1, <1>6, <1>7, <2>1, <3>1
  <2> QED
    BY <2>3, <2>4
<1>10. CASE RecvPktRnr
  <2>1. /\ UNCHANGED scripts /\ recvPkt.phase = "receiving" /\ recvPkt.left > 0
        /\ \/ /\ Cmd(2).wait_for_retry = 0
              /\ recvPkt' = [phase |-> "receiving", left |-> recvPkt.left - 1, last |-> "RNR"]
           \/ /\ recvPkt' = [phase |-> "blocked", left |-> recvPkt.left - 1, last |-> "RNR"]
              /\ retry_count' = retry_count + Cmd(2).wait_for_retry
    BY <1>10 DEF RecvPktRnr, RecvRnr, Waiting, Counted, Blocked
  <2> QED
    BY <1>1, <1>2, <1>5, <1>6, <1>7, <2>1
<1>11. CASE RecvPktReleased
  <2>1. /\ UNCHANGED scripts /\ recvPkt.phase = "blocked" /\ retry_count = 0
        /\ recvPkt' = [recvPkt EXCEPT !.phase = "receiving"]
    BY <1>11 DEF RecvPktReleased, RetryReleased
  <2>2. /\ recvPkt'.phase = "receiving" /\ recvPkt'.left = recvPkt.left
        /\ recvPkt'.last = recvPkt.last
    BY <2>1 DEF RecvShape
  <2> QED
    BY <1>2, <1>4, <1>6, <1>7, <2>1, <2>2
<1>12. CASE RecvPktReturn \/ RecvPktRaises
  <2>1. /\ recvPkt.phase = "receiving" /\ recvPkt' = NotReceiving
        /\ \/ Fail(2)
           \/ /\ recvPkt.left = 0 /\ Advance(2)
              /\ Cmd(2).expect \in {"any", recvPkt.last}
    BY <1>12 DEF RecvPktReturn, RecvPktRaises, RecvReturn, RecvTimeout, RecvAssert, Waiting, Return
  <2>2. Fail(2) => at' = at /\ result'[2] = "failed"
    BY DEF Fail, HInv, Shape, Sides
  <2>3. CASE Fail(2)
    <3>1. Unblocked \in {before, after}
      BY <1>6, <2>1
    <3> QED
      BY <1>3, <1>4, <2>1, <2>2, <2>3, <3>1 DEF HandshakeInv, NotReceiving, before, after
  <2>4. CASE ~Fail(2)
    <3>1. at'[2] - 1 = at[2]
      BY <1>2, <2>1, <2>4 DEF Advance, HInv, Shape, Sides
    <3>2. Unblocked = after
      BY <1>2, <1>6, <2>1, <2>4
    <3> QED
      BY <1>3, <1>4, <2>1, <3>1, <3>2 DEF HandshakeInv, NotReceiving, after
  <2> QED
    BY <2>3, <2>4
<1> QED
  BY <1>8, <1>9, <1>10, <1>11, <1>12

LEMMA ManagerPairs ==
  ASSUME HInv, HandshakeInv, PrepareCase \/ PrepareFails \/ EndCase
  PROVE  HandshakeInv'
<1>1. CASE PrepareCase
  <2>1. /\ manager # "running" /\ at' = [s \in Sides |-> 1] /\ recvPkt' = recvPkt
    BY <1>1 DEF PrepareCase, SidePrepare, calls
  <2>2. recvPkt = NotReceiving
    BY <2>1, NothingLeft
  <2>3. at'[1] - 1 = 0 /\ at'[2] - 1 = 0
    BY <2>1 DEF Sides
  <2>4. Unblocked' = 0
    <3>1. {i \in 1 .. (at'[1] - 1) : Script(1)'[i].name = "unblock_other"} = {}
      BY <2>3
    <3> QED
      BY <3>1, FS_EmptySet DEF Unblocked
  <2>5. Awaited(at[2] - 1)' = 0
    <3>1. AwaitedBy(at[2] - 1)' = {}
      BY <2>3 DEF AwaitedBy
    <3>2. Awaited(at[2] - 1)' = Cardinality(AwaitedBy(at[2] - 1)')
      BY DEF Awaited, AwaitedBy, IsRecvPkt
    <3> QED
      BY <3>1, <3>2, FS_EmptySet
  <2> QED
    BY <2>1, <2>2, <2>4, <2>5 DEF HandshakeInv, NotReceiving
<1>2. CASE PrepareFails \/ EndCase
  BY <1>2 DEF PrepareFails, EndCase, HandshakeInv
<1> QED
  BY <1>1, <1>2

(***************************************************************************)
(* The retry handshake pairs up, for any cases whose scripts wait for a    *)
(* retry only in a recv_pkt of one packet that must be the RNR NAK, as the *)
(* shipped ones do (RetriesAreExpected).  retry_count has no owner: that   *)
(* it counts for the one RecvPkt that is blocked takes that it is zero     *)
(* whenever none is.                                                       *)
(***************************************************************************)
THEOREM HandshakesPairUp ==
  ASSUME RetriesAreExpected
  PROVE  Spec => []HandshakePairs
<1>1. Init => HandshakeInv
  BY DEF Init, HandshakeInv
<1>2. HInv /\ SInv /\ HandshakeInv /\ [Next]_vars => HandshakeInv'
  <2> SUFFICES ASSUME HInv, SInv, HandshakeInv, [Next]_vars PROVE HandshakeInv'
    OBVIOUS
  <2>1. CASE UNCHANGED vars \/ Background
    <3>1. UNCHANGED <<managing, calls>> /\ at' = at /\ result'[2] = result[2]
      BY <2>1 DEF vars, harness, sideVars, calls, Background, managing, scripts, NicRequest,
         NicCopy, NicDrop, NicShutdown, NicOnly
    <3> QED
      BY <3>1, HandshakeStays
  <2>2. ASSUME NEW s \in Sides, Barrier(s) PROVE HandshakeInv'
    BY <2>2, BarrierMoves, HandshakeMoves, HandshakeStays
  <2>3. CASE \/ PyCommand \/ PyAssert \/ RustCommand \/ RustCheck \/ RustNotPosted \/ RustGiveUp
             \/ RustAnswer \/ \E s \in Sides : Unanswered(s)
    <3>1. CASE UNCHANGED steps
      <4>1. UNCHANGED <<managing, calls>> /\ at' = at /\ result'[2] = result[2]
        BY <3>1 DEF steps, managing
      <4> QED
        BY <4>1, HandshakeStays
    <3> QED
      BY <2>3, <3>1, CommandsMove, HandshakeMoves
  <2>4. CASE \/ RecvPktCall \/ RecvPktStep \/ RecvPktRnr \/ RecvPktReleased \/ RecvPktReturn
             \/ RecvPktRaises
    BY <2>4, RecvPktPairs DEF SInv
  <2> QED
    BY <2>1, <2>2, <2>3, <2>4, ManagerPairs, UnblockPairs DEF Next
<1>3. HInv /\ SInv /\ HandshakeInv => HandshakePairs
  <2> SUFFICES ASSUME HInv, SInv, HandshakeInv, manager = "running"
               PROVE  /\ Unblocked <= Awaited(at[2])
                      /\ result[2] # "failed" => Awaited(at[2] - 1) <= Unblocked
    BY DEF HandshakePairs
  <2>1. at[2] \in Nat \ {0} /\ retry_count \in Nat
    BY DEF HInv, Shape, Sides
  <2>2. /\ Waits(at[2]) \in Nat /\ Awaited(at[2] - 1) \in Nat
        /\ Awaited(at[2]) = Awaited(at[2] - 1) + Waits(at[2])
    BY <2>1, AwaitedGrows
  <2>3. Unblocked \in Nat
    BY UnblockedIsNat
  <2>4. recvPkt.phase \in {"idle", "receiving", "blocked"}
    BY DEF SInv, RecvShape
  <2> QED
    BY <2>1, <2>2, <2>3, <2>4 DEF HandshakeInv
<1> QED
  BY <1>1, <1>2, <1>3, SInvHolds, PTL DEF Spec
=============================================================================
