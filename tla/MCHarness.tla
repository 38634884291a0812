------------------------------ MODULE MCHarness ------------------------------
(***************************************************************************)
(* Cases of Remu/src/case for TLC, command for command.                    *)
(***************************************************************************)
EXTENDS Harness

c(name) == [name |-> name]

connect_qp(rnr) == [name |-> "connect_qp", rnr_retry |-> rnr]

local_write(v) == [name |-> "local_write", content |-> v]

local_check(v) == [name |-> "local_check", expected |-> v]

check_qp_status(q) == [name |-> "check_qp_status", status |-> q]

poll_complete(q) == [name |-> "poll_complete", status |-> q]

recv_pkt(expect, wait, poll) ==
  [name |-> "recv_pkt", cnt |-> 1, wait_for_retry |-> wait, poll_cqe |-> poll, expect |-> expect]

remote(name) == [name |-> name, allow_err |-> FALSE, old |-> "00", new |-> "00"]

remote_cas(old, new) == [name |-> "remote_atomic_cas", allow_err |-> FALSE, old |-> old, new |-> new]

sim_rnr_nak_retry ==
  << <<connect_qp(3), c("unblock_other"), c("local_recv"), c("unblock_other"), c("barrier"),
       local_check("ff"), check_qp_status("RTS")>>,
     <<connect_qp(3), local_write("ff"), remote("remote_send"), recv_pkt("RNR", 2, TRUE),
       recv_pkt("any", 0, TRUE), c("barrier"), check_qp_status("RTS")>> >>

rxe_send == 
  << <<connect_qp(3), local_write("ff"), c("barrier"), remote("remote_send")>>,
     <<connect_qp(3), c("local_recv"), c("barrier"), recv_pkt("any", 0, TRUE), local_check("ff")>> >>

sim_write_imm ==
  << <<connect_qp(3), c("local_recv"), c("barrier"), c("barrier"), local_check("ff")>>,
     <<connect_qp(3), local_write("ff"), remote("remote_write_imm"), c("barrier"),
       recv_pkt("any", 0, FALSE), poll_complete("SUCCESS"), c("barrier")>> >>

sim_read ==
  << <<connect_qp(3), local_write("ff"), c("barrier")>>,
     <<connect_qp(3), c("barrier"), remote("remote_read"), recv_pkt("DATA", 0, FALSE),
       poll_complete("SUCCESS"), local_check("ff"), check_qp_status("RTS")>> >>

rxe_atomic_cas ==
  << <<connect_qp(3), local_write("01"), c("barrier"), c("barrier"), local_check("02")>>,
     <<connect_qp(3), c("barrier"), remote_cas("01", "02"), recv_pkt("DATA", 0, TRUE),
       c("barrier"), local_check("01")>> >>

rxe_rnr_nak_retry ==
  << <<connect_qp(3), local_write("ff"), c("barrier"), remote("remote_send"),
       check_qp_status("RTS")>>,
     <<connect_qp(3), c("barrier"), recv_pkt("any", 0, TRUE), c("local_recv"),
       recv_pkt("any", 0, TRUE), local_check("ff")>> >>

rxe_rnr_nak_retry_limit_exceeded ==
  << <<connect_qp(0), local_write("ff"), c("barrier"), [remote("remote_send") EXCEPT !.allow_err = TRUE],
       check_qp_status("ERR")>>,
     <<connect_qp(3), c("barrier"), recv_pkt("any", 0, TRUE)>> >>

sim_send ==
  << <<connect_qp(3), c("local_recv"), c("barrier"), c("barrier"), poll_complete("RECV"),
       local_check("ff")>>,
     <<connect_qp(3), local_write("ff"), c("barrier"), remote("remote_send"), recv_pkt("any", 0, TRUE),
       c("barrier")>> >>

sim_write ==
  << <<connect_qp(3), c("barrier"), c("barrier"), local_check("ff")>>,
     <<connect_qp(3), local_write("ff"), c("barrier"), remote("remote_write"),
       recv_pkt("any", 0, TRUE), c("barrier")>> >>

(***************************************************************************)
(* Two cases of our own: side 2 sends after a local_recv, and side 2 hears *)
(* from its peer after its own request has run out of RNR retries.         *)
(***************************************************************************)
send_after_recv ==
  << <<connect_qp(3), c("sleep"), c("notify_cq"), c("barrier"), c("set_hook")>>,
     <<connect_qp(3), c("unblock_other"), c("modify_qp"), c("local_recv"), c("barrier"), remote("remote_send")>> >>

recv_after_error ==
  << <<connect_qp(3), c("barrier"), c("barrier"),
       [remote("remote_write") EXCEPT !.allow_err = TRUE], remote("remote_read")>>,
     <<connect_qp(0), c("barrier"), remote("remote_send"), recv_pkt("RNR", 0, TRUE),
       c("barrier"), recv_pkt("WRITE", 0, TRUE)>> >>

MCCases == <<sim_rnr_nak_retry, rxe_send, sim_write_imm, sim_read, rxe_atomic_cas,
             rxe_rnr_nak_retry, rxe_rnr_nak_retry_limit_exceeded, sim_send, sim_write,
             send_after_recv, recv_after_error>>

ASSUME CasesExpectRetries == RetriesAreExpected
=============================================================================
