------------------------------ MODULE RCClaims ------------------------------
(***************************************************************************)
(* What comments and assertions of the emulator say of a connection and    *)
(* the code does not do: each property here has a run that shows the       *)
(* counterexample.                                                         *)
(***************************************************************************)
EXTENDS RCLink

Arriving == Head(respCh)

\* "All submitted WR in SQ/RD will be completed with flush in error"
\* (roce_sq.py, SQ.goto_err_state), so an errored queue pair has nothing left:
\* the flush raises TypeError or AttributeError at the first WR it should flush.
FlushCompletes == qps = "ERR" => sq = <<>> /\ DOMAIN pend = {}

\* "timeout retry the oldest unacked request" (roce_sq.py, partial_retry_one_wr):
\* when min_unacked_psn is inside the answer to a read no request has that PSN.
TimeoutRetriesOldest == [][TimeoutStep /\ qps = "RTS" => fault' # "KeyError"]_linkVars

\* "cur_req_idx should in pending_req_ctx_dict" (roce_rq.py, cur_ctx): a
\* duplicate read between two packets of a message moves cur_req_idx away.
CurrentContextIsKept ==
  rfault = "none" /\ rqps = "RTR" /\ openMsg # "NONE" => curIdx \in DOMAIN ctxs

\* "response to read request must be read response or NAK" (roce_sq.py,
\* handle_expected_resp): the acknowledgement of a message whose packets cross
\* the end of the PSN space is mistaken for one of a read.
AckedPsnIsKnown ==
  [][DeliverResponse /\ qps = "RTS" /\ is_expected_resp(Arriving.psn)
       => Known(Arriving)]_linkVars
=============================================================================
