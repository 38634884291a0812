----------------------------- MODULE PsnWindow -----------------------------
(***************************************************************************)
(* The window of packet sequence numbers of a requester: m, the least PSN  *)
(* not acknowledged, up to and without n, the next PSN.  A response with   *)
(* PSN p is classified by psn_compare, which tells before from after only  *)
(* within half of the PSN space (RespLogic.is_expected_resp and            *)
(* handle_dup_or_illegal_resp of Remu/src/roce_sq.py).                     *)
(***************************************************************************)
EXTENDS PsnMath

VARIABLES m, n, p

vars == <<m, n, p>>

Window == RangeLen(m, n, MAX_PSN)

Expected ==
  /\ m # n
  /\ psn_compare(m, p, n) <= 0
  /\ psn_compare(n, p, n) > 0

Init == m \in Psn /\ n = m /\ p \in Psn

SendAtHalf == Window < HALF /\ n' = next_psn(n) /\ UNCHANGED <<m, p>>

\* A packet is sent (TXLogic.process_req); fewer than HALF are outstanding.
Send == Window < HALF - 1 /\ n' = next_psn(n) /\ UNCHANGED <<m, p>>

\* The oldest packet is acknowledged (RespLogic.update_min_unacked_psn).
Acknowledge == m # n /\ m' = next_psn(m) /\ UNCHANGED <<n, p>>

\* A response with any PSN arrives.
Arrive == p' \in Psn /\ UNCHANGED <<m, n>>

Next == Send \/ Acknowledge \/ Arrive

Spec == Init /\ [][Next]_vars

\* The three numbers are PSNs and fewer than half of the space is outstanding.
WindowOK == m \in Psn /\ n \in Psn /\ p \in Psn /\ Window < HALF

\* A response is expected exactly when its PSN is one of those outstanding,
\* wherever the window lies and also across the end of the PSN space.
ExpectedIsOutstanding ==
  Expected <=> RangeLen(m, p, MAX_PSN) < Window

\* The assertions on a response that is not expected hold: it is not the oldest
\* one, and it is either before the window or at or after its end.
UnexpectedIsOutside ==
  m # n /\ ~Expected =>
    /\ psn_compare(p, m, n) # 0
    /\ ~(psn_compare(p, m, n) < 0) => psn_compare(n, p, n) <= 0
=============================================================================
