------------------------------ MODULE PsnMath ------------------------------
(***************************************************************************)
(* The packet- and sequence-number arithmetic of the RoCEv2 emulator       *)
(* (class Util of Remu/src/roce_util.py).  Every other module of the       *)
(* emulator counts packets with these operators.  The modulus is a         *)
(* constant: 2^24 in the code, small in the runs.                          *)
(***************************************************************************)
EXTENDS Integers

CONSTANT MAX_PSN          \* size of the packet sequence number space

ASSUME MaxPsnAssumption == /\ MAX_PSN \in Nat
                           /\ MAX_PSN >= 4
                           /\ MAX_PSN % 2 = 0

Psn == 0 .. (MAX_PSN - 1)

HALF == MAX_PSN \div 2

next_psn(p) == (p + 1) % MAX_PSN

(***************************************************************************)
(* psn_range yields start, start + 1, ... up to and without end, wrapping: *)
(* RangeLen is the number of PSNs it yields, RangeSet their set, and the   *)
(* i-th one (from 0) is (start + i) % MAX_PSN.  ssn_range does the same    *)
(* for send sequence numbers.                                              *)
(***************************************************************************)
RangeLen(start, end, max) == (end - start) % max

RangeSet(start, end, max) ==
  {(start + i) % max : i \in 0 .. (RangeLen(start, end, max) - 1)}

psn_range(start, end) == RangeSet(start, end, MAX_PSN)

(***************************************************************************)
(* psn_compare: -1, 0 or 1 as a is before, at or after b in the window of  *)
(* MAX_PSN numbers that starts half the space behind cur_max.  The two     *)
(* tests on oldest_psn are the code's, the non-strict ones included.       *)
(***************************************************************************)
oldest_psn(cur_max) == (cur_max - HALF) % MAX_PSN

psn_compare_unwrapped(a, b, cur_max) == CASE a = b -> 0 [] a < b -> -1 [] a > b -> 1

psn_compare(a, b, cur_max) ==
  LET oldest == oldest_psn(cur_max) IN
  CASE a = b -> 0
    [] a < b -> IF oldest <= a \/ b <= oldest THEN -1 ELSE 1
    [] a > b -> IF oldest >= a \/ b >= oldest THEN 1 ELSE -1
=============================================================================
