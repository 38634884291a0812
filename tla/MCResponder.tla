---------------------------- MODULE MCResponder ----------------------------
(***************************************************************************)
(* Responder with the packets of a fixed list of work requests, which the  *)
(* network delivers in any order, any number of times, or not at all.      *)
(***************************************************************************)
EXTENDS Responder

Pkt(s, op, psn, place, len) ==
  [ssn |-> s, op |-> op, psn |-> psn, place |-> place,
   ackreq |-> place \in {"LAST", "ONLY"}, len |-> len]

\* A send of two packets, a read of three that crosses the end of the PSN space
\* (and the retries of its rest), a write of three packets, an atomic, a write
\* with immediate of one packet and one of two.
Packets ==
  {Pkt(1, "SEND", 29, "FIRST", 1), Pkt(1, "SEND", 30, "LAST", 1),
   Pkt(2, "READ", 31, "ONLY", 3), Pkt(2, "READ", 0, "ONLY", 2),
   Pkt(2, "READ", 1, "ONLY", 1),
   Pkt(3, "WRITE", 2, "FIRST", 1), Pkt(3, "WRITE", 3, "MIDDLE", 1),
   Pkt(3, "WRITE", 4, "LAST", 1), Pkt(4, "ATOMIC", 5, "ONLY", 1),
   Pkt(5, "WRITE_IMM", 6, "ONLY", 1),
   Pkt(6, "WRITE_IMM", 7, "FIRST", 1), Pkt(6, "WRITE_IMM", 8, "LAST", 1)}

\* They are the packets of six work requests, which take fewer than half of the
\* PSNs.
Starts == <<0, 2, 5, 8, 9, 10, 12>>

ASSUME PacketsArePlanned == Planned(6, Starts) /\ Starts[7] < HALF
=============================================================================
