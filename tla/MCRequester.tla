---------------------------- MODULE MCRequester ----------------------------
(***************************************************************************)
(* Small instances of Requester for TLC: the work requests the runs post   *)
(* and the PSNs of the responses they get.                                 *)
(***************************************************************************)
EXTENDS Requester

Wr(op, n, sig) == [op |-> op, n |-> n, sig |-> sig]

\* Messages of two packets and of one that asks for no answer, and an atomic.
MessageWrs == {Wr("SEND", 2, TRUE), Wr("WRITE", 1, FALSE), Wr("ATOMIC", 1, TRUE)}

\* A read answered by three packets, and a message of one packet.
ReadWrs == {Wr("READ", 3, TRUE), Wr("SEND", 1, FALSE)}

\* The PSNs such runs can use, one beyond, and the one before the first.
PsnsInPlay == (0 .. 6) \cup {MAX_PSN - 1}

\* Across the end of the PSN space: the first read takes its last PSN.
PsnsAtWrap == {MAX_PSN - 2, MAX_PSN - 1} \cup (0 .. 3)

\* No run wraps its SSNs, and only the one at the end of the PSN space its PSNs.
ASSUME LifeOfRuns == FewPosts /\ (InitPsn = 0 => FewPsns(3))
=============================================================================
