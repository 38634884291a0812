------------------------------ MODULE MCRCLink ------------------------------
(***************************************************************************)
(* Small instances of RCLink for TLC.                                      *)
(***************************************************************************)
EXTENDS RCClaims

Wr(op, n, sig) == [op |-> op, n |-> n, sig |-> sig]

\* Messages of two packets and of one that asks for no answer, and an atomic.
MessageWrs == {Wr("WRITE", 2, TRUE), Wr("WRITE", 1, FALSE), Wr("ATOMIC", 1, TRUE)}

\* A read answered by three packets and a message of two.
ReadWrs == {Wr("READ", 3, TRUE), Wr("SEND", 2, TRUE)}

\* A message that needs a receive WR, and a read answered by two packets.
LiveWrs == {Wr("SEND", 1, TRUE), Wr("READ", 2, TRUE)}

\* What the runs of RCClaims post.
SendOnly == {Wr("SEND", 1, TRUE)}
SendTwo == {Wr("SEND", 2, TRUE)}
ReadOnly == {Wr("READ", 3, TRUE)}

\* The hypotheses of the theorems hold of every run but the one across the end
\* of the PSN space.
ASSUME LifeOfRuns ==
  FewPosts /\ \E N \in 1 .. 3 : /\ \A w \in WorkReqs : w.n <= N
                               /\ WindowBelowHalf(N) /\ (InitPsn = 0 => FewPsns(N))
=============================================================================
