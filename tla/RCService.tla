----------------------------- MODULE RCService -----------------------------
(***************************************************************************)
(* What a reliable connection promises: work requests are executed by the  *)
(* other end in the order of posting, each at most once; they complete in  *)
(* that order, with success only after their execution, and nothing        *)
(* completes after a failure.  RCLink implements this.                     *)
(***************************************************************************)
EXTENDS Naturals, Sequences

CONSTANT Errors   \* the statuses of failed completions

VARIABLES
  accepted,    \* number of work requests posted
  executed,    \* number of those executed by the other end
  completions  \* completions reported, oldest first

svars == <<accepted, executed, completions>>

\* The number of the last WR completed, and whether that was with success.
LastCompleted == IF completions = <<>> THEN 0 ELSE completions[Len(completions)].ssn

Open == completions = <<>> \/ completions[Len(completions)].status = "SUCCESS"

Init == accepted = 0 /\ executed = 0 /\ completions = <<>>

Post == accepted' = accepted + 1 /\ UNCHANGED <<executed, completions>>

Execute ==
  /\ executed < accepted /\ executed' = executed + 1
  /\ UNCHANGED <<accepted, completions>>

\* Completions may skip WRs that are only acknowledged implicitly.
Complete ==
  /\ Open
  /\ \E n \in (LastCompleted + 1) .. executed :
       completions' = Append(completions, [ssn |-> n, status |-> "SUCCESS"])
  /\ UNCHANGED <<accepted, executed>>

Fail ==
  /\ Open
  /\ \E n \in (LastCompleted + 1) .. accepted, e \in Errors :
       completions' = Append(completions, [ssn |-> n, status |-> e])
  /\ UNCHANGED <<accepted, executed>>

Next == Post \/ Execute \/ Complete \/ Fail

Spec == Init /\ [][Next]_svars
=============================================================================
