----------------------------- MODULE MCGateway -----------------------------
(* Small instances of Gateway and its parts. *)
EXTENDS Gateway, TLC

CONSTANTS c1, c2, t1, d1, d2

\* One replica's clock is ahead of Redis and of the other's.
Ahead == c1 :> 0 @@ c2 :> 1

\* Two approvers decide the same escalation; TLC restricts both functions to
\* the deciders of a run.
Verdicts == d1 :> "approved" @@ d2 :> "rejected"
Outcomes == [d \in Deciders |-> Verdicts[d]]
TheFirst == [d \in Deciders |-> t1]
=============================================================================
