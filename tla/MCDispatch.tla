----------------------------- MODULE MCDispatch -----------------------------
(* Instances of Dispatch: a message and up to three client tool calls. *)
EXTENDS Dispatch

CONSTANTS k1, k2

\* Two calls that may share a turn, and a later one that uses the first id again.
TurnIds == [e \in 1..3 |-> IF e = 2 THEN k2 ELSE k1]

OneId == [e \in {1} |-> k1]

=============================================================================
