------------------------------ MODULE MCPlanGates ------------------------------
(***************************************************************************)
(* Small plans for PlanGates.                                              *)
(***************************************************************************)
EXTENDS PlanGates

\* Gate 1 and retrieval 2 are ready at once; call 3 is behind the gate.
BesideDeps == <<{}, {}, {1}>>
BesideTimeout == [a \in {1} |-> "never"]

\* Gate 1, retrieval 2 behind it, gate 3 with a timeout behind the retrieval;
\* retrieval 4, also behind gate 1, is a duplicate unless retrieval 2 failed.
TwoGatesDeps == <<{}, {1}, {2}, {1}>>
TwoGatesTimeout == [a \in {1, 3} |-> IF a = 1 THEN "never" ELSE "completed"]
================================================================================
