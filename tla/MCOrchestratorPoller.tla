------------------------ MODULE MCOrchestratorPoller ------------------------
(***************************************************************************)
(* A small board for TLC with two overlapping runs of the script.          *)
(***************************************************************************)
EXTENDS OrchestratorPoller

CONSTANTS c1, c2, a1, o1, o2, r1, g1

NoParents == [t \in Tasks |-> {}]
NoRetries == [t \in Tasks |-> 0]
AllQualified == Agents \X Tasks
=============================================================================
