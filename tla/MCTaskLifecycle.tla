-------------------------- MODULE MCTaskLifecycle --------------------------
(***************************************************************************)
(* Small boards for TLC: one task, and a chain of two.                     *)
(***************************************************************************)
EXTENDS TaskLifecycle, TLC

CONSTANTS c1, c2, a1, a2

NoParents == [t \in Tasks |-> {}]
ChainParents == [t \in Tasks |-> IF t = c2 THEN {c1} ELSE {}]

\* No parents column merely looks like naming a task.
OnlyParents == {pair \in Tasks \X Tasks : pair[1] \in Parents[pair[2]]}

NoRetries == [t \in Tasks |-> 0]
OneRetry == [t \in Tasks |-> 1]
FirstRetries == [t \in Tasks |-> IF t = c1 THEN 1 ELSE 0]

\* Everybody may do everything; only a1 ever registered.
AllQualified == Agents \X Tasks
OnlyFirst == {a1}

SlotSymmetry == Permutations(Requests) \cup Permutations(Gates)

=============================================================================
