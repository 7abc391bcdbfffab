--------------------------- MODULE MCTaskDispatch ---------------------------
(***************************************************************************)
(* A small family for TLC: p and q are being worked on, q may return to    *)
(* the queue, and c waits for both, for p named twice, or for nobody.      *)
(***************************************************************************)
EXTENDS TaskDispatch

CONSTANTS p, q, c, any, able

Family == [t \in Tasks |-> IF t = c THEN {<<p, q>>, <<p, p>>, <<>>} ELSE {<<>>}]

\* The parents column of q, without parents, reads "null": p may look like it.
Lookalike == {<<p, q>>}

\* c needs a skill that only able has, and is the most urgent.
SomeRequired == [t \in Tasks |-> IF t = c THEN {"go"} ELSE {}]
AgentSkills == [a \in Agents |-> IF a = able THEN {"go"} ELSE {}]
Urgency == [t \in Tasks |-> IF t = c THEN 1 ELSE 2]

OneRetry == [t \in Tasks |-> IF t = q THEN 1 ELSE 0]
Underway == [t \in Tasks |-> IF t = c THEN {"absent"} ELSE {"in_progress"}]
=============================================================================
