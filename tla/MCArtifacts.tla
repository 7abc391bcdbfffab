---------------------------- MODULE MCArtifacts ----------------------------
(***************************************************************************)
(* Small stores for TLC: k1 and k2 are keys of task t1, k3 and k4 of t2,   *)
(* t3 has none of its own.                                                 *)
(***************************************************************************)
EXTENDS Artifacts, TLC

CONSTANTS t1, t2, t3, k1, k2, k3, k4

Prefix == [k \in Keys |-> IF k \in {k3, k4} THEN t2 ELSE t1]
SlotSymmetry == Permutations(Requests)
=============================================================================
