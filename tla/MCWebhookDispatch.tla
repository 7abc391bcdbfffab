------------------------- MODULE MCWebhookDispatch -------------------------
(***************************************************************************)
(* Small dispatchers for TLC: one agent, and deliveries and drainers that  *)
(* are alike, so that runs without temporal properties may exchange them.  *)
(***************************************************************************)
EXTENDS WebhookDispatch, TLC

CONSTANTS d1, d2, d3, d4, n1, k1, k2, agent

OneAgent == [d \in Deliveries |-> agent]
OneQueue == [k \in Drainers |-> agent]

Alike == Permutations(Deliveries \ Notices) \cup Permutations(Drainers)
=============================================================================
