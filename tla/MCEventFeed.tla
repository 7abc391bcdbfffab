---------------------------- MODULE MCEventFeed ----------------------------
(* Small feeds for TLC: p1 and p2 are runs of the poller of one agent. *)
EXTENDS EventFeed
CONSTANTS p1, p2
=============================================================================
