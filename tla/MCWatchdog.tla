----------------------------- MODULE MCWatchdog -----------------------------
(***************************************************************************)
(* A small watchdog for TLC: an agent that keeps the rules, one that need  *)
(* not, and one task they both may get.                                    *)
(***************************************************************************)
EXTENDS Watchdog

CONSTANTS t1, live, other

NoRetries == [t \in Tasks |-> 0]
=============================================================================
