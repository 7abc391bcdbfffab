-------------------------- MODULE DeliveryContract --------------------------
(***************************************************************************)
(* What the webhook dispatcher owes to those who ask for a push, without   *)
(* its goroutines, queues and restarts.  A push is sent until the agent    *)
(* accepts it or the attempts are used up; a notice is sent once.  It may  *)
(* also be dropped, at any moment and many at a time.  What is settled     *)
(* stays settled: nothing is sent for it any more, until its name is given *)
(* to a new push, with a budget of its own.                                *)
(***************************************************************************)
EXTENDS Naturals

CONSTANTS
    Deliveries,  \* names of pushes and notices that are asked for
    Notices,     \* those that report a status change
    MaxRetries   \* requests that may be sent for a push

VARIABLES
    fate,        \* fate[d]: what has become of d
    requests     \* requests[d]: requests sent for d since it was asked for

vars == <<fate, requests>>

Fate == {"none", "open", "delivered", "gaveUp", "dropped"}

Budget(d) == IF d \in Notices THEN 1 ELSE MaxRetries

Init ==
    /\ fate = [d \in Deliveries |-> "none"]
    /\ requests = [d \in Deliveries |-> 0]

Ask(d) ==
    /\ fate[d] # "open"
    /\ fate' = [fate EXCEPT ![d] = "open"]
    /\ requests' = [requests EXCEPT ![d] = 0]

\* One request, within the budget.  It is accepted, or it fails and the push
\* stays open; after a notice there is nothing left to try.
Request(d, next) ==
    /\ fate[d] = "open"
    /\ requests[d] < Budget(d)
    /\ requests' = [requests EXCEPT ![d] = @ + 1]
    /\ fate' = [fate EXCEPT ![d] = next]

Attempt(d) ==
    \/ Request(d, "delivered")
    \/ d \in Notices /\ Request(d, "dropped")
    \/ d \notin Notices /\ Request(d, "open")

\* Only when every attempt has been made.
GiveUp(d) ==
    /\ fate[d] = "open"
    /\ requests[d] = MaxRetries
    /\ fate' = [fate EXCEPT ![d] = "gaveUp"]
    /\ UNCHANGED requests

\* Open deliveries may be dropped, settled ones are past that.
Drop(D) ==
    /\ \A d \in D : fate[d] = "open"
    /\ fate' = [d \in Deliveries |-> IF d \in D THEN "dropped" ELSE fate[d]]
    /\ UNCHANGED requests

Next ==
    \/ \E d \in Deliveries : Ask(d) \/ Attempt(d) \/ GiveUp(d)
    \/ \E D \in SUBSET Deliveries : Drop(D)

Spec == Init /\ [][Next]_vars
=============================================================================
