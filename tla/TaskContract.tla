---------------------------- MODULE TaskContract ----------------------------
(***************************************************************************)
(* What the task board promises its clients: the state machine of          *)
(* README.md ("Task State Machine"), which the repositories extend by one  *)
(* edge (a claimed task can be blocked too), with the retry budget, the    *)
(* parent rule of a claim and the ownership of work.  Every transition is  *)
(* one atomic step here; TaskLifecycle takes several database statements   *)
(* for most of them and is shown to implement this module.                 *)
(***************************************************************************)
EXTENDS Naturals

CONSTANTS
    Tasks,       \* identifiers a task row may have
    Agents,      \* names an assignee may have
    NoAgent,     \* the empty assignee column
    Parents,     \* Parents[t]: the tasks named in t's parents column
    MaxRetries   \* MaxRetries[t]: t's max_retries column

VARIABLES
    status,      \* status[t]: the status column, "absent" before the INSERT
    assignee,    \* assignee[t]: the assignee column
    retryCount   \* retryCount[t]: the retry_count column

contractVars == <<status, assignee, retryCount>>

\* The parent rule of a claim.
ParentsDone(t) == \A p \in Parents[t] : status[p] = "completed"

Init ==
    /\ status = [t \in Tasks |-> "absent"]
    /\ assignee = [t \in Tasks |-> NoAgent]
    /\ retryCount = [t \in Tasks |-> 0]

\* One edge of the state machine that touches only the status column.
Move(t, from, to) ==
    /\ status[t] \in from
    /\ status' = [status EXCEPT ![t] = to]
    /\ UNCHANGED <<assignee, retryCount>>

Create(t, a) ==
    /\ status[t] = "absent"
    /\ status' = [status EXCEPT ![t] = "pending"]
    /\ assignee' = [assignee EXCEPT ![t] = a]
    /\ UNCHANGED retryCount

Claim(t, a) ==
    /\ status[t] = "pending"
    /\ ParentsDone(t)
    /\ status' = [status EXCEPT ![t] = "claimed"]
    /\ assignee' = [assignee EXCEPT ![t] = a]
    /\ UNCHANGED retryCount

Start(t)    == Move(t, {"claimed"}, "in_progress")
Block(t)    == Move(t, {"claimed", "in_progress"}, "blocked")
Unblock(t)  == Move(t, {"blocked"}, "in_progress")
Complete(t) == Move(t, {"in_progress"}, "completed")
Fail(t)     == Move(t, {"in_progress"}, "failed")
Expire(t)   == Move(t, {"pending"}, "failed")

\* A failed attempt goes back to the queue, without owner, while the budget lasts.
Retry(t) ==
    /\ status[t] = "failed"
    /\ retryCount[t] < MaxRetries[t]
    /\ status' = [status EXCEPT ![t] = "pending"]
    /\ assignee' = [assignee EXCEPT ![t] = NoAgent]
    /\ retryCount' = [retryCount EXCEPT ![t] = @ + 1]

Next ==
    \E t \in Tasks :
        \/ \E a \in Agents \cup {NoAgent} : Create(t, a)
        \/ \E a \in Agents : Claim(t, a)
        \/ Start(t) \/ Block(t) \/ Unblock(t)
        \/ Complete(t) \/ Fail(t) \/ Expire(t) \/ Retry(t)

Spec == Init /\ [][Next]_contractVars
=============================================================================
