--------------------------- MODULE TaskLifecycle ---------------------------
(***************************************************************************)
(* The task board of acb-go: the tasks and gates tables, the HTTP handlers *)
(* of internal/api/task_handler.go over the repositories of internal/db,   *)
(* and the sweep of internal/timeout, one action per SQL statement that    *)
(* another actor can observe between.  The repositories open no            *)
(* transaction, so a handler that issues several statements holds a        *)
(* request slot between them and anything may happen meanwhile.            *)
(*                                                                         *)
(* Abstractions.  Qualified stands for the skill check of a claim.  Which  *)
(* rows are overdue is a free choice of the sweep: clocks, created_at and  *)
(* last_heartbeat are not kept.  task_events is represented by its newest  *)
(* row; the INSERT of an event is one step with the statement before it.   *)
(* Webhooks and Redis publications read this state and never write it.     *)
(***************************************************************************)
EXTENDS Integers, FiniteSets

CONSTANTS
    Tasks,            \* identifiers a task row may have
    Agents,           \* names an assignee may have
    Gates,            \* identifiers a gate row may have
    Requests,         \* slots of HTTP requests being served
    NoTask, NoAgent, NoGate, NoEvent,
    Parents,          \* Parents[t]: the tasks named in t's parents column, each once
    Mentions,         \* <<p, t>>: p's id occurs in the text of t's parents column
    MaxRetries,       \* MaxRetries[t]: t's max_retries column
    Qualified,        \* <<a, t>>: a passes the required-skills check of t
    Registered,       \* the agents with a row in the agents table
    StaleRelease,     \* agentStaleMin > 0: the sweep releases stale agents
    CrossTaskUnblock  \* a client may unblock a task with another task's gate

ASSUME ParentsType == Parents \in [Tasks -> SUBSET Tasks]
ASSUME MentionsParents ==
    /\ Mentions \subseteq Tasks \X Tasks
    /\ \A t \in Tasks : \A p \in Parents[t] : <<p, t>> \in Mentions
ASSUME MaxRetriesType == MaxRetries \in [Tasks -> Int]
ASSUME QualifiedType == Qualified \subseteq Agents \X Tasks
ASSUME RegisteredType == Registered \subseteq Agents
ASSUME SwitchType == StaleRelease \in BOOLEAN /\ CrossTaskUnblock \in BOOLEAN
ASSUME NullsAreNew ==
    NoTask \notin Tasks /\ NoAgent \notin Agents /\ NoGate \notin Gates

VARIABLES
    status,       \* tasks.status, "absent" when there is no row
    assignee,     \* tasks.assignee
    retryCount,   \* tasks.retry_count
    gateStatus,   \* gates.status, "absent" when there is no row
    gateTask,     \* gates.task_id
    req,          \* req[r]: where the handler of request r stands
    sweep,        \* where TimeoutService.check stands
    lastEvent     \* the newest row of task_events

taskVars == <<status, assignee, retryCount>>
gateVars == <<gateStatus, gateTask>>
vars == <<status, assignee, retryCount, gateStatus, gateTask, req, sweep, lastEvent>>

-----------------------------------------------------------------------------
(* Types *)

TaskStatus ==
    {"absent", "pending", "claimed", "in_progress", "blocked", "completed", "failed"}

\* The states of a gate row, and those in which its question is not settled.
GateStatus == {"absent", "pending", "asked", "answered", "resolved"}
Unsettled == {"pending", "asked", "answered"}

Events ==
    {"CreateTask", "ClaimTask", "StartTask", "BlockTask", "UpdateStatus",
     "CompleteTask", "ParentsCompleted", "FailTask", "TaskRetry",
     "PendingTimeout", "TaskHeartbeatTimeout", "StaleAgentRelease"}

EventRow == [task : Tasks, event : Events]

\* A request slot, by the next statement of its handler.
Request ==
    \* no request, or one before its first statement
    [pc : {"idle"}, task : {NoTask}, agent : {NoAgent}, gate : {NoGate}, kids : {{}}]
    \* the UPDATE of ClaimTask, the checks passed
    \cup [pc : {"claim"}, task : Tasks, agent : Agents, gate : {NoGate}, kids : {{}}]
    \* the INSERT of BlockTask's gate; the UPDATE of UnblockTask, the gate resolved
    \cup [pc : {"gate", "resume"}, task : Tasks, agent : {NoAgent}, gate : Gates, kids : {{}}]
    \* CompleteTask's query for children; FailTask's read of the count and its requeue
    \cup [pc : {"promote", "count", "requeue"}, task : Tasks, agent : {NoAgent},
          gate : {NoGate}, kids : {{}}]
    \* the parents check of each child CompleteTask's query returned
    \cup [pc : {"child"}, task : {NoTask}, agent : {NoAgent}, gate : {NoGate},
          kids : SUBSET Tasks]

Slot(pc, t, a, g) == [pc |-> pc, task |-> t, agent |-> a, gate |-> g, kids |-> {}]
Idle == Slot("idle", NoTask, NoAgent, NoGate)
Children(kids) ==
    [pc |-> "child", task |-> NoTask, agent |-> NoAgent, gate |-> NoGate, kids |-> kids]

Sweep == [phase : {"idle", "pending", "stale", "release"},
          todo : SUBSET Tasks, agents : SUBSET Agents]

SweepIdle == [phase |-> "idle", todo |-> {}, agents |-> {}]

Init ==
    /\ status = [t \in Tasks |-> "absent"]
    /\ assignee = [t \in Tasks |-> NoAgent]
    /\ retryCount = [t \in Tasks |-> 0]
    /\ gateStatus = [g \in Gates |-> "absent"]
    /\ gateTask = [g \in Gates |-> NoTask]
    /\ req = [r \in Requests |-> Idle]
    /\ sweep = SweepIdle
    /\ lastEvent = NoEvent

-----------------------------------------------------------------------------
(* Repository statements *)

\* logTaskEvent: the error of the INSERT is dropped, so the row may be missing.
logTaskEvent(t, e) ==
    \/ lastEvent' = [task |-> t, event |-> e]
    \/ UNCHANGED lastEvent

\* UPDATE tasks SET status = to WHERE id = t AND status IN from, a row changed.
Cas(t, from, to) ==
    /\ status[t] \in from
    /\ status' = [status EXCEPT ![t] = to]

\* The task exists and every one of its parents is completed.
CheckParentsCompleted(t) == \A p \in Parents[t] : status[p] = "completed"

\* INSERT INTO tasks: a second row of the same id is refused by the key.
InsertTask(t, a) ==
    /\ Cas(t, {"absent"}, "pending")
    /\ assignee' = [assignee EXCEPT ![t] = a]
    /\ UNCHANGED retryCount
    /\ logTaskEvent(t, "CreateTask")

\* Fault: a claim that also takes over a claimed task.
CasClaimTakesOver(t, a) ==
    /\ Cas(t, {"pending", "claimed"}, "claimed")
    /\ assignee' = [assignee EXCEPT ![t] = a]
    /\ UNCHANGED retryCount
    /\ logTaskEvent(t, "ClaimTask")

CasClaim(t, a) ==
    /\ Cas(t, {"pending"}, "claimed")
    /\ assignee' = [assignee EXCEPT ![t] = a]
    /\ UNCHANGED retryCount
    /\ logTaskEvent(t, "ClaimTask")

\* Fault: a start that needs no claim.
CasStartUnclaimed(t) ==
    /\ Cas(t, {"pending", "claimed"}, "in_progress")
    /\ UNCHANGED <<assignee, retryCount>>
    /\ logTaskEvent(t, "StartTask")

CasStart(t) ==
    /\ Cas(t, {"claimed"}, "in_progress")
    /\ UNCHANGED <<assignee, retryCount>>
    /\ logTaskEvent(t, "StartTask")

\* Fault: a blocked task can be blocked again.
CasBlockAgain(t) ==
    /\ Cas(t, {"in_progress", "claimed", "blocked"}, "blocked")
    /\ UNCHANGED <<assignee, retryCount>>
    /\ logTaskEvent(t, "BlockTask")

CasBlock(t) ==
    /\ Cas(t, {"in_progress", "claimed"}, "blocked")
    /\ UNCHANGED <<assignee, retryCount>>
    /\ logTaskEvent(t, "BlockTask")

\* Fault: a blocked task can be completed past its gate.
CasCompleteBlocked(t) ==
    /\ Cas(t, {"in_progress", "blocked"}, "completed")
    /\ UNCHANGED <<assignee, retryCount>>
    /\ logTaskEvent(t, "CompleteTask")

CasComplete(t) ==
    /\ Cas(t, {"in_progress"}, "completed")
    /\ UNCHANGED <<assignee, retryCount>>
    /\ logTaskEvent(t, "CompleteTask")

\* Fault: a failed task can be failed again.
CasFailAgain(t) ==
    /\ Cas(t, {"in_progress", "failed"}, "failed")
    /\ UNCHANGED <<assignee, retryCount>>
    /\ logTaskEvent(t, "FailTask")

CasFail(t) ==
    /\ Cas(t, {"in_progress"}, "failed")
    /\ UNCHANGED <<assignee, retryCount>>
    /\ logTaskEvent(t, "FailTask")

\* UpdateStatus(id, "in_progress"): no condition on the status it overwrites.
UpdateStatusInProgress(t) ==
    /\ status' = [status EXCEPT ![t] = "in_progress"]
    /\ UNCHANGED <<assignee, retryCount>>
    /\ logTaskEvent(t, "UpdateStatus")

\* Fault: the requeued task keeps its assignee.
RequeueOwned(t) ==
    /\ status' = [status EXCEPT ![t] = "pending"]
    /\ retryCount' = [retryCount EXCEPT ![t] = @ + 1]
    /\ UNCHANGED assignee
    /\ logTaskEvent(t, "TaskRetry")

\* The second UPDATE of FailTask: no condition on the status it overwrites.
RequeueFailed(t) ==
    /\ status' = [status EXCEPT ![t] = "pending"]
    /\ assignee' = [assignee EXCEPT ![t] = NoAgent]
    /\ retryCount' = [retryCount EXCEPT ![t] = @ + 1]
    /\ logTaskEvent(t, "TaskRetry")

\* Fault: one retry too many.
MayRetryOnceMore(t) == MaxRetries[t] > 0 /\ retryCount[t] <= MaxRetries[t]

\* FailTask's condition on the counts it has read.
MayRetry(t) == MaxRetries[t] > 0 /\ retryCount[t] < MaxRetries[t]

\* The UPDATE of ReleaseAgentTasks: no condition on the status it overwrites.
ReleaseTask(t) ==
    /\ status' = [status EXCEPT ![t] = "pending"]
    /\ assignee' = [assignee EXCEPT ![t] = NoAgent]
    /\ UNCHANGED retryCount
    /\ logTaskEvent(t, "StaleAgentRelease")

\* The row update of a timeout; the event is logged whether or not it changed a row.
ExpireRow(t, from, e) ==
    /\ \/ Cas(t, {from}, "failed")
       \/ status[t] # from /\ UNCHANGED status
    /\ UNCHANGED <<assignee, retryCount>>
    /\ logTaskEvent(t, e)

\* The gates table: an INSERT, and one conditional UPDATE per later status.
CreateGate(g, t) ==
    /\ gateStatus[g] = "absent"
    /\ gateStatus' = [gateStatus EXCEPT ![g] = "pending"]
    /\ gateTask' = [gateTask EXCEPT ![g] = t]

\* Fault: the UPDATE of a gate without its condition on the status.
SetGate(g, from, to) ==
    /\ gateStatus[g] # "absent"
    /\ gateStatus' = [gateStatus EXCEPT ![g] = to]
    /\ UNCHANGED gateTask

CasGate(g, from, to) ==
    /\ gateStatus[g] = from
    /\ gateStatus' = [gateStatus EXCEPT ![g] = to]
    /\ UNCHANGED gateTask

-----------------------------------------------------------------------------
(* Request slots *)

\* Request r has another statement to issue, or is answered.
Goto(r, slot) == req' = [req EXCEPT ![r] = slot]
Open(r, slot) == req[r] = Idle /\ Goto(r, slot)
Close(r) == Goto(r, Idle)

\* r waits before statement pc of the handler for task t.
At(r, pc, t) == req[r].pc = pc /\ req[r].task = t

-----------------------------------------------------------------------------
(* Handlers of one statement *)

CreateTask(t, a) ==
    /\ InsertTask(t, a)
    /\ UNCHANGED <<gateVars, req, sweep>>

StartTask(t) ==
    /\ CasStart(t)
    /\ UNCHANGED <<gateVars, req, sweep>>

\* POST /tasks/{id}/gates/{gate_id}/answer: an agent answers its gate.
AnswerGate(g) ==
    /\ CasGate(g, "pending", "asked")
    /\ UNCHANGED <<taskVars, req, sweep, lastEvent>>

\* POST /tasks/{id}/gates/{gate_id}/approve: the orchestrator accepts the answer.
ApproveGate(g) ==
    /\ CasGate(g, "asked", "answered")
    /\ UNCHANGED <<taskVars, req, sweep, lastEvent>>

-----------------------------------------------------------------------------
(* ClaimTask: the checks, then the UPDATE *)

\* Fault: a claim that does not look at the parents.
ClaimCheckNoParents(r, t, a) ==
    /\ status[t] # "absent"
    /\ <<a, t>> \in Qualified
    /\ Open(r, Slot("claim", t, a, NoGate))
    /\ UNCHANGED <<taskVars, gateVars, sweep, lastEvent>>

ClaimCheck(r, t, a) ==
    /\ status[t] # "absent"
    /\ CheckParentsCompleted(t)
    /\ <<a, t>> \in Qualified
    /\ Open(r, Slot("claim", t, a, NoGate))
    /\ UNCHANGED <<taskVars, gateVars, sweep, lastEvent>>

\* Who comes too late is told so.
ClaimUpdate(r) ==
    /\ req[r].pc = "claim"
    /\ \/ CasClaim(req[r].task, req[r].agent)
       \/ status[req[r].task] # "pending" /\ UNCHANGED <<taskVars, lastEvent>>
    /\ Close(r)
    /\ UNCHANGED <<gateVars, sweep>>

-----------------------------------------------------------------------------
(* BlockTask: the UPDATE, then the INSERT of the gate *)

BlockUpdate(r, t, g) ==
    /\ CasBlock(t)
    /\ Open(r, Slot("gate", t, NoAgent, g))
    /\ UNCHANGED <<gateVars, sweep>>

\* The client chose the id: the key refuses one that is in use, and the handler
\* ends with an error and the task blocked.
BlockInsertGate(r) ==
    /\ req[r].pc = "gate"
    /\ \/ CreateGate(req[r].gate, req[r].task)
       \/ gateStatus[req[r].gate] # "absent" /\ UNCHANGED gateVars
    /\ Close(r)
    /\ UNCHANGED <<taskVars, sweep, lastEvent>>

-----------------------------------------------------------------------------
(* UnblockTask: the gate is resolved, then the task resumed; the handler   *)
(* compares neither the gate's task with t nor t's status with "blocked".  *)

UnblockResolve(r, t, g) ==
    /\ status[t] # "absent"
    /\ CrossTaskUnblock \/ gateTask[g] = t
    /\ CasGate(g, "answered", "resolved")
    /\ Open(r, Slot("resume", t, NoAgent, g))
    /\ UNCHANGED <<taskVars, sweep, lastEvent>>

UnblockUpdate(r) ==
    /\ req[r].pc = "resume"
    /\ UpdateStatusInProgress(req[r].task)
    /\ Close(r)
    /\ UNCHANGED <<gateVars, sweep>>

-----------------------------------------------------------------------------
(* CompleteTask: the UPDATE and the query of the pending children, then    *)
(* one check per child                                                     *)

CompleteUpdate(r, t) ==
    /\ CasComplete(t)
    /\ Open(r, Slot("promote", t, NoAgent, NoGate))
    /\ UNCHANGED <<gateVars, sweep>>

\* PromoteChildren reads the tasks that are pending now and whose parents column
\* matches LIKE '%id%': the children, and tasks that only look like children.
PromoteQuery(r) ==
    /\ req[r].pc = "promote"
    /\ LET kids == {c \in Tasks : <<req[r].task, c>> \in Mentions /\ status[c] = "pending"}
       IN  IF kids = {} THEN Close(r) ELSE Goto(r, Children(kids))
    /\ UNCHANGED <<taskVars, gateVars, sweep, lastEvent>>

PromoteChild(r, c) ==
    /\ req[r].pc = "child"
    /\ c \in req[r].kids
    /\ IF CheckParentsCompleted(c) THEN logTaskEvent(c, "ParentsCompleted")
                                   ELSE UNCHANGED lastEvent
    /\ IF req[r].kids = {c} THEN Close(r)
                            ELSE Goto(r, Children(req[r].kids \ {c}))
    /\ UNCHANGED <<taskVars, gateVars, sweep>>

-----------------------------------------------------------------------------
(* FailTask: the UPDATE, the read of the counts, the UPDATE that requeues  *)

FailUpdate(r, t) ==
    /\ CasFail(t)
    /\ Open(r, Slot("count", t, NoAgent, NoGate))
    /\ UNCHANGED <<gateVars, sweep>>

FailRead(r) ==
    /\ req[r].pc = "count"
    /\ IF MayRetry(req[r].task)
       THEN Goto(r, Slot("requeue", req[r].task, NoAgent, NoGate))
       ELSE Close(r)
    /\ UNCHANGED <<taskVars, gateVars, sweep, lastEvent>>

FailRequeue(r) ==
    /\ req[r].pc = "requeue"
    /\ RequeueFailed(req[r].task)
    /\ Close(r)
    /\ UNCHANGED <<gateVars, sweep>>

-----------------------------------------------------------------------------
(* The sweep of TimeoutService.check.  A row whose UPDATE fails is skipped *)
(* by the code; choosing a smaller set of rows has the same effect.        *)

SweepPending ==
    /\ sweep.phase = "idle"
    /\ \E rows \in SUBSET {t \in Tasks : status[t] = "pending"} :
          sweep' = [sweep EXCEPT !.phase = "pending", !.todo = rows]
    /\ UNCHANGED <<taskVars, gateVars, req, lastEvent>>

ExpirePendingTask(t) ==
    /\ sweep.phase = "pending" /\ t \in sweep.todo
    /\ ExpireRow(t, "pending", "PendingTimeout")
    /\ sweep' = [sweep EXCEPT !.todo = @ \ {t}]
    /\ UNCHANGED <<gateVars, req>>

SweepStale ==
    /\ sweep.phase = "pending" /\ sweep.todo = {}
    /\ \E rows \in SUBSET {t \in Tasks : status[t] = "in_progress"} :
          sweep' = [sweep EXCEPT !.phase = "stale", !.todo = rows]
    /\ UNCHANGED <<taskVars, gateVars, req, lastEvent>>

ExpireStaleTask(t) ==
    /\ sweep.phase = "stale" /\ t \in sweep.todo
    /\ ExpireRow(t, "in_progress", "TaskHeartbeatTimeout")
    /\ sweep' = [sweep EXCEPT !.todo = @ \ {t}]
    /\ UNCHANGED <<gateVars, req>>

\* ListStale, or the end of check when stale agents are not looked for.
SweepAgents ==
    /\ sweep.phase = "stale" /\ sweep.todo = {}
    /\ \/ /\ ~StaleRelease
          /\ sweep' = SweepIdle
       \/ /\ StaleRelease
          /\ \E stale \in SUBSET Registered :
                sweep' = [sweep EXCEPT !.phase = "release", !.agents = stale]
    /\ UNCHANGED <<taskVars, gateVars, req, lastEvent>>

\* ReleaseAgentTasks reads the rows of one stale agent.
ReleaseQuery(a) ==
    /\ sweep.phase = "release" /\ sweep.todo = {} /\ a \in sweep.agents
    /\ \E rows \in SUBSET {t \in Tasks : /\ assignee[t] = a
                                         /\ status[t] \in {"claimed", "in_progress"}} :
          sweep' = [sweep EXCEPT !.todo = rows, !.agents = @ \ {a}]
    /\ UNCHANGED <<taskVars, gateVars, req, lastEvent>>

ReleaseAgentTask(t) ==
    /\ sweep.phase = "release" /\ t \in sweep.todo
    /\ ReleaseTask(t)
    /\ sweep' = [sweep EXCEPT !.todo = @ \ {t}]
    /\ UNCHANGED <<gateVars, req>>

SweepEnd ==
    /\ sweep.phase = "release" /\ sweep.todo = {} /\ sweep.agents = {}
    /\ sweep' = SweepIdle
    /\ UNCHANGED <<taskVars, gateVars, req, lastEvent>>

-----------------------------------------------------------------------------
(* Failures *)

\* A statement of r's handler fails, finds no row to change or is cancelled
\* with its client: the handler answers with an error and undoes nothing.
Abort(r) ==
    /\ req[r] # Idle
    /\ Close(r)
    /\ UNCHANGED <<taskVars, gateVars, sweep, lastEvent>>

\* The process stops and starts again; only the tables survive.
Crash ==
    /\ req' = [r \in Requests |-> Idle]
    /\ sweep' = SweepIdle
    /\ UNCHANGED <<taskVars, gateVars, lastEvent>>

-----------------------------------------------------------------------------

SingleStatement ==
    \/ \E t \in Tasks : StartTask(t) \/ \E a \in Agents \cup {NoAgent} : CreateTask(t, a)
    \/ \E g \in Gates : AnswerGate(g) \/ ApproveGate(g)

FirstStatement(r) ==
    \E t \in Tasks :
        \/ \E a \in Agents : ClaimCheck(r, t, a)
        \/ \E g \in Gates : BlockUpdate(r, t, g) \/ UnblockResolve(r, t, g)
        \/ CompleteUpdate(r, t)
        \/ FailUpdate(r, t)

LaterStatement(r) ==
    \/ ClaimUpdate(r)
    \/ BlockInsertGate(r)
    \/ UnblockUpdate(r)
    \/ PromoteQuery(r)
    \/ \E c \in Tasks : PromoteChild(r, c)
    \/ FailRead(r)
    \/ FailRequeue(r)
    \/ Abort(r)

SweepStep ==
    \/ SweepPending \/ SweepStale \/ SweepAgents \/ SweepEnd
    \/ \E t \in Tasks : ExpirePendingTask(t) \/ ExpireStaleTask(t) \/ ReleaseAgentTask(t)
    \/ \E a \in Agents : ReleaseQuery(a)

Next ==
    \/ SingleStatement
    \/ \E r \in Requests : FirstStatement(r) \/ LaterStatement(r)
    \/ SweepStep
    \/ Crash

Spec == Init /\ [][Next]_vars

-----------------------------------------------------------------------------
(* Correctness *)

\* Every column, request slot and sweep register holds a value of its type.
TypeOK ==
    /\ status \in [Tasks -> TaskStatus]
    /\ assignee \in [Tasks -> Agents \cup {NoAgent}]
    /\ retryCount \in [Tasks -> Nat]
    /\ gateStatus \in [Gates -> GateStatus]
    /\ gateTask \in [Gates -> Tasks \cup {NoTask}]
    /\ req \in [Requests -> Request]
    /\ sweep \in Sweep
    /\ lastEvent \in EventRow \cup {NoEvent}

\* The gate of g is a question about t that is not settled.
Asks(g, t) == gateTask[g] = t /\ gateStatus[g] \in Unsettled

\* A handler is between its two statements of blocking or unblocking t.
Handles(r, t) == At(r, "gate", t) \/ At(r, "resume", t)

\* t can be resumed: it has a gate that is not settled, or a handler is about to
\* give it one or to resume it.
HasWay(t) ==
    \/ \E r \in Requests : Handles(r, t)
    \/ \E g \in Gates : Asks(g, t)

\* A task has at most one unsettled gate or handler that is blocking or
\* unblocking it, and while it has one it is blocked: the answer and the
\* approval of a gate never concern a task that moved on, and the unconditional
\* UPDATE of UnblockTask overwrites nothing but "blocked".
OpenGateBlocks ==
    \A t \in Tasks :
        /\ \A r \in Requests : Handles(r, t) =>
              /\ status[t] = "blocked"
              /\ \A s \in Requests \ {r} : ~Handles(s, t)
              /\ \A g \in Gates : ~Asks(g, t)
        /\ \A g \in Gates : Asks(g, t) =>
              /\ status[t] = "blocked"
              /\ \A h \in Gates \ {g} : ~Asks(h, t)

\* FailTask is between its two UPDATEs.
Failing(r, t) == At(r, "count", t) \/ At(r, "requeue", t)

\* A task is never retried more often than its max_retries, although FailTask
\* tests the count in one statement and adds to it in another.
RetryBound == \A t \in Tasks : retryCount[t] > 0 => retryCount[t] <= MaxRetries[t]

\* While FailTask is between its UPDATEs nobody else moves the task or fails
\* it a second time, so its unconditional requeue overwrites only its own
\* failure.
RequeueOwnsFailure ==
    \A r \in Requests, t \in Tasks : Failing(r, t) =>
        /\ status[t] = "failed"
        /\ \A s \in Requests \ {r} : ~Failing(s, t)

\* Work on a task begins only when its parents are completed, although the
\* parents are checked two statements before the claim, and they stay so.
ParentsFirst ==
    \A t \in Tasks :
        status[t] \in {"claimed", "in_progress", "blocked", "completed"} =>
            \A p \in Parents[t] : status[p] = "completed"

\* Nobody takes over a task that another agent holds: an assignee changes only
\* by the claim of a pending task, or to nobody as the task returns to the
\* queue.  Holds even while the sweep releases stale agents.
ClaimExclusive ==
    [][\A t \in Tasks :
          assignee'[t] # assignee[t] =>
              \/ status[t] = "absent"
              \/ status[t] = "pending" /\ status'[t] = "claimed"
              \/ assignee'[t] = NoAgent /\ status'[t] = "pending"]_vars

\* The edges of a gate's life, README "Task State Machine".
GateEdges == {<<"absent", "pending">>, <<"pending", "asked">>,
              <<"asked", "answered">>, <<"answered", "resolved">>}

\* A gate moves along one edge at a time and keeps its task, whatever handlers
\* race for it: an answer is never overwritten after approval, and one approval
\* unblocks once.
GateForward ==
    [][\A g \in Gates :
          /\ gateStatus'[g] # gateStatus[g] =>
                <<gateStatus[g], gateStatus'[g]>> \in GateEdges
          /\ gateStatus[g] # "absent" => gateTask'[g] = gateTask[g]]_vars

\* A task that is claimed, worked on or blocked has an assignee.  Start, block
\* and unblock never look at the column; what carries this is that every
\* statement that empties it also leaves these statuses.
WorkHasOwner ==
    \A t \in Tasks :
        status[t] \in {"claimed", "in_progress", "blocked"} => assignee[t] # NoAgent

-----------------------------------------------------------------------------
(* What the documents promise and the code does not keep *)

\* README "Task State Machine": nothing leads out of completed.  The release of a
\* stale agent's task is decided on a status read earlier and overwrites it.
CompletedIsFinal ==
    [][\A t \in Tasks : status[t] = "completed" => status'[t] = "completed"]_vars

-----------------------------------------------------------------------------
(* Refinement *)

\* The board's promise to its clients.
Contract == INSTANCE TaskContract
Implements == Contract!Spec

\* The setting in which the promise is kept: no release of stale agents, and
\* clients that unblock a task with its own gate, as the orchestrator poller does.
Disciplined == ~StaleRelease /\ ~CrossTaskUnblock

\* A claim that passed its checks still passes them.
ClaimChecked ==
    \A r \in Requests : req[r].pc = "claim" =>
        \A p \in Parents[req[r].task] : status[p] = "completed"

\* A requeue about to happen has room in the budget.
RetryRoom ==
    \A r \in Requests, t \in Tasks :
        At(r, "requeue", t) => retryCount[t] < MaxRetries[t]

\* The inductive invariant: what the safety invariants above need of each other
\* and of the requests in flight to be preserved by every step.
IInv ==
    /\ Disciplined
    /\ TypeOK
    /\ OpenGateBlocks
    /\ RequeueOwnsFailure
    /\ RetryBound
    /\ RetryRoom
    /\ ClaimChecked
    /\ ParentsFirst
    /\ WorkHasOwner
    /\ sweep.phase # "release"
=============================================================================
