------------------------------ MODULE Watchdog ------------------------------
(***************************************************************************)
(* The watchdog of acb-go: TimeoutService (internal/timeout/timeout.go)    *)
(* and the clocks it compares: created_at and last_heartbeat of a task     *)
(* (internal/db/task_repo.go), last_heartbeat of an agent (AgentRegistry). *)
(* TaskLifecycle leaves open which rows a sweep finds overdue; here the    *)
(* ages decide.  In return a handler is one step, except TaskHeartbeat,    *)
(* whose two statements are what this module is about, and gates, parents, *)
(* skills and the event log are left out.                                  *)
(*                                                                         *)
(* All the timeouts are switched on.  Agents in Steady keep the rules that *)
(* docs/agent-integration.md sets for agents; nobody else has to.          *)
(***************************************************************************)
EXTENDS AgentRegistry, FiniteSets

CONSTANTS
    Tasks,
    NoAgent,
    MaxRetries,    \* MaxRetries[t]: t's max_retries column
    PendingLimit,  \* ticks a task may be pending
    TaskLimit,     \* ticks without task heartbeat a task may be in progress
    PulseEvery,    \* at least one task heartbeat per PulseEvery ticks from Steady
    QuickAnswers,  \* a blocked task of a steady agent is answered in time
    MaxFaults      \* bound: restarts and failing statements of the sweep

ASSUME NoAgentIsNew == NoAgent \notin Agents
ASSUME MaxRetriesType == MaxRetries \in [Tasks -> Nat]
ASSUME LimitsType == PendingLimit \in Nat /\ TaskLimit \in Nat /\ MaxFaults \in Nat
ASSUME PulseInTime == PulseEvery \in 1..TaskLimit
ASSUME QuickAnswersType == QuickAnswers \in BOOLEAN

VARIABLES
    status, assignee, retryCount,  \* columns of tasks
    created,   \* created[t]: age of created_at
    pulse,     \* pulse[t]: age of the task's last_heartbeat
    fresh,     \* the tasks that became pending since the last tick (history)
    checked,   \* the tasks for which a TaskHeartbeat has passed its check
    sweep,     \* where TimeoutService.check stands
    faults     \* faults so far

rowVars == <<status, assignee, retryCount, created, pulse, fresh>>
taskVars == <<rowVars, checked>>
vars == <<regVars, taskVars, sweep, faults>>

TaskStatus ==
    {"absent", "pending", "claimed", "in_progress", "blocked", "completed", "failed"}

\* The age at which both limits of a task have passed.
AgeLimit == IF PendingLimit > TaskLimit THEN PendingLimit ELSE TaskLimit

Sweep == [phase : {"idle", "pending", "stale", "release"},
          todo : SUBSET Tasks, agents : SUBSET Agents]
SweepIdle == [phase |-> "idle", todo |-> {}, agents |-> {}]

Init ==
    /\ RegInit
    /\ status = [t \in Tasks |-> "absent"]
    /\ assignee = [t \in Tasks |-> NoAgent]
    /\ retryCount = [t \in Tasks |-> 0]
    /\ created = [t \in Tasks |-> 0]
    /\ pulse = [t \in Tasks |-> Never]
    /\ fresh = {}
    /\ checked = {}
    /\ sweep = SweepIdle
    /\ faults = 0

-----------------------------------------------------------------------------
(* Task handlers *)

Move(t, from, to) ==
    /\ status[t] \in from
    /\ status' = [status EXCEPT ![t] = to]

\* A task returns to the queue; created_at and last_heartbeat stay as they are.
Requeue(t) ==
    /\ status' = [status EXCEPT ![t] = "pending"]
    /\ assignee' = [assignee EXCEPT ![t] = NoAgent]
    /\ fresh' = fresh \cup {t}
    /\ UNCHANGED <<created, pulse>>

CreateTask(t, a) ==
    /\ Move(t, {"absent"}, "pending")
    /\ assignee' = [assignee EXCEPT ![t] = a]
    /\ fresh' = fresh \cup {t}
    /\ UNCHANGED <<retryCount, created, pulse, checked>>

ClaimTask(t, a) ==
    /\ Move(t, {"pending"}, "claimed")
    /\ assignee' = [assignee EXCEPT ![t] = a]
    /\ UNCHANGED <<retryCount, created, pulse, fresh, checked>>

\* A steady agent sends a task heartbeat after its claim, before anything else.
Announced(t) == assignee[t] \in Steady /\ status[t] = "claimed" => pulse[t] = 0

StartTask(t) ==
    /\ Announced(t)
    /\ Move(t, {"claimed"}, "in_progress")
    /\ UNCHANGED <<assignee, retryCount, created, pulse, fresh, checked>>

BlockTask(t) ==
    /\ Announced(t)
    /\ Move(t, {"in_progress", "claimed"}, "blocked")
    /\ UNCHANGED <<assignee, retryCount, created, pulse, fresh, checked>>

UnblockTask(t) ==
    /\ Move(t, {"blocked"}, "in_progress")
    /\ UNCHANGED <<assignee, retryCount, created, pulse, fresh, checked>>

CompleteTask(t) ==
    /\ Move(t, {"in_progress"}, "completed")
    /\ UNCHANGED <<assignee, retryCount, created, pulse, fresh, checked>>

\* FailTask, with the requeue while the budget lasts.
FailTask(t) ==
    /\ status[t] = "in_progress"
    /\ IF retryCount[t] < MaxRetries[t]
       THEN Requeue(t) /\ retryCount' = [retryCount EXCEPT ![t] = @ + 1]
       ELSE /\ status' = [status EXCEPT ![t] = "failed"]
            /\ UNCHANGED <<assignee, retryCount, created, pulse, fresh>>
    /\ UNCHANGED checked

\* TaskHeartbeat reads the task and answers 409 unless it is claimed or in progress ...
HeartbeatCheck(t) ==
    /\ status[t] \in {"claimed", "in_progress"}
    /\ checked' = checked \cup {t}
    /\ UNCHANGED rowVars

\* ... and then sets last_heartbeat, whatever the status is by now.
HeartbeatUpdate(t) ==
    /\ t \in checked
    /\ checked' = checked \ {t}
    /\ pulse' = [pulse EXCEPT ![t] = 0]
    /\ UNCHANGED <<status, assignee, retryCount, created, fresh>>

\* The request ends before its UPDATE.
HeartbeatLost(t) ==
    /\ t \in checked
    /\ checked' = checked \ {t}
    /\ UNCHANGED rowVars

TaskStep ==
    \E t \in Tasks :
        \/ \E a \in Agents \cup {NoAgent} : CreateTask(t, a)
        \/ \E a \in Agents : ClaimTask(t, a)
        \/ StartTask(t) \/ BlockTask(t) \/ UnblockTask(t)
        \/ CompleteTask(t) \/ FailTask(t)
        \/ HeartbeatCheck(t) \/ HeartbeatUpdate(t) \/ HeartbeatLost(t)

-----------------------------------------------------------------------------
(* TimeoutService.check: each SELECT compares ages, each UPDATE at most the status *)

\* Fault: a task that was created for an assignee does not expire.
PendingOverdueOpen(t) ==
    status[t] = "pending" /\ assignee[t] = NoAgent /\ created[t] > PendingLimit

PendingOverdue(t) == status[t] = "pending" /\ created[t] > PendingLimit

\* Fault: every started task counts from its creation.
PulseOverdueCreated(t) == status[t] = "in_progress" /\ created[t] > TaskLimit

\* Fault: a NULL last_heartbeat is not replaced by created_at.
PulseOverdueNull(t) ==
    status[t] = "in_progress" /\ pulse[t] # Never /\ pulse[t] > TaskLimit

PulseOverdue(t) ==
    /\ status[t] = "in_progress"
    /\ IF pulse[t] = Never THEN created[t] > TaskLimit ELSE pulse[t] > TaskLimit

SweepPending ==
    /\ sweep.phase = "idle"
    /\ sweep' = [sweep EXCEPT !.phase = "pending",
                              !.todo = {t \in Tasks : PendingOverdue(t)}]
    /\ UNCHANGED taskVars

SweepStale ==
    /\ sweep.phase = "pending" /\ sweep.todo = {}
    /\ sweep' = [sweep EXCEPT !.phase = "stale",
                              !.todo = {t \in Tasks : PulseOverdue(t)}]
    /\ UNCHANGED taskVars

SweepAgents ==
    /\ sweep.phase = "stale" /\ sweep.todo = {}
    /\ sweep' = [sweep EXCEPT !.phase = "release", !.agents = ListStale]
    /\ UNCHANGED taskVars

\* Fault: ReleaseAgentTasks looks for tasks in progress only.
ReleaseQueryStarted(a) ==
    /\ sweep.phase = "release" /\ sweep.todo = {} /\ a \in sweep.agents
    /\ sweep' = [sweep EXCEPT
                   !.agents = @ \ {a},
                   !.todo = {t \in Tasks : assignee[t] = a /\ status[t] = "in_progress"}]
    /\ UNCHANGED taskVars

ReleaseQuery(a) ==
    /\ sweep.phase = "release" /\ sweep.todo = {} /\ a \in sweep.agents
    /\ sweep' = [sweep EXCEPT
                   !.agents = @ \ {a},
                   !.todo = {t \in Tasks : /\ assignee[t] = a
                                           /\ status[t] \in {"claimed", "in_progress"}}]
    /\ UNCHANGED taskVars

SweepEnd ==
    /\ sweep.phase = "release" /\ sweep.todo = {} /\ sweep.agents = {}
    /\ sweep' = SweepIdle
    /\ UNCHANGED taskVars

\* A row the sweep has selected is done with.
NextRow(phase, t) ==
    /\ sweep.phase = phase /\ t \in sweep.todo
    /\ sweep' = [sweep EXCEPT !.todo = @ \ {t}]
    /\ UNCHANGED checked

\* UPDATE ... SET status = 'failed' ... AND status = from
ExpireTask(phase, from, t) ==
    /\ NextRow(phase, t)
    /\ status' = IF status[t] = from THEN [status EXCEPT ![t] = "failed"] ELSE status
    /\ UNCHANGED <<assignee, retryCount, created, pulse, fresh>>

\* UPDATE ... SET status = 'pending', assignee = '', with no condition on the status
ReleaseTask(t) ==
    /\ NextRow("release", t)
    /\ Requeue(t)
    /\ UNCHANGED retryCount

SweepStep ==
    \/ SweepPending \/ SweepStale \/ SweepAgents \/ SweepEnd
    \/ \E a \in Agents : ReleaseQuery(a)
    \/ \E t \in Tasks :
          ExpireTask("pending", "pending", t) \/ ExpireTask("stale", "in_progress", t)
              \/ ReleaseTask(t)

\* The UPDATE of a row fails, and the code goes on with the next.
RowFails(t) ==
    /\ faults < MaxFaults /\ faults' = faults + 1
    /\ NextRow(sweep.phase, t)
    /\ UNCHANGED rowVars

\* The process stops; the new one sweeps at once.
Restart ==
    /\ faults < MaxFaults /\ faults' = faults + 1
    /\ RegRestart
    /\ checked' = {}
    /\ sweep' = SweepIdle
    /\ UNCHANGED rowVars

-----------------------------------------------------------------------------
(* Time *)

\* Steady agents send the task heartbeats they owe.  While a task is blocked they
\* are refused; with QuickAnswers it is unblocked before one would be due.
PulsesAreSent ==
    \A t \in Tasks : assignee[t] \in Steady =>
        /\ status[t] = "in_progress" => pulse[t] < PulseEvery
        /\ status[t] = "blocked" /\ QuickAnswers => pulse[t] < PulseEvery

Tick ==
    /\ PulsesAreSent
    /\ RegTick
    /\ created' = [t \in Tasks |-> IF status[t] = "absent" THEN 0
                                   ELSE Older(created[t], AgeLimit)]
    /\ pulse' = [t \in Tasks |-> Older(pulse[t], TaskLimit)]
    /\ fresh' = {}
    /\ UNCHANGED <<status, assignee, retryCount, checked, sweep, faults>>

Next ==
    \/ RegStep /\ UNCHANGED <<taskVars, sweep, faults>>
    \/ TaskStep /\ UNCHANGED <<regVars, sweep, faults>>
    \/ SweepStep /\ UNCHANGED <<regVars, faults>>
    \/ (\E t \in Tasks : RowFails(t)) /\ UNCHANGED regVars
    \/ Restart
    \/ Tick

Spec == Init /\ [][Next]_vars

\* The sweep's goroutine is scheduled and its ticker ticks; time passes.
FairSpec ==
    /\ Spec
    /\ WF_vars(SweepStep /\ UNCHANGED <<regVars, faults>>)
    /\ []<><<Tick>>_vars

-----------------------------------------------------------------------------
(* Correctness *)

\* Every column, age and register holds a value of its type.
TypeOK ==
    /\ RegTypeOK
    /\ status \in [Tasks -> TaskStatus]
    /\ assignee \in [Tasks -> Agents \cup {NoAgent}]
    /\ retryCount \in [Tasks -> Nat]
    /\ created \in [Tasks -> Ages(AgeLimit)]
    /\ pulse \in [Tasks -> Ages(TaskLimit)]
    /\ fresh \in SUBSET Tasks
    /\ checked \in SUBSET Tasks
    /\ sweep \in Sweep
    /\ faults \in 0..MaxFaults

\* A live agent holds t, and no requeue can hand it to somebody else meanwhile.
HeldByLive(t) ==
    /\ assignee[t] \in Steady
    /\ status[t] \in {"claimed", "in_progress"}
    /\ MaxRetries[t] = 0

\* A steady agent keeps its work: no step of the sweep takes a task from an agent
\* that sends its heartbeats, although a task may have been created long ago or
\* carry the heartbeat of an earlier attempt, and selects and updates are apart.
SteadyKeepsWork ==
    [][\A t \in Tasks :
          QuickAnswers /\ HeldByLive(t) /\ sweep' # sweep => status'[t] = status[t]]_vars

\* No task waits in the queue for ever: it is claimed, or it expires.
PendingEnds == \A t \in Tasks : status[t] = "pending" ~> status[t] # "pending"

\* A task that is in progress for good has somebody who sends heartbeats for it.
HungTaskEnds ==
    \A t \in Tasks : <>[](status[t] = "in_progress") => []<>(pulse[t] = 0)

\* A task that stays claimed by an agent with a row has an agent that is alive.
DeadAgentLetsGo ==
    \A t \in Tasks, a \in Agents :
        <>[](status[t] = "claimed" /\ assignee[t] = a /\ Registered(a)) => []<>(beat[a] = 0)

\* A task that a steady agent works on carries a heartbeat of this attempt.
PulseIsFresh ==
    \A t \in Tasks :
        assignee[t] \in Steady /\ status[t] \in {"in_progress", "blocked"} =>
            pulse[t] # Never /\ pulse[t] <= PulseEvery

\* The rows a sweep has selected stay out of the hands of steady agents.
SelectedIsLost ==
    \A t \in sweep.todo :
        sweep.phase \in {"stale", "release"} /\ MaxRetries[t] = 0 =>
            status[t] \notin {"absent", "pending"} /\ assignee[t] \notin Steady

\* The inductive invariant behind LiveIsNotStale and SteadyKeepsWork.
IInv ==
    /\ TypeOK
    /\ RefusedIsFresh
    /\ QuickAnswers => PulseIsFresh /\ SelectedIsLost
    /\ sweep.agents \cap Steady = {}

\* docs/agent-integration.md: tasks that remain in pending without being claimed
\* expire after the limit.  The sweep counts from created_at, which a requeue and
\* a release leave alone: a task that has just become pending again expires.
PendingExpiryIsDue ==
    [][\A t \in Tasks :
          status[t] = "pending" /\ status'[t] = "failed" => t \notin fresh]_vars
=============================================================================
