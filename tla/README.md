# TLA+ models of acb-go

acb-go is a task board for AI agents: an HTTP server over PostgreSQL, Redis and an
S3-compatible store (RustFS), and two cron scripts that poll it. Agents claim tasks, work
on them, ask their orchestrator through gates, upload artifacts; a sweep expires and
releases what is stuck; a dispatcher pushes tasks to the agents' webhooks.

Hardly anything in the code locks. The repositories open no transaction, handlers issue
several statements one after the other, and scripts and sweeps do the same from outside.
What is right about the board is right because of single conditional `UPDATE`s, and what is
wrong happens between two statements. The modules here therefore have one action per
statement (SQL, Redis or S3) between which another actor can be observed; where a module
leaves a handler whole, another one has taken it apart.

## Inventory

| Component | State | Operations | What makes it correct |
|---|---|---|---|
| Task board (`internal/api/task_handler.go`, `internal/db/task_repo.go`, `schema.go`) | `tasks`, `gates`, `task_events` | create, claim, start, block, unblock, complete (promotes children), fail (requeues), heartbeat, lists, graph | transitions follow the state machine; one owner; parents first; retry budget; a blocked task has a gate |
| Gates (`gate_repo.go`) | `gates.status` | create, answer, approve, resolve | one edge at a time; one approval unblocks once |
| Timeout service (`internal/timeout`) | a goroutine | expire pending, expire stale in-progress, release tasks of stale agents | touches only what is overdue now; never a finished task |
| Event feed (`task_event_repo.go`, cursor in `agents`) and `scripts/acb-agent-poller.py` | `task_events`, `last_event_id` | insert, list since, save cursor | every event reported, none skipped |
| Webhook dispatcher (`internal/dispatcher`) | semaphore, wait group, goroutines, Redis lists | push, retry with backoff, give up, stop; pull (`FindNextForAgent`) | no delivery sent twice by two drainers, lost by the code or forgotten; queues and goroutines bounded; shutdown ends, if requests for pushes do |
| Artifacts (`artifact_handler.go`, `internal/rustfs`) | bucket, `tasks.artifacts_json` | upload, list, download, delete, cleanup | list and bucket agree |
| Agent registry and authentication (`agent_handler.go`, `agent_repo.go`, `auth.go`, `token_hash.go`, `webhook_crypto.go`) | `agents` | register, heartbeat, authenticate | a registered agent keeps its token; a live agent is not stale |
| Rate limiter (`limiter.go`) | bucket per key | allow | a key's rate |
| Redis publisher (`internal/redis`) | none | publish | best effort |
| URL validator, DNS pin cache (`validator.go`) | cache with expiry | validate, resolve | what was validated is what is dialled |
| Orchestrator poller (`scripts/acb-orchestrator-poller.py`) | its cursor in `agents` | report, approve and unblock | every asked gate ends in an unblocked task |
| Start and shutdown (`main.go`), configuration, migrations, router, health, dashboard, provisioning and test scripts | | | shutdown is orderly; migrations can be repeated |

Interactions: handlers call repositories (shared tables), then the publisher and the
dispatcher (a goroutine per push, after the last statement, so nothing of the board depends
on it). The sweep shares the tables with the handlers. Dispatcher drainers read tasks and
agents. The scripts use only the HTTP API.

Hard behaviours: statements of concurrent handlers and of the sweep in any order; a handler
cut off between statements (error, cancelled client, crash); a script killed between two
requests; overlapping cron runs; a page limit; drainers that overlap while they sleep;
shutdown with goroutines under way; read-modify-write of a JSON column. `PROJECT.json` lists
each at its line with the property that watches it, or with the reason why none does: mostly
that the code goes wrong there by the statement as written, which "Met while reading" reports.

## Modules

| Module | Content |
|---|---|
| `TaskContract` | what clients are promised: the state machine, every transition one step |
| `TaskLifecycle` | tasks, gates, handlers, sweep, one action per statement; invariants; refinement of `TaskContract` |
| `OrchestratorPoller` | the orchestrator's script, over `TaskLifecycle` |
| `TaskDispatch` | how a task finds its agent: push, promotion, poll, with parents as lists |
| `AgentRegistry` | the `agents` table, authentication, rate limiter |
| `Watchdog` | the ages of tasks and agents, task heartbeats and the sweep, over `AgentRegistry` |
| `EventFeed` | event rows, page, cursor, overlapping poller runs |
| `DeliveryContract` | what the dispatcher owes for a push |
| `WebhookDispatch` | senders, retry queues, drainers, semaphore, wait group, shutdown; refinement of `DeliveryContract` |
| `Artifacts` | bucket and list, one action per remote call |
| `...Proofs` | theorems about the module they name |
| `MC...` | small instances for TLC |

A comment that starts with *Fault* marks an operator that is a deliberate mistake. No
specification uses it; put in place of the definition that follows it, it makes a run fail,
which shows that the property depends on that code.

### TaskLifecycle

`status`, `assignee`, `retryCount`, `gateStatus` and `gateTask` are columns. `req[r]` is the
handler of a request that has issued some of its statements, named by the next one: a claim
that passed its checks (`claim`), a block whose gate is not inserted (`gate`), an unblock
whose gate is resolved (`resume`), a completion about to query or check children
(`promote`, `child`), a failure about to read its counts or to requeue (`count`, `requeue`).
`sweep` is where `TimeoutService.check` stands. `lastEvent` is the newest `task_events` row.
`Abort` is a statement that fails or is cancelled, `Crash` the end of the process; both keep
the tables and undo nothing, as the code does. Two statements end without effect and without
any fault: a claim that comes too late (`ClaimUpdate`), and the `INSERT` of a gate whose id,
which the client chooses, is in use (`BlockInsertGate`). The second one leaves a blocked task
behind.

Abstractions: the `INSERT` of an event is one step with the statement it reports, and may be
lost. Clocks are not kept: which pending or in-progress rows are overdue and which registered
agents are stale is the sweep's free choice, a superset of what clocks allow (`Watchdog` has
the clocks). The skill check of a claim is the constant `Qualified`. A parents list names
each parent once (`TaskDispatch` has lists). `Mentions` is the `LIKE '%id%'` match of
`PromoteChildren`, which contains the parents and more.

Two switches. `StaleRelease` is `agentStaleMin > 0`; the shipped default is 10 minutes, so
release is **on** by default. `CrossTaskUnblock` lets a client name the gate of another task
when it unblocks; the API allows it, the orchestrator's script never does it. `Disciplined`
is both off. The code keeps its contract only there: the board invariants, the contract and
the theorems that rest on them are claims about `Disciplined` boards. `ClaimExclusive`,
`GateForward` and `TypeOK` hold with any setting. `ClaimExclusive` says who may hold a task, and
allows its return to the queue from any status: that the release may also return a completed
task is what `CompletedIsFinal` shows.

### OrchestratorPoller

EXTENDS `TaskLifecycle`, with `CrossTaskUnblock` on: the server does not check. `run[o]` is a
run of `handle_blocked_tasks`, with the list of blocked tasks and the list of asked gates it
has read; both are old when they are used. Each run has a request slot of its own for its
unblock. The faults are a request of the script that gets no answer in time, whether it was
carried out or not (`NoAnswer`), a run that dies (`RunDies`), a handler that is cut off
(`RequestFails`) and a crash of the server, which the runs outlive (`ServerCrash`); all draw
on `MaxFaults`. `Others` and `InsertGate` are the agents and the sweep: all of `Next` except
what only the orchestrator does. `refused` is history: the tasks whose block used the id of an
existing gate. `Discipline` is the same board with `CrossTaskUnblock` off.

### TaskDispatch

Here `parents` is a list, which may name a task twice. `running` are the goroutines and
handlers between statements: creation and requeue before they read the task back,
`DispatchNewTask` at its n-th parent, `PromoteChildren` at its children, a failure before its
requeue. `poll[a]` is `FindNextForAgent` for agent `a`: the list, one parents query per task,
the answer, and the claim of what was offered. `pushed` and `announced` are history: who has
heard of a task since it last became pending. `AreParentsCompleted` counts rows,
`DispatchParent` reads one parent after the other, as in the code; whether these agree is one
of the questions. Claim and failure are coarser than in `TaskLifecycle`; gates and the
release are left out, so completed is final here. Running goroutines are a set: two at the
same point of the same work are one.

### AgentRegistry and Watchdog

`AgentRegistry` has no next-state relation of its own; `Watchdog` composes its actions with
the task table and the sweep. Ages count ticks since something happened and saturate just
above the limit they are compared with. `token` is what the stored hash authenticates, `beat`
the age of the agent's heartbeat, `grant` that of the limiter's last grant for a key; the
limiter forgets at a `Restart`, the table does not. `created` and `pulse` are the ages of a
task's `created_at` and `last_heartbeat`. `checked` are task heartbeats between their SELECT
and their UPDATE. Registration without a token stores the hash of the empty string, and the
row then authenticates nobody.

Agents in `Steady` keep the rules of `docs/agent-integration.md`: they send a heartbeat at
least every `BeatEvery` ticks and a task heartbeat right after a claim and every `PulseEvery`
ticks of work, they reach the server, and nobody registers them again. `QuickAnswers` says
that their blocked tasks are answered before another task heartbeat would be due: while a
task is blocked the server refuses its heartbeats. All other agents do what they like, also
in the name of a steady agent. `BeatsInTime` and `PulseInTime` are the assumptions on
periods: one period and one refusal of the limiter fit into the limit.

### EventFeed

`nextId`/`inserting`/`log` separate the id an `INSERT` draws from the row's appearance.
`cursor` is `agents.last_event_id`. Each element of `Pollers` is a run of the script:
read cursor, fetch page, save cursor, print (the orchestrator's script has the same loop and
sees every row: `Foreign = {}`). A fetch may fail, a save may fail without ending the run, and
a run may be killed anywhere (`Die`). The feed does lose rows, and `missed` is the history of
how: a row that commits when a reader has passed its id (`CommitRow`), the rows for which a
full page has no room (`FetchEvents`), and the page of a run that is killed between saving the
cursor and printing (`Die`). Each is written down where it happens, from what happens there;
the properties say that there is no fourth way, in particular none by overlapping runs that
move the cursor back or forward, by failing saves, or by a read of the cursor that fails.

### WebhookDispatch

A delivery is one push a handler asks for. Its name may be used again once it is settled, so
`Dispatch` has no last time: the HTTP server goes on asking for pushes, also while `Stop`
waits and after it, until the process ends (`main.go:109`, `114`). `job` has a register for
the goroutine of each first attempt and for each of `Drainers` drainers; `queue` is the Redis
list, `sem` the semaphore, `wg` the wait group, `phase` the progress of `main.go`. `outcome`
and `posts` are history: what became of the delivery, and how many requests were sent. Redis
is configured and runs each command at most once (a client library that repeats a command
after a lost reply is not modelled); `LPOP` may still lose its reply, and one that was sent
when `Stop` cancels the context may be executed all the same (`reply`); `RPUSH` may fail, and
`LTRIM` may fail when `TrimFails`. Backoff is a step that takes as long as it takes. Drainers
beyond `Drainers` at a time do not start.

`Contract` maps it to `DeliveryContract`: the five ways in which a delivery is dropped become
one, queues and goroutines disappear. A crash may drop many deliveries in one step. A settled
delivery is asked for again by a step of its own.

### Artifacts

`objects` is the bucket, `listed[t]` the column. Uploads, deletes and cleanups are slots
in `req` as above. `used`, `uploaded`, `asked` and `torn` are history: generated keys, keys
answered with 201, keys somebody began to delete, keys a half-finished request left behind. A
cleanup begins to delete what its listing of the bucket found, not what is uploaded later.
`Alone` are the tasks whose requests come one at a time; the others are unconstrained, and a
delete may even name a key of another task. Tasks exist; sizes and content types are left out.

## Runs

| Run | Shows | Instance |
|---|---|---|
| `TaskLifecycle_board` | `OpenGateBlocks`, `RetryBound`, `RequeueOwnsFailure`, `ParentsFirst`, `WorkHasOwner`, the inductive invariant (with the types), and the contract as a refinement | 2 tasks (a chain), 2 agents, 2 gates, 2 requests, one retry: 1.3 M states |
| `TaskLifecycle_release` | `ClaimExclusive`, `GateForward` with both switches on | 1 task, 2 agents, 2 gates: 1.25 M |
| `TaskLifecycle_v_final` | violated: a completed task stays completed | release on |
| `OrchestratorPoller` | `RunInv`; `BlockedHasWay`: without faults a blocked task can be resumed unless its gate was refused, and then nothing resumes it; `StaysDisciplined`: the script never mixes up gates; `AnsweredIsResumed` | 2 tasks, 1 agent, 1 gate (used twice), 2 overlapping runs, 1 client request, 1 fault: 410 k |
| `TaskDispatch` | the inductive invariant; `HeardIsClaimable`, `OfferIsBest`, `PromotionIsTrue`, `ReadyIsHeard`, `ClaimableIsClaimed` | 2 tasks being worked on, one of which may be requeued, and one that waits for both, for one named twice, or for none; 2 agents, 1 of them polls, 1 fault: 449 k |
| `Watchdog_ages` | `LiveIsNotStale`, `SteadyKeepsWork`, the inductive invariant; `PendingEnds`, `HungTaskEnds`, `DeadAgentLetsGo` | 1 task, a steady and another agent, all limits and periods one tick, 1 fault: 447 k |
| `Watchdog_v_pending` | violated: a task expires only after it was pending for the limit | the same |
| `EventFeed` | `NoSkip`, the inductive invariant (with the types), `AllReported` | 4 ids, one for another agent, pages of 2, 2 overlapping runs that fail and are killed anywhere: 206 k |
| `WebhookDispatch_live` | the inductive invariant (with the types); `NoLeak`, `OnePlace`, `AttemptsCount`, `RetriesStopped`, `NoneForgotten`, and `StopEnds`: `Stop` returns unless it meets new pushes over and over | 3 deliveries that are asked for any number of times, 2 drainers of one queue, 1 token, 2 attempts, queue of 2: 218 k |
| `WebhookDispatch_full` | `QueueBound`, and `KeepsContract` as a refinement | 4 deliveries and a notice, each any number of times, queue of 2: 552 k |
| `Artifacts` | `InSync`, `NoPhantom`, the inductive invariant (with the types) | 3 tasks (one of `Alone`), 4 keys, 2 requests: 5.0 M |
| `Artifacts_v_list` | violated: an uploaded artifact is on the list | 1 task, 2 uploads |

Why the bounds suffice. The hazards of the board are races of two handlers, or of one with the
sweep, for one row: two requests and the sweep make every pair, and the second task and gate
make every mix-up of identities. Two runs of the orchestrator's script overtake each other at
one gate, the second task is there to be mixed up with the first, and one fault can fall
between any two statements. A child with two parents, or with one named twice, is the smallest
family in which counting and reading one by one could differ; the second parent can fail and
return. Ages saturate one tick above their limit, so with limits of one tick every comparison
falls on both sides, and a second agent is enough to take a task away, to send heartbeats in
another's name, or to die. One token, two attempts and a queue of two make the semaphore, the
last attempt and a full queue happen within a few steps. Four ids and pages of two make full
pages with rows beyond them, and two runs overtake each other in every phase. Every safety
property of the passing runs is also proved for all sizes, in the settings that the proofs
name. Slots, gates, deliveries and drainers are interchangeable, so the larger runs without
liveness use symmetry.

No run allows deadlock: every model has an actor outside (a client, a cron run, a restart)
that can always go on.

Fairness.

- `EventFeed`: cron starts the script again and again, a run that started goes on (weak
  fairness of `Poll`), and requests do not fail, nor runs die, at the same place for ever
  (strong fairness of fetch and save; with weak fairness alone a script that dies at each
  fetch would be a counterexample that says nothing about the code).
- `WebhookDispatch`: goroutines are scheduled, HTTP requests have a 15 s timeout and backoffs
  end (weak fairness of senders and drainers), the ticker ticks, and `LPOP` on a queue with
  entries does not fail for ever (strong fairness of `Pop`). A first sender that waits for the
  semaphore gets it in the end although others keep taking it (strong fairness of `Acquire`):
  the semaphore is a Go channel, which serves blocked senders in their order. `Dispatch`,
  `Stop`, `Die` and `Start` are the environment's and are never fair.
- `Watchdog`: the sweep's goroutine is scheduled (weak fairness of `SweepStep`) and time
  passes (`[]<><<Tick>>`). Agents and administrators owe nothing.
- `OrchestratorPoller`: the timer starts the script for ever and a run goes on (weak fairness
  of `Script`), and the server finishes the unblocks it has begun (weak fairness of
  `UnblockUpdate`). Agents owe nothing.
- `TaskDispatch`: a poller polls for ever and claims what it is offered (weak fairness of
  `Polling`). Pushes and promotions may stop at any point.

`TaskLifecycle` and `Artifacts` state safety only.

## What the violations show

1. `CompletedIsFinal`: `ReleaseAgentTasks` selects and then updates without testing the
   status again (`task_repo.go:516`), so a task completed in between goes back to the queue.
2. `PendingExpiryIsDue`: the age of a pending task counts from `created_at`
   (`task_repo.go:455`), which a requeue and a release leave alone: a task that has just come
   back to the queue expires at the next sweep. `docs/agent-integration.md:48` promises
   `ACB_PENDING_TIMEOUT_MIN` minutes in pending.
3. `ListIsComplete`: read-modify-write of the artifact list (`task_repo.go:616`, `634`).

Met while reading, without a run:

- Board. Unblock compares neither the gate's task nor the task's status
  (`task_handler.go:382-387`): with another task's gate a task is resumed from any status, a
  failed one is worked on again past its budget. A block that is cut off between its
  statements (`task_handler.go:316`, `339`) leaves a blocked task without a gate, which
  nothing can unblock; the first half of `BlockedHasWay` therefore starts from `faults = 0`. A
  block with a `gate_id` that is in use ends the same way without any fault: the client chooses
  the id, it is the primary key of `gates` (`schema.go:58`), so the `INSERT` at
  `task_handler.go:339` fails after the task was blocked, the client gets a 500, and the task
  stays blocked for good (`RefusedIsStuck`). A gate that was
  approved and not resolved is not looked at again by the script. A timeout event is written
  when no row changed (`task_repo.go:486`); `FailTask` and others report a status they read
  some statements ago.
- Time. While a task is blocked its heartbeats are answered with 409, so a block longer than
  the limit expires at the first sweep after the unblock, whatever the agent does. A task
  whose assignee has no row in `agents` is never released while it is claimed, and no task
  expires while it is blocked. A sweep may meet a task that has been requeued and claimed
  again since it was selected, hence `MaxRetries[t] = 0` in `SteadyKeepsWork`.
  `ACB_TASK_TIMEOUT_CHECK_SEC` and `ACB_AGENT_STALE_CHECK_SEC` are parsed and used by nobody.
- Agents. `RegisterAgent` without a token stores the hash of the empty string, which locks
  the agent out; a second registration clears the heartbeat, and a heartbeat whose UPDATE
  fails has used up the limiter's grant, so the agent is stale while it is refused. A
  heartbeat may name any agent.
- Dispatch. Promoted children are announced by an event and pushed to nobody; released tasks
  are pushed to nobody and announced to nobody. A task that names a parent twice is pushed
  and can never be claimed. The answer to a poll ignores `assignee`. The notification of a
  retry is never sent, since the requeue has cleared the assignee. README.md says that a
  polled task is marked `dispatched`, nothing marks it, and "Max 5 retries" where the code
  sends five requests in all.
- Shutdown. `disp.Stop` waits for the wait group (`main.go:109`) while the HTTP server, which
  is stopped later (`main.go:114`), goes on serving: every handler that pushes or notifies
  (`dispatcher.go:141`, `222`) adds to the group. Under steady traffic to a slow webhook the
  wait need not end; `StopEnds` says that this traffic is the only thing that prolongs it.
- Feed. Newest rows come first (`task_event_repo.go:51`) and the largest id is saved, so a
  page that is too small loses the older rows; rows that commit late and the page of a script
  killed before its output are lost too. These are the three ways `missed` counts.
- Artifacts. A DELETE of a key of another task removes the object and leaves the entry
  (`artifact_handler.go:185`); a cleanup empties the list also of what was uploaded after it
  listed the bucket (`artifact_handler.go:244`).
- Rest. `main.go` stops the timeout service twice (110 and the `defer` in 91), and the second
  `close` panics. Uploads without RustFS are listed; a DELETE that failed half way is
  answered 404 when repeated.

## Proofs

All theorems hold for every value of the constants that satisfies the `ASSUME`s.

*TaskLifecycle.* `TypeCorrect`, `NobodyTakesOver` and `GatesMoveForward` hold for every board.
The others assume `Disciplined` and rest on `IInv`. None of the invariants is inductive alone.
The code has three unconditional `UPDATE`s: the resume of an unblock, the requeue of a
failure, the release. Without release, the first two are harmless because of what surrounds
them, and this is what the invariant says: a handler between resolving a gate and resuming its
task is the only one that handles the task, and no unsettled gate asks about it, so the task
is blocked and nothing else leads out of blocked (`OpenGateBlocks`); a handler between failing
a task and requeueing it is the only one, and nothing but it leads out of failed
(`RequeueOwnsFailure`, theorem `RequeueIsOwn`). From the second, the count it read is still
the count (`RetryRoom`), hence `RetryBound`. From both, no statement leads out of completed,
so parents stay completed once a claim has seen them (`ClaimChecked`), hence `ParentsFirst`.
`WorkHasOwner` follows because only the requeue empties the column. `sweep.phase # "release"`
is what switching release off means. The invariant step is proved conjunct by conjunct
(`GateStep`, `RequeueStep`, `RetryStep`, `ParentStep`, `OwnerStep`), each by one step per
action. `BoardImplementsContract` maps every statement to a transition of the contract or to a
stutter; it needs `IInv` where an unconditional `UPDATE` must be a transition that has a
condition.

*OrchestratorPoller.* Every step of the script and of its surroundings is a step of the board
(`BoardSteps`), so what `TaskLifecycleProofs` shows of every board is there: a gate that
exists keeps its task. Hence a list of gates that was right when it was read never names the
gate of another task (`RunsRemember`), every unblock of the script is one that a disciplined
board allows (`ScriptIsDisciplined`), and, through an instance of `TaskLifecycleProofs` with
the switch off, board and script together keep the contract (`ScriptKeepsContract`, with
`StaleRelease` off). `BlockedTasksHaveWay` proves `Resumable`, for every setting of the release:
it is inductive next to the types and `RunInv`, as a block whose gate is not inserted has its
handler, that handler inserts the gate or puts the task among the `refused`, and a gate is
resolved only by a handler that resumes. `RefusedGateBlocksForGood` adds the other half,
`RefusedIsStuck`, with release off: what leads out of blocked is a handler of the task or one
of its unsettled gates; by `OpenGateBlocks` a task has no other one while its block is at the
`INSERT`, so a refusal leaves none (`RefusedGetsStuck`), and no statement makes a new one for a
task that is blocked (`StuckStays`).

*TaskDispatch.* A failing job waits in `failed` until it requeues, so no step leads out of
completed, and `parents` is written only with the row: this is `Stable`, and from it what
was read one query at a time stays true (`DispatchInvariant`, `PromotionsAreTrue`).
`CountOfParents` shows, with `FiniteSetTheorems`, that the number of completed rows equals
the length of the list exactly if all of them are completed and none is repeated; therefore
`WhatIsHeardIsClaimable`.

`OffersAreBest` needs `PollsMissNothing`: without faults a task that was claimable when the
rows were listed is either still to be checked or among those found, and by `Stable` and
`CountOfParents` it passes its check whenever that comes. For `NobodyHasToPoll`,
`ReadyIsHeard` is inductive next to `IInv` as it stands (`ToldHandler`, `ToldContinue`): a
creation, a requeue or the completion of a parent starts a goroutine that tells of the task;
`DispatchNewTask` stops only at a parent that is not completed, whose completion starts a
`PromoteChildren` that finds the task by its parents column; and what `PromoteChildren` drops
it has announced, or some parent is open still. `at` counts from 1, which is what makes the
parent that is read one of the list.

*WebhookDispatch.* `IInv` says what a goroutine holds at each of its steps (`JobsFit`), where
open deliveries are (`PlacesFit`), and that a delivery nobody asked for was never sent; with
`NoLeak` and `AttemptsCount` this is inductive. `OnePlace` counts places and cannot follow a
delivery from hand to hand, so `PlacesFit` says the same without numbers, and `PlacesCounted`
leads back. The step is proved in two halves. `EveryStepMoves`: a step of a goroutine moves
its own job, to one that fits, and changes semaphore and wait group by what the job counted
for before and after (`JobMoves`), from which `NoLeak` follows at once (`CountStep`).
`EveryStepFlows`: seen from deliveries and queues it does one of six things (`Flows`): it
holds what it had (`Stays`), takes a new delivery (`Asks`), drops its own (`Settles`), appends
it to a queue (`Queues`), pops one (`Picks`), or throws entries away (`Drops`). Each of them
keeps types, places and attempts whatever action it came from (`StaysKeeps` to `DropsKeeps`).
That a settled name is nowhere, neither in hand nor in a queue, is what lets `Asks` use it
again. The end of the process and the phases of shutdown are separate steps (`DieKeeps`,
`MainMoves`, `PhaseKeeps`). From `IInv`: `NoLeaks`, `InOnePlace`, `AttemptsAreCounted`;
`NoRetryAfterStop`, since a drainer is in the wait group and `Stop` waits for zero;
`QueuesBounded`, which assumes that `LTRIM` does not fail: a trim leaves `MaxQueue - 1`
entries, those between trim and push are first senders with a token or drainers
(`PushingBounded`), and any other step trades an entry for a pusher at best (`RoomKept`); and
`ContractKept`, where every flow is a step of `DeliveryContract` or a stutter. The limits are
assumed to be positive and `MaxQueue` at least 2, as in the code, deliveries and drainers
finitely many.

*Watchdog.* `RefusedIsFresh` is why the limiter does no harm: while it refuses a key the row
is as fresh as its last grant, so a heartbeat that is refused costs at most one window
(`LiveAgentsStay`, by `BeatsInTime`). `PulseIsFresh` is the same for tasks, by `PulseInTime`.
`SelectedIsLost` says that a row a sweep has selected is not in the hands of a steady agent
when its UPDATE comes: a task that is not requeued by a failure returns to the queue only
by the sweep itself, and nothing else ends what made it selected. `SteadyAgentsKeepWork`
follows for every step of the sweep. The last two parts assume `QuickAnswers`.

*EventFeed.* `FeedInvariant` and `FeedSkipsNothing` have no hypotheses: any page size, any
order of commits, any number of runs that fail and are killed anywhere. `NoSkip` alone is not
inductive: everything up to the cursor that a run was given must be accounted for whatever
cursor is stored by now, and its page must not have a gap above that cursor but for what is
`missed` (`PagesHaveNoGap`). `PageOrCut` is where the page limit enters: every row above a
cursor is on the page or cut off.

*Artifacts.* `NoPhantom` needs what requests in flight hold (`RequestsHonest`): a stale list
that will be written back names only objects or keys whose deletion was begun. `InSync`
needs that a request of a task in `Alone` is the only one, that the list it read is still the
list, and that only its own key may differ (`AloneInStep`), that nobody else touches its
keys (`OwnKeys`), and that an upload's key is new: what was never generated is neither in the
bucket nor on a list (`UnusedNowhere`).

Model-checked only: the liveness properties `AllReported`, `NoneForgotten`, `StopEnds`,
`PendingEnds`, `HungTaskEnds`, `DeadAgentLetsGo`, `ClaimableIsClaimed` and
`AnsweredIsResumed`, since liveness under fairness is out of the prover's reach. Every
invariant and action property of a passing run, and every refinement, is a theorem.

## Not modelled

- Reads that only format (lists, search, graph, dashboard, health, router): nothing is
  decided by them.
- The Redis publisher: it publishes after the last statement, drops errors, and nothing in
  the repository subscribes.
- The URL validator with its DNS pin cache: its verdict is `Refuse` in `WebhookDispatch`, a
  free choice at every attempt. Signatures, hashes and the encryption of secrets: correct.
- Configuration (read once, constants here), provisioning, simulation and test scripts.
- Migrations: one process runs them in order, each in a transaction, before it serves.
- The second `TimeoutService.Stop`, the channel of `Start` and `srv.Shutdown`: sequential
  code of `main`.
- The history in `task_events`: `TaskLifecycle` keeps the newest row, `EventFeed` their ids.
- Whom a status notification goes to; how it is sent is a notice in `WebhookDispatch`.

## Plan

Done: the modules above, in the order `TaskContract`, `TaskLifecycle`, `EventFeed`,
`WebhookDispatch`, `Artifacts`, `AgentRegistry` and `Watchdog`, `DeliveryContract`,
`TaskDispatch`, `OrchestratorPoller`, and the proofs beside them.

Next:

1. `AuditTrail`: the whole `task_events` history against the statuses, and the statuses that
   notifications report.
2. `Shutdown`: signal, dispatcher, timeout service, HTTP server, clients in the order of
   `main`.
