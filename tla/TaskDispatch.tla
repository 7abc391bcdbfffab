---------------------------- MODULE TaskDispatch ----------------------------
(***************************************************************************)
(* How a task finds its agent in acb-go.  A new or requeued task is pushed *)
(* to the webhooks of agents that match (Dispatcher.DispatchNewTask); when *)
(* its last parent is completed an event announces it (PromoteChildren);   *)
(* and agents ask for the best task there is (FindNextForAgent).  All      *)
(* three read the tasks table row by row while handlers change it, and     *)
(* none of them marks the task: what decides is the claim.                 *)
(*                                                                         *)
(* Here parents are lists, as in the table.  The statements of claim and   *)
(* fail are not taken apart again, TaskLifecycle does that; gates and the  *)
(* release of stale agents are left out, as is the way of a push to the    *)
(* webhook, which is WebhookDispatch.  Two goroutines that are at the same *)
(* point of the same push are one: what they do is the same.               *)
(***************************************************************************)
EXTENDS Integers, Sequences, FiniteSets

CONSTANTS
    Tasks,
    Agents,      \* names in the agents table
    NoTask,
    ParentLists, \* ParentLists[t]: the lists of parents t may be created with
    LooksLike,   \* <<p, t>>: p's id occurs in t's parents column without being one
    Required,    \* Required[t]: t's required_skills
    Skills,      \* Skills[a]: a's skills
    Hooked,      \* the agents with a webhook
    Pollers,     \* the agents that ask for tasks
    Priority,    \* Priority[t]: the lower the more urgent
    MaxRetries,  \* MaxRetries[t]: t's max_retries
    Found,       \* Found[t]: the statuses t may have in the table as the process starts
    MaxFaults    \* bound: statements that fail, and crashes

ASSUME ParentListsType == \A t \in Tasks : ParentLists[t] \subseteq Seq(Tasks)
ASSUME LooksLikeType == LooksLike \subseteq Tasks \X Tasks
ASSUME PriorityType == Priority \in [Tasks -> Int]
ASSUME RetriesType == MaxRetries \in [Tasks -> Nat]
ASSUME HookedType == Hooked \subseteq Agents /\ Pollers \subseteq Agents
ASSUME FoundType ==
    \A t \in Tasks : Found[t] \subseteq {"absent", "claimed", "in_progress", "completed", "failed"}
ASSUME NoTaskIsNew == NoTask \notin Tasks
ASSUME MaxFaultsType == MaxFaults \in Nat

VARIABLES
    status,      \* tasks.status
    parents,     \* tasks.parents
    retryCount,  \* tasks.retry_count
    running,     \* handlers and goroutines between two statements
    poll,        \* poll[a]: where a's GET /tasks/dispatch stands, and its answer
    pushed,      \* <<a, t>>: t was pushed to a since it last became pending
    announced,   \* the tasks with a ParentsCompleted event since then
    faults       \* faults so far

vars == <<status, parents, retryCount, running, poll, pushed, announced, faults>>

TaskStatus == {"absent", "pending", "claimed", "in_progress", "completed", "failed"}

\* created: CreateTask or FailTask before it reads the task it has made pending.
\* failed: FailTask before its requeue.  dispatch: DispatchNewTask before it reads
\* parent number at.  promote, kids: CompleteTask before it queries the children,
\* before it checks the ones it found.
Job == [pc : {"created", "failed", "dispatch", "promote", "kids"},
        task : Tasks, at : Nat \ {0}, kids : SUBSET Tasks]

NewJob(pc, t) == [pc |-> pc, task |-> t, at |-> 1, kids |-> {}]

\* ready is history: what a could have claimed when the pending tasks were listed.
Poll == [pc : {"idle", "check", "answered"}, todo : SUBSET Tasks, found : SUBSET Tasks,
         offer : Tasks \cup {NoTask}, ready : SUBSET Tasks]
NoPoll == [pc |-> "idle", todo |-> {}, found |-> {}, offer |-> NoTask, ready |-> {}]

Init ==
    /\ status \in [Tasks -> TaskStatus] /\ \A t \in Tasks : status[t] \in Found[t]
    /\ parents = [t \in Tasks |-> <<>>]
    /\ retryCount = [t \in Tasks |-> 0]
    /\ running = {}
    /\ poll = [a \in Pollers |-> NoPoll]
    /\ pushed = {}
    /\ announced = {}
    /\ faults = 0

-----------------------------------------------------------------------------
(* Repository *)

\* The number of rows of the list that are completed: a row counts once, however
\* often the list names it.
CompletedRows(list) ==
    Cardinality({p \in Tasks : status[p] = "completed" /\ \E i \in DOMAIN list : list[i] = p})

AreParentsCompleted(list) == CompletedRows(list) = Len(list)

\* parents LIKE '%id%'
Matches(p, t) == (\E i \in DOMAIN parents[t] : parents[t][i] = p) \/ <<p, t>> \in LooksLike

Skilled(a, t) == Required[t] \subseteq Skills[a]

\* FindMatchingAgents, less those without webhook
FindMatchingAgents(t) == {a \in Hooked : Skilled(a, t)}

\* What ClaimTask asks of a pending task and of the agent.
Claimable(a, t) ==
    /\ status[t] = "pending"
    /\ AreParentsCompleted(parents[t])
    /\ Skilled(a, t)

-----------------------------------------------------------------------------
(* Handlers *)

Move(t, from, to) ==
    /\ status[t] = from
    /\ status' = [status EXCEPT ![t] = to]

\* t becomes pending; nobody has heard of that yet.
Unheard(t) ==
    /\ pushed' = {push \in pushed : push[2] # t}
    /\ announced' = announced \ {t}

CreateInsert(t) ==
    /\ Move(t, "absent", "pending")
    /\ \E list \in ParentLists[t] : parents' = [parents EXCEPT ![t] = list]
    /\ running' = running \cup {NewJob("created", t)}
    /\ UNCHANGED <<retryCount, poll, pushed, announced, faults>>

\* The handler reads the task back and starts DispatchNewTask.
StartDispatch(j) ==
    /\ j.pc = "created"
    /\ running' = (running \ {j}) \cup {NewJob("dispatch", j.task)}
    /\ UNCHANGED <<status, parents, retryCount, poll, pushed, announced, faults>>

\* Any agent may claim any task that it qualifies for, without asking first.
ClaimTask(a, t) ==
    /\ Claimable(a, t)
    /\ status' = [status EXCEPT ![t] = "claimed"]
    /\ UNCHANGED <<parents, retryCount, running, poll, pushed, announced, faults>>

StartTask(t) ==
    /\ Move(t, "claimed", "in_progress")
    /\ UNCHANGED <<parents, retryCount, running, poll, pushed, announced, faults>>

CompleteUpdate(t) ==
    /\ Move(t, "in_progress", "completed")
    /\ running' = running \cup {NewJob("promote", t)}
    /\ UNCHANGED <<parents, retryCount, poll, pushed, announced, faults>>

FailUpdate(t) ==
    /\ Move(t, "in_progress", "failed")
    /\ running' = running \cup {NewJob("failed", t)}
    /\ UNCHANGED <<parents, retryCount, poll, pushed, announced, faults>>

\* Fault: FailTask forgets to dispatch the task it has requeued.
FailRequeueQuietly(j) ==
    /\ j.pc = "failed"
    /\ running' = running \ {j}
    /\ IF retryCount[j.task] < MaxRetries[j.task]
       THEN /\ status' = [status EXCEPT ![j.task] = "pending"]
            /\ retryCount' = [retryCount EXCEPT ![j.task] = @ + 1]
            /\ Unheard(j.task)
       ELSE UNCHANGED <<status, retryCount, pushed, announced>>
    /\ UNCHANGED <<parents, poll, faults>>

\* The rest of FailTask: the budget, the requeue, and the read of the task.
FailRequeue(j) ==
    /\ j.pc = "failed"
    /\ IF retryCount[j.task] < MaxRetries[j.task]
       THEN /\ status' = [status EXCEPT ![j.task] = "pending"]
            /\ retryCount' = [retryCount EXCEPT ![j.task] = @ + 1]
            /\ running' = (running \ {j}) \cup {NewJob("created", j.task)}
            /\ Unheard(j.task)
       ELSE /\ running' = running \ {j}
            /\ UNCHANGED <<status, retryCount, pushed, announced>>
    /\ UNCHANGED <<parents, poll, faults>>

\* A sweep of the timeout service; pending tasks expire like started ones.
ExpireTask(t) ==
    /\ \E from \in {"pending", "in_progress"} : Move(t, from, "failed")
    /\ UNCHANGED <<parents, retryCount, running, poll, pushed, announced, faults>>

-----------------------------------------------------------------------------
(* DispatchNewTask: one query per entry of the list, then one for the agents *)

\* Fault: a parent that has failed does not hold its children back.
DispatchParentFailed(j) ==
    /\ j.pc = "dispatch" /\ j.at <= Len(parents[j.task])
    /\ IF status[parents[j.task][j.at]] \in {"completed", "failed"}
       THEN running' = (running \ {j}) \cup {[j EXCEPT !.at = @ + 1]}
       ELSE running' = running \ {j}
    /\ UNCHANGED <<status, parents, retryCount, poll, pushed, announced, faults>>

DispatchParent(j) ==
    /\ j.pc = "dispatch" /\ j.at <= Len(parents[j.task])
    /\ IF status[parents[j.task][j.at]] = "completed"
       THEN running' = (running \ {j}) \cup {[j EXCEPT !.at = @ + 1]}
       ELSE running' = running \ {j}
    /\ UNCHANGED <<status, parents, retryCount, poll, pushed, announced, faults>>

DispatchPush(j) ==
    /\ j.pc = "dispatch" /\ j.at > Len(parents[j.task])
    /\ running' = running \ {j}
    /\ pushed' = pushed \cup (FindMatchingAgents(j.task) \X {j.task})
    /\ UNCHANGED <<status, parents, retryCount, poll, announced, faults>>

-----------------------------------------------------------------------------
(* PromoteChildren: the pending tasks whose parents column contains the id, *)
(* then one check for each                                                  *)

PromoteQuery(j) ==
    /\ j.pc = "promote"
    /\ LET kids == {c \in Tasks : Matches(j.task, c) /\ status[c] = "pending"}
       IN  running' = (running \ {j}) \cup
              (IF kids = {} THEN {} ELSE {[j EXCEPT !.pc = "kids", !.kids = kids]})
    /\ UNCHANGED <<status, parents, retryCount, poll, pushed, announced, faults>>

\* The goroutine after c.
KidsAfter(j, c) == IF j.kids = {c} THEN {} ELSE {[j EXCEPT !.kids = @ \ {c}]}

\* Fault: a child is announced because one of its parents is completed.
PromoteChildUnchecked(j, c) ==
    /\ j.pc = "kids" /\ c \in j.kids
    /\ announced' = announced \cup {c}
    /\ running' = (running \ {j}) \cup KidsAfter(j, c)
    /\ UNCHANGED <<status, parents, retryCount, poll, pushed, faults>>

PromoteChild(j, c) ==
    /\ j.pc = "kids" /\ c \in j.kids
    /\ announced' = IF AreParentsCompleted(parents[c]) THEN announced \cup {c} ELSE announced
    /\ running' = (running \ {j}) \cup KidsAfter(j, c)
    /\ UNCHANGED <<status, parents, retryCount, poll, pushed, faults>>

-----------------------------------------------------------------------------
(* FindNextForAgent: List, one query per task with parents, then the choice *)

PollList(a) ==
    /\ poll[a].pc = "idle"
    /\ poll' = [poll EXCEPT ![a] =
          [NoPoll EXCEPT !.pc = "check", !.todo = {t \in Tasks : status[t] = "pending"},
                         !.ready = {t \in Tasks : Claimable(a, t)}]]
    /\ UNCHANGED <<status, parents, retryCount, running, pushed, announced, faults>>

\* Fault: parents are read one by one, as in DispatchNewTask, not counted.
PollCheckEach(a, t) ==
    /\ poll[a].pc = "check" /\ t \in poll[a].todo
    /\ LET fits == /\ \A i \in DOMAIN parents[t] : status[parents[t][i]] = "completed"
                   /\ Skilled(a, t)
       IN  poll' = [poll EXCEPT ![a].todo = @ \ {t},
                                ![a].found = IF fits THEN @ \cup {t} ELSE @]
    /\ UNCHANGED <<status, parents, retryCount, running, pushed, announced, faults>>

PollCheck(a, t) ==
    /\ poll[a].pc = "check" /\ t \in poll[a].todo
    /\ LET fits == AreParentsCompleted(parents[t]) /\ Skilled(a, t)
       IN  poll' = [poll EXCEPT ![a].todo = @ \ {t},
                                ![a].found = IF fits THEN @ \cup {t} ELSE @]
    /\ UNCHANGED <<status, parents, retryCount, running, pushed, announced, faults>>

\* Fault: the highest number wins.
BestHighest(found) == {t \in found : \A u \in found : Priority[t] >= Priority[u]}

\* The lowest number wins; among equals the order of the rows decides.
Best(found) == {t \in found : \A u \in found : Priority[t] <= Priority[u]}

PollAnswer(a) ==
    /\ poll[a].pc = "check" /\ poll[a].todo = {}
    /\ \E t \in IF poll[a].found = {} THEN {NoTask} ELSE Best(poll[a].found) :
          poll' = [poll EXCEPT ![a].pc = "answered", ![a].offer = t, ![a].found = {}]
    /\ UNCHANGED <<status, parents, retryCount, running, pushed, announced, faults>>

\* The agent claims what it was offered: it gets it, or 409 because it is late.
ClaimOffer(a) ==
    /\ poll[a].pc = "answered"
    /\ poll' = [poll EXCEPT ![a] = NoPoll]
    /\ LET t == poll[a].offer
       IN  IF t # NoTask /\ Claimable(a, t)
           THEN status' = [status EXCEPT ![t] = "claimed"]
           ELSE UNCHANGED status
    /\ UNCHANGED <<parents, retryCount, running, pushed, announced, faults>>

-----------------------------------------------------------------------------
(* Failures *)

MayFault == faults < MaxFaults /\ faults' = faults + 1

\* The next statement of a handler or goroutine fails, and it ends.
Abandon(j) ==
    /\ MayFault
    /\ running' = running \ {j}
    /\ UNCHANGED <<status, parents, retryCount, poll, pushed, announced>>

\* The parents query of a poll fails: the task is passed over.
PollSkip(a, t) ==
    /\ MayFault
    /\ poll[a].pc = "check" /\ t \in poll[a].todo
    /\ poll' = [poll EXCEPT ![a].todo = @ \ {t}]
    /\ UNCHANGED <<status, parents, retryCount, running, pushed, announced>>

Crash ==
    /\ MayFault
    /\ running' = {}
    /\ poll' = [a \in Pollers |-> NoPoll]
    /\ UNCHANGED <<status, parents, retryCount, pushed, announced>>

-----------------------------------------------------------------------------

Handler ==
    \E t \in Tasks :
        \/ CreateInsert(t) \/ StartTask(t) \/ CompleteUpdate(t) \/ FailUpdate(t)
        \/ ExpireTask(t)
        \/ \E a \in Agents : ClaimTask(a, t)

Continue(j) ==
    \/ StartDispatch(j) \/ DispatchParent(j) \/ DispatchPush(j)
    \/ FailRequeue(j) \/ PromoteQuery(j)
    \/ \E c \in Tasks : PromoteChild(j, c)

Polling(a) ==
    \/ PollList(a) \/ PollAnswer(a) \/ ClaimOffer(a)
    \/ \E t \in Tasks : PollCheck(a, t)

Next ==
    \/ Handler
    \/ \E j \in running : Continue(j) \/ Abandon(j)
    \/ \E a \in Pollers : Polling(a) \/ \E t \in Tasks : PollSkip(a, t)
    \/ Crash

Spec == Init /\ [][Next]_vars

\* Pollers ask for work for ever and claim what they are offered.
FairSpec == Spec /\ \A a \in Pollers : WF_vars(Polling(a))

-----------------------------------------------------------------------------
(* Correctness *)

\* Every column, goroutine and answer holds a value of its type.
TypeOK ==
    /\ status \in [Tasks -> TaskStatus]
    /\ parents \in [Tasks -> Seq(Tasks)]
    /\ retryCount \in [Tasks -> Nat]
    /\ running \subseteq Job
    /\ poll \in [Pollers -> Poll]
    /\ pushed \subseteq Agents \X Tasks
    /\ announced \subseteq Tasks
    /\ faults \in 0..MaxFaults

Repeats(t) == \E i, k \in DOMAIN parents[t] : i # k /\ parents[t][i] = parents[t][k]

ParentsDone(t) == \A i \in DOMAIN parents[t] : status[parents[t][i]] = "completed"

\* Whoever claims the task it was offered, or one it was pushed, is not turned
\* away for its parents or its skills: only somebody faster can be in the way,
\* although both looked at the parents one by one and some time ago.  A push of
\* a task that names a parent twice is the exception, no claim of it succeeds.
HeardIsClaimable ==
    /\ \A a \in Pollers :
          LET t == poll[a].offer
          IN  t # NoTask => status[t] # "pending" \/ Claimable(a, t)
    /\ \A push \in pushed :
          LET t == push[2]
          IN  status[t] # "pending" \/ Repeats(t) \/ Claimable(push[1], t)

\* The answer to a poll is as urgent as anything that its agent could have
\* claimed when the tasks were listed, and there is one if there was a task.
OfferIsBest ==
    \A a \in Pollers :
        poll[a].pc = "answered" /\ faults = 0 =>
            IF poll[a].offer = NoTask THEN poll[a].ready = {}
            ELSE \A u \in poll[a].ready : Priority[poll[a].offer] <= Priority[u]

\* A ParentsCompleted event is only written for a task all of whose parents are
\* completed, although PromoteChildren picked it some statements earlier and
\* because its parents column mentions one of them.
PromotionIsTrue == \A t \in announced : status[t] # "absent" /\ ParentsDone(t)

\* What a handler or goroutine has seen so far is still so when it goes on: a task
\* that failed waits for its requeue, and no parent found completed is anything else.
JobKnows(j) ==
    /\ j.pc = "failed" => j = NewJob("failed", j.task) /\ status[j.task] = "failed"
    /\ j.pc \in {"created", "dispatch"} => status[j.task] # "absent"
    /\ j.pc = "dispatch" =>
          \A i \in DOMAIN parents[j.task] :
              i < j.at => status[parents[j.task][i]] = "completed"
    /\ \A c \in j.kids : status[c] # "absent"

JobsKnow == \A j \in running : JobKnows(j)

\* t, found when all its parents were completed, a list without repetition.
FitsStill(a, t) ==
    status[t] # "absent" /\ ParentsDone(t) /\ ~Repeats(t) /\ Skilled(a, t)

PollsKnow ==
    \A a \in Pollers :
        /\ \A t \in poll[a].todo : status[t] # "absent"
        /\ \A t \in poll[a].found : FitsStill(a, t)
        /\ poll[a].offer # NoTask => FitsStill(a, poll[a].offer)

PushesKnow ==
    \A push \in pushed :
        status[push[2]] # "absent" /\ ParentsDone(push[2]) /\ Skilled(push[1], push[2])

\* Without faults a poll passes over no task that its agent could have claimed
\* when the tasks were listed: such a task is still to be checked or was found,
\* and when it is checked it fits as it did then.
PollMissesNothing(a) ==
    /\ poll[a].pc = "check" =>
          \A u \in poll[a].ready : u \in poll[a].todo \cup poll[a].found /\ FitsStill(a, u)
    /\ poll[a].pc = "answered" =>
          IF poll[a].offer = NoTask THEN poll[a].ready = {}
          ELSE \A u \in poll[a].ready : Priority[poll[a].offer] <= Priority[u]

PollsMissNothing == faults = 0 => \A a \in Pollers : PollMissesNothing(a)

\* Inductive: what anybody has read of a task's parents and skills stays true,
\* since a task never leaves completed and its parents never change.
IInv ==
    /\ TypeOK /\ JobsKnow /\ PollsKnow /\ PushesKnow /\ PromotionIsTrue
    /\ PollsMissNothing

\* Something that may still tell the agents of t.
TellsOf(j, t) ==
    \/ j.task = t /\ j.pc \in {"created", "dispatch"}
    \/ j.pc = "promote" /\ Matches(j.task, t)
    \/ j.pc = "kids" /\ t \in j.kids

\* Without faults nobody has to poll: a pending task whose parents are done was
\* pushed to every matching agent or announced, whether its creation, its requeue
\* or the completion of any of its parents came last or all at the same time.
ReadyIsHeard ==
    \A t \in Tasks :
        /\ faults = 0
        /\ status[t] = "pending" /\ ParentsDone(t) /\ ~Repeats(t)
        /\ \A j \in running : ~TellsOf(j, t)
        => t \in announced \/ FindMatchingAgents(t) \X {t} \subseteq pushed

\* A task that a poller may claim does not stay pending: no task that comes first
\* and cannot be claimed is offered again and again.
ClaimableIsClaimed ==
    \A t \in Tasks : (\E a \in Pollers : Claimable(a, t)) ~> status[t] # "pending"
=============================================================================
