-------------------------- MODULE WebhookDispatch --------------------------
(***************************************************************************)
(* The webhook dispatcher (internal/dispatcher/dispatcher.go): the         *)
(* goroutines that send a webhook for the first time, the retry queues in  *)
(* Redis, the drainers that a ticker starts for them, the semaphore and    *)
(* the wait group, and the order in which main.go shuts all of it down.    *)
(*                                                                         *)
(* A delivery is one push the handlers ask for: a new task, or a status    *)
(* change, for one agent.  URLs, payloads and signatures are left out; a   *)
(* delivery that cannot be built is refused.  Time is left out: a backoff  *)
(* or an HTTP request takes as long as it takes.  Redis is configured, and *)
(* runs a command it was sent at most once, and not after its client has   *)
(* given up waiting for the reply.                                         *)
(***************************************************************************)
EXTENDS Naturals, Sequences, FiniteSets

CONSTANTS
    Deliveries,  \* names of pushes; the name of a settled one may be used again
    Notices,     \* those that report a status change and are never retried
    Agents,      \* agents with a webhook
    Target,      \* Target[d]: the agent d is for
    Drainers,    \* bound: goroutines that may drain retry queues at a time
    Serves,      \* Serves[k]: the agent whose queue drainer k empties
    NoDelivery,
    Slots,       \* capacity of the semaphore (10)
    MaxRetries,  \* maxRetries (5)
    MaxQueue,    \* maxRetryQueueSize (1000)
    TrimFails    \* the LTRIM command may fail, which the code does not look at

ASSUME TargetType == Target \in [Deliveries -> Agents]
ASSUME ServesType == Serves \in [Drainers -> Agents]
ASSUME NoticesType == Notices \subseteq Deliveries
ASSUME BoundsType == Slots \in Nat \ {0} /\ MaxRetries \in Nat \ {0} /\ MaxQueue \in Nat \ {0, 1}
ASSUME SwitchType == TrimFails \in BOOLEAN
ASSUME NamesDiffer == Deliveries \cap Drainers = {} /\ NoDelivery \notin Deliveries
ASSUME FinitelyMany == IsFiniteSet(Deliveries) /\ IsFiniteSet(Drainers)

VARIABLES
    phase,    \* where main.go stands
    job,      \* job[g]: what goroutine g does; d itself is the first sender of d
    queue,    \* queue[a]: the Redis list of agent a
    sem,      \* tokens taken from the semaphore
    wg,       \* the wait group's counter
    outcome,  \* outcome[d]: what has become of delivery d
    posts     \* posts[d]: requests sent for d

vars == <<phase, job, queue, sem, wg, outcome, posts>>

Goroutines == Deliveries \cup Drainers

\* retryEntry
Entry == [d : Deliveries, attempt : 1..MaxRetries]

\* The next step of a goroutine: of a first sender that has not reached wg.Add
\* or waits for the semaphore; of a drainer before LPOP, with an LPOP sent when Stop
\* cancelled its context, or in its backoff; of both before the request, LTRIM and
\* RPUSH.
Job == [pc : {"off", "spawned", "waiting", "pop", "reply", "sleep", "send", "trim", "push"},
        d : Deliveries \cup {NoDelivery}, attempt : 0..MaxRetries]

Free(pc) == [pc |-> pc, d |-> NoDelivery, attempt |-> 0]
Off == Free("off")

\* Whether a delivery is asked for, under way, delivered, or why it never will be.
Outcome == {"none", "open", "delivered", "failed", "refused", "stale", "gaveUp", "trimmed", "lost"}

Init ==
    /\ phase = "up"
    /\ job = [g \in Goroutines |-> Off]
    /\ queue = [a \in Agents |-> <<>>]
    /\ sem = 0
    /\ wg = 1                    \* processRetryQueue
    /\ outcome = [d \in Deliveries |-> "none"]
    /\ posts = [d \in Deliveries |-> 0]

-----------------------------------------------------------------------------
(* Steps all goroutines share *)

Working(g) == job[g].d # NoDelivery
Settle(d, o) == outcome' = [outcome EXCEPT ![d] = o]
Proceed(g, pc) == job' = [job EXCEPT ![g].pc = pc]

\* Fault: a first sender ends without wg.Done.
ReturnUncounted(g) ==
    IF g \in Deliveries
    THEN job' = [job EXCEPT ![g] = Off] /\ sem' = sem - 1 /\ UNCHANGED wg
    ELSE job' = [job EXCEPT ![g] = Free("pop")] /\ UNCHANGED <<sem, wg>>

\* The end of sendWebhook in g: a first sender gives its token back and is
\* done, a drainer goes on with its queue.
Return(g) ==
    IF g \in Deliveries
    THEN job' = [job EXCEPT ![g] = Off] /\ sem' = sem - 1 /\ wg' = wg - 1
    ELSE job' = [job EXCEPT ![g] = Free("pop")] /\ UNCHANGED <<sem, wg>>

-----------------------------------------------------------------------------
(* First attempts *)

\* DispatchNewTask and NotifyStatusChange run in goroutines of their own.  The HTTP
\* server is shut down after the dispatcher: while Stop waits, and after it, requests
\* go on asking for pushes, without end.
Dispatch(d) ==
    /\ phase # "down"
    /\ outcome[d] # "open"
    /\ Settle(d, "open")
    /\ posts' = [posts EXCEPT ![d] = 0]
    /\ job' = [job EXCEPT ![d] = [pc |-> "spawned", d |-> d, attempt |-> 0]]
    /\ UNCHANGED <<phase, queue, sem, wg>>

\* wg.Add(1), inside the goroutine that was started
Enter(d) ==
    /\ job[d].pc = "spawned"
    /\ Proceed(d, "waiting")
    /\ wg' = wg + 1
    /\ UNCHANGED <<phase, queue, sem, outcome, posts>>

\* Fault: one token too few.
AcquireOffByOne(d) ==
    /\ job[d].pc = "waiting"
    /\ sem < Slots - 1
    /\ sem' = sem + 1
    /\ Proceed(d, "send")
    /\ UNCHANGED <<phase, queue, wg, outcome, posts>>

Acquire(d) ==
    /\ job[d].pc = "waiting"
    /\ sem < Slots
    /\ sem' = sem + 1
    /\ Proceed(d, "send")
    /\ UNCHANGED <<phase, queue, wg, outcome, posts>>

-----------------------------------------------------------------------------
(* sendWebhook, sendStatusWebhook and enqueueRetry, in any goroutine *)

\* Fault: the early return of a first sender keeps its token.
RefuseLeaks(g) ==
    /\ job[g].pc = "send"
    /\ Settle(job[g].d, "refused")
    /\ IF g \in Deliveries
       THEN job' = [job EXCEPT ![g] = Off] /\ wg' = wg - 1 /\ UNCHANGED sem
       ELSE Return(g)
    /\ UNCHANGED <<phase, queue, posts>>

\* The URL is not valid or the payload cannot be built: no request, no retry.
Refuse(g) ==
    /\ job[g].pc = "send"
    /\ Settle(job[g].d, "refused")
    /\ Return(g)
    /\ UNCHANGED <<phase, queue, posts>>

Deliver(g) ==
    /\ job[g].pc = "send"
    /\ posts' = [posts EXCEPT ![job[g].d] = @ + 1]
    /\ Settle(job[g].d, "delivered")
    /\ Return(g)
    /\ UNCHANGED <<phase, queue>>

\* Fault: notices are retried like pushes.
PostFailsAlike(g) ==
    /\ job[g].pc = "send"
    /\ posts' = [posts EXCEPT ![job[g].d] = @ + 1]
    /\ Proceed(g, "trim")
    /\ UNCHANGED <<phase, queue, sem, wg, outcome>>

\* An error or a status of 300 and above: the push of a task is to be retried.
PostFails(g) ==
    /\ job[g].pc = "send"
    /\ posts' = [posts EXCEPT ![job[g].d] = @ + 1]
    /\ IF job[g].d \in Notices
       THEN Settle(job[g].d, "failed") /\ Return(g)
       ELSE Proceed(g, "trim") /\ UNCHANGED <<sem, wg, outcome>>
    /\ UNCHANGED <<phase, queue>>

QueueOf(g) == queue[Target[job[g].d]]

\* Fault: the bounds of LTRIM keep every entry.
TrimNothing(g) ==
    /\ job[g].pc = "trim"
    /\ Proceed(g, "push")
    /\ UNCHANGED <<phase, queue, sem, wg, outcome, posts>>

\* LTRIM key -(MaxQueue - 1) -1: the oldest entries give way.
Trim(g) ==
    /\ job[g].pc = "trim"
    /\ LET q == QueueOf(g)
           surplus == IF Len(q) < MaxQueue THEN 0 ELSE Len(q) - (MaxQueue - 1)
       IN  \/ /\ queue' = [queue EXCEPT ![Target[job[g].d]] = SubSeq(q, surplus + 1, Len(q))]
              /\ outcome' = [d \in Deliveries |->
                               IF \E i \in 1..surplus : q[i].d = d THEN "trimmed" ELSE outcome[d]]
           \/ TrimFails /\ UNCHANGED <<queue, outcome>>
    /\ Proceed(g, "push")
    /\ UNCHANGED <<phase, sem, wg, posts>>

\* Fault: the entry keeps the number of the attempt that failed.
PushSameAttempt(g) ==
    /\ job[g].pc = "push"
    /\ queue' = [queue EXCEPT ![Target[job[g].d]] =
                    Append(@, [d |-> job[g].d, attempt |-> job[g].attempt])]
    /\ Return(g)
    /\ UNCHANGED <<phase, outcome, posts>>

\* RPUSH; if it fails the error is logged and the delivery forgotten.
Push(g) ==
    /\ job[g].pc = "push"
    /\ \/ /\ queue' = [queue EXCEPT ![Target[job[g].d]] =
                          Append(@, [d |-> job[g].d, attempt |-> job[g].attempt + 1])]
          /\ UNCHANGED outcome
       \/ Settle(job[g].d, "lost") /\ UNCHANGED queue
    /\ Return(g)
    /\ UNCHANGED <<phase, posts>>

-----------------------------------------------------------------------------
(* The ticker and the drainers *)

\* Fault: the wait group does not know of the drainers.
TickUncounted(k) ==
    /\ phase \in {"up", "stopping"}
    /\ queue[Serves[k]] # <<>>
    /\ job[k] = Off
    /\ job' = [job EXCEPT ![k] = Free("pop")]
    /\ UNCHANGED <<phase, queue, sem, wg, outcome, posts>>

\* processAllRetryQueues, for one key: wg.Add(1), then the goroutine starts.
Tick(k) ==
    /\ phase \in {"up", "stopping"}
    /\ queue[Serves[k]] # <<>>
    /\ job[k] = Off
    /\ job' = [job EXCEPT ![k] = Free("pop")]
    /\ wg' = wg + 1
    /\ UNCHANGED <<phase, queue, sem, outcome, posts>>

\* The LPOP of a drainer is sent before Stop cancels the context: what Redis does
\* with it, and the reply, are still to come.
LPopSent(k) == job[k].pc = "reply" \/ (job[k].pc = "pop" /\ phase = "up")

\* Faults: one attempt too many; an entry that is read and stays in the list.
PopOnceMore(k) ==
    /\ LPopSent(k)
    /\ queue[Serves[k]] # <<>>
    /\ queue' = [queue EXCEPT ![Serves[k]] = Tail(@)]
    /\ LET entry == Head(queue[Serves[k]])
       IN  IF entry.attempt > MaxRetries
           THEN Settle(entry.d, "gaveUp") /\ job' = [job EXCEPT ![k] = Free("pop")]
           ELSE /\ job' = [job EXCEPT ![k] = [pc |-> "sleep", d |-> entry.d,
                                              attempt |-> entry.attempt]]
                /\ UNCHANGED outcome
    /\ UNCHANGED <<phase, sem, wg, posts>>

PopPeeks(k) ==
    /\ LPopSent(k)
    /\ queue[Serves[k]] # <<>>
    /\ LET entry == Head(queue[Serves[k]])
       IN  job' = [job EXCEPT ![k] = [pc |-> "sleep", d |-> entry.d, attempt |-> entry.attempt]]
    /\ UNCHANGED <<phase, queue, sem, wg, outcome, posts>>

\* LPOP and the test of retryEntry: the last attempt gives up, any other sleeps.
Pop(k) ==
    /\ LPopSent(k)
    /\ queue[Serves[k]] # <<>>
    /\ queue' = [queue EXCEPT ![Serves[k]] = Tail(@)]
    /\ LET entry == Head(queue[Serves[k]])
       IN  IF entry.attempt >= MaxRetries
           THEN Settle(entry.d, "gaveUp") /\ job' = [job EXCEPT ![k] = Free("pop")]
           ELSE /\ job' = [job EXCEPT ![k] = [pc |-> "sleep", d |-> entry.d,
                                              attempt |-> entry.attempt]]
                /\ UNCHANGED outcome
    /\ UNCHANGED <<phase, sem, wg, posts>>

\* LPOP finds nothing or fails, as it does once Stop has cancelled its context:
\* the drainer ends.  A reply that is lost on the way takes the entry with it.
Leave(k) ==
    /\ job[k].pc \in {"pop", "reply"}
    /\ \/ UNCHANGED <<queue, outcome>>
       \/ /\ LPopSent(k)
          /\ queue[Serves[k]] # <<>>
          /\ queue' = [queue EXCEPT ![Serves[k]] = Tail(@)]
          /\ Settle(Head(queue[Serves[k]]).d, "lost")
    /\ job' = [job EXCEPT ![k] = Off]
    /\ wg' = wg - 1
    /\ UNCHANGED <<phase, sem, posts>>

\* After the backoff the task is read, and the agent.  A task that is neither
\* pending nor claimed any more, or an agent without webhook, ends the retries.
Wake(k) ==
    /\ job[k].pc = "sleep"
    /\ \/ Proceed(k, "send") /\ UNCHANGED outcome
       \/ Settle(job[k].d, "stale") /\ job' = [job EXCEPT ![k] = Free("pop")]
    /\ UNCHANGED <<phase, queue, sem, wg, posts>>

-----------------------------------------------------------------------------
(* main.go: Stop, the end of the process, and its next start *)

\* The context is cancelled; some drainers have sent an LPOP.
Stop ==
    /\ phase = "up"
    /\ phase' = "stopping"
    /\ \E sent \in SUBSET {k \in Drainers : job[k].pc = "pop"} :
          job' = [g \in Goroutines |-> IF g \in sent THEN Free("reply") ELSE job[g]]
    /\ UNCHANGED <<queue, sem, wg, outcome, posts>>

\* processRetryQueue sees the cancelled context.
LoopExit ==
    /\ phase = "stopping"
    /\ phase' = "draining"
    /\ wg' = wg - 1
    /\ UNCHANGED <<job, queue, sem, outcome, posts>>

StopReturns ==
    /\ phase = "draining"
    /\ wg = 0
    /\ phase' = "stopped"
    /\ UNCHANGED <<job, queue, sem, wg, outcome, posts>>

\* The goroutines end with the process, what they had in hand is gone.  After
\* a Stop that returned this is the end of main, before it a crash.
Die ==
    /\ phase # "down"
    /\ phase' = "down"
    /\ job' = [g \in Goroutines |-> Off]
    /\ outcome' = [d \in Deliveries |->
                     IF \E g \in Goroutines : job[g].d = d THEN "lost" ELSE outcome[d]]
    /\ sem' = 0
    /\ wg' = 0
    /\ UNCHANGED <<queue, posts>>

Start ==
    /\ phase = "down"
    /\ phase' = "up"
    /\ wg' = 1
    /\ UNCHANGED <<job, queue, sem, outcome, posts>>

-----------------------------------------------------------------------------

Send(g) == Refuse(g) \/ Deliver(g) \/ PostFails(g) \/ Trim(g) \/ Push(g)

Sender(d) == Enter(d) \/ Acquire(d) \/ Send(d)

Drainer(k) == Pop(k) \/ Leave(k) \/ Wake(k) \/ Send(k)

Next ==
    \/ \E d \in Deliveries : Dispatch(d) \/ Sender(d)
    \/ \E k \in Drainers : Tick(k) \/ Drainer(k)
    \/ Stop \/ LoopExit \/ StopReturns \/ Die \/ Start

Spec == Init /\ [][Next]_vars

\* Goroutines are scheduled, those that wait for the semaphore get a token in the
\* order of a channel's senders, the ticker ticks, requests time out and backoffs
\* end; Redis does not fail every LPOP on a queue that has entries.
FairSpec ==
    /\ Spec
    /\ \A d \in Deliveries : WF_vars(Sender(d)) /\ SF_vars(Acquire(d))
    /\ \A k \in Drainers : WF_vars(Tick(k)) /\ WF_vars(Drainer(k))
    /\ \A a \in Agents : SF_vars(\E k \in Drainers : Serves[k] = a /\ Pop(k))
    /\ WF_vars(LoopExit) /\ WF_vars(StopReturns)

-----------------------------------------------------------------------------
(* Correctness *)

\* Every register holds a value of its type.
TypeOK ==
    /\ phase \in {"up", "stopping", "draining", "stopped", "down"}
    /\ job \in [Goroutines -> Job]
    /\ queue \in [Agents -> Seq(Entry)]
    /\ sem \in 0..Slots
    /\ wg \in Nat
    /\ outcome \in [Deliveries -> Outcome]
    /\ posts \in [Deliveries -> 0..MaxRetries]

\* The goroutines the wait group and the semaphore know of.
Counted == {g \in Goroutines : job[g].pc \notin {"off", "spawned"}}
Holders == {d \in Deliveries : job[d].pc \in {"send", "trim", "push"}}

\* No path of a webhook leaks a token or a count, whatever fails on it: a lost
\* token would in time block all first attempts, a lost count block Stop.
NoLeak ==
    /\ sem = Cardinality(Holders)
    /\ wg = Cardinality(Counted) + (IF phase \in {"up", "stopping"} THEN 1 ELSE 0)

\* The queue positions and goroutines that hold delivery d.
Places(d) ==
    {g \in Goroutines : job[g].d = d}
    \cup {p \in UNION {{a} \X DOMAIN queue[a] : a \in Agents} : queue[p[1]][p[2]].d = d}

\* A delivery under way is in exactly one place and a settled one in none:
\* drainers of one queue that overlap never send the same entry twice, and
\* nothing disappears without the code having dropped it.
OnePlace ==
    \A d \in Deliveries :
        Cardinality(Places(d)) = IF outcome[d] = "open" THEN 1 ELSE 0

\* The attempt an entry carries is the number of requests that were sent for
\* it, across queues, drainers and restarts, and no delivery is sent more than
\* MaxRetries times; it is given up only then.
AttemptsCount ==
    /\ \A a \in Agents : \A i \in DOMAIN queue[a] :
          posts[queue[a][i].d] = queue[a][i].attempt
    /\ \A g \in Goroutines : Working(g) =>
          posts[job[g].d] = job[g].attempt + (IF job[g].pc \in {"trim", "push"} THEN 1 ELSE 0)
    /\ \A d \in Deliveries : outcome[d] = "gaveUp" => posts[d] = MaxRetries

\* The goroutines between the LTRIM and the RPUSH of agent a's queue.
Pushing(a) == {g \in Goroutines : job[g].pc = "push" /\ Target[job[g].d] = a}

\* A retry queue stays bounded although trim and push are two commands: it may
\* exceed its limit only by the goroutines that can be between the two at once,
\* as long as no LTRIM fails.
QueueBound ==
    \A a \in Agents :
        Len(queue[a]) + Cardinality(Pushing(a)) < MaxQueue + Slots + Cardinality(Drainers)

\* When Stop has returned no drainer is left, so no retry is sent to an agent
\* and no entry is popped while main.go closes the Redis client.
RetriesStopped == phase = "stopped" => \A k \in Drainers : job[k] = Off

\* No delivery lies in a queue or waits for a token forever while the process runs.
NoneForgotten ==
    \A d \in Deliveries : outcome[d] = "open" ~> outcome[d] # "open" \/ phase # "up"

\* Stop waits for the goroutines and they end: it returns, unless requests that are
\* still being served ask for new pushes over and over while it waits.
StopEnds ==
    \/ phase = "stopping" ~> phase \in {"stopped", "down"}
    \/ []<><<phase = "draining" /\ \E d \in Deliveries : Dispatch(d)>>_vars

-----------------------------------------------------------------------------
(* The inductive invariant *)

\* What a goroutine has in hand at each of its steps: a first sender its own
\* delivery, for the first time; a drainer a push that has been tried, and may be
\* tried again.  A notice never comes to a retry.  A process that is down has none.
JobsFit ==
    /\ \A g \in Deliveries :
          /\ job[g].pc \notin {"pop", "reply", "sleep"}
          /\ job[g].attempt = 0
          /\ job[g].d = IF job[g].pc = "off" THEN NoDelivery ELSE g
          /\ g \in Notices => job[g].pc \notin {"trim", "push"}
    /\ \A k \in Drainers :
          IF job[k].pc \in {"off", "pop", "reply"}
          THEN job[k] = Free(job[k].pc)
          ELSE /\ job[k].pc \in {"sleep", "send", "trim", "push"}
               /\ job[k].d \in Deliveries \ Notices
               /\ job[k].attempt \in 1..(MaxRetries - 1)
    /\ phase = "down" => \A g \in Goroutines : job[g] = Off

\* Entry i of the queue of a.
QueuedAs(d, a, i) == i \in DOMAIN queue[a] /\ queue[a][i].d = d

\* OnePlace without counting, as it has to be to follow a delivery from hand to
\* hand: a place holds an open delivery, no two the same one, and an open one has
\* a place.
PlacesFit ==
    /\ \A d \in Deliveries :
          outcome[d] = "open" <=>
              \/ \E g \in Goroutines : job[g].d = d
              \/ \E a \in Agents : \E i \in DOMAIN queue[a] : QueuedAs(d, a, i)
    /\ \A g, h \in Goroutines : Working(g) /\ job[g].d = job[h].d => g = h
    /\ \A a \in Agents : \A i \in DOMAIN queue[a] :
          /\ queue[a][i].d \notin Notices
          /\ \A g \in Goroutines : job[g].d # queue[a][i].d
          /\ \A b \in Agents : \A j \in DOMAIN queue[b] :
                queue[a][i].d = queue[b][j].d => a = b /\ i = j

\* Inductive; for what nobody has asked for nothing has been sent.
IInv ==
    /\ TypeOK /\ JobsFit /\ NoLeak /\ PlacesFit /\ AttemptsCount
    /\ \A d \in Deliveries : outcome[d] = "none" => posts[d] = 0

-----------------------------------------------------------------------------
(* Refinement *)

\* The reasons for which a delivery is dropped are not told apart.
Dropped == {"failed", "refused", "stale", "trimmed", "lost"}
Fate(d) == IF outcome[d] \in Dropped THEN "dropped" ELSE outcome[d]

\* The dispatcher implements its contract: through queues, drainers, shutdowns
\* and crashes a delivery is sent at most MaxRetries times, a notice once; a
\* settled one is never sent again, and giving up means having tried.
Contract == INSTANCE DeliveryContract WITH
    fate <- [d \in Deliveries |-> Fate(d)], requests <- posts
KeepsContract == Contract!Spec
=============================================================================
