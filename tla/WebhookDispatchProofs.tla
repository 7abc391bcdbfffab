------------------------ MODULE WebhookDispatchProofs ------------------------
(***************************************************************************)
(* Theorems about WebhookDispatch, for any number of deliveries, agents    *)
(* and drainers, and any capacity of the semaphore and the queues.         *)
(***************************************************************************)
EXTENDS WebhookDispatch, FiniteSetTheorems, SequenceTheorems, TLAPS

-----------------------------------------------------------------------------
(* Goroutines and what counts them *)

PCs == {"off", "spawned", "waiting", "pop", "reply", "sleep", "send", "trim", "push"}

\* All goroutines but g stay as they are.
OnlyJob(g) == \A h \in Goroutines \ {g} : job'[h] = job[h]

\* A goroutine that goes on with the delivery it has.
LEMMA Proceeds ==
    ASSUME job \in [Goroutines -> Job], NEW g \in Goroutines, NEW pc \in PCs, Proceed(g, pc)
    PROVE  /\ job' \in [Goroutines -> Job] /\ OnlyJob(g)
           /\ job'[g].pc = pc /\ job'[g].d = job[g].d /\ job'[g].attempt = job[g].attempt
<1>1. [job[g] EXCEPT !.pc = pc] \in Job
    BY DEF Job, PCs
<1>2. job' = [job EXCEPT ![g] = [job[g] EXCEPT !.pc = pc]]
    BY DEF Proceed
<1>3. job'[g] = [job[g] EXCEPT !.pc = pc]
    BY <1>2
<1>4. /\ [job[g] EXCEPT !.pc = pc].pc = pc
      /\ [job[g] EXCEPT !.pc = pc].d = job[g].d
      /\ [job[g] EXCEPT !.pc = pc].attempt = job[g].attempt
    BY DEF Job
<1> QED BY <1>1, <1>2, <1>3, <1>4 DEF OnlyJob

\* A goroutine with nothing in hand, and one that has taken an entry.
LEMMA FreeJob ==
    ASSUME NEW pc \in PCs
    PROVE  /\ Free(pc) \in Job /\ Free(pc).pc = pc /\ Free(pc).d = NoDelivery
           /\ Free(pc).attempt = 0
BY BoundsType DEF Free, Job, PCs

LEMMA Takes ==
    ASSUME job \in [Goroutines -> Job], NEW g \in Goroutines, NEW j \in Job,
           job' = [job EXCEPT ![g] = j]
    PROVE  job' \in [Goroutines -> Job] /\ OnlyJob(g) /\ job'[g] = j
BY DEF OnlyJob

\* What sendWebhook leaves behind when it returns.
LEMMA Returns ==
    ASSUME job \in [Goroutines -> Job], NEW g \in Goroutines, Return(g)
    PROVE  /\ job' \in [Goroutines -> Job] /\ OnlyJob(g)
           /\ job'[g] = IF g \in Deliveries THEN Off ELSE Free("pop")
           /\ IF g \in Deliveries THEN sem' = sem - 1 /\ wg' = wg - 1
                                  ELSE UNCHANGED <<sem, wg>>
<1>1. Off \in Job /\ Free("pop") \in Job
    BY FreeJob DEF Off, PCs
<1> QED BY <1>1, Takes DEF Return

LEMMA FiniteGoroutines == \A S \in SUBSET Goroutines : IsFiniteSet(S)
<1>1. IsFiniteSet(Goroutines)
    BY FS_Union, FinitelyMany DEF Goroutines
<1> QED BY <1>1, FS_Subset

\* A set of goroutines that changes by g alone changes its size accordingly.
LEMMA CountOne ==
    ASSUME NEW S \in SUBSET Goroutines, NEW T \in SUBSET Goroutines, NEW g \in Goroutines,
           S \ {g} = T \ {g}
    PROVE  /\ Cardinality(S) \in Nat /\ Cardinality(T) \in Nat
           /\ Cardinality(T) + (IF g \in S THEN 1 ELSE 0)
                = Cardinality(S) + (IF g \in T THEN 1 ELSE 0)
<1>1. IsFiniteSet(S) /\ IsFiniteSet(T)
    BY FiniteGoroutines
<1>2. Cardinality(S \ {g}) = IF g \in S THEN Cardinality(S) - 1 ELSE Cardinality(S)
    BY <1>1, FS_RemoveElement
<1>3. Cardinality(T \ {g}) = IF g \in T THEN Cardinality(T) - 1 ELSE Cardinality(T)
    BY <1>1, FS_RemoveElement
<1>4. Cardinality(S) \in Nat /\ Cardinality(T) \in Nat
    BY <1>1, FS_CardinalityType
<1> QED BY <1>2, <1>3, <1>4

\* Which goroutines the wait group and the semaphore count.
InWg(pc) == pc \notin {"off", "spawned"}
InSem(pc) == pc \in {"send", "trim", "push"}

\* If the step of one goroutine moves the counters as it moves between the steps
\* they count, they still count right, and are not negative.
LEMMA CountStep ==
    ASSUME TypeOK, NoLeak, NEW g \in Goroutines, OnlyJob(g), UNCHANGED phase,
           sem' \in Int, wg' \in Int,
           sem' + (IF g \in Deliveries /\ InSem(job[g].pc) THEN 1 ELSE 0)
             = sem + (IF g \in Deliveries /\ InSem(job'[g].pc) THEN 1 ELSE 0),
           wg' + (IF InWg(job[g].pc) THEN 1 ELSE 0)
             = wg + (IF InWg(job'[g].pc) THEN 1 ELSE 0)
    PROVE  NoLeak' /\ sem' \in Nat /\ wg' \in Nat
<1>1. /\ Counted \in SUBSET Goroutines /\ Counted' \in SUBSET Goroutines
      /\ Counted \ {g} = Counted' \ {g}
      /\ g \in Counted <=> InWg(job[g].pc)
      /\ g \in Counted' <=> InWg(job'[g].pc)
    BY DEF Counted, OnlyJob, InWg
<1>2. /\ Holders \in SUBSET Goroutines /\ Holders' \in SUBSET Goroutines
      /\ Holders \ {g} = Holders' \ {g}
      /\ g \in Holders <=> g \in Deliveries /\ InSem(job[g].pc)
      /\ g \in Holders' <=> g \in Deliveries /\ InSem(job'[g].pc)
    BY DEF Holders, OnlyJob, InSem, Goroutines
<1>3. /\ Cardinality(Counted) \in Nat /\ Cardinality(Counted') \in Nat
      /\ Cardinality(Counted') + (IF g \in Counted THEN 1 ELSE 0)
            = Cardinality(Counted) + (IF g \in Counted' THEN 1 ELSE 0)
    BY <1>1, CountOne
<1>4. /\ Cardinality(Holders) \in Nat /\ Cardinality(Holders') \in Nat
      /\ Cardinality(Holders') + (IF g \in Holders THEN 1 ELSE 0)
            = Cardinality(Holders) + (IF g \in Holders' THEN 1 ELSE 0)
    BY <1>2, CountOne
<1> HIDE DEF Counted, Holders
<1>5. sem' = Cardinality(Holders')
    BY <1>2, <1>4 DEF NoLeak
<1>6. wg' = Cardinality(Counted') + (IF phase' \in {"up", "stopping"} THEN 1 ELSE 0)
    BY <1>1, <1>3 DEF NoLeak
<1> QED BY <1>3, <1>4, <1>5, <1>6 DEF NoLeak

-----------------------------------------------------------------------------
(* One step of one goroutine *)

GoroutineStep(g) ==
    \/ Send(g)
    \/ g \in Deliveries /\ (Dispatch(g) \/ Enter(g) \/ Acquire(g))
    \/ g \in Drainers /\ (Tick(g) \/ Pop(g) \/ Leave(g) \/ Wake(g))

LEMMA NextCases ==
    [Next]_vars =>
        \/ \E g \in Goroutines : GoroutineStep(g)
        \/ Stop \/ LoopExit \/ StopReturns \/ Die \/ Start \/ UNCHANGED vars
BY DEF Next, Sender, Drainer, GoroutineStep, Goroutines

\* JobsFit of one goroutine.
Fits(g) ==
    /\ g \in Deliveries =>
          /\ job[g].pc \notin {"pop", "reply", "sleep"}
          /\ job[g].attempt = 0
          /\ job[g].d = IF job[g].pc = "off" THEN NoDelivery ELSE g
          /\ g \in Notices => job[g].pc \notin {"trim", "push"}
    /\ g \in Drainers =>
          IF job[g].pc \in {"off", "pop", "reply"}
          THEN job[g] = Free(job[g].pc)
          ELSE /\ job[g].pc \in {"sleep", "send", "trim", "push"}
               /\ job[g].d \in Deliveries \ Notices
               /\ job[g].attempt \in 1..(MaxRetries - 1)

LEMMA JobsFitIs ==
    JobsFit <=> /\ \A g \in Goroutines : Fits(g)
                /\ phase = "down" => \A g \in Goroutines : job[g] = Off
BY DEF JobsFit, Fits, Goroutines

\* What follows from Fits about a goroutine that works.
LEMMA WorkingIs ==
    ASSUME TypeOK, JobsFit, NEW g \in Goroutines
    PROVE  /\ job[g] \in Job /\ Fits(g)
           /\ Working(g) <=> job[g].pc \notin {"off", "pop", "reply"}
           /\ Working(g) => job[g].d \in Deliveries
           /\ job[g].pc # "off" => phase # "down"
           /\ g \in Deliveries <=> g \notin Drainers
           /\ g \in Deliveries /\ Working(g) => job[g].d = g
<1>1. job[g] \in Job /\ Fits(g)
    BY JobsFitIs DEF TypeOK
<1>2. phase = "down" => job[g].pc = "off"
    BY JobsFitIs DEF Off, Free
<1>3. g \in Deliveries <=> g \notin Drainers
    BY NamesDiffer DEF Goroutines
<1>4. Working(g) <=> job[g].pc \notin {"off", "pop", "reply"}
    BY <1>1, <1>3, NamesDiffer, FreeJob DEF Fits, Working, PCs
<1> QED BY <1>1, <1>2, <1>3, <1>4 DEF Job, Fits, Working

\* What a step of a goroutine does to it and to the counters: it fits again, and
\* the counters move as it moves.
Counters(g) ==
    /\ sem' \in Int /\ wg' \in Int
    /\ sem' + (IF g \in Deliveries /\ InSem(job[g].pc) THEN 1 ELSE 0)
         = sem + (IF g \in Deliveries /\ InSem(job'[g].pc) THEN 1 ELSE 0)
    /\ wg' + (IF InWg(job[g].pc) THEN 1 ELSE 0)
         = wg + (IF InWg(job'[g].pc) THEN 1 ELSE 0)

JobMoves(g) ==
    /\ job' \in [Goroutines -> Job] /\ OnlyJob(g) /\ Fits(g)'
    /\ UNCHANGED phase /\ phase # "down"
    /\ Counters(g)

\* The return of sendWebhook.
LEMMA ReturnMoves ==
    ASSUME TypeOK, JobsFit, NEW g \in Goroutines, InSem(job[g].pc), Return(g), UNCHANGED phase
    PROVE  JobMoves(g)
<1>1. /\ job' \in [Goroutines -> Job] /\ OnlyJob(g)
      /\ job'[g] = IF g \in Deliveries THEN Off ELSE Free("pop")
      /\ IF g \in Deliveries THEN sem' = sem - 1 /\ wg' = wg - 1
                             ELSE UNCHANGED <<sem, wg>>
    BY Returns DEF TypeOK
<1>2. job[g].pc # "off" /\ phase # "down" /\ (g \in Deliveries <=> g \notin Drainers)
    BY WorkingIs DEF InSem
<1>3. Fits(g)'
    BY <1>1, <1>2, FreeJob DEF Fits, Off, PCs
<1>4. sem \in Int /\ wg \in Int
    BY DEF TypeOK
<1>5. Counters(g)
    BY <1>1, <1>2, <1>4, FreeJob DEF Counters, InSem, InWg, Off, PCs
<1> QED BY <1>1, <1>2, <1>3, <1>5 DEF JobMoves

\* The way from one step to the next, with the same delivery.
LEMMA ProceedMoves ==
    ASSUME TypeOK, JobsFit, NEW g \in Goroutines, NEW pc \in PCs,
           <<job[g].pc, pc>> \in {<<"send", "trim">>, <<"trim", "push">>, <<"sleep", "send">>},
           g \in Deliveries => g \notin Notices,
           Proceed(g, pc), UNCHANGED <<phase, sem, wg>>
    PROVE  JobMoves(g)
<1>1. /\ job' \in [Goroutines -> Job] /\ OnlyJob(g)
      /\ job'[g].pc = pc /\ job'[g].d = job[g].d /\ job'[g].attempt = job[g].attempt
    BY Proceeds DEF TypeOK
<1>2. Fits(g) /\ phase # "down" /\ (g \in Deliveries <=> g \notin Drainers)
    BY WorkingIs
<1>3. Fits(g)'
    BY <1>1, <1>2 DEF Fits
<1>4. sem \in Int /\ wg \in Int
    BY DEF TypeOK
<1>5. Counters(g)
    BY <1>1, <1>2, <1>4 DEF Counters, InSem, InWg, Fits
<1> QED BY <1>1, <1>2, <1>3, <1>5 DEF JobMoves

\* Every other step puts g into a job it has been given whole.
LEMMA TakeMoves ==
    ASSUME TypeOK, JobsFit, NEW g \in Goroutines, NEW j \in Job, phase # "down",
           job' = [job EXCEPT ![g] = j], Fits(g)', Counters(g), UNCHANGED phase
    PROVE  JobMoves(g)
<1>1. job' \in [Goroutines -> Job] /\ OnlyJob(g)
    BY Takes DEF TypeOK
<1> QED BY <1>1 DEF JobMoves

\* What a delivery asked for, an entry and a drainer without one look like as jobs.
LEMMA JobKinds ==
    /\ \A d \in Deliveries : [pc |-> "spawned", d |-> d, attempt |-> 0] \in Job
    /\ \A e \in Entry : [pc |-> "sleep", d |-> e.d, attempt |-> e.attempt] \in Job
    /\ \A e \in Entry : e.d \in Deliveries /\ e.attempt \in 1..MaxRetries
BY BoundsType DEF Job, Entry

LEMMA DispatchMoves ==
    ASSUME TypeOK, JobsFit, PlacesFit, NEW d \in Deliveries, Dispatch(d)
    PROVE  JobMoves(d) /\ ~Working(d)
<1>1. d \in Goroutines /\ outcome[d] # "open" /\ d \notin Drainers
    BY NamesDiffer DEF Dispatch, Goroutines
<1>2. job[d].d # d
    BY <1>1 DEF PlacesFit
<1>3. job[d].pc = "off" /\ ~Working(d)
    BY <1>1, <1>2, WorkingIs DEF Fits, Working
<1>4. job'[d] = [pc |-> "spawned", d |-> d, attempt |-> 0]
    BY <1>1 DEF Dispatch, TypeOK
<1>5. Fits(d)'
    BY <1>1, <1>4 DEF Fits
<1>6. Counters(d)
    BY <1>3, <1>4 DEF Counters, InSem, InWg, Dispatch, TypeOK
<1> QED BY <1>1, <1>3, <1>5, <1>6, TakeMoves, JobKinds DEF Dispatch

LEMMA EnterMoves ==
    ASSUME TypeOK, JobsFit, NEW d \in Deliveries, Enter(d) \/ Acquire(d)
    PROVE  JobMoves(d) /\ job'[d].d = job[d].d /\ job'[d].attempt = job[d].attempt
<1>1. PICK pc \in {"waiting", "send"} : Proceed(d, pc) /\ pc \in PCs
    BY DEF Enter, Acquire, PCs
<1>2. d \in Goroutines /\ d \notin Drainers /\ job[d].pc # "off"
    BY NamesDiffer DEF Goroutines, Enter, Acquire
<1>3. /\ job' \in [Goroutines -> Job] /\ OnlyJob(d)
      /\ job'[d].pc = pc /\ job'[d].d = job[d].d /\ job'[d].attempt = job[d].attempt
    BY <1>1, <1>2, Proceeds DEF TypeOK
<1>4. Fits(d) /\ phase # "down"
    BY <1>2, WorkingIs
<1>5. Fits(d)'
    BY <1>2, <1>3, <1>4 DEF Fits
<1>6. Counters(d)
    <2>1. CASE Enter(d)
        <3>1. job'[d].pc = "waiting"
            BY <1>2, <2>1 DEF Enter, Proceed, TypeOK, Job
        <3> QED BY <2>1, <3>1 DEF Counters, InSem, InWg, Enter, TypeOK
    <2>2. CASE Acquire(d)
        <3>1. job'[d].pc = "send"
            BY <1>2, <2>2 DEF Acquire, Proceed, TypeOK, Job
        <3> QED BY <2>2, <3>1 DEF Counters, InSem, InWg, Acquire, TypeOK
    <2> QED BY <2>1, <2>2
<1> QED BY <1>3, <1>4, <1>5, <1>6 DEF JobMoves, Enter, Acquire

LEMMA SendMoves ==
    ASSUME TypeOK, JobsFit, NEW g \in Goroutines, Send(g)
    PROVE  JobMoves(g) /\ Working(g) /\ InSem(job[g].pc)
<1>1. InSem(job[g].pc) /\ UNCHANGED phase
    BY DEF Send, Refuse, Deliver, PostFails, Trim, Push, InSem
<1>2. Working(g) /\ Fits(g) /\ (g \in Deliveries => job[g].d = g)
    BY <1>1, WorkingIs DEF InSem
<1>3. CASE Return(g)
    BY <1>1, <1>2, <1>3, ReturnMoves
<1>4. CASE ~Return(g)
    <2>1. \/ job[g].pc = "send" /\ Proceed(g, "trim") /\ job[g].d \notin Notices
          \/ job[g].pc = "trim" /\ Proceed(g, "push")
        BY <1>4 DEF Send, Refuse, Deliver, PostFails, Trim, Push
    <2>2. UNCHANGED <<phase, sem, wg>>
        BY <1>4 DEF Send, Refuse, Deliver, PostFails, Trim, Push
    <2>3. g \in Deliveries => g \notin Notices
        BY <1>2, <2>1 DEF Fits
    <2> QED BY <1>1, <1>2, <2>1, <2>2, <2>3, ProceedMoves DEF PCs
<1> QED BY <1>3, <1>4

-----------------------------------------------------------------------------
(* Taking entries out of a queue *)

\* The first n entries leave the queue of a.
Shifts(a, n) ==
    /\ n \in 0..Len(queue[a])
    /\ queue' \in [Agents -> Seq(Entry)]
    /\ \A b \in Agents \ {a} : queue'[b] = queue[b]
    /\ DOMAIN queue'[a] = 1..(Len(queue[a]) - n)
    /\ \A i \in 1..(Len(queue[a]) - n) : queue'[a][i] = queue[a][i + n]

LEMMA TailShifts ==
    ASSUME queue \in [Agents -> Seq(Entry)], NEW a \in Agents, queue[a] # <<>>,
           queue' = [queue EXCEPT ![a] = Tail(queue[a])]
    PROVE  /\ Shifts(a, 1) /\ 1 \in DOMAIN queue[a] /\ Head(queue[a]) = queue[a][1]
           /\ Head(queue[a]) \in Entry
<1> DEFINE q == queue[a]
<1>1. q \in Seq(Entry) /\ q # <<>>
    OBVIOUS
<1>2. /\ Head(q) \in Entry /\ Tail(q) \in Seq(Entry) /\ Len(q) \in Nat \ {0}
      /\ Len(Tail(q)) = Len(q) - 1 /\ \A i \in 1..Len(Tail(q)) : Tail(q)[i] = q[i + 1]
    <2> HIDE DEF q
    <2>1. Len(q) \in Nat /\ Len(q) # 0
        BY <1>1, EmptySeq, LenProperties
    <2> QED BY <1>1, <2>1, HeadTailProperties
<1>3. Head(q) = q[1] /\ DOMAIN q = 1..Len(q)
    BY <1>1, LenProperties
<1>4. /\ queue' \in [Agents -> Seq(Entry)] /\ queue'[a] = Tail(q)
      /\ \A b \in Agents \ {a} : queue'[b] = queue[b]
    BY <1>2
<1>5. DOMAIN Tail(q) = 1..Len(Tail(q))
    BY <1>2, LenProperties
<1> QED BY <1>2, <1>3, <1>4, <1>5 DEF Shifts

LEMMA SubSeqShifts ==
    ASSUME queue \in [Agents -> Seq(Entry)], NEW a \in Agents, NEW n \in 0..Len(queue[a]),
           queue' = [queue EXCEPT ![a] = SubSeq(queue[a], n + 1, Len(queue[a]))]
    PROVE  Shifts(a, n)
<1> DEFINE q == queue[a]
           s == SubSeq(q, n + 1, Len(q))
<1>1. q \in Seq(Entry) /\ Len(q) \in Nat /\ DOMAIN q = 1..Len(q)
    BY LenProperties
<1>2. /\ s \in Seq(Entry) /\ Len(s) = Len(q) - n /\ DOMAIN s = 1..(Len(q) - n)
      /\ \A i \in 1..(Len(q) - n) : s[i] = q[i + n]
    <2>1. /\ \A i \in (n + 1)..Len(q) : q[i] \in Entry
          /\ n + 1 \in Int /\ Len(q) \in Int
        BY <1>1
    <2> HIDE DEF q, s
    <2>2. /\ s \in Seq(Entry)
          /\ Len(s) = IF n + 1 <= Len(q) THEN Len(q) - (n + 1) + 1 ELSE 0
          /\ \A i \in 1..(Len(q) - (n + 1) + 1) : s[i] = q[n + 1 + i - 1]
        BY <2>1, SubSeqProperties DEF s
    <2>3. n \in Nat /\ n <= Len(q) /\ Len(q) \in Nat
        BY <1>1 DEF q
    <2>4. Len(s) = Len(q) - n
        BY <2>2, <2>3
    <2>5. ASSUME NEW i \in 1..(Len(q) - n) PROVE s[i] = q[i + n]
        <3>1. i \in 1..(Len(q) - (n + 1) + 1) /\ n + 1 + i - 1 = i + n
            BY <2>3
        <3> QED BY <3>1, <2>2
    <2> QED BY <2>2, <2>4, <2>5, LenProperties
<1>3. /\ queue' \in [Agents -> Seq(Entry)] /\ queue'[a] = s
      /\ \A b \in Agents \ {a} : queue'[b] = queue[b]
    <2> HIDE DEF s
    <2> QED BY <1>2 DEF s
<1> QED BY <1>1, <1>2, <1>3 DEF Shifts

-----------------------------------------------------------------------------
(* Steps of a drainer *)

LEMMA DrainerMoves ==
    ASSUME TypeOK, JobsFit, NEW k \in Drainers,
           Tick(k) \/ Leave(k) \/ (Wake(k) /\ ~Proceed(k, "send"))
    PROVE  /\ JobMoves(k) /\ job'[k].d = NoDelivery
           /\ ~Wake(k) => ~Working(k)
<1>1. k \in Goroutines /\ k \notin Deliveries
    BY NamesDiffer DEF Goroutines
<1>2. phase # "down" /\ UNCHANGED <<phase, sem>>
    BY <1>1, WorkingIs DEF Tick, Leave, Wake
<1>3. PICK pc \in {"off", "pop"} :
          /\ pc \in PCs /\ job' = [job EXCEPT ![k] = Free(pc)]
          /\ IF Leave(k) THEN pc = "off" ELSE pc = "pop"
          /\ IF Leave(k) THEN wg' = wg - 1
             ELSE IF Tick(k) THEN wg' = wg + 1 ELSE wg' = wg
          /\ IF Leave(k) THEN job[k].pc \in {"pop", "reply"}
             ELSE IF Tick(k) THEN job[k].pc = "off" ELSE job[k].pc = "sleep"
    <2>1. CASE Leave(k)
        BY <2>1 DEF Leave, Off, PCs
    <2>2. CASE Tick(k)
        BY <2>2, FreeJob DEF Tick, Leave, Off, PCs
    <2>3. CASE Wake(k) /\ ~Proceed(k, "send")
        BY <2>3, FreeJob DEF Tick, Leave, Wake, Off, PCs
    <2> QED BY <2>1, <2>2, <2>3
<1>4. Free(pc) \in Job /\ Free(pc).pc = pc /\ Free(pc).d = NoDelivery
    BY <1>3, FreeJob
<1>5. job'[k] = Free(pc)
    BY <1>1, <1>3, <1>4, Takes DEF TypeOK
<1>6. Fits(k)'
    BY <1>1, <1>3, <1>4, <1>5 DEF Fits
<1>7. sem \in Int /\ wg \in Int
    BY DEF TypeOK
<1>8. Counters(k)
    BY <1>1, <1>2, <1>3, <1>4, <1>5, <1>7 DEF Counters, InSem, InWg
<1>9. JobMoves(k)
    BY <1>1, <1>2, <1>3, <1>4, <1>6, <1>8, TakeMoves
<1>10. ASSUME ~Wake(k) PROVE ~Working(k)
    BY <1>1, <1>3, <1>10, WorkingIs
<1> QED BY <1>4, <1>5, <1>9, <1>10

\* The drainer that goes back to send what it slept on.
LEMMA WakeMoves ==
    ASSUME TypeOK, JobsFit, NEW k \in Drainers, Wake(k)
    PROVE  JobMoves(k) /\ Working(k)
<1>1. k \in Goroutines /\ k \notin Deliveries /\ job[k].pc = "sleep"
    BY NamesDiffer DEF Goroutines, Wake
<1>2. ASSUME Proceed(k, "send") PROVE JobMoves(k)
    BY <1>1, <1>2, ProceedMoves DEF Wake, PCs
<1>3. ASSUME ~Proceed(k, "send") PROVE JobMoves(k)
    BY <1>3, DrainerMoves
<1>4. Working(k)
    BY <1>1, WorkingIs
<1> QED BY <1>2, <1>3, <1>4

LEMMA PopMoves ==
    ASSUME TypeOK, JobsFit, PlacesFit, NEW k \in Drainers, Pop(k)
    PROVE  /\ JobMoves(k) /\ ~Working(k) /\ Shifts(Serves[k], 1)
           /\ 1 \in DOMAIN queue[Serves[k]]
           /\ LET entry == queue[Serves[k]][1]
              IN  /\ entry \in Entry
                  /\ IF entry.attempt >= MaxRetries
                     THEN Settle(entry.d, "gaveUp") /\ job'[k] = Free("pop")
                     ELSE /\ UNCHANGED outcome
                          /\ job'[k] = [pc |-> "sleep", d |-> entry.d,
                                        attempt |-> entry.attempt]
<1> DEFINE entry == queue[Serves[k]][1]
<1>1. /\ k \in Goroutines /\ k \notin Deliveries /\ Serves[k] \in Agents
      /\ job[k].pc \in {"pop", "reply"}
    BY NamesDiffer, ServesType DEF Goroutines, Pop, LPopSent
<1>2. /\ Shifts(Serves[k], 1) /\ 1 \in DOMAIN queue[Serves[k]]
      /\ entry = Head(queue[Serves[k]]) /\ entry \in Entry
    BY <1>1, TailShifts DEF Pop, TypeOK
<1>3. ~Working(k) /\ Fits(k)
    BY <1>1, WorkingIs
<1>4. entry.d \notin Notices
    BY <1>1, <1>2 DEF PlacesFit
<1>5. sem \in Int /\ wg \in Int /\ UNCHANGED <<phase, sem, wg>> /\ phase # "down"
    BY <1>1, WorkingIs DEF TypeOK, Pop
<1>6. CASE entry.attempt >= MaxRetries
    <2>1. Settle(entry.d, "gaveUp") /\ job' = [job EXCEPT ![k] = Free("pop")]
        BY <1>2, <1>6 DEF Pop
    <2>2. Free("pop") \in Job /\ Free("pop").pc = "pop"
        BY FreeJob DEF PCs
    <2>3. job'[k] = Free("pop")
        BY <1>1, <2>1, <2>2, Takes DEF TypeOK
    <2>4. Fits(k)' /\ Counters(k)
        BY <1>1, <1>5, <2>2, <2>3 DEF Fits, Counters, InSem, InWg
    <2>5. JobMoves(k)
        BY <1>1, <1>5, <2>1, <2>2, <2>4, TakeMoves
    <2> QED BY <1>2, <1>3, <1>6, <2>1, <2>3, <2>5
<1>7. CASE ~(entry.attempt >= MaxRetries)
    <2> DEFINE j == [pc |-> "sleep", d |-> entry.d, attempt |-> entry.attempt]
    <2>1. UNCHANGED outcome /\ job' = [job EXCEPT ![k] = j]
        BY <1>2, <1>7 DEF Pop
    <2>2. j \in Job /\ entry.d \in Deliveries /\ entry.attempt \in 1..MaxRetries
        BY <1>2, JobKinds
    <2>3. job'[k] = j
        BY <1>1, <2>1, <2>2, Takes DEF TypeOK
    <2>4. entry.attempt \in 1..(MaxRetries - 1)
        BY <1>7, <2>2, BoundsType
    <2>5. Fits(k)'
        BY <1>1, <1>4, <2>2, <2>3, <2>4 DEF Fits
    <2>6. Counters(k)
        BY <1>1, <1>5, <2>3 DEF Counters, InSem, InWg
    <2>7. JobMoves(k)
        BY <1>1, <1>5, <2>1, <2>2, <2>5, <2>6, TakeMoves
    <2> QED BY <1>2, <1>3, <1>7, <2>1, <2>3, <2>7
<1> QED BY <1>6, <1>7

\* JobMoves is what every step of a goroutine does.
LEMMA EveryStepMoves ==
    ASSUME TypeOK, JobsFit, PlacesFit, NEW g \in Goroutines, GoroutineStep(g)
    PROVE  JobMoves(g)
BY DispatchMoves, EnterMoves, SendMoves, DrainerMoves, WakeMoves, PopMoves DEF GoroutineStep

-----------------------------------------------------------------------------
(* From hand to hand: what a step of a goroutine does to the deliveries *)

\* An attempt whose request has been sent, although the job still has its number.
Tried(pc) == IF pc \in {"trim", "push"} THEN 1 ELSE 0

\* The request of g, which sends once.
Posts(g) ==
    /\ job[g].pc = "send"
    /\ posts' = [posts EXCEPT ![job[g].d] = posts[job[g].d] + 1]

\* g keeps what it has in hand.
Stays(g) ==
    /\ UNCHANGED <<queue, outcome>>
    /\ job'[g].d = job[g].d /\ job'[g].attempt = job[g].attempt
    /\ \/ UNCHANGED posts /\ (Working(g) => Tried(job'[g].pc) = Tried(job[g].pc))
       \/ Posts(g) /\ Tried(job'[g].pc) = 1

\* g is started for a delivery that is not under way; what was sent under its name
\* before does not count.
Asks(g) ==
    /\ g \in Deliveries /\ ~Working(g) /\ outcome[g] # "open"
    /\ Settle(g, "open")
    /\ job'[g].d = g /\ job'[g].attempt = 0 /\ job'[g].pc = "spawned"
    /\ posts' = [posts EXCEPT ![g] = 0]
    /\ UNCHANGED queue

\* g is through with its delivery.
Settles(g) ==
    /\ Working(g) /\ job'[g].d = NoDelivery
    /\ \E o \in Outcome \ {"none", "open", "gaveUp"} :
          /\ Settle(job[g].d, o)
          /\ \/ o \in Dropped /\ UNCHANGED posts
             \/ (o = "delivered" \/ (o = "failed" /\ job[g].d \in Notices)) /\ Posts(g)
    /\ UNCHANGED queue

\* g hands its delivery to the queue.
Queues(g) ==
    /\ Working(g) /\ job[g].pc = "push" /\ job'[g].d = NoDelivery
    /\ queue' = [queue EXCEPT ![Target[job[g].d]] =
                    Append(@, [d |-> job[g].d, attempt |-> job[g].attempt + 1])]
    /\ UNCHANGED <<outcome, posts>>

\* g takes the first entry of a queue.
Picks(g) ==
    /\ ~Working(g)
    /\ \E a \in Agents :
          /\ Shifts(a, 1) /\ 1 \in DOMAIN queue[a]
          /\ job'[g].d = queue[a][1].d /\ job'[g].attempt = queue[a][1].attempt
          /\ job'[g].pc = "sleep"
    /\ UNCHANGED <<outcome, posts>>

\* The first entries of a queue are dropped.
Drops(g) ==
    /\ job'[g].d = job[g].d /\ job'[g].attempt = job[g].attempt
    /\ Tried(job'[g].pc) = Tried(job[g].pc)
    /\ \E a \in Agents, n \in Nat, o \in Outcome \ {"none", "open"} :
          /\ Shifts(a, n)
          /\ outcome' = [d \in Deliveries |->
                IF \E i \in 1..n : queue[a][i].d = d THEN o ELSE outcome[d]]
          /\ IF o = "gaveUp" THEN n = 1 /\ \A i \in 1..n : queue[a][i].attempt = MaxRetries
                            ELSE o \in Dropped
    /\ UNCHANGED posts

\* The state of deliveries, as far as it is not about counters.
Unsent == \A d \in Deliveries : outcome[d] = "none" => posts[d] = 0

Kept ==
    /\ queue \in [Agents -> Seq(Entry)]
    /\ outcome \in [Deliveries -> Outcome]
    /\ posts \in [Deliveries -> 0..MaxRetries]
    /\ PlacesFit /\ AttemptsCount /\ Unsent

\* What a list of entries holds.
LEMMA Entries ==
    ASSUME NEW q \in Seq(Entry)
    PROVE  /\ Len(q) \in Nat /\ DOMAIN q = 1..Len(q)
           /\ \A i \in DOMAIN q : /\ i \in Nat /\ q[i] \in Entry /\ q[i].d \in Deliveries
                                 /\ q[i].attempt \in 1..MaxRetries
<1>1. /\ Len(q) \in Nat /\ DOMAIN q = 1..Len(q)
      /\ \A i \in DOMAIN q : i \in Nat /\ q[i] \in Entry
    BY LenProperties
<1> QED BY <1>1 DEF Entry

\* The three parts of PlacesFit, in terms of QueuedAs alone: what is open has a
\* place, hands hold different deliveries, and so do entries.
OpenPlaced ==
    \A d \in Deliveries :
        outcome[d] = "open" <=> \/ \E g \in Goroutines : job[g].d = d
                                \/ \E a \in Agents, i \in Nat : QueuedAs(d, a, i)

OneHand == \A g, h \in Goroutines : Working(g) /\ job[g].d = job[h].d => g = h

OneEntry ==
    \A d \in Deliveries, a \in Agents, i \in Nat : QueuedAs(d, a, i) =>
        /\ d \notin Notices
        /\ \A g \in Goroutines : job[g].d # d
        /\ \A b \in Agents, j \in Nat : QueuedAs(d, b, j) => a = b /\ i = j

LEMMA PlacesFitIs ==
    queue \in [Agents -> Seq(Entry)] => (PlacesFit <=> OpenPlaced /\ OneHand /\ OneEntry)
<1> SUFFICES ASSUME queue \in [Agents -> Seq(Entry)]
             PROVE  PlacesFit <=> OpenPlaced /\ OneHand /\ OneEntry
    OBVIOUS
<1>1. ASSUME NEW a \in Agents, NEW i \in DOMAIN queue[a]
      PROVE  i \in Nat /\ queue[a][i].d \in Deliveries
    <2>1. queue[a] \in Seq(Entry)
        OBVIOUS
    <2> QED BY <2>1, Entries
<1> QED BY <1>1 DEF PlacesFit, QueuedAs, OpenPlaced, OneHand, OneEntry

LEMMA PlacesFitNext ==
    queue' \in [Agents -> Seq(Entry)] => (PlacesFit' <=> OpenPlaced' /\ OneHand' /\ OneEntry')
<1>1. (queue \in [Agents -> Seq(Entry)] => (PlacesFit <=> OpenPlaced /\ OneHand /\ OneEntry))'
    BY PlacesFitIs, PTL
<1> QED BY <1>1

\* What IInv says about the delivery g has in hand.
LEMMA InHand ==
    ASSUME IInv, NEW g \in Goroutines, Working(g)
    PROVE  /\ job[g].d \in Deliveries /\ outcome[job[g].d] = "open"
           /\ posts[job[g].d] = job[g].attempt + Tried(job[g].pc)
           /\ job[g].attempt \in Nat /\ job[g].attempt < MaxRetries
           /\ Tried(job[g].pc) \in {0, 1}
           /\ \A h \in Goroutines : job[h].d = job[g].d => h = g
           /\ \A a \in Agents, i \in Nat : ~QueuedAs(job[g].d, a, i)
<1>1. job[g].d \in Deliveries /\ Fits(g) /\ job[g].pc \notin {"off", "pop", "reply"}
    BY WorkingIs DEF IInv
<1>2. job[g].attempt \in Nat /\ job[g].attempt < MaxRetries
    BY <1>1, BoundsType DEF Fits, Goroutines
<1>3. outcome[job[g].d] = "open" /\ \A h \in Goroutines : job[h].d = job[g].d => h = g
    BY <1>1 DEF IInv, PlacesFit, Working
<1>4. \A a \in Agents, i \in Nat : ~QueuedAs(job[g].d, a, i)
    BY <1>1 DEF IInv, PlacesFit, QueuedAs
<1>5. posts[job[g].d] = job[g].attempt + Tried(job[g].pc)
    BY DEF IInv, AttemptsCount, Tried
<1> QED BY <1>1, <1>2, <1>3, <1>4, <1>5 DEF Tried

\* The request of g counts for its delivery alone.
LEMMA PostsOnce ==
    ASSUME IInv, NEW g \in Goroutines, Working(g), UNCHANGED posts \/ Posts(g)
    PROVE  /\ posts' \in [Deliveries -> 0..MaxRetries]
           /\ \A d \in Deliveries : d # job[g].d => posts'[d] = posts[d]
           /\ posts'[job[g].d] = posts[job[g].d] + (IF UNCHANGED posts THEN 0 ELSE 1)
<1>1. posts \in [Deliveries -> 0..MaxRetries]
    BY DEF IInv, TypeOK
<1>2. CASE UNCHANGED posts
    BY <1>1, <1>2, InHand
<1>3. CASE Posts(g)
    <2>1. posts[job[g].d] + 1 \in 0..MaxRetries
        BY <1>3, InHand, BoundsType DEF Posts, Tried
    <2>2. posts[job[g].d] + 1 # posts[job[g].d]
        BY <2>1, <1>1, InHand
    <2> QED BY <1>1, <1>3, <2>1, <2>2, InHand DEF Posts
<1> QED BY <1>2, <1>3

LEMMA StaysKeeps ==
    ASSUME IInv, NEW g \in Goroutines, JobMoves(g), Stays(g)
    PROVE  Kept'
<1>1. \A h \in Goroutines : /\ job'[h].d = job[h].d /\ job'[h].attempt = job[h].attempt
                            /\ Working(h)' <=> Working(h)
    BY DEF JobMoves, OnlyJob, Stays, Working
<1>2. PlacesFit'
    <2>1. PlacesFit /\ UNCHANGED <<queue, outcome>>
        BY DEF IInv, Stays
    <2>2. \A d, a, i : QueuedAs(d, a, i)' <=> QueuedAs(d, a, i)
        BY <2>1 DEF QueuedAs
    <2> QED BY <1>1, <2>1, <2>2 DEF PlacesFit
<1>3. CASE UNCHANGED posts /\ (Working(g) => Tried(job'[g].pc) = Tried(job[g].pc))
    <2>1. \A h \in Goroutines : Working(h) => Tried(job'[h].pc) = Tried(job[h].pc)
        BY <1>3 DEF JobMoves, OnlyJob
    <2>2. AttemptsCount /\ UNCHANGED <<queue, outcome, posts>>
        BY <1>3 DEF IInv, Stays
    <2>3. AttemptsCount'
        BY <1>1, <2>1, <2>2 DEF AttemptsCount, Tried
    <2> QED BY <1>2, <2>2, <2>3 DEF IInv, TypeOK, Kept, Unsent
<1>4. CASE Posts(g) /\ Tried(job'[g].pc) = 1
    <2>1. Working(g)
        BY <1>4, WorkingIs DEF IInv, Posts
    <2>2. /\ job[g].d \in Deliveries /\ outcome[job[g].d] = "open"
          /\ posts[job[g].d] = job[g].attempt + Tried(job[g].pc)
          /\ \A h \in Goroutines : job[h].d = job[g].d => h = g
          /\ Tried(job[g].pc) = 0 /\ job[g].attempt \in Nat
        BY <2>1, <1>4, InHand DEF Posts, Tried
    <2>3. /\ posts' \in [Deliveries -> 0..MaxRetries]
          /\ \A d \in Deliveries : d # job[g].d => posts'[d] = posts[d]
          /\ posts'[job[g].d] = posts[job[g].d] + 1
        BY <2>1, <2>2, <1>4, PostsOnce DEF Posts, IInv, TypeOK
    <2>4. UNCHANGED <<queue, outcome>> /\ AttemptsCount
        BY DEF Stays, IInv
    <2>5. \A a \in Agents : \A i \in DOMAIN queue[a] : queue[a][i].d # job[g].d
        BY DEF IInv, PlacesFit
    <2>6. \A a \in Agents : \A i \in DOMAIN queue[a] : queue[a][i].d \in Deliveries
        <3> TAKE a \in Agents
        <3>1. queue[a] \in Seq(Entry)
            BY DEF IInv, TypeOK
        <3> QED BY <3>1, Entries
    <2>7. \A a \in Agents : \A i \in DOMAIN queue'[a] :
              posts'[queue'[a][i].d] = queue'[a][i].attempt
        BY <2>3, <2>4, <2>5, <2>6 DEF AttemptsCount
    <2>8. \A h \in Goroutines : Working(h)' =>
              posts'[job'[h].d] = job'[h].attempt + Tried(job'[h].pc)
        <3> SUFFICES ASSUME NEW h \in Goroutines, Working(h)
                     PROVE  posts'[job[h].d] = job[h].attempt + Tried(job'[h].pc)
            BY <1>1
        <3>1. CASE h = g
            BY <3>1, <1>4, <2>2, <2>3
        <3>2. CASE h # g
            <4>1. job[h].d # job[g].d /\ job'[h] = job[h] /\ job[h].d \in Deliveries
                BY <3>2, <2>2, InHand DEF JobMoves, OnlyJob
            <4> QED BY <4>1, <2>3, InHand
        <3> QED BY <3>1, <3>2
    <2>9. \A d \in Deliveries : outcome'[d] = "gaveUp" => posts'[d] = MaxRetries
        BY <2>2, <2>3, <2>4 DEF AttemptsCount
    <2>10. Unsent'
        BY <2>2, <2>3, <2>4 DEF Unsent, IInv
    <2>11. AttemptsCount'
        BY <2>7, <2>8, <2>9 DEF AttemptsCount, Tried
    <2> QED BY <1>2, <2>3, <2>4, <2>10, <2>11 DEF IInv, TypeOK, Kept
<1> QED BY <1>3, <1>4 DEF Stays

\* Which deliveries are in hands, which in queues, and that no queue holds one twice.
InHands(d) == \E g \in Goroutines : job[g].d = d
Queued(d) == \E a \in Agents, i \in Nat : QueuedAs(d, a, i)

Unique ==
    \A d \in Deliveries, a, b \in Agents, i, j \in Nat :
        QueuedAs(d, a, i) /\ QueuedAs(d, b, j) => a = b /\ i = j

\* What of Kept does not depend on the kind of the step.
LEMMA InvParts ==
    ASSUME IInv
    PROVE  /\ queue \in [Agents -> Seq(Entry)] /\ outcome \in [Deliveries -> Outcome]
           /\ posts \in [Deliveries -> 0..MaxRetries] /\ AttemptsCount /\ Unsent
           /\ OpenPlaced /\ OneHand /\ OneEntry
           /\ \A a \in Agents : \A i \in DOMAIN queue[a] :
                 queue[a][i] \in Entry /\ queue[a][i].d \in Deliveries
<1>1. ASSUME NEW a \in Agents, NEW i \in DOMAIN queue[a]
      PROVE  queue[a][i] \in Entry /\ queue[a][i].d \in Deliveries
    <2>1. queue[a] \in Seq(Entry)
        BY DEF IInv, TypeOK
    <2> QED BY <2>1, Entries
<1> QED BY <1>1, PlacesFitIs DEF IInv, TypeOK, Unsent

\* The parts of PlacesFit in terms of hands and queues.
LEMMA PlacesNow ==
    ASSUME IInv
    PROVE  /\ \A d \in Deliveries : outcome[d] = "open" <=> InHands(d) \/ Queued(d)
           /\ \A d \in Deliveries : Queued(d) => d \notin Notices /\ ~InHands(d)
           /\ Unique
BY InvParts DEF OpenPlaced, OneEntry, InHands, Queued, Unique

LEMMA PlacesNext ==
    ASSUME queue' \in [Agents -> Seq(Entry)], Unique', OneHand',
           \A d \in Deliveries : outcome'[d] = "open" <=> InHands(d)' \/ Queued(d)',
           \A d \in Deliveries : Queued(d)' => d \notin Notices /\ ~InHands(d)'
    PROVE  PlacesFit'
<1>1. OpenPlaced'
    BY DEF OpenPlaced, InHands, Queued
<1>2. OneEntry'
    BY DEF OneEntry, Unique, InHands, Queued
<1> QED BY <1>1, <1>2, PlacesFitNext

\* A step that leaves the queues alone.
LEMMA QueuesAlone ==
    ASSUME IInv, UNCHANGED queue
    PROVE  Unique' /\ \A d : Queued(d)' <=> Queued(d)
<1>1. \A d, a, i : QueuedAs(d, a, i)' <=> QueuedAs(d, a, i)
    BY DEF QueuedAs
<1> QED BY <1>1, PlacesNow DEF Queued, Unique

LEMMA AsksKeeps ==
    ASSUME IInv, NEW g \in Goroutines, JobMoves(g), Asks(g)
    PROVE  Kept'
<1>1. /\ \A h \in Goroutines \ {g} : job'[h] = job[h]
      /\ g \in Deliveries /\ job[g].d = NoDelivery /\ job'[g].d = g /\ g # NoDelivery
      /\ job'[g].attempt = 0 /\ job'[g].pc = "spawned"
      /\ outcome[g] # "open" /\ UNCHANGED queue
    BY NamesDiffer DEF JobMoves, OnlyJob, Asks, Working
<1>2. outcome' = [outcome EXCEPT ![g] = "open"] /\ outcome' \in [Deliveries -> Outcome]
    BY InvParts DEF Asks, Settle, Outcome
<1>sent. /\ posts' \in [Deliveries -> 0..MaxRetries] /\ posts'[g] = 0
       /\ \A d \in Deliveries : d # g => posts'[d] = posts[d]
    BY <1>1, InvParts, BoundsType DEF Asks
<1>3. ~InHands(g) /\ ~Queued(g)
    BY <1>1, PlacesNow
<1>4. \A d \in Deliveries : InHands(d)' <=> InHands(d) \/ d = g
    BY <1>1, NamesDiffer DEF InHands
<1>5. Unique' /\ \A d : Queued(d)' <=> Queued(d)
    BY <1>1, QueuesAlone
<1>6. \A d \in Deliveries : outcome'[d] = "open" <=> outcome[d] = "open" \/ d = g
    BY <1>1, <1>2, InvParts
<1>7. OneHand'
    <2>1. \A h \in Goroutines : job[h].d # g
        BY <1>3 DEF InHands
    <2> QED BY <1>1, <2>1, InvParts DEF OneHand, Working
<1>8. queue' \in [Agents -> Seq(Entry)]
    BY <1>1, InvParts
<1>9. PlacesFit'
    <2>1. \A d \in Deliveries : outcome'[d] = "open" <=> InHands(d)' \/ Queued(d)'
        BY <1>4, <1>5, <1>6, PlacesNow
    <2>2. \A d \in Deliveries : Queued(d)' => d \notin Notices /\ ~InHands(d)'
        BY <1>3, <1>4, <1>5, PlacesNow
    <2> QED BY <1>5, <1>7, <1>8, <2>1, <2>2, PlacesNext
<1>10. AttemptsCount'
    <2>1. AttemptsCount
        BY InvParts
    <2>2. ASSUME NEW h \in Goroutines, Working(h)'
          PROVE  posts'[job'[h].d] = job'[h].attempt + Tried(job'[h].pc)
        <3>1. CASE h = g
            BY <1>1, <1>sent, <3>1 DEF Tried
        <3>2. CASE h # g
            <4>1. job'[h] = job[h] /\ Working(h)
                BY <1>1, <2>2, <3>2 DEF Working
            <4>2. job[h].d \in Deliveries /\ job[h].d # g
                BY <1>1, <4>1, InHand
            <4> QED BY <1>sent, <2>1, <4>1, <4>2 DEF AttemptsCount, Tried
        <3> QED BY <3>1, <3>2
    <2>3. \A d \in Deliveries : outcome'[d] = "gaveUp" => posts'[d] = MaxRetries
        BY <1>2, <1>sent, <2>1, InvParts DEF AttemptsCount
    <2>4. \A a \in Agents : \A i \in DOMAIN queue[a] : posts'[queue[a][i].d] = queue[a][i].attempt
        <3> SUFFICES ASSUME NEW a \in Agents, NEW i \in DOMAIN queue[a]
                     PROVE  posts'[queue[a][i].d] = queue[a][i].attempt
            OBVIOUS
        <3>1. queue[a] \in Seq(Entry)
            BY InvParts
        <3>2. i \in Nat /\ queue[a][i].d \in Deliveries
            BY <3>1, Entries
        <3>3. queue[a][i].d # g
            BY <1>3, <3>2 DEF Queued, QueuedAs
        <3> QED BY <1>sent, <2>1, <3>2, <3>3 DEF AttemptsCount
    <2> QED BY <1>1, <2>2, <2>3, <2>4 DEF AttemptsCount, Tried
<1>11. Unsent'
    BY <1>1, <1>2, <1>sent, InvParts DEF Unsent
<1> QED BY <1>1, <1>2, <1>9, <1>10, <1>11, <1>sent, InvParts DEF Kept

LEMMA SettlesKeeps ==
    ASSUME IInv, NEW g \in Goroutines, JobMoves(g), Settles(g)
    PROVE  Kept'
<1> DEFINE e == job[g].d
<1>1. /\ \A h \in Goroutines \ {g} : job'[h] = job[h]
      /\ Working(g) /\ job'[g].d = NoDelivery /\ ~Working(g)' /\ UNCHANGED queue
    BY DEF JobMoves, OnlyJob, Settles, Working
<1>2. /\ e \in Deliveries /\ e # NoDelivery /\ outcome[e] = "open"
      /\ \A h \in Goroutines : job[h].d = e => h = g
      /\ \A a \in Agents, i \in Nat : ~QueuedAs(e, a, i)
    BY <1>1, InHand DEF Working
<1>3. PICK o \in Outcome \ {"none", "open", "gaveUp"} : outcome' = [outcome EXCEPT ![e] = o]
    BY DEF Settles, Settle
<1>4. outcome' \in [Deliveries -> Outcome] /\ outcome'[e] = o
      /\ \A d \in Deliveries : d # e => outcome'[d] = outcome[d]
    BY <1>2, <1>3, InvParts
<1>5. Unique' /\ \A d : Queued(d)' <=> Queued(d)
    BY <1>1, QueuesAlone
<1> HIDE DEF e
<1>6. \A d \in Deliveries : InHands(d)' <=> InHands(d) /\ d # e
    BY <1>1, <1>2, NamesDiffer DEF InHands, e
<1>7. ~Queued(e)
    BY <1>2 DEF Queued
<1>8. \A d \in Deliveries : outcome'[d] = "open" <=> outcome[d] = "open" /\ d # e
    BY <1>3, <1>4
<1>9. OneHand' /\ queue' \in [Agents -> Seq(Entry)]
    BY <1>1, InvParts DEF OneHand, Working
<1>10. PlacesFit'
    <2>1. \A d \in Deliveries : outcome'[d] = "open" <=> InHands(d)' \/ Queued(d)'
        BY <1>5, <1>6, <1>7, <1>8, PlacesNow
    <2>2. \A d \in Deliveries : Queued(d)' => d \notin Notices /\ ~InHands(d)'
        BY <1>5, <1>6, PlacesNow
    <2> QED BY <1>5, <1>9, <2>1, <2>2, PlacesNext
<1>11. /\ posts' \in [Deliveries -> 0..MaxRetries]
       /\ \A d \in Deliveries : d # e => posts'[d] = posts[d]
    BY <1>1, PostsOnce DEF Settles, e
<1>12. AttemptsCount'
    <2>1. \A a \in Agents : \A i \in DOMAIN queue[a] : queue[a][i].d # e
        BY DEF IInv, PlacesFit, e
    <2>2. AttemptsCount
        BY InvParts
    <2>3. \A h \in Goroutines : Working(h)' =>
              /\ job'[h] = job[h] /\ Working(h) /\ posts'[job[h].d] = posts[job[h].d]
        BY <1>1, <1>2, <1>11, InHand DEF Working
    <2>4. \A d \in Deliveries : outcome'[d] = "gaveUp" => posts'[d] = MaxRetries
        BY <1>3, <1>4, <1>11, <2>2 DEF AttemptsCount
    <2>5. \A a \in Agents : \A i \in DOMAIN queue[a] : posts'[queue[a][i].d] = queue[a][i].attempt
        BY <1>11, <2>1, <2>2, InvParts DEF AttemptsCount
    <2> QED BY <1>1, <2>2, <2>3, <2>4, <2>5 DEF AttemptsCount
<1>13. Unsent'
    BY <1>3, <1>4, <1>11, InvParts DEF Unsent
<1> QED BY <1>1, <1>4, <1>10, <1>11, <1>12, <1>13, InvParts DEF Kept

\* An entry at the end of a queue.
LEMMA Appended ==
    ASSUME IInv, NEW a \in Agents, NEW e \in Entry, ~Queued(e.d),
           queue' = [queue EXCEPT ![a] = Append(@, e)]
    PROVE  /\ queue' \in [Agents -> Seq(Entry)] /\ Unique'
           /\ \A d \in Deliveries : Queued(d)' <=> Queued(d) \/ d = e.d
           /\ \A b \in Agents : \A i \in DOMAIN queue'[b] :
                 \/ queue'[b][i] = e
                 \/ i \in DOMAIN queue[b] /\ queue'[b][i] = queue[b][i]
<1> DEFINE n == Len(queue[a]) + 1
           s == Append(queue[a], e)
<1>1. queue[a] \in Seq(Entry) /\ n \in Nat /\ DOMAIN queue[a] = 1..(n - 1)
    BY Entries, InvParts
<1>2. /\ s \in Seq(Entry) /\ DOMAIN s = 1..n /\ s[n] = e
      /\ \A i \in 1..(n - 1) : s[i] = queue[a][i]
    BY <1>1, AppendProperties, LenProperties
<1>3. /\ queue' \in [Agents -> Seq(Entry)] /\ queue'[a] = s
      /\ \A b \in Agents \ {a} : queue'[b] = queue[b]
    <2> HIDE DEF s
    <2>1. queue' = [queue EXCEPT ![a] = s]
        BY DEF s
    <2> QED BY <1>2, <2>1, InvParts
<1> HIDE DEF s, n
<1>4. \A d, i : QueuedAs(d, a, i)' <=> QueuedAs(d, a, i) \/ (i = n /\ d = e.d)
    BY <1>1, <1>2, <1>3 DEF QueuedAs
<1>5. \A d, i : \A b \in Agents \ {a} : QueuedAs(d, b, i)' <=> QueuedAs(d, b, i)
    BY <1>3 DEF QueuedAs
<1>6. Unique'
    <2>1. \A d \in Deliveries, b, c \in Agents, i, j \in Nat :
              QueuedAs(d, b, i) /\ QueuedAs(d, c, j) => b = c /\ i = j
        BY InvParts DEF OneEntry
    <2> QED BY <1>4, <1>5, <2>1 DEF Unique, Queued
<1>7. \A d \in Deliveries : Queued(d)' <=> Queued(d) \/ d = e.d
    BY <1>1, <1>4, <1>5 DEF Queued
<1>8. \A b \in Agents : \A i \in DOMAIN queue'[b] :
          \/ queue'[b][i] = e
          \/ i \in DOMAIN queue[b] /\ queue'[b][i] = queue[b][i]
    BY <1>1, <1>2, <1>3
<1> QED BY <1>3, <1>6, <1>7, <1>8

\* Entries off the front of a queue.
LEMMA Shifted ==
    ASSUME IInv, NEW a \in Agents, NEW n \in Nat, Shifts(a, n)
    PROVE  /\ queue' \in [Agents -> Seq(Entry)] /\ Unique'
           /\ \A d \in Deliveries :
                 Queued(d)' <=> Queued(d) /\ ~\E i \in 1..n : queue[a][i].d = d
           /\ \A b \in Agents : \A i \in DOMAIN queue'[b] :
                 \E j \in DOMAIN queue[b] : queue'[b][i] = queue[b][j]
           /\ 1..n \subseteq DOMAIN queue[a]
<1> DEFINE m == Len(queue[a])
<1>1. queue[a] \in Seq(Entry) /\ m \in Nat /\ DOMAIN queue[a] = 1..m
    BY Entries, InvParts
<1> HIDE DEF m
<1>2. /\ queue' \in [Agents -> Seq(Entry)] /\ n <= m
      /\ \A b \in Agents \ {a} : queue'[b] = queue[b]
      /\ DOMAIN queue'[a] = 1..(m - n)
      /\ \A i \in 1..(m - n) : queue'[a][i] = queue[a][i + n]
    BY DEF Shifts, m
<1>3. \A d : \A i \in Nat : QueuedAs(d, a, i)' <=> i # 0 /\ QueuedAs(d, a, i + n)
    BY <1>1, <1>2 DEF QueuedAs
<1>4. \A d, i : \A b \in Agents \ {a} : QueuedAs(d, b, i)' <=> QueuedAs(d, b, i)
    BY <1>2 DEF QueuedAs
<1>5. \A d \in Deliveries, b, c \in Agents, i, j \in Nat :
          QueuedAs(d, b, i) /\ QueuedAs(d, c, j) => b = c /\ i = j
    BY InvParts DEF OneEntry
<1>6. Unique'
    <2> SUFFICES ASSUME NEW d \in Deliveries, NEW b \in Agents, NEW c \in Agents,
                        NEW i \in Nat, NEW j \in Nat, QueuedAs(d, b, i)', QueuedAs(d, c, j)'
                 PROVE  b = c /\ i = j
        BY DEF Unique
    <2> DEFINE x == IF b = a THEN i + n ELSE i
               y == IF c = a THEN j + n ELSE j
    <2>1. QueuedAs(d, b, x) /\ QueuedAs(d, c, y) /\ x \in Nat /\ y \in Nat
        BY <1>3, <1>4
    <2>2. b = c /\ x = y
        BY <1>5, <2>1
    <2> QED BY <2>2
<1>7. ASSUME NEW d \in Deliveries
      PROVE  Queued(d)' <=> Queued(d) /\ ~\E i \in 1..n : queue[a][i].d = d
    <2>1. ASSUME NEW b \in Agents, NEW i \in Nat, QueuedAs(d, b, i)'
          PROVE  Queued(d) /\ ~\E j \in 1..n : queue[a][j].d = d
        <3>1. PICK x \in Nat : QueuedAs(d, b, x) /\ (b = a => x = i + n /\ i # 0)
            BY <1>3, <1>4, <2>1
        <3>2. ASSUME NEW j \in 1..n, queue[a][j].d = d PROVE FALSE
            <4>1. QueuedAs(d, a, j) /\ j \in Nat
                BY <1>1, <1>2, <3>2 DEF QueuedAs
            <4>2. b = a /\ x = j
                BY <1>5, <3>1, <4>1
            <4> QED BY <3>1, <4>2
        <3> QED BY <3>1, <3>2 DEF Queued
    <2>2. ASSUME NEW b \in Agents, NEW i \in Nat, QueuedAs(d, b, i),
                 ~\E j \in 1..n : queue[a][j].d = d
          PROVE  Queued(d)'
        <3>1. CASE b # a
            BY <1>4, <2>2, <3>1 DEF Queued
        <3>2. CASE b = a
            <4>1. i \in 1..m /\ i \notin 1..n
                BY <1>1, <2>2, <3>2 DEF QueuedAs
            <4>2. i - n \in Nat /\ i - n # 0 /\ (i - n) + n = i
                BY <4>1, <1>1
            <4>3. QueuedAs(d, a, i - n)'
                BY <1>3, <2>2, <3>2, <4>2
            <4> QED BY <4>2, <4>3 DEF Queued
        <3> QED BY <3>1, <3>2
    <2> QED BY <2>1, <2>2 DEF Queued
<1>8. ASSUME NEW b \in Agents, NEW i \in DOMAIN queue'[b]
      PROVE  \E j \in DOMAIN queue[b] : queue'[b][i] = queue[b][j]
    <2>1. CASE b = a
        <3>1. i + n \in 1..m /\ queue'[a][i] = queue[a][i + n]
            BY <1>1, <1>2, <2>1
        <3> QED BY <1>1, <2>1, <3>1
    <2> QED BY <1>2, <2>1
<1>9. 1..n \subseteq DOMAIN queue[a]
    BY <1>1, <1>2
<1> QED BY <1>2, <1>6, <1>7, <1>8, <1>9

LEMMA QueuesKeeps ==
    ASSUME IInv, NEW g \in Goroutines, JobMoves(g), Queues(g)
    PROVE  Kept'
<1> DEFINE d0 == job[g].d
           a == Target[d0]
           e == [d |-> d0, attempt |-> job[g].attempt + 1]
<1>1. /\ \A h \in Goroutines \ {g} : job'[h] = job[h]
      /\ Working(g) /\ job'[g].d = NoDelivery /\ ~Working(g)' /\ UNCHANGED <<outcome, posts>>
    BY DEF JobMoves, OnlyJob, Queues, Working
<1>2. /\ d0 \in Deliveries /\ d0 # NoDelivery /\ outcome[d0] = "open"
      /\ posts[d0] = job[g].attempt + 1 /\ job[g].attempt \in Nat /\ job[g].attempt < MaxRetries
      /\ \A h \in Goroutines : job[h].d = d0 => h = g
      /\ \A b \in Agents, i \in Nat : ~QueuedAs(d0, b, i)
    BY <1>1, InHand DEF Working, Queues, Tried
<1>3. d0 \notin Notices
    BY WorkingIs, <1>1 DEF IInv, Fits, Queues, Goroutines
<1>4. e \in Entry /\ a \in Agents /\ e.d = d0 /\ e.attempt = job[g].attempt + 1
    BY <1>2, TargetType, BoundsType DEF Entry
<1>5. /\ queue' \in [Agents -> Seq(Entry)] /\ Unique'
      /\ \A d \in Deliveries : Queued(d)' <=> Queued(d) \/ d = d0
      /\ \A b \in Agents : \A i \in DOMAIN queue'[b] :
             queue'[b][i] = e \/ (i \in DOMAIN queue[b] /\ queue'[b][i] = queue[b][i])
    <2>1. queue' = [queue EXCEPT ![a] = Append(@, e)]
        BY DEF Queues
    <2>2. ~Queued(e.d)
        BY <1>2, <1>4 DEF Queued
    <2> HIDE DEF e, a, d0
    <2> QED BY <1>4, <2>1, <2>2, Appended
<1> HIDE DEF d0, a, e
<1>6. \A d \in Deliveries : InHands(d)' <=> InHands(d) /\ d # d0
    BY <1>1, <1>2, NamesDiffer DEF InHands, d0
<1>7. OneHand'
    BY <1>1, InvParts DEF OneHand, Working
<1>8. PlacesFit'
    <2>1. InHands(d0)
        BY DEF InHands, d0
    <2> QED BY <1>1, <1>2, <1>3, <1>5, <1>6, <1>7, <2>1, PlacesNow, PlacesNext
<1>9. AttemptsCount'
    <2>1. AttemptsCount
        BY InvParts
    <2>2. \A b \in Agents : \A i \in DOMAIN queue'[b] :
              posts[queue'[b][i].d] = queue'[b][i].attempt
        BY <1>2, <1>4, <1>5, <2>1 DEF AttemptsCount
    <2>3. \A h \in Goroutines : Working(h)' => job'[h] = job[h] /\ Working(h)
        BY <1>1 DEF Working
    <2> QED BY <1>1, <2>1, <2>2, <2>3 DEF AttemptsCount
<1> QED BY <1>1, <1>5, <1>8, <1>9, InvParts DEF Kept, Unsent

LEMMA PicksKeeps ==
    ASSUME IInv, NEW g \in Goroutines, JobMoves(g), Picks(g)
    PROVE  Kept'
<1>1. PICK a \in Agents :
          /\ Shifts(a, 1) /\ 1 \in DOMAIN queue[a]
          /\ job'[g].d = queue[a][1].d /\ job'[g].attempt = queue[a][1].attempt
          /\ job'[g].pc = "sleep"
    BY DEF Picks
<1> DEFINE d0 == queue[a][1].d
<1>2. /\ \A h \in Goroutines \ {g} : job'[h] = job[h]
      /\ ~Working(g) /\ job[g].d = NoDelivery /\ UNCHANGED <<outcome, posts>>
    BY DEF JobMoves, OnlyJob, Picks, Working
<1>3. /\ queue' \in [Agents -> Seq(Entry)] /\ Unique'
      /\ \A d \in Deliveries : Queued(d)' <=> Queued(d) /\ ~\E i \in 1..1 : queue[a][i].d = d
      /\ \A b \in Agents : \A i \in DOMAIN queue'[b] :
             \E j \in DOMAIN queue[b] : queue'[b][i] = queue[b][j]
    BY <1>1, Shifted
<1>4. \A d \in Deliveries : Queued(d)' <=> Queued(d) /\ d # d0
    BY <1>3
<1>5. d0 \in Deliveries /\ d0 # NoDelivery /\ Queued(d0)
    <2>1. d0 \in Deliveries
        BY <1>1, InvParts
    <2>2. QueuedAs(d0, a, 1)
        BY <1>1 DEF QueuedAs
    <2> QED BY <2>1, <2>2, NamesDiffer DEF Queued
<1>6. posts[d0] = queue[a][1].attempt /\ job'[g].d = d0
    BY <1>1, InvParts DEF AttemptsCount
<1> HIDE DEF d0
<1>7. \A d \in Deliveries : InHands(d)' <=> InHands(d) \/ d = d0
    BY <1>2, <1>6, NamesDiffer DEF InHands
<1>8. OneHand'
    <2>1. \A h \in Goroutines : job[h].d # d0
        BY <1>5, PlacesNow DEF InHands
    <2> QED BY <1>2, <1>6, <2>1, InvParts DEF OneHand, Working
<1>9. PlacesFit'
    BY <1>2, <1>3, <1>4, <1>5, <1>7, <1>8, PlacesNow, PlacesNext
<1>10. AttemptsCount'
    <2>1. AttemptsCount
        BY InvParts
    <2>2. \A b \in Agents : \A i \in DOMAIN queue'[b] :
              posts[queue'[b][i].d] = queue'[b][i].attempt
        BY <1>3, <2>1 DEF AttemptsCount
    <2>3. \A h \in Goroutines \ {g} : job'[h] = job[h] /\ (Working(h)' <=> Working(h))
        BY <1>2 DEF Working
    <2>4. posts[job'[g].d] = job'[g].attempt + (IF job'[g].pc \in {"trim", "push"} THEN 1 ELSE 0)
        <3>1. posts[d0] \in Nat
            BY <1>5, InvParts
        <3> QED BY <3>1, <1>1, <1>6
    <2> QED BY <1>2, <2>1, <2>2, <2>3, <2>4 DEF AttemptsCount
<1> QED BY <1>2, <1>3, <1>9, <1>10, InvParts DEF Kept, Unsent

LEMMA DropsKeeps ==
    ASSUME IInv, NEW g \in Goroutines, JobMoves(g), Drops(g)
    PROVE  Kept'
<1>1. PICK a \in Agents, n \in Nat, o \in Outcome \ {"none", "open"} :
          /\ Shifts(a, n)
          /\ outcome' = [d \in Deliveries |->
                IF \E i \in 1..n : queue[a][i].d = d THEN o ELSE outcome[d]]
          /\ o = "gaveUp" => \A i \in 1..n : queue[a][i].attempt = MaxRetries
    BY DEF Drops
<1> DEFINE Gone(d) == \E i \in 1..n : queue[a][i].d = d
<1>2. /\ \A h \in Goroutines : job'[h].d = job[h].d /\ job'[h].attempt = job[h].attempt
      /\ UNCHANGED posts
    BY DEF JobMoves, OnlyJob, Drops
<1>13. \A h \in Goroutines : Tried(job'[h].pc) = Tried(job[h].pc)
    BY DEF JobMoves, OnlyJob, Drops
<1>3. /\ queue' \in [Agents -> Seq(Entry)] /\ Unique'
      /\ \A d \in Deliveries : Queued(d)' <=> Queued(d) /\ ~Gone(d)
      /\ \A b \in Agents : \A i \in DOMAIN queue'[b] :
             \E j \in DOMAIN queue[b] : queue'[b][i] = queue[b][j]
      /\ 1..n \subseteq DOMAIN queue[a]
    BY <1>1, Shifted
<1>4. \A d \in Deliveries : Gone(d) => Queued(d)
    <2> SUFFICES ASSUME NEW d \in Deliveries, NEW i \in 1..n, queue[a][i].d = d
                 PROVE  Queued(d)
        OBVIOUS
    <2>1. QueuedAs(d, a, i) /\ i \in Nat
        BY <1>3 DEF QueuedAs
    <2> QED BY <2>1 DEF Queued
<1>5. \A d \in Deliveries : outcome'[d] = IF Gone(d) THEN o ELSE outcome[d]
    BY <1>1
<1>6. outcome' \in [Deliveries -> Outcome]
    BY <1>1, InvParts
<1>7. \A d \in Deliveries : Gone(d) /\ o = "gaveUp" => posts[d] = MaxRetries
    <2> SUFFICES ASSUME NEW i \in 1..n, o = "gaveUp" PROVE posts[queue[a][i].d] = MaxRetries
        OBVIOUS
    <2>1. i \in DOMAIN queue[a] /\ queue[a][i].attempt = MaxRetries
        BY <1>1, <1>3
    <2> QED BY <2>1, InvParts DEF AttemptsCount
<1> HIDE DEF Gone
<1>8. \A d \in Deliveries : InHands(d)' <=> InHands(d)
    BY <1>2 DEF InHands
<1>9. OneHand'
    BY <1>2, InvParts DEF OneHand, Working
<1>10. PlacesFit'
    <2>1. \A d \in Deliveries : outcome'[d] = "open" <=> outcome[d] = "open" /\ ~Gone(d)
        BY <1>5
    <2>2. \A d \in Deliveries : outcome'[d] = "open" <=> InHands(d)' \/ Queued(d)'
        BY <1>3, <1>4, <1>8, <2>1, PlacesNow
    <2>3. \A d \in Deliveries : Queued(d)' => d \notin Notices /\ ~InHands(d)'
        BY <1>3, <1>8, PlacesNow
    <2> QED BY <1>3, <1>9, <2>2, <2>3, PlacesNext
<1>11. AttemptsCount'
    <2>1. AttemptsCount
        BY InvParts
    <2>2. \A b \in Agents : \A i \in DOMAIN queue'[b] :
              posts[queue'[b][i].d] = queue'[b][i].attempt
        BY <1>3, <2>1 DEF AttemptsCount
    <2>3. \A d \in Deliveries : outcome'[d] = "gaveUp" => posts[d] = MaxRetries
        BY <1>5, <1>7, <2>1 DEF AttemptsCount
    <2>4. \A h \in Goroutines : Working(h)' => posts[job'[h].d] = job'[h].attempt + Tried(job'[h].pc)
        BY <1>2, <1>13, <2>1 DEF AttemptsCount, Tried, Working
    <2> QED BY <1>2, <2>2, <2>3, <2>4 DEF AttemptsCount, Tried
<1>12. Unsent'
    BY <1>2, <1>5, InvParts DEF Unsent
<1> QED BY <1>2, <1>3, <1>6, <1>10, <1>11, <1>12, InvParts DEF Kept

-----------------------------------------------------------------------------
(* Every step of a goroutine is of one of these kinds *)

Flows(g) == Stays(g) \/ Asks(g) \/ Settles(g) \/ Queues(g) \/ Picks(g) \/ Drops(g)

LEMMA FirstFlows ==
    ASSUME IInv, NEW d \in Deliveries, Dispatch(d) \/ Enter(d) \/ Acquire(d)
    PROVE  Flows(d)
<1>1. d \in Goroutines /\ TypeOK /\ JobsFit /\ PlacesFit
    BY DEF Goroutines, IInv
<1>2. CASE Dispatch(d)
    <2>1. ~Working(d)
        BY <1>1, <1>2, DispatchMoves
    <2>2. job'[d] = [pc |-> "spawned", d |-> d, attempt |-> 0]
        BY <1>1, <1>2 DEF Dispatch, TypeOK
    <2>3. Asks(d)
        BY <1>2, <2>1, <2>2 DEF Asks, Dispatch
    <2> QED BY <2>3 DEF Flows
<1>3. CASE Enter(d) \/ Acquire(d)
    <2>1. job'[d].d = job[d].d /\ job'[d].attempt = job[d].attempt
        BY <1>1, <1>3, EnterMoves
    <2>2. PICK pc \in {"waiting", "send"} : Proceed(d, pc) /\ pc \in PCs
        BY <1>3 DEF Enter, Acquire, PCs
    <2>3. job'[d].pc = pc /\ job[d].pc \in {"spawned", "waiting"}
        BY <1>1, <1>3, <2>2, Proceeds DEF TypeOK, Enter, Acquire
    <2>4. Tried(job'[d].pc) = 0 /\ Tried(job[d].pc) = 0
        BY <2>3 DEF Tried
    <2>5. UNCHANGED <<queue, outcome, posts>>
        BY <1>3 DEF Enter, Acquire
    <2> QED BY <2>1, <2>4, <2>5 DEF Flows, Stays
<1> QED BY <1>2, <1>3

\* The hand is empty after the return of sendWebhook.
LEMMA ReturnEmpties ==
    ASSUME TypeOK, NEW g \in Goroutines, Return(g)
    PROVE  job'[g].d = NoDelivery
BY Returns, FreeJob DEF TypeOK, Off, PCs

LEMMA TrimFlows ==
    ASSUME IInv, NEW g \in Goroutines, Trim(g)
    PROVE  Flows(g)
<1>1. TypeOK /\ JobsFit /\ Working(g) /\ InSem(job[g].pc)
    BY SendMoves DEF IInv, Send
<1>2. /\ job'[g].d = job[g].d /\ job'[g].attempt = job[g].attempt /\ job'[g].pc = "push"
      /\ job[g].pc = "trim" /\ UNCHANGED posts
    BY <1>1, Proceeds DEF Trim, TypeOK, PCs
<1>3. Tried(job'[g].pc) = Tried(job[g].pc)
    BY <1>2 DEF Tried
<1> DEFINE a == Target[job[g].d]
           q == queue[a]
           n == IF Len(q) < MaxQueue THEN 0 ELSE Len(q) - (MaxQueue - 1)
<1>4. CASE UNCHANGED <<queue, outcome>>
    BY <1>2, <1>3, <1>4 DEF Flows, Stays
<1>5. CASE /\ queue' = [queue EXCEPT ![a] = SubSeq(q, n + 1, Len(q))]
           /\ outcome' = [d \in Deliveries |->
                            IF \E i \in 1..n : q[i].d = d THEN "trimmed" ELSE outcome[d]]
    <2>1. a \in Agents
        BY <1>1, InHand, TargetType
    <2>2. q \in Seq(Entry) /\ Len(q) \in Nat
        BY <2>1, InvParts, Entries
    <2>3. n \in Nat /\ n \in 0..Len(q)
        BY <2>2, BoundsType
    <2> HIDE DEF n
    <2>4. Shifts(a, n)
        BY <1>5, <2>1, <2>3, InvParts, SubSeqShifts
    <2>5. "trimmed" \in Outcome \ {"none", "open"} /\ "trimmed" # "gaveUp"
        BY DEF Outcome
    <2>6. "trimmed" \in Dropped
        BY DEF Dropped
    <2>7. Drops(g)
        BY <1>2, <1>3, <1>5, <2>1, <2>3, <2>4, <2>5, <2>6 DEF Drops
    <2> QED BY <2>7 DEF Flows
<1> QED BY <1>4, <1>5 DEF Trim, QueueOf

LEMMA SendFlows ==
    ASSUME IInv, NEW g \in Goroutines, Send(g)
    PROVE  Flows(g)
<1>1. TypeOK /\ JobsFit /\ Working(g) /\ InSem(job[g].pc)
    BY SendMoves DEF IInv
<1>2. /\ {"refused", "delivered", "failed", "lost"} \subseteq Outcome \ {"none", "open", "gaveUp"}
      /\ {"refused", "lost"} \subseteq Dropped
    BY DEF Outcome, Dropped
<1>3. Posts(g) <=> job[g].pc = "send" /\ posts' = [posts EXCEPT ![job[g].d] = @ + 1]
    BY DEF Posts
<1>4. ASSUME Refuse(g) PROVE Settles(g)
    BY <1>1, <1>2, <1>4, ReturnEmpties DEF Refuse, Settles
<1>5. ASSUME Deliver(g) PROVE Settles(g)
    BY <1>1, <1>2, <1>3, <1>5, ReturnEmpties DEF Deliver, Settles
<1>6. ASSUME PostFails(g) PROVE Settles(g) \/ Stays(g)
    <2>1. CASE job[g].d \in Notices
        BY <1>1, <1>2, <1>3, <1>6, <2>1, ReturnEmpties DEF PostFails, Settles
    <2>2. CASE job[g].d \notin Notices
        <3>1. Proceed(g, "trim") /\ UNCHANGED <<queue, outcome>> /\ Posts(g)
            BY <1>3, <1>6, <2>2 DEF PostFails
        <3>2. job'[g].d = job[g].d /\ job'[g].attempt = job[g].attempt /\ job'[g].pc = "trim"
            BY <1>1, <3>1, Proceeds DEF TypeOK, PCs
        <3> QED BY <3>1, <3>2 DEF Stays, Tried
    <2> QED BY <2>1, <2>2
<1>7. ASSUME Push(g) PROVE Settles(g) \/ Queues(g)
    BY <1>1, <1>2, <1>7, ReturnEmpties DEF Push, Settles, Queues
<1> QED BY <1>4, <1>5, <1>6, <1>7, TrimFlows DEF Send, Flows

LEMMA DrainerFlows ==
    ASSUME IInv, NEW k \in Drainers, Tick(k) \/ Pop(k) \/ Leave(k) \/ Wake(k)
    PROVE  Flows(k)
<1>1. k \in Goroutines /\ TypeOK /\ JobsFit /\ PlacesFit /\ k \notin Deliveries
    BY NamesDiffer DEF Goroutines, IInv
<1>2. Serves[k] \in Agents
    BY ServesType
<1>3. ASSUME Tick(k) \/ Leave(k)
      PROVE  /\ job'[k].d = job[k].d /\ job'[k].attempt = job[k].attempt
             /\ Tried(job'[k].pc) = 0 /\ Tried(job[k].pc) = 0 /\ UNCHANGED posts
    <2>1. ~Working(k) /\ Fits(k) /\ JobMoves(k) /\ job'[k].d = NoDelivery
        <3>1. job[k].pc # "sleep"
            BY <1>3, FreeJob DEF Tick, Leave, Off, PCs
        <3>2. ~Wake(k)
            BY <3>1 DEF Wake
        <3> QED BY <1>1, <1>3, <3>2, DrainerMoves, WorkingIs
    <2>2. job[k].pc \in {"off", "pop", "reply"} /\ job'[k].pc \in {"off", "pop"}
        BY <1>1, <1>3, FreeJob DEF Tick, Leave, Off, TypeOK, PCs
    <2>3. job[k].attempt = 0 /\ job'[k].attempt = 0
        BY <1>1, <2>1, <2>2, FreeJob DEF Fits, JobMoves, PCs
    <2> QED BY <1>3, <2>1, <2>2, <2>3 DEF Tried, Working, Tick, Leave
<1>4. ASSUME Tick(k) PROVE Stays(k)
    BY <1>3, <1>4 DEF Stays, Tick
<1>5. ASSUME Leave(k) PROVE Stays(k) \/ Drops(k)
    <2>1. CASE UNCHANGED <<queue, outcome>>
        BY <1>3, <1>5, <2>1 DEF Stays
    <2>2. CASE /\ queue[Serves[k]] # <<>>
               /\ queue' = [queue EXCEPT ![Serves[k]] = Tail(@)]
               /\ Settle(Head(queue[Serves[k]]).d, "lost")
        <3>1. Shifts(Serves[k], 1) /\ Head(queue[Serves[k]]) = queue[Serves[k]][1]
            BY <1>1, <1>2, <2>2, TailShifts DEF TypeOK
        <3>2. outcome' = [d \in Deliveries |->
                 IF \E i \in 1..1 : queue[Serves[k]][i].d = d THEN "lost" ELSE outcome[d]]
            <4>1. outcome' = [outcome EXCEPT ![queue[Serves[k]][1].d] = "lost"]
                BY <2>2, <3>1 DEF Settle
            <4>2. \A d : (\E i \in 1..1 : queue[Serves[k]][i].d = d)
                            <=> queue[Serves[k]][1].d = d
                OBVIOUS
            <4> QED BY <4>1, <4>2, InvParts
        <3>3. "lost" \in Outcome \ {"none", "open"} /\ "lost" # "gaveUp" /\ "lost" \in Dropped
            BY DEF Outcome, Dropped
        <3> QED BY <1>2, <1>3, <1>5, <3>1, <3>2, <3>3 DEF Drops
    <2> QED BY <1>5, <2>1, <2>2 DEF Leave
<1>6. ASSUME Pop(k) PROVE Picks(k) \/ Drops(k)
    <2> DEFINE e == queue[Serves[k]][1]
    <2>1. /\ ~Working(k) /\ Shifts(Serves[k], 1) /\ 1 \in DOMAIN queue[Serves[k]]
          /\ e \in Entry /\ UNCHANGED posts
          /\ IF e.attempt >= MaxRetries
             THEN Settle(e.d, "gaveUp") /\ job'[k] = Free("pop")
             ELSE /\ UNCHANGED outcome
                  /\ job'[k] = [pc |-> "sleep", d |-> e.d, attempt |-> e.attempt]
        BY <1>1, <1>6, PopMoves DEF Pop
    <2>2. CASE ~(e.attempt >= MaxRetries)
        BY <1>2, <2>1, <2>2 DEF Picks
    <2>3. CASE e.attempt >= MaxRetries
        <3>1. e.attempt = MaxRetries
            BY <2>1, <2>3, JobKinds, BoundsType
        <3>2. outcome' = [d \in Deliveries |->
                 IF \E i \in 1..1 : queue[Serves[k]][i].d = d THEN "gaveUp" ELSE outcome[d]]
            <4>1. outcome' = [outcome EXCEPT ![e.d] = "gaveUp"]
                BY <2>1, <2>3 DEF Settle
            <4>2. \A d : (\E i \in 1..1 : queue[Serves[k]][i].d = d) <=> e.d = d
                OBVIOUS
            <4> QED BY <4>1, <4>2, InvParts
        <3>3. "gaveUp" \in Outcome \ {"none", "open"}
            BY DEF Outcome
        <3>4. /\ job'[k].d = job[k].d /\ job'[k].attempt = job[k].attempt
              /\ Tried(job'[k].pc) = Tried(job[k].pc)
            <4>1. job[k] = Free(job[k].pc) /\ job[k].pc \in {"pop", "reply"}
                BY <1>1, <1>6, WorkingIs DEF Pop, LPopSent, Fits
            <4> QED BY <2>1, <2>3, <4>1, FreeJob DEF PCs, Tried
        <3> QED BY <1>2, <2>1, <2>3, <3>1, <3>2, <3>3, <3>4 DEF Drops
    <2> QED BY <2>2, <2>3
<1>7. ASSUME Wake(k) PROVE Stays(k) \/ Settles(k)
    <2>1. Working(k) /\ UNCHANGED <<queue, posts>> /\ job[k].pc = "sleep"
        BY <1>1, <1>7, WakeMoves DEF Wake
    <2>2. CASE Proceed(k, "send") /\ UNCHANGED outcome
        <3>1. job'[k].d = job[k].d /\ job'[k].attempt = job[k].attempt /\ job'[k].pc = "send"
            BY <1>1, <2>2, Proceeds DEF TypeOK, PCs
        <3> QED BY <2>1, <2>2, <3>1 DEF Stays, Tried
    <2>3. CASE Settle(job[k].d, "stale") /\ job' = [job EXCEPT ![k] = Free("pop")]
        <3>1. job'[k].d = NoDelivery
            BY <1>1, <2>3, FreeJob DEF TypeOK, PCs
        <3>2. "stale" \in Outcome \ {"none", "open", "gaveUp"} /\ "stale" \in Dropped
            BY DEF Outcome, Dropped
        <3> QED BY <2>1, <2>3, <3>1, <3>2 DEF Settles
    <2> QED BY <1>7, <2>2, <2>3 DEF Wake
<1> QED BY <1>4, <1>5, <1>6, <1>7 DEF Flows

LEMMA EveryStepFlows ==
    ASSUME IInv, NEW g \in Goroutines, GoroutineStep(g)
    PROVE  JobMoves(g) /\ Flows(g)
BY EveryStepMoves, FirstFlows, SendFlows, DrainerFlows DEF GoroutineStep, IInv

-----------------------------------------------------------------------------
(* The inductive invariant *)

\* Only Acquire takes a token, and only one that is there.
LEMMA SemBounded ==
    ASSUME TypeOK, JobsFit, NEW g \in Goroutines, GoroutineStep(g), JobMoves(g)
    PROVE  sem' <= Slots
<1>1. sem \in Nat /\ sem <= Slots /\ Slots \in Nat
    BY BoundsType DEF TypeOK
<1>2. CASE g \in Deliveries /\ Acquire(g)
    BY <1>1, <1>2 DEF Acquire
<1>3. CASE Send(g)
    <2>1. CASE Return(g)
        BY <1>1, <2>1 DEF Return
    <2>2. CASE ~Return(g)
        <3>1. UNCHANGED sem
            BY <1>3, <2>2 DEF Send, Refuse, Deliver, PostFails, Trim, Push
        <3> QED BY <1>1, <3>1
    <2> QED BY <2>1, <2>2
<1>4. CASE ~Send(g) /\ ~(g \in Deliveries /\ Acquire(g))
    <2>1. UNCHANGED sem
        BY <1>4 DEF GoroutineStep, Dispatch, Enter, Tick, Pop, Leave, Wake
    <2> QED BY <1>1, <2>1
<1> QED BY <1>2, <1>3, <1>4

LEMMA GoroutineKeeps ==
    ASSUME IInv, NEW g \in Goroutines, GoroutineStep(g)
    PROVE  IInv'
<1>1. JobMoves(g) /\ Flows(g) /\ TypeOK /\ JobsFit /\ NoLeak
    BY EveryStepFlows DEF IInv
<1>2. Kept'
    BY <1>1, StaysKeeps, AsksKeeps, SettlesKeeps, QueuesKeeps, PicksKeeps, DropsKeeps DEF Flows
<1>3. NoLeak' /\ sem' \in Nat /\ wg' \in Nat
    BY <1>1, CountStep DEF JobMoves, Counters
<1>4. sem' \in 0..Slots
    BY <1>1, <1>3, SemBounded, BoundsType
<1>5. /\ job' \in [Goroutines -> Job] /\ phase' = phase /\ phase # "down"
      /\ \A h \in Goroutines : Fits(h)'
    <2>1. \A h \in Goroutines \ {g} : Fits(h)' <=> Fits(h)
        BY <1>1 DEF JobMoves, OnlyJob, Fits
    <2> QED BY <1>1, <2>1, JobsFitIs DEF JobMoves
<1>6. JobsFit'
    BY <1>5 DEF JobsFit, Fits, Goroutines
<1>7. TypeOK'
    BY <1>1, <1>2, <1>3, <1>4, <1>5 DEF TypeOK, Kept
<1> QED BY <1>2, <1>3, <1>6, <1>7 DEF IInv, Kept, Unsent

\* The end of the process: nobody is left, and what was in hand is lost.
LEMMA DieKeeps ==
    ASSUME IInv, Die
    PROVE  IInv'
<1>1. /\ job' = [g \in Goroutines |-> Off] /\ UNCHANGED <<queue, posts>>
      /\ sem' = 0 /\ wg' = 0 /\ phase' = "down"
      /\ \A d \in Deliveries : outcome'[d] = IF InHands(d) THEN "lost" ELSE outcome[d]
      /\ outcome' \in [Deliveries -> Outcome]
    BY InvParts DEF Die, InHands, Outcome
<1>2. Off \in Job /\ Off.pc = "off" /\ Off.d = NoDelivery /\ Off.attempt = 0
    BY FreeJob DEF Off, PCs
<1>3. \A g \in Goroutines : job'[g] = Off
    BY <1>1
<1>4. JobsFit'
    BY <1>1, <1>2, <1>3 DEF JobsFit, Goroutines, Off
<1>5. NoLeak'
    <2>1. Counted' = {} /\ Holders' = {}
        BY <1>2, <1>3 DEF Counted, Holders, Goroutines
    <2>2. Cardinality({}) = 0
        BY FS_EmptySet
    <2> QED BY <1>1, <2>1, <2>2 DEF NoLeak
<1>6. PlacesFit'
    <2>1. \A d \in Deliveries : ~InHands(d)'
        BY <1>2, <1>3, NamesDiffer DEF InHands
    <2>2. \A d, a, i : QueuedAs(d, a, i)' <=> QueuedAs(d, a, i)
        BY <1>1 DEF QueuedAs
    <2>3. \A d \in Deliveries : Queued(d)' <=> Queued(d)
        BY <2>2 DEF Queued
    <2>4. OneHand'
        BY <1>2, <1>3 DEF OneHand, Working
    <2>5. Unique'
        BY <2>2, InvParts DEF Unique, OneEntry
    <2>6. \A d \in Deliveries : outcome'[d] = "open" <=> InHands(d)' \/ Queued(d)'
        BY <1>1, <2>1, <2>3, PlacesNow
    <2> QED BY <1>1, <2>1, <2>3, <2>4, <2>5, <2>6, PlacesNow, PlacesNext, InvParts
<1>7. AttemptsCount'
    BY <1>1, <1>2, <1>3, InvParts DEF AttemptsCount, Working
<1>8. Unsent'
    BY <1>1, InvParts DEF Unsent
<1>9. TypeOK'
    BY <1>1, <1>2, InvParts, BoundsType DEF TypeOK
<1> QED BY <1>4, <1>5, <1>6, <1>7, <1>8, <1>9 DEF IInv, Unsent

\* The other steps of main.go leave the goroutines where they are: Stop only tells
\* apart whether an LPOP has been sent.
MainStep == Stop \/ LoopExit \/ StopReturns \/ Start \/ UNCHANGED vars

LEMMA MainMoves ==
    ASSUME TypeOK, JobsFit, MainStep
    PROVE  /\ UNCHANGED <<queue, sem, outcome, posts>> /\ job' \in [Goroutines -> Job]
           /\ \A g \in Goroutines :
                 /\ job'[g].d = job[g].d /\ job'[g].attempt = job[g].attempt /\ Fits(g)'
                 /\ \A pc \in PCs \ {"pop", "reply"} : job'[g].pc = pc <=> job[g].pc = pc
           /\ Stop \/ UNCHANGED job
<1>1. \A g \in Goroutines : job[g] \in Job /\ Fits(g)
    BY WorkingIs
<1>2. CASE UNCHANGED job
    BY <1>1, <1>2 DEF MainStep, Stop, LoopExit, StopReturns, Start, vars, TypeOK, Fits
<1>3. CASE Stop
    <2>1. PICK sent \in SUBSET {k \in Drainers : job[k].pc = "pop"} :
              job' = [g \in Goroutines |-> IF g \in sent THEN Free("reply") ELSE job[g]]
        BY <1>3 DEF Stop
    <2>2. /\ Free("reply") \in Job /\ Free("reply").pc = "reply"
          /\ Free("reply").d = NoDelivery /\ Free("reply").attempt = 0
          /\ Free("pop").pc = "pop" /\ Free("pop").d = NoDelivery /\ Free("pop").attempt = 0
        BY FreeJob DEF PCs
    <2>3. \A g \in sent : g \in Drainers /\ g \notin Deliveries /\ job[g].pc = "pop"
        BY NamesDiffer
    <2>4. \A g \in sent : job[g] = Free("pop")
        BY <1>1, <2>3 DEF Fits, Goroutines
    <2>5. job' \in [Goroutines -> Job]
        BY <1>1, <2>1, <2>2
    <2>6. ASSUME NEW g \in Goroutines
          PROVE  /\ job'[g].d = job[g].d /\ job'[g].attempt = job[g].attempt /\ Fits(g)'
                 /\ \A pc \in PCs \ {"pop", "reply"} : job'[g].pc = pc <=> job[g].pc = pc
        <3>1. CASE g \in sent
            <4>1. job'[g] = Free("reply") /\ job[g] = Free("pop")
                BY <2>1, <2>4, <3>1
            <4> QED BY <2>2, <2>3, <3>1, <4>1 DEF Fits
        <3>2. CASE g \notin sent
            <4>1. job'[g] = job[g]
                BY <2>1, <3>2
            <4> QED BY <1>1, <4>1 DEF Fits
        <3> QED BY <3>1, <3>2
    <2> QED BY <1>3, <2>5, <2>6 DEF Stop
<1> QED BY <1>2, <1>3 DEF MainStep, LoopExit, StopReturns, Start, vars

\* They move the phase, and count the loop of the ticker.
LEMMA PhaseKeeps ==
    ASSUME IInv, MainStep
    PROVE  IInv'
<1>1. /\ UNCHANGED <<queue, sem, outcome, posts>> /\ job' \in [Goroutines -> Job]
      /\ \A g \in Goroutines :
            /\ job'[g].d = job[g].d /\ job'[g].attempt = job[g].attempt /\ Fits(g)'
            /\ job'[g].pc = "trim" <=> job[g].pc = "trim"
            /\ job'[g].pc = "push" <=> job[g].pc = "push"
            /\ job'[g].pc = "send" <=> job[g].pc = "send"
            /\ job'[g].pc = "off" <=> job[g].pc = "off"
            /\ job'[g].pc = "spawned" <=> job[g].pc = "spawned"
    BY MainMoves DEF IInv, PCs
<1>2. PlacesFit' /\ AttemptsCount' /\ Unsent'
    <2>1. PlacesFit' /\ Unsent'
        BY <1>1 DEF IInv, PlacesFit, Unsent, Working, QueuedAs
    <2>2. \A g \in Goroutines : Working(g)' =>
              posts'[job'[g].d] = job'[g].attempt + Tried(job'[g].pc)
        BY <1>1 DEF IInv, AttemptsCount, Working, Tried
    <2>3. AttemptsCount'
        BY <1>1, <2>2 DEF IInv, AttemptsCount, Tried
    <2> QED BY <2>1, <2>3
<1>3. JobsFit'
    <2>1. phase' = "down" => \A g \in Goroutines : job'[g] = Off
        <3>1. phase' = "down" => phase = "down" /\ UNCHANGED job
            BY DEF MainStep, Stop, LoopExit, StopReturns, Start, vars
        <3> QED BY <3>1 DEF IInv, JobsFit
    <2> QED BY <1>1, <2>1 DEF JobsFit, Fits, Goroutines
<1>4. Counted' = Counted /\ Holders' = Holders /\ Cardinality(Counted) \in Nat
    <2>1. Counted \in SUBSET Goroutines
        BY DEF Counted
    <2>2. Cardinality(Counted) \in Nat
        BY <2>1, FiniteGoroutines, FS_CardinalityType
    <2> QED BY <1>1, <2>2 DEF Counted, Holders, Goroutines
<1>5. Start => Cardinality(Counted) = 0
    <2>1. ASSUME Start PROVE Counted = {}
        BY <2>1, FreeJob DEF Start, IInv, JobsFit, Counted, Off, PCs
    <2> QED BY <2>1, FS_EmptySet
<1> HIDE DEF Counted, Holders
<1>6. NoLeak' /\ wg' \in Nat
    BY <1>1, <1>4, <1>5
    DEF IInv, TypeOK, NoLeak, MainStep, Stop, LoopExit, StopReturns, Start, vars
<1>7. phase' \in {"up", "stopping", "draining", "stopped", "down"}
    BY DEF IInv, TypeOK, MainStep, Stop, LoopExit, StopReturns, Start, vars
<1>8. TypeOK'
    BY <1>1, <1>6, <1>7 DEF IInv, TypeOK
<1> QED BY <1>2, <1>3, <1>6, <1>8 DEF IInv, Unsent

LEMMA IInvInit == Init => IInv
<1> SUFFICES ASSUME Init PROVE IInv
    OBVIOUS
<1>1. \A g \in Goroutines : job[g] = Off
    BY DEF Init
<1>2. Off \in Job /\ Off.pc = "off" /\ Off.d = NoDelivery /\ Off.attempt = 0 /\ Off = Free("off")
    BY FreeJob DEF Off, PCs
<1>3. TypeOK
    BY <1>2, BoundsType DEF Init, TypeOK, Outcome
<1>4. JobsFit
    BY <1>1, <1>2 DEF Init, JobsFit, Goroutines
<1>5. NoLeak
    <2>1. Counted = {} /\ Holders = {}
        BY <1>1, <1>2 DEF Counted, Holders, Goroutines
    <2> QED BY <2>1, FS_EmptySet DEF Init, NoLeak
<1>6. \A a \in Agents : DOMAIN queue[a] = {}
    BY DEF Init
<1>7. PlacesFit
    BY <1>1, <1>2, <1>6, NamesDiffer DEF Init, PlacesFit, Working
<1>8. AttemptsCount
    BY <1>1, <1>2, <1>6 DEF Init, AttemptsCount, Working
<1> QED BY <1>3, <1>4, <1>5, <1>7, <1>8 DEF IInv, Init

LEMMA IInvStep == IInv /\ [Next]_vars => IInv'
BY NextCases, GoroutineKeeps, DieKeeps, PhaseKeeps DEF MainStep

\* The registers have their types, every goroutine has in hand what belongs to
\* its step, the counters count, every delivery is where it should be, and the
\* attempts are the requests that were sent.
THEOREM InductiveInv == Spec => []IInv
BY IInvInit, IInvStep, PTL DEF Spec

\* No path of a webhook leaks a token or a count, whatever fails on it, for any
\* number of deliveries and drainers.
THEOREM NoLeaks == Spec => []NoLeak
<1>1. IInv => NoLeak
    BY DEF IInv
<1> QED BY <1>1, InductiveInv, PTL

\* The attempt an entry carries is the number of requests sent for it, through
\* queues, drainers, crashes and restarts, and giving up means MaxRetries of them.
THEOREM AttemptsAreCounted == Spec => []AttemptsCount
<1>1. IInv => AttemptsCount
    BY DEF IInv
<1> QED BY <1>1, InductiveInv, PTL

-----------------------------------------------------------------------------
(* What follows from the invariant *)

\* A delivery under way is in exactly one place and a settled one in none, for
\* any number of drainers of a queue, across shutdowns and crashes.
LEMMA PlacesCounted == IInv => OnePlace
<1> SUFFICES ASSUME IInv, NEW d \in Deliveries
             PROVE  Cardinality(Places(d)) = IF outcome[d] = "open" THEN 1 ELSE 0
    BY DEF OnePlace
<1>1. \A p \in Places(d) :
          \/ p \in Goroutines /\ job[p].d = d
          \/ \E a \in Agents, i \in Nat : p = <<a, i>> /\ QueuedAs(d, a, i)
    <2> SUFFICES ASSUME NEW p \in Places(d), ~(p \in Goroutines /\ job[p].d = d)
                 PROVE  \E a \in Agents, i \in Nat : p = <<a, i>> /\ QueuedAs(d, a, i)
        OBVIOUS
    <2>1. PICK a \in Agents : p \in {a} \X DOMAIN queue[a] /\ queue[p[1]][p[2]].d = d
        BY DEF Places
    <2>2. PICK i \in DOMAIN queue[a] : p = <<a, i>>
        BY <2>1
    <2>3. queue[a] \in Seq(Entry)
        BY InvParts
    <2>4. i \in Nat
        BY <2>3, Entries
    <2> QED BY <2>1, <2>2, <2>4 DEF QueuedAs
<1>2. \A g \in Goroutines : job[g].d = d => g \in Places(d)
    BY DEF Places
<1>3. \A a \in Agents, i \in Nat : QueuedAs(d, a, i) => <<a, i>> \in Places(d)
    BY DEF Places, QueuedAs
<1>4. CASE outcome[d] # "open"
    <2>1. ~InHands(d) /\ ~Queued(d)
        BY <1>4, PlacesNow
    <2>2. Places(d) = {}
        BY <1>1, <2>1 DEF InHands, Queued
    <2> QED BY <1>4, <2>2, FS_EmptySet
<1>5. CASE outcome[d] = "open"
    <2>1. \E p : Places(d) = {p}
        <3>1. CASE InHands(d)
            <4>1. PICK g \in Goroutines : job[g].d = d
                BY <3>1 DEF InHands
            <4>2. ~Queued(d)
                BY <3>1, PlacesNow
            <4>3. \A h \in Goroutines : job[h].d = d => h = g
                BY <4>1, InHand, NamesDiffer DEF Working
            <4>4. Places(d) = {g}
                BY <1>1, <1>2, <4>1, <4>2, <4>3 DEF Queued
            <4> QED BY <4>4
        <3>2. CASE ~InHands(d)
            <4>1. PICK a \in Agents, i \in Nat : QueuedAs(d, a, i)
                BY <1>5, <3>2, PlacesNow DEF Queued
            <4>2. \A b \in Agents, j \in Nat : QueuedAs(d, b, j) => a = b /\ i = j
                BY <4>1, InvParts DEF OneEntry
            <4>3. Places(d) = {<<a, i>>}
                BY <1>1, <1>3, <3>2, <4>1, <4>2 DEF InHands
            <4> QED BY <4>3
        <3> QED BY <3>1, <3>2
    <2>2. PICK p : Places(d) = {p}
        BY <2>1
    <2> QED BY <1>5, <2>2, FS_Singleton
<1> QED BY <1>4, <1>5

\* A delivery under way is in one goroutine or one queue entry, a settled one in
\* none, however many drainers pop one queue at the same time.
THEOREM InOnePlace == Spec => []OnePlace
BY PlacesCounted, InductiveInv, PTL

\* Stop returns when the wait group is at zero, which no drainer survives, and a
\* ticker that has stopped starts none.
LEMMA StoppedStep ==
    ASSUME IInv, RetriesStopped, [Next]_vars
    PROVE  RetriesStopped'
<1> SUFFICES ASSUME phase' = "stopped", NEW k \in Drainers PROVE job'[k] = Off
    BY DEF RetriesStopped
<1>1. k \in Goroutines
    BY DEF Goroutines
<1>2. CASE StopReturns
    <2>1. Cardinality(Counted) = 0
        <3>1. Counted \in SUBSET Goroutines
            BY DEF Counted
        <3>2. Cardinality(Counted) \in Nat
            BY <3>1, FiniteGoroutines, FS_CardinalityType
        <3> HIDE DEF Counted
        <3> QED BY <1>2, <3>2 DEF IInv, NoLeak, StopReturns
    <2>2. Counted = {}
        BY <2>1, FiniteGoroutines, FS_EmptySet DEF Counted
    <2>3. job[k].pc \in {"off", "spawned"}
        BY <1>1, <2>2 DEF Counted
    <2>4. job[k] = Off
        BY <2>3 DEF IInv, JobsFit, Off
    <2> QED BY <1>2, <2>4 DEF StopReturns
<1>3. CASE \E g \in Goroutines : GoroutineStep(g)
    <2>1. PICK g \in Goroutines : GoroutineStep(g)
        BY <1>3
    <2>2. JobMoves(g)
        BY <2>1, EveryStepMoves DEF IInv
    <2>3. phase = "stopped" /\ \A l \in Drainers : job[l] = Off
        BY <2>2 DEF JobMoves, RetriesStopped
    <2>4. g \notin Drainers
        <3> SUFFICES ASSUME g \in Drainers PROVE FALSE
            OBVIOUS
        <3>1. job[g].pc = "off"
            BY <2>3, FreeJob DEF Off, PCs
        <3>2. ~Send(g)
            BY <3>1 DEF Send, Refuse, Deliver, PostFails, Trim, Push
        <3>3. ~Tick(g) /\ ~Pop(g) /\ ~Leave(g) /\ ~Wake(g)
            BY <2>3, <3>1 DEF Tick, Pop, LPopSent, Leave, Wake
        <3> QED BY <2>1, <3>2, <3>3, NamesDiffer DEF GoroutineStep
    <2> QED BY <1>1, <2>2, <2>3, <2>4 DEF JobMoves, OnlyJob
<1>4. CASE UNCHANGED vars
    BY <1>4 DEF vars, RetriesStopped
<1>5. ~Stop /\ ~LoopExit /\ ~Die /\ ~Start
    BY DEF Stop, LoopExit, Die, Start
<1> QED BY <1>2, <1>3, <1>4, <1>5, NextCases

\* When Stop has returned no drainer is left, whatever was under way.
THEOREM NoRetryAfterStop == Spec => []RetriesStopped
<1>1. Init => RetriesStopped
    BY DEF Init, RetriesStopped
<1> QED BY <1>1, StoppedStep, InductiveInv, PTL DEF Spec

\* How many can be between LTRIM and RPUSH: the first senders among them hold a
\* token each.
FewPush ==
    \A a \in Agents : /\ Cardinality(Pushing(a)) \in Nat /\ Cardinality(Drainers) \in Nat
                      /\ Cardinality(Pushing(a)) <= Slots + Cardinality(Drainers)

LEMMA PushingBounded == IInv => FewPush
<1> SUFFICES ASSUME IInv, NEW a \in Agents
             PROVE  /\ Cardinality(Pushing(a)) \in Nat /\ Cardinality(Drainers) \in Nat
                    /\ Cardinality(Pushing(a)) <= Slots + Cardinality(Drainers)
    BY DEF FewPush
<1>1. IsFiniteSet(Drainers) /\ IsFiniteSet(Holders) /\ IsFiniteSet(Pushing(a))
    BY FinitelyMany, FiniteGoroutines DEF Holders, Pushing, Goroutines
<1>2. Pushing(a) \subseteq Holders \cup Drainers
    BY DEF Pushing, Holders, Goroutines
<1>3. /\ Cardinality(Drainers) \in Nat /\ Cardinality(Holders) \in Nat
      /\ Cardinality(Pushing(a)) \in Nat
    BY <1>1, FS_CardinalityType
<1>4. IsFiniteSet(Holders \cup Drainers) /\ Cardinality(Holders \cap Drainers) \in Nat
      /\ Cardinality(Holders \cup Drainers)
            = Cardinality(Holders) + Cardinality(Drainers) - Cardinality(Holders \cap Drainers)
    BY <1>1, FS_Union, FS_Intersection, FS_CardinalityType
<1>5. Cardinality(Pushing(a)) <= Cardinality(Holders \cup Drainers)
    BY <1>2, <1>4, FS_Subset
<1>6. Cardinality(Holders) = sem /\ sem <= Slots /\ sem \in Nat /\ Slots \in Nat
    BY BoundsType DEF IInv, TypeOK, NoLeak
<1> HIDE DEF Holders, Pushing
<1>7. Cardinality(Holders \cup Drainers) <= Slots + Cardinality(Drainers)
    BY <1>3, <1>4, <1>6
<1>8. Cardinality(Holders \cup Drainers) \in Nat
    BY <1>4, FS_CardinalityType
<1> QED BY <1>3, <1>5, <1>6, <1>7, <1>8

\* The room a step leaves: one that is not a trim makes the queue longer only by
\* taking a goroutine out from between the two commands.
LEMMA RoomKept ==
    ASSUME IInv, NEW g \in Goroutines, GoroutineStep(g), ~Trim(g), NEW a \in Agents
    PROVE  /\ Len(queue'[a]) \in Nat /\ Cardinality(Pushing(a)') \in Nat
           /\ Len(queue'[a]) + Cardinality(Pushing(a)')
                 <= Len(queue[a]) + Cardinality(Pushing(a))
<1>1. JobMoves(g) /\ Flows(g) /\ IInv'
    BY EveryStepFlows, GoroutineKeeps
<1>2. queue[a] \in Seq(Entry) /\ queue'[a] \in Seq(Entry)
    BY <1>1 DEF IInv, TypeOK
<1>3. Len(queue[a]) \in Nat /\ Len(queue'[a]) \in Nat
    BY <1>2, LenProperties
<1>4. /\ Pushing(a) \in SUBSET Goroutines /\ Pushing(a)' \in SUBSET Goroutines
      /\ Pushing(a) \ {g} = Pushing(a)' \ {g}
      /\ g \in Pushing(a) <=> job[g].pc = "push" /\ Target[job[g].d] = a
      /\ g \in Pushing(a)' => job'[g].pc = "push"
    BY <1>1 DEF Pushing, JobMoves, OnlyJob
<1>5. /\ Cardinality(Pushing(a)) \in Nat /\ Cardinality(Pushing(a)') \in Nat
      /\ Cardinality(Pushing(a)') + (IF g \in Pushing(a) THEN 1 ELSE 0)
            = Cardinality(Pushing(a)) + (IF g \in Pushing(a)' THEN 1 ELSE 0)
    BY <1>4, CountOne
<1>6. g \notin Pushing(a)'
    <2>1. CASE Send(g)
        <3>1. CASE Return(g)
            <4>1. job'[g] = IF g \in Deliveries THEN Off ELSE Free("pop")
                BY <3>1, Returns DEF IInv, TypeOK
            <4> QED BY <1>4, <4>1, FreeJob DEF Off, PCs
        <3>2. CASE ~Return(g)
            <4>1. Proceed(g, "trim")
                BY <2>1, <3>2 DEF Send, Refuse, Deliver, PostFails, Push
            <4>2. job'[g].pc = "trim"
                BY <4>1, Proceeds DEF IInv, TypeOK, PCs
            <4> QED BY <1>4, <4>2
        <3> QED BY <3>1, <3>2
    <2>2. CASE ~Send(g)
        <3>1. job'[g].pc \in {"spawned", "waiting", "send", "pop", "sleep", "off"}
            <4>1. job \in [Goroutines -> Job]
                BY DEF IInv, TypeOK
            <4>2. ASSUME Enter(g) \/ Acquire(g) \/ (Wake(g) /\ Proceed(g, "send"))
                  PROVE  job'[g].pc \in {"waiting", "send"}
                <5>1. PICK pc \in {"waiting", "send"} : Proceed(g, pc) /\ pc \in PCs
                    BY <4>2 DEF Enter, Acquire, PCs
                <5> QED BY <4>1, <5>1, Proceeds
            <4>3. ASSUME Pop(g) PROVE job'[g].pc \in {"pop", "sleep"}
                BY <4>1, <4>3, FreeJob DEF Pop, PCs
            <4> QED BY <2>2, <4>1, <4>2, <4>3, FreeJob
                DEF GoroutineStep, Dispatch, Tick, Leave, Wake, Off, PCs
        <3> QED BY <1>4, <3>1
    <2> QED BY <2>1, <2>2
<1> DEFINE out == IF g \in Pushing(a) THEN 1 ELSE 0
<1>7. out \in {0, 1}
    OBVIOUS
<1>8. Len(queue'[a]) <= Len(queue[a]) + out
    <2>1. ASSUME UNCHANGED queue PROVE Len(queue'[a]) = Len(queue[a])
        BY <2>1
    <2>2. ASSUME NEW b \in Agents, NEW n \in Nat, Shifts(b, n)
          PROVE  Len(queue'[a]) <= Len(queue[a])
        <3>1. CASE a = b
            <4>1. DOMAIN queue'[a] = 1..(Len(queue[a]) - n) /\ n <= Len(queue[a])
                BY <2>2, <3>1, <1>3 DEF Shifts
            <4>2. DOMAIN queue'[a] = 1..Len(queue'[a])
                BY <1>2, LenProperties
            <4> QED BY <1>3, <4>1, <4>2
        <3>2. CASE a # b
            BY <1>3, <2>2, <3>2 DEF Shifts
        <3> QED BY <3>1, <3>2
    <2>3. ASSUME Queues(g) PROVE Len(queue'[a]) <= Len(queue[a]) + out
        <3> DEFINE e == [d |-> job[g].d, attempt |-> job[g].attempt + 1]
        <3>1. CASE Target[job[g].d] = a
            <4>1. g \in Pushing(a)
                BY <1>4, <2>3, <3>1 DEF Queues
            <4>2. e \in Entry
                BY <2>3, InHand, BoundsType DEF Queues, Entry
            <4>3. queue'[a] = Append(queue[a], e)
                BY <2>3, <3>1, InvParts DEF Queues
            <4>4. Len(queue'[a]) = Len(queue[a]) + 1
                BY <1>2, <4>2, <4>3, AppendProperties
            <4> QED BY <1>3, <4>1, <4>4
        <3>2. CASE Target[job[g].d] # a
            <4>1. queue'[a] = queue[a]
                BY <2>3, <3>2, InvParts DEF Queues
            <4> HIDE DEF out
            <4> QED BY <1>3, <1>7, <4>1
        <3> QED BY <3>1, <3>2
    <2>4. ASSUME Picks(g) \/ Drops(g) PROVE Len(queue'[a]) <= Len(queue[a])
        <3>1. PICK b \in Agents, n \in Nat : Shifts(b, n)
            BY <2>4 DEF Picks, Drops
        <3> QED BY <3>1, <2>2
    <2>5. \/ Queues(g)
          \/ Len(queue'[a]) = Len(queue[a]) \/ Len(queue'[a]) <= Len(queue[a])
        BY <1>1, <2>1, <2>4 DEF Flows, Stays, Asks, Settles
    <2> HIDE DEF out
    <2> QED BY <1>3, <1>7, <2>3, <2>5
<1>9. Cardinality(Pushing(a)') + out = Cardinality(Pushing(a))
    BY <1>5, <1>6
<1> HIDE DEF out
<1> QED BY <1>3, <1>5, <1>7, <1>8, <1>9

\* A trim that does not fail leaves room for all that may push at once.
LEMMA TrimMakesRoom ==
    ASSUME IInv, NEW g \in Goroutines, Trim(g), ~TrimFails, QueueBound, NEW a \in Agents
    PROVE  Len(queue'[a]) + Cardinality(Pushing(a)') < MaxQueue + Slots + Cardinality(Drainers)
<1>1. JobMoves(g) /\ Working(g) /\ InSem(job[g].pc) /\ IInv'
    BY SendMoves, GoroutineKeeps DEF IInv, Send, GoroutineStep
<1>2. /\ job'[g].d = job[g].d /\ OnlyJob(g)
    BY Proceeds DEF Trim, IInv, TypeOK, PCs
<1> DEFINE b == Target[job[g].d]
           n == IF Len(queue[b]) < MaxQueue THEN 0 ELSE Len(queue[b]) - (MaxQueue - 1)
<1>3. b \in Agents /\ queue[b] \in Seq(Entry) /\ Len(queue[b]) \in Nat
    BY <1>1, InHand, TargetType, InvParts, LenProperties
<1>4. queue' = [queue EXCEPT ![b] = SubSeq(queue[b], n + 1, Len(queue[b]))]
    BY DEF Trim, QueueOf
<1>5. CASE a # b
    <2>1. Pushing(a)' = Pushing(a)
        BY <1>2, <1>5 DEF Pushing, OnlyJob
    <2>2. queue'[a] = queue[a]
        BY <1>3, <1>4, <1>5, InvParts
    <2> QED BY <2>1, <2>2 DEF QueueBound
<1>6. CASE a = b
    <2>1. n \in 0..Len(queue[b])
        BY <1>3, BoundsType
    <2>2. DOMAIN queue'[b] = 1..(Len(queue[b]) - n)
        <3> HIDE DEF n, b
        <3> QED BY <1>3, <1>4, <2>1, InvParts, SubSeqShifts DEF Shifts
    <2>3. queue'[a] \in Seq(Entry)
        BY <1>1 DEF IInv, TypeOK
    <2>4. Len(queue'[a]) \in Nat /\ DOMAIN queue'[a] = 1..Len(queue'[a])
        BY <2>3, LenProperties
    <2>5. Len(queue'[a]) < MaxQueue
        <3>1. Len(queue[b]) - n < MaxQueue /\ Len(queue[b]) - n \in Nat
            <4> DEFINE l == Len(queue[b])
            <4>1. l \in Nat /\ n = IF l < MaxQueue THEN 0 ELSE l - (MaxQueue - 1)
                BY <1>3
            <4> HIDE DEF n, l
            <4>2. l - n < MaxQueue /\ l - n \in Nat
                BY <4>1, BoundsType
            <4> QED BY <4>2 DEF l
        <3> HIDE DEF n, b
        <3>2. Len(queue'[a]) = Len(queue[b]) - n
            BY <1>6, <2>2, <2>4, <3>1
        <3> QED BY <3>1, <3>2
    <2>6. /\ Cardinality(Pushing(a)') \in Nat /\ Cardinality(Drainers) \in Nat
          /\ Cardinality(Pushing(a)') <= Slots + Cardinality(Drainers)
        <3>1. IInv' => FewPush'
            BY PushingBounded, PTL
        <3> QED BY <1>1, <3>1 DEF FewPush
    <2> HIDE DEF Pushing
    <2> QED BY <2>4, <2>5, <2>6, BoundsType
<1> QED BY <1>5, <1>6

LEMMA RoomStep ==
    ASSUME IInv, QueueBound, ~TrimFails, [Next]_vars
    PROVE  QueueBound'
<1> SUFFICES ASSUME NEW a \in Agents
             PROVE  Len(queue'[a]) + Cardinality(Pushing(a)')
                        < MaxQueue + Slots + Cardinality(Drainers)
    BY DEF QueueBound
<1>1. queue[a] \in Seq(Entry)
    BY InvParts
<1>2. /\ Len(queue[a]) \in Nat /\ MaxQueue \in Nat /\ Slots \in Nat
      /\ Cardinality(Pushing(a)) \in Nat /\ Cardinality(Drainers) \in Nat
    BY <1>1, LenProperties, PushingBounded, BoundsType DEF FewPush
<1>3. Len(queue[a]) + Cardinality(Pushing(a)) < MaxQueue + Slots + Cardinality(Drainers)
    BY DEF QueueBound
<1>4. CASE \E g \in Goroutines : GoroutineStep(g)
    <2>1. PICK g \in Goroutines : GoroutineStep(g)
        BY <1>4
    <2>2. CASE Trim(g)
        BY <2>2, TrimMakesRoom
    <2>3. CASE ~Trim(g)
        <3>1. /\ Len(queue'[a]) \in Nat /\ Cardinality(Pushing(a)') \in Nat
              /\ Len(queue'[a]) + Cardinality(Pushing(a)')
                    <= Len(queue[a]) + Cardinality(Pushing(a))
            BY <2>1, <2>3, RoomKept
        <3> QED BY <1>2, <1>3, <3>1
    <2> QED BY <2>2, <2>3
<1>5. CASE Die
    <2>1. \A g \in Goroutines : job'[g].pc = "off"
        BY <1>5, FreeJob DEF Die, Off, PCs
    <2>2. Pushing(a)' = {} /\ queue' = queue
        BY <1>5, <2>1 DEF Pushing, Die
    <2>3. Cardinality(Pushing(a)') = 0 /\ queue'[a] = queue[a]
        BY <2>2, FS_EmptySet
    <2> QED BY <1>2, <1>3, <2>3
<1>6. CASE Stop \/ LoopExit \/ StopReturns \/ Start \/ UNCHANGED vars
    <2>1. UNCHANGED queue /\ \A g \in Goroutines :
              job'[g].d = job[g].d /\ (job'[g].pc = "push" <=> job[g].pc = "push")
        BY <1>6, MainMoves DEF IInv, MainStep, PCs
    <2>2. Pushing(a)' = Pushing(a) /\ queue'[a] = queue[a]
        BY <2>1 DEF Pushing
    <2> QED BY <1>3, <2>2
<1> QED BY <1>4, <1>5, <1>6, NextCases

\* A retry queue exceeds its limit at most by the goroutines that can be between
\* LTRIM and RPUSH at once, as long as no LTRIM fails.
THEOREM QueuesBounded == ~TrimFails /\ Spec => []QueueBound
<1> SUFFICES ASSUME ~TrimFails PROVE Spec => []QueueBound
    OBVIOUS
<1>1. Init => QueueBound
    <2> SUFFICES ASSUME Init, NEW a \in Agents
                 PROVE  Len(queue[a]) + Cardinality(Pushing(a))
                            < MaxQueue + Slots + Cardinality(Drainers)
        BY DEF QueueBound
    <2>1. Pushing(a) = {}
        BY FreeJob DEF Init, Pushing, Off, PCs
    <2>2. Cardinality(Pushing(a)) = 0
        BY <2>1, FS_EmptySet
    <2>3. queue[a] = <<>> /\ Len(queue[a]) = 0
        BY DEF Init
    <2>4. Cardinality(Drainers) \in Nat
        BY FinitelyMany, FS_CardinalityType
    <2> QED BY <2>2, <2>3, <2>4, BoundsType
<1>2. IInv /\ QueueBound /\ [Next]_vars => QueueBound'
    BY RoomStep
<1> QED BY <1>1, <1>2, InductiveInv, PTL DEF Spec

-----------------------------------------------------------------------------
(* The contract *)

Fates == [d \in Deliveries |-> Fate(d)]

\* How the fates follow the outcomes.
LEMMA FateMoves ==
    ASSUME IInv, NEW d \in Deliveries, NEW o \in Outcome,
           outcome' = [outcome EXCEPT ![d] = o]
    PROVE  Fates' = [Fates EXCEPT ![d] = IF o \in Dropped THEN "dropped" ELSE o]
<1>1. outcome'[d] = o /\ \A e \in Deliveries : e # d => outcome'[e] = outcome[e]
    BY InvParts
<1> QED BY <1>1 DEF Fates, Fate

LEMMA FateDrops ==
    ASSUME IInv, NEW D \in SUBSET Deliveries, NEW o \in Dropped,
           outcome' = [d \in Deliveries |-> IF d \in D THEN o ELSE outcome[d]]
    PROVE  Fates' = [d \in Deliveries |-> IF d \in D THEN "dropped" ELSE Fates[d]]
BY DEF Fates, Fate

LEMMA FateOpen ==
    \A d \in Deliveries : outcome[d] \in {"none", "open"} => Fates[d] = outcome[d]
BY DEF Fates, Fate, Dropped

\* A request is within the budget: a notice comes to its first only.
LEMMA WithinBudget ==
    ASSUME IInv, NEW g \in Goroutines, Posts(g)
    PROVE  /\ job[g].d \in Deliveries /\ Fates[job[g].d] = "open"
           /\ posts[job[g].d] < Contract!Budget(job[g].d)
<1>1. Working(g)
    BY WorkingIs DEF IInv, Posts
<1>2. /\ job[g].d \in Deliveries /\ outcome[job[g].d] = "open"
      /\ posts[job[g].d] = job[g].attempt + Tried(job[g].pc) /\ Tried(job[g].pc) = 0
      /\ job[g].attempt \in Nat /\ job[g].attempt < MaxRetries
    BY <1>1, InHand DEF Posts, Tried
<1>3. job[g].d \in Notices => job[g].attempt = 0
    BY <1>1, WorkingIs DEF IInv, Fits, Goroutines
<1>4. posts[job[g].d] < IF job[g].d \in Notices THEN 1 ELSE MaxRetries
    BY <1>2, <1>3, BoundsType
<1> QED BY <1>2, <1>4, FateOpen DEF Contract!Budget

LEMMA FlowsKeep ==
    ASSUME IInv, NEW g \in Goroutines, JobMoves(g), Flows(g)
    PROVE  Contract!Next \/ UNCHANGED <<Fates, posts>>
<1> DEFINE d == job[g].d
<1>1. CASE UNCHANGED <<outcome, posts>>
    BY <1>1 DEF Fates, Fate
<1>2. CASE Stays(g) /\ Posts(g)
    <2>1. d \in Deliveries /\ Fates[d] = "open" /\ posts[d] < Contract!Budget(d)
        BY <1>2, WithinBudget
    <2>2. d \notin Notices
        <3>1. Tried(job'[g].pc) = 1 /\ job'[g].d = d
            <4>1. Tried(job[g].pc) = 0 /\ Working(g)
                BY <1>2, WorkingIs DEF IInv, Posts, Tried
            <4>2. posts' # posts
                <5>1. posts[d] \in Nat /\ posts'[d] = posts[d] + 1
                    BY <1>2, <2>1, InvParts DEF Posts
                <5> QED BY <5>1
            <4> QED BY <1>2, <4>1, <4>2 DEF Stays
        <3>2. job'[g].pc \in {"trim", "push"}
            BY <3>1 DEF Tried
        <3> QED BY <2>1, <3>1, <3>2 DEF JobMoves, Fits, Goroutines
    <2>3. Fates' = [Fates EXCEPT ![d] = "open"]
        BY <1>2, <2>1 DEF Stays, Fates, Fate
    <2>4. posts' = [posts EXCEPT ![d] = @ + 1]
        BY <1>2 DEF Posts
    <2> HIDE DEF d
    <2>5. Contract!Attempt(d)
        BY <2>1, <2>2, <2>3, <2>4 DEF Contract!Attempt, Contract!Request, Fates
    <2> QED BY <2>1, <2>5 DEF Contract!Next
<1>3. CASE Asks(g)
    <2>1. /\ outcome' = [outcome EXCEPT ![g] = "open"] /\ g \in Deliveries
          /\ outcome[g] # "open" /\ posts' = [posts EXCEPT ![g] = 0]
        BY <1>3 DEF Asks, Settle
    <2>2. Fates' = [Fates EXCEPT ![g] = "open"] /\ Fates[g] # "open"
        BY <2>1, FateMoves DEF Outcome, Dropped, Fates, Fate
    <2>3. Contract!Ask(g)
        BY <2>1, <2>2 DEF Contract!Ask, Fates
    <2> QED BY <2>1, <2>3 DEF Contract!Next
<1>4. CASE Settles(g)
    <2>1. PICK o \in Outcome \ {"none", "open", "gaveUp"} :
              /\ outcome' = [outcome EXCEPT ![d] = o]
              /\ \/ o \in Dropped /\ UNCHANGED posts
                 \/ (o = "delivered" \/ (o = "failed" /\ d \in Notices)) /\ Posts(g)
        BY <1>4 DEF Settles, Settle
    <2>2. d \in Deliveries /\ outcome[d] = "open" /\ Fates[d] = "open"
        BY <1>4, InHand, FateOpen DEF Settles
    <2>3. Fates' = [Fates EXCEPT ![d] = IF o \in Dropped THEN "dropped" ELSE o]
        BY <2>1, <2>2, FateMoves
    <2>4. CASE Posts(g)
        <3>1. posts[d] < Contract!Budget(d) /\ posts' = [posts EXCEPT ![d] = @ + 1]
            BY <2>4, WithinBudget DEF Posts
        <3>2. \/ Fates' = [Fates EXCEPT ![d] = "delivered"]
              \/ d \in Notices /\ Fates' = [Fates EXCEPT ![d] = "dropped"]
              \/ o \in Dropped /\ UNCHANGED posts
            BY <2>1, <2>3 DEF Dropped
        <3>3. ~UNCHANGED posts
            <4>1. posts[d] \in Nat
                BY <2>2, InvParts
            <4> HIDE DEF d
            <4> QED BY <2>2, <3>1, <4>1, InvParts
        <3> HIDE DEF d
        <3>4. Contract!Attempt(d)
            BY <2>2, <3>1, <3>2, <3>3 DEF Contract!Attempt, Contract!Request, Fates
        <3> QED BY <2>2, <3>4 DEF Contract!Next
    <2>5. CASE o \in Dropped /\ UNCHANGED posts
        <3>1. outcome' = [e \in Deliveries |-> IF e \in {d} THEN o ELSE outcome[e]]
            BY <2>1, <2>2, InvParts
        <3>2. {d} \in SUBSET Deliveries
            BY <2>2
        <3> HIDE DEF d
        <3>3. Fates' = [e \in Deliveries |-> IF e \in {d} THEN "dropped" ELSE Fates[e]]
            BY <2>5, <3>1, <3>2, FateDrops
        <3>4. Contract!Drop({d})
            BY <2>2, <2>5, <3>3 DEF Contract!Drop, Fates
        <3> QED BY <3>2, <3>4 DEF Contract!Next
    <2> QED BY <2>1, <2>4, <2>5
<1>5. CASE Drops(g)
    <2>1. PICK a \in Agents, n \in Nat, o \in Outcome \ {"none", "open"} :
              /\ Shifts(a, n)
              /\ outcome' = [e \in Deliveries |->
                    IF \E i \in 1..n : queue[a][i].d = e THEN o ELSE outcome[e]]
              /\ IF o = "gaveUp" THEN n = 1 /\ \A i \in 1..n : queue[a][i].attempt = MaxRetries
                                 ELSE o \in Dropped
              /\ UNCHANGED posts
        BY <1>5 DEF Drops
    <2> DEFINE D == {e \in Deliveries : \E i \in 1..n : queue[a][i].d = e}
    <2>2. \A i \in 1..n : /\ i \in DOMAIN queue[a] /\ queue[a][i].d \in Deliveries
                          /\ outcome[queue[a][i].d] = "open"
        <3>1. 1..n \subseteq DOMAIN queue[a]
            BY <2>1, Shifted
        <3>2. \A i \in 1..n : QueuedAs(queue[a][i].d, a, i) /\ i \in Nat
            BY <3>1 DEF QueuedAs
        <3> QED BY <3>1, <3>2, InvParts, PlacesNow DEF Queued
    <2>3. \A e \in D : Fates[e] = "open"
        BY <2>2, FateOpen
    <2>4. CASE o = "gaveUp"
        <3> DEFINE e == queue[a][1].d
        <3>1. 1 \in 1..n /\ queue[a][1].attempt = MaxRetries /\ (\A i \in 1..n : i = 1)
            BY <2>1, <2>4
        <3>2. e \in Deliveries /\ outcome[e] = "open" /\ posts[e] = MaxRetries
            BY <2>2, <3>1, InvParts DEF AttemptsCount
        <3>3. outcome' = [outcome EXCEPT ![e] = "gaveUp"]
            BY <2>1, <2>4, <3>1, InvParts
        <3> HIDE DEF e
        <3>4. Fates' = [Fates EXCEPT ![e] = "gaveUp"] /\ Fates[e] = "open"
            BY <3>2, <3>3, FateMoves, FateOpen DEF Outcome, Dropped
        <3>5. Contract!GiveUp(e)
            BY <2>1, <3>2, <3>4 DEF Contract!GiveUp, Fates
        <3> QED BY <3>2, <3>5 DEF Contract!Next
    <2>5. CASE o # "gaveUp"
        <3>1. outcome' = [e \in Deliveries |-> IF e \in D THEN o ELSE outcome[e]]
            BY <2>1
        <3> HIDE DEF D
        <3>2. D \in SUBSET Deliveries /\ o \in Dropped
            BY <2>1, <2>5 DEF D
        <3>3. Fates' = [e \in Deliveries |-> IF e \in D THEN "dropped" ELSE Fates[e]]
            BY <3>1, <3>2, FateDrops
        <3>4. Contract!Drop(D)
            BY <2>1, <2>3, <3>3 DEF Contract!Drop, Fates
        <3> QED BY <3>2, <3>4 DEF Contract!Next
    <2> QED BY <2>4, <2>5
<1> QED BY <1>1, <1>2, <1>3, <1>4, <1>5 DEF Flows, Stays, Queues, Picks

LEMMA DieKeepsContract ==
    ASSUME IInv, Die
    PROVE  Contract!Next
<1> DEFINE D == {d \in Deliveries : InHands(d)}
<1>1. outcome' = [d \in Deliveries |-> IF d \in D THEN "lost" ELSE outcome[d]] /\ UNCHANGED posts
    BY DEF Die, InHands
<1>2. \A d \in D : Fates[d] = "open"
    BY PlacesNow, FateOpen
<1> HIDE DEF D
<1>3. D \in SUBSET Deliveries /\ "lost" \in Dropped
    BY DEF D, Dropped
<1>4. Fates' = [d \in Deliveries |-> IF d \in D THEN "dropped" ELSE Fates[d]]
    BY <1>1, <1>3, FateDrops
<1>5. Contract!Drop(D)
    BY <1>1, <1>2, <1>4 DEF Contract!Drop, Fates
<1> QED BY <1>3, <1>5 DEF Contract!Next

LEMMA ContractInit == Init => Contract!Init
<1> SUFFICES ASSUME Init PROVE Contract!Init
    OBVIOUS
<1>1. \A d \in Deliveries : Fate(d) = "none"
    BY DEF Init, Fate, Dropped
<1> QED BY <1>1 DEF Init, Contract!Init

LEMMA ContractStep == IInv /\ [Next]_vars => [Contract!Next]_(Contract!vars)
<1> SUFFICES ASSUME IInv, [Next]_vars PROVE Contract!Next \/ UNCHANGED <<Fates, posts>>
    BY DEF Contract!vars, Fates
<1>1. ASSUME NEW g \in Goroutines, GoroutineStep(g)
      PROVE  Contract!Next \/ UNCHANGED <<Fates, posts>>
    BY <1>1, EveryStepFlows, FlowsKeep
<1>2. CASE Stop \/ LoopExit \/ StopReturns \/ Start \/ UNCHANGED vars
    <2>1. UNCHANGED <<outcome, posts>>
        BY <1>2 DEF Stop, LoopExit, StopReturns, Start, vars
    <2> QED BY <2>1 DEF Fates, Fate
<1> QED BY <1>1, <1>2, NextCases, DieKeepsContract

\* Through queues, drainers, shutdowns and crashes a delivery is sent at most
\* MaxRetries times, a notice once, nothing that is settled is sent again before
\* its name is asked for anew, and only what has been tried so often is given up.
THEOREM ContractKept == Spec => KeepsContract
BY ContractInit, ContractStep, InductiveInv, PTL DEF Spec, KeepsContract, Contract!Spec
=============================================================================
