------------------------- MODULE TaskDispatchProofs -------------------------
(***************************************************************************)
(* Theorems about TaskDispatch, for all sets of tasks and agents, all      *)
(* lists of parents and any number of faults: what anybody has read about  *)
(* a task's parents one by one still holds when it is used.                *)
(***************************************************************************)
EXTENDS TaskDispatch, FiniteSetTheorems, TLAPS

-----------------------------------------------------------------------------
(* Counting the completed rows against reading the parents one by one *)

NoRepeat(list) == \A i, k \in DOMAIN list : i # k => list[i] # list[k]

Named(list) == {p \in Tasks : \E i \in DOMAIN list : list[i] = p}

\* The rows that a list names are at most as many as its entries, and as many
\* only if none is named twice.
LEMMA NamedCount ==
    ASSUME NEW list \in Seq(Tasks)
    PROVE  /\ IsFiniteSet(Named(list))
           /\ Cardinality(Named(list)) <= Len(list)
           /\ Cardinality(Named(list)) = Len(list) <=> NoRepeat(list)
<1> DEFINE S == 1..Len(list)
<1>1. Len(list) \in Nat /\ DOMAIN list = S /\ list \in [S -> Tasks]
    OBVIOUS
<1>2. IsFiniteSet(S) /\ Cardinality(S) = Len(list)
    BY <1>1, FS_Interval
<1>3. list \in Surjection(S, Named(list))
    BY <1>1 DEF Surjection, Named
<1>4. list \in Injection(S, Named(list)) <=> NoRepeat(list)
    BY <1>1, <1>3 DEF Injection, Surjection, IsInjective, NoRepeat
<1> QED BY <1>2, <1>3, <1>4, FS_Surjection

\* ClaimTask's count says that every parent is completed and none is named twice.
LEMMA CountMeansAll ==
    ASSUME NEW list \in Seq(Tasks)
    PROVE  AreParentsCompleted(list) <=>
              /\ \A i \in DOMAIN list : status[list[i]] = "completed"
              /\ NoRepeat(list)
<1> DEFINE T == {p \in Tasks : status[p] = "completed" /\ \E i \in DOMAIN list : list[i] = p}
<1>1. AreParentsCompleted(list) <=> Cardinality(T) = Len(list)
    BY DEF AreParentsCompleted, CompletedRows
<1>2. T \in SUBSET Named(list)
    BY DEF Named
<1>3. /\ IsFiniteSet(T) /\ Cardinality(T) <= Cardinality(Named(list))
      /\ Cardinality(Named(list)) = Cardinality(T) => Named(list) = T
    BY <1>2, NamedCount, FS_Subset
<1>4. Cardinality(T) \in Nat /\ Cardinality(Named(list)) \in Nat /\ Len(list) \in Nat
    BY <1>3, NamedCount, FS_CardinalityType
<1>5. Named(list) = T <=> \A i \in DOMAIN list : status[list[i]] = "completed"
    BY DEF Named
<1> HIDE DEF T
<1>6. Cardinality(Named(list)) <= Len(list)
    BY NamedCount
<1>7. Cardinality(T) = Len(list) <=> Named(list) = T /\ Cardinality(Named(list)) = Len(list)
    BY <1>3, <1>4, <1>6
<1> QED BY <1>1, <1>5, <1>7, NamedCount

\* The same of a task's own parents.
LEMMA CountOfParents ==
    ASSUME TypeOK, NEW t \in Tasks
    PROVE  AreParentsCompleted(parents[t]) <=> ParentsDone(t) /\ ~Repeats(t)
<1>1. parents[t] \in Seq(Tasks)
    BY DEF TypeOK
<1> QED BY <1>1, CountMeansAll DEF NoRepeat, ParentsDone, Repeats

-----------------------------------------------------------------------------
(* What never changes *)

\* Nothing undoes a completion, and parents are only written with the row.
Stable ==
    \A t \in Tasks :
        /\ status[t] = "completed" => status'[t] = "completed"
        /\ status[t] # "absent" => status'[t] # "absent" /\ parents'[t] = parents[t]

LEMMA StableHandler == IInv /\ Handler => Stable
<1> SUFFICES ASSUME IInv, Handler PROVE Stable
    OBVIOUS
<1> USE DEF IInv, TypeOK, Stable, Move
<1> QED BY DEF Handler, CreateInsert, StartTask, CompleteUpdate, FailUpdate, ExpireTask,
               ClaimTask, Claimable

LEMMA StableStep == IInv /\ [Next]_vars => Stable
<1> SUFFICES ASSUME IInv, [Next]_vars PROVE Stable
    OBVIOUS
<1> USE DEF IInv, TypeOK, Stable
<1>1. CASE Handler
    BY <1>1, StableHandler DEF IInv, TypeOK
<1>2. ASSUME NEW j \in running, Continue(j)
      PROVE  Stable
    <2>1. CASE FailRequeue(j)
        <3>1. j.task \in Tasks
            BY DEF Job
        <3> QED BY <2>1, <3>1 DEF FailRequeue, JobsKnow, JobKnows
    <2>2. CASE UNCHANGED <<status, parents>>
        BY <2>2
    <2> QED BY <1>2, <2>1, <2>2 DEF Continue, StartDispatch, DispatchParent, DispatchPush,
                                    PromoteQuery, PromoteChild
<1>3. ASSUME NEW a \in Pollers, Polling(a)
      PROVE  Stable
    <2>1. CASE ClaimOffer(a)
        BY <2>1 DEF ClaimOffer, Claimable
    <2>2. CASE UNCHANGED <<status, parents>>
        BY <2>2
    <2> QED BY <1>3, <2>1, <2>2 DEF Polling, PollList, PollAnswer, PollCheck
<1>4. CASE UNCHANGED vars
    BY <1>4 DEF vars
<1> QED BY <1>1, <1>2, <1>3, <1>4 DEF Next, Abandon, PollSkip, Crash

\* So whatever was found out about the parents of a task remains true.
LEMMA DoneStays ==
    ASSUME TypeOK, Stable, NEW t \in Tasks, status[t] # "absent"
    PROVE  /\ status'[t] # "absent"
           /\ Repeats(t)' <=> Repeats(t)
           /\ ParentsDone(t) => ParentsDone(t)'
           /\ \A a : FitsStill(a, t) => FitsStill(a, t)'
<1>1. parents'[t] = parents[t] /\ status'[t] # "absent"
    BY DEF Stable
<1>2. \A i \in DOMAIN parents[t] : parents[t][i] \in Tasks
    BY DEF TypeOK
<1>3. Repeats(t)' <=> Repeats(t)
    BY <1>1 DEF Repeats
<1>4. ParentsDone(t) => ParentsDone(t)'
    BY <1>1, <1>2 DEF ParentsDone, Stable
<1> QED BY <1>1, <1>3, <1>4 DEF FitsStill, Skilled

-----------------------------------------------------------------------------
(* Types *)

LEMMA NewJobType == ASSUME NEW pc \in {"created", "failed", "dispatch", "promote", "kids"},
                           NEW t \in Tasks
                    PROVE  NewJob(pc, t) \in Job
BY DEF NewJob, Job

\* What the goroutines do with their own record.
LEMMA JobUpdates ==
    ASSUME NEW j \in Job
    PROVE  /\ [j EXCEPT !.at = @ + 1] \in Job
           /\ \A kids \in SUBSET Tasks : [j EXCEPT !.pc = "kids", !.kids = kids] \in Job
           /\ \A c : [j EXCEPT !.kids = @ \ {c}] \in Job
<1>1. j.at + 1 \in Nat \ {0}
    BY DEF Job
<1>2. ASSUME NEW n \in Nat \ {0} PROVE [j EXCEPT !.at = n] \in Job
    BY DEF Job
<1> QED BY <1>1, <1>2 DEF Job

LEMMA TypeInit == Init => TypeOK
BY MaxFaultsType DEF Init, TypeOK, Poll, NoPoll

LEMMA TypeHandler == TypeOK /\ Handler => TypeOK'
<1> SUFFICES ASSUME TypeOK, Handler PROVE TypeOK'
    OBVIOUS
<1> USE DEF TypeOK, TaskStatus, Move
<1>1. ASSUME NEW t \in Tasks, CreateInsert(t) PROVE TypeOK'
    BY <1>1, ParentListsType, NewJobType DEF CreateInsert
<1>2. ASSUME NEW t \in Tasks, StartTask(t) \/ CompleteUpdate(t) \/ FailUpdate(t) PROVE TypeOK'
    BY <1>2, NewJobType DEF StartTask, CompleteUpdate, FailUpdate
<1>3. ASSUME NEW t \in Tasks, NEW a \in Agents, ExpireTask(t) \/ ClaimTask(a, t) PROVE TypeOK'
    BY <1>3 DEF ExpireTask, ClaimTask
<1> QED BY <1>1, <1>2, <1>3 DEF Handler, ExpireTask

LEMMA TypeContinue == TypeOK /\ (\E j \in running : Continue(j)) => TypeOK'
<1> SUFFICES ASSUME TypeOK, NEW j \in running, Continue(j) PROVE TypeOK'
    OBVIOUS
<1> USE DEF TypeOK
<1>0. j \in Job /\ j.task \in Tasks
    BY DEF Job
<1>1. CASE StartDispatch(j)
    BY <1>0, <1>1, NewJobType DEF StartDispatch
<1>2. CASE DispatchParent(j)
    BY <1>0, <1>2, JobUpdates DEF DispatchParent
<1>3. CASE DispatchPush(j)
    BY <1>0, <1>3, HookedType DEF DispatchPush, FindMatchingAgents
<1>4. CASE FailRequeue(j)
    <2>1. status' \in [Tasks -> TaskStatus]
        BY <1>0, <1>4 DEF FailRequeue, TaskStatus
    <2>4. retryCount' \in [Tasks -> Nat]
        <3>1. \/ retryCount' = retryCount
              \/ retryCount' = [retryCount EXCEPT ![j.task] = @ + 1]
            BY <1>4 DEF FailRequeue
        <3>2. retryCount \in [Tasks -> Nat] /\ retryCount[j.task] + 1 \in Nat
            BY <1>0
        <3> HIDE DEF TypeOK
        <3> QED BY <1>0, <3>1, <3>2
    <2>3. pushed' \subseteq pushed /\ announced' \subseteq announced
        BY <1>4 DEF FailRequeue, Unheard
    <2>2. running' \subseteq Job
        BY <1>0, <1>4, NewJobType DEF FailRequeue
    <2> QED BY <1>4, <2>1, <2>2, <2>3, <2>4 DEF FailRequeue
<1>5. CASE PromoteQuery(j)
    <2> DEFINE kids == {c \in Tasks : Matches(j.task, c) /\ status[c] = "pending"}
    <2>1. [j EXCEPT !.pc = "kids", !.kids = kids] \in Job
        BY <1>0, JobUpdates
    <2> QED BY <1>5, <2>1 DEF PromoteQuery
<1>6. ASSUME NEW c \in Tasks, PromoteChild(j, c) PROVE TypeOK'
    BY <1>0, <1>6, JobUpdates DEF PromoteChild, KidsAfter
<1> QED BY <1>1, <1>2, <1>3, <1>4, <1>5, <1>6 DEF Continue

LEMMA TypePolling ==
    TypeOK /\ (\E a \in Pollers : Polling(a) \/ \E t \in Tasks : PollSkip(a, t)) => TypeOK'
<1> SUFFICES ASSUME TypeOK, NEW a \in Pollers, Polling(a) \/ \E t \in Tasks : PollSkip(a, t)
             PROVE  TypeOK'
    OBVIOUS
<1> USE DEF TypeOK
<1>0. poll[a] \in Poll /\ NoPoll \in Poll
    BY DEF Poll, NoPoll
<1>1. CASE PollList(a)
    <2>1. poll'[a] \in Poll /\ poll' = [poll EXCEPT ![a] = poll'[a]]
        BY <1>0, <1>1 DEF PollList, Poll, NoPoll
    <2> QED BY <1>1, <2>1 DEF PollList
<1>2. ASSUME NEW t \in Tasks, PollCheck(a, t) PROVE TypeOK'
    <2>1. poll'[a] \in Poll /\ poll' = [poll EXCEPT ![a] = poll'[a]]
        BY <1>0, <1>2 DEF PollCheck, Poll
    <2> QED BY <1>2, <2>1 DEF PollCheck
<1>3. CASE PollAnswer(a)
    <2>1. PICK t \in Tasks \cup {NoTask} :
             poll' = [poll EXCEPT ![a].pc = "answered", ![a].offer = t, ![a].found = {}]
        BY <1>0, <1>3 DEF PollAnswer, Poll, Best
    <2>2. poll'[a] \in Poll /\ poll' = [poll EXCEPT ![a] = poll'[a]]
        BY <1>0, <2>1 DEF Poll
    <2> QED BY <1>3, <2>2 DEF PollAnswer
<1>4. CASE ClaimOffer(a)
    BY <1>0, <1>4 DEF ClaimOffer, TaskStatus
<1>5. ASSUME NEW t \in Tasks, PollSkip(a, t) PROVE TypeOK'
    <2>1. poll'[a] \in Poll /\ poll' = [poll EXCEPT ![a] = poll'[a]]
        BY <1>0, <1>5 DEF PollSkip, Poll
    <2> QED BY <1>5, <2>1, MaxFaultsType DEF PollSkip, MayFault
<1> QED BY <1>1, <1>2, <1>3, <1>4, <1>5 DEF Polling

LEMMA TypeStep == TypeOK /\ [Next]_vars => TypeOK'
<1> SUFFICES ASSUME TypeOK, [Next]_vars PROVE TypeOK'
    OBVIOUS
<1>1. ASSUME NEW j \in running, Abandon(j) PROVE TypeOK'
    BY <1>1, MaxFaultsType DEF TypeOK, Abandon, MayFault
<1>2. CASE Crash
    BY <1>2, MaxFaultsType DEF TypeOK, Crash, MayFault, Poll, NoPoll
<1>3. CASE UNCHANGED vars
    BY <1>3 DEF TypeOK, vars
<1> QED BY <1>1, <1>2, <1>3, TypeHandler, TypeContinue, TypePolling DEF Next

-----------------------------------------------------------------------------
(* Jobs *)

LEMMA JobsInit == Init => JobsKnow
BY DEF Init, JobsKnow

\* A job that knows still does so after a step that leaves failed tasks alone.
LEMMA JobKeepsKnowing ==
    ASSUME TypeOK, Stable, NEW j \in Job, JobKnows(j),
           j.pc = "failed" => status'[j.task] = status[j.task]
    PROVE  JobKnows(j)'
<1>1. j.task \in Tasks /\ j.kids \in SUBSET Tasks
    BY DEF Job
<1>2. \A i \in DOMAIN parents[j.task] : parents[j.task][i] \in Tasks
    BY <1>1 DEF TypeOK
<1>3. ASSUME j.pc = "dispatch"
      PROVE  \A i \in DOMAIN parents'[j.task] :
                 i < j.at => status'[parents'[j.task][i]] = "completed"
    <2>1. parents'[j.task] = parents[j.task]
        BY <1>1, <1>3 DEF JobKnows, Stable
    <2> QED BY <1>2, <1>3, <2>1 DEF JobKnows, Stable
<1> QED BY <1>1, <1>3 DEF JobKnows, Stable

\* What a new job knows.
LEMMA NewJobKnows ==
    ASSUME NEW pc, NEW t \in Tasks, parents[t] \in Seq(Tasks),
           pc = "failed" => status[t] = "failed",
           pc \in {"created", "dispatch"} => status[t] # "absent"
    PROVE  JobKnows(NewJob(pc, t))
<1>1. \A i \in DOMAIN parents[t] : ~(i < 1)
    OBVIOUS
<1> QED BY <1>1 DEF JobKnows, NewJob

\* The same in the state after a step.
LEMMA NewJobKnowsNext ==
    ASSUME TypeOK', NEW pc, NEW t \in Tasks,
           pc = "failed" => status'[t] = "failed",
           pc \in {"created", "dispatch"} => status'[t] # "absent"
    PROVE  JobKnows(NewJob(pc, t))'
<1>1. \A i \in DOMAIN parents'[t] : ~(i < 1)
    BY DEF TypeOK
<1> QED BY <1>1 DEF JobKnows, NewJob

LEMMA JobsHandler == IInv /\ Stable /\ TypeOK' /\ Handler => JobsKnow'
<1> SUFFICES ASSUME IInv, Stable, TypeOK', Handler PROVE JobsKnow'
    OBVIOUS
<1>1. TypeOK /\ JobsKnow /\ running \subseteq Job
    BY DEF IInv, TypeOK
<1>2. ASSUME NEW j \in running PROVE JobKnows(j)'
    <2>1. j.task \in Tasks
        BY <1>1 DEF Job
    <2>2. j.pc = "failed" => status'[j.task] = status[j.task]
        BY <1>1, <2>1 DEF JobsKnow, JobKnows, TypeOK, Handler, Move, CreateInsert, StartTask,
                    CompleteUpdate, FailUpdate, ExpireTask, ClaimTask, Claimable
    <2> QED BY <1>1, <2>2, JobKeepsKnowing DEF JobsKnow
<1>3. ASSUME NEW t \in Tasks, CreateInsert(t) PROVE JobsKnow'
    <2>1. JobKnows(NewJob("created", t))'
        BY <1>1, <1>3, NewJobKnowsNext DEF CreateInsert, Move, TypeOK
    <2> QED BY <1>2, <1>3, <2>1 DEF CreateInsert, JobsKnow
<1>4. ASSUME NEW t \in Tasks, CompleteUpdate(t) PROVE JobsKnow'
    BY <1>2, <1>4, NewJobKnowsNext DEF CompleteUpdate, JobsKnow
<1>5. ASSUME NEW t \in Tasks, FailUpdate(t) PROVE JobsKnow'
    <2>1. JobKnows(NewJob("failed", t))'
        BY <1>1, <1>5, NewJobKnowsNext DEF FailUpdate, Move, TypeOK
    <2> QED BY <1>2, <1>5, <2>1 DEF FailUpdate, JobsKnow
<1>6. CASE UNCHANGED running
    BY <1>2, <1>6 DEF JobsKnow
<1> QED BY <1>3, <1>4, <1>5, <1>6 DEF Handler, StartTask, ExpireTask, ClaimTask

LEMMA JobsContinue ==
    IInv /\ Stable /\ TypeOK' /\ (\E j \in running : Continue(j)) => JobsKnow'
<1> SUFFICES ASSUME IInv, Stable, TypeOK', NEW j \in running, Continue(j) PROVE JobsKnow'
    OBVIOUS
<1>1. TypeOK /\ JobsKnow /\ running \subseteq Job /\ j.task \in Tasks /\ j.kids \in SUBSET Tasks
    BY DEF IInv, TypeOK, Job
<1>2. ASSUME NEW k \in running, ~FailRequeue(j) \/ k # j PROVE JobKnows(k)'
    <2>1. k.task \in Tasks
        BY <1>1 DEF Job
    <2>2. ASSUME k.pc = "failed", FailRequeue(j)
          PROVE  k.task # j.task
        BY <1>1, <1>2, <2>2 DEF FailRequeue, JobsKnow, JobKnows
    <2>3. k.pc = "failed" => status'[k.task] = status[k.task]
        BY <1>1, <2>1, <2>2 DEF Continue, FailRequeue, StartDispatch, DispatchParent,
                                DispatchPush, PromoteQuery, PromoteChild, TypeOK
    <2> QED BY <1>1, <2>3, JobKeepsKnowing DEF JobsKnow
<1>3. CASE StartDispatch(j)
    <2>1. status'[j.task] # "absent"
        BY <1>1, <1>3 DEF StartDispatch, JobsKnow, JobKnows
    <2>2. JobKnows(NewJob("dispatch", j.task))'
        BY <1>1, <2>1, NewJobKnowsNext
    <2> QED BY <1>2, <1>3, <2>2 DEF StartDispatch, FailRequeue, JobsKnow
<1>4. CASE DispatchParent(j)
    <2> DEFINE k == [j EXCEPT !.at = @ + 1]
    <2>0. k \in Job /\ k.pc = "dispatch" /\ k.task = j.task /\ k.at = j.at + 1 /\ k.kids = j.kids
        BY <1>1, <1>4, JobUpdates DEF DispatchParent, Job
    <2>1. ASSUME status[parents[j.task][j.at]] = "completed"
          PROVE  JobKnows(k)'
        <3>1. \A i \in DOMAIN parents[j.task] : i < j.at + 1 => i < j.at \/ i = j.at
            BY <1>1 DEF TypeOK, Job
        <3>2. JobKnows(k)
            BY <1>1, <1>4, <2>0, <2>1, <3>1 DEF DispatchParent, JobsKnow, JobKnows
        <3> HIDE DEF k
        <3> QED BY <1>1, <2>0, <3>2, JobKeepsKnowing
    <2> HIDE DEF k
    <2>2. running' \subseteq (running \ {j}) \cup {k}
        BY <1>4 DEF DispatchParent, k
    <2>3. k \in running' => k \in running \ {j} \/ status[parents[j.task][j.at]] = "completed"
        BY <1>4 DEF DispatchParent, k
    <2> QED BY <1>2, <1>4, <2>1, <2>2, <2>3 DEF JobsKnow
<1>5. CASE DispatchPush(j)
    BY <1>2, <1>5 DEF DispatchPush, JobsKnow
<1>6. CASE FailRequeue(j)
    <2>1. ASSUME retryCount[j.task] < MaxRetries[j.task]
          PROVE  JobKnows(NewJob("created", j.task))'
        BY <1>1, <1>6, <2>1, NewJobKnowsNext DEF FailRequeue, TypeOK
    <2>2. \A k \in running' :
             k \in running \ {j} \/ (/\ retryCount[j.task] < MaxRetries[j.task]
                                   /\ k = NewJob("created", j.task))
        BY <1>6 DEF FailRequeue
    <2> QED BY <1>2, <2>1, <2>2 DEF JobsKnow
<1>7. CASE PromoteQuery(j)
    <2> DEFINE kids == {c \in Tasks : Matches(j.task, c) /\ status[c] = "pending"}
               k == [j EXCEPT !.pc = "kids", !.kids = kids]
    <2>1. k.pc = "kids" /\ k.kids = kids
        BY <1>1 DEF Job
    <2>2. \A c \in kids : status'[c] # "absent"
        BY <1>7 DEF PromoteQuery
    <2>3. running' \subseteq (running \ {j}) \cup {k}
        BY <1>7 DEF PromoteQuery
    <2> HIDE DEF k
    <2> HIDE DEF kids
    <2>4. ASSUME NEW m \in running' PROVE JobKnows(m)'
        <3>1. CASE m = k
            BY <2>1, <2>2, <3>1 DEF JobKnows
        <3> QED BY <1>2, <2>3, <3>1
    <2> QED BY <2>4 DEF JobsKnow
<1>8. ASSUME NEW c \in Tasks, PromoteChild(j, c) PROVE JobsKnow'
    <2> DEFINE k == [j EXCEPT !.kids = @ \ {c}]
    <2>1. k \in Job /\ k.pc = "kids" /\ k.kids = j.kids \ {c}
        BY <1>1, <1>8, JobUpdates DEF PromoteChild, Job
    <2>2. JobKnows(j)'
        BY <1>2, <1>8 DEF PromoteChild, FailRequeue
    <2>3. running' \subseteq (running \ {j}) \cup {k}
        BY <1>8 DEF PromoteChild, KidsAfter
    <2> HIDE DEF k
    <2>4. JobKnows(k)'
        BY <2>1, <2>2 DEF JobKnows
    <2> QED BY <1>2, <2>3, <2>4 DEF JobsKnow
<1> QED BY <1>3, <1>4, <1>5, <1>6, <1>7, <1>8 DEF Continue

LEMMA JobsStep == IInv /\ Stable /\ TypeOK' /\ [Next]_vars => JobsKnow'
<1> SUFFICES ASSUME IInv, Stable, TypeOK', [Next]_vars PROVE JobsKnow'
    OBVIOUS
<1>1. CASE UNCHANGED <<status, parents>> /\ running' \subseteq running
    BY <1>1 DEF IInv, JobsKnow, JobKnows
<1>2. ASSUME NEW a \in Pollers, ClaimOffer(a) PROVE JobsKnow'
    <2>1. TypeOK /\ JobsKnow /\ running \subseteq Job /\ running' = running
        BY <1>2 DEF IInv, TypeOK, ClaimOffer
    <2>2. ASSUME NEW j \in running, j.pc = "failed"
          PROVE  status'[j.task] = status[j.task]
        <3>1. j.task \in Tasks /\ status[j.task] = "failed"
            BY <2>1, <2>2 DEF Job, JobsKnow, JobKnows
        <3> QED BY <1>2, <2>1, <3>1 DEF ClaimOffer, Claimable, TypeOK
    <2> QED BY <2>1, <2>2, JobKeepsKnowing DEF JobsKnow
<1>3. ASSUME NEW a \in Pollers, Polling(a) PROVE JobsKnow'
    BY <1>1, <1>2, <1>3 DEF Polling, PollList, PollCheck, PollAnswer
<1>4. ASSUME NEW a \in Pollers, NEW t \in Tasks, PollSkip(a, t) PROVE JobsKnow'
    BY <1>1, <1>4 DEF PollSkip
<1>5. ASSUME NEW j \in running, Abandon(j) PROVE JobsKnow'
    BY <1>1, <1>5 DEF Abandon
<1>6. CASE Crash \/ UNCHANGED vars
    BY <1>1, <1>6 DEF Crash, vars
<1> QED BY <1>3, <1>4, <1>5, <1>6, JobsHandler, JobsContinue DEF Next

-----------------------------------------------------------------------------
(* Polls, pushes and announcements *)

LEMMA KnowledgeInit == Init => PollsKnow /\ PushesKnow /\ PromotionIsTrue
BY DEF Init, NoPoll, PollsKnow, PushesKnow, PromotionIsTrue

\* What a poll has found out stays true, whatever step is taken.
LEMMA PollKnowledgeStays ==
    ASSUME IInv, Stable, NEW a \in Pollers
    PROVE  /\ \A t \in poll[a].todo : status'[t] # "absent"
           /\ \A t \in poll[a].found : FitsStill(a, t)'
           /\ poll[a].offer # NoTask =>
                 poll[a].offer \in Tasks /\ FitsStill(a, poll[a].offer)
<1>1. TypeOK /\ poll[a] \in Poll
    BY DEF IInv, TypeOK
<1>2. poll[a].todo \in SUBSET Tasks /\ poll[a].found \in SUBSET Tasks
      /\ (poll[a].offer # NoTask => poll[a].offer \in Tasks)
    BY <1>1 DEF Poll
<1>3. \A t \in poll[a].todo : status'[t] # "absent"
    BY <1>2 DEF IInv, PollsKnow, Stable
<1>4. ASSUME NEW t \in poll[a].found PROVE FitsStill(a, t)'
    <2>1. t \in Tasks /\ FitsStill(a, t)
        BY <1>2 DEF IInv, PollsKnow
    <2> QED BY <1>1, <2>1, DoneStays DEF FitsStill
<1> QED BY <1>2, <1>3, <1>4 DEF IInv, PollsKnow

\* The record of one poll in the next state knows what it did before, and more.
LEMMA PollKnows ==
    ASSUME IInv, Stable, NEW a \in Pollers,
           \A t \in poll'[a].todo : t \in poll[a].todo \/ (status[t] # "absent" /\ t \in Tasks),
           \A t \in poll'[a].found : t \in poll[a].found \/ (FitsStill(a, t) /\ t \in Tasks),
           \/ poll'[a].offer = NoTask
           \/ poll'[a].offer \in poll[a].found
           \/ poll'[a].offer = poll[a].offer
    PROVE  /\ \A t \in poll'[a].todo : status'[t] # "absent"
           /\ \A t \in poll'[a].found : FitsStill(a, t)'
           /\ \A t \in Tasks : t = poll'[a].offer => FitsStill(a, t)'
<1>1. TypeOK /\ poll[a] \in Poll
    BY DEF IInv, TypeOK
<1>2. \A t \in Tasks : FitsStill(a, t) => FitsStill(a, t)'
    BY <1>1, DoneStays DEF FitsStill
<1>3. \A t \in poll'[a].todo : status'[t] # "absent"
    BY PollKnowledgeStays DEF Stable
<1>4. \A t \in poll'[a].found : FitsStill(a, t)'
    BY <1>2, PollKnowledgeStays
<1>5. ASSUME NEW t \in Tasks, t = poll'[a].offer PROVE FitsStill(a, t)'
    <2>1. t # NoTask
        BY NoTaskIsNew
    <2>2. t \in poll[a].found \/ FitsStill(a, t)
        BY <1>5, <2>1, PollKnowledgeStays
    <2> QED BY <1>2, <2>2, PollKnowledgeStays
<1> QED BY <1>3, <1>4, <1>5

\* One poll of PollsKnow; t ranges over what may be offered.
PollKnown(a) ==
    /\ \A t \in poll[a].todo : status[t] # "absent"
    /\ \A t \in poll[a].found : FitsStill(a, t)
    /\ \A t \in Tasks : t = poll[a].offer => FitsStill(a, t)

LEMMA PollsFromEach ==
    ASSUME TypeOK', \A a \in Pollers : PollKnown(a)'
    PROVE  PollsKnow'
<1> SUFFICES ASSUME NEW a \in Pollers
             PROVE  poll'[a].offer # NoTask => FitsStill(a, poll[a].offer)'
    BY DEF PollKnown, PollsKnow
<1>1. poll'[a] \in Poll
    BY DEF TypeOK
<1>2. poll'[a].offer # NoTask => poll'[a].offer \in Tasks
    BY <1>1 DEF Poll
<1> QED BY <1>2 DEF PollKnown

\* Other polls than the one that takes a step are as before.
LEMMA OtherPolls ==
    ASSUME IInv, Stable, NEW a \in Pollers, poll'[a] = poll[a]
    PROVE  PollKnown(a)'
<1>1. /\ poll'[a].todo = poll[a].todo /\ poll'[a].found = poll[a].found
      /\ poll'[a].offer = poll[a].offer
    OBVIOUS
<1>2. /\ \A t \in poll'[a].todo : status'[t] # "absent"
      /\ \A t \in poll'[a].found : FitsStill(a, t)'
      /\ \A t \in Tasks : t = poll'[a].offer => FitsStill(a, t)'
    BY <1>1, PollKnows
<1> QED BY <1>2 DEF PollKnown

LEMMA PollsPolling ==
    ASSUME IInv, Stable, NEW a \in Pollers, Polling(a) \/ \E t \in Tasks : PollSkip(a, t)
    PROVE  PollKnown(a)'
<1>1. TypeOK /\ poll[a] \in Poll
    BY DEF IInv, TypeOK
<1> DEFINE Facts ==
       /\ \A u \in poll'[a].todo : u \in poll[a].todo \/ (status[u] # "absent" /\ u \in Tasks)
       /\ \A u \in poll'[a].found : u \in poll[a].found \/ (FitsStill(a, u) /\ u \in Tasks)
       /\ \/ poll'[a].offer = NoTask
          \/ poll'[a].offer \in poll[a].found
          \/ poll'[a].offer = poll[a].offer
<1>2. ASSUME PollList(a) PROVE Facts
    <2>1. poll'[a] = [NoPoll EXCEPT !.pc = "check",
                                    !.todo = {t \in Tasks : status[t] = "pending"},
                                    !.ready = {t \in Tasks : Claimable(a, t)}]
        BY <1>1, <1>2 DEF PollList, TypeOK
    <2>2. /\ poll'[a].todo = {t \in Tasks : status[t] = "pending"}
          /\ poll'[a].found = {} /\ poll'[a].offer = NoTask
        BY <2>1 DEF NoPoll
    <2> QED BY <2>2
<1>3. ASSUME NEW t \in Tasks, PollCheck(a, t) PROVE Facts
    <2>1. status[t] # "absent"
        BY <1>3 DEF PollCheck, IInv, PollsKnow
    <2>2. AreParentsCompleted(parents[t]) /\ Skilled(a, t) => FitsStill(a, t)
        BY <1>1, <2>1, CountOfParents DEF FitsStill
    <2>3. /\ poll'[a].todo = poll[a].todo \ {t}
          /\ poll'[a].found = IF AreParentsCompleted(parents[t]) /\ Skilled(a, t)
                              THEN poll[a].found \cup {t} ELSE poll[a].found
          /\ poll'[a].offer = poll[a].offer
        BY <1>1, <1>3 DEF PollCheck, TypeOK, Poll
    <2> QED BY <2>2, <2>3
<1>4. ASSUME PollAnswer(a) PROVE Facts
    <2>1. PICK t \in IF poll[a].found = {} THEN {NoTask} ELSE Best(poll[a].found) :
             poll' = [poll EXCEPT ![a].pc = "answered", ![a].offer = t, ![a].found = {}]
        BY <1>4 DEF PollAnswer
    <2>2. poll'[a].todo = poll[a].todo /\ poll'[a].found = {} /\ poll'[a].offer = t
        BY <1>1, <2>1 DEF TypeOK, Poll
    <2>3. t = NoTask \/ t \in poll[a].found
        BY <2>1 DEF Best
    <2> QED BY <2>2, <2>3
<1>5. ASSUME ClaimOffer(a) PROVE Facts
    <2>1. poll'[a].todo = {} /\ poll'[a].found = {} /\ poll'[a].offer = NoTask
        BY <1>1, <1>5 DEF ClaimOffer, NoPoll, TypeOK
    <2> QED BY <2>1
<1>6. ASSUME NEW t \in Tasks, PollSkip(a, t) PROVE Facts
    <2>1. poll'[a].todo = poll[a].todo \ {t} /\ poll'[a].found = poll[a].found
          /\ poll'[a].offer = poll[a].offer
        BY <1>1, <1>6 DEF PollSkip, TypeOK, Poll
    <2> QED BY <2>1
<1>7. Facts
    BY <1>2, <1>3, <1>4, <1>5, <1>6 DEF Polling
<1> QED BY <1>7, PollKnows DEF PollKnown

LEMMA PollsStep == IInv /\ Stable /\ TypeOK' /\ [Next]_vars => PollsKnow'
<1> SUFFICES ASSUME IInv, Stable, TypeOK', [Next]_vars, NEW b \in Pollers
             PROVE  PollKnown(b)'
    BY PollsFromEach
<1>1. CASE UNCHANGED poll
    BY <1>1, OtherPolls
<1>2. ASSUME NEW a \in Pollers, Polling(a) \/ \E t \in Tasks : PollSkip(a, t)
      PROVE  PollKnown(b)'
    <2>1. CASE a = b
        BY <1>2, <2>1, PollsPolling
    <2>2. CASE a # b
        <3>1. poll'[b] = poll[b]
            BY <1>2, <2>2 DEF IInv, TypeOK, Polling, PollList, PollCheck, PollAnswer,
                              ClaimOffer, PollSkip
        <3> QED BY <3>1, OtherPolls
    <2> QED BY <2>1, <2>2
<1>3. CASE Crash
    <2>1. poll'[b].todo = {} /\ poll'[b].found = {} /\ poll'[b].offer = NoTask
        BY <1>3 DEF Crash, NoPoll
    <2> QED BY <2>1, PollKnows DEF PollKnown
<1>4. CASE Handler \/ \E j \in running : Continue(j) \/ Abandon(j)
    <2>1. UNCHANGED poll
        BY <1>4 DEF Handler, CreateInsert, StartTask, CompleteUpdate, FailUpdate, ExpireTask,
                    ClaimTask, Continue, StartDispatch, DispatchParent, DispatchPush, FailRequeue,
                    PromoteQuery, PromoteChild, Abandon
    <2> QED BY <1>1, <2>1
<1> QED BY <1>1, <1>2, <1>3, <1>4 DEF Next, vars

LEMMA PushesStep == IInv /\ Stable /\ [Next]_vars => PushesKnow'
<1> SUFFICES ASSUME IInv, Stable, [Next]_vars, NEW push \in pushed'
             PROVE  (status[push[2]] # "absent" /\ ParentsDone(push[2])
                        /\ Skilled(push[1], push[2]))'
    BY DEF PushesKnow
<1>1. TypeOK /\ PushesKnow
    BY DEF IInv
<1>2. ASSUME NEW t \in Tasks, NEW a, push = <<a, t>>,
             status[t] # "absent", ParentsDone(t), Skilled(a, t)
      PROVE  (status[push[2]] # "absent" /\ ParentsDone(push[2])
                 /\ Skilled(push[1], push[2]))'
    BY <1>1, <1>2, DoneStays DEF Skilled
<1>3. CASE push \in pushed
    <2>1. push \in Agents \X Tasks
        BY <1>1, <1>3 DEF TypeOK
    <2> QED BY <1>1, <1>2, <1>3, <2>1 DEF PushesKnow
<1>4. ASSUME NEW j \in running, DispatchPush(j), push \notin pushed
      PROVE  (status[push[2]] # "absent" /\ ParentsDone(push[2])
                 /\ Skilled(push[1], push[2]))'
    <2>1. j \in Job /\ j.task \in Tasks /\ JobKnows(j)
        BY DEF IInv, TypeOK, Job, JobsKnow
    <2>2. PICK a \in FindMatchingAgents(j.task) : push = <<a, j.task>>
        BY <1>4 DEF DispatchPush
    <2>3. status[j.task] # "absent"
        BY <1>4, <2>1 DEF DispatchPush, JobKnows
    <2>4. ParentsDone(j.task)
        <3>1. \A i \in DOMAIN parents[j.task] : i < j.at
            BY <1>1, <1>4, <2>1 DEF DispatchPush, TypeOK, Job
        <3> QED BY <1>4, <2>1, <3>1 DEF DispatchPush, JobKnows, ParentsDone
    <2> QED BY <1>2, <2>1, <2>2, <2>3, <2>4 DEF FindMatchingAgents
<1>5. CASE pushed' \subseteq pushed
    BY <1>3, <1>5
<1>6. CASE Handler
    BY <1>5, <1>6 DEF Handler, CreateInsert, Unheard, StartTask, CompleteUpdate, FailUpdate,
                      ExpireTask, ClaimTask
<1>7. ASSUME NEW j \in running, Continue(j) \/ Abandon(j)
      PROVE  pushed' \subseteq pushed \/ DispatchPush(j)
    BY <1>7 DEF Continue, StartDispatch, DispatchParent, FailRequeue, Unheard, PromoteQuery,
                PromoteChild, Abandon
<1>8. ASSUME NEW a \in Pollers, Polling(a) \/ \E t \in Tasks : PollSkip(a, t)
      PROVE  pushed' \subseteq pushed
    BY <1>8 DEF Polling, PollList, PollCheck, PollAnswer, ClaimOffer, PollSkip
<1> QED BY <1>3, <1>4, <1>5, <1>6, <1>7, <1>8 DEF Next, vars, Crash

LEMMA PromotionStep == IInv /\ Stable /\ [Next]_vars => PromotionIsTrue'
<1> SUFFICES ASSUME IInv, Stable, [Next]_vars, NEW t \in announced'
             PROVE  (status[t] # "absent" /\ ParentsDone(t))'
    BY DEF PromotionIsTrue
<1>1. TypeOK /\ PromotionIsTrue
    BY DEF IInv
<1>2. CASE t \in announced
    BY <1>1, <1>2, DoneStays DEF PromotionIsTrue, TypeOK
<1>3. ASSUME NEW j \in running, NEW c \in Tasks, PromoteChild(j, c), t \notin announced
      PROVE  (status[t] # "absent" /\ ParentsDone(t))'
    <2>1. t = c /\ c \in j.kids /\ AreParentsCompleted(parents[c])
        BY <1>3 DEF PromoteChild
    <2>2. status[c] # "absent"
        BY <2>1 DEF IInv, JobsKnow, JobKnows
    <2>3. ParentsDone(c)
        BY <1>1, <2>1, CountOfParents
    <2> QED BY <1>1, <2>1, <2>2, <2>3, DoneStays
<1>4. CASE announced' \subseteq announced
    BY <1>2, <1>4
<1>5. CASE Handler
    BY <1>4, <1>5 DEF Handler, CreateInsert, Unheard, StartTask, CompleteUpdate, FailUpdate,
                      ExpireTask, ClaimTask
<1>6. ASSUME NEW j \in running, Continue(j) \/ Abandon(j)
      PROVE  announced' \subseteq announced \/ \E c \in Tasks : PromoteChild(j, c)
    BY <1>6 DEF Continue, StartDispatch, DispatchParent, DispatchPush, FailRequeue, Unheard,
                PromoteQuery, Abandon
<1>7. ASSUME NEW a \in Pollers, Polling(a) \/ \E u \in Tasks : PollSkip(a, u)
      PROVE  announced' \subseteq announced
    BY <1>7 DEF Polling, PollList, PollCheck, PollAnswer, ClaimOffer, PollSkip
<1> QED BY <1>2, <1>3, <1>4, <1>5, <1>6, <1>7 DEF Next, vars, Crash

-----------------------------------------------------------------------------
(* What a poll does not miss *)

LEMMA MissInit == Init => PollsMissNothing
BY DEF Init, PollsMissNothing, PollMissesNothing, NoPoll

\* While no fault happens, a step of a's own poll.
LEMMA MissPolling ==
    ASSUME IInv, Stable, faults = 0, NEW a \in Pollers, Polling(a)
    PROVE  PollMissesNothing(a)'
<1>1. TypeOK /\ poll[a] \in Poll /\ PollMissesNothing(a)
    BY DEF IInv, TypeOK, PollsMissNothing
<1>2. \A t \in Tasks : FitsStill(a, t) => FitsStill(a, t)'
    BY <1>1, DoneStays DEF FitsStill
<1>3. poll[a].ready \in SUBSET Tasks
    BY <1>1 DEF Poll
<1>4. CASE PollList(a)
    <2>1. poll'[a] = [NoPoll EXCEPT !.pc = "check",
                                    !.todo = {t \in Tasks : status[t] = "pending"},
                                    !.ready = {t \in Tasks : Claimable(a, t)}]
        BY <1>1, <1>4 DEF PollList, TypeOK
    <2>2. /\ poll'[a].pc = "check" /\ poll'[a].todo = {t \in Tasks : status[t] = "pending"}
          /\ poll'[a].ready = {t \in Tasks : Claimable(a, t)}
        BY <2>1 DEF NoPoll
    <2>3. ASSUME NEW u \in Tasks, Claimable(a, u)
          PROVE  status[u] = "pending" /\ FitsStill(a, u)
        BY <1>1, <2>3, CountOfParents DEF Claimable, FitsStill
    <2> QED BY <1>2, <2>2, <2>3 DEF PollMissesNothing
<1>5. ASSUME NEW t \in Tasks, PollCheck(a, t) PROVE PollMissesNothing(a)'
    <2>1. AreParentsCompleted(parents[t]) /\ Skilled(a, t) <=> FitsStill(a, t)
        <3>1. status[t] # "absent"
            BY <1>5 DEF PollCheck, IInv, PollsKnow
        <3> QED BY <1>1, <3>1, CountOfParents DEF FitsStill
    <2>2. /\ poll'[a].pc = "check" /\ poll[a].pc = "check"
          /\ poll'[a].todo = poll[a].todo \ {t} /\ poll'[a].ready = poll[a].ready
          /\ poll'[a].found = IF AreParentsCompleted(parents[t]) /\ Skilled(a, t)
                              THEN poll[a].found \cup {t} ELSE poll[a].found
        BY <1>1, <1>5 DEF PollCheck, TypeOK, Poll
    <2>3. \A u \in poll[a].ready : u \in poll'[a].todo \cup poll'[a].found
        BY <1>1, <2>1, <2>2 DEF PollMissesNothing
    <2> QED BY <1>1, <1>2, <1>3, <2>2, <2>3 DEF PollMissesNothing
<1>6. CASE PollAnswer(a)
    <2>1. PICK t \in IF poll[a].found = {} THEN {NoTask} ELSE Best(poll[a].found) :
             poll' = [poll EXCEPT ![a].pc = "answered", ![a].offer = t, ![a].found = {}]
        BY <1>6 DEF PollAnswer
    <2>2. poll'[a].pc = "answered" /\ poll'[a].offer = t /\ poll'[a].ready = poll[a].ready
        BY <1>1, <2>1 DEF TypeOK, Poll
    <2>3. poll[a].ready \subseteq poll[a].found
        BY <1>1, <1>6 DEF PollAnswer, PollMissesNothing
    <2>4. CASE poll[a].found = {}
        BY <2>1, <2>2, <2>3, <2>4 DEF PollMissesNothing
    <2>5. CASE poll[a].found # {}
        <3>1. t \in poll[a].found /\ \A u \in poll[a].found : Priority[t] <= Priority[u]
            BY <2>1, <2>5 DEF Best
        <3>2. t # NoTask
            BY <1>1, <3>1, NoTaskIsNew DEF Poll
        <3> QED BY <2>2, <2>3, <3>1, <3>2 DEF PollMissesNothing
    <2> QED BY <2>4, <2>5
<1>7. CASE ClaimOffer(a)
    <2>1. poll'[a].pc = "idle"
        BY <1>1, <1>7 DEF ClaimOffer, TypeOK, NoPoll
    <2> QED BY <2>1 DEF PollMissesNothing
<1> QED BY <1>4, <1>5, <1>6, <1>7, Zenon DEF Polling

\* A step that leaves a's poll alone.
LEMMA MissOther ==
    ASSUME IInv, Stable, faults = 0, NEW a \in Pollers, poll'[a] = poll[a]
    PROVE  PollMissesNothing(a)'
<1>1. TypeOK /\ poll[a] \in Poll /\ PollMissesNothing(a)
    BY DEF IInv, TypeOK, PollsMissNothing
<1>2. \A t \in Tasks : FitsStill(a, t) => FitsStill(a, t)'
    BY <1>1, DoneStays DEF FitsStill
<1>3. poll[a].ready \in SUBSET Tasks
    BY <1>1 DEF Poll
<1> QED BY <1>1, <1>2, <1>3 DEF PollMissesNothing

\* Only faults count faults.
LEMMA FaultsGrow ==
    ASSUME TypeOK, [Next]_vars, faults' = 0
    PROVE  faults = 0 /\ ~MayFault
<1>1. faults \in Nat
    BY MaxFaultsType DEF TypeOK
<1>2. CASE UNCHANGED faults
    BY <1>1, <1>2 DEF MayFault
<1>3. CASE MayFault
    BY <1>1, <1>3 DEF MayFault
<1>4. CASE Handler \/ \E j \in running : Continue(j)
    BY <1>2, <1>4 DEF Handler, CreateInsert, StartTask, CompleteUpdate, FailUpdate, ExpireTask,
                ClaimTask, Continue, StartDispatch, DispatchParent, DispatchPush, FailRequeue,
                PromoteQuery, PromoteChild
<1>5. CASE \E a \in Pollers : Polling(a)
    BY <1>2, <1>5 DEF Polling, PollList, PollCheck, PollAnswer, ClaimOffer
<1> QED BY <1>2, <1>3, <1>4, <1>5 DEF Next, vars, Abandon, PollSkip, Crash

LEMMA MissStep == IInv /\ Stable /\ [Next]_vars => PollsMissNothing'
<1> SUFFICES ASSUME IInv, Stable, [Next]_vars, faults' = 0, NEW b \in Pollers
             PROVE  PollMissesNothing(b)'
    BY DEF PollsMissNothing
<1>1. TypeOK /\ faults = 0 /\ ~MayFault
    BY FaultsGrow DEF IInv
<1>2. ASSUME NEW a \in Pollers, Polling(a) PROVE PollMissesNothing(b)'
    <2>1. CASE a = b
        BY <1>1, <1>2, <2>1, MissPolling
    <2>2. CASE a # b
        <3>1. poll'[b] = poll[b]
            BY <1>1, <1>2, <2>2 DEF TypeOK, Polling, PollList, PollCheck, PollAnswer, ClaimOffer
        <3> QED BY <1>1, <3>1, MissOther
    <2> QED BY <2>1, <2>2
<1>3. CASE UNCHANGED poll
    BY <1>1, <1>3, MissOther
<1>4. CASE Handler \/ \E j \in running : Continue(j)
    <2>1. UNCHANGED poll
        BY <1>4 DEF Handler, CreateInsert, StartTask, CompleteUpdate, FailUpdate, ExpireTask,
                    ClaimTask, Continue, StartDispatch, DispatchParent, DispatchPush, FailRequeue,
                    PromoteQuery, PromoteChild
    <2> QED BY <1>3, <2>1
<1> QED BY <1>1, <1>2, <1>3, <1>4 DEF Next, vars, Abandon, PollSkip, Crash

-----------------------------------------------------------------------------
(* Who hears of a task *)

LEMMA HeardInit == Init => ReadyIsHeard
<1> SUFFICES ASSUME Init, NEW t \in Tasks PROVE status[t] # "pending"
    BY DEF ReadyIsHeard
<1> QED BY FoundType DEF Init

\* One task of ReadyIsHeard, with the goroutine that may still tell of it.
Told(t) ==
    status[t] = "pending" /\ ParentsDone(t) /\ ~Repeats(t) =>
        \/ t \in announced \/ FindMatchingAgents(t) \X {t} \subseteq pushed
        \/ \E j \in running : TellsOf(j, t)

\* A step that keeps the goroutines that tell of t, and what was said of t.
LEMMA ToldStays ==
    ASSUME TypeOK, Stable, NEW t \in Tasks, Told(t), status[t] = "pending",
           t \in announced => t \in announced',
           \A a : <<a, t>> \in pushed => <<a, t>> \in pushed',
           ParentsDone(t)' => ParentsDone(t),
           \A j \in running : TellsOf(j, t) => \E k \in running' : TellsOf(k, t)'
    PROVE  Told(t)'
<1>1. Repeats(t)' <=> Repeats(t)
    BY DoneStays
<1>2. FindMatchingAgents(t)' = FindMatchingAgents(t)
    BY DEF FindMatchingAgents, Skilled
<1> QED BY <1>1, <1>2 DEF Told

\* Without a completion no task's parents become done.
LEMMA DoneBefore ==
    ASSUME TypeOK, Stable, NEW t \in Tasks, status[t] # "absent", ParentsDone(t)',
           \A p \in Tasks : status'[p] = "completed" => status[p] = "completed"
    PROVE  ParentsDone(t)
<1>1. parents'[t] = parents[t] /\ \A i \in DOMAIN parents[t] : parents[t][i] \in Tasks
    BY DEF Stable, TypeOK
<1> QED BY <1>1 DEF ParentsDone

\* What a goroutine may tell of does not change with the table.
LEMMA TellingStays ==
    ASSUME TypeOK, Stable, NEW t \in Tasks, status[t] # "absent", NEW j
    PROVE  TellsOf(j, t)' <=> TellsOf(j, t)
<1>1. parents'[t] = parents[t]
    BY DEF Stable
<1> QED BY <1>1 DEF TellsOf, Matches

LEMMA ToldHandler ==
    ASSUME IInv, Stable, NEW t \in Tasks, Told(t), Handler
    PROVE  Told(t)'
<1>1. TypeOK
    BY DEF IInv
<1> USE DEF Move
<1>2. ASSUME NEW u \in Tasks, CreateInsert(u) PROVE Told(t)'
    <2>1. status' = [status EXCEPT ![u] = "pending"] /\ status[u] = "absent"
          /\ running' = running \cup {NewJob("created", u)}
          /\ UNCHANGED <<pushed, announced>>
        BY <1>2 DEF CreateInsert
    <2>2. CASE t = u
        <3>1. TellsOf(NewJob("created", u), t)'
            BY <2>2 DEF TellsOf, NewJob
        <3> QED BY <2>1, <3>1 DEF Told
    <2>3. CASE t # u /\ status[t] = "pending"
        <3>1. ParentsDone(t)' => ParentsDone(t)
            BY <1>1, <2>1, <2>3, DoneBefore DEF TypeOK
        <3>2. \A j \in running : TellsOf(j, t) => TellsOf(j, t)'
            BY <1>1, <2>3, TellingStays
        <3> QED BY <1>1, <2>1, <2>3, <3>1, <3>2, ToldStays
    <2>4. CASE t # u /\ status[t] # "pending"
        <3>1. status'[t] # "pending"
            BY <1>1, <2>1, <2>4 DEF TypeOK
        <3> QED BY <3>1 DEF Told
    <2> QED BY <2>2, <2>3, <2>4
<1>3. ASSUME NEW u \in Tasks, CompleteUpdate(u) PROVE Told(t)'
    <2>1. status' = [status EXCEPT ![u] = "completed"] /\ status[u] = "in_progress"
          /\ running' = running \cup {NewJob("promote", u)}
          /\ UNCHANGED <<parents, pushed, announced>>
        BY <1>3 DEF CompleteUpdate
    <2>2. CASE status[t] # "pending"
        <3>1. status'[t] # "pending"
            BY <1>1, <2>1, <2>2 DEF TypeOK
        <3> QED BY <3>1 DEF Told
    <2>3. CASE status[t] = "pending" /\ \E i \in DOMAIN parents[t] : parents[t][i] = u
        <3>1. TellsOf(NewJob("promote", u), t)'
            BY <2>1, <2>3 DEF TellsOf, NewJob, Matches
        <3> QED BY <2>1, <3>1 DEF Told
    <2>4. CASE status[t] = "pending" /\ \A i \in DOMAIN parents[t] : parents[t][i] # u
        <3>1. ParentsDone(t)' => ParentsDone(t)
            BY <1>1, <2>1, <2>4 DEF ParentsDone, TypeOK
        <3>2. \A j \in running : TellsOf(j, t) => TellsOf(j, t)'
            BY <1>1, <2>4, TellingStays
        <3> QED BY <1>1, <2>1, <2>4, <3>1, <3>2, ToldStays
    <2> QED BY <2>2, <2>3, <2>4
<1>4. ASSUME NEW u \in Tasks, NEW to \in {"claimed", "in_progress", "failed"},
             status' = [status EXCEPT ![u] = to], running \subseteq running',
             UNCHANGED <<pushed, announced>>
      PROVE  Told(t)'
    <2>1. CASE status[t] # "pending" \/ t = u
        <3>1. status'[t] # "pending"
            BY <1>1, <1>4, <2>1 DEF TypeOK
        <3> QED BY <3>1 DEF Told
    <2>2. CASE status[t] = "pending" /\ t # u
        <3>1. ParentsDone(t)' => ParentsDone(t)
            BY <1>1, <1>4, <2>2, DoneBefore DEF TypeOK
        <3>2. \A j \in running : TellsOf(j, t) => TellsOf(j, t)'
            BY <1>1, <2>2, TellingStays
        <3> QED BY <1>1, <1>4, <2>2, <3>1, <3>2, ToldStays
    <2> QED BY <2>1, <2>2
<1>5. ASSUME NEW u \in Tasks, StartTask(u) PROVE Told(t)'
    BY <1>4, <1>5 DEF StartTask
<1>6. ASSUME NEW u \in Tasks, FailUpdate(u) PROVE Told(t)'
    BY <1>4, <1>6 DEF FailUpdate
<1>7. ASSUME NEW u \in Tasks, ExpireTask(u) PROVE Told(t)'
    BY <1>4, <1>7 DEF ExpireTask
<1>8. ASSUME NEW u \in Tasks, NEW a \in Agents, ClaimTask(a, u) PROVE Told(t)'
    BY <1>4, <1>8 DEF ClaimTask
<1> QED BY <1>2, <1>3, <1>5, <1>6, <1>7, <1>8 DEF Handler

\* A goroutine goes on: what it drops was told, or waits for a completion.
LEMMA ToldContinue ==
    ASSUME IInv, Stable, NEW t \in Tasks, Told(t), NEW j \in running, Continue(j)
    PROVE  Told(t)'
<1>1. TypeOK /\ j \in Job /\ j.task \in Tasks /\ JobKnows(j)
    BY DEF IInv, TypeOK, Job, JobsKnow
<1>2. CASE FailRequeue(j)
    <2>1. CASE retryCount[j.task] < MaxRetries[j.task] /\ t = j.task
        <3>1. NewJob("created", t) \in running' /\ TellsOf(NewJob("created", t), t)'
            BY <1>2, <2>1 DEF FailRequeue, TellsOf, NewJob
        <3> QED BY <3>1 DEF Told
    <2>2. CASE ~(retryCount[j.task] < MaxRetries[j.task] /\ t = j.task)
        <3>1. /\ status'[t] = status[t]
              /\ \A p \in Tasks : status'[p] = "completed" => status[p] = "completed"
            BY <1>1, <1>2, <2>2 DEF FailRequeue, TypeOK
        <3>2. (t \in announced => t \in announced')
              /\ \A a : <<a, t>> \in pushed => <<a, t>> \in pushed'
            BY <1>2, <2>2 DEF FailRequeue, Unheard
        <3>3. ASSUME status[t] = "pending"
              PROVE  /\ ParentsDone(t)' => ParentsDone(t)
                     /\ \A k : TellsOf(k, t) => TellsOf(k, t)'
            BY <1>1, <3>1, <3>3, DoneBefore, TellingStays
        <3>4. ~TellsOf(j, t) /\ running \ {j} \subseteq running'
            BY <1>2 DEF FailRequeue, TellsOf
        <3>5. CASE status[t] = "pending"
            BY <1>1, <3>2, <3>3, <3>4, <3>5, ToldStays
        <3>6. CASE status[t] # "pending"
            BY <3>1, <3>6 DEF Told
        <3> QED BY <3>5, <3>6
    <2> QED BY <2>1, <2>2
<1>3. ASSUME status[t] # "pending", UNCHANGED status PROVE Told(t)'
    BY <1>3 DEF Told
<1>4. ASSUME status[t] = "pending", UNCHANGED <<status, parents>>,
             announced \subseteq announced', pushed \subseteq pushed',
             running \ {j} \subseteq running',
             TellsOf(j, t) => \E k \in running' : TellsOf(k, t)
      PROVE  Told(t)'
    <2>1. ParentsDone(t)' => ParentsDone(t)
        BY <1>4 DEF ParentsDone
    <2>2. \A k : TellsOf(k, t) => TellsOf(k, t)'
        BY <1>4 DEF TellsOf, Matches
    <2> QED BY <1>1, <1>4, <2>1, <2>2, ToldStays
<1>5. CASE status[t] = "pending" /\ StartDispatch(j)
    <2>1. TellsOf(j, t) => TellsOf(NewJob("dispatch", j.task), t)
        BY <1>5 DEF StartDispatch, TellsOf, NewJob
    <2> QED BY <1>4, <1>5, <2>1 DEF StartDispatch
<1>6. CASE status[t] = "pending" /\ DispatchParent(j)
    <2>1. CASE status[parents[j.task][j.at]] = "completed"
        <3>1. [j EXCEPT !.at = @ + 1] \in running' /\ running \ {j} \subseteq running'
            BY <1>6, <2>1 DEF DispatchParent
        <3>2. TellsOf(j, t) => TellsOf([j EXCEPT !.at = @ + 1], t)
            BY <1>1, <1>6 DEF DispatchParent, TellsOf, Job
        <3> QED BY <1>4, <1>6, <3>1, <3>2 DEF DispatchParent
    <2>2. CASE status[parents[j.task][j.at]] # "completed" /\ t = j.task
        <3>1. j.at \in DOMAIN parents[t]
            BY <1>1, <1>6, <2>2 DEF DispatchParent, TypeOK, Job
        <3>2. ~ParentsDone(t)'
            BY <1>6, <2>2, <3>1 DEF DispatchParent, ParentsDone
        <3> QED BY <3>2 DEF Told
    <2>3. CASE status[parents[j.task][j.at]] # "completed" /\ t # j.task
        <3>1. ~TellsOf(j, t)
            BY <1>6, <2>3 DEF DispatchParent, TellsOf
        <3> QED BY <1>4, <1>6, <2>3, <3>1 DEF DispatchParent
    <2> QED BY <2>1, <2>2, <2>3
<1>7. CASE status[t] = "pending" /\ DispatchPush(j)
    <2>1. CASE t = j.task
        <3>1. FindMatchingAgents(t)' \X {t} \subseteq pushed'
            BY <1>7, <2>1 DEF DispatchPush, FindMatchingAgents, Skilled
        <3> QED BY <3>1 DEF Told
    <2>2. CASE t # j.task
        <3>1. ~TellsOf(j, t)
            BY <1>7, <2>2 DEF DispatchPush, TellsOf
        <3> QED BY <1>4, <1>7, <3>1 DEF DispatchPush
    <2> QED BY <2>1, <2>2
<1>8. CASE status[t] = "pending" /\ PromoteQuery(j)
    <2> DEFINE kids == {c \in Tasks : Matches(j.task, c) /\ status[c] = "pending"}
               k == [j EXCEPT !.pc = "kids", !.kids = kids]
    <2>1. k.pc = "kids" /\ k.kids = kids
        BY <1>1 DEF Job
    <2>2. ASSUME TellsOf(j, t) PROVE t \in kids
        BY <1>8, <2>2 DEF PromoteQuery, TellsOf
    <2>3. t \in kids => TellsOf(k, t) /\ k \in running'
        BY <1>8, <2>1 DEF PromoteQuery, TellsOf
    <2> HIDE DEF k
    <2> QED BY <1>4, <1>8, <2>2, <2>3 DEF PromoteQuery
<1>9. ASSUME status[t] = "pending", NEW c \in Tasks, PromoteChild(j, c) PROVE Told(t)'
    <2>1. UNCHANGED <<status, parents, pushed>> /\ announced \subseteq announced'
        BY <1>9 DEF PromoteChild
    <2>2. CASE t = c
        <3>1. AreParentsCompleted(parents[t]) <=> ParentsDone(t) /\ ~Repeats(t)
            BY <1>1, CountOfParents
        <3>2. (ParentsDone(t) /\ ~Repeats(t))' => t \in announced'
            BY <1>9, <2>1, <2>2, <3>1 DEF PromoteChild, ParentsDone, Repeats
        <3> QED BY <3>2 DEF Told
    <2>3. CASE t # c
        <3> DEFINE k == [j EXCEPT !.kids = @ \ {c}]
        <3>1. k.pc = "kids" /\ k.kids = j.kids \ {c}
            BY <1>1, <1>9 DEF PromoteChild, Job
        <3>2. ASSUME TellsOf(j, t) PROVE t \in j.kids
            BY <1>9, <3>2 DEF PromoteChild, TellsOf
        <3>3. t \in j.kids => k \in running' /\ TellsOf(k, t)
            BY <1>9, <2>3, <3>1 DEF PromoteChild, KidsAfter, TellsOf
        <3> HIDE DEF k
        <3>4. running \ {j} \subseteq running'
            BY <1>9 DEF PromoteChild
        <3> QED BY <1>4, <1>9, <2>1, <3>2, <3>3, <3>4
    <2> QED BY <2>2, <2>3
<1>10. ~FailRequeue(j) => UNCHANGED status
    BY DEF Continue, StartDispatch, DispatchParent, DispatchPush, PromoteQuery, PromoteChild
<1> QED BY <1>2, <1>3, <1>5, <1>6, <1>7, <1>8, <1>9, <1>10 DEF Continue

LEMMA HeardIsTold == ReadyIsHeard <=> (faults = 0 => \A t \in Tasks : Told(t))
BY DEF ReadyIsHeard, Told

LEMMA HeardStep == IInv /\ ReadyIsHeard /\ [Next]_vars => ReadyIsHeard'
<1> SUFFICES ASSUME IInv, ReadyIsHeard, [Next]_vars, faults' = 0, NEW t \in Tasks
             PROVE  Told(t)'
    BY DEF ReadyIsHeard, Told
<1>1. TypeOK /\ Stable /\ ~MayFault /\ Told(t)
    BY FaultsGrow, StableStep, HeardIsTold DEF IInv
<1>2. ASSUME UNCHANGED <<status, parents, running, pushed, announced>> PROVE Told(t)'
    BY <1>1, <1>2 DEF Told, ParentsDone, Repeats, FindMatchingAgents, Skilled, TellsOf, Matches
<1>3. ASSUME NEW a \in Pollers, ClaimOffer(a) PROVE Told(t)'
    <2>1. CASE UNCHANGED status
        BY <1>2, <1>3, <2>1 DEF ClaimOffer
    <2>2. ASSUME NEW u \in Tasks, Claimable(a, u), status' = [status EXCEPT ![u] = "claimed"]
          PROVE  Told(t)'
        <3>1. CASE status[t] = "pending" /\ t # u
            <4>1. ParentsDone(t)' => ParentsDone(t)
                BY <1>1, <2>2, <3>1, DoneBefore DEF TypeOK
            <4>2. \A j \in running : TellsOf(j, t) => TellsOf(j, t)'
                BY <1>1, <3>1, TellingStays
            <4> QED BY <1>1, <1>3, <3>1, <4>1, <4>2, ToldStays DEF ClaimOffer
        <3>2. CASE ~(status[t] = "pending" /\ t # u)
            <4>1. status'[t] # "pending"
                BY <1>1, <2>2, <3>2 DEF TypeOK
            <4> QED BY <4>1 DEF Told
        <3> QED BY <3>1, <3>2
    <2>3. poll[a].offer \in Tasks \cup {NoTask}
        BY <1>1 DEF TypeOK, Poll
    <2> QED BY <1>3, <2>1, <2>2, <2>3 DEF ClaimOffer
<1>4. ASSUME NEW a \in Pollers, Polling(a) PROVE Told(t)'
    <2>1. CASE ClaimOffer(a)
        BY <1>3, <2>1
    <2>2. CASE UNCHANGED <<status, parents, running, pushed, announced>>
        BY <1>2, <2>2
    <2> QED BY <1>4, <2>1, <2>2 DEF Polling, PollList, PollCheck, PollAnswer
<1>5. CASE Handler
    BY <1>1, <1>5, ToldHandler
<1>6. ASSUME NEW j \in running, Continue(j) PROVE Told(t)'
    BY <1>1, <1>6, ToldContinue
<1>7. CASE UNCHANGED vars
    BY <1>2, <1>7 DEF vars
<1> QED BY <1>1, <1>4, <1>5, <1>6, <1>7 DEF Next, Abandon, PollSkip, Crash

-----------------------------------------------------------------------------
(* Theorems *)

LEMMA IInvInit == Init => IInv
BY TypeInit, JobsInit, KnowledgeInit, MissInit DEF IInv

LEMMA IInvStep == IInv /\ [Next]_vars => IInv'
<1> SUFFICES ASSUME IInv, [Next]_vars PROVE IInv'
    OBVIOUS
<1>1. Stable /\ TypeOK'
    BY StableStep, TypeStep DEF IInv
<1> QED BY <1>1, JobsStep, PollsStep, PushesStep, PromotionStep, MissStep DEF IInv

\* Whatever anybody has read of a task's parents and skills, one query at a time
\* and while handlers change the table, is still true when it is used.
THEOREM DispatchInvariant == Spec => []IInv
BY IInvInit, IInvStep, PTL DEF Spec

\* ParentsCompleted events are true: of every task they announce all the parents
\* are completed, though LIKE picks children that merely look like it.
THEOREM PromotionsAreTrue == Spec => []PromotionIsTrue
<1>1. IInv => PromotionIsTrue
    BY DEF IInv
<1> QED BY <1>1, DispatchInvariant, PTL

LEMMA FitsMeansClaimable ==
    ASSUME TypeOK, NEW a, NEW t \in Tasks, status[t] = "pending", ParentsDone(t), Skilled(a, t)
    PROVE  Repeats(t) \/ Claimable(a, t)
BY CountOfParents DEF Claimable

LEMMA HeardFromIInv == IInv => HeardIsClaimable
<1> SUFFICES ASSUME IInv PROVE HeardIsClaimable
    OBVIOUS
<1>1. TypeOK /\ PollsKnow /\ PushesKnow
    BY DEF IInv
<1>2. ASSUME NEW a \in Pollers, poll[a].offer # NoTask, status[poll[a].offer] = "pending"
      PROVE  Claimable(a, poll[a].offer)
    <2>1. poll[a].offer \in Tasks
        BY <1>1, <1>2 DEF TypeOK, Poll
    <2> QED BY <1>1, <1>2, <2>1, FitsMeansClaimable DEF PollsKnow, FitsStill
<1>3. ASSUME NEW push \in pushed, status[push[2]] = "pending", ~Repeats(push[2])
      PROVE  Claimable(push[1], push[2])
    <2>1. push[2] \in Tasks
        BY <1>1 DEF TypeOK
    <2> QED BY <1>1, <1>3, <2>1, FitsMeansClaimable DEF PushesKnow
<1> QED BY <1>2, <1>3 DEF HeardIsClaimable

\* ClaimTask never turns an agent away for the parents or the skills of a task that
\* it was offered, or pushed with no parent named twice.
THEOREM WhatIsHeardIsClaimable == Spec => []HeardIsClaimable
BY DispatchInvariant, HeardFromIInv, PTL

\* Without faults the answer to a poll is as urgent as anything its agent could have
\* claimed when FindNextForAgent listed the tasks, and is empty only if there was nothing.
THEOREM OffersAreBest == Spec => []OfferIsBest
<1>1. IInv => OfferIsBest
    BY DEF IInv, PollsMissNothing, PollMissesNothing, OfferIsBest
<1> QED BY <1>1, DispatchInvariant, PTL

\* Without faults the agents hear of every task that becomes ready, by a push or an
\* event, in whatever order its creation, its requeue and its parents' completions
\* come, and whatever DispatchNewTask and PromoteChildren read in between.
THEOREM NobodyHasToPoll == Spec => []ReadyIsHeard
<1>1. IInv /\ ReadyIsHeard /\ [Next]_vars => ReadyIsHeard'
    BY HeardStep
<1> QED BY <1>1, HeardInit, DispatchInvariant, PTL DEF Spec
=============================================================================
