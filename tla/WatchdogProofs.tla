--------------------------- MODULE WatchdogProofs ---------------------------
(***************************************************************************)
(* Theorems about AgentRegistry and Watchdog, for all sets of agents and   *)
(* tasks and all limits that satisfy the assumptions.                      *)
(***************************************************************************)
EXTENDS Watchdog, TLAPS

\* What the registry contributes to IInv.
RegInv == RegTypeOK /\ RefusedIsFresh

USE DEF Never, Ages, Keys

\* What the limiter, the period of the heartbeats and the limit have to do with
\* each other: the row of a steady agent is younger than the limit.
LEMMA SteadyIsYoung ==
    ASSUME RegInv, NEW a \in Steady
    PROVE  beat[a] \in Nat /\ beat[a] <= StaleLimit
BY SteadyType, PeriodsType, BeatsInTime DEF RegInv, RegTypeOK, RefusedIsFresh

LEMMA LiveNotStale == RegInv => LiveIsNotStale
<1> SUFFICES ASSUME RegInv, NEW a \in Steady, a \in ListStale PROVE FALSE
    BY DEF LiveIsNotStale
<1>1. beat[a] \in Nat /\ beat[a] <= StaleLimit
    BY SteadyIsYoung
<1> QED BY <1>1, PeriodsType DEF ListStale

LEMMA RegInvInit == RegInit => RegInv
<1> SUFFICES ASSUME RegInit PROVE RegInv
    OBVIOUS
<1>1. token \in [Agents -> TokenHash] /\ beat \in [Agents -> Ages(StaleLimit)]
    BY PeriodsType DEF RegInit, TokenHash
<1>2. grant \in [Keys -> 0..Window] /\ sent \in [Steady -> 0..BeatEvery]
    BY PeriodsType DEF RegInit
<1>3. ASSUME NEW a \in Steady
      PROVE  token[a] = "own" /\ beat[a] = 0 /\ grant[a] = Window /\ sent[a] = 0
    <2>1. a \in Agents /\ a \in Keys
        BY SteadyType
    <2> QED BY <2>1 DEF RegInit
<1>4. RefusedIsFresh
    BY <1>3, PeriodsType DEF RefusedIsFresh
<1> QED BY <1>1, <1>2, <1>4 DEF RegInv, RegTypeOK

\* A heartbeat that is refused found a row as fresh as the last grant.
LEMMA HeartbeatInv ==
    ASSUME RegInv, NEW c, NEW a \in Agents, Heartbeat(c, a)
    PROVE  RegInv'
<1> USE SteadyType, PeriodsType, CallersDiffer
    DEF RegInv, RegTypeOK, RefusedIsFresh, Heartbeat, Allowed, Allow, UpdateHeartbeat
<1>1. RegTypeOK'
    OBVIOUS
<1>2. ASSUME NEW b \in Steady
      PROVE  /\ token'[b] = "own"
             /\ beat'[b] # Never
             /\ grant'[b] < Window => beat'[b] = grant'[b]
             /\ beat'[b] < sent'[b] + Window
    BY DEF Registered
<1> QED BY <1>1, <1>2

LEMMA RegStepInv == RegInv /\ RegStep => RegInv'
<1> SUFFICES ASSUME RegInv, RegStep PROVE RegInv'
    OBVIOUS
<1> USE SteadyType, PeriodsType, CallersDiffer DEF RegInv, RegTypeOK, RefusedIsFresh, Allow
<1>1. ASSUME NEW c, RegisterRefused(c) PROVE RegInv'
    BY <1>1 DEF RegisterRefused
<1>2. ASSUME NEW c, NEW a \in Agents \ Steady, HeartbeatFails(c, a) PROVE RegInv'
    BY <1>2 DEF HeartbeatFails
<1>3. ASSUME NEW c, NEW a \in Agents \ Steady, RegisterAgent(c, a) PROVE RegInv'
    BY <1>3 DEF RegisterAgent, UpsertAgent, TokenHash
<1> QED BY <1>1, <1>2, <1>3, HeartbeatInv DEF RegStep

\* Time passes only while no steady agent owes a heartbeat.
LEMMA RegTickInv == RegInv /\ RegTick => RegInv'
<1> SUFFICES ASSUME RegInv, RegTick PROVE RegInv'
    OBVIOUS
<1> USE SteadyType, PeriodsType, BeatsInTime, CallersDiffer
    DEF RegInv, RegTypeOK, RefusedIsFresh, RegTick, Older
<1>1. RegTypeOK'
    OBVIOUS
<1>2. ASSUME NEW b \in Steady
      PROVE  /\ token'[b] = "own"
             /\ beat'[b] # Never
             /\ grant'[b] < Window => beat'[b] = grant'[b]
             /\ beat'[b] < sent'[b] + Window
    <2>1. sent[b] < BeatEvery /\ sent'[b] = sent[b] + 1
        BY DEF BeatsAreSent
    <2>2. beat[b] < StaleLimit
        BY <2>1
    <2>3. beat'[b] = beat[b] + 1
        BY <2>2
    <2> QED BY <2>1, <2>2, <2>3
<1> QED BY <1>1, <1>2

LEMMA RegRestartInv == RegInv /\ RegRestart => RegInv'
BY SteadyType, PeriodsType DEF RegInv, RegTypeOK, RefusedIsFresh, RegRestart

-----------------------------------------------------------------------------
(* Types *)

LEMMA AgeLimitType == AgeLimit \in Nat /\ PendingLimit <= AgeLimit /\ TaskLimit <= AgeLimit
BY LimitsType DEF AgeLimit

LEMMA OlderType ==
    ASSUME NEW limit \in Nat, NEW age \in Ages(limit)
    PROVE  Older(age, limit) \in Ages(limit)
BY DEF Older

LEMMA TypeInit == Init => TypeOK
BY RegInvInit, AgeLimitType, LimitsType, NoAgentIsNew
   DEF Init, TypeOK, RegInv, TaskStatus, Sweep, SweepIdle

LEMMA TaskTypeStep == TypeOK /\ TaskStep /\ UNCHANGED <<regVars, sweep, faults>> => TypeOK'
<1> SUFFICES ASSUME TypeOK, TaskStep, UNCHANGED <<regVars, sweep, faults>> PROVE TypeOK'
    OBVIOUS
<1> USE NoAgentIsNew, AgeLimitType, LimitsType
    DEF TypeOK, RegTypeOK, regVars, rowVars, TaskStatus, Move, Requeue
<1>1. ASSUME NEW t \in Tasks, NEW a \in Agents \cup {NoAgent}, CreateTask(t, a) PROVE TypeOK'
    BY <1>1 DEF CreateTask
<1>2. ASSUME NEW t \in Tasks, NEW a \in Agents, ClaimTask(t, a) PROVE TypeOK'
    BY <1>2 DEF ClaimTask
<1>3. ASSUME NEW t \in Tasks, StartTask(t) \/ BlockTask(t) \/ UnblockTask(t) \/ CompleteTask(t)
      PROVE  TypeOK'
    BY <1>3 DEF StartTask, BlockTask, UnblockTask, CompleteTask
<1>4. ASSUME NEW t \in Tasks, FailTask(t) PROVE TypeOK'
    BY <1>4, MaxRetriesType DEF FailTask
<1>5. ASSUME NEW t \in Tasks, HeartbeatCheck(t) \/ HeartbeatUpdate(t) \/ HeartbeatLost(t)
      PROVE  TypeOK'
    BY <1>5 DEF HeartbeatCheck, HeartbeatUpdate, HeartbeatLost
<1> QED BY <1>1, <1>2, <1>3, <1>4, <1>5 DEF TaskStep

LEMMA SweepTypeStep == TypeOK /\ SweepStep /\ UNCHANGED <<regVars, faults>> => TypeOK'
<1> SUFFICES ASSUME TypeOK, SweepStep, UNCHANGED <<regVars, faults>> PROVE TypeOK'
    OBVIOUS
<1> USE NoAgentIsNew, AgeLimitType, LimitsType
    DEF TypeOK, RegTypeOK, regVars, rowVars, taskVars, TaskStatus, Sweep, SweepIdle
<1>1. ASSUME NEW overdue \in SUBSET Tasks, NEW phase \in {"pending", "stale"},
             sweep' = [sweep EXCEPT !.phase = phase, !.todo = overdue],
             UNCHANGED taskVars
      PROVE  TypeOK'
    BY <1>1
<1>2. ASSUME SweepPending \/ SweepStale PROVE TypeOK'
    <2> DEFINE pending == {t \in Tasks : PendingOverdue(t)}
               stale == {t \in Tasks : PulseOverdue(t)}
    <2>1. pending \in SUBSET Tasks /\ stale \in SUBSET Tasks
        OBVIOUS
    <2>2. CASE SweepPending
        <3>1. sweep' = [sweep EXCEPT !.phase = "pending", !.todo = pending]
            BY <2>2 DEF SweepPending
        <3> QED BY <1>1, <2>1, <2>2, <3>1 DEF SweepPending
    <2>3. CASE SweepStale
        <3>1. sweep' = [sweep EXCEPT !.phase = "stale", !.todo = stale]
            BY <2>3 DEF SweepStale
        <3> QED BY <1>1, <2>1, <2>3, <3>1 DEF SweepStale
    <2> QED BY <1>2, <2>2, <2>3
<1>3. ASSUME SweepEnd PROVE TypeOK'
    BY <1>3 DEF SweepEnd
<1>4. ASSUME SweepAgents PROVE TypeOK'
    BY <1>4 DEF SweepAgents, ListStale
<1>5. ASSUME NEW a \in Agents, ReleaseQuery(a) PROVE TypeOK'
    BY <1>5 DEF ReleaseQuery
<1>6. ASSUME NEW t \in Tasks,
             ExpireTask("pending", "pending", t) \/ ExpireTask("stale", "in_progress", t)
      PROVE  TypeOK'
    BY <1>6 DEF ExpireTask, NextRow
<1>7. ASSUME NEW t \in Tasks, ReleaseTask(t) PROVE TypeOK'
    BY <1>7 DEF ReleaseTask, NextRow, Requeue
<1> QED BY <1>2, <1>3, <1>4, <1>5, <1>6, <1>7 DEF SweepStep

LEMMA TypeStep == TypeOK /\ RegInv /\ [Next]_vars => TypeOK' /\ RegInv'
<1> SUFFICES ASSUME TypeOK, RegInv, [Next]_vars PROVE TypeOK' /\ RegInv'
    OBVIOUS
<1>1. ASSUME RegStep, UNCHANGED <<taskVars, sweep, faults>> PROVE TypeOK' /\ RegInv'
    <2>1. RegInv'
        BY <1>1, RegStepInv
    <2> QED BY <1>1, <2>1 DEF TypeOK, RegInv, taskVars, rowVars
<1>2. ASSUME UNCHANGED regVars PROVE RegInv'
    BY <1>2 DEF RegInv, RegTypeOK, RefusedIsFresh, regVars
<1>3. ASSUME TaskStep, UNCHANGED <<regVars, sweep, faults>> PROVE TypeOK' /\ RegInv'
    BY <1>2, <1>3, TaskTypeStep
<1>4. ASSUME SweepStep, UNCHANGED <<regVars, faults>> PROVE TypeOK' /\ RegInv'
    BY <1>2, <1>4, SweepTypeStep
<1>5. ASSUME NEW t \in Tasks, RowFails(t), UNCHANGED regVars PROVE TypeOK' /\ RegInv'
    <2>1. RegInv'
        BY <1>2, <1>5
    <2> QED BY <1>5, <2>1, LimitsType DEF TypeOK, RegInv, RowFails, NextRow, rowVars, Sweep
<1>6. ASSUME Restart PROVE TypeOK' /\ RegInv'
    <2>1. RegInv'
        BY <1>6, RegRestartInv DEF Restart
    <2> QED BY <1>6, <2>1, LimitsType DEF TypeOK, RegInv, Restart, rowVars, Sweep, SweepIdle
<1>7. ASSUME Tick PROVE TypeOK' /\ RegInv'
    <2>1. RegInv'
        BY <1>7, RegTickInv DEF Tick
    <2>2. created' \in [Tasks -> Ages(AgeLimit)] /\ pulse' \in [Tasks -> Ages(TaskLimit)]
        BY <1>7, AgeLimitType, LimitsType, OlderType DEF Tick, TypeOK
    <2> QED BY <1>7, <2>1, <2>2 DEF TypeOK, RegInv, Tick
<1>8. ASSUME UNCHANGED vars PROVE TypeOK' /\ RegInv'
    BY <1>2, <1>8 DEF TypeOK, RegTypeOK, vars, taskVars, rowVars, regVars
<1> QED BY <1>1, <1>3, <1>4, <1>5, <1>6, <1>7, <1>8 DEF Next

-----------------------------------------------------------------------------
(* What the sweep holds, and the heartbeats of tasks *)

\* Every step of a task's handlers keeps the heartbeat of this attempt.
LEMMA PulseTaskStep ==
    ASSUME TypeOK, PulseIsFresh, TaskStep
    PROVE  PulseIsFresh'
<1> USE PulseInTime, LimitsType DEF PulseIsFresh, TypeOK, rowVars, Move, Requeue
<1>1. ASSUME NEW t \in Tasks, NEW a \in Agents \cup {NoAgent}, CreateTask(t, a)
      PROVE  PulseIsFresh'
    BY <1>1 DEF CreateTask
<1>2. ASSUME NEW t \in Tasks, NEW a \in Agents, ClaimTask(t, a) PROVE PulseIsFresh'
    BY <1>2 DEF ClaimTask
<1>3. ASSUME NEW t \in Tasks, StartTask(t) \/ BlockTask(t) PROVE PulseIsFresh'
    BY <1>3 DEF StartTask, BlockTask, Announced
<1>4. ASSUME NEW t \in Tasks, UnblockTask(t) \/ CompleteTask(t) \/ FailTask(t)
      PROVE  PulseIsFresh'
    BY <1>4 DEF UnblockTask, CompleteTask, FailTask
<1>5. ASSUME NEW t \in Tasks, HeartbeatUpdate(t) PROVE PulseIsFresh'
    BY <1>5 DEF HeartbeatUpdate
<1>6. ASSUME NEW t \in Tasks, HeartbeatCheck(t) \/ HeartbeatLost(t) PROVE PulseIsFresh'
    BY <1>6 DEF HeartbeatCheck, HeartbeatLost
<1> QED BY <1>1, <1>2, <1>3, <1>4, <1>5, <1>6 DEF TaskStep

\* Nothing but the sweep's own release gives a selected task back, since a task
\* without retries is not requeued.
LEMMA SelectedTaskStep ==
    ASSUME TypeOK, SelectedIsLost, TaskStep, UNCHANGED sweep
    PROVE  SelectedIsLost'
<1> SUFFICES ASSUME NEW u \in sweep.todo,
                    sweep.phase \in {"stale", "release"}, MaxRetries[u] = 0
             PROVE  status'[u] \notin {"absent", "pending"} /\ assignee'[u] \notin Steady
    BY DEF SelectedIsLost
<1>1. u \in Tasks /\ status[u] \notin {"absent", "pending"} /\ assignee[u] \notin Steady
    BY DEF SelectedIsLost, TypeOK, Sweep
<1> USE <1>1 DEF TypeOK, rowVars, Move, Requeue
<1>2. ASSUME NEW t \in Tasks, NEW a, CreateTask(t, a) \/ ClaimTask(t, a)
      PROVE  status'[u] = status[u] /\ assignee'[u] = assignee[u]
    BY <1>2 DEF CreateTask, ClaimTask
<1>3. ASSUME NEW t \in Tasks,
             StartTask(t) \/ BlockTask(t) \/ UnblockTask(t) \/ CompleteTask(t)
      PROVE  status'[u] \notin {"absent", "pending"} /\ assignee'[u] = assignee[u]
    BY <1>3 DEF StartTask, BlockTask, UnblockTask, CompleteTask
<1>4. ASSUME NEW t \in Tasks, FailTask(t)
      PROVE  status'[u] \notin {"absent", "pending"} /\ assignee'[u] = assignee[u]
    <2>1. CASE t = u
        <3>1. ~(retryCount[u] < MaxRetries[u])
            OBVIOUS
        <3> QED BY <1>4, <2>1, <3>1 DEF FailTask
    <2>2. CASE t # u
        BY <1>4, <2>2 DEF FailTask
    <2> QED BY <2>1, <2>2
<1>5. ASSUME NEW t \in Tasks, HeartbeatCheck(t) \/ HeartbeatUpdate(t) \/ HeartbeatLost(t)
      PROVE  status' = status /\ assignee' = assignee
    BY <1>5 DEF HeartbeatCheck, HeartbeatUpdate, HeartbeatLost
<1> QED BY <1>2, <1>3, <1>4, <1>5 DEF TaskStep

\* What the sweep selects, by an age or for an agent, is not a steady agent's.
LEMMA SweepInv ==
    ASSUME IInv, SweepStep, UNCHANGED <<regVars, faults>>
    PROVE  /\ QuickAnswers => PulseIsFresh' /\ SelectedIsLost'
           /\ (sweep.agents \cap Steady = {})'
<1> USE DEF IInv, TypeOK, Sweep, SweepIdle, taskVars, rowVars
<1>1. (sweep.agents \cap Steady = {})'
    <2>1. ListStale \cap Steady = {}
        BY LiveNotStale DEF RegInv, LiveIsNotStale
    <2>2. CASE SweepPending \/ SweepStale
        <3>1. sweep'.agents = sweep.agents
            BY <2>2 DEF SweepPending, SweepStale
        <3> QED BY <3>1
    <2>3. CASE SweepAgents
        <3>1. sweep'.agents = ListStale
            BY <2>3 DEF SweepAgents
        <3> QED BY <2>1, <3>1
    <2>4. CASE SweepEnd
        BY <2>4 DEF SweepEnd
    <2>5. ASSUME NEW a \in Agents, ReleaseQuery(a) PROVE (sweep.agents \cap Steady = {})'
        BY <2>5 DEF ReleaseQuery
    <2>6. ASSUME NEW t \in Tasks, NEW phase, NextRow(phase, t)
          PROVE  (sweep.agents \cap Steady = {})'
        BY <2>6 DEF NextRow
    <2> QED BY <2>2, <2>3, <2>4, <2>5, <2>6 DEF SweepStep, ExpireTask, ReleaseTask
<1>2. ASSUME QuickAnswers PROVE PulseIsFresh'
    <2> USE <1>2 DEF PulseIsFresh
    <2>1. CASE UNCHANGED rowVars
        BY <2>1
    <2>2. ASSUME NEW t \in Tasks, NEW phase, NEW from, ExpireTask(phase, from, t)
          PROVE  PulseIsFresh'
        BY <2>2 DEF ExpireTask
    <2>3. ASSUME NEW t \in Tasks, ReleaseTask(t) PROVE PulseIsFresh'
        BY <2>3 DEF ReleaseTask, Requeue
    <2> QED BY <2>1, <2>2, <2>3
            DEF SweepStep, SweepPending, SweepStale, SweepAgents, SweepEnd, ReleaseQuery
<1>3. ASSUME QuickAnswers PROVE SelectedIsLost'
    <2> USE <1>3 DEF SelectedIsLost
    <2>1. CASE SweepPending
        <3>1. sweep'.phase = "pending"
            BY <2>1 DEF SweepPending
        <3> QED BY <3>1
    <2>2. CASE SweepAgents
        <3>1. sweep'.todo = {}
            BY <2>2 DEF SweepAgents
        <3> QED BY <3>1
    <2>3. CASE SweepEnd
        BY <2>3 DEF SweepEnd
    <2>4. CASE SweepStale
        BY <2>4, PulseInTime, LimitsType DEF SweepStale, PulseOverdue, PulseIsFresh
    <2>5. ASSUME NEW a \in Agents, ReleaseQuery(a) PROVE SelectedIsLost'
        BY <2>5 DEF ReleaseQuery
    <2>6. ASSUME NEW t \in Tasks, NEW phase, NEW from, from # "absent", ExpireTask(phase, from, t)
          PROVE  SelectedIsLost'
        BY <2>6 DEF ExpireTask, NextRow
    <2>7. ASSUME NEW t \in Tasks, ReleaseTask(t) PROVE SelectedIsLost'
        BY <2>7 DEF ReleaseTask, NextRow, Requeue
    <2> QED BY <2>1, <2>2, <2>3, <2>4, <2>5, <2>6, <2>7 DEF SweepStep
<1> QED BY <1>1, <1>2, <1>3

\* A tick: no steady agent owes a task heartbeat, so none becomes too old.
LEMMA PulseTick ==
    ASSUME TypeOK, QuickAnswers, PulseIsFresh, Tick
    PROVE  PulseIsFresh'
<1> SUFFICES ASSUME NEW t \in Tasks, assignee[t] \in Steady,
                    status[t] \in {"in_progress", "blocked"}
             PROVE  pulse'[t] # Never /\ pulse'[t] <= PulseEvery
    BY DEF PulseIsFresh, Tick
<1>1. pulse[t] \in Nat /\ pulse[t] < PulseEvery
    BY DEF PulseIsFresh, Tick, PulsesAreSent, TypeOK
<1>2. pulse'[t] = pulse[t] + 1
    BY <1>1, PulseInTime, LimitsType DEF Tick, Older
<1> QED BY <1>1, <1>2, PulseInTime, LimitsType

LEMMA InvInit == Init => IInv
<1> SUFFICES ASSUME Init PROVE IInv
    OBVIOUS
<1>1. TypeOK /\ RefusedIsFresh
    BY TypeInit, RegInvInit DEF Init, RegInv
<1>2. PulseIsFresh
    BY DEF Init, PulseIsFresh
<1>3. SelectedIsLost /\ sweep.agents = {}
    BY DEF Init, SelectedIsLost, SweepIdle
<1> QED BY <1>1, <1>2, <1>3 DEF IInv

LEMMA InvStep == IInv /\ [Next]_vars => IInv'
<1> SUFFICES ASSUME IInv, [Next]_vars PROVE IInv'
    OBVIOUS
<1>1. TypeOK /\ RegInv /\ TypeOK' /\ RefusedIsFresh'
    BY TypeStep DEF IInv, RegInv, TypeOK
<1>2. CASE TaskStep /\ UNCHANGED <<regVars, sweep, faults>>
    BY <1>1, <1>2, PulseTaskStep, SelectedTaskStep DEF IInv
<1>3. CASE SweepStep /\ UNCHANGED <<regVars, faults>>
    BY <1>1, <1>3, SweepInv DEF IInv
<1>4. ASSUME NEW t \in Tasks, RowFails(t) PROVE IInv'
    <2>1. sweep'.phase = sweep.phase /\ sweep'.agents = sweep.agents /\ sweep'.todo \subseteq sweep.todo
        BY <1>1, <1>4 DEF RowFails, NextRow, TypeOK, Sweep
    <2>2. UNCHANGED rowVars
        BY <1>4 DEF RowFails
    <2> QED BY <1>1, <2>1, <2>2 DEF IInv, PulseIsFresh, SelectedIsLost, rowVars
<1>5. CASE Restart
    <2>1. UNCHANGED rowVars /\ sweep'.todo = {} /\ sweep'.agents = {}
        BY <1>5 DEF Restart, SweepIdle
    <2> QED BY <1>1, <2>1 DEF IInv, PulseIsFresh, SelectedIsLost, rowVars
<1>6. CASE Tick
    <2>1. UNCHANGED <<status, assignee, sweep>>
        BY <1>6 DEF Tick
    <2>2. QuickAnswers => PulseIsFresh'
        BY <1>1, <1>6, PulseTick DEF IInv
    <2> QED BY <1>1, <2>1, <2>2 DEF IInv, SelectedIsLost
<1>7. CASE UNCHANGED <<rowVars, sweep>>
    BY <1>1, <1>7 DEF IInv, PulseIsFresh, SelectedIsLost, rowVars
<1> QED BY <1>2, <1>3, <1>4, <1>5, <1>6, <1>7 DEF Next, vars, taskVars

\* A step of the sweep leaves the tasks of steady agents as they are.
LEMMA SweepSparesSteady ==
    ASSUME IInv, [Next]_vars, QuickAnswers, NEW t \in Tasks, HeldByLive(t), sweep' # sweep
    PROVE  status'[t] = status[t]
<1> USE DEF HeldByLive
<1>1. ASSUME NEW u \in Tasks, ExpireTask("pending", "pending", u) PROVE status'[t] = status[t]
    BY <1>1 DEF ExpireTask, IInv, TypeOK
<1>2. ASSUME NEW u \in Tasks, NEW phase \in {"stale", "release"}, NextRow(phase, u) PROVE t # u
    BY <1>2 DEF NextRow, IInv, SelectedIsLost
<1>3. ASSUME NEW u \in Tasks, ExpireTask("stale", "in_progress", u) PROVE status'[t] = status[t]
    <2>1. t # u
        BY <1>2, <1>3 DEF ExpireTask
    <2> QED BY <1>3, <2>1 DEF ExpireTask, IInv, TypeOK
<1>4. ASSUME NEW u \in Tasks, ReleaseTask(u) PROVE status'[t] = status[t]
    <2>1. t # u
        BY <1>2, <1>4 DEF ReleaseTask
    <2> QED BY <1>4, <2>1 DEF ReleaseTask, Requeue, IInv, TypeOK
<1>5. CASE UNCHANGED status
    BY <1>5
<1>6. SweepStep => \/ UNCHANGED status
                   \/ \E u \in Tasks : \/ ExpireTask("pending", "pending", u)
                                      \/ ExpireTask("stale", "in_progress", u)
                                      \/ ReleaseTask(u)
    BY DEF SweepStep, SweepPending, SweepStale, SweepAgents, SweepEnd, ReleaseQuery,
           taskVars, rowVars
<1>7. ~SweepStep => UNCHANGED status
    BY DEF Next, vars, taskVars, rowVars, RowFails, Restart, Tick
<1> QED BY <1>1, <1>3, <1>4, <1>5, <1>6, <1>7

-----------------------------------------------------------------------------

\* The rows of steady agents are fresh, so are the heartbeats of the tasks they
\* hold, and the sweep has neither the one nor the other in its hands.
THEOREM WatchdogInvariant == Spec => []IInv
BY InvInit, InvStep, PTL DEF Spec

\* Whoever registers, sends heartbeats in whose name, uses up the limiter's grants
\* or restarts the server: an agent that keeps sending heartbeats is never stale.
THEOREM LiveAgentsStay == Spec => []LiveIsNotStale
<1>1. IInv => LiveIsNotStale
    BY LiveNotStale DEF IInv, RegInv, TypeOK
<1> QED BY <1>1, WatchdogInvariant, PTL

\* The sweep takes no task without retries from an agent that keeps sending
\* heartbeats, when blocked tasks are answered before a heartbeat is due.
THEOREM SteadyAgentsKeepWork == Spec => SteadyKeepsWork
<1>1. IInv /\ [Next]_vars =>
        [\A t \in Tasks :
           QuickAnswers /\ HeldByLive(t) /\ sweep' # sweep => status'[t] = status[t]]_vars
    BY SweepSparesSteady
<1> QED BY <1>1, WatchdogInvariant, PTL DEF Spec, SteadyKeepsWork
=============================================================================
