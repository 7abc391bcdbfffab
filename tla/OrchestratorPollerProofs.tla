---------------------- MODULE OrchestratorPollerProofs ----------------------
(***************************************************************************)
(* Theorems about OrchestratorPoller, for any number of runs of the script,*)
(* boards of any size and any number of failures.                          *)
(***************************************************************************)
EXTENDS OrchestratorPoller, TaskLifecycleProofs

-----------------------------------------------------------------------------
(* The steps of the script as steps of the board *)

\* What an unblock of the script is: the unblock of some task with some gate.
LEMMA UnblockIs ==
    ASSUME TypeOK, RunInv, NEW o \in Runs, Unblock(o)
    PROVE  /\ run[o].task \in Tasks /\ run[o].gate \in Gates
           /\ gateTask[run[o].gate] = run[o].task
           /\ UnblockResolve(o, run[o].task, run[o].gate)
BY DEF RunInv, Unblock

\* The script, the others and the failures do nothing that the board's handlers
\* could not do.
LEMMA BoardSteps == TypeOK /\ RunInv /\ [NextAll]_allVars => [Next]_vars
<1> SUFFICES ASSUME TypeOK, RunInv, NextAll PROVE Next \/ UNCHANGED vars
    BY DEF allVars, boardVars
<1> USE RunsType
<1>1. ASSUME NEW o \in Runs, Script(o) PROVE Next \/ UNCHANGED vars
    <2>1. ASSUME NEW g \in Gates, Approve(o, g) PROVE Next \/ UNCHANGED vars
        <3>1. ApproveGate(g) \/ UNCHANGED vars
            BY <2>1 DEF Approve, boardVars
        <3> QED BY <3>1 DEF Next, SingleStatement
    <2>2. ASSUME Unblock(o) PROVE Next
        <3>1. FirstStatement(o)
            BY <2>2, UnblockIs DEF FirstStatement
        <3> QED BY <3>1 DEF Next
    <2> QED BY <1>1, <2>1, <2>2
            DEF Script, ListTasks, ListGates, NextTask, EndRun, boardVars
<1>2. ASSUME NEW o \in Runs, NoAnswer(o) \/ RunDies(o) PROVE UNCHANGED vars
    BY <1>2 DEF NoAnswer, RunDies, boardVars
<1>3. ASSUME NEW r \in Requests, RequestFails(r) PROVE Next
    BY <1>3 DEF RequestFails, Next, LaterStatement
<1>4. ASSUME NEW o \in Runs, UnblockUpdate(o) PROVE Next
    BY <1>4 DEF Next, LaterStatement
<1>5. CASE ServerCrash
    BY <1>5 DEF ServerCrash, Next
<1>6. CASE Others
    BY <1>6 DEF Others, Next, SingleStatement, FirstStatement, LaterStatement
<1>7. ASSUME NEW r \in Requests, InsertGate(r) PROVE Next
    BY <1>7 DEF InsertGate, Next, LaterStatement
<1> QED BY <1>1, <1>2, <1>3, <1>4, <1>5, <1>6, <1>7 DEF NextAll

\* A gate that exists exists for good, with its task.
LEMMA GatesStay ==
    ASSUME TypeOK, [Next]_vars, NEW g \in Gates, gateStatus[g] # "absent"
    PROVE  gateStatus'[g] # "absent" /\ gateTask'[g] = gateTask[g]
BY GateEdgeStep DEF GateEdges, vars

-----------------------------------------------------------------------------
(* What runs remember *)

\* The conjunct of RunInv about one run.
Remembers(o) ==
    /\ run[o].pc \in {"gates", "unblock"} =>
          /\ run[o].task \in Tasks
          /\ \A g \in run[o].gates : gateStatus[g] # "absent" /\ gateTask[g] = run[o].task
    /\ run[o].pc = "unblock" =>
          /\ run[o].gate \in Gates
          /\ gateStatus[run[o].gate] # "absent" /\ gateTask[run[o].gate] = run[o].task

\* A run that goes back to the gates of its task is a run.
LEMMA BackToGates ==
    ASSUME NEW x \in Run
    PROVE  [x EXCEPT !.pc = "gates", !.gate = NoGate] \in Run
<1> DEFINE y == [x EXCEPT !.pc = "gates"]
<1>1. y \in Run
    BY DEF Run
<1>2. [y EXCEPT !.gate = NoGate] \in Run
    BY <1>1 DEF Run
<1>3. [x EXCEPT !.pc = "gates", !.gate = NoGate] = [y EXCEPT !.gate = NoGate]
    BY DEF Run
<1> QED BY <1>2, <1>3

\* Only tasks are refused their gates.
LEMMA RefusedTyped ==
    ASSUME TypeOK, RunInv, NEW r \in Requests, InsertGate(r)
    PROVE  refused' \subseteq Tasks
BY SlotFields DEF RunInv, InsertGate, BlockInsertGate

LEMMA RunInit == InitAll => RunInv
BY MaxFaultsType DEF InitAll, RunInv, Run, NoRun

\* Each step of a run remembers what the next one needs; others leave it alone.
LEMMA RunStep == TypeOK /\ RunInv /\ [NextAll]_allVars => RunInv'
<1> SUFFICES ASSUME TypeOK, RunInv, [NextAll]_allVars PROVE RunInv'
    OBVIOUS
<1>1. [Next]_vars
    BY BoardSteps
<1>2. ASSUME NEW o \in Runs, run'[o] = run[o] PROVE Remembers(o)'
    BY <1>1, <1>2, GatesStay DEF RunInv, Run, Remembers
<1>3. ASSUME NEW o \in Runs, run'[o] = NoRun PROVE Remembers(o)'
    BY <1>3 DEF NoRun, Remembers
<1>4. ASSUME NEW o \in Runs, Script(o) \/ NoAnswer(o) \/ RunDies(o)
      PROVE  /\ run' \in [Runs -> Run] /\ faults' \in 0..MaxFaults
             /\ Remembers(o)' /\ \A p \in Runs \ {o} : run'[p] = run[p]
    <2> USE DEF RunInv
    <2>1. ASSUME RunDies(o) \/ EndRun(o)
          PROVE  /\ run' \in [Runs -> Run] /\ faults' \in 0..MaxFaults
                 /\ run'[o] = NoRun /\ \A p \in Runs \ {o} : run'[p] = run[p]
        <3>1. run' = [run EXCEPT ![o] = NoRun] /\ NoRun \in Run
            BY <2>1 DEF RunDies, EndRun, Run, NoRun
        <3>2. faults' \in 0..MaxFaults
            BY <2>1, MaxFaultsType DEF RunDies, EndRun, MayFault
        <3> QED BY <3>1, <3>2
    <2>2. CASE ListTasks(o) \/ NextTask(o)
        <3>1. faults' = faults
            BY <2>2 DEF ListTasks, NextTask
        <3>2. run' \in [Runs -> Run] /\ \A p \in Runs \ {o} : run'[p] = run[p]
            BY <2>2 DEF ListTasks, NextTask, Run
        <3>3. run'[o].pc = "tasks"
            BY <2>2 DEF ListTasks, NextTask, Run
        <3> QED BY <3>1, <3>2, <3>3 DEF Remembers
    <2>3. CASE \E t \in Tasks : ListGates(o, t)
        <3>1. PICK t \in Tasks : ListGates(o, t)
            BY <2>3
        <3> DEFINE asked == {g \in Gates : gateTask[g] = t /\ gateStatus[g] = "asked"}
                   next == [run[o] EXCEPT !.pc = "gates", !.tasks = @ \ {t}, !.task = t,
                                          !.gates = asked]
        <3>2. run' = [run EXCEPT ![o] = next] /\ faults' = faults
            BY <3>1 DEF ListGates
        <3>3. next \in Run /\ next.pc = "gates" /\ next.task = t /\ next.gates = asked
            BY DEF Run
        <3>4. UNCHANGED <<gateStatus, gateTask>>
            BY <3>1 DEF ListGates, boardVars, vars
        <3> HIDE DEF next
        <3> QED BY <3>2, <3>3, <3>4 DEF Remembers
    <2>4. ASSUME NEW g \in Gates, Approve(o, g)
          PROVE  /\ run' \in [Runs -> Run] /\ faults' \in 0..MaxFaults
                 /\ Remembers(o)' /\ \A p \in Runs \ {o} : run'[p] = run[p]
        <3>1. /\ run[o].pc = "gates" /\ g \in run[o].gates /\ run[o].task \in Tasks
              /\ run[o].gates \subseteq Gates
              /\ \A h \in run[o].gates :
                    gateStatus'[h] # "absent" /\ gateTask'[h] = run[o].task
            BY <1>1, <2>4, GatesStay DEF Approve, Run
        <3> QED BY <2>4, <3>1 DEF Approve, Remembers, Run
    <2>5. CASE Unblock(o) \/ (NoAnswer(o) /\ run[o].pc = "unblock")
        <3>1. /\ run[o].pc = "unblock" /\ run[o].task \in Tasks
              /\ run[o].gates \subseteq Gates
              /\ \A h \in run[o].gates :
                    gateStatus'[h] # "absent" /\ gateTask'[h] = run[o].task
            BY <1>1, <2>5, GatesStay DEF Unblock, NoAnswer, Run
        <3>2. run' = [run EXCEPT ![o].pc = "gates", ![o].gate = NoGate]
            BY <2>5 DEF Unblock, NoAnswer
        <3>3. faults' \in 0..MaxFaults
            BY <2>5, MaxFaultsType DEF Unblock, NoAnswer, MayFault
        <3>4. run' \in [Runs -> Run] /\ \A p \in Runs \ {o} : run'[p] = run[p]
            <4> DEFINE next == [run[o] EXCEPT !.pc = "gates", !.gate = NoGate]
            <4>1. next \in Run
                BY BackToGates
            <4>2. run' = [run EXCEPT ![o] = next]
                BY <3>2
            <4> QED BY <4>1, <4>2
        <3>5. /\ run'[o].pc = "gates" /\ run'[o].task = run[o].task
              /\ run'[o].gates = run[o].gates
            BY <3>2 DEF Run
        <3> QED BY <3>1, <3>3, <3>4, <3>5 DEF Remembers
    <2>6. CASE NoAnswer(o) /\ run[o].pc # "unblock"
        <3>1. PICK ts \in SUBSET run[o].tasks, gs \in SUBSET run[o].gates :
                 run' = [run EXCEPT ![o].tasks = ts, ![o].gates = gs]
            <4>1. ASSUME NEW t \in run[o].tasks, run' = [run EXCEPT ![o].tasks = @ \ {t}]
                  PROVE  run' = [run EXCEPT ![o].tasks = run[o].tasks \ {t},
                                            ![o].gates = run[o].gates]
                BY <4>1 DEF Run
            <4>2. ASSUME NEW g \in run[o].gates, run' = [run EXCEPT ![o].gates = @ \ {g}]
                  PROVE  run' = [run EXCEPT ![o].tasks = run[o].tasks,
                                            ![o].gates = run[o].gates \ {g}]
                BY <4>2 DEF Run
            <4>3. CASE \E t \in run[o].tasks : run' = [run EXCEPT ![o].tasks = @ \ {t}]
                <5>1. PICK t \in run[o].tasks : run' = [run EXCEPT ![o].tasks = @ \ {t}]
                    BY <4>3
                <5>2. run[o].tasks \ {t} \in SUBSET run[o].tasks
                    OBVIOUS
                <5> QED BY <4>1, <5>1, <5>2
            <4>4. CASE \E g \in run[o].gates : run' = [run EXCEPT ![o].gates = @ \ {g}]
                <5>1. PICK g \in run[o].gates : run' = [run EXCEPT ![o].gates = @ \ {g}]
                    BY <4>4
                <5>2. run[o].gates \ {g} \in SUBSET run[o].gates
                    OBVIOUS
                <5> QED BY <4>2, <5>1, <5>2
            <4> QED BY <2>6, <4>3, <4>4 DEF NoAnswer
        <3> DEFINE next == [run[o] EXCEPT !.tasks = ts, !.gates = gs]
        <3>2. run' = [run EXCEPT ![o] = next] /\ next \in Run
            <4>1. [run[o] EXCEPT !.tasks = ts] \in Run
                BY DEF Run
            <4>2. [[run[o] EXCEPT !.tasks = ts] EXCEPT !.gates = gs] \in Run
                BY <4>1 DEF Run
            <4> QED BY <3>1, <4>2
        <3>3. /\ next.pc = run[o].pc /\ next.task = run[o].task
              /\ next.gates \subseteq run[o].gates
            BY DEF Run
        <3>4. UNCHANGED <<gateStatus, gateTask>> /\ faults' \in 0..MaxFaults
            BY <2>6, MaxFaultsType DEF NoAnswer, MayFault, boardVars, vars
        <3> HIDE DEF next
        <3> QED BY <2>6, <3>2, <3>3, <3>4 DEF Remembers
    <2> QED BY <1>3, <1>4, <2>1, <2>2, <2>3, <2>4, <2>5, <2>6 DEF Script
<1>6. ASSUME UNCHANGED run, faults' \in 0..MaxFaults, refused' \subseteq Tasks PROVE RunInv'
    BY <1>2, <1>6 DEF RunInv, Remembers
<1>5. CASE ServerCrash
    BY <1>5, <1>6, MaxFaultsType DEF ServerCrash, MayFault, RunInv
<1>7. ASSUME NEW r \in Requests, RequestFails(r) PROVE RunInv'
    BY <1>6, <1>7, MaxFaultsType DEF RequestFails, MayFault, RunInv
<1>8. CASE UNCHANGED <<run, faults, refused>>
    BY <1>6, <1>8 DEF RunInv
<1>10. ASSUME NEW r \in Requests, InsertGate(r) PROVE RunInv'
    <2>1. UNCHANGED run /\ faults' \in 0..MaxFaults /\ refused' \subseteq Tasks
        BY <1>10, RefusedTyped DEF InsertGate, RunInv
    <2> QED BY <1>6, <2>1
<1>9. ASSUME NEW o \in Runs, Script(o) \/ NoAnswer(o) \/ RunDies(o) PROVE RunInv'
    <2>1. UNCHANGED refused
        BY <1>9 DEF Script, ListTasks, ListGates, NextTask, EndRun, Approve, Unblock,
                    NoAnswer, RunDies, MayFault
    <2> QED BY <1>2, <1>4, <1>9, <2>1 DEF RunInv, Remembers
<1> QED BY <1>5, <1>7, <1>8, <1>9, <1>10 DEF NextAll, allVars

-----------------------------------------------------------------------------
(* Blocked tasks *)

\* What leads out of blocked goes through a gate: as long as the handlers of t and
\* its unsettled gates stay, so does its way out.
LEMMA WayStays ==
    ASSUME NEW t \in Tasks, HasWay(t),
           \A r \in Requests : Handles(r, t) => req'[r] = req[r],
           \A g \in Gates : Asks(g, t) => Asks(g, t)'
    PROVE  HasWay(t)'
BY DEF HasWay, Handles, At

\* The agents' and the sweep's steps.
LEMMA OthersKeepWay ==
    ASSUME TypeOK, Others, NEW t \in Tasks,
           status[t] = "blocked" => HasWay(t), status'[t] = "blocked"
    PROVE  HasWay(t)'
<1> USE SlotParts, SlotMoves, SlotFields
    DEF TypeOK, taskVars, gateVars, Handles, At, Asks, Unsettled, Cas, Open, Close
<1>1. ASSUME NEW u \in Tasks,
             StartTask(u) \/ \E a \in Agents \cup {NoAgent} : CreateTask(u, a)
      PROVE  HasWay(t)'
    BY <1>1, WayStays DEF StartTask, CasStart, CreateTask, InsertTask
<1>2. ASSUME NEW g \in Gates, AnswerGate(g) PROVE HasWay(t)'
    BY <1>2, WayStays DEF AnswerGate, CasGate
<1>3. ASSUME NEW r \in Requests, NEW u \in Tasks, NEW g \in Gates, BlockUpdate(r, u, g)
      PROVE  HasWay(t)'
    <2>1. CASE u = t
        BY <1>3, <2>1 DEF BlockUpdate, HasWay
    <2>2. CASE u # t
        BY <1>3, <2>2, WayStays DEF BlockUpdate, CasBlock
    <2> QED BY <2>1, <2>2
<1>4. ASSUME NEW r \in Requests, NEW u \in Tasks,
             \/ \E a \in Agents : ClaimCheck(r, u, a)
             \/ CompleteUpdate(r, u) \/ FailUpdate(r, u)
      PROVE  HasWay(t)'
    <2>1. req[r] = Idle /\ UNCHANGED gateVars /\ status[t] = "blocked"
        BY <1>4 DEF ClaimCheck, CompleteUpdate, CasComplete, FailUpdate, CasFail
    <2>2. \A s \in Requests \ {r} : req'[s] = req[s]
        BY <1>4 DEF ClaimCheck, CompleteUpdate, FailUpdate
    <2> QED BY <2>1, <2>2, WayStays
<1>6. ASSUME NEW r \in Requests, ClaimUpdate(r) \/ FailRead(r) \/ FailRequeue(r)
      PROVE  HasWay(t)'
    BY <1>6, WayStays DEF ClaimUpdate, CasClaim, FailRead, FailRequeue, RequeueFailed
<1>7. ASSUME NEW r \in Requests,
             PromoteQuery(r) \/ \E c \in Tasks : PromoteChild(r, c)
      PROVE  HasWay(t)'
    <2>1. req[r].pc \in {"promote", "child"} /\ UNCHANGED <<gateVars, taskVars>>
        BY <1>7 DEF PromoteQuery, PromoteChild
    <2>2. \A s \in Requests \ {r} : req'[s] = req[s]
        BY <1>7 DEF PromoteQuery, PromoteChild
    <2> QED BY <2>1, <2>2, WayStays
<1>8. CASE SweepStep
    <2>1. UNCHANGED <<gateVars, req>>
        BY <1>8 DEF SweepStep, SweepPending, SweepStale, SweepAgents, SweepEnd, ReleaseQuery,
                    ExpirePendingTask, ExpireStaleTask, ReleaseAgentTask
    <2>2. status[t] = "blocked"
        <3>1. ASSUME NEW u \in Tasks,
                     ExpirePendingTask(u) \/ ExpireStaleTask(u) \/ ReleaseAgentTask(u)
              PROVE  status[t] = "blocked"
            BY <3>1 DEF ExpirePendingTask, ExpireStaleTask, ExpireRow, ReleaseAgentTask, ReleaseTask
        <3>2. CASE UNCHANGED status
            BY <3>2
        <3> QED BY <1>8, <3>1, <3>2
                DEF SweepStep, SweepPending, SweepStale, SweepAgents, SweepEnd, ReleaseQuery
    <2> QED BY <2>1, <2>2, WayStays
<1> QED BY <1>1, <1>2, <1>3, <1>4, <1>6, <1>7, <1>8 DEF Others

\* The INSERT that is not refused gives the task its way.
LEMMA InsertKeepsWay ==
    ASSUME TypeOK, NEW r \in Requests, InsertGate(r), NEW t \in Tasks,
           HasWay(t) \/ t \in refused
    PROVE  HasWay(t)' \/ t \in refused'
<1> USE SlotParts, SlotMoves, SlotFields
    DEF TypeOK, gateVars, taskVars, Handles, At, Asks, Unsettled, Close, InsertGate,
        BlockInsertGate, CreateGate
<1>1. CASE t \in refused
    BY <1>1
<1>2. CASE t \notin refused /\ req[r].task = t
    <2>1. CASE gateStatus[req[r].gate] = "absent"
        BY <1>2, <2>1 DEF HasWay
    <2>2. CASE gateStatus[req[r].gate] # "absent"
        BY <1>2, <2>2
    <2> QED BY <2>1, <2>2
<1>3. CASE t \notin refused /\ req[r].task # t
    BY <1>3, WayStays
<1> QED BY <1>1, <1>2, <1>3

\* No step without fault takes the last way out of blocked from a task.
LEMMA WayStep ==
    TypeOK /\ RunInv /\ Resumable /\ [NextAll]_allVars => Resumable'
<1> SUFFICES ASSUME TypeOK, RunInv, Resumable, [NextAll]_allVars, NEW t \in Tasks,
                    faults' = 0, status'[t] = "blocked", t \notin refused'
             PROVE  HasWay(t)'
    BY DEF Resumable
<1>1. ASSUME MayFault PROVE FALSE
    BY <1>1 DEF MayFault, RunInv
<1>2. ASSUME faults = 0, status[t] = "blocked", t \notin refused PROVE HasWay(t)
    BY <1>2 DEF Resumable
<1> USE <1>2
<1>3. CASE UNCHANGED <<boardVars, faults, refused>>
    BY <1>3, WayStays DEF boardVars, vars, Asks
<1>4. ASSUME NEW o \in Runs, NEW g \in Gates, Approve(o, g) PROVE HasWay(t)'
    <2>1. CASE ApproveGate(g)
        BY <1>4, <2>1, WayStays
           DEF Approve, ApproveGate, CasGate, Asks, Unsettled, taskVars, TypeOK
    <2> QED BY <1>3, <1>4, <2>1 DEF Approve
<1>5. ASSUME NEW o \in Runs, Unblock(o) PROVE HasWay(t)'
    <2>1. /\ UnblockResolve(o, run[o].task, run[o].gate) /\ run[o].gate \in Gates
          /\ gateTask[run[o].gate] = run[o].task /\ UNCHANGED <<faults, refused>>
        BY <1>5, UnblockIs DEF Unblock
    <2> USE SlotParts, SlotMoves, RunsType
        DEF UnblockResolve, CasGate, Open, Handles, At, Asks, taskVars, TypeOK
    <2>2. CASE run[o].task = t
        BY <2>1, <2>2 DEF HasWay
    <2>3. CASE run[o].task # t
        BY <2>1, <2>3, WayStays
    <2> QED BY <2>2, <2>3
<1>6. ASSUME NEW o \in Runs, UnblockUpdate(o), UNCHANGED <<faults, refused>> PROVE HasWay(t)'
    BY <1>6, WayStays, SlotFields, SlotMoves, RunsType
       DEF UnblockUpdate, UpdateStatusInProgress, Close, Handles, At, Asks, gateVars, TypeOK
<1>7. CASE Others /\ UNCHANGED <<faults, refused>>
    BY <1>7, OthersKeepWay
<1>9. ASSUME NEW r \in Requests, InsertGate(r) PROVE HasWay(t)'
    <2>1. status[t] = "blocked" /\ faults = 0
        BY <1>9 DEF InsertGate, BlockInsertGate, taskVars
    <2> QED BY <1>9, <2>1, InsertKeepsWay
<1>8. ASSUME NEW o \in Runs, Script(o) PROVE HasWay(t)'
    BY <1>3, <1>4, <1>5, <1>8 DEF Script, ListTasks, ListGates, NextTask, EndRun
<1> QED BY <1>1, <1>3, <1>6, <1>7, <1>8, <1>9
        DEF NextAll, NoAnswer, RunDies, RequestFails, ServerCrash, allVars

-----------------------------------------------------------------------------

LEMMA AllInit == InitAll => TypeOK /\ RunInv /\ Resumable /\ RefusedIsStuck
BY RunInit, TypeInit DEF InitAll, Init, Resumable, RefusedIsStuck

\* Lists of tasks and of gates that are out of date, runs that overlap, runs,
\* requests and servers that fail: what a run acts on still fits together.
THEOREM RunsRemember == SpecAll => [](TypeOK /\ RunInv)
<1>1. InitAll => TypeOK /\ RunInv
    BY AllInit
<1>2. TypeOK /\ RunInv /\ [NextAll]_allVars => TypeOK' /\ RunInv'
    BY RunStep, BoardSteps, TypeStep
<1>3. [NextAll /\ UNCHANGED lastEvent]_allVars => [NextAll]_allVars
    OBVIOUS
<1> QED BY <1>1, <1>2, <1>3, PTL DEF SpecAll

\* As long as nothing is cut short, a blocked task that got its gate has a way out,
\* however handlers and runs overlap.
THEOREM BlockedTasksHaveWay == SpecAll => []Resumable
<1>1. InitAll => Resumable
    BY AllInit
<1>2. [NextAll /\ UNCHANGED lastEvent]_allVars => [NextAll]_allVars
    OBVIOUS
<1> QED BY <1>1, <1>2, WayStep, RunsRemember, PTL DEF SpecAll

-----------------------------------------------------------------------------
(* The script keeps the board in the setting in which it keeps its contract *)

\* The two settings share every statement but the first one of an unblock.
LEMMA SameSingle == SingleStatement => Discipline!SingleStatement
BY DEF SingleStatement, StartTask, CreateTask, AnswerGate, ApproveGate, CasStart, InsertTask,
       CasGate, Cas, logTaskEvent, taskVars, gateVars, Discipline!SingleStatement,
       Discipline!StartTask, Discipline!CreateTask, Discipline!AnswerGate,
       Discipline!ApproveGate, Discipline!CasStart, Discipline!InsertTask, Discipline!CasGate,
       Discipline!Cas, Discipline!logTaskEvent, Discipline!taskVars, Discipline!gateVars

LEMMA SameLater == \A r \in Requests : LaterStatement(r) => Discipline!LaterStatement(r)
BY DEF LaterStatement, ClaimUpdate, CasClaim, BlockInsertGate, CreateGate, UnblockUpdate,
       UpdateStatusInProgress, PromoteQuery, PromoteChild, Children, CheckParentsCompleted,
       FailRead, MayRetry, FailRequeue, RequeueFailed, Abort, Goto, Open, Close, Slot, Idle,
       Cas, logTaskEvent, taskVars, gateVars, Discipline!LaterStatement, Discipline!ClaimUpdate,
       Discipline!CasClaim, Discipline!BlockInsertGate, Discipline!CreateGate,
       Discipline!UnblockUpdate, Discipline!UpdateStatusInProgress, Discipline!PromoteQuery,
       Discipline!PromoteChild, Discipline!Children, Discipline!CheckParentsCompleted,
       Discipline!FailRead, Discipline!MayRetry, Discipline!FailRequeue,
       Discipline!RequeueFailed, Discipline!Abort, Discipline!Goto, Discipline!Open,
       Discipline!Close, Discipline!Slot, Discipline!Idle, Discipline!Cas,
       Discipline!logTaskEvent, Discipline!taskVars, Discipline!gateVars

LEMMA SameSweep == SweepStep => Discipline!SweepStep
BY DEF SweepStep, SweepPending, SweepStale, SweepAgents, SweepEnd, SweepIdle, ExpirePendingTask,
       ExpireStaleTask, ExpireRow, ReleaseAgentTask, ReleaseTask, ReleaseQuery, Cas,
       logTaskEvent, taskVars, gateVars, Discipline!SweepStep, Discipline!SweepPending,
       Discipline!SweepStale, Discipline!SweepAgents, Discipline!SweepEnd, Discipline!SweepIdle,
       Discipline!ExpirePendingTask, Discipline!ExpireStaleTask, Discipline!ExpireRow,
       Discipline!ReleaseAgentTask, Discipline!ReleaseTask, Discipline!ReleaseQuery,
       Discipline!Cas, Discipline!logTaskEvent, Discipline!taskVars, Discipline!gateVars

LEMMA SameCrash == Crash => Discipline!Crash
BY DEF Crash, SweepIdle, Slot, Idle, taskVars, gateVars, Discipline!Crash, Discipline!SweepIdle,
       Discipline!Slot, Discipline!Idle, Discipline!taskVars, Discipline!gateVars

LEMMA SameFirst ==
    ASSUME NEW r \in Requests, NEW t \in Tasks
    PROVE  /\ \A a \in Agents : ClaimCheck(r, t, a) => Discipline!ClaimCheck(r, t, a)
           /\ \A g \in Gates : BlockUpdate(r, t, g) => Discipline!BlockUpdate(r, t, g)
           /\ CompleteUpdate(r, t) => Discipline!CompleteUpdate(r, t)
           /\ FailUpdate(r, t) => Discipline!FailUpdate(r, t)
BY DEF ClaimCheck, CheckParentsCompleted, BlockUpdate, CasBlock, CompleteUpdate, CasComplete,
       FailUpdate, CasFail, Goto, Open, Close, Slot, Idle, Cas, logTaskEvent, taskVars,
       gateVars, Discipline!ClaimCheck, Discipline!CheckParentsCompleted,
       Discipline!BlockUpdate, Discipline!CasBlock, Discipline!CompleteUpdate,
       Discipline!CasComplete, Discipline!FailUpdate, Discipline!CasFail, Discipline!Goto,
       Discipline!Open, Discipline!Close, Discipline!Slot, Discipline!Idle, Discipline!Cas,
       Discipline!logTaskEvent, Discipline!taskVars, Discipline!gateVars

\* With the task's own gate that one is the same, too.
LEMMA SameUnblock ==
    ASSUME NEW r, NEW t, NEW g, UnblockResolve(r, t, g), gateTask[g] = t
    PROVE  Discipline!UnblockResolve(r, t, g)
BY DEF UnblockResolve, CasGate, Goto, Open, Close, Slot, Idle, taskVars,
       Discipline!UnblockResolve, Discipline!CasGate, Discipline!Goto, Discipline!Open,
       Discipline!Close, Discipline!Slot, Discipline!Idle, Discipline!taskVars

\* Every step is one that a board with disciplined clients can take.
LEMMA DisciplineStep ==
    TypeOK /\ RunInv /\ [NextAll]_allVars => [Discipline!Next]_(Discipline!vars)
<1> SUFFICES ASSUME TypeOK, RunInv, NextAll PROVE Discipline!Next \/ UNCHANGED vars
    BY DEF allVars, boardVars, vars, Discipline!vars
<1> USE RunsType
<1>1. ASSUME NEW o \in Runs, Script(o) PROVE Discipline!Next \/ UNCHANGED vars
    <2>1. ASSUME NEW g \in Gates, Approve(o, g) PROVE Discipline!Next \/ UNCHANGED vars
        <3>1. SingleStatement \/ UNCHANGED vars
            BY <2>1 DEF Approve, boardVars, SingleStatement
        <3> QED BY <3>1, SameSingle DEF Discipline!Next
    <2>2. ASSUME Unblock(o) PROVE Discipline!Next
        <3>1. Discipline!FirstStatement(o)
            BY <2>2, UnblockIs, SameUnblock DEF Discipline!FirstStatement
        <3> QED BY <3>1 DEF Discipline!Next
    <2> QED BY <1>1, <2>1, <2>2
            DEF Script, ListTasks, ListGates, NextTask, EndRun, boardVars
<1>2. ASSUME NEW o \in Runs, NoAnswer(o) \/ RunDies(o) PROVE UNCHANGED vars
    BY <1>2 DEF NoAnswer, RunDies, boardVars
<1>3. ASSUME NEW r \in Requests, LaterStatement(r) PROVE Discipline!Next
    BY <1>3, SameLater DEF Discipline!Next
<1>4. ASSUME NEW r \in Requests, RequestFails(r) PROVE Discipline!Next
    BY <1>3, <1>4 DEF RequestFails, LaterStatement
<1>5. ASSUME NEW o \in Runs, UnblockUpdate(o) PROVE Discipline!Next
    BY <1>3, <1>5 DEF LaterStatement
<1>6. CASE ServerCrash
    BY <1>6, SameCrash DEF ServerCrash, Discipline!Next
<1>8. ASSUME NEW r \in Requests, InsertGate(r) PROVE Discipline!Next
    BY <1>3, <1>8 DEF InsertGate, LaterStatement
<1>7. CASE Others
    <2>1. CASE SingleStatement
        BY <2>1, SameSingle DEF Discipline!Next
    <2>2. ASSUME NEW r \in Requests, NEW t \in Tasks,
                 \/ \E a \in Agents : ClaimCheck(r, t, a)
                 \/ \E g \in Gates : BlockUpdate(r, t, g)
                 \/ CompleteUpdate(r, t) \/ FailUpdate(r, t)
          PROVE  Discipline!Next
        BY <2>2, SameFirst DEF Discipline!Next, Discipline!FirstStatement
    <2>3. CASE SweepStep
        BY <2>3, SameSweep DEF Discipline!Next
    <2> QED BY <1>3, <1>7, <2>1, <2>2, <2>3 DEF Others, SingleStatement, LaterStatement
<1> QED BY <1>1, <1>2, <1>4, <1>5, <1>6, <1>7, <1>8 DEF NextAll

\* Lists of the board that are out of date by the time they are used never make
\* the script unblock a task with the gate of another one.
THEOREM ScriptIsDisciplined == SpecAll => StaysDisciplined
<1>1. InitAll => Discipline!Init
    BY DEF InitAll, Init, Discipline!Init, Idle, Discipline!Idle, Slot, Discipline!Slot,
           SweepIdle, Discipline!SweepIdle
<1>2. [NextAll /\ UNCHANGED lastEvent]_allVars => [NextAll]_allVars
    OBVIOUS
<1> QED BY <1>1, <1>2, DisciplineStep, RunsRemember, PTL
        DEF SpecAll, StaysDisciplined, Discipline!Spec

\* What TaskLifecycleProofs shows of disciplined boards.
Board == INSTANCE TaskLifecycleProofs WITH CrossTaskUnblock <- FALSE

\* Discipline and Board are one and the same board.
LEMMA SameInit == Discipline!Init => Board!Init
BY DEF Discipline!Init, Board!Init, Discipline!SweepIdle, Board!SweepIdle, Discipline!Idle,
       Board!Idle, Discipline!Slot, Board!Slot

LEMMA SameNext == Discipline!Next => Board!Next
BY DEF Discipline!Next, Board!Next, Discipline!Crash, Board!Crash, Discipline!gateVars,
       Board!gateVars, Discipline!taskVars, Board!taskVars, Discipline!SweepIdle,
       Board!SweepIdle, Discipline!Idle, Board!Idle, Discipline!Slot, Board!Slot,
       Discipline!SweepStep, Board!SweepStep, Discipline!ReleaseQuery, Board!ReleaseQuery,
       Discipline!ReleaseAgentTask, Board!ReleaseAgentTask, Discipline!ReleaseTask,
       Board!ReleaseTask, Discipline!logTaskEvent, Board!logTaskEvent,
       Discipline!ExpireStaleTask, Board!ExpireStaleTask, Discipline!ExpireRow, Board!ExpireRow,
       Discipline!Cas, Board!Cas, Discipline!ExpirePendingTask, Board!ExpirePendingTask,
       Discipline!SweepEnd, Board!SweepEnd, Discipline!SweepAgents, Board!SweepAgents,
       Discipline!SweepStale, Board!SweepStale, Discipline!SweepPending, Board!SweepPending,
       Discipline!LaterStatement, Board!LaterStatement, Discipline!Abort, Board!Abort,
       Discipline!Close, Board!Close, Discipline!Goto, Board!Goto, Discipline!FailRequeue,
       Board!FailRequeue, Discipline!RequeueFailed, Board!RequeueFailed, Discipline!FailRead,
       Board!FailRead, Discipline!MayRetry, Board!MayRetry, Discipline!PromoteChild,
       Board!PromoteChild, Discipline!Children, Board!Children,
       Discipline!CheckParentsCompleted, Board!CheckParentsCompleted, Discipline!PromoteQuery,
       Board!PromoteQuery, Discipline!UnblockUpdate, Board!UnblockUpdate,
       Discipline!UpdateStatusInProgress, Board!UpdateStatusInProgress,
       Discipline!BlockInsertGate, Board!BlockInsertGate, Discipline!CreateGate,
       Board!CreateGate, Discipline!ClaimUpdate, Board!ClaimUpdate, Discipline!CasClaim,
       Board!CasClaim, Discipline!FirstStatement, Board!FirstStatement, Discipline!FailUpdate,
       Board!FailUpdate, Discipline!Open, Board!Open, Discipline!CasFail, Board!CasFail,
       Discipline!CompleteUpdate, Board!CompleteUpdate, Discipline!CasComplete,
       Board!CasComplete, Discipline!UnblockResolve, Board!UnblockResolve, Discipline!CasGate,
       Board!CasGate, Discipline!BlockUpdate, Board!BlockUpdate, Discipline!CasBlock,
       Board!CasBlock, Discipline!ClaimCheck, Board!ClaimCheck, Discipline!SingleStatement,
       Board!SingleStatement, Discipline!ApproveGate, Board!ApproveGate, Discipline!AnswerGate,
       Board!AnswerGate, Discipline!CreateTask, Board!CreateTask, Discipline!InsertTask,
       Board!InsertTask, Discipline!StartTask, Board!StartTask, Discipline!CasStart,
       Board!CasStart

\* So what the script and the others do is a behaviour of a disciplined board.
LEMMA SpecIsBoard == SpecAll => Board!Spec
<1>1. [Discipline!Next]_(Discipline!vars) => [Board!Next]_(Board!vars)
    BY SameNext DEF Discipline!vars, Board!vars
<1>2. Discipline!Spec => Board!Spec
    BY <1>1, SameInit, PTL DEF Discipline!Spec, Board!Spec
<1> QED BY <1>2, ScriptIsDisciplined, PTL DEF StaysDisciplined

\* With the script as the only orchestrator, and stale agents not released, the
\* board keeps its contract, although its API would allow any client to break it.
THEOREM ScriptKeepsContract == ~StaleRelease /\ SpecAll => Implements
<1>1. Board!Disciplined /\ Board!Spec => Board!Implements
    BY Board!BoardImplementsContract, SwitchType, ParentsType, MentionsParents,
       MaxRetriesType, QualifiedType, RegisteredType, NullsAreNew
<1>2. ~StaleRelease => Board!Disciplined
    BY DEF Board!Disciplined
<1>3. Board!Implements => Implements
    <2>1. Board!Contract!Init => Contract!Init
        BY DEF Contract!Init, Board!Contract!Init
    <2>2. [Board!Contract!Next]_(Board!Contract!contractVars)
              => [Contract!Next]_(Contract!contractVars)
        BY DEF Contract!contractVars, Board!Contract!contractVars,
               Contract!Next, Board!Contract!Next, Contract!Move, Board!Contract!Move,
               Contract!ParentsDone, Board!Contract!ParentsDone, Contract!Create,
               Board!Contract!Create, Contract!Claim, Board!Contract!Claim, Contract!Start,
               Board!Contract!Start, Contract!Block, Board!Contract!Block, Contract!Unblock,
               Board!Contract!Unblock, Contract!Complete, Board!Contract!Complete,
               Contract!Fail, Board!Contract!Fail, Contract!Expire, Board!Contract!Expire,
               Contract!Retry, Board!Contract!Retry
    <2> QED BY <2>1, <2>2, PTL
            DEF Board!Implements, Implements, Board!Contract!Spec, Contract!Spec
<1> QED BY <1>1, <1>2, <1>3, SpecIsBoard, PTL

\* A task that was refused its gate stays as it is.
LEMMA RefusedStep ==
    Board!IInv /\ TypeOK /\ RunInv /\ RefusedIsStuck /\ [NextAll]_allVars => RefusedIsStuck'
<1> SUFFICES ASSUME Board!IInv, TypeOK, RunInv, RefusedIsStuck, [NextAll]_allVars,
                    NEW t \in refused'
             PROVE  status'[t] = "blocked" /\ ~HasWay(t)'
    BY DEF RefusedIsStuck
<1>1. [Board!Next]_(Board!vars)
    BY DisciplineStep, SameNext DEF Discipline!vars, Board!vars
<1>2. HasWay(t) <=> Board!HasWay(t)
    BY DEF HasWay, Board!HasWay, Handles, Board!Handles, At, Board!At, Asks, Board!Asks,
           Unsettled, Board!Unsettled
<1>3. HasWay(t)' <=> Board!HasWay(t)'
    BY DEF HasWay, Board!HasWay, Handles, Board!Handles, At, Board!At, Asks, Board!Asks,
           Unsettled, Board!Unsettled
<1>4. CASE t \in refused
    <2>1. t \in Tasks /\ status[t] = "blocked" /\ ~Board!HasWay(t)
        BY <1>2, <1>4 DEF RunInv, RefusedIsStuck
    <2> QED BY <1>1, <1>3, <2>1, Board!StuckStays, SwitchType, ParentsType, MentionsParents,
               MaxRetriesType, QualifiedType, RegisteredType, NullsAreNew
<1>5. CASE t \notin refused
    <2>1. PICK r \in Requests : InsertGate(r)
        BY <1>5 DEF NextAll, Script, ListTasks, ListGates, NextTask, EndRun, Approve, Unblock,
                    NoAnswer, RunDies, RequestFails, ServerCrash, MayFault, allVars
    <2>2. /\ BlockInsertGate(r) /\ gateStatus[req[r].gate] # "absent" /\ req[r].task = t
          /\ t \in Tasks
        BY <1>5, <2>1, SlotFields DEF InsertGate, BlockInsertGate
    <2>3. Board!BlockInsertGate(r)
        BY <2>2 DEF BlockInsertGate, CreateGate, Close, Goto, Idle, Slot, taskVars, gateVars,
                    Board!BlockInsertGate, Board!CreateGate, Board!Close, Board!Goto,
                    Board!Idle, Board!Slot, Board!taskVars, Board!gateVars
    <2> QED BY <1>3, <2>2, <2>3, Board!RefusedGetsStuck, SwitchType, ParentsType,
               MentionsParents, MaxRetriesType, QualifiedType, RegisteredType, NullsAreNew
<1> QED BY <1>4, <1>5

\* The key of the gates decides for good: a blocked task can be resumed as long as
\* nothing is cut short, unless the INSERT of its gate was refused, and then nothing
\* resumes it.
THEOREM RefusedGateBlocksForGood == ~StaleRelease /\ SpecAll => []BlockedHasWay
<1>1. ~StaleRelease /\ SpecAll => []Board!IInv
    <2>1. ~StaleRelease => Board!Disciplined
        BY DEF Board!Disciplined
    <2>2. Board!Disciplined /\ Board!Spec => []Board!IInv
        BY Board!BoardInvariant, SwitchType, ParentsType, MentionsParents, MaxRetriesType,
           QualifiedType, RegisteredType, NullsAreNew
    <2> QED BY <2>1, <2>2, SpecIsBoard, PTL
<1>2. InitAll => RefusedIsStuck
    BY AllInit
<1>3. [NextAll /\ UNCHANGED lastEvent]_allVars => [NextAll]_allVars
    OBVIOUS
<1>4. ~StaleRelease /\ SpecAll => []RefusedIsStuck
    BY <1>1, <1>2, <1>3, RefusedStep, RunsRemember, PTL DEF SpecAll
<1>5. Resumable /\ RefusedIsStuck => BlockedHasWay
    BY DEF BlockedHasWay
<1> QED BY <1>4, <1>5, BlockedTasksHaveWay, PTL
=============================================================================
