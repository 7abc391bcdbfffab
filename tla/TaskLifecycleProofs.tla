------------------------ MODULE TaskLifecycleProofs ------------------------
(***************************************************************************)
(* Proofs about TaskLifecycle, for every set of tasks, agents, gates and   *)
(* requests and every parent relation and retry budget.                    *)
(***************************************************************************)
EXTENDS TaskLifecycle, TLAPS

-----------------------------------------------------------------------------
(* Type correctness *)

\* The initial tables are well typed.
LEMMA TypeInit == Init => TypeOK
<1> SUFFICES ASSUME Init PROVE TypeOK
    OBVIOUS
<1>1. Idle \in Request
    BY DEF Idle, Slot, Request
<1>2. SweepIdle \in Sweep
    BY DEF SweepIdle, Sweep
<1> QED BY <1>1, <1>2 DEF Init, TypeOK, TaskStatus, GateStatus

\* A logged event leaves the newest row well typed, whether or not it was lost.
LEMMA TypeLog ==
    ASSUME TypeOK, NEW t \in Tasks, NEW e \in Events, logTaskEvent(t, e)
    PROVE  lastEvent' \in EventRow \cup {NoEvent}
BY DEF TypeOK, logTaskEvent, EventRow

\* A conditional UPDATE of the status writes the status column only.
LEMMA TypeCas ==
    ASSUME TypeOK, NEW t \in Tasks, NEW from, NEW to \in TaskStatus, Cas(t, from, to)
    PROVE  status' \in [Tasks -> TaskStatus]
BY DEF TypeOK, Cas

\* The slots a handler can move to are well typed.
LEMMA SlotTypes ==
    \A t \in Tasks :
        /\ \A a \in Agents : Slot("claim", t, a, NoGate) \in Request
        /\ \A g \in Gates : Slot("gate", t, NoAgent, g) \in Request
        /\ \A g \in Gates : Slot("resume", t, NoAgent, g) \in Request
        /\ Slot("promote", t, NoAgent, NoGate) \in Request
        /\ Slot("count", t, NoAgent, NoGate) \in Request
        /\ Slot("requeue", t, NoAgent, NoGate) \in Request
BY DEF Slot, Request

\* Moving a request from slot to slot keeps the slots well typed.
LEMMA TypeSlots ==
    ASSUME req \in [Requests -> Request], NEW r \in Requests
    PROVE  /\ Close(r) => req' \in [Requests -> Request]
           /\ \A kids \in SUBSET Tasks :
                  Goto(r, Children(kids)) => req' \in [Requests -> Request]
           /\ \A slot \in Request : Goto(r, slot) => req' \in [Requests -> Request]
           /\ \A slot \in Request : Open(r, slot) => req' \in [Requests -> Request]
<1>1. Idle \in Request
    BY DEF Idle, Slot, Request
<1>2. \A kids \in SUBSET Tasks : Children(kids) \in Request
    BY DEF Children, Request
<1> QED BY <1>1, <1>2 DEF Open, Close, Goto

\* A slot that is in use names the rows its next statement needs.
LEMMA SlotFields ==
    ASSUME TypeOK, NEW r \in Requests
    PROVE  /\ req[r].pc \notin {"idle", "child"} => req[r].task \in Tasks
           /\ req[r].pc = "claim" => req[r].agent \in Agents
           /\ req[r].pc = "gate" => req[r].gate \in Gates
           /\ req[r].kids \in SUBSET Tasks
BY DEF TypeOK, Request

\* What a slot that was built holds.
LEMMA SlotParts ==
    /\ \A pc, t, a, g : /\ Slot(pc, t, a, g).pc = pc
                        /\ Slot(pc, t, a, g).task = t
                        /\ Slot(pc, t, a, g).agent = a
    /\ Idle.pc = "idle" /\ Idle.task = NoTask
    /\ \A kids : Children(kids).pc = "child" /\ Children(kids).task = NoTask
BY DEF Slot, Idle, Children

\* A request that moves leaves the others alone.
LEMMA SlotMoves ==
    ASSUME req \in [Requests -> Request], NEW r \in Requests, NEW slot, Goto(r, slot)
    PROVE  req'[r] = slot /\ \A s \in Requests \ {r} : req'[s] = req[s]
BY DEF Goto

\* A handler of one statement writes values of the columns' types.
LEMMA TypeSingleStatement == TypeOK /\ SingleStatement => TypeOK'
<1> SUFFICES ASSUME TypeOK, SingleStatement PROVE TypeOK'
    OBVIOUS
<1> USE TypeLog, TypeCas DEF TypeOK, taskVars, gateVars
<1>1. ASSUME NEW t \in Tasks, StartTask(t) PROVE TypeOK'
    BY <1>1 DEF StartTask, CasStart, TaskStatus, Events
<1>2. ASSUME NEW t \in Tasks, NEW a \in Agents \cup {NoAgent}, CreateTask(t, a)
      PROVE  TypeOK'
    BY <1>2 DEF CreateTask, InsertTask, TaskStatus, Events
<1>3. ASSUME NEW g \in Gates, AnswerGate(g) PROVE TypeOK'
    BY <1>3 DEF AnswerGate, CasGate, GateStatus
<1>4. ASSUME NEW g \in Gates, ApproveGate(g) PROVE TypeOK'
    BY <1>4 DEF ApproveGate, CasGate, GateStatus
<1> QED BY <1>1, <1>2, <1>3, <1>4 DEF SingleStatement

\* So does the first statement of a longer handler, and its slot is well typed.
LEMMA TypeFirstStatement ==
    ASSUME TypeOK, NEW r \in Requests, FirstStatement(r) PROVE TypeOK'
<1> USE TypeLog, TypeCas, SlotTypes DEF taskVars, gateVars
<1>1. ASSUME NEW t \in Tasks, NEW a \in Agents, ClaimCheck(r, t, a) PROVE TypeOK'
    BY <1>1, TypeSlots DEF ClaimCheck, TypeOK
<1>2. ASSUME NEW t \in Tasks, NEW g \in Gates, BlockUpdate(r, t, g) PROVE TypeOK'
    BY <1>2, TypeSlots DEF BlockUpdate, CasBlock, TypeOK, TaskStatus, Events
<1>3. ASSUME NEW t \in Tasks, NEW g \in Gates, UnblockResolve(r, t, g) PROVE TypeOK'
    BY <1>3, TypeSlots DEF UnblockResolve, CasGate, GateStatus, TypeOK
<1>4. ASSUME NEW t \in Tasks, CompleteUpdate(r, t) PROVE TypeOK'
    BY <1>4, TypeSlots DEF CompleteUpdate, CasComplete, TypeOK, TaskStatus, Events
<1>5. ASSUME NEW t \in Tasks, FailUpdate(r, t) PROVE TypeOK'
    BY <1>5, TypeSlots DEF FailUpdate, CasFail, TypeOK, TaskStatus, Events
<1> QED BY <1>1, <1>2, <1>3, <1>4, <1>5 DEF FirstStatement

\* The later statements of the handlers keep the types.
LEMMA TypeLaterStatement ==
    ASSUME TypeOK, NEW r \in Requests, LaterStatement(r) PROVE TypeOK'
<1> USE TypeLog, TypeCas, TypeSlots, SlotTypes, SlotFields DEF taskVars, gateVars
<1>1. CASE ClaimUpdate(r)
    BY <1>1 DEF ClaimUpdate, CasClaim, TypeOK, TaskStatus, Events
<1>2. CASE BlockInsertGate(r)
    BY <1>2 DEF BlockInsertGate, CreateGate, TypeOK, GateStatus
<1>3. CASE UnblockUpdate(r)
    BY <1>3 DEF UnblockUpdate, UpdateStatusInProgress, TypeOK, TaskStatus, Events
<1>4. CASE PromoteQuery(r)
  <2>1. \A kids \in SUBSET Tasks : Goto(r, Children(kids)) => req' \in [Requests -> Request]
      BY DEF TypeOK
  <2>2. {c \in Tasks : req[r].task \in Parents[c] /\ status[c] = "pending"} \in SUBSET Tasks
      OBVIOUS
  <2> QED BY <1>4, <2>1, <2>2 DEF PromoteQuery, TypeOK
<1>5. ASSUME NEW c \in Tasks, PromoteChild(r, c) PROVE TypeOK'
  <2>1. req[r].kids \ {c} \in SUBSET Tasks
      BY <1>5 DEF PromoteChild
  <2>2. req' \in [Requests -> Request]
      BY <1>5, <2>1 DEF PromoteChild, TypeOK
  <2> QED BY <1>5, <2>2 DEF PromoteChild, TypeOK, Events
<1>6. CASE FailRead(r)
    BY <1>6 DEF FailRead, TypeOK
<1>7. CASE FailRequeue(r)
    BY <1>7 DEF FailRequeue, RequeueFailed, TypeOK, TaskStatus, Events
<1>8. CASE Abort(r)
    BY <1>8 DEF Abort, TypeOK
<1> QED BY <1>1, <1>2, <1>3, <1>4, <1>5, <1>6, <1>7, <1>8 DEF LaterStatement

\* A sweep that selects rows and agents is a sweep.
LEMMA SweepMoves ==
    ASSUME sweep \in Sweep
    PROVE  /\ \A rows \in SUBSET Tasks : \A a :
                  [sweep EXCEPT !.todo = rows, !.agents = @ \ {a}] \in Sweep
           /\ \A phase \in {"idle", "pending", "stale", "release"} : \A rows \in SUBSET Tasks :
                  /\ [sweep EXCEPT !.phase = phase, !.todo = rows] \in Sweep
                  /\ [sweep EXCEPT !.phase = phase, !.todo = rows].phase = phase
<1>1. ASSUME NEW rows \in SUBSET Tasks, NEW a
      PROVE  [sweep EXCEPT !.todo = rows, !.agents = @ \ {a}] \in Sweep
  <2> DEFINE half == [sweep EXCEPT !.todo = rows]
  <2>1. half \in Sweep /\ half.agents = sweep.agents
      BY DEF Sweep
  <2>2. [half EXCEPT !.agents = @ \ {a}] \in Sweep
      BY <2>1 DEF Sweep
  <2>3. [sweep EXCEPT !.todo = rows, !.agents = @ \ {a}] = [half EXCEPT !.agents = @ \ {a}]
      BY DEF Sweep
  <2> QED BY <2>2, <2>3
<1>2. ASSUME NEW phase \in {"idle", "pending", "stale", "release"}, NEW rows \in SUBSET Tasks
      PROVE  /\ [sweep EXCEPT !.phase = phase, !.todo = rows] \in Sweep
             /\ [sweep EXCEPT !.phase = phase, !.todo = rows].phase = phase
  <2> DEFINE half == [sweep EXCEPT !.phase = phase]
  <2>1. half \in Sweep /\ half.phase = phase
      BY DEF Sweep
  <2>2. [half EXCEPT !.todo = rows] \in Sweep /\ [half EXCEPT !.todo = rows].phase = phase
      BY <2>1 DEF Sweep
  <2>3. [sweep EXCEPT !.phase = phase, !.todo = rows] = [half EXCEPT !.todo = rows]
      BY DEF Sweep
  <2> QED BY <2>2, <2>3
<1> QED BY <1>1, <1>2

\* The sweep keeps the types.
LEMMA TypeSweepStep == TypeOK /\ SweepStep => TypeOK'
<1> SUFFICES ASSUME TypeOK, SweepStep PROVE TypeOK'
    OBVIOUS
<1> USE TypeLog, TypeCas DEF taskVars, gateVars, Sweep
<1>1. CASE SweepPending
    BY <1>1 DEF SweepPending, TypeOK
<1>2. CASE SweepStale
    BY <1>2 DEF SweepStale, TypeOK
<1>3. CASE SweepAgents
  <2>1. SUBSET Registered \subseteq SUBSET Agents
      BY RegisteredType
  <2>2. CASE sweep' = SweepIdle
      BY <1>3, <2>2 DEF SweepAgents, SweepIdle, TypeOK
  <2>3. ASSUME NEW stale \in SUBSET Registered,
               sweep' = [sweep EXCEPT !.phase = "release", !.agents = stale]
        PROVE  TypeOK'
    <3>1. stale \in SUBSET Agents
        BY <2>1
    <3>2. sweep' \in Sweep
        BY <2>3, <3>1 DEF TypeOK
    <3> QED BY <1>3, <3>2 DEF SweepAgents, TypeOK
  <2> QED BY <1>3, <2>2, <2>3 DEF SweepAgents
<1>4. CASE SweepEnd
    BY <1>4 DEF SweepEnd, SweepIdle, TypeOK
<1>5. ASSUME NEW t \in Tasks, ExpirePendingTask(t) PROVE TypeOK'
    BY <1>5 DEF ExpirePendingTask, ExpireRow, TypeOK, TaskStatus, Events
<1>6. ASSUME NEW t \in Tasks, ExpireStaleTask(t) PROVE TypeOK'
    BY <1>6 DEF ExpireStaleTask, ExpireRow, TypeOK, TaskStatus, Events
<1>7. ASSUME NEW t \in Tasks, ReleaseAgentTask(t) PROVE TypeOK'
    BY <1>7 DEF ReleaseAgentTask, ReleaseTask, TypeOK, TaskStatus, Events
<1>8. ASSUME NEW a \in Agents, ReleaseQuery(a) PROVE TypeOK'
  <2>1. PICK rows \in SUBSET Tasks :
            sweep' = [sweep EXCEPT !.todo = rows, !.agents = @ \ {a}]
      BY <1>8 DEF ReleaseQuery
  <2>2. sweep' \in Sweep
      BY <2>1, SweepMoves DEF TypeOK
  <2> QED BY <1>8, <2>2 DEF ReleaseQuery, TypeOK
<1> QED BY <1>1, <1>2, <1>3, <1>4, <1>5, <1>6, <1>7, <1>8 DEF SweepStep

\* Every step keeps the types.
LEMMA TypeStep == TypeOK /\ [Next]_vars => TypeOK'
<1> SUFFICES ASSUME TypeOK, [Next]_vars PROVE TypeOK'
    OBVIOUS
<1>1. CASE SingleStatement
    BY <1>1, TypeSingleStatement
<1>2. ASSUME NEW r \in Requests, FirstStatement(r) PROVE TypeOK'
    BY <1>2, TypeFirstStatement
<1>3. ASSUME NEW r \in Requests, LaterStatement(r) PROVE TypeOK'
    BY <1>3, TypeLaterStatement
<1>4. CASE SweepStep
    BY <1>4, TypeSweepStep
<1>5. CASE Crash
  <2>1. Idle \in Request /\ SweepIdle \in Sweep
      BY DEF Idle, Slot, Request, SweepIdle, Sweep
  <2> QED BY <1>5, <2>1 DEF Crash, TypeOK, taskVars, gateVars
<1>6. CASE UNCHANGED vars
    BY <1>6 DEF TypeOK, vars
<1> QED BY <1>1, <1>2, <1>3, <1>4, <1>5, <1>6 DEF Next

\* Whatever the clients do and whether or not stale agents are released, every
\* column of the tables and every register of a handler keeps its type.
THEOREM TypeCorrect == Spec => []TypeOK
<1> QED BY TypeInit, TypeStep, PTL DEF Spec
-----------------------------------------------------------------------------
(* The inductive invariant *)

\* The initial board is disciplined if its clients are.
LEMMA InvInit == Disciplined /\ Init => IInv
<1> SUFFICES ASSUME Disciplined, Init PROVE IInv
    OBVIOUS
<1> USE DEF Init
<1>1. TypeOK
    BY TypeInit
<1>2. OpenGateBlocks /\ RequeueOwnsFailure /\ RetryRoom /\ ClaimChecked
    BY DEF OpenGateBlocks, RequeueOwnsFailure, RetryRoom, ClaimChecked, Handles,
           Failing, At, Asks, Unsettled, Idle, Slot
<1>3. RetryBound
    BY DEF RetryBound
<1>4. ParentsFirst /\ WorkHasOwner /\ sweep.phase # "release"
    BY DEF ParentsFirst, WorkHasOwner, SweepIdle
<1> QED BY <1>1, <1>2, <1>3, <1>4 DEF IInv

\* A disciplined sweep does nothing to the board but fail tasks that are pending
\* or in progress, with one conditional UPDATE each.
LEMMA SweepOnlyFails ==
    ASSUME IInv, SweepStep
    PROVE  /\ UNCHANGED <<gateVars, req, assignee, retryCount>>
           /\ sweep'.phase # "release"
           /\ \/ UNCHANGED status
              \/ \E t \in Tasks : Cas(t, {"pending", "in_progress"}, "failed")
<1> USE DEF IInv, taskVars, gateVars
<1>0. sweep \in Sweep
    BY DEF TypeOK
<1>1. CASE SweepPending \/ SweepStale
  <2>1. PICK p \in {"pending", "stale"}, rows \in SUBSET Tasks :
            sweep' = [sweep EXCEPT !.phase = p, !.todo = rows]
      BY <1>1 DEF SweepPending, SweepStale
  <2>2. [sweep EXCEPT !.phase = p, !.todo = rows].phase = p
      BY <1>0, SweepMoves
  <2> QED BY <1>1, <2>1, <2>2 DEF SweepPending, SweepStale
<1>2. CASE SweepAgents
  <2>1. ~StaleRelease
      BY DEF Disciplined
  <2>2. sweep' = SweepIdle
      BY <1>2, <2>1 DEF SweepAgents
  <2> QED BY <1>2, <2>2 DEF SweepAgents, SweepIdle
<1>3. CASE SweepEnd
    BY <1>3 DEF SweepEnd
<1>4. ASSUME NEW t \in Tasks, ExpirePendingTask(t) \/ ExpireStaleTask(t)
      PROVE  /\ UNCHANGED <<gateVars, req, assignee, retryCount>>
             /\ sweep'.phase # "release"
             /\ UNCHANGED status \/ Cas(t, {"pending", "in_progress"}, "failed")
    BY <1>0, <1>4 DEF ExpirePendingTask, ExpireStaleTask, ExpireRow, Cas, Sweep
<1>5. ASSUME NEW t \in Tasks, ReleaseAgentTask(t) PROVE FALSE
    BY <1>5 DEF ReleaseAgentTask
<1>6. ASSUME NEW a \in Agents, ReleaseQuery(a) PROVE FALSE
    BY <1>6 DEF ReleaseQuery
<1> QED BY <1>1, <1>2, <1>3, <1>4, <1>5, <1>6 DEF SweepStep

\* Every step keeps open gates, and the handlers that open and settle them, apart.
LEMMA GateStep == IInv /\ Next => OpenGateBlocks'
<1> SUFFICES ASSUME IInv, Next PROVE OpenGateBlocks'
    OBVIOUS
<1> USE SlotMoves, SlotParts DEF IInv, TypeOK, OpenGateBlocks, Handles, At, Asks,
   Unsettled, taskVars, gateVars
<1>1. ASSUME NEW t \in Tasks, NEW a \in Agents \cup {NoAgent},
             CreateTask(t, a)
      PROVE  OpenGateBlocks'
    BY <1>1 DEF CreateTask, InsertTask, Cas
<1>2. ASSUME NEW t \in Tasks, StartTask(t) PROVE OpenGateBlocks'
    BY <1>2 DEF StartTask, CasStart, Cas
<1>3. ASSUME NEW g \in Gates, AnswerGate(g) PROVE OpenGateBlocks'
    BY <1>3 DEF AnswerGate, CasGate
<1>4. ASSUME NEW g \in Gates, ApproveGate(g) PROVE OpenGateBlocks'
    BY <1>4 DEF ApproveGate, CasGate
<1>5. ASSUME NEW r \in Requests, NEW t \in Tasks, NEW a \in Agents,
             ClaimCheck(r, t, a)
      PROVE  OpenGateBlocks'
    BY <1>5 DEF ClaimCheck, Open
<1>6. ASSUME NEW r \in Requests, NEW t \in Tasks, NEW g \in Gates,
             BlockUpdate(r, t, g)
      PROVE  OpenGateBlocks'
    BY <1>6 DEF BlockUpdate, CasBlock, Cas, Open
<1>7. ASSUME NEW r \in Requests, NEW t \in Tasks, NEW g \in Gates,
             UnblockResolve(r, t, g)
      PROVE  OpenGateBlocks'
    BY <1>7 DEF UnblockResolve, CasGate, Open, Disciplined
<1>8. ASSUME NEW r \in Requests, NEW t \in Tasks,
             CompleteUpdate(r, t)
      PROVE  OpenGateBlocks'
    BY <1>8 DEF CompleteUpdate, CasComplete, Cas, Open
<1>9. ASSUME NEW r \in Requests, NEW t \in Tasks,
             FailUpdate(r, t)
      PROVE  OpenGateBlocks'
    BY <1>9 DEF FailUpdate, CasFail, Cas, Open
<1>10. ASSUME NEW r \in Requests, ClaimUpdate(r) PROVE OpenGateBlocks'
    BY <1>10 DEF ClaimUpdate, CasClaim, Cas, Close
<1>11. ASSUME NEW r \in Requests, BlockInsertGate(r) PROVE OpenGateBlocks'
    BY <1>11, SlotFields DEF BlockInsertGate, CreateGate, Close
<1>12. ASSUME NEW r \in Requests, UnblockUpdate(r) PROVE OpenGateBlocks'
    BY <1>12, SlotFields DEF UnblockUpdate, UpdateStatusInProgress, Close
<1>13. ASSUME NEW r \in Requests, PromoteQuery(r) PROVE OpenGateBlocks'
    BY <1>13 DEF PromoteQuery, Close
<1>14. ASSUME NEW r \in Requests, NEW c \in Tasks,
             PromoteChild(r, c)
      PROVE  OpenGateBlocks'
    BY <1>14 DEF PromoteChild, Close
<1>15. ASSUME NEW r \in Requests, FailRead(r) PROVE OpenGateBlocks'
    BY <1>15, SlotFields DEF FailRead, MayRetry, Close
<1>16. ASSUME NEW r \in Requests, FailRequeue(r) PROVE OpenGateBlocks'
    BY <1>16, SlotFields DEF FailRequeue, RequeueFailed, Close, RequeueOwnsFailure,
       Failing
<1>17. ASSUME NEW r \in Requests, Abort(r) PROVE OpenGateBlocks'
    BY <1>17 DEF Abort, Close
<1>18. CASE SweepStep
    BY <1>18, SweepOnlyFails DEF Cas
<1>19. CASE Crash
    BY <1>19 DEF Crash
<1> QED BY <1>1, <1>2, <1>3, <1>4, <1>5, <1>6, <1>7, <1>8, <1>9, <1>10, <1>11,
   <1>12, <1>13, <1>14, <1>15, <1>16, <1>17, <1>18, <1>19
        DEF Next, SingleStatement, FirstStatement, LaterStatement

\* Every step leaves a failure to the handler that caused it.
LEMMA RequeueStep == IInv /\ Next => RequeueOwnsFailure'
<1> SUFFICES ASSUME IInv, Next PROVE RequeueOwnsFailure'
    OBVIOUS
<1> USE SlotMoves, SlotParts, SlotFields DEF IInv, TypeOK, RequeueOwnsFailure,
   Failing, At, taskVars, gateVars
<1>1. ASSUME NEW t \in Tasks, NEW a \in Agents \cup {NoAgent},
             CreateTask(t, a)
      PROVE  RequeueOwnsFailure'
    BY <1>1 DEF CreateTask, InsertTask, Cas
<1>2. ASSUME NEW t \in Tasks, StartTask(t) PROVE RequeueOwnsFailure'
    BY <1>2 DEF StartTask, CasStart, Cas
<1>3. ASSUME NEW g \in Gates, AnswerGate(g) PROVE RequeueOwnsFailure'
    BY <1>3 DEF AnswerGate, CasGate
<1>4. ASSUME NEW g \in Gates, ApproveGate(g) PROVE RequeueOwnsFailure'
    BY <1>4 DEF ApproveGate, CasGate
<1>5. ASSUME NEW r \in Requests, NEW t \in Tasks, NEW a \in Agents,
             ClaimCheck(r, t, a)
      PROVE  RequeueOwnsFailure'
    BY <1>5 DEF ClaimCheck, Open
<1>6. ASSUME NEW r \in Requests, NEW t \in Tasks, NEW g \in Gates,
             BlockUpdate(r, t, g)
      PROVE  RequeueOwnsFailure'
    BY <1>6 DEF BlockUpdate, CasBlock, Cas, Open
<1>7. ASSUME NEW r \in Requests, NEW t \in Tasks, NEW g \in Gates,
             UnblockResolve(r, t, g)
      PROVE  RequeueOwnsFailure'
    BY <1>7 DEF UnblockResolve, CasGate, Open
<1>8. ASSUME NEW r \in Requests, NEW t \in Tasks,
             CompleteUpdate(r, t)
      PROVE  RequeueOwnsFailure'
    BY <1>8 DEF CompleteUpdate, CasComplete, Cas, Open
<1>9. ASSUME NEW r \in Requests, NEW t \in Tasks,
             FailUpdate(r, t)
      PROVE  RequeueOwnsFailure'
    BY <1>9 DEF FailUpdate, CasFail, Cas, Open
<1>10. ASSUME NEW r \in Requests, ClaimUpdate(r) PROVE RequeueOwnsFailure'
    BY <1>10 DEF ClaimUpdate, CasClaim, Cas, Close
<1>11. ASSUME NEW r \in Requests, BlockInsertGate(r) PROVE RequeueOwnsFailure'
    BY <1>11 DEF BlockInsertGate, CreateGate, Close
<1>12. ASSUME NEW r \in Requests, UnblockUpdate(r) PROVE RequeueOwnsFailure'
    BY <1>12 DEF UnblockUpdate, UpdateStatusInProgress, Close, OpenGateBlocks,
       Handles
<1>13. ASSUME NEW r \in Requests, PromoteQuery(r) PROVE RequeueOwnsFailure'
    BY <1>13 DEF PromoteQuery, Close
<1>14. ASSUME NEW r \in Requests, NEW c \in Tasks,
             PromoteChild(r, c)
      PROVE  RequeueOwnsFailure'
    BY <1>14 DEF PromoteChild, Close
<1>15. ASSUME NEW r \in Requests, FailRead(r) PROVE RequeueOwnsFailure'
    BY <1>15 DEF FailRead, MayRetry, Close
<1>16. ASSUME NEW r \in Requests, FailRequeue(r) PROVE RequeueOwnsFailure'
    BY <1>16 DEF FailRequeue, RequeueFailed, Close
<1>17. ASSUME NEW r \in Requests, Abort(r) PROVE RequeueOwnsFailure'
    BY <1>17 DEF Abort, Close
<1>18. CASE SweepStep
    BY <1>18, SweepOnlyFails DEF Cas
<1>19. CASE Crash
    BY <1>19 DEF Crash
<1> QED BY <1>1, <1>2, <1>3, <1>4, <1>5, <1>6, <1>7, <1>8, <1>9, <1>10, <1>11,
   <1>12, <1>13, <1>14, <1>15, <1>16, <1>17, <1>18, <1>19
        DEF Next, SingleStatement, FirstStatement, LaterStatement

\* Every step keeps the retry counts within the budget, and the requeue in flight
\* within what is left of it.
LEMMA RetryStep == IInv /\ Next => (RetryBound /\ RetryRoom)'
<1> SUFFICES ASSUME IInv, Next PROVE (RetryBound /\ RetryRoom)'
    OBVIOUS
<1> USE SlotMoves, SlotParts, SlotFields, MaxRetriesType DEF IInv, TypeOK,
   RetryBound, RetryRoom, At, taskVars, gateVars
<1>1. ASSUME NEW t \in Tasks, NEW a \in Agents \cup {NoAgent},
             CreateTask(t, a)
      PROVE  (RetryBound /\ RetryRoom)'
    BY <1>1 DEF CreateTask, InsertTask, Cas
<1>2. ASSUME NEW t \in Tasks, StartTask(t) PROVE (RetryBound /\ RetryRoom)'
    BY <1>2 DEF StartTask, CasStart, Cas
<1>3. ASSUME NEW g \in Gates, AnswerGate(g) PROVE (RetryBound /\ RetryRoom)'
    BY <1>3 DEF AnswerGate, CasGate
<1>4. ASSUME NEW g \in Gates, ApproveGate(g) PROVE (RetryBound /\ RetryRoom)'
    BY <1>4 DEF ApproveGate, CasGate
<1>5. ASSUME NEW r \in Requests, NEW t \in Tasks, NEW a \in Agents,
             ClaimCheck(r, t, a)
      PROVE  (RetryBound /\ RetryRoom)'
    BY <1>5 DEF ClaimCheck, Open
<1>6. ASSUME NEW r \in Requests, NEW t \in Tasks, NEW g \in Gates,
             BlockUpdate(r, t, g)
      PROVE  (RetryBound /\ RetryRoom)'
    BY <1>6 DEF BlockUpdate, CasBlock, Cas, Open
<1>7. ASSUME NEW r \in Requests, NEW t \in Tasks, NEW g \in Gates,
             UnblockResolve(r, t, g)
      PROVE  (RetryBound /\ RetryRoom)'
    BY <1>7 DEF UnblockResolve, CasGate, Open
<1>8. ASSUME NEW r \in Requests, NEW t \in Tasks,
             CompleteUpdate(r, t)
      PROVE  (RetryBound /\ RetryRoom)'
    BY <1>8 DEF CompleteUpdate, CasComplete, Cas, Open
<1>9. ASSUME NEW r \in Requests, NEW t \in Tasks,
             FailUpdate(r, t)
      PROVE  (RetryBound /\ RetryRoom)'
    BY <1>9 DEF FailUpdate, CasFail, Cas, Open
<1>10. ASSUME NEW r \in Requests, ClaimUpdate(r) PROVE (RetryBound /\ RetryRoom)'
    BY <1>10 DEF ClaimUpdate, CasClaim, Cas, Close
<1>11. ASSUME NEW r \in Requests,
             BlockInsertGate(r)
      PROVE  (RetryBound /\ RetryRoom)'
    BY <1>11 DEF BlockInsertGate, CreateGate, Close
<1>12. ASSUME NEW r \in Requests, UnblockUpdate(r) PROVE (RetryBound /\ RetryRoom)'
    BY <1>12 DEF UnblockUpdate, UpdateStatusInProgress, Close
<1>13. ASSUME NEW r \in Requests, PromoteQuery(r) PROVE (RetryBound /\ RetryRoom)'
    BY <1>13 DEF PromoteQuery, Close
<1>14. ASSUME NEW r \in Requests, NEW c \in Tasks,
             PromoteChild(r, c)
      PROVE  (RetryBound /\ RetryRoom)'
    BY <1>14 DEF PromoteChild, Close
<1>15. ASSUME NEW r \in Requests, FailRead(r) PROVE (RetryBound /\ RetryRoom)'
    BY <1>15 DEF FailRead, MayRetry, Close
<1>16. ASSUME NEW r \in Requests, FailRequeue(r) PROVE (RetryBound /\ RetryRoom)'
    BY <1>16 DEF FailRequeue, RequeueFailed, Close, RequeueOwnsFailure, Failing
<1>17. ASSUME NEW r \in Requests, Abort(r) PROVE (RetryBound /\ RetryRoom)'
    BY <1>17 DEF Abort, Close
<1>18. CASE SweepStep
    BY <1>18, SweepOnlyFails DEF Cas
<1>19. CASE Crash
    BY <1>19 DEF Crash
<1> QED BY <1>1, <1>2, <1>3, <1>4, <1>5, <1>6, <1>7, <1>8, <1>9, <1>10, <1>11,
   <1>12, <1>13, <1>14, <1>15, <1>16, <1>17, <1>18, <1>19
        DEF Next, SingleStatement, FirstStatement, LaterStatement

\* Every step keeps completed parents completed, and starts work on a task only
\* when all its parents are.
LEMMA ParentStep == IInv /\ Next => (ParentsFirst /\ ClaimChecked)'
<1> SUFFICES ASSUME IInv, Next PROVE (ParentsFirst /\ ClaimChecked)'
    OBVIOUS
<1> USE SlotMoves, SlotParts, SlotFields, ParentsType DEF IInv, TypeOK,
   ParentsFirst, ClaimChecked, taskVars, gateVars
<1>1. ASSUME NEW t \in Tasks, NEW a \in Agents \cup {NoAgent},
             CreateTask(t, a)
      PROVE  (ParentsFirst /\ ClaimChecked)'
    BY <1>1 DEF CreateTask, InsertTask, Cas
<1>2. ASSUME NEW t \in Tasks, StartTask(t) PROVE (ParentsFirst /\ ClaimChecked)'
    BY <1>2 DEF StartTask, CasStart, Cas
<1>3. ASSUME NEW g \in Gates, AnswerGate(g) PROVE (ParentsFirst /\ ClaimChecked)'
    BY <1>3 DEF AnswerGate, CasGate
<1>4. ASSUME NEW g \in Gates, ApproveGate(g) PROVE (ParentsFirst /\ ClaimChecked)'
    BY <1>4 DEF ApproveGate, CasGate
<1>5. ASSUME NEW r \in Requests, NEW t \in Tasks, NEW a \in Agents,
             ClaimCheck(r, t, a)
      PROVE  (ParentsFirst /\ ClaimChecked)'
    BY <1>5 DEF ClaimCheck, Open, CheckParentsCompleted
<1>6. ASSUME NEW r \in Requests, NEW t \in Tasks, NEW g \in Gates,
             BlockUpdate(r, t, g)
      PROVE  (ParentsFirst /\ ClaimChecked)'
    BY <1>6 DEF BlockUpdate, CasBlock, Cas, Open
<1>7. ASSUME NEW r \in Requests, NEW t \in Tasks, NEW g \in Gates,
             UnblockResolve(r, t, g)
      PROVE  (ParentsFirst /\ ClaimChecked)'
    BY <1>7 DEF UnblockResolve, CasGate, Open
<1>8. ASSUME NEW r \in Requests, NEW t \in Tasks,
             CompleteUpdate(r, t)
      PROVE  (ParentsFirst /\ ClaimChecked)'
    BY <1>8 DEF CompleteUpdate, CasComplete, Cas, Open
<1>9. ASSUME NEW r \in Requests, NEW t \in Tasks,
             FailUpdate(r, t)
      PROVE  (ParentsFirst /\ ClaimChecked)'
    BY <1>9 DEF FailUpdate, CasFail, Cas, Open
<1>10. ASSUME NEW r \in Requests,
             ClaimUpdate(r)
      PROVE  (ParentsFirst /\ ClaimChecked)'
    BY <1>10 DEF ClaimUpdate, CasClaim, Cas, Close
<1>11. ASSUME NEW r \in Requests,
             BlockInsertGate(r)
      PROVE  (ParentsFirst /\ ClaimChecked)'
    BY <1>11 DEF BlockInsertGate, CreateGate, Close
<1>12. ASSUME NEW r \in Requests,
             UnblockUpdate(r)
      PROVE  (ParentsFirst /\ ClaimChecked)'
    BY <1>12 DEF UnblockUpdate, UpdateStatusInProgress, Close, OpenGateBlocks,
       Handles, At
<1>13. ASSUME NEW r \in Requests,
             PromoteQuery(r)
      PROVE  (ParentsFirst /\ ClaimChecked)'
    BY <1>13 DEF PromoteQuery, Close
<1>14. ASSUME NEW r \in Requests, NEW c \in Tasks,
             PromoteChild(r, c)
      PROVE  (ParentsFirst /\ ClaimChecked)'
    BY <1>14 DEF PromoteChild, Close
<1>15. ASSUME NEW r \in Requests, FailRead(r) PROVE (ParentsFirst /\ ClaimChecked)'
    BY <1>15 DEF FailRead, MayRetry, Close
<1>16. ASSUME NEW r \in Requests,
             FailRequeue(r)
      PROVE  (ParentsFirst /\ ClaimChecked)'
    BY <1>16 DEF FailRequeue, RequeueFailed, Close, RequeueOwnsFailure, Failing, At
<1>17. ASSUME NEW r \in Requests, Abort(r) PROVE (ParentsFirst /\ ClaimChecked)'
    BY <1>17 DEF Abort, Close
<1>18. CASE SweepStep
    BY <1>18, SweepOnlyFails DEF Cas
<1>19. CASE Crash
    BY <1>19 DEF Crash
<1> QED BY <1>1, <1>2, <1>3, <1>4, <1>5, <1>6, <1>7, <1>8, <1>9, <1>10, <1>11,
   <1>12, <1>13, <1>14, <1>15, <1>16, <1>17, <1>18, <1>19
        DEF Next, SingleStatement, FirstStatement, LaterStatement

\* Every step that empties the assignee takes the task out of the agent's hands.
LEMMA OwnerStep == IInv /\ Next => WorkHasOwner'
<1> SUFFICES ASSUME IInv, Next PROVE WorkHasOwner'
    OBVIOUS
<1> USE SlotFields, NullsAreNew DEF IInv, TypeOK, WorkHasOwner, taskVars, gateVars
<1>1. ASSUME NEW t \in Tasks, NEW a \in Agents \cup {NoAgent},
             CreateTask(t, a)
      PROVE  WorkHasOwner'
    BY <1>1 DEF CreateTask, InsertTask, Cas
<1>2. ASSUME NEW t \in Tasks, StartTask(t) PROVE WorkHasOwner'
    BY <1>2 DEF StartTask, CasStart, Cas
<1>3. ASSUME NEW g \in Gates, AnswerGate(g) PROVE WorkHasOwner'
    BY <1>3 DEF AnswerGate, CasGate
<1>4. ASSUME NEW g \in Gates, ApproveGate(g) PROVE WorkHasOwner'
    BY <1>4 DEF ApproveGate, CasGate
<1>5. ASSUME NEW r \in Requests, NEW t \in Tasks, NEW a \in Agents,
             ClaimCheck(r, t, a)
      PROVE  WorkHasOwner'
    BY <1>5 DEF ClaimCheck, Open
<1>6. ASSUME NEW r \in Requests, NEW t \in Tasks, NEW g \in Gates,
             BlockUpdate(r, t, g)
      PROVE  WorkHasOwner'
    BY <1>6 DEF BlockUpdate, CasBlock, Cas, Open
<1>7. ASSUME NEW r \in Requests, NEW t \in Tasks, NEW g \in Gates,
             UnblockResolve(r, t, g)
      PROVE  WorkHasOwner'
    BY <1>7 DEF UnblockResolve, CasGate, Open
<1>8. ASSUME NEW r \in Requests, NEW t \in Tasks,
             CompleteUpdate(r, t)
      PROVE  WorkHasOwner'
    BY <1>8 DEF CompleteUpdate, CasComplete, Cas, Open
<1>9. ASSUME NEW r \in Requests, NEW t \in Tasks,
             FailUpdate(r, t)
      PROVE  WorkHasOwner'
    BY <1>9 DEF FailUpdate, CasFail, Cas, Open
<1>10. ASSUME NEW r \in Requests, ClaimUpdate(r) PROVE WorkHasOwner'
    BY <1>10 DEF ClaimUpdate, CasClaim, Cas, Close
<1>11. ASSUME NEW r \in Requests, BlockInsertGate(r) PROVE WorkHasOwner'
    BY <1>11 DEF BlockInsertGate, CreateGate, Close
<1>12. ASSUME NEW r \in Requests, UnblockUpdate(r) PROVE WorkHasOwner'
    BY <1>12 DEF UnblockUpdate, UpdateStatusInProgress, Close, OpenGateBlocks,
       Handles, At
<1>13. ASSUME NEW r \in Requests, PromoteQuery(r) PROVE WorkHasOwner'
    BY <1>13 DEF PromoteQuery, Close
<1>14. ASSUME NEW r \in Requests, NEW c \in Tasks,
             PromoteChild(r, c)
      PROVE  WorkHasOwner'
    BY <1>14 DEF PromoteChild, Close
<1>15. ASSUME NEW r \in Requests, FailRead(r) PROVE WorkHasOwner'
    BY <1>15 DEF FailRead, MayRetry, Close
<1>16. ASSUME NEW r \in Requests, FailRequeue(r) PROVE WorkHasOwner'
    BY <1>16 DEF FailRequeue, RequeueFailed, Close
<1>17. ASSUME NEW r \in Requests, Abort(r) PROVE WorkHasOwner'
    BY <1>17 DEF Abort, Close
<1>18. CASE SweepStep
    BY <1>18, SweepOnlyFails DEF Cas
<1>19. CASE Crash
    BY <1>19 DEF Crash
<1> QED BY <1>1, <1>2, <1>3, <1>4, <1>5, <1>6, <1>7, <1>8, <1>9, <1>10, <1>11,
   <1>12, <1>13, <1>14, <1>15, <1>16, <1>17, <1>18, <1>19
        DEF Next, SingleStatement, FirstStatement, LaterStatement
-----------------------------------------------------------------------------
(* Theorems about a disciplined board *)

\* IInv is preserved by every step.
LEMMA InvStep == IInv /\ [Next]_vars => IInv'
<1> SUFFICES ASSUME IInv, [Next]_vars PROVE IInv'
    OBVIOUS
<1>1. TypeOK'
    BY TypeStep DEF IInv
<1>2. CASE Next
  <2>1. (sweep.phase # "release")'
    <3>1. CASE SweepStep
        BY <3>1, SweepOnlyFails
    <3>2. CASE Crash
        BY <3>2 DEF Crash, SweepIdle
    <3>3. ASSUME UNCHANGED sweep PROVE (sweep.phase # "release")'
        BY <3>3 DEF IInv
    <3>4. CASE SingleStatement
        BY <3>3, <3>4 DEF SingleStatement, StartTask, CreateTask, AnswerGate, ApproveGate
    <3>5. ASSUME NEW r \in Requests, FirstStatement(r) PROVE (sweep.phase # "release")'
        BY <3>3, <3>5 DEF FirstStatement, ClaimCheck, BlockUpdate, UnblockResolve,
           CompleteUpdate, FailUpdate
    <3>6. ASSUME NEW r \in Requests, LaterStatement(r) PROVE (sweep.phase # "release")'
        BY <3>3, <3>6 DEF LaterStatement, ClaimUpdate, BlockInsertGate, UnblockUpdate,
           PromoteQuery, PromoteChild, FailRead, FailRequeue, Abort
    <3> QED BY <1>2, <3>1, <3>2, <3>4, <3>5, <3>6 DEF Next
  <2> QED BY <1>1, <1>2, <2>1, GateStep, RequeueStep, RetryStep, ParentStep, OwnerStep
          DEF IInv, Disciplined
<1>3. CASE UNCHANGED vars
    BY <1>1, <1>3 DEF vars, IInv, OpenGateBlocks, RequeueOwnsFailure, RetryBound,
       RetryRoom, ClaimChecked, ParentsFirst, WorkHasOwner, Handles, Failing, At, Asks,
       Disciplined
<1> QED BY <1>2, <1>3

\* While stale agents are not released and gates are used for their own tasks,
\* the inductive invariant holds of every reachable state.
THEOREM BoardInvariant == Disciplined /\ Spec => []IInv
<1> QED BY InvInit, InvStep, PTL DEF Spec

\* BlockTask and UnblockTask, two statements each and without a transaction,
\* never leave an open question on a task that is not blocked, nor two.
THEOREM GatesStayWithBlockedTasks == Disciplined /\ Spec => []OpenGateBlocks
<1>1. IInv => OpenGateBlocks
    BY DEF IInv
<1> QED BY <1>1, BoardInvariant, PTL

\* The unconditional requeue of FailTask is harmless: the failure it overwrites
\* is its own.
THEOREM RequeueIsOwn == Disciplined /\ Spec => []RequeueOwnsFailure
<1>1. IInv => RequeueOwnsFailure
    BY DEF IInv
<1> QED BY <1>1, BoardInvariant, PTL

\* The budget of retries holds, although it is tested in one statement and used
\* in another.
THEOREM RetriesStayInBudget == Disciplined /\ Spec => []RetryBound
<1>1. IInv => RetryBound
    BY DEF IInv
<1> QED BY <1>1, BoardInvariant, PTL

\* No task is worked on before its parents are completed.
THEOREM ParentsAlwaysFirst == Disciplined /\ Spec => []ParentsFirst
<1>1. IInv => ParentsFirst
    BY DEF IInv
<1> QED BY <1>1, BoardInvariant, PTL

\* Whoever looks at a task in work finds its assignee.
THEOREM WorkAlwaysHasOwner == Disciplined /\ Spec => []WorkHasOwner
<1>1. IInv => WorkHasOwner
    BY DEF IInv
<1> QED BY <1>1, BoardInvariant, PTL

\* A blocked task without a way out keeps it so: no handler gives a gate to a task
\* that is blocked already, and none resumes a task but with its own gate.
LEMMA StuckStays ==
    ASSUME IInv, [Next]_vars, NEW t \in Tasks, status[t] = "blocked", ~HasWay(t)
    PROVE  status'[t] = "blocked" /\ ~HasWay(t)'
<1> DEFINE Stuck == status[t] = "blocked" /\ ~HasWay(t)
<1> USE SlotMoves, SlotParts, SlotFields
    DEF IInv, TypeOK, HasWay, Handles, At, Asks, Unsettled, taskVars, gateVars
<1>1. ASSUME SingleStatement PROVE Stuck'
    BY <1>1 DEF SingleStatement, CreateTask, InsertTask, StartTask, CasStart, AnswerGate,
       ApproveGate, CasGate, Cas
<1>2. ASSUME NEW r \in Requests, FirstStatement(r) PROVE Stuck'
    <2>1. ASSUME NEW u \in Tasks, NEW g \in Gates, BlockUpdate(r, u, g) PROVE Stuck'
        BY <2>1 DEF BlockUpdate, CasBlock, Cas, Open
    <2>2. ASSUME NEW u \in Tasks, NEW g \in Gates, UnblockResolve(r, u, g) PROVE Stuck'
        BY <2>2 DEF UnblockResolve, CasGate, Open, Disciplined
    <2>3. ASSUME NEW u \in Tasks, NEW a \in Agents, ClaimCheck(r, u, a) PROVE Stuck'
        BY <2>3 DEF ClaimCheck, Open
    <2>4. ASSUME NEW u \in Tasks, CompleteUpdate(r, u) \/ FailUpdate(r, u) PROVE Stuck'
        BY <2>4 DEF CompleteUpdate, CasComplete, FailUpdate, CasFail, Cas, Open
    <2> QED BY <1>2, <2>1, <2>2, <2>3, <2>4 DEF FirstStatement
<1>3. ASSUME NEW r \in Requests, LaterStatement(r) PROVE Stuck'
    <2>1. CASE ClaimUpdate(r)
        BY <2>1 DEF ClaimUpdate, CasClaim, Cas, Close
    <2>2. CASE BlockInsertGate(r)
        BY <2>2 DEF BlockInsertGate, CreateGate, Close
    <2>3. CASE UnblockUpdate(r)
        BY <2>3 DEF UnblockUpdate, UpdateStatusInProgress, Close
    <2>4. CASE PromoteQuery(r)
        BY <2>4 DEF PromoteQuery, Close
    <2>5. ASSUME NEW c \in Tasks, PromoteChild(r, c) PROVE Stuck'
        BY <2>5 DEF PromoteChild, Close
    <2>6. CASE FailRead(r)
        BY <2>6 DEF FailRead, MayRetry, Close
    <2>7. CASE FailRequeue(r)
        BY <2>7 DEF FailRequeue, RequeueFailed, RequeueOwnsFailure, Failing, Close
    <2>8. CASE Abort(r)
        BY <2>8 DEF Abort, Close
    <2> QED BY <1>3, <2>1, <2>2, <2>3, <2>4, <2>5, <2>6, <2>7, <2>8 DEF LaterStatement
<1>4. CASE SweepStep
    BY <1>4, SweepOnlyFails DEF Cas
<1>5. CASE Crash
    BY <1>5 DEF Crash
<1>6. CASE UNCHANGED vars
    BY <1>6 DEF vars
<1> QED BY <1>1, <1>2, <1>3, <1>4, <1>5, <1>6 DEF Next

\* A task that is refused its gate is left blocked, without a way out.
LEMMA RefusedGetsStuck ==
    ASSUME IInv, NEW r \in Requests, BlockInsertGate(r), gateStatus[req[r].gate] # "absent",
           NEW t \in Tasks, req[r].task = t
    PROVE  status'[t] = "blocked" /\ ~HasWay(t)'
BY SlotMoves, SlotParts, SlotFields
   DEF IInv, TypeOK, OpenGateBlocks, BlockInsertGate, CreateGate, Close, HasWay, Handles, At,
       Asks, Unsettled, taskVars, gateVars
-----------------------------------------------------------------------------
(* Refinement: a disciplined board implements the contract *)

\* Every step of a disciplined board is a step of the contract or leaves its
\* variables alone.
LEMMA ContractStep == IInv /\ [Next]_vars => [Contract!Next]_(Contract!contractVars)
<1> SUFFICES ASSUME IInv, Next PROVE Contract!Next \/ UNCHANGED taskVars
    BY DEF vars, taskVars, Contract!contractVars
<1> USE SlotFields DEF IInv, taskVars, Cas, Contract!Move
<1>1. ASSUME NEW t \in Tasks, NEW a \in Agents \cup {NoAgent}, CreateTask(t, a)
      PROVE  Contract!Create(t, a)
    BY <1>1 DEF CreateTask, InsertTask, Contract!Create
<1>2. ASSUME NEW t \in Tasks, StartTask(t) PROVE Contract!Start(t)
    BY <1>2 DEF StartTask, CasStart, Contract!Start
<1>3. ASSUME NEW t \in Tasks, NEW g \in Gates, NEW r \in Requests, BlockUpdate(r, t, g)
      PROVE  Contract!Block(t)
    BY <1>3 DEF BlockUpdate, CasBlock, Contract!Block
<1>4. ASSUME NEW t \in Tasks, NEW r \in Requests, CompleteUpdate(r, t)
      PROVE  Contract!Complete(t)
    BY <1>4 DEF CompleteUpdate, CasComplete, Contract!Complete
<1>5. ASSUME NEW t \in Tasks, NEW r \in Requests, FailUpdate(r, t)
      PROVE  Contract!Fail(t)
    BY <1>5 DEF FailUpdate, CasFail, Contract!Fail
<1>6. ASSUME NEW r \in Requests, ClaimUpdate(r)
      PROVE  Contract!Claim(req[r].task, req[r].agent) \/ UNCHANGED taskVars
    BY <1>6 DEF ClaimUpdate, CasClaim, ClaimChecked, Contract!Claim, Contract!ParentsDone
<1>7. ASSUME NEW r \in Requests, UnblockUpdate(r) PROVE Contract!Unblock(req[r].task)
    BY <1>7 DEF UnblockUpdate, UpdateStatusInProgress, OpenGateBlocks, Handles, At,
       Contract!Unblock
<1>8. ASSUME NEW r \in Requests, FailRequeue(r) PROVE Contract!Retry(req[r].task)
    BY <1>8 DEF FailRequeue, RequeueFailed, RequeueOwnsFailure, RetryRoom, Failing, At,
       Contract!Retry
<1>9. CASE SweepStep
  <2>1. ASSUME NEW t \in Tasks, Cas(t, {"pending", "in_progress"}, "failed"),
               UNCHANGED <<assignee, retryCount>>
        PROVE  Contract!Expire(t) \/ Contract!Fail(t)
      BY <2>1 DEF Contract!Expire, Contract!Fail
  <2> QED BY <1>9, <2>1, SweepOnlyFails DEF Contract!Next
<1>10. ASSUME NEW r \in Requests,
              \/ BlockInsertGate(r) \/ PromoteQuery(r) \/ FailRead(r) \/ Abort(r) \/ Crash
              \/ \E c \in Tasks : PromoteChild(r, c)
              \/ \E t \in Tasks, a \in Agents : ClaimCheck(r, t, a)
              \/ \E t \in Tasks, g \in Gates : UnblockResolve(r, t, g)
       PROVE  UNCHANGED taskVars
    BY <1>10 DEF BlockInsertGate, PromoteQuery, FailRead, Abort, Crash, PromoteChild,
       ClaimCheck, UnblockResolve
<1>11. CASE Crash \/ \E g \in Gates : AnswerGate(g) \/ ApproveGate(g)
    BY <1>11 DEF Crash, AnswerGate, ApproveGate
<1> HIDE DEF IInv, taskVars, Cas, Contract!Move
<1>12. CASE SingleStatement
    BY <1>1, <1>2, <1>11, <1>12 DEF SingleStatement, Contract!Next
<1>13. ASSUME NEW r \in Requests, FirstStatement(r)
       PROVE  Contract!Next \/ UNCHANGED taskVars
    BY <1>3, <1>4, <1>5, <1>10, <1>13 DEF FirstStatement, Contract!Next
<1>14. ASSUME NEW r \in Requests, LaterStatement(r)
       PROVE  Contract!Next \/ UNCHANGED taskVars
  <2>1. CASE ClaimUpdate(r)
    <3>1. req[r].task \in Tasks /\ req[r].agent \in Agents
        BY <2>1 DEF ClaimUpdate, IInv
    <3> QED BY <1>6, <2>1, <3>1 DEF Contract!Next
  <2>2. CASE UnblockUpdate(r)
    <3>1. req[r].task \in Tasks
        BY <2>2 DEF UnblockUpdate, IInv
    <3> QED BY <1>7, <2>2, <3>1 DEF Contract!Next
  <2>3. CASE FailRequeue(r)
    <3>1. req[r].task \in Tasks
        BY <2>3 DEF FailRequeue, IInv
    <3> QED BY <1>8, <2>3, <3>1 DEF Contract!Next
  <2> QED BY <1>10, <1>14, <2>1, <2>2, <2>3 DEF LaterStatement
<1> QED BY <1>9, <1>11, <1>12, <1>13, <1>14 DEF Next

\* The handlers, several statements each, over tables that a sweep and other
\* handlers change in between, with lost connections and restarts, give clients
\* the atomic state machine the documentation describes.
THEOREM BoardImplementsContract == Disciplined /\ Spec => Implements
<1>1. Init => Contract!Init
    BY DEF Init, Contract!Init
<1> QED BY <1>1, BoardInvariant, ContractStep, PTL DEF Spec, Implements, Contract!Spec

-----------------------------------------------------------------------------
(* What holds whatever the settings and the clients *)

\* No step takes a task over from an agent, releases of stale agents included.
THEOREM NobodyTakesOver == Spec => ClaimExclusive
<1>1. TypeOK /\ [Next]_vars =>
        [\A t \in Tasks :
          assignee'[t] # assignee[t] =>
              \/ status[t] = "absent"
              \/ status[t] = "pending" /\ status'[t] = "claimed"
              \/ assignee'[t] = NoAgent /\ status'[t] = "pending"]_vars
  <2> SUFFICES ASSUME TypeOK, Next, NEW t \in Tasks, assignee'[t] # assignee[t]
               PROVE  \/ status[t] = "absent"
                      \/ status[t] = "pending" /\ status'[t] = "claimed"
                      \/ assignee'[t] = NoAgent /\ status'[t] = "pending"
      OBVIOUS
  <2> USE SlotFields DEF TypeOK, taskVars, Cas
  <2>1. CASE SingleStatement
      BY <2>1 DEF SingleStatement, CreateTask, InsertTask, StartTask, CasStart,
         AnswerGate, ApproveGate
  <2>2. ASSUME NEW r \in Requests, FirstStatement(r) PROVE FALSE
      BY <2>2 DEF FirstStatement, ClaimCheck, BlockUpdate, CasBlock, UnblockResolve,
         CompleteUpdate, CasComplete, FailUpdate, CasFail
  <2>3. ASSUME NEW r \in Requests, LaterStatement(r)
        PROVE  \/ status[t] = "pending" /\ status'[t] = "claimed"
               \/ assignee'[t] = NoAgent /\ status'[t] = "pending"
      BY <2>3 DEF LaterStatement, ClaimUpdate, CasClaim, BlockInsertGate, UnblockUpdate,
         UpdateStatusInProgress, PromoteQuery, PromoteChild, FailRead, FailRequeue,
         RequeueFailed, Abort
  <2>4. CASE SweepStep
      BY <2>4 DEF SweepStep, SweepPending, SweepStale, SweepAgents, SweepEnd,
         ExpirePendingTask, ExpireStaleTask, ExpireRow, ReleaseAgentTask, ReleaseTask,
         ReleaseQuery
  <2>5. CASE Crash
      BY <2>5 DEF Crash
  <2> QED BY <2>1, <2>2, <2>3, <2>4, <2>5 DEF Next
<1> QED BY <1>1, TypeCorrect, PTL DEF Spec, ClaimExclusive

\* The edges and the task of a gate, in every step.
LEMMA GateEdgeStep ==
    TypeOK /\ [Next]_vars =>
        [\A g \in Gates :
          /\ gateStatus'[g] # gateStatus[g] =>
                <<gateStatus[g], gateStatus'[g]>> \in GateEdges
          /\ gateStatus[g] # "absent" => gateTask'[g] = gateTask[g]]_vars
<1> SUFFICES ASSUME TypeOK, Next, NEW g \in Gates
             PROVE  /\ gateStatus'[g] # gateStatus[g] =>
                          <<gateStatus[g], gateStatus'[g]>> \in GateEdges
                    /\ gateStatus[g] # "absent" => gateTask'[g] = gateTask[g]
    OBVIOUS
<1> USE SlotFields DEF TypeOK, gateVars, GateEdges, CasGate
<1>1. CASE SingleStatement
    BY <1>1 DEF SingleStatement, CreateTask, StartTask, AnswerGate, ApproveGate
<1>2. ASSUME NEW r \in Requests, FirstStatement(r)
      PROVE  /\ gateStatus'[g] # gateStatus[g] =>
                   <<gateStatus[g], gateStatus'[g]>> \in GateEdges
             /\ gateStatus[g] # "absent" => gateTask'[g] = gateTask[g]
    BY <1>2 DEF FirstStatement, ClaimCheck, BlockUpdate, UnblockResolve,
       CompleteUpdate, FailUpdate
<1>3. ASSUME NEW r \in Requests, LaterStatement(r)
      PROVE  /\ gateStatus'[g] # gateStatus[g] =>
                   <<gateStatus[g], gateStatus'[g]>> \in GateEdges
             /\ gateStatus[g] # "absent" => gateTask'[g] = gateTask[g]
    BY <1>3 DEF LaterStatement, ClaimUpdate, BlockInsertGate, CreateGate,
       UnblockUpdate, PromoteQuery, PromoteChild, FailRead, FailRequeue, Abort
<1>4. CASE SweepStep \/ Crash
    BY <1>4 DEF SweepStep, SweepPending, SweepStale, SweepAgents, SweepEnd, Crash,
       ExpirePendingTask, ExpireStaleTask, ReleaseAgentTask, ReleaseQuery
<1> QED BY <1>1, <1>2, <1>3, <1>4 DEF Next

\* A gate only moves forward along its documented life, whatever handlers race.
THEOREM GatesMoveForward == Spec => GateForward
BY GateEdgeStep, TypeCorrect, PTL DEF Spec, GateForward
=============================================================================
