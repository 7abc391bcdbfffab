------------------------- MODULE OrchestratorPoller -------------------------
(***************************************************************************)
(* The orchestrator's script (scripts/acb-orchestrator-poller.py) at work  *)
(* on the task board: a timer runs it again and again, runs may overlap,   *)
(* and each run reads the blocked tasks, reads the gates of each, approves *)
(* the gates that agents have answered and unblocks their tasks.           *)
(*                                                                         *)
(* Here the script is the only one to approve gates and to unblock tasks,  *)
(* by a handler that would let it unblock any task with any gate.  A run   *)
(* has a request slot of its own.  What it does with the events afterwards *)
(* is EventFeed, with no event of another agent's to leave out: the steps  *)
(* of the board taken here are those that log nothing.                     *)
(***************************************************************************)
EXTENDS TaskLifecycle

CONSTANTS
    Runs,      \* request slots of runs of the script
    MaxFaults  \* bound: runs that die, handlers that fail, crashes of the server

ASSUME RunsType == Runs \subseteq Requests
ASSUME MaxFaultsType == MaxFaults \in Nat
ASSUME AnyClient == CrossTaskUnblock

VARIABLES
    run,     \* run[o]: where run o of the script stands
    faults,  \* faults so far
    refused  \* history: the tasks that were blocked with the id of a gate in use

boardVars == vars
allVars == <<boardVars, run, faults, refused>>

\* Before GET /tasks; before the gates of the next task; at the gates of a task;
\* between approve and unblock.
Run == [pc : {"idle", "tasks", "gates", "unblock"}, tasks : SUBSET Tasks,
        task : Tasks \cup {NoTask}, gates : SUBSET Gates, gate : Gates \cup {NoGate}]
NoRun == [pc |-> "idle", tasks |-> {}, task |-> NoTask, gates |-> {}, gate |-> NoGate]

InitAll ==
    /\ Init
    /\ run = [o \in Runs |-> NoRun]
    /\ faults = 0
    /\ refused = {}

-----------------------------------------------------------------------------
(* handle_blocked_tasks *)

\* GET /tasks: the blocked ones are gone through.
ListTasks(o) ==
    /\ run[o].pc = "idle"
    /\ run' = [run EXCEPT ![o].pc = "tasks", ![o].tasks = {t \in Tasks : status[t] = "blocked"}]
    /\ UNCHANGED <<boardVars, faults, refused>>

\* Fault: the gates of every task.
ListGatesAll(o, t) ==
    /\ run[o].pc = "tasks" /\ t \in run[o].tasks
    /\ run' = [run EXCEPT ![o].pc = "gates", ![o].tasks = @ \ {t}, ![o].task = t,
                          ![o].gates = {g \in Gates : gateStatus[g] = "asked"}]
    /\ UNCHANGED <<boardVars, faults, refused>>

\* GET /tasks/{id}/gates
ListGates(o, t) ==
    /\ run[o].pc = "tasks" /\ t \in run[o].tasks
    /\ run' = [run EXCEPT
          ![o].pc = "gates", ![o].tasks = @ \ {t}, ![o].task = t,
          ![o].gates = {g \in Gates : gateTask[g] = t /\ gateStatus[g] = "asked"}]
    /\ UNCHANGED <<boardVars, faults, refused>>

NextTask(o) ==
    /\ run[o].pc = "gates" /\ run[o].gates = {}
    /\ run' = [run EXCEPT ![o].pc = "tasks", ![o].task = NoTask]
    /\ UNCHANGED <<boardVars, faults, refused>>

EndRun(o) ==
    /\ run[o].pc = "tasks" /\ run[o].tasks = {}
    /\ run' = [run EXCEPT ![o] = NoRun]
    /\ UNCHANGED <<boardVars, faults, refused>>

\* Fault: the unblock is left to the next run, which looks for asked gates only.
ApproveOnly(o, g) ==
    /\ run[o].pc = "gates" /\ g \in run[o].gates
    /\ run' = [run EXCEPT ![o].gates = @ \ {g}]
    /\ IF gateStatus[g] = "asked" THEN ApproveGate(g) ELSE UNCHANGED boardVars
    /\ UNCHANGED <<faults, refused>>

\* The approval of a gate that was asked when the gates were listed.  Unless it
\* succeeds the gate is passed over.
Approve(o, g) ==
    /\ run[o].pc = "gates" /\ g \in run[o].gates
    /\ IF gateStatus[g] = "asked"
       THEN /\ ApproveGate(g)
            /\ run' = [run EXCEPT ![o].pc = "unblock", ![o].gate = g, ![o].gates = @ \ {g}]
       ELSE /\ run' = [run EXCEPT ![o].gates = @ \ {g}]
            /\ UNCHANGED boardVars
    /\ UNCHANGED <<faults, refused>>

\* Fault: the task of the unblock is one of the tasks not yet gone through.
UnblockOther(o) ==
    /\ run[o].pc = "unblock"
    /\ run' = [run EXCEPT ![o].pc = "gates", ![o].gate = NoGate]
    /\ \E t \in run[o].tasks \cup {run[o].task} : UnblockResolve(o, t, run[o].gate)
    /\ UNCHANGED <<faults, refused>>

\* The unblock of the same task with the same gate; the script reports its result
\* and does not act on it.
Unblock(o) ==
    /\ run[o].pc = "unblock"
    /\ run' = [run EXCEPT ![o].pc = "gates", ![o].gate = NoGate]
    /\ UnblockResolve(o, run[o].task, run[o].gate)
    /\ UNCHANGED <<faults, refused>>

Script(o) ==
    \/ ListTasks(o) \/ NextTask(o) \/ EndRun(o) \/ Unblock(o)
    \/ \E t \in Tasks : ListGates(o, t)
    \/ \E g \in Gates : Approve(o, g)

-----------------------------------------------------------------------------
(* Everybody else *)

\* Agents and the sweep; requests in slots of their own.
Others ==
    \/ \E t \in Tasks : StartTask(t) \/ \E a \in Agents \cup {NoAgent} : CreateTask(t, a)
    \/ \E g \in Gates : AnswerGate(g)
    \/ \E r \in Requests \ Runs, t \in Tasks :
          \/ \E a \in Agents : ClaimCheck(r, t, a)
          \/ \E g \in Gates : BlockUpdate(r, t, g)
          \/ CompleteUpdate(r, t)
          \/ FailUpdate(r, t)
    \/ \E r \in Requests \ Runs :
          \/ ClaimUpdate(r) \/ FailRead(r) \/ FailRequeue(r)
          \/ PromoteQuery(r) \/ \E c \in Tasks : PromoteChild(r, c)
    \/ SweepStep

\* The INSERT of a gate with the id that the blocking agent chose.
InsertGate(r) ==
    /\ BlockInsertGate(r)
    /\ refused' = IF gateStatus[req[r].gate] = "absent" THEN refused
                                                       ELSE refused \cup {req[r].task}
    /\ UNCHANGED <<run, faults>>

-----------------------------------------------------------------------------
(* Failures *)

MayFault == faults < MaxFaults /\ faults' = faults + 1 /\ UNCHANGED refused

\* No answer in time to the request for the gates of t, to the approval of g, or
\* to an approval that was carried out: the script passes over the task or the gate.
NoAnswer(o) ==
    /\ MayFault
    /\ \/ /\ run[o].pc = "tasks"
          /\ \E t \in run[o].tasks : run' = [run EXCEPT ![o].tasks = @ \ {t}]
       \/ /\ run[o].pc = "gates"
          /\ \E g \in run[o].gates : run' = [run EXCEPT ![o].gates = @ \ {g}]
       \/ /\ run[o].pc = "unblock"
          /\ run' = [run EXCEPT ![o].pc = "gates", ![o].gate = NoGate]
    /\ UNCHANGED boardVars

RunDies(o) ==
    /\ MayFault
    /\ run[o] # NoRun
    /\ run' = [run EXCEPT ![o] = NoRun]
    /\ UNCHANGED boardVars

\* A handler ends between its statements.
RequestFails(r) ==
    /\ MayFault
    /\ Abort(r)
    /\ UNCHANGED run

\* The server stops and starts; the runs of the script, processes of their own,
\* go on.
ServerCrash ==
    /\ MayFault
    /\ Crash
    /\ UNCHANGED run

-----------------------------------------------------------------------------

NextAll ==
    \/ \E o \in Runs : Script(o) \/ NoAnswer(o) \/ RunDies(o)
    \/ \E r \in Requests : RequestFails(r)
    \/ (Others \/ \E o \in Runs : UnblockUpdate(o)) /\ UNCHANGED <<run, faults, refused>>
    \/ \E r \in Requests \ Runs : InsertGate(r)
    \/ ServerCrash

SpecAll == InitAll /\ [][NextAll /\ UNCHANGED lastEvent]_allVars

\* The timer starts the script for ever, and the server works on its requests.
FairSpecAll ==
    /\ SpecAll
    /\ \A o \in Runs :
          /\ WF_allVars(Script(o) /\ UNCHANGED lastEvent)
          /\ WF_allVars(UnblockUpdate(o) /\ UNCHANGED <<run, faults, refused, lastEvent>>)

-----------------------------------------------------------------------------
(* Correctness *)

\* The script unblocks a task with its own gate only, from a list of tasks and a
\* list of gates that are both old: with it as the only orchestrator the board is
\* in the setting in which it implements TaskContract.
Discipline == INSTANCE TaskLifecycle WITH CrossTaskUnblock <- FALSE
StaysDisciplined == Discipline!Spec

\* What a run remembers of the board is old and still true where it matters: the
\* gates it goes through, and the one it has approved, belong to the task that it
\* names in its requests.
RunInv ==
    /\ run \in [Runs -> Run]
    /\ faults \in 0..MaxFaults
    /\ refused \subseteq Tasks
    /\ \A o \in Runs :
          /\ run[o].pc \in {"gates", "unblock"} =>
                /\ run[o].task \in Tasks
                /\ \A g \in run[o].gates : gateStatus[g] # "absent" /\ gateTask[g] = run[o].task
          /\ run[o].pc = "unblock" =>
                /\ run[o].gate \in Gates
                /\ gateStatus[run[o].gate] # "absent" /\ gateTask[run[o].gate] = run[o].task

\* As long as nothing is cut short a blocked task can be resumed, unless it was
\* blocked with the id of a gate in use.
Resumable ==
    \A t \in Tasks :
        faults = 0 /\ status[t] = "blocked" /\ t \notin refused => HasWay(t)

\* A task that was refused its gate is blocked for good.
RefusedIsStuck ==
    \A t \in refused : status[t] = "blocked" /\ ~HasWay(t)

\* Which blocked tasks the orchestrator can still resume is decided by the INSERT
\* of the gate alone: where it succeeded, overlapping runs with old lists always
\* leave a way out; where it was refused, no later request opens one.
BlockedHasWay == Resumable /\ RefusedIsStuck

\* A task whose gate was answered by its agent is resumed, whatever overlapping
\* runs of the script do to each other, unless a run or request is cut short: a
\* gate that is approved and not resolved is not looked at again.
AnsweredIsResumed ==
    \A g \in Gates :
        gateStatus[g] = "asked" ~>
            \/ faults > 0
            \/ gateStatus[g] = "resolved" /\ status[gateTask[g]] # "blocked"
=============================================================================
