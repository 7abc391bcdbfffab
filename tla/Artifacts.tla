----------------------------- MODULE Artifacts -----------------------------
(***************************************************************************)
(* The artifacts of a task: objects in RustFS and their list in the column *)
(* tasks.artifacts_json, kept by internal/api/artifact_handler.go.  Each   *)
(* request changes the two stores one after the other, and the list by a   *)
(* read and a write that no transaction joins.                             *)
(*                                                                         *)
(* Sizes, content types and the order of the list are left out; the tasks  *)
(* exist.  A key is the task's id and a fresh UUID, so it is stored once.  *)
(***************************************************************************)
EXTENDS FiniteSets

CONSTANTS
    Tasks,
    Keys,      \* object keys that uploads may generate
    TaskOf,    \* TaskOf[k]: the task whose id is the prefix of k
    Requests,  \* slots of HTTP requests being served
    NoTask, NoKey,
    Alone,     \* the tasks whose artifact requests come one at a time, and
               \* whose keys are deleted by requests for the task itself
    Enabled    \* RustFS is configured

ASSUME TaskOfType == TaskOf \in [Keys -> Tasks]
ASSUME NullsAreNew == NoTask \notin Tasks /\ NoKey \notin Keys
ASSUME SwitchType == Alone \subseteq Tasks /\ Enabled \in BOOLEAN

VARIABLES
    objects,  \* the keys in the bucket
    listed,   \* listed[t]: the keys in t's artifacts_json
    req,      \* req[r]: where the handler of request r stands
    used,     \* keys that were generated
    uploaded, \* keys whose upload was answered with 201
    asked,    \* keys whose deletion was begun, alone or by a cleanup that found them
    torn      \* keys an unfinished request has left, not repaired since

stores == <<objects, listed>>
history == <<used, uploaded, asked, torn>>
vars == <<objects, listed, req, used, uploaded, asked, torn>>

\* A request slot, by the next statement of its handler; keys is the list it
\* has read, or the objects it still has to delete.
Request ==
    [pc : {"idle"}, task : {NoTask}, key : {NoKey}, keys : {{}}]
    \* the read and the write of AddArtifact; DeleteObject, the read and the
    \* write of RemoveArtifact
    \cup [pc : {"addRead", "addWrite", "delete", "dropRead", "dropWrite"},
          task : Tasks, key : Keys, keys : SUBSET Keys]
    \* the DeleteObjects and the UPDATE of CleanupArtifacts
    \cup [pc : {"clean"}, task : Tasks, key : {NoKey}, keys : SUBSET Keys]

Idle == [pc |-> "idle", task |-> NoTask, key |-> NoKey, keys |-> {}]

KeysOf(t) == {k \in Keys : TaskOf[k] = t}

Init ==
    /\ objects = {}
    /\ listed = [t \in Tasks |-> {}]
    /\ req = [r \in Requests |-> Idle]
    /\ used = {} /\ uploaded = {} /\ asked = {} /\ torn = {}

-----------------------------------------------------------------------------

\* No request of task t is being served.
Quiet(t) == \A r \in Requests : req[r].task # t

Open(r, pc, t, k, keys) ==
    /\ req[r] = Idle
    /\ t \in Alone => Quiet(t)
    /\ req' = [req EXCEPT ![r] = [pc |-> pc, task |-> t, key |-> k, keys |-> keys]]

Proceed(r, pc, keys) ==
    req' = [req EXCEPT ![r] = [pc |-> pc, task |-> @.task, key |-> @.key, keys |-> keys]]
Close(r) == req' = [req EXCEPT ![r] = Idle]

\* SetArtifactsJSON replaces the whole list.
SetArtifactsJSON(t, keys) == listed' = [listed EXCEPT ![t] = keys]

-----------------------------------------------------------------------------
(* UploadArtifact *)

\* Fault: the object is listed first and stored later, in place of the read.
UploadListsFirst(r, k) ==
    /\ k \notin used
    /\ Open(r, "addRead", TaskOf[k], k, {})
    /\ used' = used \cup {k}
    /\ SetArtifactsJSON(TaskOf[k], listed[TaskOf[k]] \cup {k})
    /\ UNCHANGED <<objects, uploaded, asked, torn>>

\* The object is stored under a new key; without RustFS nothing is stored.
Upload(r, k) ==
    /\ k \notin used
    /\ Open(r, "addRead", TaskOf[k], k, {})
    /\ used' = used \cup {k}
    /\ objects' = IF Enabled THEN objects \cup {k} ELSE objects
    /\ UNCHANGED <<listed, uploaded, asked, torn>>

\* The upload fails, the object stored or not; the handler answers 500.
UploadFails(k) ==
    /\ Enabled /\ k \notin used
    /\ TaskOf[k] \in Alone => Quiet(TaskOf[k])
    /\ used' = used \cup {k}
    /\ torn' = torn \cup {k}
    /\ objects' \in {objects, objects \cup {k}}
    /\ UNCHANGED <<listed, req, uploaded, asked>>

AddRead(r) ==
    /\ req[r].pc = "addRead"
    /\ Proceed(r, "addWrite", listed[req[r].task])
    /\ UNCHANGED <<stores, history>>

AddWrite(r) ==
    /\ req[r].pc = "addWrite"
    /\ SetArtifactsJSON(req[r].task, req[r].keys \cup {req[r].key})
    /\ uploaded' = uploaded \cup {req[r].key}
    /\ Close(r)
    /\ UNCHANGED <<objects, used, asked, torn>>

-----------------------------------------------------------------------------
(* DeleteArtifact *)

\* Exists; a key that is not in the bucket is answered with 404.  The handler
\* does not compare the key's prefix with the task of the request.
CheckExists(r, t, k) ==
    /\ k \in objects
    /\ t = TaskOf[k] \/ {t, TaskOf[k]} \cap Alone = {}
    /\ Open(r, "delete", t, k, {})
    /\ asked' = asked \cup {k}
    /\ UNCHANGED <<stores, used, uploaded, torn>>

\* Fault: the object is left in the bucket.
DeleteNothing(r) ==
    /\ req[r].pc = "delete"
    /\ Proceed(r, "dropRead", {})
    /\ UNCHANGED <<stores, history>>

DeleteObject(r) ==
    /\ req[r].pc = "delete"
    /\ objects' = objects \ {req[r].key}
    /\ Proceed(r, "dropRead", {})
    /\ UNCHANGED <<listed, history>>

DropRead(r) ==
    /\ req[r].pc = "dropRead"
    /\ Proceed(r, "dropWrite", listed[req[r].task])
    /\ UNCHANGED <<stores, history>>

DropWrite(r) ==
    /\ req[r].pc = "dropWrite"
    /\ SetArtifactsJSON(req[r].task, req[r].keys \ {req[r].key})
    /\ torn' = torn \ {req[r].key}
    /\ Close(r)
    /\ UNCHANGED <<objects, used, uploaded, asked>>

-----------------------------------------------------------------------------
(* CleanupArtifacts *)

\* ListObjects: the objects under the task's prefix now, and no later ones, are
\* going to be deleted.
CleanList(r, t) ==
    /\ Enabled
    /\ Open(r, "clean", t, NoKey, objects \cap KeysOf(t))
    /\ asked' = asked \cup (objects \cap KeysOf(t))
    /\ UNCHANGED <<stores, used, uploaded, torn>>

CleanObject(r, k) ==
    /\ req[r].pc = "clean" /\ k \in req[r].keys
    /\ objects' = objects \ {k}
    /\ Proceed(r, "clean", req[r].keys \ {k})
    /\ UNCHANGED <<listed, history>>

\* Fault: a cleanup that leaves the list as it is.
CleanDoneKeepsList(r) ==
    /\ req[r].pc = "clean" /\ req[r].keys = {}
    /\ torn' = torn \ KeysOf(req[r].task)
    /\ Close(r)
    /\ UNCHANGED <<stores, used, uploaded, asked>>

CleanDone(r) ==
    /\ req[r].pc = "clean" /\ req[r].keys = {}
    /\ SetArtifactsJSON(req[r].task, {})
    /\ torn' = torn \ KeysOf(req[r].task)
    /\ Close(r)
    /\ UNCHANGED <<objects, used, uploaded, asked>>

-----------------------------------------------------------------------------
(* Failures *)

\* The keys on which request r may leave its stores apart: of a cleanup those that
\* the task has had so far.
Touched(r) == IF req[r].pc = "clean" THEN used \cap KeysOf(req[r].task) ELSE {req[r].key}

\* The next statement of r fails, or its client is gone: nothing is undone.
Abort(r) ==
    /\ req[r] # Idle
    /\ torn' = torn \cup Touched(r)
    /\ Close(r)
    /\ UNCHANGED <<stores, used, uploaded, asked>>

Crash ==
    /\ torn' = torn \cup UNION {Touched(r) : r \in {s \in Requests : req[s] # Idle}}
    /\ req' = [r \in Requests |-> Idle]
    /\ UNCHANGED <<stores, used, uploaded, asked>>

Next ==
    \/ \E r \in Requests :
          \/ \E k \in Keys : Upload(r, k) \/ CleanObject(r, k)
          \/ \E t \in Tasks : CleanList(r, t) \/ \E k \in Keys : CheckExists(r, t, k)
          \/ AddRead(r) \/ AddWrite(r)
          \/ DeleteObject(r) \/ DropRead(r) \/ DropWrite(r)
          \/ CleanDone(r) \/ Abort(r)
    \/ \E k \in Keys : UploadFails(k)
    \/ Crash

Spec == Init /\ [][Next]_vars

-----------------------------------------------------------------------------
(* Correctness *)

\* Every store, request slot and history register holds a value of its type.
TypeOK ==
    /\ objects \subseteq used
    /\ listed \in [Tasks -> SUBSET Keys]
    /\ req \in [Requests -> Request]
    /\ used \subseteq Keys
    /\ uploaded \subseteq Keys /\ asked \subseteq used /\ torn \subseteq Keys

\* Bucket and list agree on a task whose requests come one at a time, except
\* about the keys of requests that failed half way; a later deletion of the
\* object or a cleanup of the task mends those too.
InSync ==
    \A t \in Alone : Quiet(t) /\ Enabled =>
        \A k \in KeysOf(t) \ torn : k \in objects <=> k \in listed[t]

\* A key in the list can be downloaded unless somebody has begun to delete it,
\* however requests overlap or fail: the object is stored before it is listed,
\* and no stale list brings a key back that was never stored.
NoPhantom ==
    Enabled => \A t \in Tasks : listed[t] \ objects \subseteq asked

\* API reference, GET /tasks/:id/artifacts: the list has all artifacts, so an
\* upload that was answered with 201 is on it until somebody asks to delete it.
ListIsComplete ==
    \A k \in uploaded \ asked : Quiet(TaskOf[k]) => k \in listed[TaskOf[k]]

-----------------------------------------------------------------------------
(* The inductive invariant *)

\* A request for a task of Alone only handles keys of that task, and such keys
\* are handled by no other.
OwnKeys ==
    \A r \in Requests :
        /\ req[r].pc \notin {"idle", "clean"} =>
              TaskOf[req[r].key] = req[r].task \/ {req[r].task, TaskOf[req[r].key]} \cap Alone = {}
        /\ req[r].pc = "clean" => req[r].keys \subseteq KeysOf(req[r].task)

\* What a request in flight knows: its key was stored or somebody deletes it,
\* what it deletes was asked for, and the list it has read names no phantom.
RequestsHonest ==
    \A r \in Requests :
        /\ req[r].pc \in {"addRead", "addWrite"} => req[r].key \in objects \cup asked
        /\ req[r].pc = "delete" => req[r].key \in asked
        /\ req[r].pc = "clean" => req[r].keys \subseteq asked
        /\ req[r].pc \in {"addWrite", "dropWrite"} => req[r].keys \ objects \subseteq asked

\* Bucket and list agree on the keys of t that no failed request has left
\* apart, own excepted.
AgreeBut(t, own) ==
    \A k \in KeysOf(t) \ (torn \cup own) : k \in objects <=> k \in listed[t]

\* A request for a task that has one at a time: it is the only one, the list it
\* has read is the list there is, and only its own key may differ.
AloneInStep ==
    \A r \in Requests : req[r].task \in Alone =>
        /\ \A s \in Requests \ {r} : req[s].task # req[r].task
        /\ req[r].pc = "clean" => req[r].keys = objects \cap KeysOf(req[r].task)
        /\ req[r].pc # "clean" => AgreeBut(req[r].task, {req[r].key})
        /\ req[r].pc \in {"addRead", "addWrite"} => req[r].key \in objects
        /\ req[r].pc \in {"dropRead", "dropWrite"} => req[r].key \notin objects
        /\ req[r].pc \in {"addWrite", "dropWrite"} => req[r].keys = listed[req[r].task]

IInv ==
    /\ Enabled
    /\ TypeOK
    /\ InSync
    /\ NoPhantom
    /\ OwnKeys
    /\ RequestsHonest
    /\ AloneInStep
=============================================================================
