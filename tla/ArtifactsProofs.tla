-------------------------- MODULE ArtifactsProofs --------------------------
(***************************************************************************)
(* Proofs about Artifacts, for any number of tasks, keys and requests.     *)
(***************************************************************************)
EXTENDS Artifacts, TLAPS

\* The stores, slots and history registers keep their types.
LEMMA TypeInit == Init => TypeOK
BY NullsAreNew DEF Init, TypeOK, Request, Idle

LEMMA TypeStep == TypeOK /\ [Next]_vars => TypeOK'
<1> SUFFICES ASSUME TypeOK, [Next]_vars PROVE TypeOK'
    OBVIOUS
<1> USE NullsAreNew, TaskOfType
    DEF TypeOK, Request, Idle, stores, history, Proceed, Close, SetArtifactsJSON, KeysOf
<1>1. ASSUME NEW r \in Requests, NEW k \in Keys, Upload(r, k) PROVE TypeOK'
    BY <1>1 DEF Upload, Open
<1>2. ASSUME NEW k \in Keys, UploadFails(k) PROVE TypeOK'
    BY <1>2 DEF UploadFails
<1>3. ASSUME NEW r \in Requests, AddRead(r) PROVE TypeOK'
    BY <1>3 DEF AddRead
<1>4. ASSUME NEW r \in Requests, AddWrite(r) PROVE TypeOK'
    BY <1>4 DEF AddWrite
<1>5. ASSUME NEW r \in Requests, NEW t \in Tasks, NEW k \in Keys, CheckExists(r, t, k)
      PROVE  TypeOK'
    BY <1>5 DEF CheckExists, Open
<1>6. ASSUME NEW r \in Requests, DeleteObject(r) PROVE TypeOK'
    BY <1>6 DEF DeleteObject
<1>7. ASSUME NEW r \in Requests, DropRead(r) PROVE TypeOK'
    BY <1>7 DEF DropRead
<1>8. ASSUME NEW r \in Requests, DropWrite(r) PROVE TypeOK'
    BY <1>8 DEF DropWrite
<1>9. ASSUME NEW r \in Requests, NEW t \in Tasks, CleanList(r, t) PROVE TypeOK'
    BY <1>9 DEF CleanList, Open
<1>10. ASSUME NEW r \in Requests, NEW k \in Keys, CleanObject(r, k) PROVE TypeOK'
    BY <1>10 DEF CleanObject
<1>11. ASSUME NEW r \in Requests, CleanDone(r) PROVE TypeOK'
    BY <1>11 DEF CleanDone
<1>12. ASSUME NEW r \in Requests, Abort(r) PROVE TypeOK'
    BY <1>12 DEF Abort, Touched
<1>13. CASE Crash
  <2>1. req' \in [Requests -> Request]
      BY <1>13 DEF Crash
  <2>2. \A r \in Requests : req[r] # Idle => Touched(r) \subseteq Keys
      BY DEF Touched
  <2>3. torn' \subseteq Keys
    <3>1. UNION {Touched(r) : r \in {s \in Requests : req[s] # Idle}} \subseteq Keys
        <4> HIDE DEF Idle, TypeOK
        <4> QED BY <2>2
    <3> QED BY <1>13, <3>1 DEF Crash
  <2> QED BY <1>13, <2>1, <2>3 DEF Crash
<1>14. CASE UNCHANGED vars
    BY <1>14 DEF vars
<1> QED BY <1>1, <1>2, <1>3, <1>4, <1>5, <1>6, <1>7, <1>8, <1>9, <1>10, <1>11, <1>12, <1>13, <1>14
        DEF Next

\* A request keeps to the keys of its task.
LEMMA OwnKeysStep ==
    ASSUME IInv, [Next]_vars
    PROVE  OwnKeys'
<1> USE NullsAreNew, TaskOfType
    DEF IInv, TypeOK, OwnKeys, Request, Idle, KeysOf, stores, history, Proceed, Close,
        SetArtifactsJSON
<1>1. ASSUME NEW r \in Requests, NEW k \in Keys, Upload(r, k) PROVE OwnKeys'
    BY <1>1 DEF Upload, Open
<1>2. ASSUME NEW k \in Keys, UploadFails(k) PROVE OwnKeys'
    BY <1>2 DEF UploadFails
<1>3. ASSUME NEW r \in Requests, AddRead(r) PROVE OwnKeys'
    BY <1>3 DEF AddRead
<1>4. ASSUME NEW r \in Requests, AddWrite(r) PROVE OwnKeys'
    BY <1>4 DEF AddWrite
<1>5. ASSUME NEW r \in Requests, NEW t \in Tasks, NEW k \in Keys, CheckExists(r, t, k)
      PROVE  OwnKeys'
    BY <1>5 DEF CheckExists, Open
<1>6. ASSUME NEW r \in Requests, DeleteObject(r) PROVE OwnKeys'
    BY <1>6 DEF DeleteObject
<1>7. ASSUME NEW r \in Requests, DropRead(r) PROVE OwnKeys'
    BY <1>7 DEF DropRead
<1>8. ASSUME NEW r \in Requests, DropWrite(r) PROVE OwnKeys'
    BY <1>8 DEF DropWrite
<1>9. ASSUME NEW r \in Requests, NEW t \in Tasks, CleanList(r, t) PROVE OwnKeys'
    BY <1>9 DEF CleanList, Open
<1>10. ASSUME NEW r \in Requests, NEW k \in Keys, CleanObject(r, k) PROVE OwnKeys'
    BY <1>10 DEF CleanObject
<1>11. ASSUME NEW r \in Requests, CleanDone(r) PROVE OwnKeys'
    BY <1>11 DEF CleanDone
<1>12. ASSUME NEW r \in Requests, Abort(r) PROVE OwnKeys'
    BY <1>12 DEF Abort, Touched
<1>13. CASE Crash
    BY <1>13 DEF Crash
<1>14. CASE UNCHANGED vars
    BY <1>14 DEF vars
<1> QED BY <1>1, <1>2, <1>3, <1>4, <1>5, <1>6, <1>7, <1>8, <1>9, <1>10, <1>11, <1>12, <1>13, <1>14
        DEF Next

\* Every key that reaches a list was stored before, or its deletion was begun.
LEMMA HonestStep ==
    ASSUME IInv, [Next]_vars
    PROVE  (NoPhantom /\ RequestsHonest)'
<1> USE NullsAreNew, TaskOfType
    DEF IInv, TypeOK, NoPhantom, RequestsHonest, Request, Idle, KeysOf,
        stores, history, Proceed, Close, SetArtifactsJSON
<1>1. ASSUME NEW r \in Requests, NEW k \in Keys, Upload(r, k) PROVE (NoPhantom /\ RequestsHonest)'
    BY <1>1 DEF Upload, Open
<1>2. ASSUME NEW k \in Keys, UploadFails(k) PROVE (NoPhantom /\ RequestsHonest)'
    BY <1>2 DEF UploadFails
<1>3. ASSUME NEW r \in Requests, AddRead(r) PROVE (NoPhantom /\ RequestsHonest)'
    BY <1>3 DEF AddRead
<1>4. ASSUME NEW r \in Requests, AddWrite(r) PROVE (NoPhantom /\ RequestsHonest)'
    BY <1>4 DEF AddWrite
<1>5. ASSUME NEW r \in Requests, NEW t \in Tasks, NEW k \in Keys, CheckExists(r, t, k)
      PROVE  (NoPhantom /\ RequestsHonest)'
    BY <1>5 DEF CheckExists, Open
<1>6. ASSUME NEW r \in Requests, DeleteObject(r) PROVE (NoPhantom /\ RequestsHonest)'
    BY <1>6 DEF DeleteObject
<1>7. ASSUME NEW r \in Requests, DropRead(r) PROVE (NoPhantom /\ RequestsHonest)'
    BY <1>7 DEF DropRead
<1>8. ASSUME NEW r \in Requests, DropWrite(r) PROVE (NoPhantom /\ RequestsHonest)'
    BY <1>8 DEF DropWrite
<1>9. ASSUME NEW r \in Requests, NEW t \in Tasks, CleanList(r, t) PROVE (NoPhantom /\ RequestsHonest)'
    BY <1>9 DEF CleanList, Open
<1>10. ASSUME NEW r \in Requests, NEW k \in Keys, CleanObject(r, k) PROVE (NoPhantom /\ RequestsHonest)'
    BY <1>10 DEF CleanObject
<1>11. ASSUME NEW r \in Requests, CleanDone(r) PROVE (NoPhantom /\ RequestsHonest)'
    BY <1>11 DEF CleanDone
<1>12. ASSUME NEW r \in Requests, Abort(r) PROVE (NoPhantom /\ RequestsHonest)'
    BY <1>12 DEF Abort, Touched
<1>13. CASE Crash
    BY <1>13 DEF Crash, Touched
<1>14. CASE UNCHANGED vars
    BY <1>14 DEF vars
<1> QED BY <1>1, <1>2, <1>3, <1>4, <1>5, <1>6, <1>7, <1>8, <1>9, <1>10, <1>11, <1>12, <1>13, <1>14
        DEF Next

\* A key that was never generated is nowhere.
LEMMA UnusedNowhere ==
    ASSUME IInv, NEW k \in Keys \ used
    PROVE  k \notin objects /\ \A t \in Tasks : k \notin listed[t]
BY DEF IInv, TypeOK, NoPhantom

\* A task whose requests come one at a time stays in step with the bucket.
LEMMA AloneStep ==
    ASSUME IInv, [Next]_vars
    PROVE  (InSync /\ AloneInStep)'
<1> USE NullsAreNew, TaskOfType, SwitchType
    DEF IInv, TypeOK, InSync, OwnKeys, AloneInStep, AgreeBut, Quiet, Request, Idle, KeysOf,
        stores, history, Proceed, Close, SetArtifactsJSON
<1>1. ASSUME NEW r \in Requests, NEW k \in Keys, Upload(r, k) PROVE (InSync /\ AloneInStep)'
    BY <1>1 DEF Upload, Open
<1>2. ASSUME NEW k \in Keys, UploadFails(k) PROVE (InSync /\ AloneInStep)'
    BY <1>2 DEF UploadFails
<1>3. ASSUME NEW r \in Requests, AddRead(r) PROVE (InSync /\ AloneInStep)'
    BY <1>3 DEF AddRead
<1>4. ASSUME NEW r \in Requests, AddWrite(r) PROVE (InSync /\ AloneInStep)'
    BY <1>4 DEF AddWrite
<1>5. ASSUME NEW r \in Requests, NEW t \in Tasks, NEW k \in Keys, CheckExists(r, t, k)
      PROVE  (InSync /\ AloneInStep)'
    BY <1>5 DEF CheckExists, Open
<1>6. ASSUME NEW r \in Requests, DeleteObject(r) PROVE (InSync /\ AloneInStep)'
  <2>1. InSync'
      BY <1>6 DEF DeleteObject
  <2>2. AloneInStep'
      BY <1>6 DEF DeleteObject
  <2> QED BY <2>1, <2>2
<1>7. ASSUME NEW r \in Requests, DropRead(r) PROVE (InSync /\ AloneInStep)'
    BY <1>7 DEF DropRead
<1>8. ASSUME NEW r \in Requests, DropWrite(r) PROVE (InSync /\ AloneInStep)'
  <2>1. InSync'
      BY <1>8 DEF DropWrite
  <2>2. AloneInStep'
      BY <1>8 DEF DropWrite
  <2> QED BY <2>1, <2>2
<1>9. ASSUME NEW r \in Requests, NEW t \in Tasks, CleanList(r, t) PROVE (InSync /\ AloneInStep)'
    BY <1>9 DEF CleanList, Open
<1>10. ASSUME NEW r \in Requests, NEW k \in Keys, CleanObject(r, k) PROVE (InSync /\ AloneInStep)'
  <2>1. InSync'
      BY <1>10 DEF CleanObject
  <2>2. AloneInStep'
      BY <1>10 DEF CleanObject
  <2> QED BY <2>1, <2>2
<1>11. ASSUME NEW r \in Requests, CleanDone(r) PROVE (InSync /\ AloneInStep)'
    BY <1>11 DEF CleanDone
<1>12. ASSUME NEW r \in Requests, Abort(r) PROVE (InSync /\ AloneInStep)'
  <2>1. AloneInStep'
      BY <1>12 DEF Abort, Touched
  <2>2. InSync'
    <3>1. /\ UNCHANGED <<objects, listed>> /\ torn' = torn \cup Touched(r)
          /\ \A s \in Requests \ {r} : req'[s] = req[s]
        BY <1>12 DEF Abort
    <3>2. ASSUME NEW t \in Alone, Quiet(t)', NEW k \in KeysOf(t) \ torn'
          PROVE  k \in objects <=> k \in listed[t]
      <4>1. CASE Quiet(t)
          BY <3>1, <3>2, <4>1
      <4>2. CASE ~Quiet(t)
        <5>1. req[r].task = t /\ k \notin Touched(r) /\ k \notin torn
            BY <3>1, <3>2, <4>2
        <5>2. CASE req[r].pc = "clean"
            BY <3>2, <5>1, <5>2, UnusedNowhere DEF Touched
        <5>3. CASE req[r].pc # "clean"
            BY <3>2, <5>1, <5>3 DEF Touched
        <5> QED BY <5>2, <5>3
      <4> QED BY <4>1, <4>2
    <3> QED BY <3>1, <3>2
  <2> QED BY <2>1, <2>2
<1>13. CASE Crash
  <2>1. \A r \in Requests : req'[r].task \notin Alone
      BY <1>13 DEF Crash
  <2>2. /\ UNCHANGED <<objects, listed>> /\ torn \subseteq torn'
        /\ \A r \in Requests : req[r] # Idle => Touched(r) \subseteq torn'
      BY <1>13 DEF Crash
  <2>3. ASSUME NEW t \in Alone, NEW k \in KeysOf(t) \ torn' PROVE k \in objects <=> k \in listed[t]
    <3>1. CASE Quiet(t)
        BY <2>2, <2>3, <3>1
    <3>2. ASSUME NEW r \in Requests, req[r].task = t PROVE k \in objects <=> k \in listed[t]
      <4>1. k \notin Touched(r) /\ k \notin torn
          BY <2>2, <2>3, <3>2
      <4>2. CASE req[r].pc = "clean"
          BY <2>3, <3>2, <4>1, <4>2, UnusedNowhere DEF Touched
      <4>3. CASE req[r].pc # "clean"
          BY <2>3, <3>2, <4>1, <4>3 DEF Touched
      <4> QED BY <4>2, <4>3
    <3> QED BY <3>1, <3>2
  <2> QED BY <2>1, <2>2, <2>3
<1>14. CASE UNCHANGED vars
    BY <1>14 DEF vars
<1> QED BY <1>1, <1>2, <1>3, <1>4, <1>5, <1>6, <1>7, <1>8, <1>9, <1>10, <1>11, <1>12, <1>13, <1>14
        DEF Next

LEMMA InvInit == Enabled /\ Init => IInv
<1> SUFFICES ASSUME Enabled, Init PROVE IInv
    OBVIOUS
<1>1. InSync /\ NoPhantom
    BY SwitchType DEF Init, InSync, NoPhantom, KeysOf
<1>2. OwnKeys /\ RequestsHonest
    BY DEF Init, OwnKeys, RequestsHonest, Idle
<1>3. AloneInStep
    BY NullsAreNew, SwitchType DEF Init, AloneInStep, Idle
<1> QED BY <1>1, <1>2, <1>3, TypeInit DEF IInv

LEMMA InvStep == IInv /\ [Next]_vars => IInv'
BY TypeStep, OwnKeysStep, HonestStep, AloneStep DEF IInv

\* With RustFS configured the bucket, the lists and the requests in flight stay
\* consistent in the sense of IInv.
THEOREM StoresInvariant == Enabled /\ Spec => []IInv
BY InvInit, InvStep, PTL DEF Spec

\* Requests for a task that come one at a time, however they fail or are cut
\* off, leave bucket and list apart only on keys of requests that failed.
THEOREM OneAtATimeInSync == Spec => []InSync
<1>1. IInv => InSync
    BY DEF IInv
<1>2. CASE Enabled
    BY <1>1, <1>2, StoresInvariant, PTL
<1>3. CASE ~Enabled
  <2>1. InSync
      BY <1>3 DEF InSync
  <2> QED BY <2>1, PTL
<1> QED BY <1>2, <1>3

\* However requests overlap and fail, a listed key can be downloaded unless
\* somebody has begun to delete it.
THEOREM ListNamesNoPhantom == Spec => []NoPhantom
<1>1. IInv => NoPhantom
    BY DEF IInv
<1>2. CASE Enabled
    BY <1>1, <1>2, StoresInvariant, PTL
<1>3. CASE ~Enabled
  <2>1. NoPhantom
      BY <1>3 DEF NoPhantom
  <2> QED BY <2>1, PTL
<1> QED BY <1>2, <1>3
=============================================================================
