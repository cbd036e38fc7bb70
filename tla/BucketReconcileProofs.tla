----------------------- MODULE BucketReconcileProofs -----------------------
(***************************************************************************)
(* Theorems about BucketReconcile, for every set of backends and every     *)
(* value of the switches and bounds.                                       *)
(***************************************************************************)
EXTENDS BucketReconcile, FiniteSetTheorems, TLAPS

---------------------------------------------------------------------------
(* Type correctness *)

\* The helpers of the controller return Bucket CRs.
LEMMA NewBucketType == NewBucket \in Buckets /\ NoBucket \in Buckets
BY DEF NewBucket, NoBucket, Buckets, Labels, Conditions

LEMMA VisibleType ==
  ASSUME NEW bucket \in Buckets PROVE Visible(bucket) \in Buckets
BY NewBucketType DEF Visible

LEMMA LabelsType ==
  ASSUME NEW bucket \in Buckets, NEW providerNames
  PROVE setAllBackendLabels(bucket, providerNames) \in Buckets
BY DEF setAllBackendLabels, Buckets, Labels

LEMMA StatusType ==
  ASSUME TypeOK, NEW bucket \in Buckets, NEW providerNames
  PROVE setBucketStatus(bucket, providerNames) \in Buckets
<1> DEFINE backends == [b \in Backends |-> IF b \in providerNames THEN bb[b] ELSE "none"]
<1>1. backends \in [Backends -> Conditions] BY DEF TypeOK, Conditions
<1> HIDE DEF backends
<1>2. \A r \in {"Available", "Unavailable"}, s \in {"Success", "Error"} :
        [bucket EXCEPT !.backends = backends, !.ready = r, !.synced = s] \in Buckets
  BY <1>1 DEF Buckets
<1> QED BY <1>2 DEF setBucketStatus, backends

LEMMA PatchedType ==
  ASSUME TypeOK, NEW read \in Buckets, NEW new \in Buckets, NEW bump
  PROVE Patched(read, new, bump) \in Buckets
<1> DEFINE labels == [b \in Backends |->
             IF new.labels[b] # read.labels[b] THEN new.labels[b] ELSE cr.labels[b]]
           backends == [b \in Backends |->
             IF new.backends[b] # read.backends[b] THEN new.backends[b] ELSE cr.backends[b]]
<1>1. labels \in [Backends -> Labels] /\ backends \in [Backends -> Conditions]
  BY DEF TypeOK, Buckets
<1> HIDE DEF labels, backends
<1>2. \A x \in Buckets : /\ x.paused \in {"", "true", "false"} /\ x.disabled \in BOOLEAN
                          /\ x.ready \in {"none", "Available", "Unavailable"}
                          /\ x.synced \in {"none", "Success", "Error"}
  BY DEF Buckets
<1> DEFINE conds == <<new.ready, new.synced>> # <<read.ready, read.synced>>
                    \/ (bump /\ (read.ready = "Available" \/ read.synced = "Error"))
           p == IF new.paused # read.paused THEN new.paused ELSE cr.paused
           d == IF new.disabled # read.disabled THEN new.disabled ELSE cr.disabled
           r == IF conds THEN new.ready ELSE cr.ready
           s == IF conds THEN new.synced ELSE cr.synced
<1>3. /\ p \in {"", "true", "false"} /\ d \in BOOLEAN
      /\ r \in {"none", "Available", "Unavailable"} /\ s \in {"none", "Success", "Error"}
  BY <1>2 DEF TypeOK
<1>4. Patched(read, new, bump) =
        [cr EXCEPT !.labels = labels, !.backends = backends, !.paused = p,
                   !.disabled = d, !.ready = r, !.synced = s]
  BY Zenon DEF Patched, labels, backends
<1> HIDE DEF p, d, r, s
<1>5. cr \in Buckets BY DEF TypeOK
<1>6. ASSUME NEW q \in BOOLEAN
      PROVE [cr EXCEPT !.labels = labels, !.backends = backends, !.paused = p,
                       !.disabled = q, !.ready = r, !.synced = s] \in Buckets
  BY <1>1, <1>3, <1>5 DEF Buckets
<1>7. d \in BOOLEAN BY <1>3
<1> QED BY <1>4, <1>6, <1>7, Zenon

\* A write of the CR and one callback of updateBucketCR keep the types.
LEMMA WriteType ==
  ASSUME TypeOK, NEW bucket \in Buckets, Write(bucket)
  PROVE cr' \in Buckets /\ cache' \in Buckets
BY VisibleType DEF Write, TypeOK

LEMMA FailsType ==
  ASSUME TypeOK, Fails \/ Works PROVE faults' \in 0..MaxFaults
BY BoundsAssumption DEF TypeOK, Fails, CanFail, Works

LEMMA CallbackType ==
  ASSUME TypeOK, NEW read \in Buckets, NEW new \in Buckets, NEW bump,
         NEW next \in PCs, NEW stop \in PCs, Callback(read, new, bump, next, stop)
  PROVE /\ cr' \in Buckets /\ cache' \in Buckets /\ obj' \in Buckets /\ base' \in Buckets
        /\ pc' \in PCs /\ err' \in {"none", "err", "notEmpty"} /\ faults' \in 0..MaxFaults
<1>1. faults' \in 0..MaxFaults BY FailsType DEF Callback
<1>2. CASE /\ Write(Patched(read, new, bump)) /\ obj' = cr' /\ base' = cr'
           /\ Goto(next) /\ UNCHANGED err
  BY <1>1, <1>2, PatchedType, WriteType DEF Goto, End, CreatePCs, TypeOK
<1>3. CASE UNCHANGED <<cr, cache, obj, base>> /\ Goto(stop) /\ UNCHANGED err
  BY <1>1, <1>3 DEF Goto, End, CreatePCs, TypeOK
<1>4. CASE /\ UNCHANGED <<cr, cache>> /\ err' = "err" /\ Goto(End)
           /\ UNCHANGED <<obj, base>> \/ (obj' = new /\ base' = read)
  BY <1>1, <1>4 DEF Goto, End, CreatePCs, TypeOK, PCs
<1> QED BY <1>2, <1>3, <1>4 DEF Callback
\* The steps that are one callback of updateBucketCR keep the types.
LEMMA CallbacksType ==
  ASSUME TypeOK,
         \/ CreatePause \/ CreateLabels \/ CreateStatus \/ CreateFail \/ UpdateStatus
         \/ UpdateLabels \/ DeleteStatus \/ DeleteUndisable
  PROVE TypeOK'
<1> USE DEF PCs, CreatePCs
<1>0. /\ cache \in Buckets /\ cr \in Buckets /\ bb \in [Backends -> Conditions]
  BY DEF TypeOK
<1>1. ASSUME NEW read \in Buckets, NEW new \in Buckets, NEW bump, NEW next \in PCs,
             NEW stop \in PCs, Callback(read, new, bump, next, stop),
             UNCHANGED <<s3, store, names, todo, bb, edits>>,
             inflight' = inflight, late' = late \/ late' = {}
      PROVE TypeOK'
  BY <1>1, CallbackType DEF TypeOK
<1>2. CASE CreatePause
  <2>1. [setAllBackendLabels(cache, names) EXCEPT !.paused = "true"] \in Buckets
    BY <1>0, LabelsType DEF Buckets
  <2> QED BY <1>0, <1>1, <1>2, <2>1 DEF CreatePause, landing
<1>3. CASE CreateLabels
  BY <1>0, <1>1, <1>3, LabelsType DEF CreateLabels, landing
<1>4. CASE CreateStatus
  <2>1. [cr EXCEPT !.ready = "Available", !.backends = bb] \in Buckets BY <1>0 DEF Buckets
  <2> QED BY <1>0, <1>1, <1>4, <2>1 DEF CreateStatus, landing
<1>5. CASE CreateFail
  <2>1. [cache EXCEPT !.ready = "Unavailable"] \in Buckets BY <1>0 DEF Buckets
  <2> QED BY <1>0, <1>1, <1>5, <2>1 DEF CreateFail, landing
<1>6. CASE UpdateStatus
  BY <1>0, <1>1, <1>6, StatusType DEF UpdateStatus, landing
<1>7. CASE UpdateLabels
  <2>1. /\ [cr EXCEPT !.paused = "true"] \in Buckets
        /\ [cr EXCEPT !.paused = cr.paused] \in Buckets
    BY <1>0 DEF Buckets
  <2>2. PICK configured \in BOOLEAN :
          LET paused == IF isPauseRequired(cr, names, configured) THEN "true" ELSE cr.paused
              new == setAllBackendLabels([cr EXCEPT !.paused = paused], names)
          IN Callback(cr, new, FALSE, "finish", "finish")
    BY <1>7 DEF UpdateLabels
  <2> QED BY <1>0, <1>1, <1>7, <2>1, <2>2, LabelsType DEF UpdateLabels, landing
<1>8. CASE DeleteStatus
  BY <1>0, <1>1, <1>8, StatusType DEF DeleteStatus
<1>9. CASE DeleteUndisable
  <2>1. [cache EXCEPT !.disabled = FALSE] \in Buckets BY <1>0 DEF Buckets
  <2>2. CASE err = "notEmpty" /\ obj.disabled
    BY <1>0, <1>1, <1>9, <2>1, <2>2 DEF DeleteUndisable, landing
  <2>3. CASE ~(err = "notEmpty" /\ obj.disabled)
    BY <1>9, <2>3 DEF DeleteUndisable, TypeOK, Goto, End, CreatePCs, Works, kube, landing
  <2> QED BY <2>2, <2>3
<1> QED BY <1>2, <1>3, <1>4, <1>5, <1>6, <1>7, <1>8, <1>9

Observations == {"error", "notExists", "outdated", "upToDate"}

LEMMA ObservationType ==
  ASSUME NEW subresource \in {"NoAction", "outdated", "error"}, NEW unreachable
  PROVE Observation(subresource, unreachable) \in Observations
<1>1. CASE Stored = {} BY <1>1 DEF Observation, Observations
<1>2. CASE Stored # {} /\ obj.backends = Nothing BY <1>2 DEF Observation, Observations
<1>3. CASE Stored # {} /\ obj.backends # Nothing BY <1>3 DEF Observation, Observations
<1> QED BY <1>1, <1>2, <1>3

\* The steps of a reconcile that call S3, and those of the runtime, keep the types.
LEMMA ReconcileType == ASSUME TypeOK, ReconcileStep PROVE TypeOK'
<1> USE DEF PCs, CreatePCs
<1>0. Fails \/ Works => faults' \in 0..MaxFaults BY FailsType
<1>1. CASE StartReconcile BY <1>1 DEF StartReconcile, TypeOK, Goto, End, CreatePCs, budget, landing
<1>2. CASE Observe
  <2>1. faults' \in 0..MaxFaults BY <1>0, <1>2 DEF Observe
  <2>2. PICK observation \in Observations : Dispatch(observation)
    BY <1>2, ObservationType DEF Observe
  <2>3. pc' \in PCs /\ err' \in {"none", "err", "notEmpty"}
    BY <2>2 DEF Observations, Dispatch, Finish, Goto, End, CreatePCs, TypeOK, Buckets
  <2> QED BY <1>2, <2>1, <2>3 DEF Observe, TypeOK, kube, landing
<1>3. CASE FinishReconcile
  <2> DEFINE annotated == IF base = cr THEN [cr EXCEPT !.labels = obj.labels, !.paused = obj.paused]
                          ELSE cr
  <2>1. \A s \in {"Success", "Error"} :
          [cr EXCEPT !.backends = obj.backends, !.ready = obj.ready, !.synced = s] \in Buckets
    BY DEF TypeOK, Buckets
  <2>2. annotated \in Buckets BY DEF TypeOK, Buckets
  <2>3. \A s \in {"Success", "Error"} :
          [annotated EXCEPT !.ready = "Unavailable", !.synced = s] \in Buckets
    <3> HIDE DEF annotated
    <3> QED BY <2>2 DEF Buckets
  <2>4. cr' \in Buckets /\ cache' \in Buckets
    BY <1>3, <2>1, <2>3, WriteType DEF FinishReconcile, TypeOK, kube
  <2> QED BY <1>3, <2>4, NewBucketType
      DEF FinishReconcile, TypeOK, Goto, budget, Nothing, Conditions, landing
<1>4. CASE Finalize
  <2>1. cr' \in Buckets /\ cache' \in Buckets
    BY <1>4, NewBucketType, WriteType DEF Finalize, TypeOK, kube
  <2> QED BY <1>4, <2>1 DEF Finalize, TypeOK, Goto, End, CreatePCs, budget, landing
<1>5. ASSUME NEW bucket, NEW all \in SUBSET Backends, bucket \in Buckets
      PROVE getBucketProvidersFilterDisabledLabel(bucket, all) \subseteq Backends
  BY <1>5 DEF getBucketProvidersFilterDisabledLabel, Buckets
<1>6. ASSUME NEW targets \in SUBSET Backends, GetS3Clients(targets)
      PROVE todo' \subseteq Backends /\ faults' \in 0..MaxFaults
  BY <1>0, <1>6 DEF GetS3Clients
<1>7. Stored \subseteq Backends /\ obj \in Buckets BY DEF Stored, TypeOK
<1>8. CASE Create
  BY <1>5, <1>6, <1>7, <1>8 DEF Create, TypeOK, Finish, Goto, End, CreatePCs, kube, landing
<1>9. CASE CreateTimeout
  BY <1>0, <1>9 DEF CreateTimeout, TypeOK, Finish, Goto, End, CreatePCs, kube, landing, Abandon
<1>10. ASSUME NEW b \in Backends, CreateOnBackend(b) PROVE TypeOK'
  BY <1>0, <1>10 DEF CreateOnBackend, TypeOK, Made, Goto, End, CreatePCs, kube, Conditions, landing, Abandon
<1>11. CASE Update
  <2> DEFINE targets == getBucketProvidersFilterDisabledLabel(obj, Stored)
  <2>1. targets \subseteq Backends BY <1>5, <1>7
  <2>2. names' \subseteq Backends /\ todo' \subseteq Backends /\ faults' \in 0..MaxFaults
    BY <1>6, <1>11, <2>1 DEF Update, TypeOK, Finish
  <2>3. bb' \in [Backends -> Conditions]
    BY <1>11 DEF Update, TypeOK, Conditions
  <2> QED BY <1>11, <2>2, <2>3 DEF Update, TypeOK, Finish, Goto, End, CreatePCs, kube, landing
<1>12. ASSUME NEW b \in Backends, updateOnBackend(b) PROVE TypeOK'
  <2>1. bb' \in [Backends -> Conditions]
    BY <1>12 DEF updateOnBackend, HandleSubresources, TypeOK, Conditions
  <2>2. s3' \in [Backends -> {"none", "empty", "full"}]
    BY <1>12 DEF updateOnBackend, HandleSubresources, TypeOK, Made
  <2>3. faults' \in 0..MaxFaults /\ err' \in {"none", "err", "notEmpty"}
    BY <1>0, <1>12 DEF updateOnBackend, HandleSubresources, TypeOK, Note
  <2> QED BY <1>12, <2>1, <2>2, <2>3 DEF updateOnBackend, TypeOK, Goto, End, CreatePCs, kube, landing
<1>13. CASE Delete
  <2>1. bb' \in [Backends -> Conditions]
    BY <1>13 DEF Delete, TypeOK, Conditions
  <2> QED BY <1>13, <2>1 DEF Delete, TypeOK, Finish, Goto, End, CreatePCs, kube, budget, landing
<1>14. ASSUME NEW b \in Backends, DeleteOnBackend(b) PROVE TypeOK'
  <2>1. bb' \in [Backends -> Conditions] /\ s3' \in [Backends -> {"none", "empty", "full"}]
    BY <1>14 DEF DeleteOnBackend, TypeOK, Conditions
  <2>2. faults' \in 0..MaxFaults /\ err' \in {"none", "err", "notEmpty"}
    BY <1>0, <1>14 DEF DeleteOnBackend, TypeOK, Note
  <2> QED BY <1>14, <2>1, <2>2 DEF DeleteOnBackend, TypeOK, Goto, End, CreatePCs, kube, landing
<1> QED
  BY <1>1, <1>2, <1>3, <1>4, <1>8, <1>9, <1>10, <1>11, <1>12, <1>13, <1>14, CallbacksType
  DEF ReconcileStep, CreateStep, UpdateStep, DeleteStep

\* The environment keeps the types.
LEMMA EnvironmentType == ASSUME TypeOK, Environment PROVE TypeOK'
<1>0. ASSUME NEW kind, Edit(kind) PROVE edits' \in 0..MaxEdits
  BY <1>0, BoundsAssumption DEF Edit, TypeOK
<1>1. CASE CacheSync
  BY <1>1, VisibleType DEF CacheSync, TypeOK, recon, budget, landing
<1>2. CASE UserEdit
  <2>1. PICK bucket \in Buckets : Write(bucket)
    <3> USE DEF TypeOK, Buckets
    <3>1. \A v \in BOOLEAN : /\ [cr EXCEPT !.deleting = v] \in Buckets
                             /\ [cr EXCEPT !.disabled = v] \in Buckets
      OBVIOUS
    <3>2. \A v \in {"", "true", "false"} : [cr EXCEPT !.paused = v] \in Buckets
      OBVIOUS
    <3>3. \A b \in Backends, v \in {"none", "false"} : [cr EXCEPT !.labels[b] = v] \in Buckets
      BY DEF Labels
    <3>4. \A p \in SUBSET Backends : [cr EXCEPT !.providers = p] \in Buckets
      OBVIOUS
    <3> HIDE DEF TypeOK, Buckets
    <3> QED BY <1>2, <3>1, <3>2, <3>3, <3>4 DEF UserEdit
  <2>2. cr' \in Buckets /\ cache' \in Buckets BY <2>1, WriteType
  <2>3. edits' \in 0..MaxEdits BY <1>0, <1>2 DEF UserEdit
  <2> QED BY <1>2, <2>2, <2>3 DEF UserEdit, TypeOK, recon, landing
<1>3. CASE Crash
  BY <1>3, VisibleType, NewBucketType, FailsType
  DEF Crash, TypeOK, Goto, PCs, CreatePCs, Nothing, Conditions, landing, Abandon
<1>4. ASSUME NEW b \in Backends, LateCreate(b) PROVE TypeOK'
  BY <1>4 DEF LateCreate, TypeOK, Made, kube, recon, budget
<1>5. ASSUME NEW b \in Backends, BackendAdd(b) PROVE TypeOK'
  BY <1>5 DEF BackendAdd, TypeOK, Healths, kube, recon, budget, landing
<1>6. ASSUME NEW b \in Backends, BackendChange(b) PROVE TypeOK'
  BY <1>0, <1>6 DEF BackendChange, TypeOK, kube, recon, landing
<1>7. ASSUME NEW b \in Backends, S3Change(b) PROVE TypeOK'
  BY <1>0, <1>7 DEF S3Change, TypeOK, kube, recon, landing
<1>8. ASSUME NEW b \in Backends, S3Empty(b) PROVE TypeOK'
  BY <1>8 DEF S3Empty, TypeOK, kube, recon, budget, landing
<1> QED BY <1>1, <1>2, <1>3, <1>4, <1>5, <1>6, <1>7, <1>8 DEF Environment

\* Every reachable state is well typed: the merge of a stale copy of the CR
\* into the current one always yields a Bucket CR, and no budget is overrun.
THEOREM TypeCorrect == Spec => []TypeOK
<1>1. Init => TypeOK
  BY NewBucketType, BoundsAssumption DEF Init, TypeOK, Nothing, Conditions, PCs, CreatePCs
<1>2. TypeOK /\ [Next]_vars => TypeOK'
  <2>1. TypeOK /\ UNCHANGED vars => TypeOK' BY DEF TypeOK, vars
  <2> QED BY <2>1, ReconcileType, EnvironmentType DEF Next
<1> QED BY <1>1, <1>2, PTL DEF Spec

---------------------------------------------------------------------------
(* Create never overwrites Status.Backends *)

\* Create is called for an empty status, and the runtime's check that obj is
\* current makes the CR's status empty too; until Create writes it, nobody does.
Creating == {"createWait", "createPause", "createLabels", "createStatus", "createFail"}
CreateInv ==
  /\ pc \in {"observe", "create"} => base = obj
  /\ pc = "create" => obj.backends = Nothing
  /\ pc \in Creating => cr.backends = Nothing

\* A callback that leaves Status.Backends of its copy alone leaves it alone in the CR.
LEMMA PatchedBackends ==
  ASSUME TypeOK, NEW read, NEW new, NEW bump, new.backends = read.backends
  PROVE Patched(read, new, bump).backends = cr.backends
<1>1. cr \in Buckets BY DEF TypeOK
<1>2. cr.backends = [b \in Backends |-> cr.backends[b]] BY <1>1 DEF Buckets
<1> QED BY <1>1, <1>2 DEF Patched, Buckets

LEMMA CallbackBackends ==
  ASSUME TypeOK, NEW read, NEW new, NEW bump, NEW next, NEW stop,
         Callback(read, new, bump, next, stop), new.backends = read.backends
  PROVE cr'.backends = cr.backends
BY PatchedBackends DEF Callback, Write

\* Users never change Status.Backends.
LEMMA UserEditBackends == ASSUME TypeOK, UserEdit PROVE cr'.backends = cr.backends
BY DEF TypeOK, Buckets, UserEdit, Write

LEMMA CreateInvStep == ASSUME TypeOK, CreateInv, [Next]_vars PROVE CreateInv'
<1> USE DEF CreateInv, Creating
<1>1. CASE StartReconcile BY <1>1 DEF StartReconcile, Goto, End, CreatePCs
<1>2. CASE Observe
  <2>1. PICK sub \in {"NoAction", "outdated", "error"}, u \in SUBSET Backends : Dispatch(Observation(sub, u))
    BY <1>2 DEF Observe
  <2>2. pc' = "create" => Observation(sub, u) = "notExists"
    <3>1. Observation(sub, u) \in Observations BY ObservationType
    <3> QED BY <2>1, <3>1 DEF Dispatch, Observations, Finish, Goto, End, CreatePCs, TypeOK, Buckets
  <2>3. Observation(sub, u) = "notExists" => obj.backends = Nothing
    <3>1. CASE Stored = {} BY <3>1 DEF Observation
    <3>2. CASE Stored # {} /\ obj.backends # Nothing BY <3>2 DEF Observation
    <3> QED BY <3>1, <3>2
  <2>4. pc' \notin Creating
    <3>1. Observation(sub, u) \in Observations BY ObservationType
    <3> QED BY <2>1, <3>1 DEF Dispatch, Observations, Finish, Goto, End, CreatePCs, TypeOK, Buckets
  <2> QED BY <1>2, <2>2, <2>3, <2>4 DEF Observe
<1>3. CASE FinishReconcile \/ Finalize BY <1>3 DEF FinishReconcile, Finalize, Goto, End, CreatePCs
<1>4. CASE Create BY <1>4 DEF Create, Finish, Goto, End, CreatePCs, kube
<1>5. CASE CreateTimeout BY <1>5 DEF CreateTimeout, Finish, Goto, End, CreatePCs, kube
<1>6. ASSUME NEW b \in Backends, CreateOnBackend(b) PROVE CreateInv'
  BY <1>6 DEF CreateOnBackend, Goto, End, CreatePCs, kube
<1>7. CASE CreateLabels
  <2>1. cache \in Buckets BY DEF TypeOK
  <2>2. setAllBackendLabels(cache, names).backends = cache.backends
    BY <2>1 DEF setAllBackendLabels, Buckets
  <2>3. cr'.backends = cr.backends BY <1>7, <2>2, CallbackBackends DEF CreateLabels
  <2>4. pc' \in {"createStatus", "created"} BY <1>7 DEF CreateLabels, Callback, Goto, End, CreatePCs
  <2> QED BY <1>7, <2>3, <2>4 DEF CreateLabels
<1>8. CASE CreatePause \/ CreateStatus \/ CreateFail
  <2>1. pc' = "created"
    BY <1>8 DEF CreatePause, CreateStatus, CreateFail, Callback, Goto, End, CreatePCs
  <2> QED BY <2>1
<1>9. CASE UpdateStep
  <2>1. pc' \in {"delete", "updateWait", "updateStatus", "updateLabels", "finish"}
    BY <1>9
    DEF UpdateStep, Update, updateOnBackend, UpdateStatus, UpdateLabels, Callback, Finish,
        Goto, End, CreatePCs
  <2> QED BY <2>1
<1>10. CASE DeleteStep
  <2>1. pc' \in {"deleteWait", "deleteStatus", "deleteUndisable", "finish"}
    BY <1>10 DEF DeleteStep, Delete, DeleteOnBackend, DeleteStatus, DeleteUndisable, Callback,
                 Finish, Goto, End, CreatePCs
  <2> QED BY <2>1
<1>11. CASE UserEdit BY <1>11, UserEditBackends DEF UserEdit, recon
<1>12. CASE Crash BY <1>12 DEF Crash, Goto, End, CreatePCs
<1>13. ASSUME UNCHANGED <<cr, pc, obj, base>> PROVE CreateInv' BY <1>13
<1>14. CASE UNCHANGED vars BY <1>13, <1>14 DEF vars
<1>15. CASE CacheSync BY <1>13, <1>15 DEF CacheSync, recon
<1>16. ASSUME NEW b \in Backends,
              \/ LateCreate(b) \/ BackendAdd(b) \/ BackendChange(b) \/ S3Change(b) \/ S3Empty(b)
       PROVE CreateInv'
  BY <1>13, <1>16 DEF LateCreate, BackendAdd, BackendChange, S3Change, S3Empty, kube, recon
<1> QED
  BY <1>1, <1>2, <1>3, <1>4, <1>5, <1>6, <1>7, <1>8, <1>9, <1>10, <1>11, <1>12, <1>14, <1>15, <1>16
  DEF Next, ReconcileStep, Environment, CreateStep

\* Create, however stale the cache it was dispatched from, never overwrites
\* entries of Status.Backends that an earlier operation recorded.
THEOREM CreateNeverClobbersCorrect == Spec => CreateNeverClobbers
<1>1. Init => CreateInv BY DEF Init, CreateInv, Creating
<1>2. TypeOK /\ CreateInv /\ [Next]_vars => CreateInv' BY CreateInvStep
<1>3. CreateInv => (pc = "createStatus" /\ cr'.backends # cr.backends => cr.backends = Nothing)
  BY DEF CreateInv, Creating
<1> QED BY <1>1, <1>2, <1>3, TypeCorrect, PTL DEF Spec, CreateNeverClobbers

---------------------------------------------------------------------------
(* Auto-pause finds every bucket in place *)

\* From the goroutines of Update to its last patch, a backend whose condition
\* is Available holds the bucket: nothing deletes one meanwhile.
Updating == {"updateWait", "updateStatus", "updateLabels"}
PauseInv ==
  pc \in Updating => \A b \in Backends : bb[b] = "Available" => s3[b] # "none"

LEMMA PauseInvStep ==
  ASSUME "lose" \notin Edits, TypeOK, PauseInv, [Next]_vars PROVE PauseInv'
<1> USE DEF PauseInv, Updating
<1>1. CASE Update
  BY <1>1 DEF Update, Finish, Goto, End, CreatePCs
<1>2. ASSUME NEW b \in Backends, updateOnBackend(b) PROVE PauseInv'
  <2>1. \A c \in Backends : c # b => bb'[c] = bb[c]
    BY <1>2 DEF updateOnBackend, HandleSubresources, TypeOK
  <2>2. \A c \in Backends : s3[c] # "none" => s3'[c] # "none"
    BY <1>2 DEF updateOnBackend, Made, TypeOK
  <2>3. bb'[b] = "Available" => s3'[b] # "none"
    BY <1>2 DEF updateOnBackend, HandleSubresources, Made, TypeOK
  <2>4. pc = "updateWait" BY <1>2 DEF updateOnBackend
  <2> QED BY <2>1, <2>2, <2>3, <2>4
<1>3. CASE UpdateStatus \/ UpdateLabels
  BY <1>3 DEF UpdateStatus, UpdateLabels
<1>4. ASSUME pc' \notin Updating PROVE PauseInv' BY <1>4
<1>5. CASE CreateStep
  <2>1. pc' \in {"createWait", "createPause", "createLabels", "createStatus", "createFail",
                "created", "finish"}
    BY <1>5 DEF CreateStep, Create, CreateTimeout, CreateOnBackend, CreatePause, CreateLabels,
                CreateStatus, CreateFail, Callback, Finish, Goto, End, CreatePCs
  <2> QED BY <1>4, <2>1
<1>6. CASE DeleteStep
  <2>1. pc' \in {"deleteWait", "deleteStatus", "deleteUndisable", "finish"}
    BY <1>6 DEF DeleteStep, Delete, DeleteOnBackend, DeleteStatus, DeleteUndisable, Callback,
                Finish, Goto, End, CreatePCs
  <2> QED BY <1>4, <2>1
<1>7. CASE Observe
  <2>1. PICK observation \in Observations : Dispatch(observation)
    BY <1>7, ObservationType DEF Observe
  <2>2. pc' \notin Updating
    BY <2>1 DEF Observations, Dispatch, Finish, Goto, End, CreatePCs, TypeOK, Buckets
  <2> QED BY <1>4, <2>2
<1>8. CASE StartReconcile \/ FinishReconcile \/ Finalize \/ Crash
  BY <1>8 DEF StartReconcile, FinishReconcile, Finalize, Crash, Goto, End, CreatePCs
<1>9. ASSUME UNCHANGED <<pc, bb>>, \A b \in Backends : s3[b] # "none" => s3'[b] # "none"
      PROVE PauseInv'
  BY <1>9
<1>10. CASE UNCHANGED vars BY <1>9, <1>10 DEF vars
<1>11. CASE CacheSync \/ UserEdit BY <1>9, <1>11 DEF CacheSync, UserEdit, recon
<1>12. ASSUME NEW b \in Backends,
              \/ LateCreate(b) \/ BackendAdd(b) \/ BackendChange(b) \/ S3Change(b) \/ S3Empty(b)
       PROVE PauseInv'
  <2>1. UNCHANGED <<pc, bb>>
    BY <1>12 DEF LateCreate, BackendAdd, BackendChange, S3Change, S3Empty, recon
  <2>2. \A c \in Backends : s3[c] # "none" => s3'[c] # "none"
    BY <1>12
    DEF LateCreate, BackendAdd, BackendChange, S3Change, S3Empty, Edit, Made, TypeOK
  <2> QED BY <1>9, <2>1, <2>2
<1> QED
  BY <1>1, <1>2, <1>3, <1>5, <1>6, <1>7, <1>8, <1>10, <1>11, <1>12
  DEF Next, ReconcileStep, Environment, UpdateStep

\* isPauseRequired counts: as many available backends as names means all of them.
LEMMA PauseMeansAll ==
  ASSUME TypeOK, NEW bucket, NEW configured,
         isPauseRequired(bucket, names, configured)
  PROVE \A b \in names : bb[b] = "Available"
<1> DEFINE avail == {b \in names \cap Stored : bb[b] = "Available"}
<1>1. IsFiniteSet(names)
  BY BackendsAssumption, FS_Subset DEF TypeOK
<1>2. avail \subseteq names /\ IsFiniteSet(avail)
  BY <1>1, FS_Subset
<1>3. Cardinality(avail) >= Cardinality(names)
  BY DEF isPauseRequired, countBucketsAvailableOnBackends
<1>4. avail = names
  <2>1. Cardinality(avail) \in Nat /\ Cardinality(names) \in Nat
    BY <1>1, <1>2, FS_CardinalityType
  <2>2. Cardinality(avail) <= Cardinality(names) BY <1>1, <1>2, FS_Subset
  <2>3. Cardinality(avail) = Cardinality(names) BY <1>3, <2>1, <2>2
  <2> QED BY <1>1, <1>2, <2>3, FS_Subset
<1> QED BY <1>4

LEMMA PauseStep ==
  ASSUME TypeOK, PauseInv, [Next]_vars, pc = "updateLabels", pc' = "finish",
         cr.paused # "true", cr'.paused = "true"
  PROVE \A b \in names : s3[b] # "none"
<1>1. UpdateLabels
  <2>1. ~ReconcileStep \/ UpdateLabels
    BY DEF ReconcileStep, StartReconcile, Observe, FinishReconcile, Finalize,
           CreateStep, Create, CreateTimeout, CreateOnBackend, CreatePause, CreateLabels,
           CreateStatus, CreateFail, UpdateStep, Update, updateOnBackend, UpdateStatus,
           DeleteStep, Delete, DeleteOnBackend, DeleteStatus, DeleteUndisable
  <2>2. ~Environment
    BY DEF Environment, CacheSync, UserEdit, Crash, LateCreate, BackendAdd, BackendChange,
           S3Change, S3Empty, Goto, End, CreatePCs
  <2>3. ~UNCHANGED vars BY DEF vars
  <2> QED BY <2>1, <2>2, <2>3 DEF Next
<1>2. PICK configured \in BOOLEAN :
        LET paused == IF isPauseRequired(cr, names, configured) THEN "true" ELSE cr.paused
            new == setAllBackendLabels([cr EXCEPT !.paused = paused], names)
        IN Callback(cr, new, FALSE, "finish", "finish")
  BY <1>1 DEF UpdateLabels
<1>3. CASE isPauseRequired(cr, names, configured)
  BY <1>3, PauseMeansAll DEF PauseInv, Updating, TypeOK
<1>4. CASE ~isPauseRequired(cr, names, configured)
  <2> DEFINE new == setAllBackendLabels([cr EXCEPT !.paused = cr.paused], names)
  <2>1. Callback(cr, new, FALSE, "finish", "finish") BY <1>4, <1>2
  <2>2. new.paused = cr.paused BY DEF setAllBackendLabels, TypeOK, Buckets
  <2>3. Patched(cr, new, FALSE).paused = cr.paused
    BY <2>2 DEF Patched, TypeOK, Buckets
  <2>4. cr'.paused = cr.paused BY <2>1, <2>3 DEF Callback, Write
  <2> QED BY <2>4
<1> QED BY <1>3, <1>4

\* Unless somebody removes the bucket on a backend behind the controller's
\* back, Update pauses a CR only when its bucket exists on every backend of the
\* list that it computed when it began.
THEOREM PauseOnlyWhenCompleteCorrect ==
  ASSUME "lose" \notin Edits PROVE Spec => PauseOnlyWhenComplete
<1>1. Init => PauseInv BY DEF Init, PauseInv, Updating
<1>2. TypeOK /\ PauseInv /\ [Next]_vars => PauseInv' BY PauseInvStep
<1>3. TypeOK /\ PauseInv /\ [Next]_vars =>
        [pc = "updateLabels" /\ pc' = "finish" /\ cr.paused # "true" /\ cr'.paused = "true"
          => \A b \in names : s3[b] # "none"]_vars
  BY PauseStep
<1> QED BY <1>1, <1>2, <1>3, TypeCorrect, PTL DEF Spec, PauseOnlyWhenComplete

---------------------------------------------------------------------------
(* Delete forgets no backend that still holds the bucket *)

\* A backend that the copy of the CR labels "true" and lists in its status is
\* still to do, or marked Deleting, or without the bucket that Delete found there:
\* only a CreateBucket request abandoned by an earlier Create makes one meanwhile.
Deleting == {"deleteWait", "deleteStatus"}
Missing(b) == s3[b] = "none" \/ b \in late
ProgressInv ==
  pc \in Deleting =>
    /\ names = {b \in Backends : obj.labels[b] = "true"}
    /\ \A b \in todo : bb[b] = "Deleting"
    /\ \A b \in names \ todo : obj.backends[b] # "none" /\ bb[b] = "none" => Missing(b)
DeleteInv == ProgressInv /\ (pc = "deleteStatus" => todo = {})

LEMMA DeleteInvStep == ASSUME TypeOK, DeleteInv, [Next]_vars PROVE DeleteInv'
<1> USE DEF Deleting
<1>1. ASSUME pc' \notin Deleting PROVE DeleteInv'
  BY <1>1 DEF DeleteInv, ProgressInv
<1>2. CASE StartReconcile \/ FinishReconcile \/ Finalize \/ Crash
  BY <1>1, <1>2 DEF StartReconcile, FinishReconcile, Finalize, Crash, Goto
<1>3. CASE Observe
  <2>1. PICK observation \in Observations : Dispatch(observation)
    BY <1>3, ObservationType DEF Observe
  <2>2. pc' \notin Deleting
    BY <2>1 DEF Observations, Dispatch, Finish, Goto, End, CreatePCs, TypeOK, Buckets
  <2> QED BY <1>1, <2>2
<1>4. CASE CreateStep
  <2>1. pc' \in {"createWait", "createPause", "createLabels", "createStatus", "createFail",
                "created", "finish"}
    BY <1>4 DEF CreateStep, Create, CreateTimeout, CreateOnBackend, CreatePause, CreateLabels,
                CreateStatus, CreateFail, Callback, Finish, Goto, End, CreatePCs
  <2> QED BY <1>1, <2>1
<1>5. CASE UpdateStep
  <2>1. pc' \in {"delete", "updateWait", "updateStatus", "updateLabels", "finish"}
    BY <1>5 DEF UpdateStep, Update, UpdateStatus, UpdateLabels, updateOnBackend, Callback,
                Finish, Goto, End, CreatePCs
  <2> QED BY <1>1, <2>1
<1>6. CASE Delete
  <2>1. CASE Stored = {} BY <1>1, <1>6, <2>1 DEF Delete, Finish, Goto, End, CreatePCs
  <2>2. CASE Stored # {}
    <3>1. /\ names' = {b \in Backends : obj.labels[b] = "true"} /\ obj' = obj
          /\ todo' = {b \in names' : obj.backends[b] # "none"}
          /\ bb' = [b \in Backends |-> IF b \in todo' THEN "Deleting" ELSE "none"]
          /\ pc' = IF todo' = {} THEN "deleteStatus" ELSE "deleteWait"
      BY <1>6, <2>2 DEF Delete, Goto
    <3>2. ProgressInv' BY <3>1 DEF ProgressInv
    <3> QED BY <3>1, <3>2 DEF DeleteInv
  <2> QED BY <2>1, <2>2
<1>7. ASSUME NEW b \in Backends, DeleteOnBackend(b) PROVE DeleteInv'
  <2>1. /\ pc = "deleteWait" /\ b \in todo /\ UNCHANGED <<obj, names, late>>
        /\ todo' = todo \ {b} /\ pc' = IF todo' = {} THEN "deleteStatus" ELSE "deleteWait"
    BY <1>7 DEF DeleteOnBackend, Goto, landing
  <2>2. bb'[b] = "none" => s3'[b] = "none"
    BY <1>7, <2>1 DEF DeleteOnBackend, TypeOK, DeleteInv, ProgressInv
  <2>3. \A c \in Backends : c # b => bb'[c] = bb[c] /\ s3'[c] = s3[c]
    BY <1>7 DEF DeleteOnBackend, TypeOK
  <2>4. ProgressInv'
    BY <2>1, <2>2, <2>3 DEF DeleteInv, ProgressInv, Missing, TypeOK
  <2> QED BY <2>1, <2>4 DEF DeleteInv
<1>8. CASE DeleteStatus \/ DeleteUndisable
  <2>1. pc' \in {"deleteUndisable", "finish"}
    BY <1>8 DEF DeleteStatus, DeleteUndisable, Callback, Goto, End, CreatePCs
  <2> QED BY <1>1, <2>1
<1>9. ASSUME UNCHANGED <<pc, obj, names, todo, bb>>,
             pc \in Deleting => \A b \in Backends : Missing(b) => Missing(b)'
      PROVE DeleteInv'
  BY <1>9 DEF DeleteInv, ProgressInv, TypeOK
<1>10. CASE CacheSync \/ UserEdit \/ UNCHANGED vars
  BY <1>9, <1>10 DEF CacheSync, UserEdit, vars, recon, landing, Missing
<1>11. ASSUME NEW b \in Backends, LateCreate(b) PROVE DeleteInv'
  <2>1. UNCHANGED <<pc, obj, names, todo, bb>> BY <1>11 DEF LateCreate, recon
  <2>2. \A c \in Backends : c # b => s3'[c] = s3[c]
    BY <1>11 DEF LateCreate, Made, TypeOK
  <2>3. pc \in Deleting => s3'[b] = s3[b] \/ b \in late'
    BY <1>11 DEF LateCreate
  <2>4. late \subseteq late' BY <1>11 DEF LateCreate
  <2> QED BY <1>9, <2>1, <2>2, <2>3, <2>4 DEF Missing
<1>12. ASSUME NEW b \in Backends,
              BackendAdd(b) \/ BackendChange(b) \/ S3Change(b) \/ S3Empty(b)
       PROVE DeleteInv'
  <2>1. UNCHANGED <<pc, obj, names, todo, bb, late>>
    BY <1>12 DEF BackendAdd, BackendChange, S3Change, S3Empty, recon, landing
  <2>2. \A c \in Backends : s3[c] = "none" => s3'[c] = "none"
    BY <1>12 DEF BackendAdd, BackendChange, S3Change, S3Empty, TypeOK
  <2> QED BY <1>9, <2>1, <2>2 DEF Missing
<1> QED
  BY <1>2, <1>3, <1>4, <1>5, <1>6, <1>7, <1>8, <1>10, <1>11, <1>12
  DEF Next, ReconcileStep, Environment, DeleteStep

\* The write that ends Delete, from whatever copy of the CR the cache holds.
LEMMA DeleteStatusStep ==
  ASSUME TypeOK, DeleteInv, DeleteStatus, NEW b \in Backends,
         cr.backends[b] # "none", cr'.backends[b] = "none"
  PROVE Missing(b) \/ obj.labels[b] # "true" \/ obj.backends[b] = "none"
<1>1. pc = "deleteStatus" /\ todo = {} BY DEF DeleteStatus, DeleteInv
<1> DEFINE new == setBucketStatus(cache, names)
<1>2. PICK bump \in BOOLEAN : Callback(cache, new, bump, "deleteUndisable", "deleteUndisable")
  BY DEF DeleteStatus
<1>3. cr' = Patched(cache, new, bump)
  BY <1>2 DEF Callback, Write
<1>4. new.backends = [c \in Backends |-> IF c \in names THEN bb[c] ELSE "none"]
  BY DEF setBucketStatus, TypeOK, Buckets
<1>5. cr'.backends[b] = new.backends[b]
  <2> HIDE DEF new
  <2>1. cr \in Buckets BY DEF TypeOK
  <2> QED BY <1>3, <2>1 DEF Patched, Buckets
<1>6. b \in names => bb[b] = "none" BY <1>4, <1>5
<1> QED BY <1>1, <1>6 DEF DeleteInv, ProgressInv, Deleting

LEMMA DeleteForgetsStep ==
  ASSUME TypeOK, DeleteInv, [Next]_vars, pc = "deleteStatus", NEW b \in Backends,
         cr.backends[b] # "none", cr'.backends[b] = "none"
  PROVE Missing(b) \/ obj.labels[b] # "true" \/ obj.backends[b] = "none"
<1>1. ~ReconcileStep \/ DeleteStatus
  BY DEF ReconcileStep, StartReconcile, Observe, FinishReconcile, Finalize,
         CreateStep, Create, CreateTimeout, CreateOnBackend, CreatePause, CreateLabels,
         CreateStatus, CreateFail, UpdateStep, Update, updateOnBackend, UpdateStatus,
         UpdateLabels, DeleteStep, Delete, DeleteOnBackend, DeleteUndisable
<1>2. ~Environment
  BY UserEditBackends DEF Environment, CacheSync, Crash, LateCreate, BackendAdd, BackendChange,
     S3Change, S3Empty, kube
<1>3. ~UNCHANGED vars BY DEF vars
<1> QED BY <1>1, <1>2, <1>3, DeleteStatusStep DEF Next

\* However far the cache lags and whatever fails, Delete drops an entry of
\* Status.Backends only when the bucket is gone from that backend (or was made
\* again by an abandoned request), or when the copy of the CR that the reconcile
\* read had no such entry or not the label "true".
THEOREM DeleteForgetsOnlyDeletedCorrect == Spec => DeleteForgetsOnlyDeleted
<1>1. Init => DeleteInv BY DEF Init, DeleteInv, ProgressInv, Deleting
<1>2. TypeOK /\ DeleteInv /\ [Next]_vars => DeleteInv' BY DeleteInvStep
<1>3. TypeOK /\ DeleteInv /\ [Next]_vars =>
        [pc = "deleteStatus" =>
          \A b \in Backends : cr.backends[b] # "none" /\ cr'.backends[b] = "none"
             => \/ s3[b] = "none" \/ b \in late
                \/ obj.labels[b] # "true" \/ obj.backends[b] = "none"]_vars
  BY DeleteForgetsStep DEF Missing
<1> QED BY <1>1, <1>2, <1>3, TypeCorrect, PTL DEF Spec, DeleteForgetsOnlyDeleted

---------------------------------------------------------------------------
(* S3 calls follow the Bucket CR *)

\* The goroutines started by Create and Update are for backends that the copy
\* of the CR asks for, those started by Delete for backends labelled "true" of
\* a copy that is deleted or disabled.
Asked(b) == ~obj.disabled /\ obj.labels[b] # "false" /\ (obj.providers = {} \/ b \in obj.providers)
Refused == obj.deleting \/ obj.disabled
AskedInv ==
  /\ pc \in {"createWait", "updateWait"} => \A b \in todo : Asked(b)
  /\ pc \in {"delete", "deleteWait"} => Refused
  /\ pc = "deleteWait" => \A b \in todo : obj.labels[b] = "true"

LEMMA FilterAsked ==
  ASSUME ~obj.disabled, NEW all,
         NEW b \in getBucketProvidersFilterDisabledLabel(obj, all)
  PROVE Asked(b)
BY DEF getBucketProvidersFilterDisabledLabel, Asked

LEMMA AskedInvStep == ASSUME TypeOK, AskedInv, [Next]_vars PROVE AskedInv'
<1> USE DEF AskedInv
<1>1. ASSUME pc' \notin {"createWait", "updateWait", "delete", "deleteWait"} PROVE AskedInv'
  BY <1>1
<1>2. CASE StartReconcile \/ FinishReconcile \/ Finalize \/ Crash
  BY <1>1, <1>2 DEF StartReconcile, FinishReconcile, Finalize, Crash, Goto, End, CreatePCs
<1>3. CASE Observe
  <2>1. PICK observation \in Observations : Dispatch(observation)
    BY <1>3, ObservationType DEF Observe
  <2>2. /\ pc' \notin {"createWait", "updateWait", "deleteWait"}
        /\ pc' = "delete" => obj.deleting
    BY <2>1 DEF Observations, Dispatch, Finish, Goto, End, CreatePCs, TypeOK, Buckets
  <2>3. obj' = obj BY <1>3 DEF Observe
  <2> QED BY <2>2, <2>3 DEF Refused
<1>4. ASSUME NEW targets, GetS3Clients(targets) PROVE todo' \subseteq targets
  BY <1>4 DEF GetS3Clients
<1>5. CASE Create
  <2>1. obj' = obj BY <1>5 DEF Create
  <2>2. CASE pc' = "createWait"
    <3>1. ~obj.disabled /\ todo' \subseteq getBucketProvidersFilterDisabledLabel(obj, Stored)
      BY <1>4, <1>5, <2>2 DEF Create, Finish, Goto, End, CreatePCs
    <3> QED BY <2>1, <2>2, <3>1, FilterAsked DEF Asked
  <2>3. CASE pc' # "createWait"
    BY <1>1, <1>5, <2>3 DEF Create, Finish, Goto, End, CreatePCs
  <2> QED BY <2>2, <2>3
<1>6. CASE Update
  <2>1. obj' = obj BY <1>6 DEF Update
  <2>2. CASE pc' = "updateWait"
    <3>1. ~obj.disabled /\ todo' \subseteq getBucketProvidersFilterDisabledLabel(obj, Stored)
      BY <1>4, <1>6, <2>2 DEF Update, Finish, Goto, End, CreatePCs
    <3> QED BY <2>1, <2>2, <3>1, FilterAsked DEF Asked
  <2>3. CASE pc' # "updateWait"
    <3>1. pc' = "delete" => obj.disabled BY <1>6 DEF Update, Finish, Goto, End, CreatePCs
    <3>2. pc' \notin {"createWait", "deleteWait"} BY <1>6 DEF Update, Finish, Goto, End, CreatePCs
    <3> QED BY <2>1, <2>3, <3>1, <3>2 DEF Refused
  <2> QED BY <2>2, <2>3
<1>7. CASE Delete
  <2>1. obj' = obj /\ pc = "delete" BY <1>7 DEF Delete
  <2>2. CASE pc' = "deleteWait"
    BY <1>7, <2>1, <2>2 DEF Delete, Finish, Goto, End, CreatePCs, Refused
  <2>3. CASE pc' # "deleteWait"
    BY <1>1, <1>7, <2>3 DEF Delete, Finish, Goto, End, CreatePCs
  <2> QED BY <2>2, <2>3
<1>8. ASSUME UNCHANGED <<pc, obj>>, todo' \subseteq todo PROVE AskedInv'
  BY <1>8 DEF Asked, Refused
<1>9. ASSUME NEW b \in Backends,
             CreateOnBackend(b) \/ updateOnBackend(b) \/ DeleteOnBackend(b)
      PROVE AskedInv'
  <2>1. obj' = obj /\ todo' \subseteq todo
    BY <1>9 DEF CreateOnBackend, updateOnBackend, DeleteOnBackend
  <2>2. pc' = pc \/ pc' \in {"createLabels", "createFail", "updateStatus", "deleteStatus"}
    BY <1>9 DEF CreateOnBackend, updateOnBackend, DeleteOnBackend, Goto, End, CreatePCs
  <2> QED BY <1>1, <1>8, <2>1, <2>2
<1>10. CASE \/ CreateTimeout \/ CreatePause \/ CreateLabels \/ CreateStatus \/ CreateFail
            \/ UpdateStatus \/ UpdateLabels \/ DeleteStatus \/ DeleteUndisable
  <2>1. pc' \in {"createStatus", "createFail", "updateLabels", "deleteUndisable", "created",
                "finish"}
    BY <1>10 DEF CreateTimeout, CreatePause, CreateLabels, CreateStatus, CreateFail,
                 UpdateStatus, UpdateLabels, DeleteStatus, DeleteUndisable, Callback, Finish,
                 Goto, End, CreatePCs
  <2> QED BY <1>1, <2>1
<1>11. CASE CacheSync \/ UserEdit \/ UNCHANGED vars
  BY <1>8, <1>11 DEF CacheSync, UserEdit, vars, recon
<1>12. ASSUME NEW b \in Backends,
              \/ LateCreate(b) \/ BackendAdd(b) \/ BackendChange(b) \/ S3Change(b) \/ S3Empty(b)
       PROVE AskedInv'
  BY <1>8, <1>12 DEF LateCreate, BackendAdd, BackendChange, S3Change, S3Empty, recon
<1> QED
  BY <1>2, <1>3, <1>5, <1>6, <1>7, <1>9, <1>10, <1>11, <1>12
  DEF Next, ReconcileStep, Environment, CreateStep, UpdateStep, DeleteStep

LEMMA AskedStep ==
  ASSUME TypeOK, AskedInv, [Next]_vars, NEW b \in todo \ todo', s3'[b] # s3[b]
  PROVE IF s3[b] = "none" THEN Asked(b) ELSE Refused /\ obj.labels[b] = "true"
<1>1. b \in Backends BY DEF TypeOK
<1>2. PICK c \in Backends : CreateOnBackend(c) \/ updateOnBackend(c) \/ DeleteOnBackend(c)
  BY DEF Next, ReconcileStep, StartReconcile, Observe, FinishReconcile, Finalize,
         CreateStep, Create, CreateTimeout, CreatePause, CreateLabels, CreateStatus,
         CreateFail, UpdateStep, Update, UpdateStatus, UpdateLabels, DeleteStep, Delete,
         DeleteStatus, DeleteUndisable, Environment, CacheSync, UserEdit, Crash, LateCreate,
         BackendAdd, BackendChange, S3Change, S3Empty, recon, vars
<1>3. CASE CreateOnBackend(c)
  <2>1. pc = "createWait" BY <1>3 DEF CreateOnBackend
  <2>2. s3[b] = "none"
    BY <1>1, <1>3 DEF CreateOnBackend, Made, TypeOK
  <2> QED BY <2>1, <2>2 DEF AskedInv
<1>4. CASE updateOnBackend(c)
  <2>1. pc = "updateWait" BY <1>4 DEF updateOnBackend
  <2>2. s3[b] = "none"
    BY <1>1, <1>4 DEF updateOnBackend, Made, TypeOK
  <2> QED BY <2>1, <2>2 DEF AskedInv
<1>5. CASE DeleteOnBackend(c)
  <2>1. pc = "deleteWait" BY <1>5 DEF DeleteOnBackend
  <2>2. s3[b] # "none"
    BY <1>1, <1>5 DEF DeleteOnBackend, TypeOK
  <2> QED BY <2>1, <2>2 DEF AskedInv
<1> QED BY <1>2, <1>3, <1>4, <1>5

\* A goroutine creates a bucket only where the CR wants one, and deletes one
\* only on a backend labelled "true" of a CR that is deleted or disabled.
THEOREM S3ChangesAreAskedCorrect == Spec => S3ChangesAreAsked
<1>1. Init => AskedInv BY DEF Init, AskedInv
<1>2. TypeOK /\ AskedInv /\ [Next]_vars => AskedInv' BY AskedInvStep
<1>3. TypeOK /\ AskedInv /\ [Next]_vars =>
        [\A b \in todo \ todo' : s3'[b] # s3[b] =>
           IF s3[b] = "none"
           THEN ~obj.disabled /\ obj.labels[b] # "false"
                /\ (obj.providers = {} \/ b \in obj.providers)
           ELSE (obj.deleting \/ obj.disabled) /\ obj.labels[b] = "true"]_vars
  BY AskedStep DEF Asked, Refused
<1> QED BY <1>1, <1>2, <1>3, TypeCorrect, PTL DEF Spec, S3ChangesAreAsked
---------------------------------------------------------------------------
(* The status never claims a bucket that is not there *)

\* What a reconcile holds in memory is true: an Available condition that a
\* goroutine has reported, and one in obj that the CR it was read as does not
\* have.  Delete, which alone makes buckets go away, first replaces the conditions
\* of its backends, and works on obj as it was read.
Exists(b) == s3[b] # "none"
RecordInv ==
  /\ \A b \in Backends : bb[b] = "Available" => Exists(b)
  /\ \A b \in Backends : obj.backends[b] = "Available"
       => base.backends[b] = "Available" \/ Exists(b)
  /\ pc \in {"observe", "update", "delete", "deleteWait"} => obj = base
  /\ pc = "deleteWait" => \A b \in todo : bb[b] = "Deleting"

\* A callback that adds no Available condition but true ones to its copy keeps
\* the invariant and patches only true ones into the CR.
AddsOnlyTrue(read, new) ==
  \A b \in Backends : new.backends[b] = "Available" => read.backends[b] = "Available" \/ Exists(b)

LEMMA PatchedEntry ==
  ASSUME TypeOK, NEW read, NEW new, NEW bump, NEW b \in Backends
  PROVE  Patched(read, new, bump).backends[b] \in {new.backends[b], cr.backends[b]}
         /\ (Patched(read, new, bump).backends[b] # cr.backends[b]
               => new.backends[b] # read.backends[b])
<1>1. cr \in Buckets BY DEF TypeOK
<1>2. Patched(read, new, bump).backends[b]
        = IF new.backends[b] # read.backends[b] THEN new.backends[b] ELSE cr.backends[b]
  BY <1>1 DEF Patched, Buckets
<1> QED BY <1>2

LEMMA CallbackRecords ==
  ASSUME TypeOK, RecordInv, NEW read, NEW new, NEW bump, NEW next, NEW stop,
         Callback(read, new, bump, next, stop), AddsOnlyTrue(read, new),
         UNCHANGED <<s3, todo, bb>>,
         next \notin {"observe", "update", "delete", "deleteWait"},
         stop \notin {"observe", "update", "delete", "deleteWait"}
  PROVE  /\ RecordInv'
         /\ \A b \in Backends : cr.backends[b] # "Available" /\ cr'.backends[b] = "Available"
              => Exists(b)
<1>1. pc' \notin {"observe", "update", "delete", "deleteWait"}
  BY DEF Callback, Goto, End
<1>2. cr' = cr \/ cr' = Patched(read, new, bump)
  BY DEF Callback, Write
<1>3. \A b \in Backends : cr.backends[b] # "Available" /\ cr'.backends[b] = "Available"
        => Exists(b)
  BY <1>2, PatchedEntry DEF AddsOnlyTrue
<1>4. \/ obj' = base'
      \/ UNCHANGED <<obj, base>>
      \/ obj' = new /\ base' = read
  BY DEF Callback
<1>5. \A b \in Backends : obj'.backends[b] = "Available"
        => base'.backends[b] = "Available" \/ Exists(b)'
  BY <1>4 DEF AddsOnlyTrue, RecordInv, Exists
<1> QED BY <1>1, <1>3, <1>5 DEF RecordInv, Exists

\* What the callbacks make of Status.Backends.
LEMMA StatusIsTrue ==
  ASSUME TypeOK, RecordInv, NEW read \in Buckets
  PROVE  AddsOnlyTrue(read, setBucketStatus(read, names))
<1>1. setBucketStatus(read, names).backends
        = [b \in Backends |-> IF b \in names THEN bb[b] ELSE "none"]
  BY DEF setBucketStatus, Buckets
<1> QED BY <1>1 DEF AddsOnlyTrue, RecordInv

LEMMA CallbacksRecord ==
  ASSUME TypeOK, RecordInv,
         \/ CreatePause \/ CreateLabels \/ CreateStatus \/ CreateFail \/ UpdateStatus
         \/ UpdateLabels \/ DeleteStatus \/ DeleteUndisable
  PROVE  /\ RecordInv'
         /\ \A b \in Backends : cr.backends[b] # "Available" /\ cr'.backends[b] = "Available"
              => Exists(b)
<1>0. cr \in Buckets /\ cache \in Buckets BY DEF TypeOK
<1>1. \A read, new : new.backends = read.backends => AddsOnlyTrue(read, new) BY DEF AddsOnlyTrue
<1>2. CASE CreatePause
  <2> DEFINE new == [setAllBackendLabels(cache, names) EXCEPT !.paused = "true"]
  <2>1. new.backends = cache.backends BY <1>0 DEF setAllBackendLabels, Buckets
  <2>2. AddsOnlyTrue(cache, new) BY <1>1, <2>1
  <2>3. Callback(cache, new, FALSE, "created", "created") /\ UNCHANGED <<s3, todo, bb>>
    BY <1>2 DEF CreatePause
  <2> HIDE DEF new
  <2> QED BY <2>2, <2>3, CallbackRecords
<1>3. CASE CreateLabels
  <2> DEFINE new == setAllBackendLabels(cache, names)
  <2>1. new.backends = cache.backends BY <1>0 DEF setAllBackendLabels, Buckets
  <2>2. AddsOnlyTrue(cache, new) BY <1>1, <2>1
  <2>3. Callback(cache, new, FALSE, "createStatus", "created") /\ UNCHANGED <<s3, todo, bb>>
    BY <1>3 DEF CreateLabels
  <2> HIDE DEF new
  <2> QED BY <2>2, <2>3, CallbackRecords
<1>4. CASE CreateStatus
  <2> DEFINE new == [cr EXCEPT !.ready = "Available", !.backends = bb]
  <2>1. new.backends = bb BY <1>0 DEF Buckets
  <2>2. AddsOnlyTrue(cr, new) BY <2>1 DEF AddsOnlyTrue, RecordInv
  <2>3. Callback(cr, new, FALSE, "created", "created") /\ UNCHANGED <<s3, todo, bb>>
    BY <1>4 DEF CreateStatus
  <2> HIDE DEF new
  <2> QED BY <2>2, <2>3, CallbackRecords
<1>5. CASE CreateFail
  <2> DEFINE new == [cache EXCEPT !.ready = "Unavailable"]
  <2>1. new.backends = cache.backends BY <1>0 DEF Buckets
  <2>2. AddsOnlyTrue(cache, new) BY <1>1, <2>1
  <2>3. Callback(cache, new, FALSE, "created", "created") /\ UNCHANGED <<s3, todo, bb>>
    BY <1>5 DEF CreateFail
  <2> HIDE DEF new
  <2> QED BY <2>2, <2>3, CallbackRecords
<1>6. CASE UpdateStatus
  <2> DEFINE new == setBucketStatus(cache, names)
  <2>1. AddsOnlyTrue(cache, new) BY <1>0, StatusIsTrue
  <2>2. PICK bump \in BOOLEAN : Callback(cache, new, bump, "updateLabels", "finish")
    BY <1>6 DEF UpdateStatus
  <2>3. UNCHANGED <<s3, todo, bb>> BY <1>6 DEF UpdateStatus
  <2> HIDE DEF new
  <2> QED BY <2>1, <2>2, <2>3, CallbackRecords
<1>7. CASE UpdateLabels
  <2>1. PICK configured \in BOOLEAN :
          LET paused == IF isPauseRequired(cr, names, configured) THEN "true" ELSE cr.paused
              new == setAllBackendLabels([cr EXCEPT !.paused = paused], names)
          IN Callback(cr, new, FALSE, "finish", "finish")
    BY <1>7 DEF UpdateLabels
  <2> DEFINE paused == IF isPauseRequired(cr, names, configured) THEN "true" ELSE cr.paused
             new == setAllBackendLabels([cr EXCEPT !.paused = paused], names)
  <2>2. Callback(cr, new, FALSE, "finish", "finish") BY <2>1
  <2> HIDE DEF paused
  <2>3. new.backends = cr.backends BY <1>0 DEF setAllBackendLabels, Buckets
  <2>4. AddsOnlyTrue(cr, new) BY <1>1, <2>3
  <2>5. UNCHANGED <<s3, todo, bb>> BY <1>7 DEF UpdateLabels
  <2> HIDE DEF new
  <2> QED BY <2>2, <2>4, <2>5, CallbackRecords
<1>8. CASE DeleteStatus
  <2> DEFINE new == setBucketStatus(cache, names)
  <2>1. AddsOnlyTrue(cache, new) BY <1>0, StatusIsTrue
  <2>2. PICK bump \in BOOLEAN :
          Callback(cache, new, bump, "deleteUndisable", "deleteUndisable")
    BY <1>8 DEF DeleteStatus
  <2>3. UNCHANGED <<s3, todo, bb>> BY <1>8 DEF DeleteStatus
  <2> HIDE DEF new
  <2> QED BY <2>1, <2>2, <2>3, CallbackRecords
<1>9. CASE DeleteUndisable
  <2> DEFINE new == [cache EXCEPT !.disabled = FALSE]
  <2>1. new.backends = cache.backends BY <1>0 DEF Buckets
  <2>2. AddsOnlyTrue(cache, new) BY <1>1, <2>1
  <2>3. UNCHANGED <<s3, todo, bb>> BY <1>9 DEF DeleteUndisable
  <2>4. CASE Callback(cache, new, FALSE, "finish", "finish")
    <3> HIDE DEF new
    <3> QED BY <2>2, <2>3, <2>4, CallbackRecords
  <2>5. CASE Goto("finish") /\ UNCHANGED <<cr, obj, base>>
    BY <2>3, <2>5 DEF Goto, RecordInv, Exists
  <2> QED BY <1>9, <2>4, <2>5 DEF DeleteUndisable, kube
<1> QED BY <1>2, <1>3, <1>4, <1>5, <1>6, <1>7, <1>8, <1>9

LEMMA RecordInvStep ==
  ASSUME "lose" \notin Edits, TypeOK, RecordInv, [Next]_vars
  PROVE  /\ RecordInv'
         /\ \A b \in Backends : cr.backends[b] # "Available" /\ cr'.backends[b] = "Available"
              => Exists(b)
<1> DEFINE Grows == \A b \in Backends : Exists(b) => Exists(b)'
           Truthful == \A b \in Backends : cr.backends[b] # "Available"
                       /\ cr'.backends[b] = "Available" => Exists(b)
           Early == {"observe", "update", "delete", "deleteWait"}
<1>0. /\ cr \in Buckets /\ NoBucket \in Buckets
      /\ \A b \in Backends : Nothing[b] = "none" /\ NoBucket.backends[b] = "none"
  BY NewBucketType DEF TypeOK, Nothing, NoBucket, NewBucket
<1>1. ASSUME UNCHANGED <<cr, obj, base, bb>>, Grows, pc' \in Early => pc \in Early,
             pc' # "deleteWait"
      PROVE  RecordInv' /\ Truthful
  BY <1>1 DEF RecordInv
<1>2. CASE StartReconcile
  BY <1>2 DEF StartReconcile, Goto, RecordInv, Exists
<1>3. CASE Observe
  <2>1. PICK observation \in Observations : Dispatch(observation)
    BY <1>3, ObservationType DEF Observe
  <2>2. pc' # "deleteWait" /\ pc = "observe"
    BY <1>3, <2>1 DEF Observe, Observations, Dispatch, Finish, Goto, End, CreatePCs, TypeOK, Buckets
  <2> QED BY <1>1, <1>3, <2>2 DEF Observe, kube, Exists
<1>4. CASE FinishReconcile
  <2>1. pc' = "idle" /\ obj' = NoBucket /\ base' = NoBucket /\ bb' = Nothing /\ s3' = s3
    BY <1>4 DEF FinishReconcile, Goto
  <2>2. \/ cr'.backends = cr.backends
        \/ base = cr /\ cr'.backends = obj.backends
    BY <1>0, <1>4 DEF FinishReconcile, Write, Buckets, kube
  <2>3. Truthful BY <2>2 DEF RecordInv
  <2> QED BY <1>0, <2>1, <2>3 DEF RecordInv
<1>5. CASE Finalize
  <2>1. pc' = "finish" /\ UNCHANGED <<s3, obj, base, bb>> /\ (cr' = NoBucket \/ cr' = cr)
    BY <1>5 DEF Finalize, Goto, Write, kube
  <2> QED BY <1>0, <2>1 DEF RecordInv, Exists
<1>6. CASE Create \/ CreateTimeout
  <2>1. pc' \notin Early
    BY <1>6 DEF Create, CreateTimeout, Finish, Goto, End, CreatePCs
  <2> QED BY <1>1, <1>6, <2>1 DEF Create, CreateTimeout, kube, Exists
<1>7. ASSUME NEW b \in Backends, CreateOnBackend(b) PROVE RecordInv' /\ Truthful
  <2>1. pc' \in {"createWait", "createLabels", "createFail"} /\ UNCHANGED <<cr, obj, base>>
    BY <1>7 DEF CreateOnBackend, Goto, kube
  <2>2. Grows BY <1>7 DEF CreateOnBackend, Made, TypeOK, Exists
  <2>3. bb'[b] # bb[b] => Exists(b)'
    BY <1>7 DEF CreateOnBackend, Made, TypeOK, Exists
  <2>4. \A c \in Backends : c # b => bb'[c] = bb[c]
    BY <1>7 DEF CreateOnBackend, TypeOK
  <2> QED BY <2>1, <2>2, <2>3, <2>4 DEF RecordInv
<1>8. CASE Update
  <2>1. /\ pc' \in {"delete", "finish", "updateWait", "updateStatus"} /\ pc = "update"
        /\ UNCHANGED <<cr, obj, base, s3>>
    BY <1>8 DEF Update, Finish, Goto, End, CreatePCs, kube
  <2>2. \A b \in Backends : bb'[b] = "Available" => bb[b] = "Available"
    BY <1>8 DEF Update, TypeOK
  <2> QED BY <2>1, <2>2 DEF RecordInv, Exists
<1>9. ASSUME NEW b \in Backends, updateOnBackend(b) PROVE RecordInv' /\ Truthful
  <2>1. pc' \in {"updateWait", "updateStatus"} /\ UNCHANGED <<cr, obj, base>>
    BY <1>9 DEF updateOnBackend, Goto, kube
  <2>2. Grows BY <1>9 DEF updateOnBackend, Made, TypeOK, Exists
  <2>3. bb'[b] = "Available" /\ bb[b] # "Available" => Exists(b)'
    BY <1>9 DEF updateOnBackend, HandleSubresources, Made, TypeOK, Exists
  <2>4. \A c \in Backends : c # b => bb'[c] = bb[c]
    BY <1>9 DEF updateOnBackend, HandleSubresources, TypeOK
  <2> QED BY <2>1, <2>2, <2>3, <2>4 DEF RecordInv
<1>10. CASE Delete
  <2>1. pc = "delete" /\ UNCHANGED <<cr, obj, base, s3>> BY <1>10 DEF Delete, kube
  <2>2. CASE Stored = {}
    BY <1>10, <2>1, <2>2 DEF Delete, Finish, Goto, End, CreatePCs, RecordInv, Exists
  <2>3. CASE Stored # {}
    <3>1. /\ todo' \subseteq Backends
          /\ bb' = [b \in Backends |-> IF b \in todo' THEN "Deleting" ELSE "none"]
      BY <1>10, <2>3 DEF Delete
    <3> QED BY <2>1, <3>1 DEF RecordInv, Exists
  <2> QED BY <2>2, <2>3
<1>11. ASSUME NEW b \in Backends, DeleteOnBackend(b) PROVE RecordInv' /\ Truthful
  <2>1. /\ pc = "deleteWait" /\ pc' \in {"deleteWait", "deleteStatus"} /\ b \in todo
        /\ todo' = todo \ {b} /\ UNCHANGED <<cr, obj, base>>
    BY <1>11 DEF DeleteOnBackend, Goto, kube
  <2>2. bb'[b] # "Available" BY <1>11, <2>1 DEF DeleteOnBackend, TypeOK, RecordInv
  <2>3. \A c \in Backends : c # b => bb'[c] = bb[c] /\ s3'[c] = s3[c]
    BY <1>11 DEF DeleteOnBackend, TypeOK
  <2>4. obj = base BY <2>1 DEF RecordInv
  <2> QED BY <2>1, <2>2, <2>3, <2>4 DEF RecordInv, Exists, TypeOK
<1>12. CASE UserEdit
  <2>1. UNCHANGED <<s3, pc, obj, base, todo, bb>> /\ cr'.backends = cr.backends
    BY <1>12, UserEditBackends DEF UserEdit, recon
  <2> QED BY <2>1 DEF RecordInv, Exists
<1>13. CASE Crash
  <2>1. /\ pc' = "idle" /\ obj' = NoBucket /\ base' = NoBucket /\ bb' = Nothing
        /\ UNCHANGED <<s3, cr>>
    BY <1>13 DEF Crash, Goto
  <2> QED BY <1>0, <2>1 DEF RecordInv
<1>14. ASSUME UNCHANGED <<pc, cr, obj, base, todo, bb>>, Grows PROVE RecordInv' /\ Truthful
  BY <1>14 DEF RecordInv
<1>15. CASE CacheSync \/ UNCHANGED vars
  BY <1>14, <1>15 DEF CacheSync, vars, recon, Exists
<1>16. ASSUME NEW b \in Backends,
              \/ LateCreate(b) \/ BackendAdd(b) \/ BackendChange(b) \/ S3Change(b) \/ S3Empty(b)
       PROVE RecordInv' /\ Truthful
  <2>1. UNCHANGED <<pc, cr, obj, base, todo, bb>>
    BY <1>16 DEF LateCreate, BackendAdd, BackendChange, S3Change, S3Empty, kube, recon
  <2>2. Grows
    BY <1>16
    DEF LateCreate, BackendAdd, BackendChange, S3Change, S3Empty, Edit, Made, TypeOK, Exists
  <2> QED BY <1>14, <2>1, <2>2
<1> QED
  BY <1>2, <1>3, <1>4, <1>5, <1>6, <1>7, <1>8, <1>9, <1>10, <1>11, <1>12, <1>13, <1>15, <1>16,
     CallbacksRecord
  DEF Next, ReconcileStep, Environment, CreateStep, UpdateStep, DeleteStep

\* Unless somebody removes the bucket on a backend behind the controller's back,
\* the CR never comes to say Available of a backend without the bucket: not by
\* a patch from a stale cache, nor by the status that the runtime writes after a
\* failed patch, nor after a crash.
THEOREM RecordsWhatExistsCorrect ==
  ASSUME "lose" \notin Edits PROVE Spec => RecordsWhatExists
<1>1. Init => RecordInv
  <2>1. \A b \in Backends : Nothing[b] = "none" BY DEF Nothing
  <2> QED BY <2>1 DEF Init, RecordInv
<1>2. TypeOK /\ RecordInv /\ [Next]_vars => RecordInv' BY RecordInvStep
<1>3. TypeOK /\ RecordInv /\ [Next]_vars =>
        [\A b \in Backends : cr.backends[b] # "Available" /\ cr'.backends[b] = "Available"
           => s3[b] # "none"]_vars
  BY RecordInvStep DEF Exists
<1> QED BY <1>1, <1>2, <1>3, TypeCorrect, PTL DEF Spec, RecordsWhatExists
=============================================================================
