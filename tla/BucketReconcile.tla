-------------------------- MODULE BucketReconcile --------------------------
(***************************************************************************)
(* The Bucket controller of provider-ceph: one Bucket CR reconciled onto a *)
(* set of S3 backends.  A reconcile reads the CR, calls Observe, and then  *)
(* one of Create, Update, Delete (src/internal/controller/bucket), each of *)
(* which works on the backends concurrently and records the outcome with   *)
(* updateBucketCR.  Around it run the user, who edits the CR, the backend  *)
(* monitor, which fills the backend store, the informer cache, which lags  *)
(* behind the API server, and failures of both APIs and of the process.    *)
(***************************************************************************)
EXTENDS Naturals, FiniteSets

CONSTANTS
  Backends,          \* names of the S3 backends (ProviderConfigs)
  MinReplicas,       \* --minimum-replicas
  RecreateMissing,   \* --recreate-missing-bucket
  AutoPause,         \* --auto-pause-bucket, or Spec.AutoPause
  HasSubresources,   \* at least one subresource client is configured
  OwnedIsError,      \* S3 answers BucketAlreadyOwnedByYou to a repeated create
  Edits,             \* the kinds of change the environment makes
  MaxEdits,          \* how many of them
  MaxFaults          \* how many API calls, S3 calls and processes fail

EditKinds == {"delete", "disable", "enable", "pause", "unpause", "label",
              "providers", "health", "remove", "write", "lose"}

ASSUME BackendsAssumption == IsFiniteSet(Backends)
ASSUME SwitchesAssumption ==
  /\ {RecreateMissing, AutoPause, HasSubresources, OwnedIsError} \subseteq BOOLEAN
  /\ Edits \subseteq EditKinds
ASSUME BoundsAssumption == MinReplicas \in Nat /\ MaxEdits \in Nat /\ MaxFaults \in Nat

VARIABLES
  cr,       \* the Bucket CR in the API server
  cache,    \* the informer's copy of it
  s3,       \* what each backend holds under the bucket's name
  store,    \* the backend store: health of each stored backend, or "absent"
  pc,       \* step of the reconcile in progress
  obj,      \* the reconcile's in-memory Bucket
  base,     \* the CR that obj was last read as; stands for its resource version
  names,    \* backendsToCreateOnNames, backendsToUpdateOnNames, providerNames
  todo,     \* backends whose goroutine is still running
  bb,       \* bucketBackends: bucket condition per backend, or "none"
  err,      \* first error of the operation
  inflight, \* CreateBucket requests abandoned when Create returned, per backend
  late,     \* backends on which one of them made the bucket while Delete ran
  edits, faults

kube == <<cr, cache>>
landing == <<inflight, late>>
recon == <<obj, base, names, todo, bb, err>>
budget == <<edits, faults>>
vars == <<cr, cache, s3, store, pc, obj, base, names, todo, bb, err, inflight, late, edits, faults>>

Conditions == {"none", "Available", "Unavailable", "Deleting"}
Labels == {"none", "true", "false"}
\* Healthy stands for Unknown too: this controller only asks for Unhealthy.
Healths == {"Healthy", "Unhealthy"}

\* What the model keeps of a Bucket CR.  paused = "" also stands for a missing label.
Buckets == [exists : BOOLEAN, deleting : BOOLEAN, disabled : BOOLEAN,
            paused : {"", "true", "false"}, providers : SUBSET Backends,
            labels : [Backends -> Labels], backends : [Backends -> Conditions],
            ready : {"none", "Available", "Unavailable"},
            synced : {"none", "Success", "Error"}]

NewBucket == [exists |-> TRUE, deleting |-> FALSE, disabled |-> FALSE, paused |-> "",
              providers |-> {}, labels |-> [b \in Backends |-> "none"],
              backends |-> [b \in Backends |-> "none"], ready |-> "none", synced |-> "none"]
NoBucket == [NewBucket EXCEPT !.exists = FALSE]

CreatePCs == {"create", "createWait", "createPause", "createLabels", "createStatus", "createFail"}
PCs == CreatePCs \cup
       {"idle", "observe", "finish", "finalize", "created",
        "update", "updateWait", "updateStatus", "updateLabels",
        "delete", "deleteWait", "deleteStatus", "deleteUndisable"}

TypeOK ==
  /\ cr \in Buckets /\ cache \in Buckets /\ obj \in Buckets /\ base \in Buckets
  /\ s3 \in [Backends -> {"none", "empty", "full"}]
  /\ store \in [Backends -> Healths \cup {"absent"}]
  /\ pc \in PCs
  /\ names \subseteq Backends /\ todo \subseteq Backends
  /\ inflight \in [Backends -> Nat] /\ late \subseteq Backends
  /\ bb \in [Backends -> Conditions]
  /\ err \in {"none", "err", "notEmpty"}
  /\ edits \in 0..MaxEdits /\ faults \in 0..MaxFaults

---------------------------------------------------------------------------
(* Helpers of the controller. *)

Stored == {b \in Backends : store[b] # "absent"}

Nothing == [b \in Backends |-> "none"]

\* Mutant: the label that excludes a backend is ignored.
getBucketProvidersFilterDisabledLabelMutant(bucket, all) ==
  IF bucket.providers = {} THEN all ELSE bucket.providers

getBucketProvidersFilterDisabledLabel(bucket, all) ==
  {b \in IF bucket.providers = {} THEN all ELSE bucket.providers : bucket.labels[b] # "false"}

\* Mutant: one available backend is enough.
isBucketAvailableFromStatusMutant(bucket, providerNames) ==
  \E b \in providerNames \cap Stored : bucket.backends[b] = "Available"

isBucketAvailableFromStatus(bucket, providerNames) ==
  \A b \in providerNames \cap Stored : bucket.backends[b] = "Available"

\* The loop that should delete existing labels strips the prefix off the keys
\* it deletes, so it deletes nothing: labels are only ever added.
setAllBackendLabels(bucket, providerNames) ==
  [bucket EXCEPT !.labels = [b \in Backends |->
     IF b \in providerNames /\ bucket.labels[b] = "none" THEN "true" ELSE bucket.labels[b]]]

countBucketsAvailableOnBackends(providerNames) ==
  Cardinality({b \in providerNames \cap Stored : bb[b] = "Available"})

\* configured: the conditions of the subresources that the spec asks for.
isPauseRequired(bucket, providerNames, configured) ==
  /\ configured
  /\ bucket.ready = "Available" /\ bucket.synced = "Success"
  /\ countBucketsAvailableOnBackends(providerNames) >= Cardinality(providerNames)
  /\ AutoPause /\ bucket.paused = ""

setBucketStatus(bucket, providerNames) ==
  LET backends == [b \in Backends |-> IF b \in providerNames THEN bb[b] ELSE "none"]
      ok == Cardinality({b \in Backends : backends[b] = "Available"})
      isReady == ok >= MinReplicas
  IN [bucket EXCEPT !.backends = backends,
                    !.ready = IF isReady THEN "Available" ELSE "Unavailable",
                    !.synced = IF ok >= Cardinality(providerNames) /\ isReady
                               THEN "Success" ELSE "Error"]

(***************************************************************************)
(* updateBucketCR reads the CR (the first callback from the informer       *)
(* cache), applies the callback, and sends the difference to what it read  *)
(* as a merge patch without a resource version.  Maps are merged key by    *)
(* key; the conditions are a list, which a merge patch replaces as a whole *)
(* once anything in it differs.  setBucketStatus sets Unavailable first,   *)
(* so a Ready condition that was Available differs in its transition time  *)
(* (unless both were written in the same second), and a Synced condition   *)
(* that was an error may differ in its message: bump.                      *)
(***************************************************************************)
Patched(read, new, bump) ==
  LET conds == <<new.ready, new.synced>> # <<read.ready, read.synced>>
               \/ (bump /\ (read.ready = "Available" \/ read.synced = "Error"))
  IN [cr EXCEPT
       !.labels = [b \in Backends |->
          IF new.labels[b] # read.labels[b] THEN new.labels[b] ELSE cr.labels[b]],
       !.backends = [b \in Backends |->
          IF new.backends[b] # read.backends[b] THEN new.backends[b] ELSE cr.backends[b]],
       !.paused = IF new.paused # read.paused THEN new.paused ELSE cr.paused,
       !.disabled = IF new.disabled # read.disabled THEN new.disabled ELSE cr.disabled,
       !.ready = IF conds THEN new.ready ELSE cr.ready,
       !.synced = IF conds THEN new.synced ELSE cr.synced]

\* The cache holds no paused Bucket: its selector is "paused notin (true)".
Visible(bucket) == IF bucket.exists /\ bucket.paused # "true" THEN bucket ELSE NoBucket

\* Every write of the CR; the informer hears of it later.
Write(bucket) == cr' = bucket /\ UNCHANGED cache

Goto(step) == pc' = step

\* Where an operation returns to the runtime.
End == IF pc \in CreatePCs THEN "created" ELSE "finish"

CanFail == faults < MaxFaults
Fails == CanFail /\ faults' = faults + 1
Works == UNCHANGED faults

\* One updateBucketCR callback.  read is the copy it starts from, new what the
\* callback makes of it, next the step after a successful patch, stop the step
\* after NotFound.  If the read fails, obj is as before; if the patch does (its
\* context may have expired), obj keeps what the callback did to it.
Callback(read, new, bump, next, stop) ==
  \/ /\ read.exists /\ Works
     /\ Write(Patched(read, new, bump)) /\ obj' = cr' /\ base' = cr'
     /\ Goto(next) /\ UNCHANGED err
  \/ /\ ~read.exists /\ Works
     /\ Goto(stop) /\ UNCHANGED <<cr, cache, obj, base, err>>
  \/ /\ Fails /\ err' = "err" /\ Goto(End) /\ UNCHANGED <<cr, cache>>
     /\ \/ UNCHANGED <<obj, base>>
        \/ read.exists /\ obj' = new /\ base' = read

\* The backends among targets for which GetS3Client returns a client: those in
\* the store, fewer if assuming the role on one of them fails.
GetS3Clients(targets) ==
  \/ Works /\ todo' = targets \cap Stored
  \/ Fails /\ todo' \in SUBSET (targets \cap Stored)

Finish(e) == err' = e /\ Goto(End)
Note(e) == err' = IF err = "none" THEN e ELSE err

---------------------------------------------------------------------------
(* The reconcile: read the CR, observe, dispatch, record Synced. *)

\* The workqueue never runs two reconciles of one CR.
StartReconcile ==
  /\ pc = "idle" /\ cache.exists
  /\ obj' = cache /\ base' = cache /\ Goto("observe")
  /\ UNCHANGED <<cr, cache, s3, store, names, todo, bb, err, landing, budget>>

\* Mutant: a CR that is not Ready counts as not created.
ObservationMutant(subresource, unreachable) ==
  LET providerNames == getBucketProvidersFilterDisabledLabel(obj, Stored)
      missing == {b \in (providerNames \cap Stored) \ unreachable : s3[b] = "none"}
  IN IF Stored = {} THEN "error"
     ELSE IF obj.backends = Nothing \/ obj.ready # "Available" THEN "notExists"
     ELSE IF AutoPause /\ obj.paused # "true" THEN "outdated"
     ELSE IF providerNames = {} THEN "error"
     ELSE IF missing # {} THEN "outdated"
     ELSE IF subresource = "NoAction" THEN "upToDate" ELSE subresource

\* external.Observe: "error", "notExists", "outdated" or "upToDate".
Observation(subresource, unreachable) ==
  LET providerNames == getBucketProvidersFilterDisabledLabel(obj, Stored)
      missing == {b \in (providerNames \cap Stored) \ unreachable : s3[b] = "none"}
  IN CASE Stored = {} -> "error"
       [] Stored # {} /\ obj.backends = Nothing ->
            IF obj.disabled /\ ~obj.deleting THEN "upToDate" ELSE "notExists"
       [] Stored # {} /\ obj.backends # Nothing ->
            IF (AutoPause /\ obj.paused # "true") \/ obj.ready # "Available" THEN "outdated"
            ELSE IF providerNames = {} THEN "error"
            ELSE IF ~isBucketAvailableFromStatus(obj, providerNames) THEN "outdated"
            ELSE IF subresource # "NoAction" THEN subresource
            ELSE IF obj.disabled \/ missing # {} THEN "outdated" ELSE "upToDate"

\* What the crossplane runtime calls next.
Dispatch(observation) ==
  IF observation = "error" THEN Finish("err")
  ELSE /\ Goto(CASE obj.deleting -> IF observation = "notExists" THEN "finalize" ELSE "delete"
                 [] ~obj.deleting /\ observation = "notExists" -> "create"
                 [] ~obj.deleting /\ observation = "outdated" -> "update"
                 [] ~obj.deleting /\ observation = "upToDate" -> "finish")
       /\ UNCHANGED err

Observe ==
  /\ pc = "observe"
  /\ \/ Works /\ Dispatch(Observation("NoAction", {}))
     \/ Works /\ HasSubresources /\ Dispatch(Observation("outdated", {}))
     \/ Fails /\ HasSubresources /\ Dispatch(Observation("error", {}))
     \/ Fails /\ \E u \in SUBSET Backends : Dispatch(Observation("NoAction", u))
  /\ UNCHANGED <<kube, s3, store, obj, base, names, todo, bb, landing, edits>>

\* The runtime records the outcome as the Synced condition, and writes the
\* whole status of obj with it, under the resource version.  After Create it
\* first writes its annotations, retrying with a new copy on a conflict, and
\* then sets Ready to Creating.  (It sets Deleting after Delete, which nothing
\* reads.)
FinishReconcile ==
  /\ pc \in {"finish", "created"} /\ Goto("idle")
  /\ LET synced == IF err = "err" THEN "Error" ELSE "Success"
         annotated == IF base = cr THEN [cr EXCEPT !.labels = obj.labels, !.paused = obj.paused]
                      ELSE cr
     IN \/ /\ pc = "finish" /\ base = cr
           /\ Write([cr EXCEPT !.backends = obj.backends, !.ready = obj.ready, !.synced = synced])
        \/ /\ pc = "created" /\ (base = cr \/ Visible(cr).exists)
           /\ Write([annotated EXCEPT !.ready = "Unavailable", !.synced = synced])
        \/ base # cr /\ UNCHANGED kube
  /\ obj' = NoBucket /\ base' = NoBucket /\ err' = "none"
  /\ names' = {} /\ todo' = {} /\ bb' = Nothing
  /\ UNCHANGED <<s3, store, landing, budget>>

\* The runtime removes the finalizer, again under the resource version.
Finalize ==
  /\ pc = "finalize"
  /\ IF base = cr THEN Write(NoBucket) /\ UNCHANGED err ELSE UNCHANGED kube /\ err' = "err"
  /\ Goto("finish")
  /\ UNCHANGED <<s3, store, obj, base, names, todo, bb, landing, budget>>

---------------------------------------------------------------------------
(* Create *)

\* The runtime's write of external-create-pending fails when obj is stale, and
\* then Create is not called.
Create ==
  /\ pc = "create"
  /\ LET targets == getBucketProvidersFilterDisabledLabel(obj, Stored) IN
     \/ base # cr /\ err' = "err" /\ Goto("finish") /\ UNCHANGED <<names, todo, faults>>
     \/ base = cr /\ obj.disabled /\ Finish("none") /\ UNCHANGED <<names, todo, faults>>
     \/ /\ base = cr /\ ~obj.disabled /\ (Stored = {} \/ targets = {})
        /\ Finish("err") /\ UNCHANGED <<names, todo, faults>>
     \/ /\ base = cr /\ ~obj.disabled /\ Stored # {} /\ targets # {}
        /\ names' = targets /\ GetS3Clients(targets)
        /\ Goto(IF todo' = {} THEN "createPause" ELSE "createWait")
        /\ UNCHANGED err
  /\ UNCHANGED <<kube, s3, store, obj, base, bb, landing, edits>>

Made(b) == [s3 EXCEPT ![b] = IF @ = "none" THEN "empty" ELSE @]
Abandon(requests) ==
  inflight' = [b \in Backends |-> IF b \in requests THEN inflight[b] + 1 ELSE inflight[b]]

\* One creation goroutine: the first to succeed is the backend that Create
\* records; the others go on and are cancelled when Create returns.
CreateOnBackend(b) ==
  /\ pc = "createWait" /\ b \in todo
  /\ \/ /\ Works /\ (s3[b] = "none" \/ ~OwnedIsError)
        /\ s3' = Made(b) /\ bb' = [bb EXCEPT ![b] = "Available"]
        /\ Abandon(todo \ {b}) /\ todo' = {} /\ Goto("createLabels")
        /\ UNCHANGED err
     \/ /\ \/ Works /\ s3[b] # "none" /\ OwnedIsError /\ UNCHANGED s3
           \/ Fails /\ s3' \in {s3, Made(b)}
        /\ err' = "err" /\ todo' = todo \ {b}
        /\ Goto(IF todo' = {} THEN "createFail" ELSE pc)
        /\ UNCHANGED <<bb, inflight>>
  /\ UNCHANGED <<kube, store, obj, base, names, late, edits>>

\* operationTimeout: every remaining turn of the wait loop takes ctx.Done(), and
\* the patch that should mark the CR Unavailable fails on the same context.
CreateTimeout ==
  /\ pc = "createWait" /\ Fails
  /\ Abandon(todo) /\ todo' = {} /\ Finish("err")
  /\ UNCHANGED <<kube, s3, store, obj, base, names, bb, late, edits>>

\* An abandoned request still takes effect, or not, in this reconcile or a later one.
LateCreate(b) ==
  /\ inflight[b] > 0 /\ inflight' = [inflight EXCEPT ![b] = @ - 1]
  /\ s3' \in {s3, Made(b)}
  /\ late' = IF pc \in {"deleteWait", "deleteStatus"} /\ s3'[b] # s3[b]
             THEN late \cup {b} ELSE late
  /\ UNCHANGED <<kube, store, pc, recon, budget>>

CreatePause ==
  /\ pc = "createPause"
  /\ LET new == [setAllBackendLabels(cache, names) EXCEPT !.paused = "true"]
     IN Callback(cache, new, FALSE, "created", "created")
  /\ UNCHANGED <<s3, store, names, todo, bb, landing, edits>>

CreateLabels ==
  /\ pc = "createLabels"
  /\ LET new == setAllBackendLabels(cache, names)
     IN Callback(cache, new, FALSE, "createStatus", "created")
  /\ UNCHANGED <<s3, store, names, todo, bb, landing, edits>>

CreateStatus ==
  /\ pc = "createStatus"
  /\ LET new == [cr EXCEPT !.ready = "Available", !.backends = bb]
     IN Callback(cr, new, FALSE, "created", "created")
  /\ UNCHANGED <<s3, store, names, todo, bb, landing, edits>>

\* Mutant: the failed CR is left with the condition Creating.
CreateFailMutant ==
  /\ pc = "createFail"
  /\ Callback(cache, [cache EXCEPT !.ready = "Creating"], FALSE, "created", "created")
  /\ UNCHANGED <<s3, store, names, todo, bb, landing, edits>>

CreateFail ==
  /\ pc = "createFail"
  /\ LET new == [cache EXCEPT !.ready = "Unavailable"]
     IN Callback(cache, new, FALSE, "created", "created")
  /\ UNCHANGED <<s3, store, names, todo, bb, landing, edits>>

---------------------------------------------------------------------------
(* Update *)

\* Mutant: Update returns for a disabled CR instead of deleting its buckets.
UpdateMutant ==
  /\ pc = "update"
  /\ LET targets == getBucketProvidersFilterDisabledLabel(obj, Stored) IN
     \/ (obj.disabled \/ targets = {}) /\ Finish("none") /\ UNCHANGED <<names, todo, bb, faults>>
     \/ /\ ~obj.disabled /\ targets # {}
        /\ names' = targets /\ GetS3Clients(targets)
        /\ bb' = [b \in Backends |-> IF b \in targets \ todo' THEN "Unavailable" ELSE "none"]
        /\ Goto(IF todo' = {} THEN "updateStatus" ELSE "updateWait")
        /\ UNCHANGED err
  /\ UNCHANGED <<kube, s3, store, obj, base, landing, edits>>

Update ==
  /\ pc = "update"
  /\ LET targets == getBucketProvidersFilterDisabledLabel(obj, Stored) IN
     \/ obj.disabled /\ Goto("delete") /\ UNCHANGED <<names, todo, bb, err, faults>>
     \/ /\ ~obj.disabled /\ (Stored = {} \/ targets = {})
        /\ Finish("err") /\ UNCHANGED <<names, todo, bb, faults>>
     \/ /\ ~obj.disabled /\ Stored # {} /\ targets # {}
        /\ names' = targets /\ GetS3Clients(targets)
        /\ bb' = [b \in Backends |-> IF b \in targets \ todo' THEN "Unavailable" ELSE "none"]
        /\ Goto(IF todo' = {} THEN "updateStatus" ELSE "updateWait")
        /\ UNCHANGED err
  /\ UNCHANGED <<kube, s3, store, obj, base, landing, edits>>

\* doUpdateOnBackend and what follows it, on a bucket that exists.
HandleSubresources(b) ==
  \/ /\ Works /\ store[b] # "Unhealthy"
     /\ bb' = [bb EXCEPT ![b] = "Available"] /\ UNCHANGED err
  \/ /\ Works /\ store[b] = "Unhealthy"
     /\ bb' = [bb EXCEPT ![b] = "Unavailable"]
     /\ IF HasSubresources THEN Note("err") ELSE UNCHANGED err
  \/ /\ Fails /\ HasSubresources
     /\ bb' = [bb EXCEPT ![b] = "Unavailable"] /\ Note("err")

\* Mutant: a failed recreation is noted, but does not end the update.
updateOnBackendMutant(b) ==
  /\ pc = "updateWait" /\ b \in todo
  /\ \/ Works /\ s3' = Made(b) /\ bb' = [bb EXCEPT ![b] = "Available"] /\ UNCHANGED err
     \/ Fails /\ s3' \in {s3, Made(b)} /\ bb' = [bb EXCEPT ![b] = "Available"] /\ Note("err")
  /\ todo' = todo \ {b}
  /\ Goto(IF todo' = {} THEN "updateStatus" ELSE pc)
  /\ UNCHANGED <<kube, store, obj, base, names, landing, edits>>

updateOnBackend(b) ==
  /\ pc = "updateWait" /\ b \in todo
  /\ \/ /\ Fails /\ bb' = [bb EXCEPT ![b] = "Unavailable"] /\ Note("err") /\ UNCHANGED s3
     \/ /\ s3[b] = "none" /\ ~RecreateMissing /\ Works
        /\ bb' = [bb EXCEPT ![b] = "none"] /\ UNCHANGED <<s3, err>>
     \/ s3[b] = "none" /\ RecreateMissing /\ s3' = Made(b) /\ HandleSubresources(b)
     \/ /\ s3[b] = "none" /\ RecreateMissing /\ Fails
        /\ s3' \in {s3, Made(b)} /\ Note("err") /\ UNCHANGED bb
     \/ s3[b] # "none" /\ UNCHANGED s3 /\ HandleSubresources(b)
  /\ todo' = todo \ {b}
  /\ Goto(IF todo' = {} THEN "updateStatus" ELSE pc)
  /\ UNCHANGED <<kube, store, obj, base, names, landing, edits>>

UpdateStatus ==
  /\ pc = "updateStatus"
  /\ \E bump \in BOOLEAN :
       Callback(cache, setBucketStatus(cache, names), bump, "updateLabels", "finish")
  /\ UNCHANGED <<s3, store, names, todo, bb, landing, edits>>

UpdateLabels ==
  /\ pc = "updateLabels"
  /\ \E configured \in BOOLEAN :
       LET paused == IF isPauseRequired(cr, names, configured) THEN "true" ELSE cr.paused
           new == setAllBackendLabels([cr EXCEPT !.paused = paused], names)
       IN Callback(cr, new, FALSE, "finish", "finish")
  /\ UNCHANGED <<s3, store, names, todo, bb, landing, edits>>

---------------------------------------------------------------------------
(* Delete, called for a deleted CR and by Update for a disabled one *)

Delete ==
  /\ pc = "delete"
  /\ IF Stored = {} THEN Finish("err") /\ UNCHANGED <<names, todo, bb>>
     ELSE /\ names' = {b \in Backends : obj.labels[b] = "true"}
          /\ todo' = {b \in names' : obj.backends[b] # "none"}
          /\ bb' = [b \in Backends |-> IF b \in todo' THEN "Deleting" ELSE "none"]
          /\ Goto(IF todo' = {} THEN "deleteStatus" ELSE "deleteWait")
          /\ UNCHANGED err
  /\ UNCHANGED <<kube, s3, store, obj, base, landing, budget>>

\* Mutant: the condition is removed although the bucket was not empty.
DeleteOnBackendMutant(b) ==
  /\ pc = "deleteWait" /\ b \in todo /\ b \in Stored /\ Works
  /\ s3' = [s3 EXCEPT ![b] = IF @ = "full" THEN @ ELSE "none"]
  /\ IF s3[b] = "full" THEN Note("notEmpty") ELSE UNCHANGED err
  /\ bb' = [bb EXCEPT ![b] = "none"] /\ todo' = todo \ {b}
  /\ Goto(IF todo' = {} THEN "deleteStatus" ELSE pc)
  /\ UNCHANGED <<kube, store, obj, base, names, landing, edits>>

\* Mutant: the condition Deleting is left behind when the bucket is gone.
DeleteOnBackendKeeps(b) ==
  /\ pc = "deleteWait" /\ b \in todo /\ Works
  /\ \/ b \in Stored /\ s3[b] # "full" /\ s3' = [s3 EXCEPT ![b] = "none"] /\ UNCHANGED err
     \/ b \in Stored /\ s3[b] = "full" /\ Note("notEmpty") /\ UNCHANGED s3
     \/ b \notin Stored /\ Note("err") /\ UNCHANGED s3
  /\ todo' = todo \ {b} /\ UNCHANGED bb
  /\ Goto(IF todo' = {} THEN "deleteStatus" ELSE pc)
  /\ UNCHANGED <<kube, store, obj, base, names, landing, edits>>

DeleteOnBackend(b) ==
  /\ pc = "deleteWait" /\ b \in todo
  /\ \/ /\ Works /\ b \in Stored /\ s3[b] # "full"
        /\ s3' = [s3 EXCEPT ![b] = "none"] /\ bb' = [bb EXCEPT ![b] = "none"]
        /\ UNCHANGED err
     \/ /\ Works /\ b \in Stored /\ s3[b] = "full"
        /\ Note("notEmpty") /\ UNCHANGED <<s3, bb>>
     \/ /\ Works /\ b \notin Stored
        /\ Note("err") /\ UNCHANGED <<s3, bb>>
     \/ /\ Fails
        /\ s3' \in {s3, [s3 EXCEPT ![b] = IF @ = "full" THEN @ ELSE "none"]}
        /\ Note("err") /\ UNCHANGED bb
  /\ todo' = todo \ {b}
  /\ Goto(IF todo' = {} THEN "deleteStatus" ELSE pc)
  /\ UNCHANGED <<kube, store, obj, base, names, landing, edits>>

\* A NotEmpty error is swallowed; if it came from a disabled CR, the flag is
\* first reset.  obj has by now been refreshed by the status update.
DeleteStatus ==
  /\ pc = "deleteStatus"
  /\ \E bump \in BOOLEAN :
       Callback(cache, setBucketStatus(cache, names), bump, "deleteUndisable", "deleteUndisable")
  /\ late' = {} /\ UNCHANGED <<s3, store, names, todo, bb, inflight, edits>>

DeleteUndisable ==
  /\ pc = "deleteUndisable"
  /\ IF err = "notEmpty" /\ obj.disabled
     THEN LET new == [cache EXCEPT !.disabled = FALSE]
          IN Callback(cache, new, FALSE, "finish", "finish")
     ELSE Goto("finish") /\ Works /\ UNCHANGED <<kube, obj, base, err>>
  /\ UNCHANGED <<s3, store, names, todo, bb, landing, edits>>

---------------------------------------------------------------------------
(* The environment *)

\* The informer catches up with the API server.
CacheSync ==
  /\ cache # Visible(cr) /\ cache' = Visible(cr)
  /\ UNCHANGED <<cr, s3, store, pc, recon, landing, budget>>

Edit(kind) == kind \in Edits /\ edits < MaxEdits /\ edits' = edits + 1

UserEdit ==
  /\ cr.exists
  /\ \/ Edit("delete") /\ Write([cr EXCEPT !.deleting = TRUE])
     \/ Edit("disable") /\ Write([cr EXCEPT !.disabled = TRUE])
     \/ Edit("enable") /\ Write([cr EXCEPT !.disabled = FALSE])
     \/ Edit("pause") /\ Write([cr EXCEPT !.paused = "true"])
     \/ Edit("unpause") /\ \E v \in {"", "false"} : Write([cr EXCEPT !.paused = v])
     \/ Edit("label") /\ \E b \in Backends, v \in {"none", "false"} :
          Write([cr EXCEPT !.labels[b] = v])
     \/ Edit("providers") /\ \E p \in SUBSET Backends : Write([cr EXCEPT !.providers = p])
  /\ UNCHANGED <<s3, store, pc, recon, landing, faults>>

\* The backend monitor stores a backend whose ProviderConfig it reconciles.
BackendAdd(b) ==
  /\ store[b] = "absent" /\ store' = [store EXCEPT ![b] = "Healthy"]
  /\ UNCHANGED <<kube, s3, pc, recon, landing, budget>>

\* Backends leave the store and change their health.
BackendChange(b) ==
  /\ store[b] # "absent"
  /\ \/ Edit("remove") /\ store' = [store EXCEPT ![b] = "absent"]
     \/ Edit("health") /\ \E h \in Healths \ {store[b]} : store' = [store EXCEPT ![b] = h]
  /\ UNCHANGED <<kube, s3, pc, recon, landing, faults>>

\* Clients of the backend fill the bucket, remove it behind the controller's
\* back, or empty it.
S3Change(b) ==
  /\ s3[b] = "empty"
  /\ \/ Edit("write") /\ s3' = [s3 EXCEPT ![b] = "full"]
     \/ Edit("lose") /\ s3' = [s3 EXCEPT ![b] = "none"]
  /\ UNCHANGED <<kube, store, pc, recon, landing, faults>>

S3Empty(b) ==
  /\ s3[b] = "full" /\ s3' = [s3 EXCEPT ![b] = "empty"]
  /\ UNCHANGED <<kube, store, pc, recon, landing, budget>>

\* The process dies and starts again with an empty backend store.
Crash ==
  /\ pc # "idle" /\ Fails
  /\ IF pc = "createWait" THEN Abandon(todo) ELSE UNCHANGED inflight
  /\ store' = [b \in Backends |-> "absent"]
  /\ cache' = Visible(cr) /\ Goto("idle")
  /\ obj' = NoBucket /\ base' = NoBucket /\ err' = "none"
  /\ names' = {} /\ todo' = {} /\ bb' = Nothing /\ late' = {}
  /\ UNCHANGED <<cr, s3, edits>>

---------------------------------------------------------------------------
Init ==
  /\ cr = NewBucket /\ cache = NewBucket
  /\ s3 = Nothing /\ store = [b \in Backends |-> "absent"]
  /\ pc = "idle" /\ obj = NoBucket /\ base = NoBucket /\ names = {} /\ todo = {} /\ bb = Nothing
  /\ err = "none" /\ inflight = [b \in Backends |-> 0] /\ late = {} /\ edits = 0 /\ faults = 0

CreateStep == \/ Create \/ CreateTimeout \/ CreatePause
              \/ CreateLabels \/ CreateStatus \/ CreateFail
              \/ \E b \in Backends : CreateOnBackend(b)
UpdateStep == \/ Update \/ UpdateStatus \/ UpdateLabels
              \/ \E b \in Backends : updateOnBackend(b)
DeleteStep == \/ Delete \/ DeleteStatus \/ DeleteUndisable
              \/ \E b \in Backends : DeleteOnBackend(b)
ReconcileStep == \/ StartReconcile \/ Observe \/ FinishReconcile \/ Finalize
                 \/ CreateStep \/ UpdateStep \/ DeleteStep
Environment == \/ CacheSync \/ UserEdit \/ Crash
               \/ \E b \in Backends :
                    LateCreate(b) \/ BackendAdd(b) \/ BackendChange(b)
                    \/ S3Change(b) \/ S3Empty(b)

Next == ReconcileStep \/ Environment

Spec == Init /\ [][Next]_vars

\* The workqueue keeps reconciling a CR that the cache holds, watches deliver,
\* requests end, the monitor stores every ProviderConfig, users empty buckets
\* (one condition for the last three: each happens finitely often).
Fairness ==
  /\ WF_vars(ReconcileStep) /\ WF_vars(CacheSync)
  /\ WF_vars(\E b \in Backends : LateCreate(b) \/ BackendAdd(b) \/ S3Empty(b))

FairSpec == Spec /\ Fairness

---------------------------------------------------------------------------
(* Properties *)

\* Auto-pause ends reconciliation of the CR, so what is missing then stays
\* missing: when Update sets the pause label, the bucket exists on every backend
\* of the list that it computed when it began (backendsToUpdateOnNames), a backend
\* that dropped out of the store or failed on the way included.  Of backends the
\* CR has come to want since, see PausedIsComplete below.
PauseOnlyWhenComplete ==
  [][ pc = "updateLabels" /\ pc' = "finish" /\ cr.paused # "true" /\ cr'.paused = "true"
      => \A b \in names : s3[b] # "none" ]_vars

\* Delete rewrites the whole of Status.Backends, and a backend that is gone
\* from it is never visited again.  An entry disappears only if the bucket is gone
\* from the backend (or was made again by a CreateBucket request that an earlier
\* Create abandoned), or if the copy of the CR that the reconcile read from the
\* cache had no such entry yet, or not the label "true".  So a backend that the
\* reconcile knew of is never forgotten while it holds the bucket, whatever the
\* cache, the store and the other backends did meanwhile.
DeleteForgetsOnlyDeleted ==
  [][ pc = "deleteStatus" =>
        \A b \in Backends : cr.backends[b] # "none" /\ cr'.backends[b] = "none"
           => \/ s3[b] = "none" \/ b \in late
              \/ obj.labels[b] # "true" \/ obj.backends[b] = "none" ]_vars

\* Create replaces Status.Backends by the one backend it was fastest on: it
\* never does so over entries of an earlier operation, which Delete needs.
CreateNeverClobbers ==
  [][ pc = "createStatus" /\ cr'.backends # cr.backends => cr.backends = Nothing ]_vars

\* Conditions travel through goroutines, copies of the CR, merge patches of stale
\* copies and the runtime's own write of the status, past failures and crashes:
\* whoever writes that the bucket is Available on a backend, it is there.
RecordsWhatExists ==
  [][ \A b \in Backends : cr.backends[b] # "Available" /\ cr'.backends[b] = "Available"
        => s3[b] # "none" ]_vars

\* A goroutine creates a bucket only where the CR wants one, and deletes one
\* only on a backend labelled "true" of a CR that is deleted or disabled.
S3ChangesAreAsked ==
  [][ \A b \in todo \ todo' : s3'[b] # s3[b] =>
        IF s3[b] = "none"
        THEN ~obj.disabled /\ obj.labels[b] # "false"
             /\ (obj.providers = {} \/ b \in obj.providers)
        ELSE (obj.deleting \/ obj.disabled) /\ obj.labels[b] = "true" ]_vars

\* A CR that stays enabled and unpaused ends up available on every stored
\* backend it is meant for, whatever failed on the way.
Wanted == cr.exists /\ ~cr.deleting /\ ~cr.disabled /\ cr.paused # "true"
EventuallyAvailable ==
  <>[](Wanted => /\ cr.ready = "Available"
                 /\ \A b \in getBucketProvidersFilterDisabledLabel(cr, Stored) :
                      cr.backends[b] = "Available" /\ s3[b] # "none")

\* A deleted CR goes away once its buckets are empty, unless it is paused.
EventuallyGone == <>[](cr.deleting => cr.paused = "true")

\* A CR that stays disabled loses its recorded buckets, and a CR that cannot
\* (a bucket is not empty) does not stay disabled.
EventuallyCleared ==
  <>[](cr.exists /\ cr.disabled /\ cr.paused # "true" => cr.backends = Nothing)

---------------------------------------------------------------------------
(* What comments and docs of the repository say and the code does not *)

\* Disabling a CR removes its buckets from all backends (Update, Delete).
DisabledRemovesAll == <>[](cr.exists /\ cr.disabled => s3 = Nothing)

\* A CR is paused once its bucket is on the relevant backends (docs/AUTOPAUSE.md):
\* when Update pauses it, the bucket exists on every backend that Spec.Providers
\* of the CR it pauses names and that no label excludes.
PausedIsComplete ==
  [][ pc = "updateLabels" /\ pc' = "finish" /\ cr.paused # "true" /\ cr'.paused = "true"
      => \A b \in cr.providers : cr.labels[b] # "false" => s3[b] # "none" ]_vars
=============================================================================
