---------------------------- MODULE Subresources ----------------------------
(***************************************************************************)
(* The subresource clients of the Bucket controller (lifecycle             *)
(* configuration, ACL, policy, versioning, object lock): Observe asks each *)
(* client whether a backend differs from Bucket.Spec, Update has each      *)
(* client handle each backend, and the conditions they leave behind decide *)
(* whether the Bucket CR is paused.  The buckets themselves exist          *)
(* throughout; BucketReconcile is about them.                              *)
(***************************************************************************)
EXTENDS Naturals, Sequences

CONSTANTS
  Backends,    \* S3 backends of the Bucket, all in the backend store
  Clients,     \* subresourceClients, in the order NewSubresourceClients gives them
  Configs,     \* contents of a lifecycle configuration, an ACL or a policy
  MaxEdits,    \* how often the user changes the spec
  MaxFlips,    \* how often the health of a backend changes
  MaxFaults    \* how many calls fail

Kinds == {"lifecycle", "acl", "policy", "versioning", "objectlock"}
Plain == {"lifecycle", "acl", "policy"}

ASSUME ClientsAssumption == Clients \in Seq(Kinds)
ASSUME ConfigsAssumption ==
  Configs \cap {"none", "off", "enabled", "suspended", "locked"} = {}
ASSUME BoundsAssumption == {MaxEdits, MaxFlips, MaxFaults} \subseteq Nat

VARIABLES
  spec,    \* what the Bucket CR asks for, per kind
  auto,    \* auto-pause applies to it
  lock,    \* Spec.ForProvider.ObjectLockEnabledForBucket
  available, \* its status has the bucket Available on every backend, so it is Ready and Synced
  paused,  \* its pause label
  ext,     \* what each backend has, per kind
  healthy, \* backends that are not Unhealthy in the backend store
  pc,      \* step of the reconcile
  obj,     \* the spec the reconcile has read
  at,      \* index of the client that Observe or Update is at, per backend
  ignored, \* where Observe found a backend Unhealthy: backend and index of the client
  conds,   \* bucketBackends: condition per kind and backend, or "none"
  bb,      \* bucketBackends: condition of the bucket itself
  edits, flips, faults

vars == <<spec, auto, lock, paused, available, ext, healthy, pc, obj, at, ignored,
          conds, bb, edits, flips, faults>>
config == <<auto, lock>>
budget == <<edits, flips, faults>>

\* off: LifecycleConfigurationDisabled.  The default of an object lock
\* configuration, and of versioning under object lock, is "enabled"; S3 refuses
\* to suspend versioning under object lock.
Wants(k) ==
  CASE k = "lifecycle"  -> Configs \cup {"none", "off"}
    [] k \in {"acl", "policy"} -> Configs \cup {"none"}
    [] k = "versioning" -> {"none", "enabled"} \cup (IF lock THEN {} ELSE {"suspended"})
    [] k = "objectlock" -> IF lock THEN {"none", "locked"} ELSE {"none"}
Wanted == Configs \cup {"none", "off", "enabled", "suspended", "locked"}
Haves == Configs \cup {"none", "enabled", "suspended", "locked"}
Conditions == {"none", "Available", "Unavailable", "Deleting"}
Nothing == [b \in Backends |-> "none"]
NoSpec == [k \in Kinds |-> "none"]
NoConditions == [k \in Kinds |-> Nothing]

TypeOK ==
  /\ spec \in [Kinds -> Wanted] /\ \A k \in Kinds : spec[k] \in Wants(k)
  /\ obj \in [Kinds -> Wanted] /\ \A k \in Kinds : obj[k] \in Wants(k)
  /\ auto \in BOOLEAN /\ lock \in BOOLEAN /\ available \in BOOLEAN /\ paused \in {"", "true"}
  /\ ext \in [Kinds -> [Backends -> Haves]] /\ healthy \subseteq Backends
  /\ pc \in {"idle", "observe", "update", "labels"}
  /\ at \in [Backends -> 0..(Len(Clients) + 1)] /\ ignored \subseteq Backends \X DOMAIN Clients
  /\ conds \in [Kinds -> [Backends -> Conditions]] /\ bb \in [Backends -> Conditions]
  /\ edits \in 0..MaxEdits /\ flips \in 0..MaxFlips /\ faults \in 0..MaxFaults

Fails == faults < MaxFaults /\ faults' = faults + 1
Works == UNCHANGED faults

---------------------------------------------------------------------------
(* observeBackend of each client, on what the spec wants and a backend has. *)

\* Mutant: LifecycleConfigurationDisabled is not looked at.
lifecycleStatusMutant(want, have) ==
  CASE want = "none" -> IF have = "none" THEN "NoAction" ELSE "NeedsDeletion"
    [] want # "none" -> IF have = want THEN "Updated" ELSE "NeedsUpdate"

lifecycleStatus(want, have) ==
  CASE want \in {"none", "off"} -> IF have = "none" THEN "NoAction" ELSE "NeedsDeletion"
    [] want \notin {"none", "off"} -> IF have = want THEN "Updated" ELSE "NeedsUpdate"

\* The ACL of a backend is never read: one that is asked for is always written.
aclStatus(want) == IF want = "none" THEN "Updated" ELSE "NeedsUpdate"

policyStatus(want, have) ==
  CASE want = have -> "Updated"
    [] want = "none" /\ have # "none" -> "NeedsDeletion"
    [] want # "none" /\ have # want -> "NeedsUpdate"

\* Mutant: versioning that is no longer asked for is left alone.
versioningStatusMutant(want, have) ==
  CASE want = "none" /\ ~lock -> "NoAction"
    [] want = "none" /\ lock -> "NeedsUpdate"
    [] want # "none" -> IF have = want THEN "Updated" ELSE "NeedsUpdate"

\* Versioning that is suspended is not empty, so it is suspended again.  Under
\* object lock a missing configuration equals nothing that a backend may have.
versioningStatus(want, have) ==
  CASE want = "none" /\ ~lock -> IF have = "none" THEN "NoAction" ELSE "NeedsDeletion"
    [] want = "none" /\ lock -> "NeedsUpdate"
    [] want # "none" -> IF have = want THEN "Updated" ELSE "NeedsUpdate"

objectlockStatus(want, have) ==
  IF want # "none" /\ have = want THEN "Updated" ELSE "NeedsUpdate"

observeBackend(k, want, have) ==
  CASE k = "lifecycle"  -> lifecycleStatus(want, have)
    [] k = "acl"        -> aclStatus(want)
    [] k = "policy"     -> policyStatus(want, have)
    [] k = "versioning" -> versioningStatus(want, have)
    [] k = "objectlock" -> objectlockStatus(want, have)

\* The object lock client does nothing for a bucket without object lock.
Skips(k) == k = "objectlock" /\ ~lock

\* What a backend has after Handle has deleted, or created or updated.
Deleted(k) == IF k = "versioning" THEN "suspended" ELSE "none"
Written(k, want) ==
  IF want = "none" /\ k \in {"versioning", "objectlock"} THEN "enabled" ELSE want

---------------------------------------------------------------------------
(* The reconcile *)

\* Everything that happens to spec from here on may also have happened before
\* and not have reached the informer.  A CR that auto-pause applies to, or whose
\* status is not Available, needs an update anyway.
StartReconcile ==
  /\ pc = "idle" /\ paused # "true"
  /\ pc' = IF auto \/ ~available THEN "update" ELSE "observe"
  /\ obj' = spec /\ at' = [b \in Backends |-> 1]
  /\ UNCHANGED <<spec, config, paused, available, ext, healthy, ignored, conds, bb, budget>>

\* The reconcile ends, and what it has read and collected is gone.
End ==
  /\ pc' = "idle" /\ obj' = NoSpec /\ at' = [b \in Backends |-> 0] /\ ignored' = {}
  /\ conds' = NoConditions /\ bb' = Nothing

\* Mutant: an answer that asks for a deletion is passed over.
AsksMutant(status) == status = "NeedsUpdate"

Asks(status) == status \in {"NeedsUpdate", "NeedsDeletion"}

\* One goroutine of a client's Observe: it looks up the health of its backend,
\* ignores one that is Unhealthy, and asks the backend otherwise.  The first
\* answer that asks for something, or the first error, ends Observe; the next
\* client starts when all have answered.  The ACL client has no error to report.
ObserveOn(b) ==
  /\ pc = "observe" /\ at[b] \in DOMAIN Clients /\ \A c \in Backends : at[c] >= at[b]
  /\ LET k == Clients[at[b]]
         asks == Asks(observeBackend(k, obj[k], ext[k][b]))
         next == [at EXCEPT ![b] = @ + 1]
     IN \/ /\ Skips(k) \/ (b \in healthy /\ ~asks)
           /\ at' = next /\ Works /\ UNCHANGED <<pc, obj, ignored, conds, bb>>
        \/ /\ ~Skips(k) /\ b \notin healthy
           /\ at' = next /\ ignored' = ignored \cup {<<b, at[b]>>}
           /\ Works /\ UNCHANGED <<pc, obj, conds, bb>>
        \/ /\ ~Skips(k) /\ b \in healthy /\ asks
           /\ pc' = "update" /\ at' = [c \in Backends |-> 1] /\ ignored' = {}
           /\ Works /\ UNCHANGED <<obj, conds, bb>>
        \/ ~Skips(k) /\ k # "acl" /\ Fails /\ End
  /\ UNCHANGED <<spec, config, paused, available, ext, healthy, edits, flips>>

\* Every client has answered, and none asks for anything.
UpToDate ==
  /\ pc = "observe" /\ \A b \in Backends : at[b] = Len(Clients) + 1
  /\ End /\ UNCHANGED <<spec, config, paused, available, ext, healthy, budget>>

SetCondition(k, b, c) ==
  conds' = IF k \in {"lifecycle", "versioning", "objectlock"}
           THEN [conds EXCEPT ![k][b] = c] ELSE conds

\* Mutant: doUpdateOnBackend goes on with the next client after an error.
StopMutant(b) == at' = [at EXCEPT ![b] = @ + 1] /\ UNCHANGED bb

\* A goroutine of updateOnAllBackends that ends with an error.
Stop(b) ==
  /\ at' = [at EXCEPT ![b] = 0] /\ bb' = [bb EXCEPT ![b] = "Unavailable"]

Advance(b) == at' = [at EXCEPT ![b] = @ + 1] /\ UNCHANGED bb

\* Handle of client k on backend b: without object lock its client does nothing;
\* an Unhealthy backend is an error, and so is an observation that fails.
HandleSubresource(k, b, status) ==
  LET new == IF status = "NeedsDeletion" THEN Deleted(k) ELSE Written(k, obj[k])
      bad == IF status = "NeedsDeletion" /\ k = "lifecycle" THEN "Deleting" ELSE "Unavailable"
  IN \/ Skips(k) /\ Advance(b) /\ Works /\ UNCHANGED <<ext, conds>>
     \/ ~Skips(k) /\ b \notin healthy /\ Stop(b) /\ Works /\ UNCHANGED <<ext, conds>>
     \/ ~Skips(k) /\ b \in healthy /\ Stop(b) /\ Fails /\ UNCHANGED <<ext, conds>>
     \/ /\ ~Skips(k) /\ b \in healthy /\ status \in {"NoAction", "Updated"}
        /\ Advance(b) /\ Works /\ UNCHANGED ext
        /\ IF status = "Updated" THEN SetCondition(k, b, "Available") ELSE UNCHANGED conds
     \/ /\ ~Skips(k) /\ b \in healthy /\ status \in {"NeedsUpdate", "NeedsDeletion"}
        /\ \/ /\ Works /\ Advance(b) /\ ext' = [ext EXCEPT ![k][b] = new]
              /\ SetCondition(k, b, IF new = "none" THEN "none" ELSE "Available")
           \/ /\ Fails /\ Stop(b) /\ ext' \in {ext, [ext EXCEPT ![k][b] = new]}
              /\ SetCondition(k, b, bad)

\* doUpdateOnBackend: the goroutine of b calls the next client.
Handle(b) ==
  /\ pc = "update" /\ at[b] \in DOMAIN Clients
  /\ LET k == Clients[at[b]]
     IN HandleSubresource(k, b, observeBackend(k, obj[k], ext[k][b]))
  /\ UNCHANGED <<spec, config, paused, available, healthy, pc, obj, ignored, edits, flips>>

\* doUpdateOnBackend has returned nil, and the health is looked up.
updateOnBackend(b) ==
  /\ pc = "update" /\ at[b] = Len(Clients) + 1
  /\ at' = [at EXCEPT ![b] = 0]
  /\ bb' = [bb EXCEPT ![b] = IF b \in healthy THEN "Available" ELSE "Unavailable"]
  /\ UNCHANGED <<spec, config, paused, available, ext, healthy, pc, obj, ignored, conds, budget>>

\* The first callback of Update, with setBucketStatus, writes the status or fails.
UpdateStatus ==
  /\ pc = "update" /\ \A b \in Backends : at[b] = 0
  /\ \/ /\ Works /\ pc' = "labels" /\ UNCHANGED <<obj, at, ignored, conds, bb>>
        /\ available' = \A b \in Backends : bb[b] = "Available"
     \/ Fails /\ End /\ UNCHANGED available
  /\ UNCHANGED <<spec, config, paused, ext, healthy, edits, flips>>

AvailableOnBackends(k) == \A b \in Backends : conds[k][b] = "Available"
RemovedFromBackends(k) == \A b \in Backends : conds[k][b] = "none"

isPauseRequired(want) ==
  /\ available /\ \A b \in Backends : bb[b] = "Available"
  /\ want["lifecycle"] \notin {"none", "off"} => AvailableOnBackends("lifecycle")
  /\ want["lifecycle"] = "off" => RemovedFromBackends("lifecycle")
  /\ want["versioning"] # "none" => AvailableOnBackends("versioning")
  /\ RemovedFromBackends("versioning") \/ AvailableOnBackends("versioning")
  /\ want["objectlock"] # "none" => AvailableOnBackends("objectlock")
  /\ auto /\ paused = ""

\* The second callback reads the CR from the API server, with the newest spec.
UpdateLabels ==
  /\ pc = "labels" /\ End
  /\ \/ Works /\ paused' = IF isPauseRequired(spec) THEN "true" ELSE paused
     \/ Fails /\ UNCHANGED paused
  /\ UNCHANGED <<spec, config, available, ext, healthy, edits, flips>>

---------------------------------------------------------------------------
(* The environment *)

\* The user changes one subresource and un-pauses the CR, as docs/AUTOPAUSE.md
\* tells.
UserEdit ==
  /\ edits < MaxEdits /\ edits' = edits + 1
  /\ \E k \in Kinds : \E want \in Wants(k) \ {spec[k]} : spec' = [spec EXCEPT ![k] = want]
  /\ paused' = ""
  /\ UNCHANGED <<config, available, ext, healthy, pc, obj, at, ignored, conds, bb, flips, faults>>

HealthChange(b) ==
  /\ flips < MaxFlips /\ flips' = flips + 1
  /\ healthy' = IF b \in healthy THEN healthy \ {b} ELSE healthy \cup {b}
  /\ UNCHANGED <<spec, config, paused, available, ext, pc, obj, at, ignored, conds, bb, edits, faults>>

---------------------------------------------------------------------------
\* A bucket created with object lock has versioning and a default configuration.
Init ==
  /\ spec = NoSpec /\ obj = NoSpec
  /\ auto \in BOOLEAN /\ lock \in BOOLEAN /\ paused = "" /\ available = FALSE
  /\ ext = [k \in Kinds |-> [b \in Backends |->
              IF lock /\ k \in {"versioning", "objectlock"} THEN "enabled" ELSE "none"]]
  /\ healthy = Backends /\ pc = "idle"
  /\ at = [b \in Backends |-> 0] /\ ignored = {} /\ bb = Nothing /\ conds = NoConditions
  /\ edits = 0 /\ flips = 0 /\ faults = 0

Reconcile == \/ StartReconcile \/ UpToDate \/ UpdateStatus \/ UpdateLabels
             \/ \E b \in Backends : ObserveOn(b) \/ Handle(b) \/ updateOnBackend(b)

Next == Reconcile \/ UserEdit \/ \E b \in Backends : HealthChange(b)

Spec == Init /\ [][Next]_vars

\* The workqueue keeps reconciling a CR that is not paused, and goroutines run.
FairSpec == Spec /\ WF_vars(Reconcile)

---------------------------------------------------------------------------
(* Properties *)

\* A backend has what the spec asks of one subresource.  Without a specification,
\* versioning may be suspended, an ACL stays, and object lock has its default.
Applied(k, want, have) ==
  CASE k \in {"lifecycle", "policy"} -> have = IF want = "off" THEN "none" ELSE want
    [] k = "acl" -> want \in {"none", have}
    [] k = "versioning" /\ want = "none" ->
         IF lock THEN have = "enabled" ELSE have \in {"none", "suspended"}
    [] k = "objectlock" /\ want = "none" -> lock => have = "enabled"
    [] k \in {"versioning", "objectlock"} /\ want # "none" -> have = want

AppliedOn(b, want) ==
  \A n \in DOMAIN Clients : Applied(Clients[n], want[Clients[n]], ext[Clients[n]][b])

\* A paused CR is not reconciled again, and policy and ACL have no condition of
\* their own: when Update pauses a CR, every subresource it handled is applied
\* on every backend.
PauseOnlyWhenApplied ==
  [][ pc = "labels" /\ paused # "true" /\ paused' = "true"
      => \A b \in Backends : AppliedOn(b, obj) ]_vars

\* Each client looks at each backend, and at its health, at a time of its own.
\* Observe takes a CR for up to date only if every backend has what the CR asked
\* for of every subresource whose client did not find that backend Unhealthy, also
\* where the backend was Unhealthy for another client or has become so since.
UpToDateIsApplied ==
  [][ pc = "observe" /\ pc' = "idle" /\ UNCHANGED faults
      => \A b \in Backends, n \in DOMAIN Clients : <<b, n>> \notin ignored
           => Applied(Clients[n], obj[Clients[n]], ext[Clients[n]][b]) ]_vars

\* Once edits, failures and changes of health end, a CR that is not paused has
\* every subresource applied on every healthy backend, through any failure.
EventuallyApplied ==
  <>[](paused = "" => \A b \in healthy : AppliedOn(b, spec))
=============================================================================
