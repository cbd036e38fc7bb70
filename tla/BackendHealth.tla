--------------------------- MODULE BackendHealth ---------------------------
(***************************************************************************)
(* One S3 backend as the two ProviderConfig controllers see it.  The       *)
(* backend monitor copies the ProviderConfig into the backend store; the   *)
(* health check probes the endpoint, writes the health into the store and  *)
(* the Ready condition into the ProviderConfig, and on recovery starts a   *)
(* goroutine that un-pauses the Bucket CRs labelled with the backend       *)
(* (src/internal/controller/providerconfig, src/internal/backendstore).    *)
(***************************************************************************)
EXTENDS Naturals, FiniteSets

CONSTANTS
  Buckets,    \* Bucket CRs
  Unpausers,  \* identities of unpauseBuckets goroutines; bounds how many run at once
  AutoPause,  \* --auto-pause-bucket, or Spec.AutoPause
  MaxFlips,   \* how often the endpoint goes down or comes up
  MaxEdits,   \* how often the user edits or deletes the ProviderConfig
  MaxPauses,  \* how often the bucket controller pauses a Bucket CR
  MaxTouches, \* how often somebody else writes one
  MaxFaults   \* how many Kubernetes API or cleanup calls fail

ASSUME HealthAssumption ==
  /\ AutoPause \in BOOLEAN
  /\ {MaxFlips, MaxEdits, MaxPauses, MaxTouches, MaxFaults} \subseteq Nat

VARIABLES
  config,   \* the ProviderConfig in the API server
  cached,   \* the informer's copy of it
  up,       \* the endpoint answers
  store,    \* health in the backend store, or "absent"
  mon,      \* the backend monitor's reconcile
  hc,       \* the health check's reconcile
  unp,      \* the unpauseBuckets goroutines
  bucket,   \* pause label and backend label of each Bucket CR
  flips, edits, pauses, touches, faults

vars == <<config, cached, up, store, mon, hc, unp, bucket, flips, edits, pauses, touches, faults>>
budgets == <<flips, edits, pauses, touches, faults>>

\* Ready condition: Fail carries no message, FailMsg does.
Conds == {"none", "Success", "Fail", "FailMsg", "Disabled"}
Configs == [exists : BOOLEAN, off : BOOLEAN, cond : Conds]
NewConfig == [exists |-> TRUE, off |-> FALSE, cond |-> "none"]
NoConfig == [NewConfig EXCEPT !.exists = FALSE]

TypeOK ==
  /\ config \in Configs /\ cached \in Configs /\ up \in BOOLEAN
  /\ store \in {"absent", "Healthy", "Unhealthy", "Unknown"}
  /\ mon \in [pc : {"idle", "add", "cleanup", "remove"}, read : Conds]
  /\ hc \in [pc : {"idle", "check", "store", "status"}, before : Conds, after : Conds]
  /\ unp \in [Unpausers -> [pc : {"idle", "list", "items"}, items : SUBSET Buckets,
                            fresh : SUBSET Buckets]]
  /\ bucket \in [Buckets -> [paused : {"", "true"}, label : BOOLEAN]]
  /\ flips \in 0..MaxFlips /\ edits \in 0..MaxEdits
  /\ pauses \in 0..MaxPauses /\ touches \in 0..MaxTouches /\ faults \in 0..MaxFaults

\* Mutant: without a default, the health is the zero value.
MapConditionToHealthStatusMutant(cond) ==
  CASE cond = "Success" -> "Healthy"
    [] cond = "Fail" -> "Unhealthy"
    [] cond \notin {"Success", "Fail"} -> ""

\* Condition.Equal compares messages too, so a failure with a message is Unknown.
MapConditionToHealthStatus(cond) ==
  CASE cond = "Success" -> "Healthy"
    [] cond = "Fail" -> "Unhealthy"
    [] cond \notin {"Success", "Fail"} -> "Unknown"

SetBackendHealthStatus(health) == store' = IF store = "absent" THEN store ELSE health

Fails == faults < MaxFaults /\ faults' = faults + 1

NoCheck == [pc |-> "idle", before |-> "none", after |-> "none"]
Idle == [pc |-> "idle", items |-> {}, fresh |-> {}]
\* A goroutine with these Buckets still to un-pause ends when there are none.
Items(items, fresh) ==
  IF items = {} THEN Idle ELSE [pc |-> "items", items |-> items, fresh |-> fresh \cap items]

---------------------------------------------------------------------------
(* Backend monitor *)

\* Mutant: a ProviderConfig that is not found is ignored.
MonitorGetMutant ==
  /\ mon.pc = "idle" /\ cached.exists
  /\ mon' = [pc |-> "add", read |-> cached.cond]
  /\ UNCHANGED <<config, cached, up, store, hc, unp, bucket, budgets>>

MonitorGet ==
  /\ mon.pc = "idle"
  /\ mon' = [pc |-> IF cached.exists THEN "add" ELSE "cleanup", read |-> cached.cond]
  /\ cached.exists \/ store # "absent"
  /\ UNCHANGED <<config, cached, up, store, hc, unp, bucket, budgets>>

\* Mutant: a backend is always stored with the health Unknown.
MonitorAddMutant ==
  /\ mon.pc = "add" /\ store' = "Unknown" /\ mon' = [pc |-> "idle", read |-> "none"]
  /\ UNCHANGED <<config, cached, up, hc, unp, bucket, budgets>>

\* Reading the Secret or building a client fails, or the backend is stored with
\* the health of the ProviderConfig as it was read.
MonitorAdd ==
  /\ mon.pc = "add"
  /\ \/ store' = MapConditionToHealthStatus(mon.read) /\ UNCHANGED faults
     \/ Fails /\ UNCHANGED store
  /\ mon' = [pc |-> "idle", read |-> "none"]
  /\ UNCHANGED <<config, cached, up, hc, unp, bucket, flips, edits, pauses, touches>>

\* Deleting the validation bucket; a failure is retried from the start.
MonitorCleanup ==
  /\ mon.pc = "cleanup"
  /\ \/ mon' = [mon EXCEPT !.pc = "remove"] /\ UNCHANGED faults
     \/ Fails /\ store # "absent" /\ mon' = [pc |-> "idle", read |-> "none"]
  /\ UNCHANGED <<config, cached, up, store, hc, unp, bucket, flips, edits, pauses, touches>>

MonitorRemove ==
  /\ mon.pc = "remove" /\ store' = "absent" /\ mon' = [pc |-> "idle", read |-> "none"]
  /\ UNCHANGED <<config, cached, up, hc, unp, bucket, budgets>>

---------------------------------------------------------------------------
(* Health check *)

HealthGet ==
  /\ hc.pc = "idle" /\ cached.exists
  /\ IF cached.off
     THEN /\ SetBackendHealthStatus("Unknown")
          /\ hc' = IF cached.cond = "Disabled" THEN hc
                   ELSE [pc |-> "status", before |-> cached.cond, after |-> "Disabled"]
     ELSE /\ hc' = [pc |-> "check", before |-> cached.cond, after |-> "Fail"]
          /\ UNCHANGED store
  /\ UNCHANGED <<config, cached, up, mon, unp, bucket, budgets>>

\* Mutant: recovery is recognised only from a failure without a message.
HealthCheckMutant ==
  /\ hc.pc = "check"
  /\ hc' = [hc EXCEPT !.pc = "store", !.after = IF up THEN "Success" ELSE "FailMsg"]
  /\ IF up /\ hc.before = "Fail"
     THEN \E g \in Unpausers : unp[g].pc = "idle" /\ unp' = [unp EXCEPT ![g].pc = "list"]
     ELSE UNCHANGED unp
  /\ UNCHANGED <<config, cached, up, store, mon, bucket, budgets>>

\* Mutant: un-pausing starts before the outcome of the check is looked at.
HealthCheckEarlyMutant ==
  /\ hc.pc = "check"
  /\ hc' = [hc EXCEPT !.pc = "store", !.after = IF up THEN "Success" ELSE "FailMsg"]
  /\ IF hc.before # "Success"
     THEN \E g \in Unpausers : unp[g].pc = "idle" /\ unp' = [unp EXCEPT ![g].pc = "list"]
     ELSE UNCHANGED unp
  /\ UNCHANGED <<config, cached, up, store, mon, bucket, budgets>>

\* doHealthCheck; recovery starts unpauseBuckets beside the reconcile.
HealthCheck ==
  /\ hc.pc = "check"
  /\ hc' = [hc EXCEPT !.pc = "store", !.after = IF up THEN "Success" ELSE "FailMsg"]
  /\ IF up /\ hc.before # "Success"
     THEN \E g \in Unpausers : unp[g].pc = "idle" /\ unp' = [unp EXCEPT ![g].pc = "list"]
     ELSE UNCHANGED unp
  /\ UNCHANGED <<config, cached, up, store, mon, bucket, budgets>>

\* The deferred function: the store first, then the ProviderConfig if it changed.
HealthStore ==
  /\ hc.pc = "store"
  /\ SetBackendHealthStatus(MapConditionToHealthStatus(hc.after))
  /\ hc' = IF hc.after = hc.before THEN NoCheck ELSE [hc EXCEPT !.pc = "status"]
  /\ UNCHANGED <<config, cached, up, mon, unp, bucket, budgets>>

\* Mutant: the condition is set on a copy and never written.
HealthStatusMutant ==
  /\ hc.pc = "status" /\ hc' = NoCheck
  /\ UNCHANGED <<config, cached, up, store, mon, unp, bucket, budgets>>

\* UpdateProviderConfigStatus: Get from the cache, Update under the resource
\* version.  A stale copy conflicts and is retried; after the last retry the
\* error is dropped.
HealthStatus ==
  /\ hc.pc = "status"
  /\ \/ /\ cached = config /\ config.exists /\ config' = [config EXCEPT !.cond = hc.after]
        /\ UNCHANGED faults
     \/ ~cached.exists /\ UNCHANGED <<config, faults>>
     \/ cached.exists /\ cached # config /\ UNCHANGED <<config, faults>>
     \/ Fails /\ UNCHANGED config
  /\ hc' = NoCheck
  /\ UNCHANGED <<cached, up, store, mon, unp, bucket, flips, edits, pauses, touches>>

---------------------------------------------------------------------------
(* unpauseBuckets *)

\* An uncached List by backend label and pause label, retried, then given up.
UnpauseList(g) ==
  /\ unp[g].pc = "list"
  /\ LET listed == {b \in Buckets : bucket[b].label /\ bucket[b].paused = "true"} IN
     \/ unp' = [unp EXCEPT ![g] = Items(listed, listed)] /\ UNCHANGED faults
     \/ Fails /\ unp' = [unp EXCEPT ![g] = Idle]
  /\ UNCHANGED <<config, cached, up, store, mon, hc, bucket, flips, edits, pauses, touches>>

\* A write of Bucket b makes every listed copy of it stale.
WriteBucket(b, value, u) ==
  /\ bucket' = [bucket EXCEPT ![b] = value]
  /\ unp' = [g \in Unpausers |-> [u[g] EXCEPT !.fresh = @ \ {b}]]

\* One listed Bucket.  The closure given to retry.OnError clears the label of
\* the listed copy and then updates; if the update fails, the retry finds the
\* label cleared and returns nil.
UnpauseItem(g, b) ==
  /\ unp[g].pc = "items" /\ b \in unp[g].items
  /\ LET rest == [unp EXCEPT ![g] = Items(@.items \ {b}, @.fresh)] IN
     \/ AutoPause /\ b \in unp[g].fresh /\ UNCHANGED faults
        /\ WriteBucket(b, [bucket[b] EXCEPT !.paused = ""], rest)
     \/ (~AutoPause \/ b \notin unp[g].fresh) /\ unp' = rest /\ UNCHANGED <<bucket, faults>>
     \/ Fails /\ unp' = rest /\ UNCHANGED bucket
  /\ UNCHANGED <<config, cached, up, store, mon, hc, flips, edits, pauses, touches>>

---------------------------------------------------------------------------
(* The environment *)

CacheSync ==
  /\ cached # config /\ cached' = config
  /\ UNCHANGED <<config, up, store, mon, hc, unp, bucket, budgets>>

Flip ==
  /\ flips < MaxFlips /\ flips' = flips + 1 /\ up' = ~up
  /\ UNCHANGED <<config, cached, store, mon, hc, unp, bucket, edits, pauses, touches, faults>>

\* The user switches the health check, deletes the ProviderConfig or adds it again.
UserEdit ==
  /\ edits < MaxEdits /\ edits' = edits + 1
  /\ config' \in IF config.exists THEN {[config EXCEPT !.off = ~@], NoConfig} ELSE {NewConfig}
  /\ UNCHANGED <<cached, up, store, mon, hc, unp, bucket, flips, pauses, touches, faults>>

\* The bucket controller labels and pauses a Bucket CR (Create, Update).
BucketPause(b) ==
  /\ pauses < MaxPauses /\ pauses' = pauses + 1 /\ bucket[b].paused # "true"
  /\ WriteBucket(b, [paused |-> "true", label |-> TRUE], unp)
  /\ UNCHANGED <<config, cached, up, store, mon, hc, flips, edits, touches, faults>>

\* Somebody writes another field of it.
BucketTouch(b) ==
  /\ touches < MaxTouches /\ touches' = touches + 1 /\ WriteBucket(b, bucket[b], unp)
  /\ UNCHANGED <<config, cached, up, store, mon, hc, flips, edits, pauses, faults>>

---------------------------------------------------------------------------
Init ==
  /\ config = NewConfig /\ cached = NewConfig /\ up \in BOOLEAN /\ store = "absent"
  /\ mon = [pc |-> "idle", read |-> "none"]
  /\ hc = NoCheck
  /\ unp = [g \in Unpausers |-> Idle]
  /\ bucket = [b \in Buckets |-> [paused |-> "", label |-> FALSE]]
  /\ flips = 0 /\ edits = 0 /\ pauses = 0 /\ touches = 0 /\ faults = 0

Monitor == MonitorGet \/ MonitorAdd \/ MonitorCleanup \/ MonitorRemove
Health == HealthGet \/ HealthCheck \/ HealthStore \/ HealthStatus
Unpauser(g) == UnpauseList(g) \/ \E b \in Buckets : UnpauseItem(g, b)
Environment == CacheSync \/ Flip \/ UserEdit \/ \E b \in Buckets : BucketPause(b) \/ BucketTouch(b)

Next == Monitor \/ Health \/ Environment \/ \E g \in Unpausers : Unpauser(g)

Spec == Init /\ [][Next]_vars

\* Both controllers requeue at an interval, watches deliver, goroutines run.
FairSpec ==
  /\ Spec /\ WF_vars(Monitor) /\ WF_vars(Health) /\ WF_vars(CacheSync)
  /\ \A g \in Unpausers : WF_vars(Unpauser(g))

---------------------------------------------------------------------------
(* Properties *)

\* Health is only ever the word of a check that succeeded: as long as the
\* endpoint has never answered, no copy that a controller passes on, however
\* stale, lets the store, the ProviderConfig or an un-pausing say otherwise.
NeverUp == ~up /\ flips = 0
HealthIsEarned ==
  NeverUp => /\ store # "Healthy" /\ config.cond # "Success"
             /\ \A g \in Unpausers : unp[g].pc = "idle"

\* However the two controllers overwrite each other's health, and however
\* stale the ProviderConfig they read, the store ends with the health that the
\* last condition of the ProviderConfig stands for.
StoreFollowsConfig ==
  <>[](config.exists => store = MapConditionToHealthStatus(config.cond))

\* An endpoint that stays up is Healthy in the store in the end.
UpBecomesHealthy ==
  <>[](up /\ config.exists /\ ~config.off => store = "Healthy")

\* A deleted ProviderConfig leaves the store and no late health check or add
\* brings it back.
DeletedLeavesStore == <>[](~config.exists => store = "absent")

\* A Bucket CR that is paused while its backend is recorded as failed, and no
\* check or un-pausing is under way, is un-paused if the backend stays up (and
\* its ProviderConfig and health check stay), once other writers of the Bucket
\* CR and failures of the API have ceased.
Gone == ~up \/ ~config.exists \/ config.off
Waiting(b) == bucket[b].label /\ bucket[b].paused = "true" /\ config.cond = "FailMsg"
Quiet == cached = config /\ hc.pc = "idle" /\ \A g \in Unpausers : unp[g].pc = "idle"
Undisturbed == touches = MaxTouches /\ faults = MaxFaults
RecoveryUnpauses ==
  \A b \in Buckets : Waiting(b) /\ Quiet /\ Undisturbed ~> bucket[b].paused = "" \/ Gone

\* The same when somebody else writes the Bucket CR meanwhile, for which
\* unpauseBuckets retries its update.
ConflictIsRetried ==
  \A b \in Buckets : Waiting(b) /\ Quiet ~> bucket[b].paused = "" \/ Gone
=============================================================================
