# TLA+ models of provider-ceph

provider-ceph is a Crossplane provider that keeps one S3 bucket, described by a
`Bucket` custom resource (CR), on several S3 backends, each described by a
`ProviderConfig`. This directory holds TLA+ models of its controllers, the TLC
configurations that check them on small instances, and TLAPS proofs of the
safety properties for every instance. Paths below are relative to `src/`;
`bucket/` stands for `internal/controller/bucket/` and `providerconfig/` for
`internal/controller/providerconfig/`.

    tlc -workers 2 -config stale_cache.cfg MCBucketReconcile     # one run
    tlapm BucketReconcileProofs.tla                              # one set of proofs

## Inventory

| Part | State it keeps | Operations | Hard behaviour | Correct if |
|---|---|---|---|---|
| Bucket controller (`bucket/observe.go`, `create.go`, `update.go`, `delete.go`, `helpers.go`) | the CR's labels, status and spec flags in the API server; nothing in memory between reconciles | `Observe`, `Create`, `Update`, `Delete`, `updateBucketCR` | a lagging informer, several patches per operation, one goroutine per backend, an operation timeout, crashes | S3 changes are those the CR asks for; no bucket is forgotten; a CR converges |
| Creation fan-out (`bucket/create.go`) | `bucketAlreadyCreated`, `readyChan`, `errChan`, the loop index | goroutines, `waitForCreationAndUpdateBucketCR` | two channels, one of them unbuffered, a deadline, requests that outlive `Create` | one winner, no lost success, no blocked goroutine, no false success |
| Backend store (`internal/backendstore`) | clients and health per backend, behind one mutex | add, delete, set health, lookups | two writers with different views | follows the `ProviderConfig`s |
| Backend monitor (`providerconfig/backendmonitor`) | none of its own | reconcile: add or update, or clean up and remove | stale `ProviderConfig` copied over newer health | a deleted backend leaves, a stored one has the right health |
| Health check (`providerconfig/healthcheck`) | the `ProviderConfig`'s Ready condition | probe, write store and status, `unpauseBuckets` goroutine | goroutine beside the next reconciles, conflicts and retries | failures are recorded, recovery un-pauses |
| Subresource clients (`bucket/lifecycleconfiguration.go`, `acl.go`, `policy.go`, `versioningconfiguration.go`, `objectlockconfiguration.go`) | conditions in `bucketBackends` | `Observe` (one goroutine per backend), `Handle` | a chain of clients per backend that ends at the first error; edits and health changes meanwhile; early return while goroutines still send | what is asked for ends up applied, and a CR is paused only when it is |
| S3 operations (`internal/rgw`) | none | create, exists, delete, forced delete with paging; the conversions between CR and SDK types | which errors count as success; two deleters at work in one bucket, others writing to it; conversions that lose fields | says deleted only of what is; writes what the CR says |
| S3 client handler (`internal/controller/s3clienthandler`) | session-name counter | `GetS3Client` | assuming a role fails | a client of the right backend |
| Admission webhook (`bucket/bucket_validation_webhook.go`) | a validation bucket per backend | validate create and update | requests share the bucket with each other and with the monitor's cleanup, without a lock; restarts | rejects what a backend would, and nothing else; the bucket goes with its backend |
| Process set-up (`cmd/provider/main.go`, `setup.go` files) | informer cache, options | start | the cache selects un-paused CRs only | - |

How they interact. The monitor fills the backend store and the health check
corrects the health in it; the Bucket controller reads the store at each
operation. `Create` and `Update` pause a CR by a label, which takes it out of the
informer cache and so out of reconciliation; `unpauseBuckets` lists such CRs past
the cache and clears the label, which brings them back. Everything the Bucket
controller knows about a backend from one reconcile to the next is in the CR: the
labels decide where `Delete` goes and whom recovery wakes, `Status.Backends`
decides which labelled backends `Delete` visits and whether `Observe` says that
the bucket exists. The webhook, which runs in the same process, tries a lifecycle
configuration on a bucket of its own, on the first backend of the store; the
monitor deletes that bucket, by force, when the backend's `ProviderConfig` goes.

## Modules

| Module | Models | Checked by | Proved in |
|---|---|---|---|
| `BucketReconcile` | the Bucket controller and the CR, cache, store and S3 around it | `MCBucketReconcile` | `BucketReconcileProofs` |
| `CreateFanout` | goroutines and channels inside `Create` | `MCCreateFanout` | `CreateFanoutProofs` |
| `CreateOutcome` | the abstract outcome of `Create` | as a property of `CreateFanout` | `CreateFanoutProofs` |
| `Subresources` | `Observe` and `Update` of the five subresource clients, and the pause that follows | `MCSubresources` | `SubresourcesProofs` |
| `SubresourceObserve` | goroutines, channels and loop of a subresource client's `Observe` | within `LifecycleClient` | `SubresourceObserveProofs` |
| `ObserveAnswer` | the abstract answer of such an `Observe` | as a property of `SubresourceObserve` | `SubresourceObserveProofs` |
| `LifecycleClient` | the lifecycle client: rules, their conversion, comparison and writing, over `SubresourceObserve` | `MCLifecycleClient` | `LifecycleClientProofs` |
| `BackendHealth` | store, monitor, health check and un-pausing of one backend | `MCBackendHealth` | `BackendHealthProofs` |
| `ForcedDelete` | `rgw.DeleteBucket` with its two deleters and their pages, beside other writers | within `ValidationBucket` | `ValidationBucketProofs` |
| `ValidationBucket` | the webhook's requests, the monitor and `ForcedDelete` on the validation bucket | `MCValidationBucket` | `ValidationBucketProofs` |
| `FiniteOrder` | no code: lemmas about finite ordered sets, cited by the last two sets of proofs | - | itself |

`LifecycleClient` extends `SubresourceObserve`, and `ValidationBucket` extends
`ForcedDelete`: each composes the detailed component with what calls it.

The `MC` modules only add a symmetry set or a value to the module they extend.
Operators whose name ends in `Mutant` (or `Keeps`) are wrong versions of the
definition they stand next to, one plausible slip each. They are part of no
specification; putting one in the place of its original makes a property fail,
which shows that the property depends on that code.

### BucketReconcile

`cr` is the CR in the API server, `cache` the informer's copy (`NoBucket` when
deleted or paused: the selector in `cmd/provider/main.go` is `paused notin (true)`),
`obj` the copy the reconcile works on and `base` the CR that copy was read as, which
plays the role of its resource version. A CR is a record of what the controllers
decide on: deletion, `Disabled`, pause label, `Spec.Providers`, backend labels,
`Status.Backends` (one condition per backend), Ready and Synced. `s3[b]` says
whether the bucket exists on backend `b` and whether it holds objects, `store` is
the backend store, `pc` the step of the reconcile, `names`, `todo`, `bb` and `err`
the local variables of the operation (the list of backend names, the goroutines
that have not finished, `bucketBackends`, the first error), `inflight` how many
CreateBucket requests each backend has from a `Create` that has returned or died;
`LateCreate` has one take effect or not at any later moment, in the middle of
another reconcile too. `late` is history: the backends on which such a request made
the bucket while `Delete` was at work. Every write of the CR leaves `cache` as it was,
and `CacheSync` brings it up to date at some time, in every run.

One reconcile is `StartReconcile` (read from the cache), `Observe`, then

* `Create`, `CreateOnBackend(b)`, and `CreateLabels`, `CreateStatus` after the first
  success, `CreateFail` after the last failure, `CreatePause` when no backend has a
  client, or `CreateTimeout`;
* `Update`, `updateOnBackend(b)`, `UpdateStatus`, `UpdateLabels`;
* `Delete`, `DeleteOnBackend(b)`, `DeleteStatus`, `DeleteUndisable`, from the runtime
  for a deleted CR and from `Update` for a disabled one;
* or `Finalize`, when the CR is deleted and `Observe` finds nothing left;

and `FinishReconcile`, in which the runtime writes the outcome. Every step between
two of which another process may act is an action of its own: each callback of
`updateBucketCR`, each goroutine, each decision. `Callback` is `updateBucketCR`
itself: a read (the first callback of a call reads the cache, the next continue
from the API server's answer), the callback, and `Patched`, the merge patch
without a resource version, which merges maps key by key and replaces the
condition list as a whole. Its failures are a failed read, which leaves the copy
as it was, and a failed patch, which leaves the callback's changes in the copy.

`Dispatch`, `FinishReconcile` and `Finalize` are the crossplane runtime, which is not
in this repository. They follow what the controller relies on: which handler is
called after which observation (deletion first), a critical write before `Create`
under the resource version, so that `Create` does not run on a stale CR, annotations
written after it with a retry, status and finalizer written under the resource
version. `bucket/setup.go:54-85` lists the options in use, and with them the
runtime's timeout is a second longer than the operation's.

Abstractions: the subresources are one nondeterministic outcome of `Observe` and
`Handle`, present if `HasSubresources`, and their conditions one Boolean in
`isPauseRequired`; a condition's message and time are seen only through `bump` (a
patch differs because the time or the message did); the health Unknown is one with
Healthy, since this controller only asks for Unhealthy; a pause label that is
missing is one with an empty one.

### CreateFanout and CreateOutcome

`gr[b]` walks each goroutine from its CreateBucket call to its last send; `errChan`
is the set of goroutines whose message is in the buffer (the channel carries no
order that matters: the loop treats each message alike, apart from the last,
and any can be the last); `readyChan` is unbuffered, so `ReceiveReady(b)` moves sender
and receiver at once. `turns` counts the turns that took `ctx.Done()`. `Return` is
the update of the CR and the return, which cancels the context. `CreateOutcome`
has buckets appear and the operation settle at most once, on a backend that has
the bucket, or on failure, which needs an excuse: no success reported, the
deadline, a CR that cannot be written, or one that was paused or deleted meanwhile.
The last is `left`: after `Leave` the informer may have the CR or not, and without it
`updateBucketCR` ends with nil and writes nothing (`bucket/helpers.go:283-286`). The
refinement mapping sends the compare-and-swap to `reported`.

### Subresources

`spec` is what the CR asks for of each kind (lifecycle configuration, ACL, policy,
versioning, object lock), `obj` the spec that the reconcile has read, `ext` what each
backend has. `conds` and `bb` are the conditions that `bucketBackends` collects, for a
subresource and for the bucket; `at[b]` is the client that has come to backend `b`,
in `Observe` as in `Update`, and 0 when the goroutine of `Update` has ended. `available` is what the status last written says,
Ready and Synced in one. The buckets exist throughout, and the reconcile of
`BucketReconcile` is reduced to what decides about subresources: `StartReconcile`
(with auto-pause straight to `Update`), one `ObserveOn(b)` per client and backend,
`UpToDate` when none of them asks for anything, one `Handle(b)` per client and backend, `updateOnBackend(b)` for the final look at the health, `UpdateStatus`, and
`UpdateLabels`, which pauses.

In `Observe` each client starts a goroutine per backend, which looks up the health of
the backend for itself, and the next client starts when all have answered. So between
two looks a backend may become Healthy or Unhealthy. `ignored` is history: the pairs of
backend and client where the look found it Unhealthy, which the code passes over.
`UpToDateIsApplied` speaks of all other pairs.

`observeBackend` keeps each client's own table of answers, with its quirks: an ACL is
never read, so one that is asked for always needs an update; suspended versioning
is still a configuration, so it is suspended again each time; without a
specification, object lock and versioning under object lock are compared with a nil
pointer and always need an update; lifecycle, versioning and object lock leave a
condition, policy and ACL none. A failing call ends the goroutine, after it took
effect or before. An edit changes one subresource and sets the pause label to the
empty string, as `docs/AUTOPAUSE.md:20` tells. `Clients` is a constant, because flags
can leave clients out. Abstracted: contents (an unspecified one, or a member of
`Configs`; the contents of a lifecycle configuration are in `LifecycleClient`), the
channels inside `Observe` and goroutines that go on after its early return, which
change nothing (they are in `SubresourceObserve`), the informer's lag (an
edit that has not arrived is an edit that happens later), and edits between the
Get and the Patch of one callback.

### SubresourceObserve and ObserveAnswer

One call of a client's `Observe`. `gr[b]` is the goroutine of backend `b`: `CheckHealth`
and `Look` are its two steps, after which it is `"sending"` on one of two unbuffered
channels, so that `ReceiveObservation(b)` and `ReceiveErr(b)` move it and the loop at
once. The loop returns at the first answer that asks for a change, at the first
error, when the context ends (`ReceiveDone`), or after as many messages as backends
(`LoopEnds`). `Expire` is the deadline. Goroutines that nobody hears stay blocked, and
`Begin` starts the next call with channels of its own. The five clients share this
code up to two differences, which are in the model: the ACL client has no error
channel and never looks at the context, the object lock client returns at once
without object lock. `observeBackend` is any status or an error here.
`ObserveAnswer` has backends be seen and the call settle: `Updated` only when every
backend was seen and is fine, a change only if some backend asks for it, an error
only for an error or the deadline.

### LifecycleClient

`spec` and `obj` are the CR's lifecycle configuration and the copy that the reconcile
has read, `stored[b]` the rules that backend `b` has, in the SDK's form. A reconcile
calls `Observe` of each client in `Order`, one after the other, until one asks for a
change (`StartReconcile`, `LookAt(b)`, `Listen`, `Observed`); then `Handle(b)` is the lifecycle
client's goroutine in `Update`, which observes again and writes or deletes, and
`EndUpdate` ends it. `wrote` says that the last `Handle` sent something to S3.
`Observed` also goes on to `Update` after all clients said `Updated`, because a bucket
may be missing for other reasons.

A rule is a record of the CR's fields on which the conversion decides: its
prefix, its filter with Prefix, Tag and And, one size (`Large`), one number of newer
versions (`Newer`), and `Action`, which stands for everything that is copied field by
field. The conversion copies `Newer` of a transition (`"move"`) and drops that of an
expiration (`"expire"`): `GenerateNewer`. `Nil` and the empty value differ, as in Go. `GenerateFilter` follows the order of
precedence of the code, and `SortFilterTags` makes an empty slice of a nil one. S3
accepts a rule only with a prefix or a filter, and returns the tags of a filter in any
order (`Responses`). `Asked` is what the rules of the CR mean, after the comments of
`apis/provider-ceph/v1alpha1/lifecycleconfiguration_types.go`, and `Done` what the
stored rules mean to S3, both as sets of objects with what happens to them.
Abstracted: what the other clients find (left open), dates and storage
classes, rules with the same key twice among their tags, which S3 refuses.

### BackendHealth

The `ProviderConfig` and the informer's copy, the endpoint's state, the health in the
store, one record each for the monitor's and the health check's reconcile (with the
condition it read), and one per `unpauseBuckets` goroutine: the items it listed and
those of them whose listed copy is still current. `MonitorGet`, `MonitorAdd`,
`MonitorCleanup`, `MonitorRemove` are the monitor's steps; `HealthGet`,
`HealthCheck`, `HealthStore`, `HealthStatus` those of the check, the last two its
deferred function. `Unpausers` bounds how many un-pausing goroutines run at once; in
the model a recovery that finds none free waits for one. `health_store` has one,
`unpause_conflict` two.

### ForcedDelete

`rgw.DeleteBucket` with `forceDelete`. `Head` is `BucketExists`. Then there are two
deleters, one goroutine each: `at[d]` says whether it lists or deletes a page,
`page[d]` the entries of its page that are left, `more[d]` and `marker` the listing's
`IsTruncated` and next markers. `List(d)` is one listing call, `DeleteObject(d, e)` one
of the goroutines of a page, which go on when one has failed, and `GoesOn(d)` the
inner `g.Wait()` and the loop condition. `err[d]` is the first error of a deleter, of a
type that `NoSuchBucket` recognises or of a general one. `Wait` is the outer `g.Wait()`,
and `DeleteBucket` the last call, which S3 refuses for a bucket that is not empty.

`entries` is a set of versions and delete markers, each a key and an age. A delete
with a version removes it; one without adds a marker in a versioned bucket. The
listing of objects restarts from the beginning, as the code passes on its
request's own token and not the answer's; this is harmless because the page
before has been deleted. `Put` and `RemoveBucket` are other users. Two history
variables: `gone`, the bucket was absent at some time in the call, and `calm`, no call
failed in it and nobody else changed the bucket.

### ValidationBucket

One backend. `config` is its `ProviderConfig`, `stored` its client in the backend store,
`queued` an event in the monitor's queue, `cleaning` the monitor within its cleanup,
which is `ForcedDelete`. `AddBackend`, `Cleanup`, `RemoveBackend` are the monitor's
reconcile, which keeps the client and retries when the cleanup fails. `request[r]` is
a webhook request with the steps `ValidateUpdate` (deletion, missing providers, no or
disabled lifecycle), `GetFirst`, `Create`, `PutLifecycle`; `kind[r]` is what it is about,
never changed. `Restart` loses the store, the queue and calls under way, and
brings events only for the `ProviderConfig`s there are. S3 may answer a CreateBucket
for the bucket that is already there with success or with BucketAlreadyOwnedByYou, for
which the webhook refuses the request; `Create` has both. `stray` is history: the
bucket was made while a cleanup was under way or without a client, or stood there
when the process started.

## Runs

Bounds. Two backends are enough for the Bucket controller: its hazards need a
backend that is recorded and one that is not, one that works and one that fails;
no code compares three. The fan-out uses three, for a winner, a loser and a
failure at once. `MaxEdits` bounds what users, S3 clients and the store do,
`MaxFaults` all failing calls and crashes; two edits make one edit in the middle
of the handling of another. Symmetry over backends is used in the two safety
runs and in no run with liveness. Deadlock is not checked, since each system
may legitimately come to rest: a CR that is deleted or paused is not reconciled,
`Create` ends, and a `ProviderConfig` may be deleted for good.

| Run | Instance | Shows |
|---|---|---|
| `stale_cache` | 2 backends, auto-pause, 6 kinds of edit (delete, disable, enable, label, un-pause, health), 2 edits, 1 fault | `TypeOK`, `PauseOnlyWhenComplete`, `CreateNeverClobbers`, `S3ChangesAreAsked`, `RecordsWhatExists` (5.2 million states) |
| `delete_flow` | 2 backends, 7 kinds of edit (delete, disable, pause, providers, remove a backend, fill and lose a bucket), 2 edits, 1 fault | `DeleteForgetsOnlyDeleted` (5.6 million states) |
| `liveness` | 2 backends, 3 kinds of edit (delete, disable, fill a bucket), 2 edits, 1 fault, fairness | `EventuallyAvailable`, `EventuallyGone`, `EventuallyCleared` (1.3 million states) |
| `fanout` | 3 backends, fairness | the properties of `CreateFanout`, and that it implements `CreateOutcome` |
| `health_store` | 1 CR, 1 goroutine, 2 endpoint changes, 2 edits of the `ProviderConfig`, 1 pause, 1 other writer, 1 fault, fairness | `TypeOK`, `HealthIsEarned`, `StoreFollowsConfig`, `UpBecomesHealthy`, `DeletedLeavesStore`, `RecoveryUnpauses` (624,000 states) |
| `subresources` | 2 backends, 5 clients, 1 configuration, 2 edits, 2 health changes, 1 fault, auto-pause and object lock both on and off, fairness | `TypeOK`, `PauseOnlyWhenApplied`, `UpToDateIsApplied`, `EventuallyApplied` (1.1 million states) |
| `lifecycle` | 2 backends, 3 clients, 6 configurations with each form of filter, no rules, none, and disabled, 1 edit, 1 health change, 1 fault or timeout, fairness | `ClientTypeOK`, `UpdatedLeavesNobody`, `LoopIsServed`, `ComparisonIsRight`, `ImplementsAnswer`, `WritesDoWhatIsAsked`, `WritingEnds`, `EventuallyDoneAsAsked` (184,000 states) |
| `validation` | 2 requests of different kinds, pages of 1, 2 objects or versions at first, 1 put, 1 fault, 2 edits, 1 restart, fairness | `TypeOK`, `NilMeansGone`, `CalmDeleteSucceeds`, `RemovalUnderWay`, `BackendLeavesNoBucket`, `CleanupEnds` (1.2 million states) |

The bounds of the last two: a page of one entry makes two objects two pages,
which is all that paging can tell apart; two requests of which one is refused are
enough for one to disturb the other; in the lifecycle client, no code relates more than
two rules, and the tags of one rule need two to have an order.

In every run of `BucketReconcile` the cache lags. The two safety runs divide the kinds
of edit by what the properties can tell apart: recording and pausing against
deleting. Two changes of health make a backend Unhealthy for one client and Healthy
again for the next; two edits delete a `ProviderConfig` and make it again while its
removal is under way.

Four runs end in a counterexample. Each checks one sentence of the repository
that the code does not keep:

| Run | The repository says | The code does |
|---|---|---|
| `disable_orphan` | disabling removes all existing buckets (`apis/provider-ceph/v1alpha1/bucket_types.go:151-154`) | `Create` makes the bucket on every backend and records one; `Delete` skips the others |
| `unpause_conflict` | un-pausing is retried (`providerconfig/healthcheck/healthcheck_controller.go:178-180`) | the retry sees its own change and returns |
| `filter_sizes` | a rule applies to objects of the sizes its filter gives, and keeps newer noncurrent versions (`lifecycleconfiguration_types.go`) | sizes, and the number in an expiration, are not converted, so S3 expires more than was asked, and the comparison in `Observe` cannot see it |
| `pause_retargeted` | a CR is paused once all its buckets are Ready on the relevant backends (`docs/AUTOPAUSE.md:8`) | `Update` pauses the CR as it is now on the list of backends computed at its start, so a provider added meanwhile is paused without a bucket (`bucket/update.go:68,107`) |

### Also met while modelling

Kept in the models as the code has them, or outside them:

* Creation. BucketAlreadyOwnedByYou is an error (`internal/rgw/bucket.go:42`), so where
  S3 answers so a CR whose record was lost never becomes Ready, and `liveness`
  assumes backends that answer with success. `Create` sets Ready after one bucket
  whatever `--minimum-replicas` says (`cmd/provider/main.go:327`, `bucket/create.go:204`).
  With `--recreate-missing-bucket=false` a bucket that `Create` did not make is never made.
* Status. A failed recreation sets no condition, and its backend drops out of the
  status (`bucket/update.go:183`). Labels of former providers stay, since
  `setAllBackendLabels` deletes keys without their prefix (`bucket/helpers.go:132`).
  The status patch is computed from a cached CR without a resource version
  (`bucket/helpers.go:254`), so a `Delete` whose reconcile read a copy without an entry
  may drop that entry though its bucket is there; `DeleteForgetsOnlyDeleted` excepts
  this case and the abandoned requests, and no other.
* Creation fan-out. A winner that finds the wait loop gone stays blocked on `readyChan`
  for good (`bucket/create.go:140`), which `GoroutinesEnd` and `NobodyStranded` except.
  A `Create` whose CR has left the cache returns nil and records nothing
  (`bucket/helpers.go:283-286`), which `FailureIsReported` excepts.
* Pausing. `Create` pauses a CR in every configuration, but only auto-pause un-pauses
  it (`bucket/create.go:156-160`, `healthcheck_controller.go:222`). A CR that `Create`
  pauses while the recovering check is under way is missed by it, which is why
  `RecoveryUnpauses` starts from a moment when no check is under way. An edit made
  while `Update` runs is paused unapplied, because the pause is decided on the newest
  spec and older conditions (`bucket/update.go:99`, against `docs/AUTOPAUSE.md:20`);
  `pause_retargeted` is this race on `Spec.Providers`.
  When one backend has a versioning condition (suspended) and another none,
  `isPauseRequired` refuses for ever (`bucket/helpers.go:73`, against `docs/AUTOPAUSE.md:8`).
* Health. The message of a failed check makes it Unknown in the store
  (`internal/utils/utils.go:26`), where `healthcheck_controller.go:96` and
  `e2e/tests/stable/chainsaw-test.yaml:626` expect HealthCheckFail, hence Unhealthy.
* Lifecycle rules. And without tags is nil in the CR's form and an empty slice in the
  sorted answer, so such a rule differs from itself and is written in every
  reconcile (`internal/rgw/lifecycleconfig_helpers.go:111,134`,
  `bucket/lifecycleconfiguration.go:133`); `WritingEnds` and `ComparisonIsRight` fail with it, and the
  run and the theorem leave it out (`Convertible`). An empty list of transitions behaves the same way. Rules are compared in
  order, and with their IDs, which are copied (`internal/rgw/lifecycleconfig_helpers.go:33`)
  and not modelled: where S3 makes an ID for a rule without one, that rule is written
  in every reconcile, too.
* Subresource `Observe`. An early return leaves goroutines blocked for good on channels
  that nobody reads (`bucket/lifecycleconfiguration.go:81`); `UpdatedLeavesNobody` says
  when none is. A grant without a grantee loses its permission (`internal/rgw/acl_helpers.go`).
* Forced delete. A versioned bucket may be found not empty without any other
  writer, since the deleter of objects adds markers behind the deleter of versions; the
  retry succeeds (`CleanupEnds`), and `CalmDeleteSucceeds` is about buckets without
  versions. A listing
  that leaves out `IsTruncated` would be repeated for ever (`internal/rgw/bucket.go:145,195`).
* Webhook. Its comment (`bucket_validation_webhook.go:101-102`) has the health-check
  controller clean up; the backend monitor does. A request that overlaps the cleanup, or
  a restart before it, leaves the bucket behind: `BackendLeavesNoBucket` states exactly
  these exceptions. `docs/WEBHOOKS.md:15-16` speaks of `ProviderConfig`s, the code checks the
  store. Where S3 refuses a repeated CreateBucket, the webhook refuses every lifecycle
  configuration after the first (`internal/rgw/bucket.go:36-42`,
  `bucket/bucket_validation_webhook.go:103-106`); the model has that answer beside the other,
  and claims nothing of which requests are admitted.
* `AUTHENTICATION.md` says deletes use the default S3 client, `bucket/delete.go:74` uses
  the handler's.

## Fairness

`BucketReconcile`: weak fairness of the reconcile's steps as one process, because the
workqueue requeues a CR the cache holds (poll interval, errors, watches) and a
running handler goes on; of the informer (`CacheSync`); and of three things that
each end after finitely many steps and share one condition: requests in flight, the
monitor storing each backend (it requeues at an interval), and `S3Empty`, the user
emptying a bucket that blocks a deletion, without which a full bucket rightly
keeps its CR. No fairness for edits, faults, health changes or crashes, which are
bounded: liveness says what happens after the last of them. A paused CR is excluded
from `EventuallyGone` and `EventuallyCleared` because `docs/AUTOPAUSE.md:17` makes
un-pausing before a deletion or an update the user's task.

`Subresources`: weak fairness of the reconcile with its goroutines as one process, as
above; each goroutine has finitely many steps, so none is left behind.

`CreateFanout`: weak fairness of the wait loop and of each goroutine; none for the
deadline. A CreateBucket call ends because its client has a timeout.

`BackendHealth`: weak fairness of both controllers' reconciles, of the informer and of
each un-pausing goroutine. Monitor and check requeue at an interval
(`backendmonitor_controller.go`, `healthcheck_controller.go:139-141`), and errors are
requeued by the runtime.

`LifecycleClient`: weak fairness of the reconcile as one process, which is the
workqueue's requeueing together with the loop of `Observe`, and of each goroutine,
which the Go scheduler runs and whose S3 calls return. None for the deadline, edits
and changes of health. That `Observe` returns, without which `EventuallyDoneAsAsked`
would fail, needs no deadline: while the loop waits, every goroutine it has not heard
has yet to send (`LoopIsServed`).

`ValidationBucket`: weak fairness of the monitor, whose workqueue retries an event
until it is handled; its S3 calls and goroutines return. None for requests, other
users, restarts and edits. A `ProviderConfig` that was deleted before a restart is not
heard of again, but then neither does the store have its client.

## Proofs

`BucketReconcileProofs` holds for any finite set of backends, any switches and any
bounds (the assumptions are those on the constants in `BucketReconcile`):

* `TypeCorrect`: the type invariant, by one step per action. The lemmas on helpers
  (`Patched`, `Callback`, `setBucketStatus`, ...) are stated once and cited.
* `CreateNeverClobbersCorrect`. `CreateNeverClobbers` is a statement about a step and
  needs `CreateInv`: at `observe` and `create` the reconcile's `base` is its `obj`, and from
  `create` to the end of the status write the recorded backends in `cr` are empty. It
  holds at `create` only because the runtime's write of `external-create-pending`
  requires `base = cr`, and `Observe` sends a CR to `Create` only with an empty status.
* `PauseOnlyWhenCompleteCorrect`, assuming that nobody removes buckets behind the
  controller (`"lose" \notin Edits`). `PauseInv`: while an update runs, a backend
  whose condition in `bb` is Available holds the bucket; the counting test of
  `isPauseRequired` then covers all of `names`, because a subset with as many members is the set.
  It says nothing of backends that the CR wants since `Update` began (`pause_retargeted`).
* `DeleteForgetsOnlyDeletedCorrect`, without a further assumption and for a cache that lags
  as it likes. `ProgressInv`: while `Delete` runs, `names` are the backends that `obj`
  labels, and one of them that `obj` has recorded and that has lost its condition in `bb`
  holds the bucket no more, unless a late request made it again. With `todo = {}` at
  `deleteStatus`, what the patch drops is one of these or unknown to `obj`.
* `S3ChangesAreAskedCorrect`. `AskedInv`: the goroutines still running belong to
  backends that `obj` asks to create on, or to delete from.
* `RecordsWhatExistsCorrect`, again with `"lose" \notin Edits`, and for a cache that lags as
  it likes. An Available condition reaches the CR by a merge patch of a copy, or by the
  status that the runtime writes from `obj`, also after a patch that failed. `RecordInv`:
  a condition in `bb` is true, and one in `obj` is true or was in the CR that `obj`
  was read as; and since `Delete` alone makes a true condition false, that it marks
  its backends Deleting first and works on `obj` as it was read. One lemma
  (`CallbackRecords`) covers all eight callbacks of `updateBucketCR`.

`CreateFanoutProofs` holds for any finite, non-empty set of backends: `TypeCorrect`,
`ErrChanCorrect`, `NoLostSuccessCorrect`, `FailureIsReportedCorrect`, `NobodyStrandedCorrect`
and `FanoutImplementsOutcome`. None of the properties is inductive alone. Their
common invariant says that one goroutine wins (`OneWinner`, also a theorem) and that the
backend recorded has the bucket (`RecordedExists`, likewise), that a message comes from a goroutine that has ended
(`MessagesFromEnded`), that the winner is waiting or was heard (`WinnerWaits`, `ToldIsReady`),
that nobody is past the compare-and-swap before it is set (`NobodyPastSwap`), that a
success was made (`SuccessIsMade`), that the loop's position and its results agree
(`WaiterInStep`, `LoopTookAll`), that a turn on `ctx.Done()` follows the deadline
(`DoneIsExpired`), and that the error of the last message survives (`ErrorIsKept`).
`left` needs no invariant: it is never taken back, so it excuses in whichever state
`Return` comes.
`NobodyStranded` is what a proof of `GoroutinesEnd` would rest on: no state in which
somebody waits for what cannot come, except the winner past the deadline.

`SubresourcesProofs` holds for any backends, any list of clients (repeated ones
included) and any contents: `TypeCorrect`, `PauseOnlyWhenAppliedCorrect` and
`UpToDateIsAppliedCorrect`. Two lemmas about the tables, one case per kind, say that
what a client leaves alone is as it was asked for (`StatusApplied`), and so is what it
writes (`HandleApplies`). The invariant `Inv` then carries the first along the
chain: what the clients of `Observe` have passed on a backend and not ignored is
applied there (`ObservedIsApplied`, step by step with each goroutine's own look at the
health), what a goroutine of `Update` has passed is applied on its backend
(`PassedIsApplied`), a
bucket condition of Available means that it has passed everything
(`AvailableIsApplied`), and each reconcile collects its conditions anew
(`CollectsAnew`); the pause needs Available everywhere.

`SubresourceObserveProofs` holds for any finite set of backends and any of the five
clients: `TypeCorrect`, `UpdatedLeavesNobodyCorrect`, `LoopIsServedCorrect` (why
`Observe` returns) and `ObserveImplementsAnswer`. The invariant says that a goroutine
which has not sent has found nothing (`UnseenUntilSent`) and that the loop goes on only past messages that ask for
nothing, each the last of its goroutine (`HeardIsFine`); `LoopEnds` then has heard of every
backend, since a subset with as many members is the set (`AllHeard`).

`LifecycleClientProofs` has two parts. It composes: for any backends, rules and
non-empty list of clients, every step of `LifecycleClient` is a step of
`SubresourceObserve` or leaves its variables alone (`ClientImplementsObserve`), because
`observeBackend` answers with one of the four statuses (`ObservesStatus`) and the
reconcile stays within its list of clients (`TurnInv`). `ReconcileLeavesNobody`,
`ReconcileIsServed` and `ReconcileImplementsAnswer` follow. And it proves what the
conversion does:

* `ClientTypeCorrect`, from `ClientAssumption`, which only gives the constants their
  types (tag keys are finitely many numbers, `Nil` is no value). It contains that every
  rule on a backend is one that S3 takes, and that sorting finds an order at all.
* `WritesDoWhatIsAskedCorrect`. `DoneIsAsked`: a converted rule does to each object what the
  rule of the CR says, one case per kind of filter. A rule with sizes, or an expiration with a
  number of versions, does not (`filter_sizes`), nor does one with two kinds of filter at once,
  so the theorem assumes `Convertible` of the specifications: exactly one of Prefix, Tag
  and And, as `lifecycleconfiguration_types.go:120` demands, And with tags, nothing that
  the conversion drops. The configurations of the run satisfy it, which TLC
  evaluates (`WellFormedAssumption`).
* `ComparisonIsRightCorrect`, with the same hypothesis: whichever order S3 returns tags in,
  `Observe` and `Handle` leave alone a backend that has the rules of the CR (no endless
  writing), and only one that does what they say (no missed change). It needs that
  sorted answers are equal for every order (`SortedResponse`) and that converted rules are
  sorted already.

`ValidationBucketProofs` holds for any sizes of buckets and pages, any requests and
any bounds: `NilMeansGoneCorrect`, `CalmDeleteSucceedsCorrect`, `BackendLeavesNoBucketCorrect`
and `RemovalUnderWayCorrect`, which is inductive as it stands. `DeleteInv` is the part for
`ForcedDelete`: an error of a bucket that is gone is evidence that it was (`GoneInv`), and
undisturbed, what the deleter of objects has not on its page is on a later one
(`Covered`), whatever the deleter of versions takes away meanwhile. `StrayInv` carries
`BackendLeavesNoBucket` through the cleanup: once the bucket was gone in it, only a
webhook's bucket is there. `TypeCorrect` adds `ListingInv`: bucket and pages are finite and
no two entries agree in key and number (`IsListing`, assumed of the initial contents),
which a put or a delete marker keeps because it takes a number above all others of
its key, and the entry from which the next listing starts is one of the page.

`FiniteOrder` has the facts these proofs need of finite sets: a last element
(`HasLast`), a largest number (`HasMax`), a sorted list (`HasSorted`). Each would be an
induction over the set, whose library theorem takes an operator as a parameter;
instead, the subsets without the thing wanted form a set, of which `LeastSubset` gives
a smallest one, and that one is refuted by taking an element away.

`BackendHealthProofs`, for any Bucket CRs, goroutines and bounds: `TypeCorrect` and
`HealthIsEarnedCorrect`. The health travels in a circle, from the check to the store and
the `ProviderConfig`, through the cache to the monitor and the next check. `NoHearsay`
closes it: as long as the endpoint has never answered, no copy on the way says Success.

Only model-checked are the liveness properties, since TLAPS does not reason about
fairness and ENABLED here: `EventuallyAvailable`, `EventuallyGone`, `EventuallyCleared`,
`GoroutinesEnd`, `StoreFollowsConfig`, `UpBecomesHealthy`, `DeletedLeavesStore`,
`RecoveryUnpauses`, `EventuallyApplied`, `WritingEnds`,
`EventuallyDoneAsAsked` and `CleanupEnds`. Every safety property of the passing runs has
a theorem.

## Not modelled

Credentials and session names of the S3 client handler, and building clients from
Secrets: no controller decides on more than whether a client is found. The
conversions of ACL grants, object lock rules and client configuration: field-by-field
copies, except that `Subresources` has the comparisons their clients make. Dates,
storage classes and the like in lifecycle rules (one `Action`). The choice of
`GetFirst` among several backends in the webhook: it is the first of a Go map, any
backend, and `ValidationBucket` has one. Tracing and metrics have no effect on the
state. Leader election (one process reconciles at a time). Generated code
(`zz_generated.*.go`) and the fake S3 client of the tests. Two CRs share nothing in the
Bucket controller, so one is modelled.

## Plan

The models were planned in the order of the damage their failures do: the Bucket
controller first, since it loses or keeps data, then the fan-out, whose detail the
first abstracts into one step per goroutine, then health and un-pausing, the
subresources, the concurrency and the conversions inside one of them, and the
validation bucket with forced deletion. What remains, in order:

1. Composition of `BackendHealth` with the pause label of `BucketReconcile`.
2. Safety cores of the remaining liveness properties, as `NobodyStranded` and
   `LoopIsServed` are of theirs, and `RemovalUnderWay` of `CleanupEnds`: that the forced
   delete makes progress on each page.
3. `Subresources` and `SubresourceObserve` by proof: that the steps `ObserveOn` of one client
   in the former are a behaviour of `ObserveAnswer`.
