--------------------------- MODULE ValidationBucket ---------------------------
(***************************************************************************)
(* The bucket on which the admission webhook tries lifecycle configurations *)
(* (src/internal/controller/bucket/bucket_validation_webhook.go).  Every    *)
(* request that brings one creates the bucket and puts the configuration,   *)
(* and the backend monitor deletes the bucket by force when the             *)
(* ProviderConfig of the backend is gone.  The requests, the monitor and    *)
(* other users of the backend share the bucket without a lock.  One backend.*)
(***************************************************************************)
EXTENDS ForcedDelete

CONSTANTS
  Requests,    \* admission requests
  About,       \* what they may be about
  MaxEdits,    \* how often the ProviderConfig is added or deleted
  MaxRestarts  \* how often the provider restarts

\* deleting: newObj has a deletion timestamp.  named: Spec.Providers names the
\* backend.  lifecycle: the configuration, or "none" if there is none or it is
\* disabled.
RequestKinds ==
  [deleting : BOOLEAN, named : BOOLEAN, lifecycle : {"none", "valid", "invalid"}]

ASSUME ValidationAssumption ==
  /\ About \subseteq [Requests -> RequestKinds]
  /\ MaxEdits \in Nat /\ MaxRestarts \in Nat

VARIABLES
  config,   \* the ProviderConfig exists
  stored,   \* the backend store has its client
  queued,   \* the monitor has an event for it
  cleaning, \* the monitor waits for DeleteBucket
  request,  \* step of each request
  kind,     \* what it is about
  stray,    \* the bucket came to be, or was left, while no client of it was kept
  edits, restarts

owners == <<config, stored, queued, cleaning>>
requests == <<request, kind>>
vars == <<deletion, owners, requests, stray, edits, restarts>>

\* missing: refused because the store lacks the backend.
Answered == {"admitted", "rejected", "missing"}

TypeOK ==
  /\ DeleteTypeOK /\ config \in BOOLEAN /\ stored \in BOOLEAN /\ queued \in BOOLEAN
  /\ cleaning \in BOOLEAN
  /\ request \in [Requests -> {"new", "lifecycle", "create", "put"} \cup Answered]
  /\ kind \in [Requests -> RequestKinds] /\ stray \in BOOLEAN
  /\ edits \in 0..MaxEdits /\ restarts \in 0..MaxRestarts

Init ==
  /\ DeleteInit /\ config = TRUE /\ stored = FALSE /\ queued = TRUE /\ cleaning = FALSE
  /\ request = [r \in Requests |-> "new"] /\ kind \in About
  /\ stray = exists /\ edits = 0 /\ restarts = 0

CallMade == UNCHANGED <<pc, result, deleters, puts, gone>>

---------------------------------------------------------------------------
(* The webhook *)

Answers(r, a) == request' = [request EXCEPT ![r] = a]

MissingProvider(r) == kind[r].named /\ ~stored

\* ValidateUpdate of a Bucket that is being deleted, and the check of the names.
ValidateUpdate(r) ==
  /\ request[r] = "new"
  /\ Answers(r, IF kind[r].deleting THEN "admitted"
                ELSE IF MissingProvider(r) THEN "missing"
                ELSE IF kind[r].lifecycle = "none" THEN "admitted" ELSE "lifecycle")
  /\ UNCHANGED <<deletion, owners, kind, stray, edits, restarts>>

\* GetAllBackends().GetFirst()
GetFirst(r) ==
  /\ request[r] = "lifecycle" /\ Answers(r, IF stored THEN "create" ELSE "missing")
  /\ UNCHANGED <<deletion, owners, kind, stray, edits, restarts>>

Fails(r) ==
  /\ Answers(r, "rejected") /\ faults < MaxFaults /\ faults' = faults + 1
  /\ UNCHANGED <<bucket, calm, stray>>

\* For a bucket that its owner has, S3 answers with success or with
\* BucketAlreadyOwnedByYou, by region and dialect.  rgw.CreateBucket returns that
\* error too, and the webhook refuses the request for it.
Create(r) ==
  /\ request[r] = "create"
  /\ \/ Fails(r)
     \/ ~exists /\ exists' = TRUE /\ Answers(r, "put") /\ stray' = (cleaning \/ ~stored)
        /\ UNCHANGED <<versioned, entries, faults, calm>>
     \/ exists /\ (Answers(r, "put") \/ Answers(r, "rejected"))
        /\ UNCHANGED <<bucket, faults, calm, stray>>
  /\ CallMade /\ UNCHANGED <<owners, kind, edits, restarts>>

\* PutBucketLifecycleConfiguration: S3 refuses what is not valid.
PutLifecycle(r) ==
  /\ request[r] = "put"
  /\ \/ Fails(r)
     \/ /\ Answers(r, IF exists /\ kind[r].lifecycle = "valid" THEN "admitted" ELSE "rejected")
        /\ UNCHANGED <<bucket, faults, calm, stray>>
  /\ CallMade /\ UNCHANGED <<owners, kind, edits, restarts>>

Webhook(r) == ValidateUpdate(r) \/ GetFirst(r) \/ Create(r) \/ PutLifecycle(r)

---------------------------------------------------------------------------
(* The backend monitor *)

\* Reconcile of a ProviderConfig that is there.
AddBackend ==
  /\ queued /\ ~cleaning /\ config
  /\ queued' = FALSE /\ stored' = TRUE /\ stray' = FALSE
  /\ UNCHANGED <<deletion, config, cleaning, requests, edits, restarts>>

\* Reconcile of one that is not: without a client there is nothing to clean.
Cleanup ==
  /\ queued /\ ~cleaning /\ ~config /\ queued' = FALSE
  /\ IF stored THEN cleaning' = TRUE /\ Begin ELSE UNCHANGED <<cleaning, deletion>>
  /\ UNCHANGED <<config, stored, requests, stray, edits, restarts>>

\* Mutant: the backend is removed although the cleanup failed.
RemoveBackendMutant ==
  /\ cleaning /\ pc = "idle" /\ cleaning' = FALSE /\ Forget
  /\ stored' = FALSE /\ UNCHANGED queued
  /\ UNCHANGED <<bucket, pc, deleters, puts, faults, config, request, kind, stray, edits, restarts>>

\* Mutant: a cleanup that failed is not retried.
RemoveBackendOnce ==
  /\ cleaning /\ pc = "idle" /\ cleaning' = FALSE /\ Forget
  /\ stored' = (result # "nil") /\ UNCHANGED queued
  /\ UNCHANGED <<bucket, pc, deleters, puts, faults, config, request, kind, stray, edits, restarts>>

\* The client goes only when the bucket is gone; an error is retried.
RemoveBackend ==
  /\ cleaning /\ pc = "idle" /\ cleaning' = FALSE /\ Forget
  /\ \/ result = "nil" /\ stored' = FALSE /\ UNCHANGED queued
     \/ result # "nil" /\ queued' = TRUE /\ UNCHANGED stored
  /\ UNCHANGED <<bucket, pc, deleters, puts, faults, config, request, kind, stray, edits, restarts>>

DeleteStep ==
  /\ Step /\ UNCHANGED <<owners, request, kind, edits, restarts>>
  /\ stray' = (stray /\ exists')

Monitor == AddBackend \/ Cleanup \/ RemoveBackend \/ DeleteStep

---------------------------------------------------------------------------
(* Others *)

UserEdit ==
  /\ edits < MaxEdits /\ edits' = edits + 1 /\ config' = ~config /\ queued' = TRUE
  /\ UNCHANGED <<deletion, stored, cleaning, requests, stray, restarts>>

OtherUser ==
  /\ UNCHANGED <<owners, request, kind, edits, restarts>>
  /\ \/ (\E k \in Keys : Put(k)) /\ UNCHANGED stray
     \/ RemoveBucket /\ stray' = FALSE

\* The store, the queue and the calls under way are lost; failurePolicy=fail.
\* The new process hears of the ProviderConfigs that exist, and of no other.
Restart ==
  /\ restarts < MaxRestarts /\ restarts' = restarts + 1
  /\ stored' = FALSE /\ queued' = config /\ cleaning' = FALSE /\ stray' = exists
  /\ request' = [r \in Requests |-> IF request[r] \in Answered \cup {"new"} THEN request[r] ELSE "rejected"]
  /\ pc' = "idle" /\ DeletersEnd /\ Forget
  /\ UNCHANGED <<bucket, puts, faults, config, kind, edits>>

---------------------------------------------------------------------------
Next ==
  \/ Monitor \/ UserEdit \/ OtherUser \/ Restart
  \/ \E r \in Requests : Webhook(r)

\* The workqueue of the monitor retries an event until it is handled, and every
\* S3 call returns.
Spec == Init /\ [][Next]_vars /\ WF_vars(Monitor)

---------------------------------------------------------------------------
(* Properties *)

\* A backend whose ProviderConfig is gone is in the store, where the webhook and
\* the Bucket controller still use it, only while its removal is under way or has
\* an event left, whatever failed, was edited or restarted in between.
RemovalUnderWay == stored /\ ~config => queued \/ cleaning

\* A backend that is removed keeps the bucket only if a webhook made it again
\* after the cleanup had begun, or the provider restarted before the cleanup.
BackendLeavesNoBucket == exists /\ ~stored => stray

\* A backend whose ProviderConfig is gone for good leaves the store: the cleanup
\* ends although objects, versions and markers appear behind the deleters.
CleanupEnds == <>[]~config => <>[]~stored
=============================================================================
