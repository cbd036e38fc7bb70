---------------------------- MODULE CreateFanout ----------------------------
(***************************************************************************)
(* The concurrency of external.Create (src/internal/controller/bucket/     *)
(* create.go): one goroutine per backend calls CreateBucket, the first to  *)
(* succeed wins a compare-and-swap and hands its backend's name over the   *)
(* unbuffered readyChan, every other outcome goes to the buffered errChan, *)
(* and waitForCreationAndUpdateBucketCR takes backendCount turns of a      *)
(* select over both channels and the context.                              *)
(***************************************************************************)
EXTENDS Naturals, FiniteSets

CONSTANTS Backends,   \* backendsToCreateOnNames that have an S3 client
          NoBackend   \* no backend yet

ASSUME FanoutAssumption ==
  /\ IsFiniteSet(Backends) /\ Backends # {}
  /\ NoBackend \notin Backends
  /\ {"pending", "failed"} \cap Backends = {}

VARIABLES
  gr,                   \* state of each goroutine
  bucketAlreadyCreated, \* the atomic.Bool
  made,                 \* backends on which the bucket exists
  errChan,              \* goroutines whose message is in the buffer
  received,             \* goroutines whose message the wait loop has taken
  turns,                \* turns of the loop that took ctx.Done()
  ctx,                  \* "live", "expired" or "cancelled"
  wait,                 \* where waitForCreationAndUpdateBucketCR is
  left,                 \* the Bucket CR was paused or deleted since Create began
  ready,                \* the backend received from readyChan
  recorded,             \* the backend recorded in the Bucket CR
  createErr             \* the last error, in the end the one it returns

vars == <<gr, bucketAlreadyCreated, made, errChan, received, turns, ctx, wait, left,
          ready, recorded, createErr>>
waiter == <<received, turns, ctx, wait, left, ready, recorded, createErr>>

\* calling: in CreateBucket; created: before the compare-and-swap; won: sending
\* to readyChan; failed, lost, told: sending to errChan; sentErr, sentNil: ended.
Sending == {"failed", "lost", "told"}
Ended == {"sentErr", "sentNil"}
GoStates == {"calling", "created", "won"} \cup Sending \cup Ended

\* Mutant: one place and one turn too few.
backendCountMutant == Cardinality(Backends) - 1

backendCount == Cardinality(Backends)

\* The loop variable of the wait loop: each turn takes one thing.
i == Cardinality(received) + turns

TypeOK ==
  /\ gr \in [Backends -> GoStates] /\ bucketAlreadyCreated \in BOOLEAN
  /\ made \subseteq Backends /\ errChan \subseteq Backends /\ received \subseteq Backends
  /\ turns \in Nat /\ ctx \in {"live", "expired", "cancelled"}
  /\ wait \in {"select", "record", "fail", "returned"}
  /\ left \in BOOLEAN /\ {ready, recorded} \subseteq Backends \cup {NoBackend}
  /\ createErr \in {"nil", "failed", "timeout", "update"}

Init ==
  /\ gr = [b \in Backends |-> "calling"] /\ bucketAlreadyCreated = FALSE
  /\ made = {} /\ errChan = {} /\ received = {} /\ turns = 0
  /\ ctx = "live" /\ wait = "select" /\ left = FALSE /\ ready = NoBackend
  /\ recorded = NoBackend /\ createErr = "nil"

---------------------------------------------------------------------------
(* The goroutine of one backend *)

CreateBucketSucceeds(b) ==
  /\ gr[b] = "calling" /\ gr' = [gr EXCEPT ![b] = "created"]
  /\ made' = made \cup {b}
  /\ UNCHANGED <<bucketAlreadyCreated, errChan, waiter>>

\* A request that failed, or was cancelled, may have reached the backend.
CreateBucketFails(b) ==
  /\ gr[b] = "calling" /\ gr' = [gr EXCEPT ![b] = "failed"]
  /\ made' \in {made, made \cup {b}}
  /\ UNCHANGED <<bucketAlreadyCreated, errChan, waiter>>

CompareAndSwap(b) ==
  /\ gr[b] = "created"
  /\ gr' = [gr EXCEPT ![b] = IF bucketAlreadyCreated THEN "lost" ELSE "won"]
  /\ bucketAlreadyCreated' = TRUE
  /\ UNCHANGED <<made, errChan, waiter>>

\* Mutant: errChan is unbuffered, so that somebody has to wait for the message.
SendErrMutant(b) ==
  /\ gr[b] \in Sending /\ wait = "select" /\ errChan = {}
  /\ gr' = [gr EXCEPT ![b] = IF @ = "failed" THEN "sentErr" ELSE "sentNil"]
  /\ errChan' = errChan \cup {b}
  /\ UNCHANGED <<bucketAlreadyCreated, made, waiter>>

\* errChan holds one message per backend; a full buffer blocks the sender.
SendErr(b) ==
  /\ gr[b] \in Sending /\ Cardinality(errChan) < backendCount
  /\ gr' = [gr EXCEPT ![b] = IF @ = "failed" THEN "sentErr" ELSE "sentNil"]
  /\ errChan' = errChan \cup {b}
  /\ UNCHANGED <<bucketAlreadyCreated, made, waiter>>

---------------------------------------------------------------------------
(* waitForCreationAndUpdateBucketCR *)

Selecting == wait = "select" /\ i < backendCount

\* readyChan is unbuffered: winner and waiter step together.
ReceiveReady(b) ==
  /\ Selecting /\ gr[b] = "won"
  /\ gr' = [gr EXCEPT ![b] = "told"] /\ ready' = b /\ wait' = "record"
  /\ UNCHANGED <<bucketAlreadyCreated, made, errChan, received, turns, ctx, left, recorded,
                 createErr>>

ReceiveErr(b) ==
  /\ Selecting /\ b \in errChan
  /\ errChan' = errChan \ {b} /\ received' = received \cup {b}
  /\ createErr' = IF gr[b] = "sentErr" THEN "failed" ELSE "nil"
  /\ UNCHANGED <<gr, bucketAlreadyCreated, made, turns, ctx, wait, left, ready, recorded>>

\* Mutant: the error of the context is returned as it is.
ReceiveDoneMutant ==
  /\ Selecting /\ ctx = "expired"
  /\ turns' = turns + 1 /\ createErr' = ctx
  /\ UNCHANGED <<gr, bucketAlreadyCreated, made, errChan, received, ctx, wait, left, ready,
                 recorded>>

ReceiveDone ==
  /\ Selecting /\ ctx = "expired"
  /\ turns' = turns + 1 /\ createErr' = "timeout"
  /\ UNCHANGED <<gr, bucketAlreadyCreated, made, errChan, received, ctx, wait, left, ready,
                 recorded>>

\* Mutant: the loop takes one turn too few.
LoopEndsMutant ==
  /\ wait = "select" /\ i + 1 >= backendCount /\ wait' = "fail"
  /\ UNCHANGED <<gr, bucketAlreadyCreated, made, errChan, received, turns, ctx, left, ready,
                 recorded, createErr>>

LoopEnds ==
  /\ wait = "select" /\ i >= backendCount /\ wait' = "fail"
  /\ UNCHANGED <<gr, bucketAlreadyCreated, made, errChan, received, turns, ctx, left, ready,
                 recorded, createErr>>

\* Mutant: the Bucket CR is updated with a context of its own.
ReturnMutant ==
  /\ wait \in {"record", "fail"} /\ wait' = "returned"
  /\ ctx' = IF ctx = "live" THEN "cancelled" ELSE ctx
  /\ recorded' = ready
  /\ UNCHANGED <<gr, bucketAlreadyCreated, made, errChan, received, turns, left, ready, createErr>>

\* updateBucketCR with the same context: it fails if the context has expired, or
\* for a reason of its own.  A CR that the informer no longer has is passed over
\* without an error.  In any case Create returns, with the error of the update if
\* it had a backend to record, and cancels the context.
Return ==
  /\ wait \in {"record", "fail"} /\ wait' = "returned"
  /\ ctx' = IF ctx = "live" THEN "cancelled" ELSE ctx
  /\ \/ /\ \/ ctx = "live" /\ recorded' = ready
           \/ left /\ UNCHANGED recorded
        /\ createErr' = IF wait = "record" THEN "nil" ELSE createErr
     \/ createErr' = "update" /\ UNCHANGED recorded
  /\ UNCHANGED <<gr, bucketAlreadyCreated, made, errChan, received, turns, left, ready>>

\* operationTimeout
Expire ==
  /\ ctx = "live" /\ ctx' = "expired"
  /\ UNCHANGED <<gr, bucketAlreadyCreated, made, errChan, received, turns, wait, left, ready,
                 recorded, createErr>>

\* The user pauses or deletes the Bucket CR, and may un-pause it again: from now on
\* the informer has it or not.
Leave ==
  /\ ~left /\ left' = TRUE
  /\ UNCHANGED <<gr, bucketAlreadyCreated, made, errChan, received, turns, ctx, wait, ready,
                 recorded, createErr>>

---------------------------------------------------------------------------
Goroutine(b) == \/ CreateBucketSucceeds(b) \/ CreateBucketFails(b)
                \/ CompareAndSwap(b) \/ SendErr(b)
Waiter == \/ ReceiveDone \/ LoopEnds \/ Return
          \/ \E b \in Backends : ReceiveReady(b) \/ ReceiveErr(b)

Next == Waiter \/ Expire \/ Leave \/ \E b \in Backends : Goroutine(b)

Spec == Init /\ [][Next]_vars

\* The Go scheduler runs every goroutine that can run, and every S3 call returns.
FairSpec == Spec /\ WF_vars(Waiter) /\ \A b \in Backends : WF_vars(Goroutine(b))

---------------------------------------------------------------------------
(* Properties *)

\* The buffer of errChan is large enough: no goroutine blocks on it, whatever
\* the wait loop has left unread.
ErrChanNeverFull ==
  \A b \in Backends : gr[b] \in Sending => Cardinality(errChan) < backendCount

\* The loop gives up ("Failed to create bucket on any backend") before the
\* deadline only if every goroutine's CreateBucket failed: the nil messages of
\* goroutines that lost never use up the turn that the winner needs.
NoLostSuccess ==
  wait = "fail" /\ turns = 0 => \A b \in Backends : gr[b] = "sentErr"

\* Create that recorded no backend returns an error, so that it is retried, or
\* its CR was paused or deleted meanwhile: the nil message of a goroutine that
\* lost may be the last one taken, but only after the deadline, and then the
\* update of a Bucket CR that is still there fails.
FailureIsReported ==
  wait = "returned" /\ recorded = NoBackend => createErr # "nil" \/ left

\* Nobody waits for what cannot come.  While the loop selects, a goroutine that
\* has ended and was not heard has its message in the buffer; once the loop is
\* over, only a winner is left waiting for it, and only past the deadline.
NobodyStranded ==
  \A b \in Backends : IF wait = "select" THEN gr[b] \in Ended => b \in errChan \cup received
                                        ELSE gr[b] = "won" => turns > 0

\* All goroutines end, except a winner that nobody waits for any more: it
\* stays blocked on the unbuffered readyChan.
GoroutinesEnd ==
  <>[](\A b \in Backends : gr[b] \in Ended \/ (gr[b] = "won" /\ turns > 0))

\* Create implements CreateOutcome.
Outcome == INSTANCE CreateOutcome WITH
  reported <- bucketAlreadyCreated,
  excused <- ctx = "expired" \/ createErr = "update" \/ left,
  outcome <- IF recorded # NoBackend THEN recorded
             ELSE IF wait = "returned" THEN "failed" ELSE "pending"
ImplementsOutcome == Outcome!Spec
=============================================================================
