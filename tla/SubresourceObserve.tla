-------------------------- MODULE SubresourceObserve --------------------------
(***************************************************************************)
(* The concurrency of Observe in the five subresource clients              *)
(* (src/internal/controller/bucket): a goroutine per backend looks at its  *)
(* backend and sends what it found on an unbuffered channel, and a loop    *)
(* takes one message per backend, but returns at the first that asks for a *)
(* change, at the first error and at the deadline.  Goroutines that have   *)
(* not sent by then stay blocked on a channel that nobody reads.           *)
(***************************************************************************)
EXTENDS Naturals, FiniteSets

CONSTANTS
  Backends,   \* backendNames
  Clients,    \* subresourceClients that external.Observe calls
  LockEnabled \* Spec.ForProvider.ObjectLockEnabledForBucket

ASSUME ObserveAssumption ==
  /\ IsFiniteSet(Backends) /\ LockEnabled \in BOOLEAN
  /\ Clients \subseteq {"lifecycle", "acl", "policy", "versioning", "objectlock"}

VARIABLES
  client, \* whose Observe was called last
  gr,     \* state of each of its goroutines
  answer, \* what each has found
  ctx,    \* "live" or "expired"
  heard,  \* goroutines whose message the loop has taken
  result  \* "none", "waiting" in the loop, or what Observe returned

call == <<client, gr, answer, ctx, heard, result>>

Asks == {"NeedsUpdate", "NeedsDeletion"}
ResourceStatus == {"NoAction", "Updated"} \cup Asks

TypeOK ==
  /\ client \in Clients \cup {"none"}
  /\ gr \in [Backends -> {"start", "looking", "sending", "done"}]
  /\ answer \in [Backends -> ResourceStatus \cup {"unseen", "error"}]
  /\ ctx \in {"live", "expired"} /\ heard \subseteq Backends
  /\ result \in Asks \cup {"none", "waiting", "Updated", "error"}

Init ==
  /\ client = "none" /\ gr = [b \in Backends |-> "done"]
  /\ answer = [b \in Backends |-> "unseen"]
  /\ ctx = "live" /\ heard = {} /\ result = "none"

\* The ACL client has no error channel and does not look at the context.
HasErrChan == client # "acl"

\* The object lock client returns at once for a bucket without object lock.
Skips(k) == k = "objectlock" /\ ~LockEnabled

\* Observe is called: it makes its channels and starts its goroutines.  Those of
\* the last call that are blocked stay so, on channels of their own.
Begin(k) ==
  /\ result # "waiting" /\ client' = k
  /\ gr' = [b \in Backends |-> IF Skips(k) THEN "done" ELSE "start"]
  /\ answer' = [b \in Backends |-> "unseen"] /\ ctx' = "live" /\ heard' = {}
  /\ result' = IF Skips(k) THEN "Updated" ELSE "waiting"

---------------------------------------------------------------------------
(* The goroutine of one backend.  It runs on after Observe has returned. *)

\* Mutant: the goroutine of an Unhealthy backend returns without a message.
CheckHealthMutant(b, unhealthy) ==
  /\ gr[b] = "start"
  /\ gr' = [gr EXCEPT ![b] = IF unhealthy THEN "done" ELSE "looking"]
  /\ UNCHANGED <<client, answer, ctx, heard, result>>

\* A backend that is Unhealthy is passed over with NoAction.
CheckHealth(b, unhealthy) ==
  /\ gr[b] = "start"
  /\ gr' = [gr EXCEPT ![b] = IF unhealthy THEN "sending" ELSE "looking"]
  /\ answer' = [answer EXCEPT ![b] = IF unhealthy THEN "NoAction" ELSE @]
  /\ UNCHANGED <<client, ctx, heard, result>>

\* observeBackend returns.
Look(b, status) ==
  /\ gr[b] = "looking" /\ gr' = [gr EXCEPT ![b] = "sending"]
  /\ status = "error" => HasErrChan
  /\ answer' = [answer EXCEPT ![b] = status]
  /\ UNCHANGED <<client, ctx, heard, result>>

---------------------------------------------------------------------------
(* The loop over both channels and the context *)

\* Mutant: a deletion is not among the answers that end the loop.
ReceiveObservationMutant(b) ==
  /\ result = "waiting" /\ gr[b] = "sending" /\ answer[b] \in ResourceStatus
  /\ gr' = [gr EXCEPT ![b] = "done"] /\ heard' = heard \cup {b}
  /\ result' = IF answer[b] = "NeedsUpdate" THEN answer[b] ELSE result
  /\ UNCHANGED <<client, answer, ctx>>

\* The channels are unbuffered: sender and receiver step together.
ReceiveObservation(b) ==
  /\ result = "waiting" /\ gr[b] = "sending" /\ answer[b] \in ResourceStatus
  /\ gr' = [gr EXCEPT ![b] = "done"] /\ heard' = heard \cup {b}
  /\ result' = IF answer[b] \in Asks THEN answer[b] ELSE result
  /\ UNCHANGED <<client, answer, ctx>>

ReceiveErr(b) ==
  /\ result = "waiting" /\ gr[b] = "sending" /\ answer[b] = "error"
  /\ gr' = [gr EXCEPT ![b] = "done"] /\ heard' = heard \cup {b}
  /\ result' = "error" /\ UNCHANGED <<client, answer, ctx>>

ReceiveDone ==
  /\ result = "waiting" /\ HasErrChan /\ ctx = "expired"
  /\ result' = "error" /\ UNCHANGED <<client, gr, answer, ctx, heard>>

\* Mutant: the loop takes one message too few.
LoopEndsMutant ==
  /\ result = "waiting" /\ Cardinality(heard) + 1 >= Cardinality(Backends)
  /\ result' = "Updated" /\ UNCHANGED <<client, gr, answer, ctx, heard>>

LoopEnds ==
  /\ result = "waiting" /\ Cardinality(heard) >= Cardinality(Backends)
  /\ result' = "Updated" /\ UNCHANGED <<client, gr, answer, ctx, heard>>

Expire ==
  /\ result = "waiting" /\ ctx = "live" /\ ctx' = "expired"
  /\ UNCHANGED <<client, gr, answer, heard, result>>

---------------------------------------------------------------------------
Goroutine(b) ==
  \/ \E unhealthy \in BOOLEAN : CheckHealth(b, unhealthy)
  \/ \E status \in ResourceStatus \cup {"error"} : Look(b, status)
Loop == ReceiveDone \/ LoopEnds \/ \E b \in Backends : ReceiveObservation(b) \/ ReceiveErr(b)

Next == \/ Loop \/ Expire
        \/ \E k \in Clients : Begin(k)
        \/ \E b \in Backends : Goroutine(b)

Spec == Init /\ [][Next]_call

---------------------------------------------------------------------------
(* Properties *)

\* Observe leaves goroutines blocked on its channels only when it returns
\* early: once it says Updated, every goroutine has been heard and has ended.
UpdatedLeavesNobody == result = "Updated" => \A b \in Backends : gr[b] = "done"

\* The loop counts messages, one per backend, so it must not wait for one that
\* never comes: every goroutine it has not heard is on its way to send, and
\* what it sends goes to a channel that this client's loop reads.
LoopIsServed ==
  result = "waiting" => \A b \in Backends \ heard :
    /\ gr[b] # "done"
    /\ gr[b] = "sending" => answer[b] \in ResourceStatus \/ (answer[b] = "error" /\ HasErrChan)

\* Observe of every client keeps the promise of ObserveAnswer, whichever
\* message the loop takes first and whatever it leaves unread.
Answer == INSTANCE ObserveAnswer WITH
  seen <- answer, expired <- ctx = "expired", outcome <- result
ImplementsAnswer == Answer!Spec
=============================================================================
