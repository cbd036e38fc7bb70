------------------------- MODULE CreateFanoutProofs -------------------------
(***************************************************************************)
(* Proofs, for every finite set of backends, that the fan-out of Create    *)
(* keeps its channels and its compare-and-swap in step (CreateFanout) and  *)
(* that it implements CreateOutcome.                                       *)
(***************************************************************************)
EXTENDS CreateFanout, FiniteSetTheorems, TLAPS

(* The parts of the inductive invariant. *)

\* The compare-and-swap lets one goroutine at most near readyChan, so no
\* message is duplicated there, and the backend recorded is the winner.
OneWinner ==
  /\ \A b, c \in Backends : {gr[b], gr[c]} \subseteq {"won", "told"} => b = c
  /\ \A b \in Backends : gr[b] = "won" => ready = NoBackend

\* The backend recorded as ready in the Bucket CR holds the bucket.
RecordedExists == recorded # NoBackend => recorded \in made

\* A message in the buffer or taken from it belongs to a goroutine that ended.
MessagesFromEnded == \A b \in errChan \cup received : gr[b] \in Ended

\* The atomic.Bool is set exactly by a goroutine that won: until the waiter has
\* taken its name the winner is blocked on readyChan.
WinnerWaits == bucketAlreadyCreated /\ ready = NoBackend => \E w \in Backends : gr[w] = "won"

\* Nobody is past the compare-and-swap while the atomic.Bool is unset.
NobodyPastSwap ==
  ~bucketAlreadyCreated =>
    /\ \A b \in Backends : gr[b] \notin {"won", "lost", "told", "sentNil"}
    /\ ready = NoBackend

\* Only the backend the waiter has received was told so.
ToldIsReady == \A b \in Backends : gr[b] = "told" => ready = b

\* A goroutine past CreateBucket without an error has made its bucket.
SuccessIsMade == \A b \in Backends : gr[b] \in {"created", "won", "lost", "told"} => b \in made

\* Where the waiter is, given what it has received and recorded.
WaiterInStep ==
  /\ ready # NoBackend => wait \in {"record", "returned"} /\ ready \in made
  /\ wait = "record" => ready # NoBackend
  /\ recorded # NoBackend => recorded = ready /\ wait = "returned"
  /\ createErr = "update" => wait = "returned"

\* The loop takes ctx.Done() only from a context that has expired for good.
DoneIsExpired == turns > 0 => ctx = "expired"

\* As long as every message taken is an error, so is the last one.
ErrorIsKept ==
  /\ wait # "returned" /\ turns = 0 /\ received # {}
  /\ \A b \in received : gr[b] = "sentErr"
  => createErr # "nil"

\* A loop that ended before the deadline without a winner took every
\* goroutine's message.
LoopTookAll == wait # "select" /\ ready = NoBackend /\ turns = 0 => received = Backends

IInv == /\ TypeOK /\ OneWinner /\ RecordedExists
        /\ MessagesFromEnded /\ WinnerWaits /\ NobodyPastSwap /\ ToldIsReady
        /\ SuccessIsMade /\ WaiterInStep /\ LoopTookAll /\ DoneIsExpired /\ ErrorIsKept
        /\ FailureIsReported /\ NobodyStranded

USE DEF Ended, Sending, GoStates

\* A subset that misses an element of a finite set is smaller; one that is as
\* large is the whole set.
LEMMA SubsetSize ==
  ASSUME NEW S, IsFiniteSet(S), NEW T \in SUBSET S
  PROVE  /\ Cardinality(T) \in Nat /\ Cardinality(S) \in Nat
         /\ \A x \in S \ T : Cardinality(T) < Cardinality(S)
         /\ Cardinality(T) >= Cardinality(S) => T = S
<1>1. IsFiniteSet(T) /\ Cardinality(T) <= Cardinality(S) /\ (Cardinality(S) = Cardinality(T) => S = T)
  BY FS_Subset
<1>2. Cardinality(T) \in Nat /\ Cardinality(S) \in Nat
  BY <1>1, FS_CardinalityType
<1>3. (\E x \in S \ T : TRUE) => S # T
  OBVIOUS
<1>4. QED
  BY <1>1, <1>2, <1>3

LEMMA InitIInv == Init => IInv
<1>3. SUFFICES ASSUME Init PROVE IInv
  OBVIOUS
<1>4. TypeOK
  BY <1>3 DEF Init, TypeOK
<1>5. /\ \A b \in Backends : gr[b] = "calling"
      /\ ~bucketAlreadyCreated /\ ready = NoBackend /\ recorded = NoBackend
      /\ wait = "select" /\ errChan \cup received = {} /\ turns = 0 /\ createErr = "nil"
  BY <1>3 DEF Init
<1>6. OneWinner /\ RecordedExists /\ MessagesFromEnded
  BY <1>5 DEF OneWinner, RecordedExists, MessagesFromEnded
<1>7. WinnerWaits /\ NobodyPastSwap /\ ToldIsReady
  BY <1>5 DEF WinnerWaits, NobodyPastSwap, ToldIsReady
<1>8. SuccessIsMade /\ WaiterInStep /\ LoopTookAll
  BY <1>5 DEF SuccessIsMade, WaiterInStep, LoopTookAll
<1>9. DoneIsExpired /\ ErrorIsKept /\ FailureIsReported /\ NobodyStranded
  BY <1>5 DEF DoneIsExpired, ErrorIsKept, FailureIsReported, NobodyStranded
<1>10. QED
  BY <1>4, <1>6, <1>7, <1>8, <1>9 DEF IInv

LEMMA GoroutineIInv ==
  ASSUME IInv, NEW b \in Backends, Goroutine(b)
  PROVE  IInv'
<1> USE DEF IInv, TypeOK, OneWinner, RecordedExists, MessagesFromEnded, WinnerWaits,
       NobodyPastSwap, ToldIsReady, SuccessIsMade, WaiterInStep, LoopTookAll, DoneIsExpired,
       ErrorIsKept, FailureIsReported, NobodyStranded, waiter
<1>0. NoBackend \notin Backends
  BY FanoutAssumption
<1>1. CASE CreateBucketSucceeds(b)
  BY <1>0, <1>1 DEF CreateBucketSucceeds
<1>2. CASE CreateBucketFails(b)
  BY <1>0, <1>2 DEF CreateBucketFails
<1>3. CASE CompareAndSwap(b)
  <2>1. CASE bucketAlreadyCreated
    BY <1>0, <1>3, <2>1 DEF CompareAndSwap
  <2>2. CASE ~bucketAlreadyCreated
    <3>1. gr' = [gr EXCEPT ![b] = "won"] /\ bucketAlreadyCreated'
      BY <1>3, <2>2 DEF CompareAndSwap
    <3>2. UNCHANGED <<made, errChan, received, turns, ctx, wait, ready, recorded, createErr>>
      BY <1>3 DEF CompareAndSwap
    <3>3. wait # "select" => turns > 0
      BY <1>3, <2>2 DEF CompareAndSwap
    <3>4. NobodyStranded'
      BY <3>1, <3>2, <3>3
    <3> HIDE DEF NobodyStranded
    <3>5. QED
      BY <1>0, <1>3, <2>2, <3>1, <3>2, <3>4 DEF CompareAndSwap
  <2>3. QED
    BY <2>1, <2>2
<1>4. CASE SendErr(b)
  <2>1. NobodyStranded'
    BY <1>4 DEF SendErr
  <2> HIDE DEF NobodyStranded
  <2>2. QED
    BY <1>0, <1>4, <2>1 DEF SendErr
<1>5. QED
  BY <1>1, <1>2, <1>3, <1>4 DEF Goroutine

\* The invariant rules out that the loop gives up early on a success.
LEMMA IInvNoLostSuccess == IInv => NoLostSuccess
<1>1. SUFFICES ASSUME IInv, wait = "fail", turns = 0, NEW b \in Backends
               PROVE  gr[b] = "sentErr"
  BY DEF NoLostSuccess
<1>2. ready = NoBackend
  BY <1>1 DEF IInv, WaiterInStep
<1>3. \A c \in Backends : gr[c] \in Ended
  BY <1>1, <1>2 DEF IInv, LoopTookAll, MessagesFromEnded
<1>4. ~bucketAlreadyCreated
  BY <1>1, <1>3, <1>2 DEF IInv, WinnerWaits
<1>5. QED
  BY <1>1, <1>3, <1>4 DEF IInv, NobodyPastSwap

LEMMA WaiterIInv ==
  ASSUME IInv, Waiter \/ Expire \/ Leave
  PROVE  IInv'
<1> USE DEF IInv, TypeOK, OneWinner, RecordedExists, MessagesFromEnded, WinnerWaits,
       NobodyPastSwap, ToldIsReady, SuccessIsMade, WaiterInStep, LoopTookAll, DoneIsExpired,
       ErrorIsKept, FailureIsReported, NobodyStranded
<1>0. NoBackend \notin Backends /\ IsFiniteSet(Backends)
  BY FanoutAssumption
<1>1. ASSUME NEW b \in Backends, ReceiveReady(b) PROVE IInv'
  BY <1>0, <1>1 DEF ReceiveReady, Selecting
<1>2. ASSUME NEW b \in Backends, ReceiveErr(b) PROVE IInv'
  BY <1>0, <1>2 DEF ReceiveErr, Selecting
<1>3. CASE ReceiveDone
  BY <1>0, <1>3 DEF ReceiveDone, Selecting
<1>4. CASE LoopEnds
  <2>1. turns = 0 => received = Backends
    <3>1. Cardinality(received) + turns >= Cardinality(Backends)
      BY <1>4 DEF LoopEnds, i, backendCount
    <3>2. QED
      BY <1>0, <3>1, SubsetSize
  <2>2. QED
    BY <1>0, <1>4, <2>1 DEF LoopEnds
<1>5. CASE Return
  <2>1. CASE ctx = "live" /\ recorded' = ready /\ createErr' = IF wait = "record" THEN "nil" ELSE createErr
    <3>1. turns = 0
      BY <2>1
    <3>2. wait = "fail" => createErr # "nil"
      BY <3>1, IInvNoLostSuccess, FanoutAssumption DEF NoLostSuccess
    <3>3. FailureIsReported'
      BY <1>5, <2>1, <3>2 DEF Return
    <3>4. QED
      BY <1>0, <1>5, <2>1, <3>3 DEF Return
  <2>2. CASE createErr' = "update" /\ UNCHANGED recorded
    BY <1>0, <1>5, <2>2 DEF Return
  <2>3. CASE left /\ UNCHANGED recorded /\ createErr' = IF wait = "record" THEN "nil" ELSE createErr
    BY <1>0, <1>5, <2>3 DEF Return
  <2>4. QED
    BY <1>5, <2>1, <2>2, <2>3 DEF Return
<1>6. CASE Expire
  BY <1>0, <1>6 DEF Expire
<1>7. CASE Leave
  BY <1>0, <1>7 DEF Leave
<1>8. QED
  BY <1>1, <1>2, <1>3, <1>4, <1>5, <1>6, <1>7 DEF Waiter

LEMMA NextIInv == IInv /\ [Next]_vars => IInv'
<1>1. IInv /\ UNCHANGED vars => IInv'
  BY DEF vars, IInv, TypeOK, OneWinner, RecordedExists, MessagesFromEnded, WinnerWaits,
     NobodyPastSwap, ToldIsReady, SuccessIsMade, WaiterInStep, LoopTookAll, DoneIsExpired,
     ErrorIsKept, FailureIsReported, NobodyStranded
<1>2. QED
  BY <1>1, GoroutineIInv, WaiterIInv DEF Next

LEMMA SpecIInv == Spec => []IInv
BY InitIInv, NextIInv, PTL DEF Spec

\* Every reachable state of the fan-out is well typed.
THEOREM TypeCorrect == Spec => []TypeOK
<1>1. IInv => TypeOK
  BY DEF IInv
<1>2. QED
  BY <1>1, SpecIInv, PTL

\* At most one goroutine ever sends on readyChan, for any number of backends.
THEOREM OneWinnerCorrect == Spec => []OneWinner
<1>1. IInv => OneWinner
  BY DEF IInv
<1>2. QED
  BY <1>1, SpecIInv, PTL

\* The backend that Create records as created has the bucket.
THEOREM RecordedExistsCorrect == Spec => []RecordedExists
<1>1. IInv => RecordedExists
  BY DEF IInv
<1>2. QED
  BY <1>1, SpecIInv, PTL

\* No goroutine of Create ever blocks on errChan.
THEOREM ErrChanCorrect == Spec => []ErrChanNeverFull
<1>1. IInv => ErrChanNeverFull
  <2>1. SUFFICES ASSUME IInv, NEW b \in Backends, gr[b] \in Sending
                 PROVE  Cardinality(errChan) < Cardinality(Backends)
    BY DEF ErrChanNeverFull, backendCount
  <2>2. b \in Backends \ errChan /\ errChan \in SUBSET Backends
    BY <2>1 DEF IInv, MessagesFromEnded, TypeOK
  <2>3. QED
    BY <2>2, SubsetSize, FanoutAssumption
<1>2. QED
  BY <1>1, SpecIInv, PTL

\* Before its deadline, Create declares failure only if every CreateBucket call failed.
THEOREM NoLostSuccessCorrect == Spec => []NoLostSuccess
BY IInvNoLostSuccess, SpecIInv, PTL

\* A Create that recorded no backend returns an error, deadline or not, unless the
\* CR was paused or deleted meanwhile.
THEOREM FailureIsReportedCorrect == Spec => []FailureIsReported
<1>1. IInv => FailureIsReported
  BY DEF IInv
<1>2. QED
  BY <1>1, SpecIInv, PTL

\* The fan-out has no deadlock: no message is lost between a goroutine and the
\* loop, and before the deadline the loop never leaves a winner behind.
THEOREM NobodyStrandedCorrect == Spec => []NobodyStranded
<1>1. IInv => NobodyStranded
  BY DEF IInv
<1>2. QED
  BY <1>1, SpecIInv, PTL

---------------------------------------------------------------------------
(* Refinement *)

LEMMA InitRefines == Init => Outcome!Init
BY DEF Init, Outcome!Init

LEMMA GoroutineRefines ==
  ASSUME IInv, NEW b \in Backends, Goroutine(b)
  PROVE  Outcome!Make(b) \/ UNCHANGED Outcome!vars
<1> USE DEF Outcome!Make, Outcome!vars, waiter
<1>1. CASE CreateBucketSucceeds(b)
  BY <1>1 DEF CreateBucketSucceeds
<1>2. CASE CreateBucketFails(b)
  BY <1>2 DEF CreateBucketFails
<1>3. CASE CompareAndSwap(b)
  BY <1>3 DEF CompareAndSwap, IInv, SuccessIsMade, TypeOK
<1>4. CASE SendErr(b)
  BY <1>4 DEF SendErr
<1>5. QED
  BY <1>1, <1>2, <1>3, <1>4 DEF Goroutine

LEMMA WaiterRefines ==
  ASSUME IInv, IInv', Waiter \/ Expire \/ Leave
  PROVE  Outcome!Next \/ UNCHANGED Outcome!vars
<1> USE DEF Outcome!Next, Outcome!vars
<1>0. NoBackend \notin Backends /\ "pending" \notin Backends
  BY FanoutAssumption
<1>1. ASSUME NEW b \in Backends, ReceiveReady(b) PROVE UNCHANGED Outcome!vars
  BY <1>1 DEF ReceiveReady, Selecting
<1>2. ASSUME NEW b \in Backends, ReceiveErr(b) PROVE UNCHANGED Outcome!vars
  BY <1>2 DEF ReceiveErr, Selecting, IInv, WaiterInStep
<1>3. CASE ReceiveDone
  BY <1>3 DEF ReceiveDone, Selecting
<1>4. CASE LoopEnds
  BY <1>4 DEF LoopEnds
<1>5. CASE Return
  <2>1. recorded = NoBackend /\ wait # "returned"
    BY <1>5 DEF Return, IInv, WaiterInStep
  <2>2. CASE ctx = "live" /\ recorded' = ready /\ createErr' = IF wait = "record" THEN "nil" ELSE createErr
    <3>0. /\ UNCHANGED <<made, bucketAlreadyCreated, left>> /\ wait' = "returned"
          /\ ctx # "expired" /\ ctx' # "expired" /\ createErr # "update" /\ createErr' # "update"
      BY <1>5, <2>1, <2>2 DEF Return, IInv, WaiterInStep
    <3>1. CASE wait = "record"
      <4>1. ready # NoBackend /\ ready \in made /\ bucketAlreadyCreated
        BY <3>1 DEF IInv, WaiterInStep, NobodyPastSwap, TypeOK
      <4>2. QED
        BY <1>0, <2>1, <2>2, <3>0, <4>1 DEF Outcome!Settle
    <3>2. CASE wait = "fail"
      <4>1. turns = 0 /\ ready = NoBackend
        BY <2>2, <3>2 DEF IInv, WaiterInStep, DoneIsExpired, TypeOK
      <4>2. ~bucketAlreadyCreated
        BY <3>2, <4>1, IInvNoLostSuccess DEF NoLostSuccess, IInv, WinnerWaits
      <4>3. QED
        BY <2>1, <2>2, <3>0, <4>1, <4>2 DEF Outcome!Settle
    <3>3. QED
      BY <1>5, <3>1, <3>2 DEF Return
  <2>3. CASE createErr' = "update" /\ UNCHANGED recorded
    BY <1>5, <2>1, <2>3 DEF Return, Outcome!Settle
  <2>4. CASE left /\ UNCHANGED recorded /\ createErr' = IF wait = "record" THEN "nil" ELSE createErr
    BY <1>5, <2>1, <2>4 DEF Return, Outcome!Settle
  <2>5. QED
    BY <1>5, <2>2, <2>3, <2>4 DEF Return
<1>6. CASE Expire
  BY <1>6 DEF Expire, Outcome!Expire
<1>7. CASE Leave
  BY <1>7 DEF Leave, Outcome!Expire
<1>8. QED
  BY <1>1, <1>2, <1>3, <1>4, <1>5, <1>6, <1>7 DEF Waiter

\* The goroutines, channels and wait loop of Create implement CreateOutcome: one
\* settlement, on a backend that has the bucket, or a failure that is justified.
THEOREM FanoutImplementsOutcome == Spec => ImplementsOutcome
<1>1. IInv /\ IInv' /\ [Next]_vars => [Outcome!Next]_Outcome!vars
  <2>1. IInv /\ UNCHANGED vars => UNCHANGED Outcome!vars
    BY DEF vars, Outcome!vars
  <2>2. QED
    BY <2>1, GoroutineRefines, WaiterRefines DEF Next, Outcome!Next
<1>2. QED
  BY <1>1, InitRefines, SpecIInv, PTL DEF Spec, ImplementsOutcome, Outcome!Spec
=============================================================================
