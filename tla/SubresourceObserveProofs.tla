----------------------- MODULE SubresourceObserveProofs -----------------------
(***************************************************************************)
(* Proofs, for every finite set of backends and every set of clients, that *)
(* a subresource client's Observe leaves nobody on its channels when it    *)
(* says Updated, and that it implements ObserveAnswer.                     *)
(***************************************************************************)
EXTENDS SubresourceObserve, FiniteSetTheorems, TLAPS

(* The parts of the inductive invariant. *)

\* A goroutine that has not sent yet has found nothing.
UnseenUntilSent == \A b \in Backends : gr[b] \in {"start", "looking"} => answer[b] = "unseen"

\* The loop goes on only past messages that ask for nothing, each the last of
\* its goroutine.
HeardIsFine ==
  result = "waiting" => \A b \in heard : gr[b] = "done" /\ answer[b] \in {"NoAction", "Updated"}

Inv == TypeOK /\ UnseenUntilSent /\ HeardIsFine /\ UpdatedLeavesNobody /\ LoopIsServed

USE DEF Asks, ResourceStatus

\* As many messages as backends are one of every backend.
LEMMA AllHeard ==
  ASSUME heard \in SUBSET Backends, Cardinality(heard) >= Cardinality(Backends)
  PROVE  heard = Backends
<1>1. IsFiniteSet(Backends)
  BY ObserveAssumption
<1>2. IsFiniteSet(heard) /\ Cardinality(heard) <= Cardinality(Backends)
  BY <1>1, FS_Subset
<1>3. Cardinality(heard) \in Nat /\ Cardinality(Backends) \in Nat
  BY <1>1, <1>2, FS_CardinalityType
<1>4. Cardinality(heard) = Cardinality(Backends)
  BY <1>2, <1>3
<1>5. QED
  BY <1>1, <1>4, FS_Subset

---------------------------------------------------------------------------
(* The invariant is preserved. *)

LEMMA InitInv == Init => Inv
  BY DEF Init, Inv, TypeOK, UnseenUntilSent, HeardIsFine, UpdatedLeavesNobody,
     LoopIsServed

LEMMA BeginInv ==
  ASSUME Inv, NEW k \in Clients, Begin(k)
  PROVE  Inv'
<1>1. TypeOK'
  BY DEF Begin, Inv, TypeOK
<1>2. UnseenUntilSent'
  BY DEF Begin, UnseenUntilSent
<1>3. HeardIsFine'
  BY DEF Begin, HeardIsFine
<1>4. UpdatedLeavesNobody'
  BY DEF Begin, UpdatedLeavesNobody
<1>5. LoopIsServed'
  BY DEF Begin, LoopIsServed
<1>6. QED
  BY <1>1, <1>2, <1>3, <1>4, <1>5 DEF Inv

LEMMA GoroutineInv ==
  ASSUME Inv, NEW b \in Backends, Goroutine(b)
  PROVE  Inv'
<1>1. ASSUME NEW u \in BOOLEAN, CheckHealth(b, u) PROVE Inv'
  <2>1. TypeOK'
    BY <1>1 DEF CheckHealth, Inv, TypeOK
  <2>2. UnseenUntilSent'
    BY <1>1 DEF CheckHealth, Inv, TypeOK, UnseenUntilSent
  <2>3. HeardIsFine' /\ UpdatedLeavesNobody'
    BY <1>1 DEF CheckHealth, Inv, TypeOK, HeardIsFine, UpdatedLeavesNobody
  <2>4. LoopIsServed'
    BY <1>1 DEF CheckHealth, Inv, TypeOK, LoopIsServed, HasErrChan
  <2>5. QED
    BY <2>1, <2>2, <2>3, <2>4 DEF Inv
<1>2. ASSUME NEW status \in ResourceStatus \cup {"error"}, Look(b, status) PROVE Inv'
  <2>1. TypeOK'
    BY <1>2 DEF Look, Inv, TypeOK
  <2>2. UnseenUntilSent'
    BY <1>2 DEF Look, Inv, TypeOK, UnseenUntilSent
  <2>3. HeardIsFine' /\ UpdatedLeavesNobody'
    BY <1>2 DEF Look, Inv, TypeOK, HeardIsFine, UpdatedLeavesNobody
  <2>4. LoopIsServed'
    BY <1>2 DEF Look, Inv, TypeOK, LoopIsServed, HasErrChan
  <2>5. QED
    BY <2>1, <2>2, <2>3, <2>4 DEF Inv
<1>3. QED
  BY <1>1, <1>2 DEF Goroutine

LEMMA LoopInv ==
  ASSUME Inv, Loop \/ Expire
  PROVE  Inv'
<1>1. CASE ReceiveDone \/ Expire
  BY <1>1 DEF ReceiveDone, Expire, Inv, TypeOK, UnseenUntilSent, HeardIsFine,
     UpdatedLeavesNobody, LoopIsServed, HasErrChan
<1>2. CASE LoopEnds
  <2>1. heard = Backends
    BY <1>2, AllHeard DEF LoopEnds, Inv, TypeOK
  <2>2. QED
    BY <1>2, <2>1 DEF LoopEnds, Inv, TypeOK, UnseenUntilSent, HeardIsFine,
       UpdatedLeavesNobody, LoopIsServed
<1>3. ASSUME NEW b \in Backends, ReceiveObservation(b) \/ ReceiveErr(b) PROVE Inv'
  <2>1. TypeOK'
    BY <1>3 DEF ReceiveObservation, ReceiveErr, Inv, TypeOK
  <2>2. UnseenUntilSent'
    BY <1>3 DEF ReceiveObservation, ReceiveErr, Inv, TypeOK, UnseenUntilSent
  <2>3. HeardIsFine'
    BY <1>3 DEF ReceiveObservation, ReceiveErr, Inv, TypeOK, HeardIsFine
  <2>4. UpdatedLeavesNobody'
    BY <1>3 DEF ReceiveObservation, ReceiveErr, Inv, TypeOK, UpdatedLeavesNobody
  <2>5. LoopIsServed'
    BY <1>3 DEF ReceiveObservation, ReceiveErr, Inv, TypeOK, LoopIsServed, HasErrChan
  <2>6. QED
    BY <2>1, <2>2, <2>3, <2>4, <2>5 DEF Inv
<1>4. QED
  BY <1>1, <1>2, <1>3 DEF Loop

LEMMA SpecInv == Spec => []Inv
<1>1. Inv /\ [Next]_call => Inv'
  <2>1. Inv /\ UNCHANGED call => Inv'
    BY DEF call, Inv, TypeOK, UnseenUntilSent, HeardIsFine, UpdatedLeavesNobody,
       LoopIsServed, HasErrChan
  <2>2. QED
    BY <2>1, BeginInv, GoroutineInv, LoopInv DEF Next
<1>2. QED
  BY <1>1, InitInv, PTL DEF Spec

\* Every variable keeps its type; in particular Observe returns no NoAction, and
\* no status of a kind that external.Observe does not know.
THEOREM TypeCorrect == Spec => []TypeOK
  BY SpecInv, PTL DEF Inv

\* When Observe says Updated, no goroutine is left blocked on its channels.
THEOREM UpdatedLeavesNobodyCorrect == Spec => []UpdatedLeavesNobody
  BY SpecInv, PTL DEF Inv

\* Observe of no client waits for a message that never comes, whichever backends
\* are Unhealthy and whatever the others answer.
THEOREM LoopIsServedCorrect == Spec => []LoopIsServed
  BY SpecInv, PTL DEF Inv

---------------------------------------------------------------------------
(* Refinement *)

LEMMA InitRefines == Init => Answer!Init
  BY DEF Init, Answer!Init, Answer!Unseen

LEMMA StepRefines ==
  ASSUME Inv, Next
  PROVE  Answer!Next \/ UNCHANGED Answer!vars
<1> USE DEF Answer!Next, Answer!vars
<1>1. ASSUME NEW k \in Clients, Begin(k) PROVE Answer!Begin
  BY <1>1 DEF Begin, Skips, Answer!Begin, Answer!Unseen
<1>2. ASSUME NEW b \in Backends, Goroutine(b) PROVE Answer!Look(b) \/ UNCHANGED Answer!vars
  <2>1. ASSUME NEW u \in BOOLEAN, CheckHealth(b, u) PROVE Answer!Look(b) \/ UNCHANGED Answer!vars
    <3>1. answer[b] = "unseen" /\ answer \in [Backends -> ResourceStatus \cup {"unseen", "error"}]
      BY <2>1 DEF CheckHealth, Inv, TypeOK, UnseenUntilSent
    <3>2. CASE u
      BY <2>1, <3>1, <3>2 DEF CheckHealth, Answer!Look, Answer!Verdicts, Answer!Fine
    <3>3. CASE ~u
      <4>1. answer' = answer
        BY <2>1, <3>1, <3>3 DEF CheckHealth
      <4>2. QED
        BY <2>1, <4>1 DEF CheckHealth
    <3>4. QED
      BY <3>2, <3>3
  <2>2. ASSUME NEW status \in ResourceStatus \cup {"error"}, Look(b, status) PROVE Answer!Look(b)
    BY <2>2 DEF Look, Inv, UnseenUntilSent, Answer!Look, Answer!Verdicts, Answer!Fine
  <2>3. QED
    BY <1>2, <2>1, <2>2 DEF Goroutine
<1>3. ASSUME NEW b \in Backends, ReceiveObservation(b) \/ ReceiveErr(b)
      PROVE  Answer!Settle \/ UNCHANGED Answer!vars
  BY <1>3 DEF ReceiveObservation, ReceiveErr, Answer!Settle
<1>4. CASE ReceiveDone
  BY <1>4 DEF ReceiveDone, Answer!Settle
<1>5. CASE LoopEnds
  <2>1. heard = Backends
    BY <1>5, AllHeard DEF LoopEnds, Inv, TypeOK
  <2>2. QED
    BY <1>5, <2>1 DEF LoopEnds, Inv, HeardIsFine, Answer!Settle, Answer!Fine
<1>6. CASE Expire
  BY <1>6 DEF Expire, Answer!Expire
<1>7. QED
  BY <1>1, <1>2, <1>3, <1>4, <1>5, <1>6 DEF Next, Loop

\* The goroutines, channels and loop of Observe implement ObserveAnswer: up to date
\* only if every backend is fine, a change only if some backend needs it, an
\* error only for an error or the deadline.
THEOREM ObserveImplementsAnswer == Spec => ImplementsAnswer
<1>1. Inv /\ [Next]_call => [Answer!Next]_Answer!vars
  <2>1. UNCHANGED call => UNCHANGED Answer!vars
    BY DEF call, Answer!vars
  <2>2. QED
    BY <2>1, StepRefines
<1>2. QED
  BY <1>1, InitRefines, SpecInv, PTL DEF Spec, ImplementsAnswer, Answer!Spec
=============================================================================
