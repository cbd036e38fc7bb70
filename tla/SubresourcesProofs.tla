------------------------- MODULE SubresourcesProofs -------------------------
(***************************************************************************)
(* Proofs about the subresource clients, for any backends, any list of     *)
(* clients and any contents.  One inductive invariant carries them: what   *)
(* the goroutine of a backend has passed is applied there (or the backend  *)
(* was ignored by Observe), and a bucket condition of Available means that *)
(* it has passed everything.                                               *)
(***************************************************************************)
EXTENDS Subresources, TLAPS

\* The answers of observeBackend.
Statuses == {"NoAction", "Updated", "NeedsUpdate", "NeedsDeletion"}

\* What a client leaves behind when it has nothing to do is what was asked for.
LEMMA StatusApplied ==
  ASSUME NEW k \in Kinds, NEW want \in Wants(k), NEW have \in Haves, lock \in BOOLEAN
  PROVE  /\ observeBackend(k, want, have) \in Statuses
         /\ observeBackend(k, want, have) \in {"NoAction", "Updated"} => Applied(k, want, have)
         /\ Skips(k) => Applied(k, want, have)
<1> USE ConfigsAssumption DEF Kinds, Wants, Haves, Statuses, observeBackend, Applied, Skips
<1>1. CASE k = "lifecycle"
  BY <1>1 DEF lifecycleStatus
<1>2. CASE k = "acl"
  BY <1>2 DEF aclStatus
<1>3. CASE k = "policy"
  BY <1>3 DEF policyStatus
<1>4. CASE k = "versioning"
  BY <1>4 DEF versioningStatus
<1>5. CASE k = "objectlock"
  BY <1>5 DEF objectlockStatus
<1>6. QED
  BY <1>1, <1>2, <1>3, <1>4, <1>5

\* What Handle puts on a backend is what was asked for.
LEMMA HandleApplies ==
  ASSUME NEW k \in Kinds, NEW want \in Wants(k), NEW have \in Haves, lock \in BOOLEAN,
         ~Skips(k), NEW new, NEW status, status = observeBackend(k, want, have),
         status \in {"NeedsUpdate", "NeedsDeletion"},
         new = IF status = "NeedsDeletion" THEN Deleted(k) ELSE Written(k, want)
  PROVE  new \in Haves /\ Applied(k, want, new)
<1> USE ConfigsAssumption
    DEF Kinds, Wants, Haves, observeBackend, Applied, Skips, Deleted, Written
<1>1. CASE k = "lifecycle"
  BY <1>1 DEF lifecycleStatus
<1>2. CASE k = "acl"
  BY <1>2 DEF aclStatus
<1>3. CASE k = "policy"
  BY <1>3 DEF policyStatus
<1>4. CASE k = "versioning"
  BY <1>4 DEF versioningStatus
<1>5. CASE k = "objectlock"
  BY <1>5 DEF objectlockStatus
<1>6. QED
  BY <1>1, <1>2, <1>3, <1>4, <1>5

---------------------------------------------------------------------------
\* The goroutine of b has passed the clients before n.
Passed(b, n) ==
  \A m \in DOMAIN Clients : m < n => Applied(Clients[m], obj[Clients[m]], ext[Clients[m]][b])

PassedIsApplied == pc = "update" => \A b \in Backends : Passed(b, at[b])
ObservedIsApplied ==
  pc = "observe" => \A b \in Backends, m \in DOMAIN Clients :
    m < at[b] => <<b, m>> \in ignored \/ Applied(Clients[m], obj[Clients[m]], ext[Clients[m]][b])
AvailableIsApplied ==
  pc \in {"update", "labels"} => \A b \in Backends : bb[b] = "Available" => AppliedOn(b, obj)
CollectsAnew == pc \in {"idle", "observe"} => bb = Nothing

Inv == TypeOK /\ PassedIsApplied /\ ObservedIsApplied /\ AvailableIsApplied /\ CollectsAnew

LEMMA ClientKinds == Len(Clients) \in Nat /\ DOMAIN Clients = 1..Len(Clients)
                     /\ \A n \in DOMAIN Clients : Clients[n] \in Kinds
BY ClientsAssumption

\* Handle stops its goroutine, or goes on with the subresource applied; either
\* way the backend has what it had, or what was asked for.
LEMMA HandleSubresourceOutcome ==
  ASSUME TypeOK, NEW k \in Kinds, NEW b \in Backends,
         HandleSubresource(k, b, observeBackend(k, obj[k], ext[k][b]))
  PROVE  \E new \in Haves :
           /\ new = ext[k][b] \/ Applied(k, obj[k], new)
           /\ ext' = [ext EXCEPT ![k][b] = new]
           /\ Stop(b) \/ (Advance(b) /\ Applied(k, obj[k], new))
<1> DEFINE status == observeBackend(k, obj[k], ext[k][b])
           fresh == IF status = "NeedsDeletion" THEN Deleted(k) ELSE Written(k, obj[k])
<1>1. obj[k] \in Wants(k) /\ ext[k][b] \in Haves /\ lock \in BOOLEAN
      /\ ext = [ext EXCEPT ![k][b] = ext[k][b]]
  BY DEF TypeOK
<1>2. /\ status \in Statuses
      /\ status \in {"NoAction", "Updated"} => Applied(k, obj[k], ext[k][b])
      /\ Skips(k) => Applied(k, obj[k], ext[k][b])
  BY <1>1, StatusApplied
<1>3. ~Skips(k) /\ status \in {"NeedsUpdate", "NeedsDeletion"}
      => fresh \in Haves /\ Applied(k, obj[k], fresh)
  BY <1>1, HandleApplies
<1> HIDE DEF status, fresh
<1>4. \/ UNCHANGED ext /\ Stop(b)
      \/ UNCHANGED ext /\ Advance(b) /\ (Skips(k) \/ status \in {"NoAction", "Updated"})
      \/ /\ ~Skips(k) /\ status \in {"NeedsUpdate", "NeedsDeletion"}
         /\ ext' = [ext EXCEPT ![k][b] = fresh] /\ (Stop(b) \/ Advance(b))
  BY DEF HandleSubresource, status, fresh
<1>5. QED
  BY <1>1, <1>2, <1>3, <1>4

LEMMA HandleConditions ==
  ASSUME TypeOK, NEW k \in Kinds, NEW b \in Backends, NEW status,
         HandleSubresource(k, b, status)
  PROVE  conds' \in [Kinds -> [Backends -> Conditions]] /\ faults' \in 0..MaxFaults
<1>1. \A c \in Conditions : SetCondition(k, b, c) => conds' \in [Kinds -> [Backends -> Conditions]]
  <2> SUFFICES ASSUME NEW c \in Conditions, SetCondition(k, b, c)
               PROVE  conds' \in [Kinds -> [Backends -> Conditions]]
    OBVIOUS
  <2>1. conds \in [Kinds -> [Backends -> Conditions]]
        /\ [conds[k] EXCEPT ![b] = c] \in [Backends -> Conditions]
    BY DEF TypeOK
  <2>2. conds' = conds \/ conds' = [conds EXCEPT ![k] = [conds[k] EXCEPT ![b] = c]]
    BY <2>1 DEF SetCondition
  <2>3. QED
    BY <2>1, <2>2
<1>2. UNCHANGED conds \/ \E c \in Conditions : SetCondition(k, b, c)
  BY DEF HandleSubresource, Conditions
<1>3. faults' \in 0..MaxFaults
  <2>1. Works \/ Fails
    BY DEF HandleSubresource
  <2>2. faults \in 0..MaxFaults /\ MaxFaults \in Nat
    BY BoundsAssumption DEF TypeOK
  <2>3. QED
    BY <2>1, <2>2 DEF Works, Fails
<1>4. QED
  BY <1>1, <1>2, <1>3 DEF TypeOK
LEMMA Positions == 0 \in 0..(Len(Clients) + 1) /\ 1 \in 0..(Len(Clients) + 1)
<1>1. Len(Clients) \in Nat
  BY ClientKinds
<1>2. \A l \in Nat : 0 \in 0..(l + 1) /\ 1 \in 0..(l + 1)
  OBVIOUS
<1>3. QED
  BY <1>1, <1>2

LEMMA InitInv == Init => Inv
<1> SUFFICES ASSUME Init PROVE Inv
  OBVIOUS
<1>1. spec \in [Kinds -> Wanted] /\ (\A k \in Kinds : spec[k] \in Wants(k))
      /\ obj = spec
  <2>1. \A k \in Kinds : "none" \in Wants(k)
    BY DEF Wants, Kinds
  <2>2. spec = NoSpec /\ obj = NoSpec
    BY DEF Init
  <2>3. QED
    BY <2>1, <2>2 DEF NoSpec, Wanted
<1>2. ext \in [Kinds -> [Backends -> Haves]]
  BY DEF Init, Haves
<1>3. at \in [Backends -> 0..(Len(Clients) + 1)] /\ bb \in [Backends -> Conditions]
      /\ conds \in [Kinds -> [Backends -> Conditions]]
  <2>1. at = [b \in Backends |-> 0] /\ bb = Nothing /\ conds = NoConditions
    BY DEF Init
  <2>2. QED
    BY <2>1, Positions DEF Nothing, NoConditions, Conditions
<1>4. edits \in 0..MaxEdits /\ flips \in 0..MaxFlips /\ faults \in 0..MaxFaults
  <2>1. MaxEdits \in Nat /\ MaxFlips \in Nat /\ MaxFaults \in Nat
    BY BoundsAssumption
  <2>2. edits = 0 /\ flips = 0 /\ faults = 0
    BY DEF Init
  <2>3. QED
    BY <2>1, <2>2
<1>5. TypeOK
  BY <1>1, <1>2, <1>3, <1>4 DEF Init, TypeOK
<1>6. QED
  BY <1>5 DEF Init, Inv, PassedIsApplied, ObservedIsApplied, AvailableIsApplied, CollectsAnew

\* A step of Handle keeps the types, and what was applied stays applied.
LEMMA HandleInv ==
  ASSUME Inv, NEW b \in Backends, Handle(b)
  PROVE  Inv'
<1> PICK k : k = Clients[at[b]]
  OBVIOUS
<1>1. at[b] \in DOMAIN Clients /\ k \in Kinds /\ pc = "update"
      /\ HandleSubresource(k, b, observeBackend(k, obj[k], ext[k][b]))
      /\ UNCHANGED <<spec, auto, lock, paused, available, healthy, pc, obj, ignored, edits, flips>>
  BY ClientKinds DEF Handle, config
<1>2. PICK new \in Haves :
        /\ new = ext[k][b] \/ Applied(k, obj[k], new)
        /\ ext' = [ext EXCEPT ![k][b] = new]
        /\ Stop(b) \/ (Advance(b) /\ Applied(k, obj[k], new))
  BY <1>1, HandleSubresourceOutcome DEF Inv
<1>3. conds' \in [Kinds -> [Backends -> Conditions]] /\ faults' \in 0..MaxFaults
  BY <1>1, HandleConditions DEF Inv
<1> k \in Kinds /\ at[b] \in DOMAIN Clients
  BY <1>1
<1>4. /\ \A j \in Kinds, c \in Backends : ext'[j][c] = IF j = k /\ c = b THEN new ELSE ext[j][c]
      /\ ext' \in [Kinds -> [Backends -> Haves]]
  BY <1>2 DEF Inv, TypeOK
<1>5. at \in [Backends -> 0..(Len(Clients) + 1)] /\ bb \in [Backends -> Conditions]
  BY DEF Inv, TypeOK
<1>6. TypeOK'
  <2>1. at' \in [Backends -> 0..(Len(Clients) + 1)] /\ bb' \in [Backends -> Conditions]
    <3>1. at[b] + 1 \in 0..(Len(Clients) + 1) /\ 0 \in 0..(Len(Clients) + 1)
      BY ClientKinds
    <3>2. QED
      BY <1>2, <1>5, <3>1 DEF Stop, Advance, Conditions
  <2>2. \A j \in Kinds : spec'[j] \in Wants(j)' /\ obj'[j] \in Wants(j)'
    BY <1>1 DEF Inv, TypeOK, Wants
  <2>3. spec' \in [Kinds -> Wanted] /\ obj' \in [Kinds -> Wanted] /\ healthy' \subseteq Backends
        /\ ignored' \subseteq Backends \X DOMAIN Clients
        /\ auto' \in BOOLEAN /\ lock' \in BOOLEAN /\ available' \in BOOLEAN
        /\ paused' \in {"", "true"} /\ edits' \in 0..MaxEdits /\ flips' \in 0..MaxFlips
    BY <1>1 DEF Inv, TypeOK
  <2>4. QED
    BY <1>1, <1>3, <1>4, <2>1, <2>2, <2>3 DEF TypeOK
<1>7. \A j \in Kinds, c \in Backends : Applied(j, obj[j], ext[j][c]) => Applied(j, obj[j], ext[j][c])'
  <2> SUFFICES ASSUME NEW j \in Kinds, NEW c \in Backends, Applied(j, obj[j], ext[j][c])
               PROVE  Applied(j, obj[j], ext[j][c])'
    OBVIOUS
  <2>1. lock' = lock /\ obj' = obj /\ Applied(j, obj[j], ext'[j][c])
    BY <1>1, <1>2, <1>4
  <2>2. QED
    BY <2>1 DEF Applied
<1>8. Stop(b) \/ (Advance(b) /\ Applied(k, obj[k], ext[k][b])')
  <2>1. ext'[k][b] = new /\ lock' = lock /\ obj' = obj
    BY <1>1, <1>4
  <2>2. Applied(k, obj[k], new) => Applied(k, obj[k], ext[k][b])'
    BY <2>1 DEF Applied
  <2>3. QED
    BY <1>2, <2>2
<1>9. PassedIsApplied'
  <2> SUFFICES ASSUME NEW c \in Backends, NEW m \in DOMAIN Clients, m < at'[c]
               PROVE  Applied(Clients[m], obj[Clients[m]], ext[Clients[m]][c])'
    BY <1>1 DEF PassedIsApplied, Passed
  <2>1. Clients[m] \in Kinds /\ m \in Nat \ {0}
    BY ClientKinds
  <2>2. CASE m < at[c]
    BY <1>1, <1>7, <2>1, <2>2 DEF Inv, PassedIsApplied, Passed
  <2>3. CASE ~(m < at[c])
    <3>1. c = b /\ m = at[b] /\ Advance(b) /\ ~Stop(b)
      BY <1>5, <1>8, <2>1, <2>3 DEF Stop, Advance
    <3>2. QED
      BY <1>1, <1>8, <3>1
  <2>4. QED
    BY <2>2, <2>3
<1>10. AvailableIsApplied'
  BY <1>1, <1>2, <1>5, <1>7, ClientKinds DEF Inv, AvailableIsApplied, AppliedOn, Stop, Advance
<1>11. QED
  BY <1>1, <1>6, <1>9, <1>10 DEF Inv, ObservedIsApplied, CollectsAnew

LEMMA AppliedSame ==
  ASSUME UNCHANGED <<lock, obj, ext>>, NEW k, NEW b, Applied(k, obj[k], ext[k][b])
  PROVE  Applied(k, obj[k], ext[k][b])'
  BY DEF Applied

LEMMA AppliedStays ==
  ASSUME UNCHANGED <<lock, obj, ext>>, NEW b
  PROVE  AppliedOn(b, obj) => AppliedOn(b, obj)'
<1>1. SUFFICES ASSUME NEW n \in DOMAIN Clients,
                      Applied(Clients[n], obj[Clients[n]], ext[Clients[n]][b])
               PROVE  Applied(Clients[n], obj[Clients[n]], ext[Clients[n]][b])'
  BY DEF AppliedOn
<1>2. QED
  BY <1>1 DEF Applied

\* An end of the reconcile forgets what the invariant is about.
LEMMA EndInv ==
  ASSUME Inv, End, UNCHANGED <<spec, config, ext, healthy, edits, flips>>,
         paused' \in {"", "true"}, available' \in BOOLEAN, faults' \in 0..MaxFaults
  PROVE  Inv'
<1>1. /\ pc' = "idle" /\ at' = [b \in Backends |-> 0] /\ bb' = Nothing
      /\ obj' = NoSpec /\ conds' = NoConditions /\ ignored' = {}
      /\ UNCHANGED <<spec, auto, lock, ext, healthy, edits, flips>>
  BY DEF End, config
<1>2. at' \in [Backends -> 0..(Len(Clients) + 1)]
  BY <1>1, Positions
<1>3. obj' \in [Kinds -> Wanted] /\ \A k \in Kinds : obj'[k] \in Wants(k)' /\ spec'[k] \in Wants(k)'
  BY <1>1 DEF NoSpec, Wanted, Wants, Inv, TypeOK, Kinds
<1>4. TypeOK'
  <2>1. conds' \in [Kinds -> [Backends -> Conditions]] /\ bb' \in [Backends -> Conditions]
    BY <1>1 DEF NoConditions, Nothing, Conditions
  <2>2. /\ spec' \in [Kinds -> Wanted] /\ auto' \in BOOLEAN /\ lock' \in BOOLEAN
        /\ ext' \in [Kinds -> [Backends -> Haves]] /\ healthy' \subseteq Backends
        /\ edits' \in 0..MaxEdits /\ flips' \in 0..MaxFlips
    BY <1>1 DEF Inv, TypeOK
  <2>3. QED
    BY <1>1, <1>2, <1>3, <2>1, <2>2 DEF TypeOK
<1>5. QED
  BY <1>1, <1>4 DEF Inv, PassedIsApplied, ObservedIsApplied, AvailableIsApplied, CollectsAnew

LEMMA FaultsCount == ASSUME TypeOK, Works \/ Fails PROVE faults' \in 0..MaxFaults
<1>1. faults \in 0..MaxFaults /\ MaxFaults \in Nat
  BY BoundsAssumption DEF TypeOK
<1>2. QED
  BY <1>1 DEF Works, Fails

LEMMA StartReconcileInv == ASSUME Inv, StartReconcile PROVE Inv'
<1>1. /\ pc = "idle" /\ pc' \in {"update", "observe"}
      /\ obj' = spec /\ at' = [b \in Backends |-> 1]
      /\ UNCHANGED <<spec, auto, lock, paused, available, ext, healthy, ignored, conds, bb,
                     edits, flips, faults>>
  BY DEF StartReconcile, config, budget
<1>2. bb' = Nothing
  BY <1>1 DEF Inv, CollectsAnew
<1>3. TypeOK'
  <2>1. at' \in [Backends -> 0..(Len(Clients) + 1)]
    BY <1>1, Positions
  <2>2. \A k \in Kinds : obj'[k] \in Wants(k)' /\ spec'[k] \in Wants(k)'
    BY <1>1 DEF Wants, Inv, TypeOK
  <2>3. QED
    BY <1>1, <2>1, <2>2 DEF Inv, TypeOK
<1>4. PassedIsApplied' /\ ObservedIsApplied'
  <2>1. \A b \in Backends, m \in DOMAIN Clients : ~(m < at'[b])
    BY <1>1, ClientKinds
  <2>2. QED
    BY <2>1 DEF PassedIsApplied, ObservedIsApplied, Passed
<1>5. AvailableIsApplied' /\ CollectsAnew'
  BY <1>1, <1>2 DEF AvailableIsApplied, CollectsAnew, Nothing
<1>6. QED
  BY <1>3, <1>4, <1>5 DEF Inv

\* A goroutine of Observe that does not end the reconcile: the backend has what
\* was asked for, or is ignored, or Update starts from the first client.
LEMMA ObserveOnInv ==
  ASSUME Inv, NEW b \in Backends, ObserveOn(b), ~End
  PROVE  Inv'
<1> PICK k : k = Clients[at[b]]
  OBVIOUS
<1> DEFINE asks == Asks(observeBackend(k, obj[k], ext[k][b]))
<1>1. /\ pc = "observe" /\ at[b] \in DOMAIN Clients /\ k \in Kinds
      /\ UNCHANGED <<spec, auto, lock, paused, available, ext, healthy, edits, flips, obj, conds, bb, faults>>
      /\ \/ /\ Skips(k) \/ ~asks
            /\ at' = [at EXCEPT ![b] = @ + 1] /\ UNCHANGED <<pc, ignored>>
         \/ at' = [at EXCEPT ![b] = @ + 1] /\ ignored' = ignored \cup {<<b, at[b]>>} /\ UNCHANGED pc
         \/ pc' = "update" /\ at' = [c \in Backends |-> 1] /\ ignored' = {}
  BY ClientKinds DEF ObserveOn, Works, config
<1> k \in Kinds
  BY <1>1
<1>2. at \in [Backends -> 0..(Len(Clients) + 1)] /\ obj[k] \in Wants(k) /\ ext[k][b] \in Haves
      /\ lock \in BOOLEAN /\ ignored \subseteq Backends \X DOMAIN Clients
  BY DEF Inv, TypeOK
<1>3. Skips(k) \/ ~asks => Applied(k, obj[k], ext[k][b])
  BY <1>1, <1>2, StatusApplied DEF Asks, Statuses
<1> HIDE DEF asks
<1>4. TypeOK'
  <2>1. \A j \in Kinds : obj'[j] \in Wants(j)' /\ spec'[j] \in Wants(j)'
    BY <1>1 DEF Wants, Inv, TypeOK
  <2>2. at' \in [Backends -> 0..(Len(Clients) + 1)]
    <3>1. at[b] + 1 \in 0..(Len(Clients) + 1)
      BY <1>1, ClientKinds
    <3>2. QED
      BY <1>1, <1>2, <3>1, Positions
  <2>3. ignored' \subseteq Backends \X DOMAIN Clients
    BY <1>1, <1>2
  <2>4. pc' \in {"observe", "update"}
    BY <1>1
  <2>5. QED
    BY <1>1, <2>1, <2>2, <2>3, <2>4 DEF Inv, TypeOK
<1>5. \A j \in Kinds, c \in Backends : Applied(j, obj[j], ext[j][c]) => Applied(j, obj[j], ext[j][c])'
  BY <1>1 DEF Applied
<1>6. PassedIsApplied'
  <2>1. pc' = "update" => \A c \in Backends, m \in DOMAIN Clients : ~(m < at'[c])
    BY <1>1, ClientKinds
  <2>2. QED
    BY <2>1 DEF PassedIsApplied, Passed
<1>7. ObservedIsApplied'
  <2> SUFFICES ASSUME pc' = "observe", NEW c \in Backends, NEW m \in DOMAIN Clients, m < at'[c],
                      <<c, m>> \notin ignored'
               PROVE  Applied(Clients[m], obj[Clients[m]], ext[Clients[m]][c])'
    BY DEF ObservedIsApplied
  <2>1. Clients[m] \in Kinds /\ m \in Nat
    BY ClientKinds
  <2>2. at' = [at EXCEPT ![b] = @ + 1] /\ <<c, m>> \notin ignored
        /\ (<<c, m>> = <<b, at[b]>> => Skips(k) \/ ~asks)
    BY <1>1
  <2>3. CASE m < at[c]
    BY <1>1, <1>5, <2>1, <2>2, <2>3 DEF Inv, ObservedIsApplied
  <2>4. CASE ~(m < at[c])
    <3>1. c = b /\ m = at[b]
      BY <1>2, <2>1, <2>2, <2>4
    <3>2. QED
      BY <1>1, <1>3, <1>5, <2>2, <3>1
  <2>5. QED
    BY <2>3, <2>4
<1>8. AvailableIsApplied' /\ CollectsAnew'
  BY <1>1 DEF Inv, AvailableIsApplied, CollectsAnew, Nothing
<1>9. QED
  BY <1>4, <1>6, <1>7, <1>8 DEF Inv

\* The first callback, when it does not end the reconcile.
LEMMA UpdateStatusInv ==
  ASSUME Inv, UpdateStatus, ~End
  PROVE  Inv'
<1>1. /\ pc = "update" /\ pc' = "labels" /\ available' \in BOOLEAN
      /\ UNCHANGED <<spec, auto, lock, paused, ext, healthy, edits, flips, obj, at, ignored, conds, bb, faults>>
  BY DEF UpdateStatus, Works, config
<1>2. TypeOK'
  <2>1. \A k \in Kinds : obj'[k] \in Wants(k)' /\ spec'[k] \in Wants(k)'
    BY <1>1 DEF Wants, Inv, TypeOK
  <2>2. QED
    BY <1>1, <2>1 DEF Inv, TypeOK
<1>3. AvailableIsApplied'
  BY <1>1, AppliedStays DEF Inv, AvailableIsApplied
<1>4. QED
  BY <1>1, <1>2, <1>3 DEF Inv, PassedIsApplied, ObservedIsApplied, CollectsAnew

LEMMA UpdateOnBackendInv ==
  ASSUME Inv, NEW b \in Backends, updateOnBackend(b)
  PROVE  Inv'
<1>1. /\ pc = "update" /\ pc' = "update" /\ at[b] = Len(Clients) + 1
      /\ at' = [at EXCEPT ![b] = 0]
      /\ bb' = [bb EXCEPT ![b] = IF b \in healthy THEN "Available" ELSE "Unavailable"]
      /\ UNCHANGED <<spec, auto, lock, paused, available, ext, healthy, obj, ignored, conds,
                     edits, flips, faults>>
  BY DEF updateOnBackend, config, budget
<1>2. TypeOK'
  <2>1. \A k \in Kinds : obj'[k] \in Wants(k)' /\ spec'[k] \in Wants(k)'
    BY <1>1 DEF Wants, Inv, TypeOK
  <2>2. at' \in [Backends -> 0..(Len(Clients) + 1)] /\ bb' \in [Backends -> Conditions]
    BY <1>1, Positions DEF Inv, TypeOK, Conditions
  <2>3. QED
    BY <1>1, <2>1, <2>2 DEF Inv, TypeOK
<1>3. \A c \in Backends : AppliedOn(c, obj) => AppliedOn(c, obj)'
  BY <1>1, AppliedStays
<1>4. AppliedOn(b, obj)
  BY <1>1, ClientKinds DEF Inv, PassedIsApplied, Passed, AppliedOn
<1>5. PassedIsApplied'
  <2> SUFFICES ASSUME NEW c \in Backends, NEW m \in DOMAIN Clients, m < at'[c]
               PROVE  Applied(Clients[m], obj[Clients[m]], ext[Clients[m]][c])'
    BY DEF PassedIsApplied, Passed
  <2>1. c # b /\ m < at[c]
    <3>1. m \in Nat \ {0}
      BY ClientKinds
    <3>2. at'[c] = IF c = b THEN 0 ELSE at[c]
      BY <1>1 DEF Inv, TypeOK
    <3>3. QED
      BY <3>1, <3>2
  <2>2. Applied(Clients[m], obj[Clients[m]], ext[Clients[m]][c])
    BY <1>1, <2>1 DEF Inv, PassedIsApplied, Passed
  <2>3. QED
    BY <1>1, <2>2 DEF Applied
<1>6. AvailableIsApplied'
  BY <1>1, <1>3, <1>4 DEF Inv, TypeOK, AvailableIsApplied
<1>7. QED
  BY <1>1, <1>2, <1>5, <1>6 DEF Inv, ObservedIsApplied, CollectsAnew

\* The user and the health of the backends touch nothing that a reconcile has
\* read, collected or applied.
LEMMA EnvironmentInv ==
  ASSUME Inv, UserEdit \/ \E b \in Backends : HealthChange(b)
  PROVE  Inv'
<1>1. UNCHANGED <<auto, lock, available, ext, pc, obj, at, ignored, conds, bb, faults>>
  BY DEF UserEdit, HealthChange, config
<1>2. TypeOK'
  <2>1. \A k \in Kinds : obj'[k] \in Wants(k)'
    BY <1>1 DEF Wants, Inv, TypeOK
  <2>2. CASE UserEdit
    <3>0. PICK k \in Kinds : \E want \in Wants(k) : spec' = [spec EXCEPT ![k] = want]
      BY <2>2 DEF UserEdit
    <3>1. PICK want \in Wants(k) : spec' = [spec EXCEPT ![k] = want]
      BY <3>0
    <3>2. \A j \in Kinds : spec'[j] \in Wants(j)
      BY <3>1 DEF Inv, TypeOK
    <3>3. Wants(k) \subseteq Wanted /\ \A j \in Kinds : Wants(j)' = Wants(j)
      BY <1>1 DEF Wants, Wanted, Kinds
    <3>4. spec' \in [Kinds -> Wanted]
      BY <3>1, <3>3 DEF Inv, TypeOK
    <3>5. edits' \in 0..MaxEdits
      <4>1. edits \in 0..MaxEdits /\ MaxEdits \in Nat
        BY BoundsAssumption DEF Inv, TypeOK
      <4>2. edits < MaxEdits /\ edits' = edits + 1
        BY <2>2 DEF UserEdit
      <4>3. QED
        BY <4>1, <4>2
    <3>6. QED
      BY <1>1, <2>1, <2>2, <3>2, <3>3, <3>4, <3>5 DEF Inv, TypeOK, UserEdit
  <2>3. CASE \E b \in Backends : HealthChange(b)
    <3>1. flips' \in 0..MaxFlips
      <4>1. flips \in 0..MaxFlips /\ MaxFlips \in Nat
        BY BoundsAssumption DEF Inv, TypeOK
      <4>2. flips < MaxFlips /\ flips' = flips + 1
        BY <2>3 DEF HealthChange
      <4>3. QED
        BY <4>1, <4>2
    <3>2. UNCHANGED <<spec, paused, edits>> /\ healthy' \subseteq Backends
      BY <2>3 DEF HealthChange, Inv, TypeOK
    <3>3. \A k \in Kinds : spec'[k] \in Wants(k)'
      BY <1>1, <3>2 DEF Wants, Inv, TypeOK
    <3>4. QED
      BY <1>1, <2>1, <3>1, <3>2, <3>3 DEF Inv, TypeOK
  <2>4. QED
    BY <2>2, <2>3
<1>3. PassedIsApplied' /\ ObservedIsApplied'
  BY <1>1, AppliedSame DEF Inv, PassedIsApplied, ObservedIsApplied, Passed
<1>4. AvailableIsApplied'
  BY <1>1, AppliedStays DEF Inv, AvailableIsApplied
<1>5. QED
  BY <1>1, <1>2, <1>3, <1>4 DEF Inv, CollectsAnew

LEMMA NextInv == Inv /\ [Next]_vars => Inv'
<1> SUFFICES ASSUME Inv, [Next]_vars PROVE Inv'
  OBVIOUS
<1>1. CASE StartReconcile
  BY <1>1, StartReconcileInv
<1>2. CASE UpToDate \/ \E b \in Backends : ObserveOn(b)
  <2>1. faults' \in 0..MaxFaults
    BY <1>2, FaultsCount DEF UpToDate, ObserveOn, budget, Works, Inv
  <2>2. UNCHANGED <<spec, config, paused, available, ext, healthy, edits, flips>>
        /\ paused' \in {"", "true"} /\ available' \in BOOLEAN
    BY <1>2 DEF UpToDate, ObserveOn, budget, Inv, TypeOK
  <2>3. CASE End
    BY <2>1, <2>2, <2>3, EndInv
  <2>4. CASE ~End
    BY <1>2, <2>4, ObserveOnInv DEF UpToDate
  <2>5. QED
    BY <2>3, <2>4
<1>3. CASE UpdateStatus
  <2>1. faults' \in 0..MaxFaults
    BY <1>3, FaultsCount DEF UpdateStatus, Inv
  <2>2. UNCHANGED <<spec, config, paused, ext, healthy, edits, flips>>
        /\ paused' \in {"", "true"} /\ available' \in BOOLEAN
    BY <1>3 DEF UpdateStatus, Inv, TypeOK
  <2>3. CASE End
    BY <2>1, <2>2, <2>3, EndInv
  <2>4. CASE ~End
    BY <1>3, <2>4, UpdateStatusInv
  <2>5. QED
    BY <2>3, <2>4
<1>4. CASE UpdateLabels
  <2>1. faults' \in 0..MaxFaults
    BY <1>4, FaultsCount DEF UpdateLabels, Inv
  <2>2. UNCHANGED <<spec, config, available, ext, healthy, edits, flips>> /\ End
        /\ paused' \in {"", "true"} /\ available' \in BOOLEAN
    BY <1>4 DEF UpdateLabels, Inv, TypeOK
  <2>3. QED
    BY <2>1, <2>2, EndInv
<1>5. CASE \E b \in Backends : Handle(b)
  BY <1>5, HandleInv
<1>6. CASE \E b \in Backends : updateOnBackend(b)
  BY <1>6, UpdateOnBackendInv
<1>7. CASE UserEdit \/ \E b \in Backends : HealthChange(b)
  BY <1>7, EnvironmentInv
<1>8. CASE UNCHANGED vars
  <2>1. UNCHANGED <<spec, auto, lock, paused, available, ext, healthy, pc, obj, at, ignored,
                    conds, bb, edits, flips, faults>>
    BY <1>8 DEF vars
  <2>2. TypeOK'
    BY <2>1 DEF Inv, TypeOK, Wants
  <2>3. PassedIsApplied' /\ ObservedIsApplied'
    BY <2>1, AppliedSame DEF Inv, PassedIsApplied, ObservedIsApplied, Passed
  <2>4. AvailableIsApplied'
    BY <2>1, AppliedStays DEF Inv, AvailableIsApplied
  <2>5. QED
    BY <2>1, <2>2, <2>3, <2>4 DEF Inv, CollectsAnew
<1>9. QED
  BY <1>1, <1>2, <1>3, <1>4, <1>5, <1>6, <1>7, <1>8 DEF Next, Reconcile

---------------------------------------------------------------------------
\* The invariant holds of every behaviour.
THEOREM InvCorrect == Spec => []Inv
<1>1. QED
  BY InitInv, NextInv, PTL DEF Spec

\* Every variable of Observe and Update keeps its type, for any backends and any
\* clients: what Handle writes is always a proper configuration.
THEOREM TypeCorrect == Spec => []TypeOK
<1>1. Inv => TypeOK
  BY DEF Inv
<1>2. QED
  BY <1>1, InvCorrect, PTL

\* Update pauses a CR (isPauseRequired) only if every subresource that it
\* handled is applied on every backend, those without a condition included.
THEOREM PauseOnlyWhenAppliedCorrect == Spec => PauseOnlyWhenApplied
<1>1. Inv /\ [Next]_vars =>
        (pc = "labels" /\ paused # "true" /\ paused' = "true"
         => \A b \in Backends : AppliedOn(b, obj))
  <2> SUFFICES ASSUME Inv, [Next]_vars, pc = "labels", paused # "true", paused' = "true"
               PROVE  \A b \in Backends : AppliedOn(b, obj)
    OBVIOUS
  <2>1. UpdateLabels
    BY DEF Next, Reconcile, StartReconcile, ObserveOn, UpToDate, Handle, updateOnBackend,
           UpdateStatus, UserEdit, HealthChange, vars
  <2>2. \A b \in Backends : bb[b] = "Available"
    BY <2>1 DEF UpdateLabels, isPauseRequired
  <2>3. QED
    BY <2>2 DEF Inv, AvailableIsApplied
<1>2. QED
  BY <1>1, InvCorrect, PTL DEF Spec, PauseOnlyWhenApplied

\* Observe takes a CR for up to date only if every backend has what the CR asked
\* for when it was read, of every subresource whose client did not find that
\* backend Unhealthy, although each goroutine looks at a time of its own.
THEOREM UpToDateIsAppliedCorrect == Spec => UpToDateIsApplied
<1>1. Inv /\ [Next]_vars =>
        (pc = "observe" /\ pc' = "idle" /\ UNCHANGED faults
         => \A b \in Backends, n \in DOMAIN Clients : <<b, n>> \notin ignored
              => Applied(Clients[n], obj[Clients[n]], ext[Clients[n]][b]))
  <2> SUFFICES ASSUME Inv, [Next]_vars, pc = "observe", pc' = "idle", UNCHANGED faults,
                      NEW b \in Backends, NEW n \in DOMAIN Clients, <<b, n>> \notin ignored
               PROVE  Applied(Clients[n], obj[Clients[n]], ext[Clients[n]][b])
    OBVIOUS
  <2>1. ~Fails
    <3>1. faults \in 0..MaxFaults /\ MaxFaults \in Nat
      BY BoundsAssumption DEF Inv, TypeOK
    <3>2. QED
      BY <3>1 DEF Fails
  <2>2. UpToDate
    BY <2>1 DEF Next, Reconcile, StartReconcile, ObserveOn, Handle, updateOnBackend, UpdateStatus,
                UpdateLabels, UserEdit, HealthChange, vars
  <2>3. n < at[b]
    BY <2>2, ClientKinds DEF UpToDate
  <2>4. QED
    BY <2>3 DEF Inv, ObservedIsApplied
<1>2. QED
  BY <1>1, InvCorrect, PTL DEF Spec, UpToDateIsApplied
=============================================================================
