------------------------- MODULE BackendHealthProofs -------------------------
(***************************************************************************)
(* Type correctness of the two ProviderConfig controllers, and that the    *)
(* health they hand to each other through the ProviderConfig, the cache    *)
(* and the store comes from a check that succeeded, for any Bucket CRs,    *)
(* un-pausing goroutines and bounds.                                       *)
(***************************************************************************)
EXTENDS BackendHealth, TLAPS

LEMMA HealthOfCondition ==
  ASSUME NEW cond \in Conds
  PROVE  MapConditionToHealthStatus(cond) \in {"Healthy", "Unhealthy", "Unknown"}
  BY DEF MapConditionToHealthStatus, Conds

LEMMA BoundsType ==
  /\ MaxFlips \in Nat /\ MaxEdits \in Nat /\ MaxPauses \in Nat
  /\ MaxTouches \in Nat /\ MaxFaults \in Nat
  BY HealthAssumption

LEMMA FailsType ==
  ASSUME TypeOK, Fails \/ UNCHANGED faults
  PROVE  faults' \in 0..MaxFaults
<1>1. faults \in 0..MaxFaults
  BY DEF TypeOK
<1>2. faults' = faults \/ (faults < MaxFaults /\ faults' = faults + 1)
  BY DEF Fails
<1>3. QED
  BY <1>1, <1>2, BoundsType

LEMMA MonitorType ==
  ASSUME TypeOK, Monitor
  PROVE  TypeOK'
<1>1. CASE MonitorGet
  BY <1>1 DEF MonitorGet, TypeOK, Configs, budgets
<1>2. CASE MonitorAdd
  <2>1. mon.read \in Conds /\ "none" \in Conds
    BY DEF TypeOK, Conds
  <2>2. store' \in {"absent", "Healthy", "Unhealthy", "Unknown"}
    BY <1>2, <2>1, HealthOfCondition DEF MonitorAdd, TypeOK
  <2>3. faults' \in 0..MaxFaults
    BY <1>2, FailsType DEF MonitorAdd
  <2>4. QED
    BY <1>2, <2>1, <2>2, <2>3 DEF MonitorAdd, TypeOK
<1>3. CASE MonitorCleanup
  <2>1. faults' \in 0..MaxFaults
    BY <1>3, FailsType DEF MonitorCleanup
  <2>2. mon' \in [pc : {"idle", "add", "cleanup", "remove"}, read : Conds]
    <3>1. mon' = [mon EXCEPT !.pc = "remove"] \/ mon' = [pc |-> "idle", read |-> "none"]
      BY <1>3 DEF MonitorCleanup
    <3>2. /\ mon \in [pc : {"idle", "add", "cleanup", "remove"}, read : Conds]
          /\ "none" \in Conds
      BY DEF TypeOK, Conds
    <3>3. QED
      BY <3>1, <3>2
  <2>3. QED
    BY <1>3, <2>1, <2>2 DEF MonitorCleanup, TypeOK
<1>4. CASE MonitorRemove
  BY <1>4 DEF MonitorRemove, TypeOK, Conds, budgets
<1>5. QED
  BY <1>1, <1>2, <1>3, <1>4 DEF Monitor

LEMMA HealthType ==
  ASSUME TypeOK, Health
  PROVE  TypeOK'
<1>1. CASE HealthGet
  <2>1. cached.cond \in Conds
    BY DEF TypeOK, Configs
  <2>2. hc' \in [pc : {"idle", "check", "store", "status"}, before : Conds, after : Conds]
    <3>1. \/ hc' = hc
          \/ hc' = [pc |-> "status", before |-> cached.cond, after |-> "Disabled"]
          \/ hc' = [pc |-> "check", before |-> cached.cond, after |-> "Fail"]
      BY <1>1 DEF HealthGet
    <3>2. /\ hc \in [pc : {"idle", "check", "store", "status"}, before : Conds, after : Conds]
          /\ "Disabled" \in Conds /\ "Fail" \in Conds
      BY DEF TypeOK, Conds
    <3>3. QED
      BY <2>1, <3>1, <3>2
  <2>3. store' \in {"absent", "Healthy", "Unhealthy", "Unknown"}
    BY <1>1 DEF HealthGet, SetBackendHealthStatus, TypeOK
  <2>4. QED
    BY <1>1, <2>2, <2>3 DEF HealthGet, TypeOK, budgets
<1>2. CASE HealthCheck
  <2>1. hc' \in [pc : {"idle", "check", "store", "status"}, before : Conds, after : Conds]
    BY <1>2 DEF HealthCheck, TypeOK, Conds
  <2>2. unp' \in [Unpausers -> [pc : {"idle", "list", "items"}, items : SUBSET Buckets,
                                fresh : SUBSET Buckets]]
    <3>1. unp' = unp \/ \E g \in Unpausers : unp' = [unp EXCEPT ![g].pc = "list"]
      BY <1>2 DEF HealthCheck
    <3>2. unp \in [Unpausers -> [pc : {"idle", "list", "items"}, items : SUBSET Buckets,
                                 fresh : SUBSET Buckets]]
      BY DEF TypeOK
    <3>3. QED
      BY <3>1, <3>2
  <2>3. QED
    BY <1>2, <2>1, <2>2 DEF HealthCheck, TypeOK, budgets
<1>3. CASE HealthStore
  <2>1. MapConditionToHealthStatus(hc.after) \in {"Healthy", "Unhealthy", "Unknown"}
    BY HealthOfCondition DEF TypeOK
  <2>2. QED
    BY <1>3, <2>1 DEF HealthStore, SetBackendHealthStatus, TypeOK, budgets, NoCheck, Conds
<1>4. CASE HealthStatus
  <2>1. faults' \in 0..MaxFaults
    BY <1>4, FailsType DEF HealthStatus
  <2>2. config' \in Configs
    BY <1>4 DEF HealthStatus, TypeOK, Configs
  <2>3. hc' \in [pc : {"idle", "check", "store", "status"}, before : Conds, after : Conds]
    BY <1>4 DEF HealthStatus, NoCheck, Conds
  <2>4. QED
    BY <1>4, <2>1, <2>2, <2>3 DEF HealthStatus, TypeOK
<1>5. QED
  BY <1>1, <1>2, <1>3, <1>4 DEF Health

Goroutines == [Unpausers -> [pc : {"idle", "list", "items"}, items : SUBSET Buckets,
                             fresh : SUBSET Buckets]]
Labelled == [Buckets -> [paused : {"", "true"}, label : BOOLEAN]]

LEMMA WriteType ==
  ASSUME NEW b \in Buckets, NEW value \in [paused : {"", "true"}, label : BOOLEAN],
         NEW u \in Goroutines, bucket \in Labelled, WriteBucket(b, value, u)
  PROVE  bucket' \in Labelled /\ unp' \in Goroutines
  BY DEF WriteBucket, Goroutines, Labelled

LEMMA ItemsType ==
  ASSUME NEW items \in SUBSET Buckets, NEW fresh \in SUBSET Buckets
  PROVE  Items(items, fresh) \in [pc : {"idle", "list", "items"}, items : SUBSET Buckets,
                                  fresh : SUBSET Buckets]
  BY DEF Items, Idle

LEMMA UnpauserType ==
  ASSUME TypeOK, NEW g \in Unpausers, Unpauser(g)
  PROVE  TypeOK'
<1>0. unp \in Goroutines /\ bucket \in Labelled
  BY DEF TypeOK, Goroutines, Labelled
<1>1. CASE UnpauseList(g)
  <2>1. faults' \in 0..MaxFaults
    BY <1>1, FailsType DEF UnpauseList
  <2>2. unp' \in Goroutines
    BY <1>0, <1>1, ItemsType DEF UnpauseList, Goroutines, Idle
  <2>3. QED
    BY <1>1, <2>1, <2>2 DEF UnpauseList, TypeOK, Goroutines
<1>3. ASSUME NEW b \in Buckets, UnpauseItem(g, b) PROVE TypeOK'
  <2>1. faults' \in 0..MaxFaults
    BY <1>3, FailsType DEF UnpauseItem
  <2>2. [unp EXCEPT ![g] = Items(@.items \ {b}, @.fresh)] \in Goroutines
    BY <1>0, ItemsType DEF Goroutines
  <2>3. [bucket[b] EXCEPT !.paused = ""] \in [paused : {"", "true"}, label : BOOLEAN]
    BY <1>0 DEF Labelled
  <2>4. bucket' \in Labelled /\ unp' \in Goroutines
    BY <1>0, <1>3, <2>2, <2>3, WriteType DEF UnpauseItem
  <2>5. QED
    BY <1>3, <2>1, <2>4 DEF UnpauseItem, TypeOK, Goroutines, Labelled
<1>4. QED
  BY <1>1, <1>3 DEF Unpauser

LEMMA EnvironmentType ==
  ASSUME TypeOK, Environment
  PROVE  TypeOK'
<1>1. CASE CacheSync \/ Flip
  <2>1. flips' \in 0..MaxFlips /\ up' \in BOOLEAN
    <3>1. flips \in 0..MaxFlips /\ up \in BOOLEAN
      BY DEF TypeOK
    <3>2. \/ flips' = flips /\ up' = up
          \/ flips < MaxFlips /\ flips' = flips + 1 /\ up' = ~up
      BY <1>1 DEF CacheSync, Flip, budgets
    <3>3. flips' \in 0..MaxFlips
      BY <3>1, <3>2, BoundsType
    <3>4. up' \in BOOLEAN
      BY <3>1, <3>2
    <3>5. QED
      BY <3>3, <3>4
  <2>2. cached' \in Configs
    BY <1>1 DEF CacheSync, Flip, TypeOK
  <2>3. QED
    BY <1>1, <2>1, <2>2 DEF CacheSync, Flip, TypeOK, budgets
<1>2. CASE UserEdit
  <2>1. config' \in Configs
    <3>1. config \in Configs /\ NewConfig \in Configs /\ NoConfig \in Configs
      BY DEF TypeOK, Configs, NoConfig, NewConfig, Conds
    <3>2. config' \in {[config EXCEPT !.off = ~@], NoConfig, NewConfig}
      BY <1>2 DEF UserEdit
    <3>3. [config EXCEPT !.off = ~@] \in Configs
      <4>1. (~config.off) \in BOOLEAN
        BY <3>1 DEF Configs
      <4>2. QED
        BY <3>1, <4>1 DEF Configs
    <3>4. QED
      BY <3>1, <3>2, <3>3
  <2>2. edits' \in 0..MaxEdits
    <3>1. edits \in 0..MaxEdits /\ edits < MaxEdits /\ edits' = edits + 1
      BY <1>2 DEF UserEdit, TypeOK
    <3>2. QED
      BY <3>1, BoundsType
  <2>3. QED
    BY <1>2, <2>1, <2>2 DEF UserEdit, TypeOK
<1>3. ASSUME NEW b \in Buckets, BucketPause(b) \/ BucketTouch(b) PROVE TypeOK'
  <2>1. bucket' \in Labelled /\ unp' \in Goroutines
    BY <1>3, WriteType DEF BucketPause, BucketTouch, TypeOK, Goroutines, Labelled
  <2>2. pauses' \in 0..MaxPauses /\ touches' \in 0..MaxTouches
    <3>1. pauses \in 0..MaxPauses /\ touches \in 0..MaxTouches
      BY DEF TypeOK
    <3>2. \/ pauses < MaxPauses /\ pauses' = pauses + 1 /\ touches' = touches
          \/ touches < MaxTouches /\ touches' = touches + 1 /\ pauses' = pauses
      BY <1>3 DEF BucketPause, BucketTouch
    <3>3. QED
      BY <3>1, <3>2, BoundsType
  <2>3. QED
    BY <1>3, <2>1, <2>2 DEF BucketPause, BucketTouch, TypeOK, Goroutines, Labelled
<1>4. QED
  BY <1>1, <1>2, <1>3 DEF Environment

\* Every variable keeps its type: in particular, no health but the three that
\* the API knows reaches the store, whichever controller writes it last.
THEOREM TypeCorrect == Spec => []TypeOK
<1>1. Init => TypeOK
  <2>1. 0 \in 0..MaxFlips /\ 0 \in 0..MaxEdits /\ 0 \in 0..MaxPauses /\ 0 \in 0..MaxTouches
        /\ 0 \in 0..MaxFaults
    BY BoundsType
  <2>2. NewConfig \in Configs /\ "none" \in Conds
    BY DEF Configs, NewConfig, Conds
  <2>3. ASSUME Init
        PROVE  /\ mon \in [pc : {"idle", "add", "cleanup", "remove"}, read : Conds]
               /\ hc \in [pc : {"idle", "check", "store", "status"}, before : Conds, after : Conds]
    BY <2>2, <2>3 DEF Init, NoCheck
  <2>4. ASSUME Init
        PROVE  /\ unp \in [Unpausers -> [pc : {"idle", "list", "items"}, items : SUBSET Buckets,
                                          fresh : SUBSET Buckets]]
               /\ bucket \in [Buckets -> [paused : {"", "true"}, label : BOOLEAN]]
    BY <2>4 DEF Init, Idle
  <2>5. QED
    BY <2>1, <2>2, <2>3, <2>4 DEF Init, TypeOK
<1>2. TypeOK /\ [Next]_vars => TypeOK'
  <2>1. TypeOK /\ UNCHANGED vars => TypeOK'
    BY DEF TypeOK, vars
  <2>2. QED
    BY <2>1, MonitorType, HealthType, UnpauserType, EnvironmentType DEF Next
<1>3. QED
  BY <1>1, <1>2, PTL DEF Spec
---------------------------------------------------------------------------
(* Health is earned *)

\* The copies through which a Success could still reach the store or a check.
NoHearsay ==
  NeverUp => "Success" \notin {cached.cond, mon.read, hc.before, hc.after}

EarnedInv == TypeOK /\ HealthIsEarned /\ NoHearsay

LEMMA HealthyIsSuccess ==
  ASSUME NEW cond \in Conds, MapConditionToHealthStatus(cond) = "Healthy"
  PROVE  cond = "Success"
  BY DEF MapConditionToHealthStatus, Conds

\* Once the endpoint has answered it has answered for good.
LEMMA NeverUpBefore ==
  ASSUME TypeOK, [Next]_vars, NeverUp'
  PROVE  NeverUp
<1>1. \/ UNCHANGED <<up, flips>>
      \/ flips < MaxFlips /\ flips' = flips + 1 /\ flips \in 0..MaxFlips
  BY DEF Next, vars, budgets, Monitor, Health, Environment, Unpauser, MonitorGet, MonitorAdd,
     MonitorCleanup, MonitorRemove, HealthGet, HealthCheck, HealthStore, HealthStatus,
     UnpauseList, UnpauseItem, CacheSync, Flip, UserEdit, BucketPause,
     BucketTouch, TypeOK
<1>2. CASE UNCHANGED <<up, flips>>
  BY <1>2 DEF NeverUp
<1>3. CASE flips' = flips + 1 /\ flips \in 0..MaxFlips
  BY <1>3, BoundsType DEF NeverUp
<1>4. QED
  BY <1>1, <1>2, <1>3

LEMMA EarnedStep ==
  ASSUME EarnedInv, TypeOK', [Next]_vars, NeverUp, NeverUp'
  PROVE  /\ store' # "Healthy" /\ config'.cond # "Success"
         /\ \A g \in Unpausers : unp'[g].pc = "idle"
         /\ "Success" \notin {cached'.cond, mon'.read, hc'.before, hc'.after}
<1>1. /\ store # "Healthy" /\ config.cond # "Success" /\ ~up
      /\ \A g \in Unpausers : unp[g].pc = "idle"
      /\ cached.cond # "Success" /\ mon.read # "Success"
      /\ hc.before # "Success" /\ hc.after # "Success"
  BY DEF EarnedInv, HealthIsEarned, NoHearsay, NeverUp
<1>2. /\ config \in Configs /\ cached \in Configs
      /\ mon \in [pc : {"idle", "add", "cleanup", "remove"}, read : Conds]
      /\ hc \in [pc : {"idle", "check", "store", "status"}, before : Conds, after : Conds]
      /\ unp \in Goroutines
  BY DEF EarnedInv, TypeOK, Goroutines
<1>3. CASE Monitor
  <2>1. MapConditionToHealthStatus(mon.read) # "Healthy"
    BY <1>1, <1>2, HealthyIsSuccess
  <2>2. QED
    BY <1>1, <1>2, <1>3, <2>1 DEF Monitor, MonitorGet, MonitorAdd, MonitorCleanup, MonitorRemove
<1>4. CASE HealthGet
  BY <1>1, <1>2, <1>4 DEF HealthGet, SetBackendHealthStatus
<1>5. CASE HealthCheck
  BY <1>1, <1>2, <1>5 DEF HealthCheck
<1>6. CASE HealthStore
  <2>1. MapConditionToHealthStatus(hc.after) # "Healthy"
    BY <1>1, <1>2, HealthyIsSuccess
  <2>2. QED
    BY <1>1, <1>2, <1>6, <2>1 DEF HealthStore, SetBackendHealthStatus, NoCheck
<1>7. CASE HealthStatus
  <2>1. config' = config \/ config' = [config EXCEPT !.cond = hc.after]
    BY <1>7 DEF HealthStatus
  <2>2. config'.cond # "Success"
    BY <1>1, <1>2, <2>1 DEF Configs
  <2>3. QED
    BY <1>1, <1>2, <1>7, <2>2 DEF HealthStatus, NoCheck
<1>8. ASSUME NEW g \in Unpausers, Unpauser(g) PROVE FALSE
  BY <1>1, <1>8 DEF Unpauser, UnpauseList, UnpauseItem
<1>9. CASE CacheSync
  BY <1>1, <1>9 DEF CacheSync
<1>10. CASE UserEdit
  <2>1. config'.cond # "Success"
    BY <1>1, <1>2, <1>10 DEF UserEdit, NewConfig, NoConfig, Configs
  <2>2. QED
    BY <1>1, <1>10, <2>1 DEF UserEdit
<1>11. ASSUME NEW b \in Buckets, BucketPause(b) \/ BucketTouch(b)
       PROVE  \A g \in Unpausers : unp'[g].pc = "idle"
  BY <1>1, <1>2, <1>11 DEF BucketPause, BucketTouch, WriteBucket, Goroutines
<1>12. ASSUME NEW b \in Buckets, BucketPause(b) \/ BucketTouch(b)
       PROVE  UNCHANGED <<store, config, cached, mon, hc>>
  BY <1>12 DEF BucketPause, BucketTouch
<1>13. CASE Flip \/ UNCHANGED vars
  BY <1>1, <1>13 DEF Flip, vars
<1>14. QED
  BY <1>1, <1>3, <1>4, <1>5, <1>6, <1>7, <1>8, <1>9, <1>10, <1>11, <1>12, <1>13
  DEF Next, Health, Environment

\* The store never says Healthy, the ProviderConfig never says Success and no
\* Bucket CR is un-paused before the endpoint has answered a check, whichever
\* of the two controllers read or wrote last.
THEOREM HealthIsEarnedCorrect == Spec => []HealthIsEarned
<1>1. Init => HealthIsEarned /\ NoHearsay
  <2>1. SUFFICES ASSUME Init PROVE HealthIsEarned /\ NoHearsay
    OBVIOUS
  <2>2. store = "absent" /\ config.cond = "none" /\ cached.cond = "none"
    BY <2>1 DEF Init, NewConfig
  <2>3. mon.read = "none" /\ hc.before = "none" /\ hc.after = "none"
    BY <2>1 DEF Init, NoCheck
  <2>4. \A g \in Unpausers : unp[g].pc = "idle"
    BY <2>1 DEF Init, Idle
  <2>5. QED
    BY <2>2, <2>3, <2>4 DEF HealthIsEarned, NoHearsay
<1>2. TypeOK /\ TypeOK' /\ HealthIsEarned /\ NoHearsay /\ [Next]_vars
        => HealthIsEarned' /\ NoHearsay'
  <2>1. SUFFICES ASSUME TypeOK, TypeOK', HealthIsEarned, NoHearsay, [Next]_vars, NeverUp'
                 PROVE  HealthIsEarned' /\ NoHearsay'
    BY DEF HealthIsEarned, NoHearsay
  <2>2. NeverUp
    BY <2>1, NeverUpBefore
  <2>3. QED
    BY <2>1, <2>2, EarnedStep DEF EarnedInv, HealthIsEarned, NoHearsay
<1>3. QED
  BY <1>1, <1>2, TypeCorrect, PTL DEF Spec
=============================================================================
