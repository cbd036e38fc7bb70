--------------------------- MODULE LifecycleClient ---------------------------
(***************************************************************************)
(* The lifecycle configuration of one Bucket on several backends.  The     *)
(* rules of the Bucket CR are converted for the SDK                        *)
(* (src/internal/rgw/lifecycleconfig_helpers.go), Observe compares them    *)
(* with what each backend returns, with the fan-out of SubresourceObserve, *)
(* and Handle writes or deletes them.  S3 keeps the tags of a filter as a  *)
(* set and returns them in any order.                                      *)
(***************************************************************************)
EXTENDS SubresourceObserve, SequencesExt

CONSTANTS
  Nil,       \* a field that is not set
  Order,     \* subresourceClients, in the order external.Observe calls them
  Specs,     \* what the Bucket CR may ask for
  TagKeys,   \* keys of tags, which are ordered
  Newers,    \* numbers of newer versions that a rule may keep
  MaxEdits,  \* how often the user changes the rules
  MaxFlips,  \* how often the health of a backend changes
  MaxFaults  \* how many calls fail or run out of time

ASSUME OrderAssumption == Order \in Seq(Clients) /\ Order # <<>>

VARIABLES
  spec,    \* the lifecycle configuration that the Bucket CR asks for
  obj,     \* the one that this reconcile has read
  stored,  \* the rules that each backend has
  healthy, \* backends that are not Unhealthy in the backend store
  step,    \* step of the reconcile
  turn,    \* index of the client whose Observe is called
  todo,    \* backends that Handle has not come to
  wrote,   \* the last call of Handle sent rules, or their deletion, to S3
  edits, flips, faults

handling == <<todo, wrote>>
budget == <<edits, flips, faults>>
vars == <<call, spec, obj, stored, healthy, step, turn, handling, budget>>

---------------------------------------------------------------------------
(* The types of the Bucket CR *)

\* Equal keys are refused by S3, so a tag is its key.
Tags == TagKeys
TagLists == {s \in UNION {[1..n -> Tags] : n \in 0..Cardinality(Tags)} : IsInjective(s)}
PrefixValues == {"", "logs"}
OrNil(S) == S \cup {Nil}

LifecycleRuleFilter ==
  [Prefix : OrNil(PrefixValues), Tag : OrNil(Tags), Large : BOOLEAN,
   And : OrNil([Prefix : OrNil(PrefixValues), Tags : OrNil(TagLists), Large : BOOLEAN])]

\* Expirations, transitions and uploads to abort are copied field by field; which
\* of them a rule has is its Action.  The lists among them are not empty.
Actions == {"expire", "move"}

\* Large: ObjectSizeGreaterThan is set.  Newer: NewerNoncurrentVersions.
LifecycleRule ==
  [Status : {"Enabled", "Disabled"}, Prefix : OrNil(PrefixValues),
   Filter : OrNil(LifecycleRuleFilter), Newer : OrNil(Newers), Action : Actions]

\* Rules of the SDK, as S3 keeps them: it wants a filter in every rule without a
\* prefix of its own.
S3Filters ==
  [kind : {"prefix"}, Prefix : PrefixValues] \cup [kind : {"tag"}, Tag : Tags]
    \cup [kind : {"and"}, Prefix : OrNil(PrefixValues), Tags : OrNil(TagLists)]
S3Rules ==
  [Status : {"Enabled", "Disabled"}, Prefix : OrNil(PrefixValues), Filter : OrNil(S3Filters),
   Newer : OrNil(Newers), Action : Actions]
AcceptedByS3(rule) == rule.Prefix # Nil \/ rule.Filter # Nil

ASSUME ClientAssumption ==
  /\ IsFiniteSet(TagKeys) /\ TagKeys \subseteq Nat
  /\ MaxEdits \in Nat /\ MaxFlips \in Nat /\ MaxFaults \in Nat
  /\ Nil \notin TagLists \cup S3Filters
  /\ \A s \in Specs : s.LifecycleConfiguration \in OrNil(Seq(LifecycleRule)) /\ s.Disabled \in BOOLEAN

ClientTypeOK ==
  /\ TypeOK
  /\ spec \in Specs /\ obj \in Specs /\ healthy \subseteq Backends
  /\ stored \in [Backends -> Seq({rule \in S3Rules : AcceptedByS3(rule)})]
  /\ step \in {"idle", "observe", "handle"} /\ turn \in 1..Len(Order)
  /\ todo \subseteq Backends /\ wrote \in BOOLEAN
  /\ edits \in 0..MaxEdits /\ flips \in 0..MaxFlips /\ faults \in 0..MaxFaults

---------------------------------------------------------------------------
(* Conversion to the types of the SDK *)

Sorted(S) == CHOOSE s \in SetToSeqs(S) : \A i, j \in DOMAIN s : i < j => s[i] < s[j]
sortS3TagSet(tags) == Sorted(Range(tags))

\* Mutant: a rule without prefix and filter gets no filter.
BareFilterMutant(local) ==
  LET f == local.Filter IN
  CASE f = Nil -> Nil
    [] f # Nil /\ f.And # Nil ->
         [kind |-> "and", Prefix |-> f.And.Prefix,
          Tags |-> IF f.And.Tags = Nil THEN Nil ELSE sortS3TagSet(f.And.Tags)]
    [] f # Nil /\ f.And = Nil /\ f.Tag # Nil -> [kind |-> "tag", Tag |-> f.Tag]
    [] f # Nil /\ f.And = Nil /\ f.Tag = Nil ->
         IF f.Prefix # Nil THEN [kind |-> "prefix", Prefix |-> f.Prefix] ELSE Nil

\* Mutant: the prefix of an And operator is forgotten.
GenerateFilterMutant(local) ==
  LET f == local.Filter IN
  CASE f = Nil -> IF local.Prefix # Nil THEN Nil ELSE [kind |-> "prefix", Prefix |-> ""]
    [] f # Nil /\ f.And # Nil ->
         [kind |-> "and", Prefix |-> Nil,
          Tags |-> IF f.And.Tags = Nil THEN Nil ELSE sortS3TagSet(f.And.Tags)]
    [] f # Nil /\ f.And = Nil /\ f.Tag # Nil -> [kind |-> "tag", Tag |-> f.Tag]
    [] f # Nil /\ f.And = Nil /\ f.Tag = Nil ->
         IF f.Prefix # Nil THEN [kind |-> "prefix", Prefix |-> f.Prefix]
         ELSE IF local.Prefix # Nil THEN Nil ELSE [kind |-> "prefix", Prefix |-> ""]

\* Of And, Tag and Prefix the first that is set counts.  S3 wants an empty prefix
\* filter when there is neither a prefix nor a filter.  Sizes are not converted.
GenerateFilter(local) ==
  LET f == local.Filter IN
  CASE f = Nil -> IF local.Prefix # Nil THEN Nil ELSE [kind |-> "prefix", Prefix |-> ""]
    [] f # Nil /\ f.And # Nil ->
         [kind |-> "and", Prefix |-> f.And.Prefix,
          Tags |-> IF f.And.Tags = Nil THEN Nil ELSE sortS3TagSet(f.And.Tags)]
    [] f # Nil /\ f.And = Nil /\ f.Tag # Nil -> [kind |-> "tag", Tag |-> f.Tag]
    [] f # Nil /\ f.And = Nil /\ f.Tag = Nil ->
         IF f.Prefix # Nil THEN [kind |-> "prefix", Prefix |-> f.Prefix]
         ELSE IF local.Prefix # Nil THEN Nil ELSE [kind |-> "prefix", Prefix |-> ""]

\* NewerNoncurrentVersions is converted in a transition, and not in an expiration.
GenerateNewer(local) == IF local.Action = "move" THEN local.Newer ELSE Nil

GenerateLifecycleRules(in) ==
  [n \in DOMAIN in |-> [Status |-> in[n].Status, Prefix |-> in[n].Prefix,
                        Filter |-> GenerateFilter(in[n]), Newer |-> GenerateNewer(in[n]),
                        Action |-> in[n].Action]]

IsAnd(rule) == rule.Filter # Nil /\ rule.Filter.kind = "and"

TagsOf(rule) == IF rule.Filter.Tags = Nil THEN {} ELSE Range(rule.Filter.Tags)

\* Mutant: tags are compared in the order in which S3 returns them.
SortFilterTagsMutant(rules) == rules

\* The copy that is sorted is never nil.
SortFilterTags(rules) ==
  [n \in DOMAIN rules |->
     IF IsAnd(rules[n])
     THEN [rules[n] EXCEPT !.Filter.Tags = Sorted(TagsOf(rules[n]))] ELSE rules[n]]

---------------------------------------------------------------------------
(* S3 *)

\* GetBucketLifecycleConfiguration returns the tags of each rule in some order,
\* and nil if there are none.
Reordered(rule) ==
  IF IsAnd(rule)
  THEN {[rule EXCEPT !.Filter.Tags = IF t = <<>> THEN Nil ELSE t] : t \in SetToSeqs(TagsOf(rule))}
  ELSE {rule}
Responses(rules) ==
  {r \in [DOMAIN rules -> UNION {Reordered(rules[n]) : n \in DOMAIN rules}] :
     \A n \in DOMAIN rules : r[n] \in Reordered(rules[n])}

\* A deletion leaves what no rules leave.
PutBucketLifecycleConfiguration(b, rules) ==
  [stored EXCEPT ![b] = GenerateLifecycleRules(rules)]

---------------------------------------------------------------------------
(* observeBackend *)

\* Mutant: rules that are there are taken for the rules that are asked for.
observeBackendMutant(want, response) ==
  LET unwanted == want.LifecycleConfiguration = Nil \/ want.Disabled
      local == IF unwanted THEN <<>> ELSE want.LifecycleConfiguration
  IN CASE unwanted /\ response = <<>> -> "NoAction"
       [] local = <<>> /\ response # <<>> -> "NeedsDeletion"
       [] ~unwanted /\ (local # <<>> \/ response = <<>>) ->
            IF (response = <<>>) = (local = <<>>) THEN "Updated" ELSE "NeedsUpdate"

observeBackend(want, response) ==
  LET unwanted == want.LifecycleConfiguration = Nil \/ want.Disabled
      local == IF unwanted THEN <<>> ELSE want.LifecycleConfiguration
  IN CASE unwanted /\ response = <<>> -> "NoAction"
       [] local = <<>> /\ response # <<>> -> "NeedsDeletion"
       [] ~unwanted /\ (local # <<>> \/ response = <<>>) ->
            IF SortFilterTags(response) = GenerateLifecycleRules(local)
            THEN "Updated" ELSE "NeedsUpdate"

Observations(b) == {observeBackend(obj, r) : r \in Responses(stored[b])}

---------------------------------------------------------------------------
(* The reconcile *)

Fails == faults < MaxFaults /\ faults' = faults + 1
Works == UNCHANGED faults

\* external.Observe calls the first client with the CR it was given.
StartReconcile ==
  /\ step = "idle" /\ Begin(Order[1]) /\ step' = "observe" /\ turn' = 1 /\ obj' = spec
  /\ UNCHANGED <<spec, stored, healthy, handling, budget>>

\* Goroutines of the lifecycle client; what the others find is left open.
LookAt(b) ==
  /\ \/ CheckHealth(b, b \notin healthy) /\ Works
     \/ client = "lifecycle" /\ (\E status \in Observations(b) : Look(b, status)) /\ Works
     \/ client # "lifecycle" /\ (\E status \in ResourceStatus : Look(b, status)) /\ Works
     \/ Look(b, "error") /\ Fails
  /\ UNCHANGED <<spec, obj, stored, healthy, step, turn, handling, edits, flips>>

Listen ==
  /\ Loop /\ UNCHANGED <<spec, obj, stored, healthy, step, turn, handling, budget>>

Timeout ==
  /\ Expire /\ Fails
  /\ UNCHANGED <<spec, obj, stored, healthy, step, turn, handling, edits, flips>>

\* The next client is asked if this one found nothing to do.  Update follows if it
\* did, or if at last a bucket is missing; otherwise the reconcile ends.
Observed ==
  /\ step = "observe" /\ result # "waiting"
  /\ \/ /\ result = "Updated" /\ turn < Len(Order)
        /\ turn' = turn + 1 /\ Begin(Order[turn + 1]) /\ UNCHANGED <<step, handling>>
     \/ /\ result \in Asks \/ (result = "Updated" /\ turn = Len(Order))
        /\ step' = "handle" /\ todo' = Backends /\ UNCHANGED <<wrote, turn, call>>
     \/ /\ result = "error" \/ (result = "Updated" /\ turn = Len(Order))
        /\ step' = "idle" /\ UNCHANGED <<turn, handling, call>>
  /\ UNCHANGED <<spec, obj, stored, healthy, budget>>

\* Handle of the lifecycle client: a goroutine per backend looks again, and puts
\* or deletes the rules.  A call that fails may have taken effect.
Handle(b) ==
  /\ step = "handle" /\ b \in todo /\ todo' = todo \ {b}
  /\ \E status \in Observations(b) :
       LET local == IF status = "NeedsUpdate" THEN obj.LifecycleConfiguration ELSE <<>>
           written == PutBucketLifecycleConfiguration(b, local)
           writes == b \in healthy /\ status \in Asks
       IN /\ wrote' = writes
          /\ \/ Works /\ stored' = IF writes THEN written ELSE stored
             \/ b \in healthy /\ Fails /\ stored' \in {stored} \cup (IF writes THEN {written} ELSE {})
  /\ UNCHANGED <<call, spec, obj, healthy, step, turn, edits, flips>>

EndUpdate ==
  /\ step = "handle" /\ todo = {} /\ step' = "idle" /\ wrote' = FALSE
  /\ UNCHANGED <<call, spec, obj, stored, healthy, turn, todo, budget>>

UserEdit ==
  /\ edits < MaxEdits /\ edits' = edits + 1 /\ spec' \in Specs \ {spec}
  /\ UNCHANGED <<call, obj, stored, healthy, step, turn, handling, flips, faults>>

HealthChange(b) ==
  /\ flips < MaxFlips /\ flips' = flips + 1
  /\ healthy' = IF b \in healthy THEN healthy \ {b} ELSE healthy \cup {b}
  /\ UNCHANGED <<call, spec, obj, stored, step, turn, handling, edits, faults>>

---------------------------------------------------------------------------
ClientInit ==
  /\ Init /\ spec \in Specs /\ obj = spec /\ stored = [b \in Backends |-> <<>>]
  /\ healthy = Backends /\ step = "idle" /\ turn = 1 /\ todo = {} /\ wrote = FALSE
  /\ edits = 0 /\ flips = 0 /\ faults = 0

Reconcile == StartReconcile \/ Listen \/ Observed \/ EndUpdate \/ \E b \in Backends : Handle(b)

ClientNext ==
  \/ Reconcile \/ Timeout \/ UserEdit
  \/ \E b \in Backends : LookAt(b) \/ HealthChange(b)

ClientSpec == ClientInit /\ [][ClientNext]_vars

\* The workqueue keeps reconciling, the Go scheduler runs every goroutine, and
\* every S3 call returns.
FairSpec == ClientSpec /\ WF_vars(Reconcile) /\ \A b \in Backends : WF_vars(LookAt(b))

---------------------------------------------------------------------------
(* What rules mean.  An object version has a prefix or not, tags, a size, and *)
(* a number of newer versions beside it.                                   *)

Objects == [prefixed : BOOLEAN, tags : SUBSET Tags, large : BOOLEAN, newer : Newers]
Effects == [object : Objects, action : Actions]
HasPrefix(o, prefix) == prefix \in {Nil, ""} \/ o.prefixed

\* By the documentation of LifecycleRule and LifecycleRuleFilter.
Selects(f, o) ==
  \/ f = Nil
  \/ /\ HasPrefix(o, f.Prefix) /\ f.Tag \in o.tags \cup {Nil} /\ (f.Large => o.large)
     /\ f.And # Nil =>
          /\ HasPrefix(o, f.And.Prefix) /\ (f.And.Large => o.large)
          /\ f.And.Tags # Nil => Range(f.And.Tags) \subseteq o.tags
Asked(rules) ==
  {e \in Effects : \E n \in DOMAIN rules :
     /\ rules[n].Action = e.action /\ rules[n].Status = "Enabled"
     /\ HasPrefix(e.object, rules[n].Prefix) /\ Selects(rules[n].Filter, e.object)
     /\ rules[n].Newer # Nil => e.object.newer >= rules[n].Newer}

\* As S3 applies them.
SelectedByS3(f, o) ==
  \/ f = Nil
  \/ f # Nil /\ f.kind = "prefix" /\ HasPrefix(o, f.Prefix)
  \/ f # Nil /\ f.kind = "tag" /\ f.Tag \in o.tags
  \/ f # Nil /\ f.kind = "and" /\ HasPrefix(o, f.Prefix) /\ (f.Tags # Nil => Range(f.Tags) \subseteq o.tags)
Done(rules) ==
  {e \in Effects : \E n \in DOMAIN rules :
     /\ rules[n].Action = e.action /\ rules[n].Status = "Enabled"
     /\ HasPrefix(e.object, rules[n].Prefix) /\ SelectedByS3(rules[n].Filter, e.object)
     /\ rules[n].Newer # Nil => e.object.newer >= rules[n].Newer}

Wanted(s) == IF s.LifecycleConfiguration = Nil \/ s.Disabled THEN {} ELSE Asked(s.LifecycleConfiguration)

\* Rules that the conversion keeps whole: "A Filter must have exactly one of
\* Prefix, Tag, or And specified", no size, and a number of newer versions only in
\* a transition.  An And without tags is converted, but not recognised.
ConvertibleRule(rule) ==
  LET f == rule.Filter IN
  /\ rule.Newer # Nil => rule.Action = "move"
  /\ f # Nil => /\ ~f.Large /\ (f.Tag # Nil => f.Prefix = Nil)
                /\ f.And # Nil => /\ f.Tag = Nil /\ f.Prefix = Nil
                                  /\ ~f.And.Large /\ f.And.Tags # Nil
Convertible(s) ==
  s.LifecycleConfiguration # Nil =>
    \A n \in DOMAIN s.LifecycleConfiguration : ConvertibleRule(s.LifecycleConfiguration[n])

AsAsked(s) ==
  IF s.LifecycleConfiguration = Nil \/ s.Disabled THEN <<>>
  ELSE GenerateLifecycleRules(s.LifecycleConfiguration)

---------------------------------------------------------------------------
(* Properties *)

\* Whatever Handle writes does to each object what the rules of the CR say, and
\* nothing else, for every form of filter.
WritesDoWhatIsAsked ==
  [][ \A b \in Backends : stored'[b] # stored[b] => Done(stored'[b]) = Wanted(obj) ]_vars

\* In whatever order S3 returns tags, a backend that has the rules of the CR is
\* left alone, and only one that does what they say: neither is a rule that is
\* there written again, nor is one that is missing or different overlooked.
ComparisonIsRight ==
  \A b \in Backends :
    /\ stored[b] = AsAsked(obj) => Observations(b) \cap Asks = {}
    /\ Observations(b) \subseteq Asks \/ Done(stored[b]) = Wanted(obj)

\* In whatever order S3 returns tags, a backend that has the rules is left
\* alone: once edits and failures end, writing ends.
WritingEnds == <>[](~wrote)

\* Once edits, failures and changes of health end, every healthy backend does
\* what the newest CR asks, although Observe stops at the first difference.
EventuallyDoneAsAsked == <>[](\A b \in healthy : Done(stored[b]) = Wanted(spec))

\* No backend acts on an object that the rules of the CR leave out.
ActsOnlyWhereAsked ==
  [][ \A b \in Backends : stored'[b] # stored[b] => Done(stored'[b]) \subseteq Wanted(obj) ]_vars
=============================================================================
