------------------------ MODULE LifecycleClientProofs ------------------------
(***************************************************************************)
(* The composition of the lifecycle client with SubresourceObserve: every  *)
(* step of LifecycleClient is a step of a call of Observe or leaves it     *)
(* alone, so what is proved of Observe holds in the reconcile as well, for *)
(* any backends, any rules and any list of clients.  Before that, what the *)
(* conversion of rules and the comparison with the answer of S3 compute;   *)
(* at the end, what follows for the rules that the backends hold.          *)
(***************************************************************************)
EXTENDS LifecycleClient, SubresourceObserveProofs, FiniteOrder

---------------------------------------------------------------------------
(* The conversion of rules. *)

\* A list without repetitions that is as long as a finite set has all of it.
LEMMA PermutationRange ==
  ASSUME NEW S, IsFiniteSet(S), NEW t \in SetToSeqs(S)
  PROVE  Range(t) = S
<1> DEFINE n == Cardinality(S)
<1>1. n \in Nat
  BY FS_CardinalityType
<1>2. t \in [1..n -> S] /\ \A i, j \in 1..n : i # j => t[i] # t[j]
  BY DEF SetToSeqs
<1>3. IsFiniteSet(1..n) /\ Cardinality(1..n) = n
  BY <1>1, FS_Interval
<1> HIDE DEF n
<1>4. t \in Injection(1..n, S)
  BY <1>2 DEF Injection, IsInjective
<1>5. t \in Surjection(1..n, S)
  <2>1. Cardinality(1..n) = Cardinality(S)
    BY <1>3 DEF n
  <2>2. QED
    BY <1>4, <2>1, FS_Injection
<1>6. QED
  BY <1>2, <1>5 DEF Surjection, Range

LEMMA SortedIsPermutation ==
  ASSUME NEW S \in SUBSET Nat, IsFiniteSet(S)
  PROVE  Sorted(S) \in SetToSeqs(S)
<1> DEFINE n == Cardinality(S)
<1>1. PICK f \in [1..n -> S] : \A i, j \in 1..n : i < j => f[i] < f[j]
  BY HasSorted
<1>2. ASSUME NEW i \in 1..n, NEW j \in 1..n, i # j PROVE f[i] # f[j]
  <2>1. f[i] \in Nat /\ f[j] \in Nat
    BY <1>1
  <2>2. i < j \/ j < i
    BY <1>2, FS_CardinalityType
  <2>3. f[i] < f[j] \/ f[j] < f[i]
    BY <1>1, <2>2
  <2>4. QED
    BY <2>1, <2>3
<1>3. f \in SetToSeqs(S)
  BY <1>2 DEF SetToSeqs
<1>4. \A i, j \in DOMAIN f : i < j => f[i] < f[j]
  BY <1>1
<1>5. QED
  BY <1>3, <1>4 DEF Sorted

LEMMA TagPermutation ==
  ASSUME NEW S \in SUBSET Tags, NEW t \in SetToSeqs(S)
  PROVE  t \in TagLists
<1>1. IsFiniteSet(S) /\ IsFiniteSet(Tags) /\ Cardinality(S) <= Cardinality(Tags)
  BY ClientAssumption, FS_Subset DEF Tags
<1>2. Cardinality(S) \in Nat /\ Cardinality(Tags) \in Nat
  BY <1>1, FS_CardinalityType
<1> DEFINE n == Cardinality(S)
<1>3. n \in 0..Cardinality(Tags)
  BY <1>1, <1>2
<1>4. t \in [1..n -> S] /\ \A i, j \in 1..n : i # j => t[i] # t[j]
  BY DEF SetToSeqs
<1> HIDE DEF n
<1>5. t \in [1..n -> Tags] /\ IsInjective(t)
  BY <1>4 DEF IsInjective
<1>6. QED
  BY <1>3, <1>5 DEF TagLists

LEMMA SortedTags ==
  ASSUME NEW S \in SUBSET Tags
  PROVE  Sorted(S) \in TagLists /\ Range(Sorted(S)) = S
<1>1. S \in SUBSET Nat /\ IsFiniteSet(S)
  BY ClientAssumption, FS_Subset DEF Tags
<1>2. Sorted(S) \in SetToSeqs(S)
  BY <1>1, SortedIsPermutation
<1>3. QED
  BY <1>1, <1>2, PermutationRange, TagPermutation

LEMMA TagListRange ==
  ASSUME NEW t \in TagLists
  PROVE  Range(t) \in SUBSET Tags
<1>1. PICK n \in 0..Cardinality(Tags) : t \in [1..n -> Tags]
  BY DEF TagLists
<1>2. QED
  BY <1>1 DEF Range

\* What the arms of GenerateFilter give.
LEMMA NoFilter ==
  ASSUME NEW local, local.Filter = Nil
  PROVE  GenerateFilter(local) = IF local.Prefix # Nil THEN Nil ELSE [kind |-> "prefix", Prefix |-> ""]
  BY DEF GenerateFilter

LEMMA AndFilter ==
  ASSUME NEW local, local.Filter # Nil, local.Filter.And # Nil
  PROVE  GenerateFilter(local) =
           [kind |-> "and", Prefix |-> local.Filter.And.Prefix,
            Tags |-> IF local.Filter.And.Tags = Nil THEN Nil
                     ELSE Sorted(Range(local.Filter.And.Tags))]
  BY DEF GenerateFilter, sortS3TagSet

LEMMA TagFilter ==
  ASSUME NEW local, local.Filter # Nil, local.Filter.And = Nil, local.Filter.Tag # Nil
  PROVE  GenerateFilter(local) = [kind |-> "tag", Tag |-> local.Filter.Tag]
  BY DEF GenerateFilter

LEMMA PrefixFilter ==
  ASSUME NEW local, local.Filter # Nil, local.Filter.And = Nil, local.Filter.Tag = Nil
  PROVE  GenerateFilter(local) =
           IF local.Filter.Prefix # Nil THEN [kind |-> "prefix", Prefix |-> local.Filter.Prefix]
           ELSE IF local.Prefix # Nil THEN Nil ELSE [kind |-> "prefix", Prefix |-> ""]
  BY DEF GenerateFilter

\* S3 takes every filter that is made.
LEMMA FilterType ==
  ASSUME NEW local \in LifecycleRule
  PROVE  /\ GenerateFilter(local) \in OrNil(S3Filters)
         /\ local.Prefix = Nil => GenerateFilter(local) # Nil
<1> DEFINE f == local.Filter
           g == GenerateFilter(local)
<1>0. f = Nil \/ f \in LifecycleRuleFilter
  BY DEF LifecycleRule, OrNil
<1>1. Nil \notin S3Filters /\ [kind |-> "prefix", Prefix |-> ""] \in S3Filters
  BY ClientAssumption DEF S3Filters, PrefixValues
<1>2. CASE f = Nil
  BY <1>1, <1>2, NoFilter DEF OrNil
<1>3. CASE f # Nil /\ f.And # Nil
  <2>1. f.And \in [Prefix : OrNil(PrefixValues), Tags : OrNil(TagLists), Large : BOOLEAN]
    BY <1>0, <1>3 DEF LifecycleRuleFilter, OrNil
  <2>2. f.And.Prefix \in OrNil(PrefixValues) /\ (f.And.Tags = Nil \/ f.And.Tags \in TagLists)
    BY <2>1 DEF OrNil
  <2>3. f.And.Tags # Nil => Sorted(Range(f.And.Tags)) \in TagLists
    BY <2>2, TagListRange, SortedTags
  <2>4. g \in [kind : {"and"}, Prefix : OrNil(PrefixValues), Tags : OrNil(TagLists)]
    BY <1>3, <2>2, <2>3, AndFilter DEF OrNil
  <2>5. g \in S3Filters
    BY <2>4 DEF S3Filters
  <2>6. QED
    BY <1>1, <2>5 DEF OrNil
<1>4. CASE f # Nil /\ f.And = Nil /\ f.Tag # Nil
  <2>1. f.Tag \in Tags
    BY <1>0, <1>4 DEF LifecycleRuleFilter, OrNil
  <2>2. g \in S3Filters
    BY <1>4, <2>1, TagFilter DEF S3Filters
  <2>3. QED
    BY <1>1, <2>2 DEF OrNil
<1>5. CASE f # Nil /\ f.And = Nil /\ f.Tag = Nil
  <2>1. f.Prefix = Nil \/ f.Prefix \in PrefixValues
    BY <1>0, <1>5 DEF LifecycleRuleFilter, OrNil
  <2>2. f.Prefix # Nil => [kind |-> "prefix", Prefix |-> f.Prefix] \in S3Filters
    BY <2>1 DEF S3Filters
  <2>3. QED
    BY <1>1, <1>5, <2>2, PrefixFilter DEF OrNil
<1>6. QED
  BY <1>2, <1>3, <1>4, <1>5

Stored == Seq({rule \in S3Rules : AcceptedByS3(rule)})

\* So does it take every list of rules.
LEMMA RulesType ==
  ASSUME NEW in \in Seq(LifecycleRule)
  PROVE  GenerateLifecycleRules(in) \in Stored
<1> DEFINE out(n) == [Status |-> in[n].Status, Prefix |-> in[n].Prefix,
                      Filter |-> GenerateFilter(in[n]), Newer |-> GenerateNewer(in[n]),
                      Action |-> in[n].Action]
           Rules == {rule \in S3Rules : AcceptedByS3(rule)}
<1>1. ASSUME NEW n \in DOMAIN in PROVE out(n) \in Rules
  <2>1. in[n] \in LifecycleRule
    OBVIOUS
  <2>2. /\ in[n].Status \in {"Enabled", "Disabled"} /\ in[n].Prefix \in OrNil(PrefixValues)
        /\ in[n].Action \in Actions /\ GenerateNewer(in[n]) \in OrNil(Newers)
    BY <2>1 DEF LifecycleRule, GenerateNewer, OrNil
  <2>3. out(n) \in S3Rules
    BY <2>1, <2>2, FilterType DEF S3Rules
  <2>4. AcceptedByS3(out(n))
    BY <2>1, FilterType DEF AcceptedByS3
  <2>5. QED
    BY <2>3, <2>4
<1>2. GenerateLifecycleRules(in) = [n \in 1..Len(in) |-> out(n)]
  BY DEF GenerateLifecycleRules
<1>3. Len(in) \in Nat /\ DOMAIN in = 1..Len(in)
  OBVIOUS
<1> HIDE DEF out, Rules
<1>4. [n \in 1..Len(in) |-> out(n)] \in Seq(Rules)
  BY <1>1, <1>3
<1>5. QED
  BY <1>2, <1>4 DEF Stored, Rules

---------------------------------------------------------------------------
(* What converted rules do. *)

LEMMA SelectsAlike ==
  ASSUME NEW local \in LifecycleRule, ConvertibleRule(local), NEW o \in Objects
  PROVE  SelectedByS3(GenerateFilter(local), o) <=> Selects(local.Filter, o)
<1> DEFINE f == local.Filter
           g == GenerateFilter(local)
<1>0. f = Nil \/ f \in LifecycleRuleFilter
  BY DEF LifecycleRule, OrNil
<1>1. g = Nil \/ g \in S3Filters
  BY FilterType DEF OrNil
<1>2. Nil \notin S3Filters
  BY ClientAssumption
<1>3. SelectedByS3([kind |-> "prefix", Prefix |-> ""], o) /\ SelectedByS3(Nil, o)
  BY DEF SelectedByS3, HasPrefix
<1>4. CASE f = Nil
  BY <1>3, <1>4, NoFilter DEF Selects
<1>5. CASE f # Nil /\ f.And # Nil
  <2>1. f.And \in [Prefix : OrNil(PrefixValues), Tags : OrNil(TagLists), Large : BOOLEAN]
    BY <1>0, <1>5 DEF LifecycleRuleFilter, OrNil
  <2>2. /\ f.Tag = Nil /\ f.Prefix = Nil /\ ~f.Large /\ ~f.And.Large /\ f.And.Tags # Nil
        /\ f.And.Tags \in TagLists
    BY <1>5, <2>1 DEF ConvertibleRule, OrNil
  <2>3. Selects(f, o) <=> HasPrefix(o, f.And.Prefix) /\ Range(f.And.Tags) \subseteq o.tags
    BY <1>5, <2>2 DEF Selects, HasPrefix
  <2> DEFINE t == Sorted(Range(f.And.Tags))
  <2>4. t \in TagLists /\ Range(t) = Range(f.And.Tags) /\ t # Nil
    BY <2>2, TagListRange, SortedTags, ClientAssumption
  <2>5. g = [kind |-> "and", Prefix |-> f.And.Prefix, Tags |-> t]
    BY <1>5, <2>2, AndFilter
  <2>6. g # Nil
    BY <1>1, <1>2, <2>1, <2>4, <2>5 DEF S3Filters, OrNil
  <2>7. g.kind = "and" /\ g.Prefix = f.And.Prefix /\ g.Tags = t
    BY <2>5
  <2> HIDE DEF t, f, g
  <2>8. SelectedByS3(g, o) <=> HasPrefix(o, g.Prefix) /\ Range(g.Tags) \subseteq o.tags
    BY <2>4, <2>6, <2>7 DEF SelectedByS3
  <2>9. QED
    BY <2>3, <2>4, <2>7, <2>8 DEF f, g
<1>6. CASE f # Nil /\ f.And = Nil /\ f.Tag # Nil
  <2>1. f.Prefix = Nil /\ ~f.Large
    BY <1>6 DEF ConvertibleRule
  <2>2. Selects(f, o) <=> f.Tag \in o.tags
    BY <1>6, <2>1 DEF Selects, HasPrefix
  <2>3. g = [kind |-> "tag", Tag |-> f.Tag]
    BY <1>6, TagFilter
  <2>4. f.Tag \in Tags
    BY <1>0, <1>6 DEF LifecycleRuleFilter, OrNil
  <2>5. g # Nil /\ g.kind = "tag" /\ g.Tag = f.Tag
    BY <1>2, <2>3, <2>4 DEF S3Filters
  <2> HIDE DEF f, g
  <2>6. SelectedByS3(g, o) <=> g.Tag \in o.tags
    BY <2>5 DEF SelectedByS3
  <2>7. QED
    BY <2>2, <2>5, <2>6 DEF f, g
<1>7. CASE f # Nil /\ f.And = Nil /\ f.Tag = Nil
  <2>1. ~f.Large
    BY <1>7 DEF ConvertibleRule
  <2>2. Selects(f, o) <=> HasPrefix(o, f.Prefix)
    BY <1>7, <2>1 DEF Selects
  <2>3. CASE f.Prefix = Nil
    <3>1. g = Nil \/ g = [kind |-> "prefix", Prefix |-> ""]
      BY <1>7, <2>3, PrefixFilter
    <3>2. Selects(f, o)
      BY <2>2, <2>3 DEF HasPrefix
    <3>3. QED
      BY <1>3, <3>1, <3>2
  <2>4. CASE f.Prefix # Nil
    <3>1. g = [kind |-> "prefix", Prefix |-> f.Prefix]
      BY <1>7, <2>4, PrefixFilter
    <3>2. f.Prefix \in PrefixValues
      BY <1>0, <1>7, <2>4 DEF LifecycleRuleFilter, OrNil
    <3>3. g # Nil /\ g.kind = "prefix" /\ g.Prefix = f.Prefix
      BY <1>2, <3>1, <3>2 DEF S3Filters
    <3> HIDE DEF f, g
    <3>4. SelectedByS3(g, o) <=> HasPrefix(o, g.Prefix)
      BY <3>3 DEF SelectedByS3
    <3>5. QED
      BY <2>2, <3>3, <3>4 DEF f, g
  <2>5. QED
    BY <2>3, <2>4
<1>8. QED
  BY <1>4, <1>5, <1>6, <1>7

\* For every list of rules, S3 does to every object what the rules say.
LEMMA DoneIsAsked ==
  ASSUME NEW in \in Seq(LifecycleRule), \A n \in DOMAIN in : ConvertibleRule(in[n])
  PROVE  Done(GenerateLifecycleRules(in)) = Asked(in)
<1> DEFINE out == GenerateLifecycleRules(in)
<1>1. /\ DOMAIN out = DOMAIN in
      /\ \A n \in DOMAIN in : /\ out[n].Status = in[n].Status /\ out[n].Prefix = in[n].Prefix
                              /\ out[n].Action = in[n].Action /\ out[n].Filter = GenerateFilter(in[n])
                              /\ out[n].Newer = GenerateNewer(in[n])
  BY DEF GenerateLifecycleRules
<1> HIDE DEF out
<1>2. ASSUME NEW e \in Effects, NEW n \in DOMAIN in
      PROVE  /\ SelectedByS3(out[n].Filter, e.object) <=> Selects(in[n].Filter, e.object)
             /\ out[n].Newer = in[n].Newer
  <2>1. e.object \in Objects /\ in[n] \in LifecycleRule /\ ConvertibleRule(in[n])
    BY DEF Effects
  <2>2. out[n].Newer = in[n].Newer
    BY <1>1, <2>1 DEF ConvertibleRule, GenerateNewer
  <2>3. QED
    BY <1>1, <2>1, <2>2, SelectsAlike
<1>3. ASSUME NEW e \in Effects PROVE e \in Done(out) <=> e \in Asked(in)
  BY <1>1, <1>2 DEF Done, Asked
<1>4. Done(out) \subseteq Effects /\ Asked(in) \subseteq Effects
  BY DEF Done, Asked
<1>5. QED
  BY <1>3, <1>4 DEF out

LEMMA NothingDone == Done(<<>>) = {} /\ Asked(<<>>) = {} /\ GenerateLifecycleRules(<<>>) = <<>>
  BY DEF Done, Asked, GenerateLifecycleRules

\* The lifecycle client looks at a backend with one of the four answers.
LEMMA ObservesStatus ==
  ASSUME NEW want, NEW response
  PROVE  observeBackend(want, response) \in ResourceStatus
<1> DEFINE unwanted == want.LifecycleConfiguration = Nil \/ want.Disabled
           local == IF unwanted THEN <<>> ELSE want.LifecycleConfiguration
<1>1. CASE unwanted /\ response = <<>>
  BY <1>1 DEF observeBackend, ResourceStatus, Asks
<1>2. CASE local = <<>> /\ response # <<>>
  BY <1>2 DEF observeBackend, ResourceStatus, Asks
<1>3. CASE ~unwanted /\ (local # <<>> \/ response = <<>>)
  BY <1>3 DEF observeBackend, ResourceStatus, Asks
<1>4. unwanted => local = <<>>
  OBVIOUS
<1>5. QED
  BY <1>1, <1>2, <1>3, <1>4

\* What each answer of observeBackend says.
LEMMA StatusMeans ==
  ASSUME NEW want, want.Disabled \in BOOLEAN, NEW response
  PROVE  LET unwanted == want.LifecycleConfiguration = Nil \/ want.Disabled
             status == observeBackend(want, response)
         IN \/ status = "NoAction" /\ unwanted /\ response = <<>>
            \/ /\ status = "NeedsDeletion" /\ response # <<>>
               /\ unwanted \/ want.LifecycleConfiguration = <<>>
            \/ /\ status = "NeedsUpdate" /\ ~unwanted
               /\ SortFilterTags(response) # GenerateLifecycleRules(want.LifecycleConfiguration)
            \/ /\ status = "Updated" /\ ~unwanted
               /\ SortFilterTags(response) = GenerateLifecycleRules(want.LifecycleConfiguration)
<1> DEFINE unwanted == want.LifecycleConfiguration = Nil \/ want.Disabled
           local == IF unwanted THEN <<>> ELSE want.LifecycleConfiguration
<1>1. CASE unwanted /\ response = <<>>
  BY <1>1 DEF observeBackend
<1>2. CASE local = <<>> /\ response # <<>>
  <2>1. observeBackend(want, response) = "NeedsDeletion"
    BY <1>2 DEF observeBackend
  <2>2. unwanted \/ want.LifecycleConfiguration = <<>>
    BY <1>2
  <2>3. QED
    BY <1>2, <2>1, <2>2
<1>3. CASE ~unwanted /\ (local # <<>> \/ response = <<>>)
  <2>1. observeBackend(want, response) =
          IF SortFilterTags(response) = GenerateLifecycleRules(want.LifecycleConfiguration)
          THEN "Updated" ELSE "NeedsUpdate"
    BY <1>3 DEF observeBackend
  <2>2. QED
    BY <1>3, <2>1
<1>4. unwanted => local = <<>>
  OBVIOUS
<1>5. QED
  BY <1>1, <1>2, <1>3, <1>4

---------------------------------------------------------------------------
(* The order in which S3 returns tags. *)

SortRule(rule) ==
  IF IsAnd(rule) THEN [rule EXCEPT !.Filter.Tags = Sorted(TagsOf(rule))] ELSE rule

LEMMA AndRule ==
  ASSUME NEW rule \in S3Rules, IsAnd(rule)
  PROVE  /\ rule.Filter \in [kind : {"and"}, Prefix : OrNil(PrefixValues), Tags : OrNil(TagLists)]
         /\ TagsOf(rule) \in SUBSET Tags
<1>1. rule.Filter \in S3Filters
  BY DEF S3Rules, OrNil, IsAnd
<1>2. rule.Filter.kind = "and"
  BY DEF IsAnd
<1>3. rule.Filter \in [kind : {"and"}, Prefix : OrNil(PrefixValues), Tags : OrNil(TagLists)]
  BY <1>1, <1>2 DEF S3Filters
<1>4. rule.Filter.Tags = Nil \/ rule.Filter.Tags \in TagLists
  BY <1>3 DEF OrNil
<1>5. QED
  BY <1>3, <1>4, TagListRange DEF TagsOf

\* With other tags, the rest of a rule stays.
LEMMA WithTags ==
  ASSUME NEW rule \in S3Rules, IsAnd(rule), NEW t
  PROVE  [rule EXCEPT !.Filter.Tags = t] =
           [Status |-> rule.Status, Prefix |-> rule.Prefix,
            Filter |-> [kind |-> "and", Prefix |-> rule.Filter.Prefix, Tags |-> t],
            Newer |-> rule.Newer, Action |-> rule.Action]
<1>1. rule.Filter \in [kind : {"and"}, Prefix : OrNil(PrefixValues), Tags : OrNil(TagLists)]
  BY AndRule
<1>2. [rule.Filter EXCEPT !.Tags = t] = [kind |-> "and", Prefix |-> rule.Filter.Prefix, Tags |-> t]
  BY <1>1
<1>3. [rule EXCEPT !.Filter.Tags = t] = [rule EXCEPT !.Filter = [rule.Filter EXCEPT !.Tags = t]]
  OBVIOUS
<1>4. QED
  BY <1>2, <1>3 DEF S3Rules

\* Sorted, the answer of S3 is what it keeps, sorted.
LEMMA SortedAnswer ==
  ASSUME NEW rule \in S3Rules, NEW got \in Reordered(rule)
  PROVE  SortRule(got) = SortRule(rule)
<1>1. CASE IsAnd(rule)
  <2>1. PICK t \in SetToSeqs(TagsOf(rule)) :
          got = [rule EXCEPT !.Filter.Tags = IF t = <<>> THEN Nil ELSE t]
    BY <1>1 DEF Reordered
  <2> DEFINE u == IF t = <<>> THEN Nil ELSE t
  <2>2. got = [Status |-> rule.Status, Prefix |-> rule.Prefix,
                  Filter |-> [kind |-> "and", Prefix |-> rule.Filter.Prefix, Tags |-> u],
                  Newer |-> rule.Newer, Action |-> rule.Action]
    BY <1>1, <2>1, WithTags
  <2>3. TagsOf(rule) \in SUBSET Tags /\ IsFiniteSet(TagsOf(rule))
    BY <1>1, AndRule, ClientAssumption, FS_Subset DEF Tags
  <2>4. Range(t) = TagsOf(rule)
    BY <2>3, PermutationRange
  <2>5. t = <<>> => TagsOf(rule) = {}
    BY <2>4 DEF Range
  <2>6. t \in TagLists /\ t # Nil
    BY <2>3, TagPermutation, ClientAssumption
  <2>7. TagsOf(got) = TagsOf(rule)
    <3>1. got.Filter.Tags = u
      BY <2>2
    <3>2. CASE t = <<>>
      BY <2>5, <3>1, <3>2 DEF TagsOf
    <3>3. CASE t # <<>>
      BY <2>4, <2>6, <3>1, <3>3 DEF TagsOf
    <3>4. QED
      BY <3>2, <3>3
  <2>8. IsAnd(got) /\ got \in S3Rules
    <3>1. u \in OrNil(TagLists)
      BY <2>6 DEF OrNil
    <3> HIDE DEF u
    <3>2. rule.Filter.Prefix \in OrNil(PrefixValues)
      BY <1>1, AndRule
    <3>3. got.Filter \in S3Filters /\ got.Filter.kind = "and"
      BY <2>2, <3>1, <3>2 DEF S3Filters
    <3>4. got.Filter # Nil
      BY <3>3, ClientAssumption
    <3>5. got \in S3Rules
      BY <2>2, <3>3 DEF S3Rules, OrNil
    <3>6. QED
      BY <3>3, <3>4, <3>5 DEF IsAnd
  <2>9. /\ got.Status = rule.Status /\ got.Prefix = rule.Prefix /\ got.Newer = rule.Newer
        /\ got.Action = rule.Action /\ got.Filter.Prefix = rule.Filter.Prefix
    BY <2>2
  <2> HIDE DEF u
  <2>10. SortRule(got) = [Status |-> got.Status, Prefix |-> got.Prefix,
                          Filter |-> [kind |-> "and", Prefix |-> got.Filter.Prefix,
                                      Tags |-> Sorted(TagsOf(got))],
                          Newer |-> got.Newer, Action |-> got.Action]
    BY <2>8, WithTags DEF SortRule
  <2>11. SortRule(rule) = [Status |-> rule.Status, Prefix |-> rule.Prefix,
                           Filter |-> [kind |-> "and", Prefix |-> rule.Filter.Prefix,
                                       Tags |-> Sorted(TagsOf(rule))],
                           Newer |-> rule.Newer, Action |-> rule.Action]
    BY <1>1, WithTags DEF SortRule
  <2>12. QED
    BY <2>7, <2>9, <2>10, <2>11
<1>2. CASE ~IsAnd(rule)
  BY <1>2 DEF Reordered
<1>3. QED
  BY <1>1, <1>2

LEMMA SortsRules ==
  ASSUME NEW rules
  PROVE  SortFilterTags(rules) = [n \in DOMAIN rules |-> SortRule(rules[n])]
  BY DEF SortFilterTags, SortRule

LEMMA StoredRules ==
  ASSUME NEW rules \in Stored
  PROVE  /\ Len(rules) \in Nat /\ DOMAIN rules = 1..Len(rules)
         /\ \A n \in DOMAIN rules : rules[n] \in S3Rules
         /\ rules = <<>> <=> DOMAIN rules = {}
  BY DEF Stored

\* So the comparison sees the rules that S3 keeps, and none if it keeps none.
LEMMA SortedResponse ==
  ASSUME NEW rules \in Stored, NEW response \in Responses(rules)
  PROVE  /\ SortFilterTags(response) = SortFilterTags(rules)
         /\ response = <<>> <=> rules = <<>>
<1> DEFINE Kept == UNION {Reordered(rules[n]) : n \in DOMAIN rules}
<1>1. /\ response \in [1..Len(rules) -> Kept] /\ DOMAIN response = DOMAIN rules
      /\ \A n \in DOMAIN rules : response[n] \in Reordered(rules[n])
  BY StoredRules DEF Responses
<1>2. \A n \in DOMAIN rules : SortRule(response[n]) = SortRule(rules[n])
  BY <1>1, StoredRules, SortedAnswer
<1>3. SortFilterTags(response) = SortFilterTags(rules)
  BY <1>1, <1>2, SortsRules
<1>4. response \in Seq(Kept)
  <2> HIDE DEF Kept
  <2>1. QED
    BY <1>1, StoredRules
<1>5. response = <<>> <=> DOMAIN response = {}
  <2> HIDE DEF Kept
  <2>1. QED
    BY <1>4
<1>6. QED
  BY <1>1, <1>3, <1>5, StoredRules

\* Sorting leaves what rules do.
LEMMA SortedDoes ==
  ASSUME NEW rules \in Stored
  PROVE  Done(SortFilterTags(rules)) = Done(rules)
<1>1. ASSUME NEW n \in DOMAIN rules, NEW o \in Objects
      PROVE  LET sorted == SortRule(rules[n]) IN
             /\ sorted.Status = rules[n].Status /\ sorted.Prefix = rules[n].Prefix
             /\ sorted.Action = rules[n].Action /\ sorted.Newer = rules[n].Newer
             /\ SelectedByS3(sorted.Filter, o) <=> SelectedByS3(rules[n].Filter, o)
  <2> DEFINE rule == rules[n]
             sorted == SortRule(rule)
  <2>1. rule \in S3Rules
    BY StoredRules
  <2>2. CASE ~IsAnd(rule)
    BY <2>2 DEF SortRule
  <2>3. CASE IsAnd(rule)
    <3>1. /\ rule.Filter \in [kind : {"and"}, Prefix : OrNil(PrefixValues), Tags : OrNil(TagLists)]
          /\ TagsOf(rule) \in SUBSET Tags
      BY <2>1, <2>3, AndRule
    <3> DEFINE t == Sorted(TagsOf(rule))
    <3>2. t \in TagLists /\ Range(t) = TagsOf(rule) /\ t # Nil
      BY <3>1, SortedTags, ClientAssumption
    <3> HIDE DEF rule
    <3>3. sorted = [Status |-> rule.Status, Prefix |-> rule.Prefix,
                    Filter |-> [kind |-> "and", Prefix |-> rule.Filter.Prefix, Tags |-> t],
                    Newer |-> rule.Newer, Action |-> rule.Action]
      BY <2>1, <2>3, WithTags DEF SortRule
    <3> HIDE DEF t, sorted
    <3>4. /\ sorted.Status = rule.Status /\ sorted.Prefix = rule.Prefix
          /\ sorted.Action = rule.Action /\ sorted.Newer = rule.Newer /\ sorted.Filter.kind = "and"
          /\ sorted.Filter.Prefix = rule.Filter.Prefix /\ sorted.Filter.Tags = t
      BY <3>3
    <3>5. sorted.Filter \in S3Filters
      BY <3>1, <3>2, <3>3 DEF S3Filters, OrNil
    <3>6. sorted.Filter # Nil /\ rule.Filter # Nil /\ rule.Filter.kind = "and"
      BY <2>3, <3>5, ClientAssumption DEF IsAnd
    <3>7. SelectedByS3(sorted.Filter, o) <=>
            HasPrefix(o, rule.Filter.Prefix) /\ TagsOf(rule) \subseteq o.tags
      BY <3>2, <3>4, <3>6 DEF SelectedByS3
    <3>8. SelectedByS3(rule.Filter, o) <=>
            HasPrefix(o, rule.Filter.Prefix) /\ TagsOf(rule) \subseteq o.tags
      BY <3>6 DEF SelectedByS3, TagsOf
    <3>9. QED
      BY <3>4, <3>7, <3>8 DEF sorted, rule
  <2>4. QED
    BY <2>2, <2>3
<1> DEFINE out == SortFilterTags(rules)
<1>2. DOMAIN out = DOMAIN rules /\ \A n \in DOMAIN rules : out[n] = SortRule(rules[n])
  BY SortsRules
<1> HIDE DEF out
<1>3. ASSUME NEW e \in Effects PROVE e \in Done(out) <=> e \in Done(rules)
  <2>1. e.object \in Objects
    BY DEF Effects
  <2>2. \A n \in DOMAIN rules :
          /\ out[n].Status = rules[n].Status /\ out[n].Prefix = rules[n].Prefix
          /\ out[n].Action = rules[n].Action /\ out[n].Newer = rules[n].Newer
          /\ SelectedByS3(out[n].Filter, e.object) <=> SelectedByS3(rules[n].Filter, e.object)
    BY <1>1, <1>2, <2>1
  <2>3. QED
    BY <1>2, <2>2 DEF Done
<1>4. Done(out) \subseteq Effects /\ Done(rules) \subseteq Effects
  BY DEF Done
<1>5. QED
  BY <1>3, <1>4 DEF out

\* Rules that were converted are sorted already.
LEMMA ConvertedIsSorted ==
  ASSUME NEW in \in Seq(LifecycleRule), \A n \in DOMAIN in : ConvertibleRule(in[n])
  PROVE  SortFilterTags(GenerateLifecycleRules(in)) = GenerateLifecycleRules(in)
<1> DEFINE out == GenerateLifecycleRules(in)
<1>1. /\ out = [n \in DOMAIN in |-> out[n]] /\ DOMAIN out = DOMAIN in
      /\ \A n \in DOMAIN in : out[n].Filter = GenerateFilter(in[n])
  BY DEF GenerateLifecycleRules
<1>2. out \in Stored
  BY RulesType
<1> HIDE DEF out
<1>3. ASSUME NEW n \in DOMAIN in PROVE SortRule(out[n]) = out[n]
  <2> DEFINE rule == out[n]
             f == in[n].Filter
  <2>1. rule \in S3Rules /\ in[n] \in LifecycleRule /\ ConvertibleRule(in[n])
    BY <1>1, <1>2, StoredRules
  <2>2. CASE ~IsAnd(rule)
    BY <2>2 DEF SortRule
  <2>3. CASE IsAnd(rule)
    <3>1. rule.Filter # Nil /\ rule.Filter.kind = "and" /\ rule.Filter = GenerateFilter(in[n])
      BY <1>1, <2>3 DEF IsAnd
    <3>2. f # Nil /\ f.And # Nil
      <4>1. GenerateFilter(in[n]) # Nil /\ GenerateFilter(in[n]).kind = "and"
        BY <3>1
      <4>2. ASSUME f = Nil PROVE FALSE
        <5>1. GenerateFilter(in[n]) \in {Nil, [kind |-> "prefix", Prefix |-> ""]}
          BY <4>2, NoFilter
        <5>2. [kind |-> "prefix", Prefix |-> ""].kind = "prefix"
          OBVIOUS
        <5>3. QED
          BY <4>1, <5>1, <5>2, Zenon
      <4>3. ASSUME f # Nil, f.And = Nil, f.Tag # Nil PROVE FALSE
        <5>1. GenerateFilter(in[n]) = [kind |-> "tag", Tag |-> f.Tag]
          BY <4>3, TagFilter
        <5>2. QED
          BY <4>1, <5>1
      <4>4. ASSUME f # Nil, f.And = Nil, f.Tag = Nil PROVE FALSE
        <5>1. GenerateFilter(in[n]) \in {Nil, [kind |-> "prefix", Prefix |-> ""],
                                         [kind |-> "prefix", Prefix |-> f.Prefix]}
          BY <4>4, PrefixFilter
        <5>2. /\ [kind |-> "prefix", Prefix |-> ""].kind = "prefix"
              /\ [kind |-> "prefix", Prefix |-> f.Prefix].kind = "prefix"
          OBVIOUS
        <5>3. QED
          BY <4>1, <5>1, <5>2, Zenon
      <4>5. QED
        BY <4>2, <4>3, <4>4
    <3>3. f.And.Tags # Nil /\ f.And.Tags \in OrNil(TagLists)
      BY <2>1, <3>2 DEF ConvertibleRule, LifecycleRule, LifecycleRuleFilter, OrNil
    <3>4. f.And.Tags \in TagLists
      BY <3>3 DEF OrNil
    <3>5. rule.Filter.Tags = Sorted(Range(f.And.Tags))
      BY <3>1, <3>2, <3>3, AndFilter
    <3>6. Range(f.And.Tags) \in SUBSET Tags
      BY <3>4, TagListRange
    <3>7. rule.Filter.Tags # Nil /\ TagsOf(rule) = Range(f.And.Tags)
      BY <3>5, <3>6, SortedTags, ClientAssumption DEF TagsOf
    <3>8. Sorted(TagsOf(rule)) = rule.Filter.Tags
      BY <3>5, <3>7
    <3> HIDE DEF rule
    <3>9. rule.Filter \in [kind : {"and"}, Prefix : OrNil(PrefixValues), Tags : OrNil(TagLists)]
      BY <2>1, <2>3, AndRule
    <3>10. rule.Filter = [kind |-> "and", Prefix |-> rule.Filter.Prefix, Tags |-> rule.Filter.Tags]
      BY <3>9
    <3>11. SortRule(rule) = [Status |-> rule.Status, Prefix |-> rule.Prefix,
                             Filter |-> rule.Filter, Newer |-> rule.Newer, Action |-> rule.Action]
      BY <2>1, <2>3, <3>8, <3>10, WithTags DEF SortRule
    <3>12. SortRule(rule) = rule
      BY <2>1, <3>11 DEF S3Rules
    <3>13. QED
      BY <3>12 DEF rule
  <2>4. QED
    BY <2>2, <2>3
<1>4. SortFilterTags(out) = [n \in DOMAIN in |-> out[n]]
  BY <1>1, <1>3, SortsRules
<1>5. QED
  BY <1>1, <1>4 DEF out

---------------------------------------------------------------------------
(* The reconcile. *)

\* The client that is asked next is one of the clients.
LEMMA OrderedClients ==
  ASSUME NEW n \in 1..Len(Order)
  PROVE  Order[n] \in Clients
  BY OrderAssumption

\* The reconcile has not come to the end of its list.
TurnInv == turn \in 1..Len(Order)

LEMMA FirstTurn == 1 \in 1..Len(Order)
  BY OrderAssumption

LEMMA TurnStep ==
  ASSUME TurnInv, ClientNext \/ UNCHANGED vars
  PROVE  TurnInv'
<1>1. turn' \in {turn, 1} \/ (turn < Len(Order) /\ turn' = turn + 1)
  BY DEF ClientNext, Reconcile, StartReconcile, Listen, Observed, EndUpdate, Handle, Timeout,
         UserEdit, LookAt, HealthChange, vars
<1>2. Len(Order) \in Nat
  BY OrderAssumption
<1>3. QED
  BY <1>1, <1>2, FirstTurn DEF TurnInv

LEMMA LookAtObserves ==
  ASSUME NEW b \in Backends, LookAt(b)
  PROVE  Goroutine(b)
<1>1. CASE CheckHealth(b, b \notin healthy)
  BY <1>1 DEF Goroutine
<1>2. CASE \E status \in Observations(b) : Look(b, status)
  BY <1>2, ObservesStatus DEF Observations, Goroutine
<1>3. CASE \E status \in ResourceStatus : Look(b, status)
  BY <1>3 DEF Goroutine
<1>4. CASE Look(b, "error")
  BY <1>4 DEF Goroutine
<1>5. QED
  BY <1>1, <1>2, <1>3, <1>4 DEF LookAt

LEMMA ClientStepObserves ==
  ASSUME TurnInv, ClientNext
  PROVE  Next \/ UNCHANGED call
<1>1. CASE StartReconcile
  BY <1>1, FirstTurn, OrderedClients DEF StartReconcile, Next
<1>2. CASE Observed
  <2>1. CASE turn < Len(Order) /\ Begin(Order[turn + 1])
    <3>1. turn + 1 \in 1..Len(Order)
      BY <2>1, OrderAssumption DEF TurnInv
    <3>2. QED
      BY <2>1, <3>1, OrderedClients DEF Next
  <2>2. QED
    BY <1>2, <2>1 DEF Observed
<1>3. CASE Listen \/ Timeout
  BY <1>3 DEF Listen, Timeout, Next
<1>4. ASSUME NEW b \in Backends, LookAt(b) PROVE Next
  BY <1>4, LookAtObserves DEF Next
<1>5. CASE EndUpdate \/ UserEdit \/ \E b \in Backends : Handle(b) \/ HealthChange(b)
  BY <1>5 DEF EndUpdate, UserEdit, Handle, HealthChange
<1>6. QED
  BY <1>1, <1>2, <1>3, <1>4, <1>5 DEF ClientNext, Reconcile

\* The lifecycle client and the clients around it call Observe as
\* SubresourceObserve has it, one call at a time and each with its own channels.
LEMMA ClientImplementsObserve == ClientSpec => Spec
<1>1. ClientInit => Init /\ TurnInv
  BY FirstTurn DEF ClientInit, TurnInv
<1>2. TurnInv /\ [ClientNext]_vars => TurnInv'
  BY TurnStep
<1>3. TurnInv /\ [ClientNext]_vars => [Next]_call
  <2>1. UNCHANGED vars => UNCHANGED call
    BY DEF vars
  <2>2. QED
    BY <2>1, ClientStepObserves
<1>4. QED
  BY <1>1, <1>2, <1>3, PTL DEF ClientSpec, Spec

\* In the reconcile too, an Observe that says Updated leaves no goroutine blocked,
\* whatever rules it compares.
THEOREM ReconcileLeavesNobody == ClientSpec => []UpdatedLeavesNobody
  BY ClientImplementsObserve, UpdatedLeavesNobodyCorrect, PTL

\* In the reconcile too, the loop of Observe never waits for a message that does
\* not come, whatever the goroutines compare.
THEOREM ReconcileIsServed == ClientSpec => []LoopIsServed
  BY ClientImplementsObserve, LoopIsServedCorrect, PTL

\* In the reconcile too, each call of Observe keeps the promise of ObserveAnswer.
THEOREM ReconcileImplementsAnswer == ClientSpec => ImplementsAnswer
  BY ClientImplementsObserve, ObserveImplementsAnswer, PTL

---------------------------------------------------------------------------
(* What the reconcile keeps on the backends. *)

LEMMA SpecsTyped ==
  ASSUME NEW s \in Specs
  PROVE  /\ s.Disabled \in BOOLEAN
         /\ s.LifecycleConfiguration # Nil => s.LifecycleConfiguration \in Seq(LifecycleRule)
  BY ClientAssumption DEF OrNil

\* What Handle sends to a backend that it finds different.
Sent(status) == IF status = "NeedsUpdate" THEN obj.LifecycleConfiguration ELSE <<>>

LEMMA HandleSends ==
  ASSUME NEW b \in Backends, Handle(b)
  PROVE  \/ stored' = stored
         \/ \E status \in Observations(b) :
              /\ status \in Asks
              /\ stored' = [stored EXCEPT ![b] = GenerateLifecycleRules(Sent(status))]
  BY DEF Handle, PutBucketLifecycleConfiguration, Sent

\* It sends rules that a Bucket may have, and nothing only if nothing is asked.
LEMMA SentIsAsked ==
  ASSUME obj \in Specs, NEW b \in Backends, NEW status \in Observations(b), status \in Asks
  PROVE  /\ Sent(status) \in Seq(LifecycleRule)
         /\ IF obj.LifecycleConfiguration = Nil \/ obj.Disabled THEN Sent(status) = <<>>
            ELSE Sent(status) = obj.LifecycleConfiguration
<1>1. PICK r \in Responses(stored[b]) : status = observeBackend(obj, r)
  BY DEF Observations
<1>2. obj.Disabled \in BOOLEAN
  BY SpecsTyped
<1> DEFINE want == obj.LifecycleConfiguration
           unwanted == want = Nil \/ obj.Disabled
<1>3. \/ status = "NoAction" /\ unwanted /\ r = <<>>
      \/ status = "NeedsDeletion" /\ r # <<>> /\ (unwanted \/ want = <<>>)
      \/ status = "NeedsUpdate" /\ ~unwanted /\ SortFilterTags(r) # GenerateLifecycleRules(want)
      \/ status = "Updated" /\ ~unwanted /\ SortFilterTags(r) = GenerateLifecycleRules(want)
  BY <1>1, <1>2, StatusMeans
<1> HIDE DEF want, unwanted
<1>4. CASE status = "NeedsUpdate"
  <2>1. ~unwanted
    BY <1>3, <1>4
  <2>2. QED
    BY <1>4, <2>1, SpecsTyped DEF Sent, want, unwanted
<1>5. CASE status = "NeedsDeletion"
  <2>1. unwanted \/ want = <<>>
    BY <1>3, <1>5
  <2>2. Sent(status) = <<>> /\ <<>> \in Seq(LifecycleRule)
    BY <1>5 DEF Sent
  <2>3. QED
    BY <2>1, <2>2 DEF want, unwanted
<1>6. QED
  BY <1>4, <1>5 DEF Asks

\* Other steps leave the backends' rules alone.
LEMMA OnlyHandleWrites ==
  ASSUME ClientNext, ~\E b \in Backends : Handle(b)
  PROVE  stored' = stored
  BY DEF ClientNext, Reconcile, StartReconcile, Listen, Observed, EndUpdate, Timeout, UserEdit,
         LookAt, HealthChange

LEMMA StoredStep ==
  ASSUME obj \in Specs, stored \in [Backends -> Stored], ClientNext
  PROVE  stored' \in [Backends -> Stored]
<1>1. ASSUME NEW b \in Backends, Handle(b) PROVE stored' \in [Backends -> Stored]
  <2>1. CASE stored' = stored
    BY <2>1
  <2>2. ASSUME NEW status \in Observations(b), status \in Asks,
               stored' = [stored EXCEPT ![b] = GenerateLifecycleRules(Sent(status))]
        PROVE  stored' \in [Backends -> Stored]
    <3>1. Sent(status) \in Seq(LifecycleRule)
      BY <2>2, SentIsAsked
    <3>2. GenerateLifecycleRules(Sent(status)) \in Stored
      BY <3>1, RulesType
    <3>3. QED
      BY <2>2, <3>2
  <2>3. QED
    BY <1>1, <2>1, <2>2, HandleSends
<1>2. QED
  BY <1>1, OnlyHandleWrites

\* The rest of the types.
ReconcileShape ==
  /\ spec \in Specs /\ obj \in Specs /\ healthy \subseteq Backends
  /\ step \in {"idle", "observe", "handle"} /\ todo \subseteq Backends /\ wrote \in BOOLEAN

Bounds == edits \in 0..MaxEdits /\ flips \in 0..MaxFlips /\ faults \in 0..MaxFaults

LEMMA ShapeStep ==
  ASSUME ReconcileShape, ClientNext
  PROVE  ReconcileShape'
<1>1. CASE StartReconcile
  BY <1>1 DEF StartReconcile, handling, ReconcileShape
<1>2. CASE Listen \/ Timeout
  BY <1>2 DEF Listen, Timeout, handling, ReconcileShape
<1>3. CASE Observed
  BY <1>3 DEF Observed, handling, ReconcileShape
<1>4. CASE EndUpdate \/ UserEdit
  BY <1>4 DEF EndUpdate, UserEdit, handling, ReconcileShape
<1>5. ASSUME NEW b \in Backends, Handle(b) PROVE ReconcileShape'
  <2>1. UNCHANGED <<spec, obj, healthy, step>> /\ todo' = todo \ {b} /\ wrote' \in BOOLEAN
    BY <1>5 DEF Handle
  <2>2. QED
    BY <2>1 DEF ReconcileShape
<1>6. ASSUME NEW b \in Backends, LookAt(b) \/ HealthChange(b) PROVE ReconcileShape'
  BY <1>6 DEF LookAt, HealthChange, handling, ReconcileShape
<1>7. QED
  BY <1>1, <1>2, <1>3, <1>4, <1>5, <1>6 DEF ClientNext, Reconcile

LEMMA BoundsStep ==
  ASSUME Bounds, ClientNext
  PROVE  Bounds'
<1> DEFINE Counts ==
             /\ edits' = edits \/ (edits < MaxEdits /\ edits' = edits + 1)
             /\ flips' = flips \/ (flips < MaxFlips /\ flips' = flips + 1)
             /\ faults' = faults \/ (faults < MaxFaults /\ faults' = faults + 1)
<1>1. Counts
  <2>1. CASE StartReconcile \/ Listen \/ Observed \/ EndUpdate
    BY <2>1 DEF StartReconcile, Listen, Observed, EndUpdate, budget
  <2>2. CASE Timeout \/ UserEdit
    BY <2>2 DEF Timeout, UserEdit, Fails
  <2>3. ASSUME NEW b \in Backends, Handle(b) \/ LookAt(b) \/ HealthChange(b)
        PROVE  Counts
    BY <2>3 DEF Handle, LookAt, HealthChange, Fails, Works
  <2>4. QED
    BY <2>1, <2>2, <2>3 DEF ClientNext, Reconcile
<1>2. QED
  BY <1>1, ClientAssumption DEF Bounds

ClientInv ==
  TurnInv /\ ReconcileShape /\ Bounds /\ stored \in [Backends -> Stored]

LEMMA ClientInvCorrect == ClientSpec => []ClientInv
<1>1. ClientInit => ClientInv
  <2>1. ClientInit => stored \in [Backends -> Stored]
    BY DEF ClientInit, Stored
  <2>2. ClientInit => ReconcileShape
    BY DEF ClientInit, ReconcileShape
  <2>3. ClientInit => TurnInv
    BY FirstTurn DEF ClientInit, TurnInv
  <2>4. ClientInit => Bounds
    <3>1. MaxEdits \in Nat /\ MaxFlips \in Nat /\ MaxFaults \in Nat
      BY ClientAssumption
    <3>2. QED
      BY <3>1 DEF ClientInit, Bounds
  <2>5. QED
    BY <2>1, <2>2, <2>3, <2>4 DEF ClientInv
<1>2. ClientInv /\ [ClientNext]_vars => ClientInv'
  <2>1. ASSUME ClientInv, ClientNext PROVE ClientInv'
    <3>1. stored' \in [Backends -> Stored]
      BY <2>1, StoredStep DEF ClientInv, ReconcileShape
    <3>2. QED
      BY <2>1, <3>1, TurnStep, ShapeStep, BoundsStep DEF ClientInv
  <2>2. ASSUME ClientInv, UNCHANGED vars PROVE ClientInv'
    BY <2>2 DEF ClientInv, TurnInv, ReconcileShape, Bounds, vars, handling, budget
  <2>3. QED
    BY <2>1, <2>2
<1>3. QED
  BY <1>1, <1>2, PTL DEF ClientSpec

\* A call of Observe keeps its types in the reconcile as well, and whatever rules
\* the Bucket asks for, the backends hold rules that S3 takes, with a filter
\* in each that has no prefix and with no tag twice.
THEOREM ClientTypeCorrect == ClientSpec => []ClientTypeOK
<1>1. ClientInv /\ TypeOK => ClientTypeOK
  BY DEF ClientInv, TurnInv, ReconcileShape, Bounds, Stored, ClientTypeOK
<1>2. ClientSpec => []TypeOK
  BY ClientImplementsObserve, TypeCorrect, PTL
<1>3. QED
  BY <1>1, <1>2, ClientInvCorrect, PTL

\* Whatever form its filters have, the rules that Handle writes do to each object
\* what the rules of the CR say.
THEOREM WritesDoWhatIsAskedCorrect ==
  ASSUME \A s \in Specs : Convertible(s)
  PROVE  ClientSpec => WritesDoWhatIsAsked
<1> DEFINE Right == \A b \in Backends : stored'[b] # stored[b] => Done(stored'[b]) = Wanted(obj)
<1>1. ASSUME ClientInv, ClientNext PROVE Right
  <2>1. SUFFICES ASSUME NEW b \in Backends, NEW status \in Observations(b), status \in Asks,
                        stored' = [stored EXCEPT ![b] = GenerateLifecycleRules(Sent(status))]
                 PROVE  Right
    BY <1>1, HandleSends, OnlyHandleWrites
  <2>2. obj \in Specs /\ stored \in [Backends -> Stored]
    BY <1>1 DEF ClientInv, ReconcileShape
  <2>3. /\ Sent(status) \in Seq(LifecycleRule)
        /\ IF obj.LifecycleConfiguration = Nil \/ obj.Disabled THEN Sent(status) = <<>>
           ELSE Sent(status) = obj.LifecycleConfiguration
    BY <2>1, <2>2, SentIsAsked
  <2>4. Done(GenerateLifecycleRules(Sent(status))) = Wanted(obj)
    <3>1. CASE obj.LifecycleConfiguration = Nil \/ obj.Disabled
      BY <2>3, <3>1, NothingDone DEF Wanted
    <3>2. CASE ~(obj.LifecycleConfiguration = Nil \/ obj.Disabled)
      <4>1. \A n \in DOMAIN Sent(status) : ConvertibleRule(Sent(status)[n])
        BY <2>2, <2>3, <3>2 DEF Convertible
      <4>2. QED
        BY <2>3, <3>2, <4>1, DoneIsAsked DEF Wanted
    <3>3. QED
      BY <3>1, <3>2
  <2>5. QED
    BY <2>1, <2>2, <2>4
<1>2. ClientInv /\ [ClientNext]_vars => [Right]_vars
  BY <1>1
<1>3. QED
  BY <1>2, ClientInvCorrect, PTL DEF ClientSpec, WritesDoWhatIsAsked

\* In whatever order S3 returns tags, Observe and Handle leave a backend alone that
\* has the rules of the CR, and only one that does what they say.
THEOREM ComparisonIsRightCorrect ==
  ASSUME \A s \in Specs : Convertible(s)
  PROVE  ClientSpec => []ComparisonIsRight
<1>1. ASSUME ClientInv, NEW b \in Backends, NEW status \in Observations(b)
      PROVE  /\ stored[b] = AsAsked(obj) => status \notin Asks
             /\ status \notin Asks => Done(stored[b]) = Wanted(obj)
  <2> DEFINE rules == stored[b]
             want == obj.LifecycleConfiguration
             unwanted == want = Nil \/ obj.Disabled
  <2>1. rules \in Stored /\ obj \in Specs
    BY <1>1 DEF ClientInv, ReconcileShape
  <2>2. PICK r \in Responses(rules) : status = observeBackend(obj, r)
    BY DEF Observations
  <2>3. SortFilterTags(r) = SortFilterTags(rules) /\ (r = <<>> <=> rules = <<>>)
    BY <2>1, SortedResponse
  <2>4. /\ obj.Disabled \in BOOLEAN
        /\ ~unwanted => want \in Seq(LifecycleRule) /\ \A n \in DOMAIN want : ConvertibleRule(want[n])
    BY <2>1, SpecsTyped DEF Convertible
  <2>5. \/ status = "NoAction" /\ unwanted /\ r = <<>>
        \/ status = "NeedsDeletion" /\ r # <<>> /\ (unwanted \/ want = <<>>)
        \/ status = "NeedsUpdate" /\ ~unwanted /\ SortFilterTags(r) # GenerateLifecycleRules(want)
        \/ status = "Updated" /\ ~unwanted /\ SortFilterTags(r) = GenerateLifecycleRules(want)
    BY <2>2, <2>4, StatusMeans
  <2> HIDE DEF want, unwanted, rules
  <2>6. ASSUME rules = AsAsked(obj), status = "NeedsDeletion" PROVE FALSE
    <3>1. rules = <<>>
      BY <2>5, <2>6, NothingDone DEF AsAsked, want, unwanted
    <3>2. QED
      BY <2>3, <2>5, <2>6, <3>1
  <2>7. ASSUME rules = AsAsked(obj), status = "NeedsUpdate" PROVE FALSE
    <3>1. ~unwanted /\ rules = GenerateLifecycleRules(want)
      BY <2>5, <2>7 DEF AsAsked, want, unwanted
    <3>2. SortFilterTags(rules) = rules
      BY <2>4, <3>1, ConvertedIsSorted
    <3>3. QED
      BY <2>3, <2>5, <2>7, <3>1, <3>2
  <2>8. ASSUME status = "NoAction" PROVE Done(rules) = Wanted(obj)
    <3>1. rules = <<>> /\ unwanted
      BY <2>3, <2>5, <2>8
    <3>2. QED
      BY <3>1, NothingDone DEF Wanted, want, unwanted
  <2>9. ASSUME status = "Updated" PROVE Done(rules) = Wanted(obj)
    <3>1. ~unwanted /\ SortFilterTags(rules) = GenerateLifecycleRules(want)
      BY <2>3, <2>5, <2>9
    <3>2. Done(rules) = Done(GenerateLifecycleRules(want))
      BY <2>1, <3>1, SortedDoes
    <3>3. Done(rules) = Asked(want)
      BY <2>4, <3>1, <3>2, DoneIsAsked
    <3>4. QED
      BY <3>1, <3>3 DEF Wanted, want, unwanted
  <2>10. QED
    BY <2>5, <2>6, <2>7, <2>8, <2>9 DEF Asks, rules
<1>2. ClientInv => ComparisonIsRight
  BY <1>1 DEF ComparisonIsRight
<1>3. QED
  BY <1>2, ClientInvCorrect, PTL
=============================================================================
