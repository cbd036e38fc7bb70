------------------------ MODULE ValidationBucketProofs ------------------------
(***************************************************************************)
(* Proofs, for any pages, contents, requests and bounds, that a forced     *)
(* delete says that it has deleted only what was absent, that undisturbed  *)
(* it empties a bucket without versions, that the monitor leaves no        *)
(* validation bucket behind, and that no removal is forgotten.             *)
(***************************************************************************)
EXTENDS ValidationBucket, FiniteOrder

---------------------------------------------------------------------------
(* The inductive invariant of the forced delete. *)

\* What the proofs need of the types.  The markers of listings and the ages of
\* entries are left out.
DeleteShape ==
  /\ exists \in BOOLEAN /\ versioned \in BOOLEAN
  /\ pc \in {"idle", "head", "empty", "delete"}
  /\ result \in {"none", "nil", "notempty", "error"}
  /\ at \in [Deleters -> {"list", "delete", "end"}]
  /\ err \in [Deleters -> NoSuchErrors \cup {"none"}]
  /\ DOMAIN page = Deleters /\ more \in [Deleters -> BOOLEAN]
  /\ gone \in BOOLEAN /\ calm \in BOOLEAN

\* A bucket that is not there holds nothing, and one without versions no markers
\* and one object to a key.
BucketInv ==
  /\ ~exists => entries = {} /\ ~versioned
  /\ ~versioned => \A e \in entries : e.n = 1 /\ ~e.mark

\* A call that finds the bucket absent, and a deleter that was told so, are right.
GoneInv ==
  /\ pc # "idle" /\ ~exists => gone
  /\ \A d \in Deleters : err[d] # "none" => pc = "empty"
  /\ \A d \in Deleters : err[d] = "nosuch" => gone
  /\ pc # "idle" => result = "none"
  /\ NilMeansGone

\* What the deleter of objects has not on its page is on a later one.
Covered ==
  /\ pc = "empty" /\ at["objects"] = "delete" /\ ~more["objects"] => entries \subseteq page["objects"]
  /\ pc = "empty" /\ at["objects"] = "end" => entries = {}
  /\ pc = "delete" => entries = {}

\* Undisturbed, no call fails, and only versions can be left over.
CalmInv ==
  calm => /\ result # "error" /\ (result = "notempty" => versioned /\ entries # {})
          /\ pc \in {"empty", "delete"} => exists
          /\ \A d \in Deleters : err[d] = "none"
          /\ ~versioned => Covered

DeleteInv == DeleteShape /\ BucketInv /\ GoneInv /\ CalmInv

USE DEF Deleters, NoSuchErrors

LEMMA DeleteInitInv == DeleteInit => DeleteInv
  BY DeleteAssumption
  DEF DeleteInit, DeleteInv, DeleteShape, BucketInv, GoneInv, CalmInv, Covered, NilMeansGone

LEMMA BeginInv ==
  ASSUME DeleteInv, Begin
  PROVE  DeleteInv'
  BY DEF Begin, bucket, deleters, DeleteInv, DeleteShape, BucketInv, GoneInv, CalmInv, Covered,
         NilMeansGone

LEMMA HeadInv ==
  ASSUME DeleteInv, Head
  PROVE  DeleteInv'
  BY DEF Head, Return, Sound, Faulty, bucket, deleters, DeleteInv, DeleteShape, BucketInv, GoneInv,
         CalmInv, Covered, NilMeansGone

LEMMA WaitInv ==
  ASSUME DeleteInv, Wait
  PROVE  DeleteInv'
  BY DEF Wait, Return, DeletersEnd, bucket, DeleteInv, DeleteShape, BucketInv, GoneInv,
         CalmInv, Covered, NilMeansGone

LEMMA DeleteBucketInv ==
  ASSUME DeleteInv, DeleteBucket
  PROVE  DeleteInv'
<1>0. /\ pc = "delete" /\ pc' = "idle" /\ versioned' = (versioned /\ exists')
      /\ UNCHANGED <<entries, at, err, page, more>>
  BY DEF DeleteBucket, Return, deleters
<1>1. /\ exists' \in BOOLEAN /\ gone' \in BOOLEAN /\ calm' \in BOOLEAN
      /\ result' \in {"nil", "notempty", "error"}
      /\ exists' \in {exists, FALSE} /\ (~exists' => entries = {})
  BY DEF DeleteBucket, Return, Sound, Faulty, DeleteInv, DeleteShape, BucketInv
<1>2. DeleteShape' /\ BucketInv'
  BY <1>0, <1>1 DEF DeleteInv, DeleteShape, BucketInv
<1>3. GoneInv'
  BY <1>0 DEF DeleteBucket, Return, Sound, Faulty, DeleteInv, GoneInv, NilMeansGone
<1>4. ASSUME calm' PROVE result' # "error" /\ (result' = "notempty" => versioned' /\ entries' # {})
  <2>1. calm /\ exists /\ (~versioned => entries = {})
    BY <1>0, <1>4 DEF DeleteBucket, Sound, Faulty, DeleteInv, DeleteShape, CalmInv, Covered
  <2>2. QED
    BY <1>0, <1>4, <2>1 DEF DeleteBucket, Return, Sound, Faulty, DeleteInv, DeleteShape
<1>5. CalmInv'
  <2>1. \A d \in Deleters : err[d] = "none"
    BY <1>0 DEF DeleteInv, GoneInv
  <2>2. QED
    BY <1>0, <1>4, <2>1 DEF CalmInv, Covered
<1>6. QED
  BY <1>2, <1>3, <1>5 DEF DeleteInv

\* A failing call of a deleter disturbs, or finds the bucket absent.
LEMMA CallFailsInv ==
  ASSUME DeleteInv, NEW d \in Deleters, pc = "empty", CallFails(d)
  PROVE  /\ err' \in [Deleters -> NoSuchErrors \cup {"none"}] /\ ~calm' /\ calm' \in BOOLEAN
         /\ \A c \in Deleters : err'[c] = "nosuch" => gone
<1>1. PICK e \in NoSuchErrors : /\ err' = [err EXCEPT ![d] = IF @ = "none" THEN e ELSE @]
                                /\ e = "nosuch" => ~exists
  BY DEF CallFails
<1>2. err' \in [Deleters -> NoSuchErrors \cup {"none"}]
  BY <1>1 DEF DeleteInv, DeleteShape
<1>3. calm' = FALSE \/ (~exists /\ calm' = calm)
  BY DEF CallFails, Faulty, Sound
<1>4. ~calm' /\ calm' \in BOOLEAN
  <2>1. ~exists => calm = FALSE
    BY DEF DeleteInv, DeleteShape, CalmInv
  <2>2. calm' = FALSE
    BY <1>3, <2>1
  <2>3. QED
    BY <2>2
<1>5. \A c \in Deleters : err'[c] = "nosuch" => gone
  BY <1>1 DEF DeleteInv, DeleteShape, GoneInv
<1>6. QED
  BY <1>2, <1>4, <1>5

\* In a bucket without versions the listing of objects has every entry.
LEMMA ListsAll ==
  ASSUME BucketInv, ~versioned
  PROVE  Listing("objects") = entries
  BY DEF BucketInv, Listing, Newest

LEMMA ListInv ==
  ASSUME DeleteInv, NEW d \in Deleters, List(d)
  PROVE  DeleteInv'
<1>0. /\ pc = "empty" /\ at[d] = "list" /\ GoesOn(d)
      /\ UNCHANGED <<exists, versioned, entries, pc, result, puts, gone>>
  BY DEF List, bucket
<1>1. at' = [at EXCEPT ![d] = at'[d]] /\ at'[d] \in {"list", "delete", "end"}
  BY <1>0 DEF GoesOn, DeleteInv, DeleteShape
<1>2. CASE CallFails(d) /\ UNCHANGED <<page, more, marker>>
  BY <1>0, <1>1, <1>2, CallFailsInv
  DEF DeleteInv, DeleteShape, BucketInv, GoneInv, CalmInv, NilMeansGone
<1>3. CASE /\ exists /\ page' = [page EXCEPT ![d] = FirstPage(Listing(d))]
           /\ more' = [more EXCEPT ![d] = Listing(d) # FirstPage(Listing(d))]
           /\ UNCHANGED <<err, faults, calm>>
  <2>1. /\ page'[d] = FirstPage(Listing(d)) /\ DOMAIN page' = Deleters
        /\ \A c \in Deleters \ {d} : page'[c] = page[c]
    BY <1>3 DEF DeleteInv, DeleteShape
  <2>2. /\ more' \in [Deleters -> BOOLEAN] /\ more'[d] = (Listing(d) # FirstPage(Listing(d)))
        /\ \A c \in Deleters \ {d} : more'[c] = more[c]
    BY <1>3 DEF DeleteInv, DeleteShape
  <2>3. DeleteShape' /\ BucketInv' /\ GoneInv'
    BY <1>0, <1>1, <1>3, <2>1, <2>2
    DEF DeleteInv, DeleteShape, BucketInv, GoneInv, NilMeansGone
  <2>4. ASSUME calm, ~versioned PROVE Covered'
    <3>1. CASE d = "objects"
      <4>1. Listing(d) = entries
        BY <3>1, <2>4, ListsAll DEF DeleteInv
      <4>2. ~more'[d] => page'[d] = entries
        BY <2>1, <2>2, <4>1
      <4>3. err'[d] = "none"
        BY <1>3, <2>4 DEF DeleteInv, CalmInv
      <4>4. at'[d] = "end" => page'[d] = {} /\ ~more'[d]
        BY <1>0, <4>3 DEF GoesOn, DeleteInv, DeleteShape
      <4>5. QED
        BY <1>0, <3>1, <4>2, <4>4 DEF Covered
    <3>2. CASE d = "versions"
      BY <1>0, <1>1, <2>1, <2>2, <2>4, <3>2 DEF Covered, DeleteInv, DeleteShape, CalmInv
    <3>3. QED
      BY <3>1, <3>2
  <2>5. CalmInv'
    BY <1>0, <1>3, <2>4 DEF DeleteInv, CalmInv
  <2>6. QED
    BY <2>3, <2>5 DEF DeleteInv
<1>4. QED
  BY <1>2, <1>3 DEF List, Sound

LEMMA DeleteObjectInv ==
  ASSUME DeleteInv, NEW d \in Deleters, NEW e \in page[d], DeleteObject(d, e)
  PROVE  DeleteInv'
<1>0. /\ pc = "empty" /\ at[d] = "delete" /\ GoesOn(d) /\ page' = [page EXCEPT ![d] = @ \ {e}]
      /\ UNCHANGED <<more, exists, versioned, pc, result, gone>>
  BY DEF DeleteObject
<1>1. at' = [at EXCEPT ![d] = at'[d]] /\ at'[d] \in {"list", "delete", "end"}
  BY <1>0 DEF GoesOn, DeleteInv, DeleteShape
<1>2. /\ page'[d] = page[d] \ {e} /\ DOMAIN page' = Deleters
      /\ \A c \in Deleters \ {d} : page'[c] = page[c]
  BY <1>0 DEF DeleteInv, DeleteShape
<1>3. CASE CallFails(d) /\ UNCHANGED entries
  BY <1>0, <1>1, <1>2, <1>3, CallFailsInv
  DEF DeleteInv, DeleteShape, BucketInv, GoneInv, CalmInv, NilMeansGone
<1>4. CASE exists /\ entries' = Without(d, e) /\ UNCHANGED <<err, faults, calm>>
  <2>1. ~versioned => entries' = entries \ {e}
    BY <1>4 DEF Without
  <2>2. DeleteShape' /\ BucketInv' /\ GoneInv'
    BY <1>0, <1>1, <1>2, <1>4, <2>1
    DEF DeleteInv, DeleteShape, BucketInv, GoneInv, NilMeansGone
  <2>3. ASSUME calm, ~versioned PROVE Covered'
    <3>1. CASE d = "objects"
      <4>1. err'[d] = "none"
        BY <1>4, <2>3 DEF DeleteInv, CalmInv
      <4>2. at'[d] = "end" => page'[d] = {} /\ ~more[d]
        BY <1>0, <4>1 DEF GoesOn, DeleteInv, DeleteShape
      <4>3. ~more[d] => entries' \subseteq page'[d]
        BY <1>0, <1>2, <2>1, <2>3, <3>1 DEF DeleteInv, CalmInv, Covered
      <4>4. QED
        BY <1>0, <3>1, <4>2, <4>3 DEF Covered
    <3>2. CASE d = "versions"
      BY <1>0, <1>1, <1>2, <2>1, <2>3, <3>2 DEF Covered, DeleteInv, DeleteShape, CalmInv
    <3>3. QED
      BY <3>1, <3>2
  <2>4. CalmInv'
    BY <1>0, <1>4, <2>3 DEF DeleteInv, CalmInv, GoneInv
  <2>5. QED
    BY <2>2, <2>4 DEF DeleteInv
<1>5. QED
  BY <1>3, <1>4 DEF DeleteObject, Sound

LEMMA StepInv ==
  ASSUME DeleteInv, Step
  PROVE  DeleteInv'
  BY HeadInv, WaitInv, DeleteBucketInv, ListInv, DeleteObjectInv DEF Step

LEMMA PutInv ==
  ASSUME DeleteInv, NEW k \in Keys, Put(k)
  PROVE  DeleteInv'
<1>0. /\ exists /\ calm' = (calm /\ pc = "idle") /\ entries \subseteq entries'
      /\ UNCHANGED <<exists, versioned, pc, result, at, err, page, more, gone>>
  BY DEF Put, deleters
<1>1. ~versioned => entries' = entries \cup {[key |-> k, n |-> 1, mark |-> FALSE]}
  BY DEF Put
<1>2. DeleteShape' /\ BucketInv' /\ GoneInv'
  BY <1>0, <1>1 DEF DeleteInv, DeleteShape, BucketInv, GoneInv, NilMeansGone
<1>3. CalmInv'
  BY <1>0 DEF DeleteInv, DeleteShape, CalmInv, Covered
<1>4. QED
  BY <1>2, <1>3 DEF DeleteInv

LEMMA RemoveBucketInv ==
  ASSUME DeleteInv, RemoveBucket
  PROVE  DeleteInv'
  BY DEF RemoveBucket, deleters, DeleteInv, DeleteShape, BucketInv, GoneInv, CalmInv, Covered,
         NilMeansGone

---------------------------------------------------------------------------
(* Listings, and the version numbers that S3 gives out. *)

LEMMA PartOfListing ==
  ASSUME NEW S, IsListing(S), NEW T \in SUBSET S
  PROVE  IsListing(T)
<1>1. IsFiniteSet(T)
  BY FS_Subset DEF IsListing
<1>2. QED
  BY <1>1 DEF IsListing

LEMMA NoListing == IsListing({})
  BY FS_EmptySet DEF IsListing

LEMMA ListingWith ==
  ASSUME NEW S, IsListing(S), NEW e \in Entries,
         \A f \in S : f.key = e.key /\ f.n = e.n => f = e
  PROVE  IsListing(S \cup {e})
<1>1. IsFiniteSet(S \cup {e})
  BY FS_AddElement DEF IsListing
<1>2. QED
  BY <1>1 DEF IsListing

\* The entries of a key that were seen are finitely many, so that one of the
\* numbers is the largest.
LEMMA FreshIsNew ==
  ASSUME IsListing(entries), \A d \in Deleters : IsListing(page[d]), marker.n \in Nat, NEW k
  PROVE  Fresh(k) \in Nat /\ \A e \in entries : e.key = k => e.n < Fresh(k)
<1> DEFINE seen == entries \cup UNION {page[d] : d \in Deleters}
           ofKey == {f \in seen : f.key = k}
           numbers == {0, marker.n} \cup {e.n : e \in ofKey}
<1>1. seen = entries \cup (page["objects"] \cup page["versions"])
  BY DEF Deleters
<1>2. IsFiniteSet(seen)
  BY <1>1, FS_Union DEF IsListing, Deleters
<1>3. \A e \in seen : e.n \in Nat
  BY <1>1 DEF IsListing, Entries, Deleters
<1> HIDE DEF seen
<1>4. IsFiniteSet(numbers)
  <2>1. IsFiniteSet(ofKey)
    BY <1>2, FS_Subset
  <2>2. IsFiniteSet({e.n : e \in ofKey})
    <3> DEFINE f == [e \in ofKey |-> e.n]
               T == {e.n : e \in ofKey}
    <3>1. f \in [ofKey -> T] /\ \A t \in T : \E e \in ofKey : f[e] = t
      OBVIOUS
    <3> HIDE DEF f, T, ofKey
    <3>2. f \in Surjection(ofKey, T)
      BY <3>1 DEF Surjection
    <3>3. IsFiniteSet(T)
      BY <2>1, <3>2, FS_Surjection
    <3>4. QED
      BY <3>3 DEF T
  <2>3. IsFiniteSet({0, marker.n})
    <3>1. {0, marker.n} = {0} \cup {marker.n}
      OBVIOUS
    <3>2. IsFiniteSet({0})
      BY FS_Singleton
    <3>3. QED
      BY <3>1, <3>2, FS_AddElement
  <2>4. QED
    BY <2>2, <2>3, FS_Union
<1>5. numbers \in SUBSET Nat /\ numbers # {}
  BY <1>3
<1>6. Fresh(k) = 1 + Max(numbers)
  BY DEF Fresh, seen
<1>7. \A e \in entries : e.key = k => e.n \in numbers
  BY DEF seen
<1> HIDE DEF numbers
<1>8. \E m \in numbers : \A a \in numbers : m >= a
  <2>1. PICK m \in numbers : \A a \in numbers : a <= m
    BY <1>4, <1>5, HasMax
  <2>2. \A a \in numbers : m >= a
    BY <1>5, <2>1
  <2>3. QED
    BY <2>2
<1>9. Max(numbers) \in numbers /\ \A a \in numbers : Max(numbers) >= a
  BY <1>8 DEF Max
<1>10. QED
  <2>1. Max(numbers) \in Nat
    BY <1>5, <1>9
  <2>2. ASSUME NEW e \in entries, e.key = k PROVE e.n < 1 + Max(numbers)
    <3>1. e.n \in Nat /\ Max(numbers) >= e.n
      BY <1>5, <1>7, <1>9, <2>2
    <3>2. QED
      BY <2>1, <3>1
  <2>3. QED
    BY <1>6, <2>1, <2>2

\* A page that is not empty has a last entry, at which the next one starts.
LEMMA PageHasLast ==
  ASSUME NEW S, IsListing(S), S # {}
  PROVE  LastOf(S) \in S
<1> DEFINE R == {p \in S \X S : Before(p[1], p[2])}
<1>0. ASSUME NEW e \in S PROVE e.key \in Nat /\ e.n \in Nat
  <2>1. e.key \in Keys /\ e.n \in Nat
    BY DEF IsListing, Entries
  <2>2. QED
    BY <2>1, DeleteAssumption
<1>1. \A e, f \in S : <<e, f>> \in R <=> Before(e, f)
  OBVIOUS
<1> HIDE DEF R
<1>2. ASSUME NEW e \in S, NEW f \in S PROVE e = f \/ <<e, f>> \in R \/ <<f, e>> \in R
  <2>1. e.key = f.key /\ e.n = f.n => e = f
    BY DEF IsListing
  <2>2. e = f \/ Before(e, f) \/ Before(f, e)
    BY <1>0, <2>1 DEF Before
  <2>3. QED
    BY <1>1, <2>2
<1>3. ASSUME NEW e \in S, NEW f \in S, NEW g \in S, <<e, f>> \in R, <<f, g>> \in R
      PROVE  <<e, g>> \in R
  <2>1. Before(e, f) /\ Before(f, g)
    BY <1>1, <1>3
  <2>2. Before(e, g)
    BY <1>0, <2>1 DEF Before
  <2>3. QED
    BY <1>1, <2>2
<1>4. IsFiniteSet(S)
  BY DEF IsListing
<1>5. PICK last \in S : \A e \in S : e = last \/ <<e, last>> \in R
  BY <1>2, <1>3, <1>4, HasLast
<1>6. \E e \in S : \A f \in S : f = e \/ Before(f, e)
  BY <1>1, <1>5
<1>7. QED
  BY <1>6 DEF LastOf

\* What DeleteShape and RequestShape leave out of the types.
ListingInv ==
  /\ IsListing(entries) /\ \A d \in Deleters : IsListing(page[d])
  /\ marker \in [key : Keys \cup {0}, n : Nat]
  /\ puts \in 0..MaxPuts /\ faults \in 0..MaxFaults

LEMMA ListingInit == DeleteInit => ListingInv
<1>1. ASSUME DeleteInit PROVE ListingInv
  <2>1. IsListing(entries)
    BY <1>1, NoListing, DeleteAssumption DEF DeleteInit
  <2>2. \A d \in Deleters : IsListing(page[d])
    BY <1>1, NoListing DEF DeleteInit
  <2>3. QED
    BY <1>1, <2>1, <2>2, DeleteAssumption DEF DeleteInit, ListingInv, Start
<1>2. QED
  BY <1>1

\* A call fails within the bound, or does not count.
LEMMA FaultsBound ==
  ASSUME faults \in 0..MaxFaults,
         (faults < MaxFaults /\ faults' = faults + 1) \/ UNCHANGED faults
  PROVE  faults' \in 0..MaxFaults
  BY DeleteAssumption

LEMMA DeletersEndListing ==
  ASSUME ListingInv, DeletersEnd, UNCHANGED <<entries, puts>>, faults' \in 0..MaxFaults
  PROVE  ListingInv'
<1>1. \A d \in Deleters : IsListing(page'[d])
  BY NoListing DEF DeletersEnd
<1>2. marker' \in [key : Keys \cup {0}, n : Nat]
  BY DEF DeletersEnd, Start
<1>3. IsListing(entries')
  BY DEF ListingInv
<1>4. QED
  BY <1>1, <1>2, <1>3 DEF ListingInv

\* Steps that leave pages and entries alone.
LEMMA SameListing ==
  ASSUME ListingInv, UNCHANGED <<entries, page, puts>>, marker' \in {marker, Start},
         faults' \in 0..MaxFaults
  PROVE  ListingInv'
<1>1. marker' \in [key : Keys \cup {0}, n : Nat]
  BY DEF ListingInv, Start
<1>2. IsListing(entries') /\ \A d \in Deleters : IsListing(page'[d])
  BY DEF ListingInv
<1>3. QED
  BY <1>1, <1>2 DEF ListingInv

LEMMA ListListing ==
  ASSUME DeleteShape, ListingInv, NEW d \in Deleters, List(d)
  PROVE  ListingInv'
<1>1. CASE CallFails(d) /\ UNCHANGED <<page, more, marker>>
  <2>1. UNCHANGED <<entries, puts>> /\ faults' \in 0..MaxFaults
    BY <1>1, FaultsBound DEF List, CallFails, Faulty, Sound, bucket, ListingInv
  <2>2. QED
    BY <1>1, <2>1, SameListing
<1>2. CASE ~(CallFails(d) /\ UNCHANGED <<page, more, marker>>)
  <2> DEFINE next == FirstPage(Listing(d))
  <2>1. /\ page' = [page EXCEPT ![d] = next]
        /\ marker' = IF d = "objects" \/ next = {} THEN marker
                     ELSE [key |-> LastOf(next).key, n |-> LastOf(next).n]
        /\ UNCHANGED <<entries, puts, faults>>
    BY <1>2 DEF List, Sound, bucket
  <2>2. IsListing(next)
    <3>1. next \in SUBSET entries
      BY DEF FirstPage, Listing
    <3>2. QED
      BY <3>1, PartOfListing DEF ListingInv
  <2> HIDE DEF next
  <2>3. \A c \in Deleters : IsListing(page'[c])
    BY <2>1, <2>2 DEF DeleteShape, ListingInv
  <2>4. marker' \in [key : Keys \cup {0}, n : Nat]
    <3>1. CASE d = "objects" \/ next = {}
      BY <2>1, <3>1 DEF ListingInv
    <3>2. CASE d # "objects" /\ next # {}
      <4>1. LastOf(next) \in Entries
        BY <2>2, <3>2, PageHasLast DEF IsListing
      <4>2. LastOf(next).key \in Keys /\ LastOf(next).n \in Nat
        BY <4>1 DEF Entries
      <4>3. QED
        BY <2>1, <3>2, <4>2
    <3>3. QED
      BY <3>1, <3>2
  <2>5. IsListing(entries')
    BY <2>1 DEF ListingInv
  <2>6. QED
    BY <2>1, <2>3, <2>4, <2>5 DEF ListingInv
<1>3. QED
  BY <1>1, <1>2

LEMMA DeleteObjectListing ==
  ASSUME DeleteShape, ListingInv, NEW d \in Deleters, NEW e \in page[d], DeleteObject(d, e)
  PROVE  ListingInv'
<1>1. /\ page' = [page EXCEPT ![d] = @ \ {e}] /\ UNCHANGED <<marker, puts>>
      /\ entries' \in {entries, Without(d, e)}
  BY DEF DeleteObject
<1>2. faults' \in 0..MaxFaults
  BY FaultsBound DEF DeleteObject, CallFails, Faulty, Sound, ListingInv
<1>3. \A c \in Deleters : IsListing(page'[c])
  <2>1. IsListing(page[d] \ {e})
    BY PartOfListing DEF ListingInv
  <2>2. QED
    BY <1>1, <2>1 DEF DeleteShape, ListingInv
<1>4. IsListing(Without(d, e))
  <2>1. IsListing(entries) /\ marker.n \in Nat
    BY DEF ListingInv
  <2>2. IsListing(entries \ {e})
    BY <2>1, PartOfListing
  <2> DEFINE f == [key |-> e.key, n |-> Fresh(e.key), mark |-> TRUE]
  <2>3. Fresh(e.key) \in Nat /\ \A g \in entries : g.key = e.key => g.n < Fresh(e.key)
    BY <2>1, FreshIsNew DEF ListingInv
  <2>4. e.key \in Keys
    BY DEF ListingInv, IsListing, Entries
  <2>5. f \in Entries
    BY <2>3, <2>4 DEF Entries
  <2>6. \A g \in entries : ~(g.key = f.key /\ g.n = f.n)
    <3>1. \A g \in entries : g.n \in Nat
      BY <2>1 DEF IsListing, Entries
    <3>2. QED
      BY <2>3, <3>1
  <2>7. IsListing(entries \cup {f})
    <3> HIDE DEF f
    <3>1. QED
      BY <2>1, <2>5, <2>6, ListingWith
  <2>8. QED
    BY <2>2, <2>7 DEF Without
<1>5. IsListing(entries')
  BY <1>1, <1>4 DEF ListingInv
<1>6. marker' \in [key : Keys \cup {0}, n : Nat] /\ puts' \in 0..MaxPuts
  BY <1>1 DEF ListingInv
<1>7. QED
  BY <1>2, <1>3, <1>5, <1>6 DEF ListingInv

LEMMA StepListing ==
  ASSUME DeleteShape, ListingInv, Step
  PROVE  ListingInv'
<1>0. faults \in 0..MaxFaults
  BY DEF ListingInv
<1>1. CASE Head
  <2>1. faults' \in 0..MaxFaults
    BY <1>0, <1>1, FaultsBound DEF Head, Faulty, Sound
  <2>2. QED
    BY <1>1, <2>1, SameListing DEF Head, bucket, deleters
<1>2. CASE Wait
  <2>1. UNCHANGED <<entries, puts, faults>> /\ DeletersEnd
    BY <1>2 DEF Wait, bucket
  <2>2. QED
    BY <1>0, <2>1, DeletersEndListing
<1>3. CASE DeleteBucket
  <2>1. faults' \in 0..MaxFaults
    BY <1>0, <1>3, FaultsBound DEF DeleteBucket, Faulty, Sound
  <2>2. QED
    BY <1>3, <2>1, SameListing DEF DeleteBucket, deleters
<1>4. QED
  BY <1>1, <1>2, <1>3, ListListing, DeleteObjectListing DEF Step

LEMMA PutListing ==
  ASSUME BucketInv, ListingInv, NEW k \in Keys, Put(k)
  PROVE  ListingInv'
<1> DEFINE e == [key |-> k, n |-> IF versioned THEN Fresh(k) ELSE 1, mark |-> FALSE]
<1>0. /\ entries' = entries \cup {e} /\ puts < MaxPuts /\ puts' = puts + 1
      /\ UNCHANGED <<page, marker, faults>>
  BY DEF Put, deleters
<1>1. IsListing(entries) /\ marker.n \in Nat
  BY DEF ListingInv
<1>2. Fresh(k) \in Nat /\ \A f \in entries : f.key = k => f.n < Fresh(k)
  BY <1>1, FreshIsNew DEF ListingInv
<1>3. e \in Entries
  BY <1>2 DEF Entries
<1>4. ASSUME NEW f \in entries, f.key = e.key, f.n = e.n PROVE f = e
  <2>1. f \in Entries
    BY <1>1 DEF IsListing
  <2>2. CASE versioned
    <3>1. f.n < Fresh(k) /\ f.n \in Nat /\ f.n = Fresh(k)
      BY <1>2, <1>4, <2>1, <2>2 DEF Entries
    <3>2. QED
      BY <1>2, <3>1
  <2>3. CASE ~versioned
    <3>1. ~f.mark
      BY <2>3 DEF BucketInv
    <3>2. f.mark = FALSE
      BY <2>1, <3>1 DEF Entries
    <3>3. QED
      BY <1>4, <2>1, <3>2 DEF Entries
  <2>4. QED
    BY <2>2, <2>3
<1>5. IsListing(entries')
  <2> HIDE DEF e
  <2>1. QED
    BY <1>0, <1>1, <1>3, <1>4, ListingWith
<1>6. puts' \in 0..MaxPuts
  BY <1>0, DeleteAssumption DEF ListingInv
<1>7. QED
  BY <1>0, <1>5, <1>6 DEF ListingInv

---------------------------------------------------------------------------
(* The inductive invariant of the webhook and the monitor. *)

RequestShape ==
  /\ stored \in BOOLEAN /\ cleaning \in BOOLEAN /\ stray \in BOOLEAN
  /\ request \in [Requests -> {"new", "lifecycle", "create", "put"} \cup Answered]
  /\ kind \in [Requests -> RequestKinds]

\* During a cleanup, a bucket that is there after it was absent was made again.
StrayInv == BackendLeavesNoBucket /\ (cleaning /\ gone /\ exists => stray)

Inv == DeleteInv /\ RequestShape /\ StrayInv /\ RemovalUnderWay

LEMMA InitInv == Init => Inv
<1>1. ASSUME Init PROVE RequestShape
  <2>1. kind \in [Requests -> RequestKinds]
    BY <1>1, ValidationAssumption DEF Init
  <2>2. request \in [Requests -> {"new", "lifecycle", "create", "put"} \cup Answered]
    BY <1>1 DEF Init
  <2>3. stored \in BOOLEAN /\ cleaning \in BOOLEAN /\ stray \in BOOLEAN
    BY <1>1 DEF Init, DeleteInit
  <2>4. QED
    BY <2>1, <2>2, <2>3 DEF RequestShape
<1>2. Init => StrayInv /\ RemovalUnderWay
  BY DEF Init, StrayInv, BackendLeavesNoBucket, RemovalUnderWay
<1>3. QED
  BY <1>1, <1>2, DeleteInitInv DEF Init, Inv

LEMMA MonitorInv ==
  ASSUME Inv, Monitor
  PROVE  Inv'
<1>1. CASE AddBackend
  <2>1. DeleteInv'
    BY <1>1 DEF AddBackend, deletion, bucket, deleters, Inv, DeleteInv, DeleteShape, BucketInv,
                GoneInv, CalmInv, Covered, NilMeansGone
  <2>2. RequestShape' /\ StrayInv' /\ RemovalUnderWay'
    BY <1>1 DEF AddBackend, deletion, bucket, requests, Inv, RequestShape, StrayInv, RemovalUnderWay,
                BackendLeavesNoBucket
  <2>3. QED
    BY <2>1, <2>2 DEF Inv
<1>2. CASE Cleanup
  <2>1. DeleteInv'
    <3>1. CASE Begin
      BY <3>1, BeginInv DEF Inv
    <3>2. CASE UNCHANGED deletion
      BY <3>2 DEF deletion, bucket, deleters, Inv, DeleteInv, DeleteShape, BucketInv,
                  GoneInv, CalmInv, Covered, NilMeansGone
    <3>3. QED
      BY <1>2, <3>1, <3>2 DEF Cleanup
  <2>2. RequestShape' /\ StrayInv' /\ RemovalUnderWay'
    BY <1>2 DEF Cleanup, Begin, deletion, bucket, requests, Inv, DeleteInv, DeleteShape,
                RequestShape, StrayInv, RemovalUnderWay, BackendLeavesNoBucket
  <2>3. QED
    BY <2>1, <2>2 DEF Inv
<1>3. CASE RemoveBackend
  <2>0. /\ cleaning /\ pc = "idle" /\ ~cleaning' /\ result' = "none" /\ ~gone' /\ calm'
        /\ cleaning' \in BOOLEAN /\ gone' \in BOOLEAN /\ calm' \in BOOLEAN
        /\ UNCHANGED <<exists, versioned, entries, pc, at, err, page, more, request, kind, stray>>
    BY <1>3 DEF RemoveBackend, Forget, bucket, deleters
  <2>1. DeleteInv'
    BY <2>0 DEF Inv, DeleteInv, DeleteShape, BucketInv, GoneInv, CalmInv, Covered, NilMeansGone
  <2>2. CASE result = "nil" /\ stored' = FALSE
    BY <2>0, <2>1, <2>2 DEF Inv, DeleteInv, GoneInv, NilMeansGone, RequestShape, StrayInv,
                            BackendLeavesNoBucket, RemovalUnderWay
  <2>3. CASE UNCHANGED stored /\ queued' = TRUE
    BY <2>0, <2>1, <2>3 DEF Inv, RequestShape, StrayInv, BackendLeavesNoBucket, RemovalUnderWay
  <2>4. QED
    BY <1>3, <2>2, <2>3 DEF RemoveBackend
<1>4. CASE DeleteStep
  <2>1. DeleteInv'
    BY <1>4, StepInv DEF DeleteStep, Inv
  <2>2. (exists' = exists /\ gone' = gone) \/ exists' = FALSE
    <3>1. ASSUME NEW d \in Deleters, List(d) \/ \E e \in page[d] : DeleteObject(d, e)
          PROVE  UNCHANGED <<exists, gone>>
      BY <3>1 DEF List, DeleteObject, bucket
    <3>2. CASE Head \/ Wait
      BY <3>2 DEF Head, Wait, bucket
    <3>3. CASE DeleteBucket
      BY <3>3 DEF DeleteBucket, Inv, DeleteInv, DeleteShape
    <3>4. QED
      BY <1>4, <3>1, <3>2, <3>3 DEF DeleteStep, Step
  <2>3. RequestShape' /\ RemovalUnderWay'
    BY <1>4, <2>1 DEF DeleteStep, owners, Inv, DeleteInv, DeleteShape, RequestShape, RemovalUnderWay
  <2>4. StrayInv'
    BY <1>4, <2>2
    DEF DeleteStep, owners, Inv, RequestShape, StrayInv, BackendLeavesNoBucket
  <2>5. QED
    BY <2>1, <2>3, <2>4 DEF Inv
<1>5. QED
  BY <1>1, <1>2, <1>3, <1>4 DEF Monitor

LEMMA WebhookInv ==
  ASSUME Inv, NEW r \in Requests, Webhook(r)
  PROVE  Inv'
<1>0. UNCHANGED <<owners, kind>> /\ \E a \in {"lifecycle", "create", "put"} \cup Answered : Answers(r, a)
  BY DEF Webhook, ValidateUpdate, GetFirst, Create, PutLifecycle, Fails, Answered
<1>1. RemovalUnderWay' /\ UNCHANGED <<stored, cleaning>>
  BY <1>0 DEF owners, Inv, RemovalUnderWay
<1>2. request' \in [Requests -> {"new", "lifecycle", "create", "put"} \cup Answered]
  BY <1>0 DEF Answers, Inv, RequestShape
<1>3. CASE ~Create(r)
  <2>1. /\ UNCHANGED <<exists, versioned, entries, calm, pc, result, at, err, page, more, gone, stray>>
    BY <1>3 DEF Webhook, ValidateUpdate, GetFirst, PutLifecycle, Fails, CallMade, deletion, bucket, deleters
  <2>2. DeleteInv' /\ StrayInv'
    BY <1>1, <2>1 DEF Inv, DeleteInv, DeleteShape, BucketInv, GoneInv, CalmInv, Covered, NilMeansGone,
                      StrayInv, BackendLeavesNoBucket
  <2>3. QED
    BY <1>0, <1>1, <1>2, <2>1, <2>2 DEF Inv, RequestShape
<1>4. CASE Create(r)
  <2>0. /\ exists' \in {exists, TRUE}
        /\ UNCHANGED <<versioned, entries, calm, pc, result, at, err, page, more, gone>>
    BY <1>4 DEF Create, Fails, CallMade, bucket, deleters
  <2>1. exists' \in BOOLEAN /\ (exists => exists')
    BY <2>0 DEF Inv, DeleteInv, DeleteShape
  <2>2. DeleteInv'
    BY <2>0, <2>1 DEF Inv, DeleteInv, DeleteShape, BucketInv, GoneInv, CalmInv, Covered, NilMeansGone
  <2>3. StrayInv' /\ stray' \in BOOLEAN
    <3>1. CASE stray' = (cleaning \/ ~stored)
      BY <1>1, <2>0, <3>1 DEF Inv, StrayInv, BackendLeavesNoBucket, RequestShape
    <3>2. CASE UNCHANGED <<exists, stray>>
      BY <1>1, <2>0, <3>2 DEF Inv, StrayInv, BackendLeavesNoBucket, RequestShape
    <3>3. QED
      BY <1>4, <3>1, <3>2 DEF Create, Fails, bucket
  <2>4. QED
    BY <1>0, <1>1, <1>2, <2>2, <2>3 DEF Inv, RequestShape
<1>5. QED
  BY <1>3, <1>4

LEMMA OthersInv ==
  ASSUME Inv, UserEdit \/ OtherUser \/ Restart
  PROVE  Inv'
<1>1. CASE UserEdit
  BY <1>1
  DEF UserEdit, deletion, bucket, deleters, requests, Inv, DeleteInv, DeleteShape, BucketInv, GoneInv,
      CalmInv, Covered, NilMeansGone, RequestShape, StrayInv, BackendLeavesNoBucket,
      RemovalUnderWay
<1>2. CASE OtherUser
  <2>1. CASE (\E k \in Keys : Put(k)) /\ UNCHANGED stray
    <3>1. DeleteInv'
      BY <2>1, PutInv DEF Inv
    <3>2. UNCHANGED <<exists, gone>>
      BY <2>1 DEF Put
    <3>3. QED
      BY <1>2, <2>1, <3>1, <3>2
      DEF OtherUser, owners, Inv, RequestShape, StrayInv, BackendLeavesNoBucket, RemovalUnderWay
  <2>2. CASE RemoveBucket /\ stray' = FALSE
    <3>1. DeleteInv'
      BY <2>2, RemoveBucketInv DEF Inv
    <3>2. exists' = FALSE
      BY <2>2 DEF RemoveBucket
    <3>3. QED
      BY <1>2, <2>2, <3>1, <3>2
      DEF OtherUser, owners, Inv, RequestShape, StrayInv, BackendLeavesNoBucket, RemovalUnderWay
  <2>3. QED
    BY <1>2, <2>1, <2>2 DEF OtherUser
<1>3. CASE Restart
  <2>0. /\ UNCHANGED <<exists, versioned, entries, kind>> /\ pc' = "idle" /\ result' = "none"
        /\ gone' = FALSE /\ calm' = TRUE /\ cleaning' = FALSE /\ stored' = FALSE /\ stray' = exists
        /\ DeletersEnd
    BY <1>3 DEF Restart, Forget, bucket
  <2>1. DeleteInv'
    BY <2>0 DEF DeletersEnd, Inv, DeleteInv, DeleteShape, BucketInv, GoneInv, CalmInv, Covered,
                NilMeansGone
  <2>2. StrayInv' /\ stray' \in BOOLEAN
    BY <2>0 DEF Inv, DeleteInv, DeleteShape, StrayInv, BackendLeavesNoBucket
  <2>3. request' = [r \in Requests |-> IF request[r] \in Answered \cup {"new"} THEN request[r]
                                       ELSE "rejected"]
    BY <1>3 DEF Restart
  <2>4. RequestShape' /\ RemovalUnderWay'
    BY <2>0, <2>2, <2>3 DEF Inv, Answered, RequestShape, RemovalUnderWay
  <2>5. QED
    BY <2>1, <2>2, <2>4 DEF Inv
<1>4. QED
  BY <1>1, <1>2, <1>3

LEMMA InvStep == Inv /\ [Next]_vars => Inv'
<1>1. Inv /\ UNCHANGED vars => Inv'
  BY DEF vars, deletion, bucket, deleters, owners, requests, Inv, DeleteInv, DeleteShape, BucketInv,
         GoneInv, CalmInv, Covered, NilMeansGone, RequestShape, StrayInv, BackendLeavesNoBucket,
         RemovalUnderWay
<1>2. QED
  BY <1>1, MonitorInv, WebhookInv, OthersInv DEF Next

LEMMA SpecInv == Spec => []Inv
  BY InitInv, InvStep, PTL DEF Spec

---------------------------------------------------------------------------
(* The type invariant.  The monitor and the webhook leave the rest of the  *)
(* types to the forced delete.                                             *)

\* What RequestShape leaves out of the types.
OwnerShape ==
  /\ config \in BOOLEAN /\ queued \in BOOLEAN
  /\ edits \in 0..MaxEdits /\ restarts \in 0..MaxRestarts

TypeInv == Inv /\ ListingInv /\ OwnerShape

LEMMA TypeInitInv == Init => TypeInv
<1>1. Init => OwnerShape
  BY ValidationAssumption DEF Init, OwnerShape
<1>2. QED
  BY <1>1, InitInv, ListingInit DEF Init, TypeInv

LEMMA WebhookTypes ==
  ASSUME TypeInv, NEW r \in Requests, Webhook(r)
  PROVE  ListingInv' /\ OwnerShape'
<1>0. ListingInv /\ OwnerShape /\ faults \in 0..MaxFaults
  BY DEF TypeInv, ListingInv
<1>1. UNCHANGED <<entries, page, puts, marker, config, queued, edits, restarts>>
  BY DEF Webhook, ValidateUpdate, GetFirst, Create, PutLifecycle, Fails, CallMade, deletion, bucket,
         deleters, owners
<1>2. faults' \in 0..MaxFaults
  BY <1>0, FaultsBound
  DEF Webhook, ValidateUpdate, GetFirst, Create, PutLifecycle, Fails, deletion
<1>3. ListingInv'
  BY <1>0, <1>1, <1>2, SameListing
<1>4. QED
  BY <1>0, <1>1, <1>3 DEF OwnerShape

LEMMA MonitorTypes ==
  ASSUME TypeInv, Monitor
  PROVE  ListingInv' /\ OwnerShape'
<1>0. ListingInv /\ OwnerShape /\ DeleteShape /\ faults \in 0..MaxFaults
  BY DEF TypeInv, ListingInv, Inv, DeleteInv
<1>1. OwnerShape'
  <2>1. UNCHANGED <<config, edits, restarts>> /\ queued' \in {queued, TRUE, FALSE}
    BY DEF Monitor, AddBackend, Cleanup, RemoveBackend, DeleteStep, owners
  <2>2. QED
    BY <1>0, <2>1 DEF OwnerShape
<1>2. CASE DeleteStep
  BY <1>0, <1>1, <1>2, StepListing DEF DeleteStep
<1>3. CASE AddBackend \/ Cleanup \/ RemoveBackend
  <2>1. UNCHANGED <<entries, page, puts, marker, faults>>
    BY <1>3 DEF AddBackend, Cleanup, RemoveBackend, Begin, deletion, bucket, deleters
  <2>2. QED
    BY <1>0, <1>1, <2>1, SameListing
<1>4. QED
  BY <1>2, <1>3 DEF Monitor

LEMMA OthersTypes ==
  ASSUME TypeInv, UserEdit \/ OtherUser \/ Restart
  PROVE  ListingInv' /\ OwnerShape'
<1>0. ListingInv /\ OwnerShape /\ BucketInv /\ faults \in 0..MaxFaults
  BY DEF TypeInv, ListingInv, Inv, DeleteInv
<1>1. CASE UserEdit
  <2>1. UNCHANGED <<entries, page, puts, marker, faults>>
    BY <1>1 DEF UserEdit, deletion, bucket, deleters
  <2>2. ListingInv'
    BY <1>0, <2>1, SameListing
  <2>3. edits' \in 0..MaxEdits
    BY <1>0, <1>1, ValidationAssumption DEF UserEdit, OwnerShape
  <2>4. config' \in BOOLEAN /\ queued' \in BOOLEAN /\ UNCHANGED restarts
    BY <1>0, <1>1 DEF UserEdit, OwnerShape
  <2>5. QED
    BY <1>0, <2>2, <2>3, <2>4 DEF OwnerShape
<1>2. CASE OtherUser
  <2>1. OwnerShape'
    BY <1>0, <1>2 DEF OtherUser, owners, OwnerShape
  <2>2. ASSUME NEW k \in Keys, Put(k) PROVE ListingInv'
    BY <1>0, <2>2, PutListing
  <2>3. CASE RemoveBucket
    BY <1>0, <2>1, <2>3, SameListing DEF RemoveBucket, deleters
  <2>4. QED
    BY <1>2, <2>1, <2>2, <2>3 DEF OtherUser
<1>3. CASE Restart
  <2>1. UNCHANGED <<entries, puts, faults>> /\ DeletersEnd
    BY <1>3 DEF Restart, bucket
  <2>2. ListingInv'
    BY <1>0, <2>1, DeletersEndListing
  <2>3. restarts' \in 0..MaxRestarts
    BY <1>0, <1>3, ValidationAssumption DEF Restart, OwnerShape
  <2>4. UNCHANGED <<config, edits>> /\ queued' = config
    BY <1>3 DEF Restart
  <2>5. QED
    BY <1>0, <2>2, <2>3, <2>4 DEF OwnerShape
<1>4. QED
  BY <1>1, <1>2, <1>3

---------------------------------------------------------------------------
(* Theorems *)

\* The bucket and the pages of a forced delete hold versions that can be told
\* apart by key and number, each page has an entry from which the next listing
\* starts, and every counter keeps its bound, however requests, the monitor,
\* other users and restarts interleave.
THEOREM TypeCorrect == Spec => []TypeOK
<1>1. TypeInv /\ [Next]_vars => TypeInv'
  <2>1. ASSUME TypeInv, UNCHANGED vars PROVE ListingInv' /\ OwnerShape'
    <3>1. UNCHANGED <<entries, page, puts, marker, faults, config, queued, edits, restarts>>
      BY <2>1 DEF vars, deletion, bucket, deleters, owners
    <3>2. ListingInv'
      BY <2>1, <3>1, SameListing DEF TypeInv, ListingInv
    <3>3. QED
      BY <2>1, <3>1, <3>2 DEF TypeInv, OwnerShape
  <2>2. TypeInv /\ [Next]_vars => ListingInv' /\ OwnerShape'
    BY <2>1, MonitorTypes, WebhookTypes, OthersTypes DEF Next
  <2>3. QED
    BY <2>2, InvStep DEF TypeInv
<1>2. TypeInv => TypeOK
  BY DEF TypeInv, Inv, DeleteInv, DeleteShape, ListingInv, RequestShape, OwnerShape, TypeOK,
         DeleteTypeOK
<1>3. QED
  BY <1>1, <1>2, TypeInitInv, PTL DEF Spec

\* DeleteBucket never says that it has deleted a bucket that was there throughout
\* the call, whichever of its goroutines fail and whatever others do.
THEOREM NilMeansGoneCorrect == Spec => []NilMeansGone
<1>1. Inv => NilMeansGone
  BY DEF Inv, DeleteInv, GoneInv
<1>2. QED
  BY <1>1, SpecInv, PTL

\* Undisturbed, a forced delete empties and deletes a bucket without versions,
\* whatever the sizes of the bucket and of a page: its two deleters do not get
\* in each other's way, and no page is left out.
THEOREM CalmDeleteSucceedsCorrect == Spec => []CalmDeleteSucceeds
<1>1. Inv => CalmDeleteSucceeds
  BY DEF Inv, DeleteInv, CalmInv, CalmDeleteSucceeds
<1>2. QED
  BY <1>1, SpecInv, PTL

\* The monitor takes a backend out of the store without its validation bucket,
\* unless a webhook made the bucket again or the provider restarted.
THEOREM BackendLeavesNoBucketCorrect == Spec => []BackendLeavesNoBucket
<1>1. Inv => BackendLeavesNoBucket
  BY DEF Inv, StrayInv
<1>2. QED
  BY <1>1, SpecInv, PTL

\* The monitor forgets no removal: whatever fails in a cleanup, and however edits
\* and restarts come between, a backend without a ProviderConfig that is still
\* in the store is being cleaned up or will be looked at again.
THEOREM RemovalUnderWayCorrect == Spec => []RemovalUnderWay
<1>1. Inv => RemovalUnderWay
  BY DEF Inv
<1>2. QED
  BY <1>1, SpecInv, PTL
=============================================================================
