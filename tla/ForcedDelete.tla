----------------------------- MODULE ForcedDelete -----------------------------
(***************************************************************************)
(* rgw.DeleteBucket with forceDelete (src/internal/rgw/bucket.go): after a *)
(* HEAD request, two goroutines empty the bucket page by page, one by the  *)
(* list of objects and one by the list of versions, each deleting a page   *)
(* concurrently; then the bucket is deleted.  Others write to the bucket   *)
(* meanwhile.                                                              *)
(*                                                                         *)
(* In a versioned bucket, S3 answers a delete without a version by adding  *)
(* a delete marker, whether or not the key is still there.                 *)
(***************************************************************************)
EXTENDS Naturals, FiniteSetsExt

CONSTANTS
  Keys,      \* keys of objects, numbered in the order of listings
  PageSize,  \* entries in a page of a listing
  Contents,  \* what the bucket may hold at first, if it has versions or not
  MaxPuts,   \* how often others put an object
  MaxFaults  \* how many S3 calls fail

Entries == [key : Keys, n : Nat, mark : BOOLEAN]

\* A bucket or a page of it: no two entries of a key have the same number.
IsListing(S) ==
  /\ S \subseteq Entries /\ IsFiniteSet(S)
  /\ \A e, f \in S : e.key = f.key /\ e.n = f.n => e = f

ASSUME DeleteAssumption ==
  /\ Keys \subseteq Nat \ {0} /\ PageSize \in Nat \ {0}
  /\ MaxPuts \in Nat /\ MaxFaults \in Nat
  /\ Contents \in [BOOLEAN -> SUBSET Entries] /\ \A v \in BOOLEAN : IsListing(Contents[v])
  /\ \A e \in Contents[FALSE] : e.n = 1 /\ ~e.mark \* one object to a key

VARIABLES
  exists,    \* the bucket exists
  versioned, \* it keeps versions
  entries,   \* what is in it: versions and delete markers, numbered by age
  pc,        \* step of DeleteBucket
  result,    \* what it returned
  at,        \* step of each deleter
  err,       \* first error of each deleter
  page,      \* what each has still to delete of its page
  more,      \* IsTruncated of its page
  marker,    \* NextKeyMarker and NextVersionIdMarker
  puts, faults,
  gone,      \* the bucket was absent at some time in the call
  calm       \* no call failed in it, and nobody else has changed the bucket

bucket == <<exists, versioned, entries>>
deleters == <<at, err, page, more, marker>>
deletion == <<bucket, pc, result, deleters, puts, faults, gone, calm>>

Deleters == {"objects", "versions"}
NoSuchErrors == {"nosuch", "error"}
Start == [key |-> 0, n |-> 0]

DeleteTypeOK ==
  /\ exists \in BOOLEAN /\ versioned \in BOOLEAN /\ IsListing(entries)
  /\ pc \in {"idle", "head", "empty", "delete"}
  /\ result \in {"none", "nil", "notempty", "error"}
  /\ at \in [Deleters -> {"list", "delete", "end"}]
  /\ err \in [Deleters -> NoSuchErrors \cup {"none"}]
  /\ DOMAIN page = Deleters /\ \A d \in Deleters : IsListing(page[d])
  /\ more \in [Deleters -> BOOLEAN] /\ marker \in [key : Keys \cup {0}, n : Nat]
  /\ puts \in 0..MaxPuts /\ faults \in 0..MaxFaults
  /\ gone \in BOOLEAN /\ calm \in BOOLEAN

DeleteInit ==
  /\ exists \in BOOLEAN /\ versioned \in BOOLEAN
  /\ entries = IF exists THEN Contents[versioned] ELSE {}
  /\ ~exists => ~versioned
  /\ pc = "idle" /\ result = "none" /\ gone = FALSE /\ calm = TRUE
  /\ at = [d \in Deleters |-> "end"] /\ err = [d \in Deleters |-> "none"]
  /\ page = [d \in Deleters |-> {}] /\ more = [d \in Deleters |-> FALSE]
  /\ marker = Start /\ puts = 0 /\ faults = 0

---------------------------------------------------------------------------
(* S3 *)

\* Listings are by key, and newer versions come first.
Before(e, f) == e.key < f.key \/ (e.key = f.key /\ e.n > f.n)
Newest(e) == \A f \in entries : f.key = e.key => f.n <= e.n

\* A version that is younger than all that were ever seen of its key.
Fresh(key) ==
  LET seen == entries \cup UNION {page[d] : d \in Deleters}
  IN 1 + Max({0, marker.n} \cup {e.n : e \in {f \in seen : f.key = key}})

\* The objects are the newest versions that are not delete markers.  DeleteBucket
\* hands ListObjectsV2 the token of its own last request, which is none, so that
\* it lists from the start every time.
Listing(d) ==
  IF d = "objects" THEN {e \in entries : Newest(e) /\ ~e.mark}
  ELSE {e \in entries : Before(marker, e)}

FirstPage(S) == {e \in S : Cardinality({f \in S : Before(f, e)}) < PageSize}
LastOf(S) == CHOOSE e \in S : \A f \in S : f = e \/ Before(f, e)

\* What a delete leaves, by versionId or by key.
Without(d, e) ==
  IF d = "versions" \/ ~versioned THEN entries \ {e}
  ELSE entries \cup {[key |-> e.key, n |-> Fresh(e.key), mark |-> TRUE]}

Faulty == faults < MaxFaults /\ faults' = faults + 1 /\ calm' = FALSE
Sound == UNCHANGED <<faults, calm>>

---------------------------------------------------------------------------
(* DeleteBucket *)

DeletersEnd ==
  /\ at' = [d \in Deleters |-> "end"] /\ err' = [d \in Deleters |-> "none"]
  /\ page' = [d \in Deleters |-> {}] /\ more' = [d \in Deleters |-> FALSE]
  /\ marker' = Start

\* The caller has done with what was returned.
Forget == result' = "none" /\ gone' = FALSE /\ calm' = TRUE

Begin ==
  /\ pc = "idle" /\ pc' = "head" /\ result' = "none" /\ gone' = ~exists /\ calm' = TRUE
  /\ UNCHANGED <<bucket, deleters, puts, faults>>

Return(r) == pc' = "idle" /\ result' = r

\* BucketExists
Head ==
  /\ pc = "head"
  /\ \/ ~exists /\ Return("nil") /\ Sound /\ UNCHANGED deleters
     \/ Return("error") /\ Faulty /\ UNCHANGED deleters
     \/ /\ exists /\ pc' = "empty" /\ UNCHANGED result /\ Sound
        /\ at' = [d \in Deleters |-> "list"] /\ err' = [d \in Deleters |-> "none"]
        /\ marker' = Start /\ UNCHANGED <<page, more>>
  /\ UNCHANGED <<bucket, puts, gone>>

\* A call fails, or is refused because the bucket is not there, with an error of
\* the type that NoSuchBucket knows or with a general one.
CallFails(d) ==
  \/ Faulty /\ err' = [err EXCEPT ![d] = IF @ = "none" THEN "error" ELSE @]
  \/ /\ ~exists /\ Sound
     /\ \E e \in NoSuchErrors : err' = [err EXCEPT ![d] = IF @ = "none" THEN e ELSE @]

\* Mutant: only the first page is deleted.
GoesOnMutant(d) ==
  at' = [at EXCEPT ![d] = IF page'[d] # {} THEN "delete" ELSE "end"]

\* A deleter waits for the goroutines of its page, and lists the next page unless
\* one has failed or there is none.
GoesOn(d) ==
  at' = [at EXCEPT ![d] = IF page'[d] # {} THEN "delete"
                          ELSE IF err'[d] = "none" /\ more'[d] THEN "list" ELSE "end"]

\* Mutant: the listing of versions leaves out delete markers.
ListMutant(d) ==
  /\ pc = "empty" /\ at[d] = "list"
  /\ \/ CallFails(d) /\ UNCHANGED <<page, more, marker>>
     \/ LET rest == {e \in Listing(d) : ~e.mark} IN
        /\ exists /\ page' = [page EXCEPT ![d] = FirstPage(rest)]
        /\ more' = [more EXCEPT ![d] = rest # FirstPage(rest)]
        /\ marker' = IF d = "objects" \/ rest = {} THEN marker
                     ELSE [key |-> LastOf(page'[d]).key, n |-> LastOf(page'[d]).n]
        /\ Sound /\ UNCHANGED err
  /\ GoesOn(d) /\ UNCHANGED <<bucket, pc, result, puts, gone>>

\* ListObjectsV2 and ListObjectVersions
List(d) ==
  /\ pc = "empty" /\ at[d] = "list"
  /\ \/ CallFails(d) /\ UNCHANGED <<page, more, marker>>
     \/ LET next == FirstPage(Listing(d)) IN
        /\ exists /\ page' = [page EXCEPT ![d] = next]
        /\ more' = [more EXCEPT ![d] = Listing(d) # next]
        /\ marker' = IF d = "objects" \/ next = {} THEN marker
                     ELSE [key |-> LastOf(next).key, n |-> LastOf(next).n]
        /\ Sound /\ UNCHANGED err
  /\ GoesOn(d) /\ UNCHANGED <<bucket, pc, result, puts, gone>>

\* One of the goroutines of a page.  The others go on when one fails.
DeleteObject(d, e) ==
  /\ pc = "empty" /\ at[d] = "delete" /\ e \in page[d]
  /\ page' = [page EXCEPT ![d] = @ \ {e}]
  /\ \/ CallFails(d) /\ UNCHANGED entries
     \/ exists /\ entries' = Without(d, e) /\ Sound /\ UNCHANGED err
  /\ UNCHANGED <<more, marker>> /\ GoesOn(d)
  /\ UNCHANGED <<exists, versioned, pc, result, puts, gone>>

\* Mutant: the error of a bucket that is gone is returned.
WaitReturnsMutant ==
  /\ pc = "empty" /\ \A d \in Deleters : at[d] = "end"
  /\ \/ (\A d \in Deleters : err[d] = "none") /\ pc' = "delete" /\ UNCHANGED result
     \/ \E d \in Deleters : err[d] # "none" /\ Return(err[d])
  /\ DeletersEnd /\ UNCHANGED <<bucket, puts, faults, gone, calm>>

\* Mutant: any error of a deleter is taken for a bucket that is gone.
WaitMutant ==
  /\ pc = "empty" /\ \A d \in Deleters : at[d] = "end"
  /\ \/ (\A d \in Deleters : err[d] = "none") /\ pc' = "delete" /\ UNCHANGED result
     \/ (\E d \in Deleters : err[d] # "none") /\ Return("nil")
  /\ DeletersEnd /\ UNCHANGED <<bucket, puts, faults, gone, calm>>

\* g.Wait(): of two errors either may have come first.
Wait ==
  /\ pc = "empty" /\ \A d \in Deleters : at[d] = "end"
  /\ \/ (\A d \in Deleters : err[d] = "none") /\ pc' = "delete" /\ UNCHANGED result
     \/ (\E d \in Deleters : err[d] = "nosuch") /\ Return("nil")
     \/ (\E d \in Deleters : err[d] = "error") /\ Return("error")
  /\ DeletersEnd /\ UNCHANGED <<bucket, puts, faults, gone, calm>>

\* The last call, which may also take effect and fail.
DeleteBucket ==
  /\ pc = "delete"
  /\ \/ exists /\ entries = {} /\ exists' = FALSE /\ gone' = TRUE /\ Return("nil") /\ Sound
     \/ exists /\ entries # {} /\ Return("notempty") /\ Sound /\ UNCHANGED <<exists, gone>>
     \/ ~exists /\ (Return("nil") \/ Return("error")) /\ Sound /\ UNCHANGED <<exists, gone>>
     \/ Return("error") /\ Faulty /\ UNCHANGED <<exists, gone>>
     \/ entries = {} /\ Return("error") /\ Faulty /\ exists' = FALSE /\ gone' = TRUE
  /\ versioned' = (versioned /\ exists') /\ UNCHANGED <<entries, deleters, puts>>

Step ==
  \/ Head \/ Wait \/ DeleteBucket
  \/ \E d \in Deleters : List(d) \/ \E e \in page[d] : DeleteObject(d, e)

---------------------------------------------------------------------------
(* Others *)

\* Without versions, an object takes the place of the one that is there.
Put(k) ==
  /\ exists /\ puts < MaxPuts /\ puts' = puts + 1 /\ calm' = (calm /\ pc = "idle")
  /\ entries' = entries \cup {[key |-> k, n |-> IF versioned THEN Fresh(k) ELSE 1, mark |-> FALSE]}
  /\ UNCHANGED <<exists, versioned, pc, result, deleters, faults, gone>>

RemoveBucket ==
  /\ exists /\ entries = {} /\ exists' = FALSE /\ versioned' = FALSE
  /\ gone' = (gone \/ pc # "idle") /\ calm' = (calm /\ pc = "idle")
  /\ UNCHANGED <<entries, pc, result, deleters, puts, faults>>

---------------------------------------------------------------------------
(* Properties *)

\* DeleteBucket says that the bucket is deleted only if, at some time in the
\* call, it was not there: no error of a goroutine, and no object that the
\* deleters have missed, is lost on the way.
NilMeansGone == result = "nil" => gone

\* A forced delete of a bucket without versions that nothing disturbs succeeds,
\* however many pages it has: the two deleters do not get in each other's way.
CalmDeleteSucceeds == calm /\ ~versioned => result \notin {"notempty", "error"}
=============================================================================
