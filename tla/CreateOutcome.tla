--------------------------- MODULE CreateOutcome ---------------------------
(***************************************************************************)
(* What Create promises to whoever reads the Bucket CR: buckets appear on  *)
(* backends, and at most once the operation settles, either on one backend *)
(* that has the bucket, or on failure, which it may declare only when no   *)
(* request reported success, its deadline has passed, or the Bucket CR     *)
(* could not be written or was paused or deleted meanwhile.                *)
(***************************************************************************)
CONSTANT Backends

VARIABLES made,     \* backends on which the bucket exists
          reported, \* some request has reported success
          excused,  \* the deadline has passed, or the Bucket CR has left or was not written
          outcome   \* "pending", "failed", or the backend recorded as ready

vars == <<made, reported, excused, outcome>>

Init == made = {} /\ reported = FALSE /\ excused = FALSE /\ outcome = "pending"

Make(b) ==
  /\ made' = made \cup {b} /\ reported' \in {reported, TRUE}
  /\ UNCHANGED <<excused, outcome>>

Expire == excused' = TRUE /\ UNCHANGED <<made, reported, outcome>>

Settle ==
  /\ outcome = "pending"
  /\ \/ reported /\ outcome' \in made /\ UNCHANGED excused
     \/ /\ excused' \in {excused, TRUE}
        /\ (excused' \/ ~reported) /\ outcome' = "failed"
  /\ UNCHANGED <<made, reported>>

Next == Expire \/ Settle \/ \E b \in Backends : Make(b)

Spec == Init /\ [][Next]_vars
=============================================================================
