------------------------- MODULE MCValidationBucket -------------------------
EXTENDS ValidationBucket, TLC

CONSTANTS r1, r2

Asks(deleting, named, lifecycle) ==
  [deleting |-> deleting, named |-> named, lifecycle |-> lifecycle]

\* Beside a Bucket with a valid configuration comes one with a configuration
\* that S3 refuses; or one is being deleted, and the other has no configuration.
AboutLifecycles ==
  { (r1 :> Asks(FALSE, TRUE, "valid")) @@ (r2 :> Asks(FALSE, FALSE, "invalid")),
    (r1 :> Asks(FALSE, TRUE, "none")) @@ (r2 :> Asks(TRUE, TRUE, "invalid")) }

\* Two pages of objects, and two of versions.
TwoPages ==
  [v \in BOOLEAN |-> IF v THEN [key : {1}, n : {1, 2}, mark : {FALSE}]
                     ELSE [key : {1, 2}, n : {1}, mark : {FALSE}]]
=============================================================================
