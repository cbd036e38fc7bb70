------------------------- MODULE MCBucketReconcile -------------------------
(* BucketReconcile on small sets of backends. *)
EXTENDS BucketReconcile, TLC

\* The safety runs treat all backends alike.
Symmetry == Permutations(Backends)
=============================================================================
