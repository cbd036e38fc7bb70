-------------------------- MODULE MCBackendHealth --------------------------
(* BackendHealth on one backend, a few Bucket CRs and goroutines. *)
EXTENDS BackendHealth
=============================================================================
