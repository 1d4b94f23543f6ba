------------------------------ MODULE MCBhQueue ------------------------------
(* Model-checking instance of BhQueue: two producers, and one for liveness. *)
EXTENDS BhQueue
=============================================================================
