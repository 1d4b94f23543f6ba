---------------------------- MODULE MCRuntimeTimer ----------------------------
(* Model-checking instance of RuntimeTimer.                                *)
EXTENDS RuntimeTimer
=============================================================================
