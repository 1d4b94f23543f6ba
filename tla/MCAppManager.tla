----------------------------- MODULE MCAppManager -----------------------------
(* Model-checking instance of AppManager.                                  *)
EXTENDS AppManager
=============================================================================
