---------------------------- MODULE MCTransactions ----------------------------
(* Model-checking instance of Transactions.                                *)
EXTENDS Transactions
=============================================================================
