------------------------- MODULE MCFinancialIntent -------------------------
(* One intent, two principals and two concurrent processes. *)
EXTENDS FinancialIntent
=============================================================================
