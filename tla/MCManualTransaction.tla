------------------------- MODULE MCManualTransaction -------------------------
(* Constants for the model-checking run of ManualTransaction.              *)
EXTENDS ManualTransaction, TLC
=============================================================================
