--------------------------- MODULE MCRetryBudget ----------------------------
(***************************************************************************)
(* Instances of RetryBudget for TLC.                                       *)
(***************************************************************************)
EXTENDS RetryBudget

AllTransfers == {"upload", "download", "parallel"}
=============================================================================
