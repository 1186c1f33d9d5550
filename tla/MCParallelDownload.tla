------------------------- MODULE MCParallelDownload -------------------------
(***************************************************************************)
(* Instances of ParallelDownload for TLC.                                  *)
(***************************************************************************)
EXTENDS ParallelDownload
=============================================================================
