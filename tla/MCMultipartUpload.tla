------------------------- MODULE MCMultipartUpload --------------------------
(***************************************************************************)
(* Instances of MultipartUpload for TLC.                                   *)
(***************************************************************************)
EXTENDS MultipartUpload, TLC

WorkerSymmetry == Permutations(Workers)
=============================================================================
