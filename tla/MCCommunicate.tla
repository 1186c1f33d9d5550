--------------------------- MODULE MCCommunicate ----------------------------
(***************************************************************************)
(* Instances of Communicate for TLC.                                       *)
(***************************************************************************)
EXTENDS Communicate
=============================================================================
