---------------------------- MODULE AtomicUpload ----------------------------
(***************************************************************************)
(* What Upload promises: the object appears whole or not at all, Upload    *)
(* reports success only when it is there, and what it reported stays true. *)
(* An error says nothing: the object may be there or not.                  *)
(***************************************************************************)
VARIABLES
  object,  \* "none" or "whole"
  result   \* "none", then "ok" or "error"

Init == object = "none" /\ result = "none"

Store ==
  /\ result = "none"
  /\ object = "none"
  /\ object' = "whole"
  /\ result' \in {"none", "error"}

Succeed ==
  /\ result = "none"
  /\ object = "whole"
  /\ result' = "ok"
  /\ UNCHANGED object

Fail ==
  /\ result = "none"
  /\ result' = "error"
  /\ UNCHANGED object

Next == Store \/ Succeed \/ Fail

Spec == Init /\ [][Next]_<<object, result>>
=============================================================================
