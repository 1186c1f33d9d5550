----------------------- MODULE MCPunctualGuestActions -----------------------
(***************************************************************************)
(* Instances of PunctualGuestActions for TLC.                              *)
(***************************************************************************)
EXTENDS PunctualGuestActions, TLC

CONSTANTS k1, k2

Cmd(kind, key, timeout) == [kind |-> kind, key |-> key, timeout |-> timeout]

\* Requests of one command each, every one under a lock.
SingleCommandRequests ==
  { << Cmd("lro", k1, 2) >>, << Cmd("agent", k1, 1) >>, << Cmd("shell", k2, 0) >> }

OpSymmetry == Permutations(Ops)
=============================================================================
