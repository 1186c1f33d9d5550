--------------------------- MODULE MCGuestActions ---------------------------
(***************************************************************************)
(* Instances of GuestActions for TLC.                                      *)
(***************************************************************************)
EXTENDS GuestActions, TLC

CONSTANTS k1, k2

Cmd(kind, key, timeout) == [kind |-> kind, key |-> key, timeout |-> timeout]

\* One key twice with different timeouts, two keys, the default timeout, no key,
\* a command without a handler ahead of one that has one, and no command at all.
MixedRequests ==
  { << Cmd("agent", k1, 1), Cmd("lro", k1, 2) >>,
    << Cmd("shell", k1, 1), Cmd("agent", k2, 0) >>,
    << Cmd("unknown", k2, -1), Cmd("shell", NoKey, 1) >>,
    <<>> }

\* A few requests are enough for liveness.
FewRequests ==
  { << Cmd("lro", k1, 1) >>,
    << Cmd("shell", k1, 2), Cmd("agent", k2, 1) >> }

\* Requests of one command each, every one under a lock.
SingleCommandRequests ==
  { << Cmd("lro", k1, 3) >>, << Cmd("agent", k1, 2) >>, << Cmd("shell", k2, 0) >>,
    << Cmd("unknown", k2, 1) >> }

OpSymmetry == Permutations(Ops)
=============================================================================
