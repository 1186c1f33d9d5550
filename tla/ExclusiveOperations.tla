------------------------ MODULE ExclusiveOperations -------------------------
(***************************************************************************)
(* What the dispatcher of guest actions promises: an operation works on    *)
(* its resource keys alone, announces itself at most once and while it is  *)
(* active, concludes at most once, and may be turned away instead.         *)
(***************************************************************************)
CONSTANTS Ops, Keys

VARIABLES
  stage,  \* "idle", "active" or "ended"
  uses,   \* the keys an active operation works on
  told    \* the last thing the service was told of the operation

vars == <<stage, uses, told>>

Init ==
  /\ stage = [o \in Ops |-> "idle"]
  /\ uses = [o \in Ops |-> {}]
  /\ told = [o \in Ops |-> "nothing"]

Begin(o) ==
  /\ stage[o] = "idle"
  /\ stage' = [stage EXCEPT ![o] = "active"]
  /\ \E K \in SUBSET Keys :
       /\ \A p \in Ops : uses[p] \cap K = {}
       /\ uses' = [uses EXCEPT ![o] = K]
  /\ UNCHANGED told

Announce(o) ==
  /\ stage[o] = "active"
  /\ told[o] = "nothing"
  /\ told' = [told EXCEPT ![o] = "running"]
  /\ UNCHANGED <<stage, uses>>

Conclude(o) ==
  /\ stage[o] = "active"
  /\ told[o] \in {"nothing", "running"}
  /\ \E verdict \in {"succeeded", "failed"} : told' = [told EXCEPT ![o] = verdict]
  /\ UNCHANGED <<stage, uses>>

End(o) ==
  /\ stage[o] = "active"
  /\ stage' = [stage EXCEPT ![o] = "ended"]
  /\ uses' = [uses EXCEPT ![o] = {}]
  /\ UNCHANGED told

\* The service may or may not learn that the operation was turned away.
TurnAway(o) ==
  /\ stage[o] = "idle"
  /\ stage' = [stage EXCEPT ![o] = "ended"]
  /\ told' \in {told, [told EXCEPT ![o] = "failed"]}
  /\ UNCHANGED uses

Next == \E o \in Ops : Begin(o) \/ Announce(o) \/ Conclude(o) \/ End(o) \/ TurnAway(o)

Spec == Init /\ [][Next]_vars
=============================================================================
