----------------------------- MODULE ChangeLog ------------------------------
(***************************************************************************)
(* What metricevents promises: every change of the value of an event is    *)
(* written to the log once, together with the other changes of the same    *)
(* path to the same value that happened since the last such entry.         *)
(***************************************************************************)
CONSTANTS
  Paths, Identifiers, Values,
  Labels,    \* label values; an event has a set of them
  None

Keys == Paths \X Identifiers
Groups == Paths \X Values

VARIABLES
  value,   \* the value of each event, None before the first
  labels,  \* the labels each event came with
  pending, \* the labels of the changes that are not logged yet, None without one
  entry    \* the entry of the log that the last step wrote, if it wrote one

vars == <<value, labels, pending, entry>>

Init ==
  /\ value = [k \in Keys |-> None]
  /\ labels = [k \in Keys |-> {}]
  /\ pending = [g \in Groups |-> None]
  /\ entry = None

\* An event with a new value adds the labels that it had so far to its group.
AddEvent(k, v, ls) ==
  LET g == <<k[1], v>> IN
  /\ value' = [value EXCEPT ![k] = v]
  /\ labels' = [labels EXCEPT ![k] = ls]
  /\ pending' = IF value[k] \in {None, v} THEN pending
                ELSE [pending EXCEPT ![g] = labels[k] \cup (IF @ = None THEN {} ELSE @)]
  /\ entry' = None

Log(g) ==
  /\ pending[g] # None
  /\ entry' = [group |-> g, labels |-> pending[g]]
  /\ pending' = [pending EXCEPT ![g] = None]
  /\ UNCHANGED <<value, labels>>

Next ==
  \/ \E k \in Keys, v \in Values, ls \in SUBSET Labels : AddEvent(k, v, ls)
  \/ \E g \in Groups : Log(g)

Spec == Init /\ [][Next]_vars
=============================================================================
