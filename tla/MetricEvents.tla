---------------------------- MODULE MetricEvents ----------------------------
(***************************************************************************)
(* sharedlibraries/metricevents: AddEvent and the log it writes after a    *)
(* delay.                                                                  *)
(*                                                                         *)
(* AddEvent and the callback of the timer each hold the mutex throughout   *)
(* and are one step.  The delay may have any length, so the callback of an *)
(* open group may run at any time.  Labels are Go maps and maps are        *)
(* references: events and groups hold maps that callers made, and a group  *)
(* writes into the map it holds.  Of a map the model keeps the set of the  *)
(* label values in it; the text that AddEvent puts together is split,      *)
(* sorted and freed of duplicates before it is logged, which is that set.  *)
(* Path + Identifier and Path + Value are taken to tell their parts apart. *)
(***************************************************************************)
EXTENDS Integers

CONSTANTS
  Paths, Identifiers, Values,
  Labels,    \* label values
  Given,     \* the sets of label values that a caller passes
  Maps,      \* the maps that callers make
  NilMap,    \* Parameters.Labels not given
  FreshMaps, \* whether callers make a map for each call
  None

ASSUME MetricEventsAssumption ==
  /\ NilMap \notin Maps
  /\ Given \subseteq SUBSET Labels
  /\ FreshMaps \in BOOLEAN
  /\ None \notin Values
  /\ \A ls \in SUBSET Labels : None # ls

Keys == Paths \X Identifiers
Groups == Paths \X Values

VARIABLES
  events,         \* events: value and labels of each key
  logDelayEvents, \* logDelayEvents: the open groups
  content,        \* what is in each map
  entry           \* the entry of the log that the last step wrote, if it wrote one

vars == <<events, logDelayEvents, content, entry>>

NoEvent == [value |-> None, map |-> NilMap]

Init ==
  /\ events = [k \in Keys |-> NoEvent]
  /\ logDelayEvents = [g \in Groups |-> NoEvent]
  /\ content = [m \in Maps \cup {NilMap} |-> {}]
  /\ entry = None

-----------------------------------------------------------------------------
(* AddEvent *)

\* Maps that something here still refers to.
Held == {events[k].map : k \in Keys} \cup {logDelayEvents[g].map : g \in Groups}

\* A map that the caller just made.  Which one it is makes no difference.
NewMap == CHOOSE m \in Maps : m \notin Held

\* The labels of a call: none, a map of its own, which may be empty, or, of a caller that
\* keeps its map, the map of an earlier call with what is in it by now.
Passed(k, m, ls) ==
  \/ m = NilMap /\ ls = {}
  \/ m = NewMap /\ m \in Maps \ Held
  \/ ~FreshMaps /\ m \in Maps /\ m = events[k].map /\ ls = content[m]

\* The content of a map that nothing refers to any more does not matter.
Collected(c) == [m \in Maps \cup {NilMap} |-> IF m \in Held' THEN c[m] ELSE {}]

Changes(k, v) == events[k].value \notin {None, v}

Open(g) == logDelayEvents[g] # NoEvent

\* Slip: a write to a nil map goes unnoticed.
NeverPanics(k, v) == FALSE

\* Writing to a nil map panics, before AddEvent changed anything.
Panics(k, v) ==
  LET g == <<k[1], v>> IN
  /\ Changes(k, v)
  /\ Open(g)
  /\ logDelayEvents[g].map = NilMap
  /\ content[events[k].map] # {}

\* Slip: the event is not updated when it joins or opens a group.
UpdateUnchanged(k, v, m) ==
  events' = IF Changes(k, v) THEN events ELSE [events EXCEPT ![k] = [value |-> v, map |-> m]]

Update(k, v, m) ==
  events' = [events EXCEPT ![k] = [value |-> v, map |-> m]]

\* The first change of a group leaves the event it replaces in logDelayEvents.
OpenGroup(k, g) ==
  IF Open(g) THEN logDelayEvents ELSE [logDelayEvents EXCEPT ![g] = events[k]]

\* Slip: a change that finds its group open leaves it at that.
LabelsOfFirst(k, g, c) == c

\* Later changes write the labels of the events they replace into the map of the group.
JoinGroup(k, g, c) ==
  IF Open(g)
    THEN [c EXCEPT ![logDelayEvents[g].map] = @ \cup c[events[k].map]]
    ELSE c

AddEvent(k, v, m, ls) ==
  LET g == <<k[1], v>>
      c == [content EXCEPT ![m] = ls]
  IN
  /\ Passed(k, m, ls)
  /\ ~Panics(k, v)
  /\ Update(k, v, m)
  /\ IF Changes(k, v)
       THEN logDelayEvents' = OpenGroup(k, g) /\ content' = Collected(JoinGroup(k, g, c))
       ELSE UNCHANGED logDelayEvents /\ content' = Collected(c)
  /\ entry' = None

\* The caller that panics may be restarted; the mutex is released, and nothing changed.
AddEventPanics(k, v) == Panics(k, v) /\ UNCHANGED vars

-----------------------------------------------------------------------------
(* The callback of the timer of a group *)

\* Slip: the group stays, and no timer will ever run for it again.
LogAndKeep(g) ==
  /\ Open(g)
  /\ entry' = [group |-> g, labels |-> content[logDelayEvents[g].map]]
  /\ UNCHANGED <<events, logDelayEvents, content>>

Log(g) ==
  /\ Open(g)
  /\ entry' = [group |-> g, labels |-> content[logDelayEvents[g].map]]
  /\ logDelayEvents' = [logDelayEvents EXCEPT ![g] = NoEvent]
  /\ UNCHANGED events
  /\ content' = Collected(content)

Next ==
  \/ \E k \in Keys, v \in Values, m \in Maps \cup {NilMap}, ls \in Given :
       AddEvent(k, v, m, ls)
  \/ \E k \in Keys, v \in Values : AddEventPanics(k, v)
  \/ \E g \in Groups : Log(g)

Spec == Init /\ [][Next]_vars

\* Timers run; nothing obliges anybody to add events.
FairSpec == Spec /\ \A g \in Groups : WF_vars(Log(g))

-----------------------------------------------------------------------------
(* Properties *)

TypeOK ==
  /\ events \in [Keys -> [value : Values \cup {None}, map : Maps \cup {NilMap}]]
  /\ logDelayEvents \in [Groups -> [value : Values \cup {None}, map : Maps \cup {NilMap}]]
  /\ content \in [Maps \cup {NilMap} -> SUBSET Labels]
  /\ entry \in [group : Groups, labels : SUBSET Labels] \cup {None}
  /\ content[NilMap] = {}

\* A group is the only holder of its map: what it writes there changes neither an event
\* nor another group.  This is what makes it safe to take the map of an earlier caller.
GroupsOwnTheirMaps ==
  FreshMaps =>
    \A g \in Groups : logDelayEvents[g].map # NilMap =>
      /\ \A k \in Keys : events[k].map # logDelayEvents[g].map
      /\ \A h \in Groups \ {g} : logDelayEvents[h].map # logDelayEvents[g].map

\* The promise of the package: every change is logged once, in the entry of its group,
\* with the labels of the events that changed.
Abstract == INSTANCE ChangeLog WITH
  value <- [k \in Keys |-> events[k].value],
  labels <- [k \in Keys |-> content[events[k].map]],
  pending <- [g \in Groups |->
                IF Open(g) THEN content[logDelayEvents[g].map] ELSE None]

ImplementsChangeLog == Abstract!Spec

\* No group stays open for ever, whatever other events come: a change that is waiting is
\* logged, and the next change to the same value opens a group of its own.
EveryChangeIsLogged == \A g \in Groups : Open(g) ~> ~Open(g)
=============================================================================
