------------------------- MODULE MetricEventsProofs -------------------------
(***************************************************************************)
(* Theorems about MetricEvents: for any events, labels and supply of maps. *)
(* What is promised about labels needs callers that make a map for each    *)
(* call (FreshMaps).                                                       *)
(***************************************************************************)
EXTENDS MetricEvents, TLAPS

AllMaps == Maps \cup {NilMap}
Event == [value : Values \cup {None}, map : AllMaps]

\* An open group holds an event, which has a value.
GroupsHoldEvents == \A g \in Groups : Open(g) => logDelayEvents[g].value # None

\* No two events hold the same map.
EventsOwnTheirMaps ==
  FreshMaps =>
    \A k \in Keys : events[k].map # NilMap =>
      \A j \in Keys \ {k} : events[j].map # events[k].map

Inv == TypeOK /\ GroupsHoldEvents /\ EventsOwnTheirMaps /\ GroupsOwnTheirMaps

LEMMA NoEventType == NoEvent \in Event /\ NoEvent.value = None /\ NoEvent.map = NilMap
BY DEF NoEvent, Event, AllMaps

LEMMA InvInit == Init => Inv
<1> SUFFICES ASSUME Init PROVE Inv
  OBVIOUS
<1>1. /\ \A k \in Keys : events[k] = NoEvent
      /\ \A g \in Groups : logDelayEvents[g] = NoEvent
  BY DEF Init
<1>2. TypeOK
  BY NoEventType DEF Init, TypeOK, Event, AllMaps
<1> QED BY <1>1, <1>2, NoEventType
       DEF Inv, GroupsHoldEvents, Open, EventsOwnTheirMaps, GroupsOwnTheirMaps

-----------------------------------------------------------------------------
(* AddEvent *)

\* The map of a call is new, or nil.
LEMMA PassedMap ==
  ASSUME Inv, NEW k \in Keys, NEW m, NEW ls \in Given, Passed(k, m, ls)
  PROVE  /\ m \in AllMaps
         /\ m = NilMap => ls = {}
         /\ FreshMaps /\ m # NilMap =>
              /\ \A j \in Keys : events[j].map # m
              /\ \A g \in Groups : logDelayEvents[g].map # m
BY MetricEventsAssumption DEF MetricEventsAssumption, Passed, Held, AllMaps

\* The groups after AddEvent: the only one that can differ is that of the new value.
LEMMA GroupsAfter ==
  ASSUME Inv, NEW k \in Keys, NEW v \in Values, NEW m, NEW ls \in Given,
         AddEvent(k, v, m, ls)
  PROVE  LET g == <<k[1], v>> IN
         /\ g \in Groups
         /\ logDelayEvents' =
              IF Changes(k, v) /\ ~Open(g) THEN [logDelayEvents EXCEPT ![g] = events[k]]
                                           ELSE logDelayEvents
         /\ Changes(k, v) => events[k].value # None
<1>1. <<k[1], v>> \in Groups
  BY DEF Keys, Groups
<1>2. CASE Changes(k, v)
  BY <1>1, <1>2 DEF AddEvent, OpenGroup, Changes
<1>3. CASE ~Changes(k, v)
  BY <1>1, <1>3 DEF AddEvent
<1> QED BY <1>2, <1>3

\* The content of the maps after AddEvent.
LEMMA ContentAfter ==
  ASSUME Inv, NEW k \in Keys, NEW v \in Values, NEW m, NEW ls \in Given,
         AddEvent(k, v, m, ls)
  PROVE  LET g == <<k[1], v>>
             gm == logDelayEvents[g].map
             c == [content EXCEPT ![m] = ls]
         IN content' = [x \in AllMaps |->
              IF x \notin Held' THEN {}
              ELSE IF Changes(k, v) /\ Open(g) /\ x = gm THEN c[x] \cup c[events[k].map]
              ELSE c[x]]
<1> DEFINE g == <<k[1], v>>
           c == [content EXCEPT ![m] = ls]
<1>1. g \in Groups /\ m \in AllMaps
  BY GroupsAfter, PassedMap DEF AddEvent
<1>2. content \in [AllMaps -> SUBSET Labels] /\ logDelayEvents[g].map \in AllMaps
  BY <1>1 DEF Inv, TypeOK, AllMaps
<1>3. CASE Changes(k, v) /\ Open(g)
  <2>1. content' = Collected(JoinGroup(k, g, c))
    BY <1>3 DEF AddEvent
  <2>2. JoinGroup(k, g, c) = [c EXCEPT ![logDelayEvents[g].map] = @ \cup c[events[k].map]]
    BY <1>3 DEF JoinGroup
  <2> QED BY <1>2, <1>3, <2>1, <2>2 DEF Collected, AllMaps
<1>4. CASE ~(Changes(k, v) /\ Open(g))
  <2>1. content' = Collected(c)
    BY <1>4 DEF AddEvent, JoinGroup
  <2> QED BY <1>4, <2>1 DEF Collected, AllMaps
<1> QED BY <1>3, <1>4

LEMMA AddEventStep ==
  ASSUME Inv, NEW k \in Keys, NEW v \in Values, NEW m, NEW ls \in Given,
         AddEvent(k, v, m, ls)
  PROVE  Inv'
<1> DEFINE g == <<k[1], v>>
           e == [value |-> v, map |-> m]
<1>1. m \in AllMaps /\ (m = NilMap => ls = {}) /\ ls \in SUBSET Labels /\ e \in Event
  BY PassedMap, MetricEventsAssumption DEF AddEvent, MetricEventsAssumption, Event
<1>2. events \in [Keys -> Event] /\ logDelayEvents \in [Groups -> Event]
      /\ content \in [AllMaps -> SUBSET Labels] /\ content[NilMap] = {}
  BY DEF Inv, TypeOK, Event, AllMaps
<1>3. events' = [events EXCEPT ![k] = e]
  BY DEF AddEvent, Update
<1>4. /\ g \in Groups
      /\ logDelayEvents' = IF Changes(k, v) /\ ~Open(g)
                             THEN [logDelayEvents EXCEPT ![g] = events[k]] ELSE logDelayEvents
      /\ Changes(k, v) => events[k].value # None
  BY GroupsAfter
<1>5. events' \in [Keys -> Event] /\ logDelayEvents' \in [Groups -> Event]
  BY <1>1, <1>2, <1>3, <1>4
<1>6. TypeOK'
  <2> DEFINE c == [content EXCEPT ![m] = ls]
  <2>1. content' = [x \in AllMaps |->
          IF x \notin Held' THEN {}
          ELSE IF Changes(k, v) /\ Open(g) /\ x = logDelayEvents[g].map
                 THEN c[x] \cup c[events[k].map]
          ELSE c[x]]
    BY ContentAfter
  <2>2. c \in [AllMaps -> SUBSET Labels] /\ c[NilMap] = {}
    BY <1>1, <1>2 DEF AllMaps
  <2>3. events[k].map \in AllMaps
    BY <1>2 DEF Event
  <2>4. content' \in [AllMaps -> SUBSET Labels]
    BY <2>1, <2>2, <2>3
  <2>5. Changes(k, v) /\ Open(g) /\ logDelayEvents[g].map = NilMap => c[events[k].map] = {}
    <3>1. Changes(k, v) /\ Open(g) /\ logDelayEvents[g].map = NilMap => content[events[k].map] = {}
      BY DEF AddEvent, Panics
    <3>2. CASE m # events[k].map
      BY <1>2, <2>3, <3>1, <3>2
    <3>3. CASE m = events[k].map /\ m = NilMap
      BY <2>2, <3>3
    <3>4. CASE m = events[k].map /\ m # NilMap
      <4>1. m \in Held
        BY <3>4 DEF Held
      <4>2. ls = content[m]
        BY <3>4, <4>1 DEF AddEvent, Passed
      <4> QED BY <1>2, <2>3, <3>1, <3>4, <4>2
    <3> QED BY <3>2, <3>3, <3>4
  <2>6. content'[NilMap] = {}
    BY <2>1, <2>2, <2>5 DEF AllMaps
  <2>7. entry' = None
    BY DEF AddEvent
  <2> QED BY <1>5, <2>4, <2>6, <2>7 DEF TypeOK, Event, AllMaps
<1>7. GroupsHoldEvents'
  BY <1>2, <1>4 DEF Inv, GroupsHoldEvents, Open
<1>8. EventsOwnTheirMaps' /\ GroupsOwnTheirMaps'
  <2> SUFFICES ASSUME FreshMaps PROVE EventsOwnTheirMaps' /\ GroupsOwnTheirMaps'
    BY DEF EventsOwnTheirMaps, GroupsOwnTheirMaps
  <2>1. m # NilMap => /\ \A j \in Keys : events[j].map # m
                      /\ \A h \in Groups : logDelayEvents[h].map # m
    BY PassedMap DEF AddEvent
  <2>2. /\ events'[k].map = m
        /\ \A j \in Keys \ {k} : events'[j].map = events[j].map
    BY <1>2, <1>3
  <2>3. EventsOwnTheirMaps'
    BY <2>1, <2>2 DEF Inv, EventsOwnTheirMaps
  <2>4. \A h \in Groups \ {g} : logDelayEvents'[h].map = logDelayEvents[h].map
    BY <1>2, <1>4
  <2>5. logDelayEvents'[g].map = logDelayEvents[g].map \/ logDelayEvents'[g].map = events[k].map
    BY <1>2, <1>4
  <2>6. GroupsOwnTheirMaps'
    BY <1>4, <2>1, <2>2, <2>4, <2>5 DEF Inv, EventsOwnTheirMaps, GroupsOwnTheirMaps
  <2> QED BY <2>3, <2>6
<1> QED BY <1>6, <1>7, <1>8 DEF Inv

-----------------------------------------------------------------------------
(* Log *)

LEMMA LogContent ==
  ASSUME Inv, NEW g \in Groups, Log(g)
  PROVE  /\ content' = [x \in AllMaps |-> IF x \in Held' THEN content[x] ELSE {}]
         /\ logDelayEvents' = [logDelayEvents EXCEPT ![g] = NoEvent]
         /\ UNCHANGED events
BY DEF Log, Collected, AllMaps

LEMMA LogStep == ASSUME Inv, NEW g \in Groups, Log(g) PROVE Inv'
<1>1. events \in [Keys -> Event] /\ logDelayEvents \in [Groups -> Event]
      /\ content \in [AllMaps -> SUBSET Labels] /\ content[NilMap] = {}
  BY DEF Inv, TypeOK, Event, AllMaps
<1>2. logDelayEvents' \in [Groups -> Event]
  BY <1>1, LogContent, NoEventType
<1>3. content' \in [AllMaps -> SUBSET Labels] /\ content'[NilMap] = {}
  BY <1>1, LogContent DEF AllMaps
<1>4. entry' \in [group : Groups, labels : SUBSET Labels]
  BY <1>1 DEF Log, Event
<1>5. TypeOK'
  BY <1>1, <1>2, <1>3, <1>4, LogContent DEF TypeOK, Event, AllMaps
<1>6. \A h \in Groups : logDelayEvents'[h] = logDelayEvents[h] \/ logDelayEvents'[h] = NoEvent
  BY <1>1, LogContent
<1>7. GroupsHoldEvents'
  BY <1>6 DEF Inv, GroupsHoldEvents, Open
<1>8. EventsOwnTheirMaps'
  BY LogContent DEF Inv, EventsOwnTheirMaps
<1>9. GroupsOwnTheirMaps'
  BY <1>6, NoEventType, LogContent DEF Inv, GroupsOwnTheirMaps
<1> QED BY <1>5, <1>7, <1>8, <1>9 DEF Inv

LEMMA InvStep == ASSUME Inv, [Next]_vars PROVE Inv'
<1>1. ASSUME NEW k \in Keys, NEW v \in Values, NEW m \in Maps \cup {NilMap}, NEW ls \in Given,
             AddEvent(k, v, m, ls)
      PROVE  Inv'
  BY <1>1, AddEventStep
<1>2. ASSUME NEW g \in Groups, Log(g) PROVE Inv'
  BY <1>2, LogStep
<1>3. CASE UNCHANGED vars
  BY <1>3 DEF vars, Inv, TypeOK, GroupsHoldEvents, Open, EventsOwnTheirMaps, GroupsOwnTheirMaps
<1>4. ASSUME NEW k \in Keys, NEW v \in Values, AddEventPanics(k, v) PROVE Inv'
  BY <1>3, <1>4 DEF AddEventPanics
<1> QED BY <1>1, <1>2, <1>3, <1>4 DEF Next

LEMMA Invariance == Spec => []Inv
BY InvInit, InvStep, PTL DEF Spec

\* The types, of any number of events and whatever maps callers pass: in particular a nil
\* map stays empty.
THEOREM TypeCorrect == Spec => []TypeOK
<1>1. Inv => TypeOK
  BY DEF Inv
<1> QED BY <1>1, Invariance, PTL

\* A group holds its map alone if callers make a map for each call.
THEOREM GroupsAreOwners == Spec => []GroupsOwnTheirMaps
<1>1. Inv => GroupsOwnTheirMaps
  BY DEF Inv
<1> QED BY <1>1, Invariance, PTL

-----------------------------------------------------------------------------
(* MetricEvents implements ChangeLog *)

\* The refinement mapping, named.
AbsValue == [k \in Keys |-> events[k].value]
AbsLabels == [k \in Keys |-> content[events[k].map]]
AbsPending == [g \in Groups |-> IF Open(g) THEN content[logDelayEvents[g].map] ELSE None]

LEMMA AbsInit == Init => Abstract!Init
<1> SUFFICES ASSUME Init PROVE Abstract!Init
  OBVIOUS
<1>1. /\ \A k \in Keys : events[k].value = None /\ events[k].map = NilMap
      /\ \A g \in Groups : ~Open(g)
      /\ content[NilMap] = {}
  BY NoEventType DEF Init, Open
<1> QED BY <1>1 DEF Init, Abstract!Init, Abstract!Keys, Abstract!Groups, Keys, Groups

\* A map that is held keeps its content unless it is the map of the call or of the group.
LEMMA AbsAddEvent ==
  ASSUME Inv, FreshMaps, NEW k \in Keys, NEW v \in Values, NEW m, NEW ls \in Given,
         AddEvent(k, v, m, ls)
  PROVE  Abstract!AddEvent(k, v, ls)
<1> DEFINE g == <<k[1], v>>
           gm == logDelayEvents[g].map
           e == [value |-> v, map |-> m]
           c == [content EXCEPT ![m] = ls]
           joins == Changes(k, v) /\ Open(g)
<1>1. /\ m \in AllMaps
      /\ m = NilMap => ls = {}
      /\ m # NilMap => /\ \A j \in Keys : events[j].map # m
                       /\ \A h \in Groups : logDelayEvents[h].map # m
  BY PassedMap DEF AddEvent
<1>2. events \in [Keys -> Event] /\ logDelayEvents \in [Groups -> Event]
      /\ content \in [AllMaps -> SUBSET Labels] /\ content[NilMap] = {}
  BY DEF Inv, TypeOK, Event, AllMaps
<1>3. /\ \A j \in Keys : events[j].map \in AllMaps
      /\ \A h \in Groups : logDelayEvents[h].map \in AllMaps
  BY <1>2 DEF Event
<1>4. events' = [events EXCEPT ![k] = e]
  BY DEF AddEvent, Update
<1>5. /\ g \in Groups
      /\ logDelayEvents' = IF Changes(k, v) /\ ~Open(g)
                             THEN [logDelayEvents EXCEPT ![g] = events[k]] ELSE logDelayEvents
      /\ Changes(k, v) => events[k].value # None
  BY GroupsAfter
<1>6. \A x \in AllMaps : x \in Held' =>
        content'[x] = IF joins /\ x = gm THEN c[x] \cup c[events[k].map] ELSE c[x]
  BY ContentAfter
<1>7. \A x \in AllMaps : (\E j \in Keys : x = events[j].map) \/ (\E h \in Groups : x = logDelayEvents[h].map)
        => c[x] = content[x]
  <2>1. ASSUME NEW x \in AllMaps, x # m PROVE c[x] = content[x]
    BY <1>1, <1>2, <2>1
  <2>2. c[NilMap] = content[NilMap]
    BY <1>1, <1>2 DEF AllMaps
  <2> QED BY <1>1, <2>1, <2>2
<1>8. c[m] = ls
  BY <1>1, <1>2
<1>9. joins /\ gm = NilMap => content[events[k].map] = {}
  BY DEF AddEvent, Panics
<1>10. /\ \A j \in Keys : events'[j].map \in Held'
       /\ \A h \in Groups : logDelayEvents'[h].map \in Held'
  BY DEF Held
<1>11. AbsValue' = [AbsValue EXCEPT ![k] = v]
  BY <1>2, <1>4 DEF AbsValue
<1>12. ASSUME NEW j \in Keys
       PROVE  content'[events'[j].map] = IF j = k THEN ls ELSE content[events[j].map]
  <2>1. CASE j = k
    <3>1. events'[j].map = m
      BY <1>2, <1>4, <2>1
    <3>2. joins /\ m = gm => c[events[k].map] = {}
      BY <1>1, <1>3, <1>5, <1>7, <1>9
    <3> QED BY <1>1, <1>6, <1>8, <1>10, <2>1, <3>1, <3>2
  <2>2. CASE j # k
    <3>1. events'[j].map = events[j].map
      BY <1>2, <1>4, <2>2
    <3>2. joins /\ events[j].map = gm => c[events[k].map] = {}
      <4>1. events[j].map = gm => gm = NilMap
        BY <1>5 DEF Inv, GroupsOwnTheirMaps
      <4> QED BY <1>3, <1>7, <1>9, <4>1
    <3>3. c[events[j].map] = content[events[j].map]
      BY <1>3, <1>7
    <3> QED BY <1>3, <1>6, <1>10, <2>2, <3>1, <3>2, <3>3
  <2> QED BY <2>1, <2>2
<1>13. AbsLabels' = [AbsLabels EXCEPT ![k] = ls]
  BY <1>12 DEF AbsLabels
<1>14. ASSUME NEW h \in Groups, h # g
       PROVE  AbsPending'[h] = AbsPending[h]
  <2>1. logDelayEvents'[h] = logDelayEvents[h]
    BY <1>2, <1>5, <1>14
  <2>2. joins /\ logDelayEvents[h].map = gm => c[events[k].map] = {}
    <3>1. logDelayEvents[h].map = gm => gm = NilMap
      BY <1>5, <1>14 DEF Inv, GroupsOwnTheirMaps
    <3> QED BY <1>3, <1>7, <1>9, <3>1
  <2>3. content'[logDelayEvents[h].map] = content[logDelayEvents[h].map]
    BY <1>3, <1>6, <1>7, <1>10, <2>1, <2>2
  <2> QED BY <2>1, <2>3 DEF AbsPending, Open
<1>15. AbsPending'[g] =
         IF events[k].value \in {None, v} THEN AbsPending[g]
         ELSE content[events[k].map] \cup (IF AbsPending[g] = None THEN {} ELSE AbsPending[g])
  <2>1. Changes(k, v) <=> events[k].value \notin {None, v}
    BY DEF Changes
  <2>2. content[gm] \in SUBSET Labels /\ content[events[k].map] \in SUBSET Labels
    BY <1>2, <1>3, <1>5
  <2>3. Open(g) <=> AbsPending[g] # None
    BY <1>5, <2>2, MetricEventsAssumption DEF AbsPending, MetricEventsAssumption
  <2>4. CASE ~Changes(k, v)
    <3>1. logDelayEvents'[g] = logDelayEvents[g] /\ content'[gm] = content[gm]
      BY <1>3, <1>5, <1>6, <1>7, <1>10, <2>4
    <3> QED BY <1>5, <2>1, <2>4, <3>1 DEF AbsPending, Open
  <2>5. CASE Changes(k, v) /\ ~Open(g)
    <3>1. logDelayEvents'[g] = events[k]
      BY <1>2, <1>5, <2>5
    <3>2. events[k] # NoEvent
      BY <1>5, <2>5, NoEventType
    <3>3. content'[events[k].map] = content[events[k].map]
      BY <1>3, <1>6, <1>7, <1>10, <1>5, <2>5, <3>1
    <3> QED BY <1>5, <2>1, <2>3, <2>5, <3>1, <3>2, <3>3 DEF AbsPending, Open
  <2>6. CASE joins
    <3>1. logDelayEvents'[g] = logDelayEvents[g]
      BY <1>5, <2>6
    <3>2. content'[gm] = content[gm] \cup content[events[k].map]
      BY <1>3, <1>5, <1>6, <1>7, <1>10, <2>6, <3>1
    <3>3. AbsPending[g] = content[gm]
      BY <1>5, <2>6 DEF AbsPending
    <3>4. AbsPending'[g] = content'[gm]
      BY <1>5, <2>6, <3>1 DEF AbsPending, Open
    <3> QED BY <2>1, <2>3, <2>6, <3>2, <3>3, <3>4
  <2> QED BY <2>4, <2>5, <2>6
<1>16. AbsPending' = IF events[k].value \in {None, v} THEN AbsPending
                     ELSE [AbsPending EXCEPT ![g] =
                             content[events[k].map] \cup (IF @ = None THEN {} ELSE @)]
  BY <1>5, <1>14, <1>15 DEF AbsPending
<1>17. AbsValue[k] = events[k].value /\ AbsLabels[k] = content[events[k].map]
  BY DEF AbsValue, AbsLabels
<1>18. entry' = None
  BY DEF AddEvent
<1> QED BY <1>11, <1>13, <1>16, <1>17, <1>18
       DEF Abstract!AddEvent, AbsValue, AbsLabels, AbsPending

LEMMA AbsLog == ASSUME Inv, FreshMaps, NEW g \in Groups, Log(g) PROVE Abstract!Log(g)
<1> DEFINE gm == logDelayEvents[g].map
<1>1. events \in [Keys -> Event] /\ logDelayEvents \in [Groups -> Event]
      /\ content \in [AllMaps -> SUBSET Labels]
  BY DEF Inv, TypeOK, Event, AllMaps
<1>2. /\ \A j \in Keys : events[j].map \in AllMaps
      /\ \A h \in Groups : logDelayEvents[h].map \in AllMaps
  BY <1>1 DEF Event
<1>3. /\ \A j \in Keys : events[j].map \in Held'
      /\ \A h \in Groups : logDelayEvents'[h].map \in Held'
  BY LogContent DEF Held
<1>4. \A x \in AllMaps : x \in Held' => content'[x] = content[x]
  BY LogContent
<1>5. AbsValue' = AbsValue /\ AbsLabels' = AbsLabels
  BY <1>2, <1>3, <1>4, LogContent DEF AbsValue, AbsLabels
<1>6. ASSUME NEW h \in Groups, h # g PROVE AbsPending'[h] = AbsPending[h]
  <2>1. logDelayEvents'[h] = logDelayEvents[h]
    BY <1>1, <1>6, LogContent
  <2>2. content'[logDelayEvents[h].map] = content[logDelayEvents[h].map]
    BY <1>2, <1>3, <1>4, <2>1
  <2> QED BY <2>1, <2>2 DEF AbsPending, Open
<1>7. AbsPending'[g] = None
  BY <1>1, LogContent DEF AbsPending, Open
<1>8. AbsPending[g] = content[gm] /\ AbsPending[g] # None
  <2>1. content[gm] \in SUBSET Labels
    BY <1>1, <1>2
  <2> QED BY <2>1, MetricEventsAssumption DEF AbsPending, Log, MetricEventsAssumption
<1>9. AbsPending' = [AbsPending EXCEPT ![g] = None]
  BY <1>6, <1>7 DEF AbsPending
<1>10. entry' = [group |-> g, labels |-> AbsPending[g]]
  BY <1>8 DEF Log
<1> QED BY <1>5, <1>8, <1>9, <1>10 DEF Abstract!Log, AbsValue, AbsLabels, AbsPending

LEMMA AbsStutter == ASSUME UNCHANGED vars PROVE UNCHANGED Abstract!vars
BY DEF vars, Abstract!vars, Open

LEMMA AbsStep ==
  ASSUME FreshMaps, Inv, [Next]_vars PROVE [Abstract!Next]_(Abstract!vars)
<1>1. ASSUME NEW k \in Keys, NEW v \in Values, NEW m \in Maps \cup {NilMap}, NEW ls \in Given,
             AddEvent(k, v, m, ls)
      PROVE  Abstract!Next
  <2>1. ls \in SUBSET Labels
    BY MetricEventsAssumption DEF MetricEventsAssumption
  <2> QED BY <1>1, <2>1, AbsAddEvent DEF Abstract!Next, Abstract!Keys, Keys
<1>2. ASSUME NEW g \in Groups, Log(g) PROVE Abstract!Next
  BY <1>2, AbsLog DEF Abstract!Next, Abstract!Groups, Groups
<1>3. ASSUME NEW k \in Keys, NEW v \in Values, AddEventPanics(k, v)
      PROVE  UNCHANGED Abstract!vars
  BY <1>3, AbsStutter DEF AddEventPanics
<1>4. CASE UNCHANGED vars
  BY <1>4, AbsStutter
<1> QED BY <1>1, <1>2, <1>3, <1>4 DEF Next

\* Every change is logged once, with the labels it had, if callers make a map for each call.
THEOREM ChangesAreLogged == ASSUME FreshMaps PROVE Spec => ImplementsChangeLog
<1>1. Inv /\ [Next]_vars => [Abstract!Next]_(Abstract!vars)
  BY AbsStep
<1> QED BY <1>1, AbsInit, Invariance, PTL DEF Spec, ImplementsChangeLog, Abstract!Spec
=============================================================================
