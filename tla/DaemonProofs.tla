---------------------------- MODULE DaemonProofs ----------------------------
(***************************************************************************)
(* Theorems about Recovery and Daemon: for any services, any backoff       *)
(* policy and any bound of the counters.                                   *)
(***************************************************************************)
EXTENDS Daemon, TLAPS

-----------------------------------------------------------------------------
(* Recovery: the policy *)

LEMMA GrownType == ASSUME NEW i \in 1 .. MaxInterval PROVE Grown(i) \in 1 .. MaxInterval
BY RecoveryAssumption DEF RecoveryAssumption, Grown, Least

LEMMA WaitBound ==
  ASSUME NEW i \in 1 .. MaxInterval, NEW w \in Waits(i)
  PROVE  w \in Nat /\ w <= (3 * i) \div 2
<1>1. (i + 1) \div 2 \in Nat
  BY RecoveryAssumption DEF RecoveryAssumption
<1> QED BY <1>1, RecoveryAssumption DEF RecoveryAssumption, Waits

LEMMA FirstInterval == InitialInterval \in 1 .. MaxInterval
BY RecoveryAssumption DEF RecoveryAssumption

LEMMA NoNegativeDuration == \A r \in Routines : 0 <= ExpectedMinDuration[r]
<1> SUFFICES ASSUME NEW r \in Routines PROVE 0 <= ExpectedMinDuration[r]
  OBVIOUS
<1>1. ExpectedMinDuration[r] \in Nat
  BY RecoveryAssumption DEF RecoveryAssumption
<1> QED BY <1>1

-----------------------------------------------------------------------------
(* Recovery: the inductive invariant *)

\* A policy that was reset for a panic is as it was at first when it is asked.
ResetInv ==
  \A r \in Routines :
    phase[r] \in {"panicked", "reporting"} /\ ranFor[r] >= ExpectedMinDuration[r] =>
      interval[r] = InitialInterval

RecoveryInv == RecoveryTypeOK /\ ResetInv /\ GivenUpOnlyInCrashLoop

LEMMA RecoveryInvInit == RecoveryInit => RecoveryInv
<1> SUFFICES ASSUME RecoveryInit PROVE RecoveryInv
  OBVIOUS
<1>1. interval \in [Routines -> 1 .. MaxInterval]
  BY FirstInterval DEF RecoveryInit
<1>2. \A r \in Routines : ranFor[r] <= ExpectedMinDuration[r]
  BY NoNegativeDuration DEF RecoveryInit
<1>3. \A r \in Routines : phase[r] = "idle"
  BY DEF RecoveryInit
<1>4. RecoveryTypeOK
  BY <1>1, <1>2 DEF RecoveryInit, RecoveryTypeOK, Phases
<1> QED BY <1>3, <1>4 DEF RecoveryInv, ResetInv, GivenUpOnlyInCrashLoop

LEMMA PanicStep ==
  ASSUME RecoveryInv, NEW r \in Routines, Panic(r) PROVE RecoveryInv'
<1> USE DEF RecoveryInv, RecoveryTypeOK
<1>1. phase' = [phase EXCEPT ![r] = "panicked"] /\ UNCHANGED <<ranFor, left>>
  BY DEF Panic
<1>2. CASE RanLongEnough(r)
  <2>1. /\ elapsed' = [elapsed EXCEPT ![r] = 0]
        /\ interval' = [interval EXCEPT ![r] = InitialInterval]
    BY <1>2 DEF Panic
  <2>2. RecoveryTypeOK'
    BY <1>1, <2>1, FirstInterval DEF Phases
  <2>3. ResetInv'
    BY <1>1, <2>1 DEF ResetInv
  <2>4. GivenUpOnlyInCrashLoop'
    BY <1>1, <2>1 DEF GivenUpOnlyInCrashLoop
  <2> QED BY <2>2, <2>3, <2>4
<1>3. CASE ~RanLongEnough(r)
  <2>1. UNCHANGED <<elapsed, interval>>
    BY <1>3 DEF Panic
  <2>2. RecoveryTypeOK'
    BY <1>1, <2>1 DEF Phases
  <2>3. ResetInv'
    BY <1>1, <1>3, <2>1 DEF ResetInv, RanLongEnough
  <2>4. GivenUpOnlyInCrashLoop'
    BY <1>1, <2>1 DEF GivenUpOnlyInCrashLoop
  <2> QED BY <2>2, <2>3, <2>4
<1> QED BY <1>2, <1>3

\* The policy gives up only if the elapsed time leaves no room for the longest next wait.
LEMMA AskPolicyStep ==
  ASSUME RecoveryInv, NEW r \in Routines, NEW w, AskPolicy(r, w) PROVE RecoveryInv'
<1> USE DEF RecoveryInv, RecoveryTypeOK
<1> DEFINE i == interval[r]
           next == IF ranFor[r] < ExpectedMinDuration[r] THEN MaxInterval ELSE InitialInterval
<1>1. /\ phase[r] = "reporting" /\ w \in Waits(i)
      /\ interval' = [interval EXCEPT ![r] = Grown(i)]
      /\ UNCHANGED <<ranFor, elapsed>>
  BY DEF AskPolicy, Backoff
<1>2. i \in 1 .. MaxInterval /\ w \in Nat /\ w <= (3 * i) \div 2
  BY <1>1, WaitBound
<1>3. interval' \in [Routines -> 1 .. MaxInterval]
  BY <1>1, <1>2, GrownType
<1>4. w <= (3 * next) \div 2
  <2>1. i <= next
    <3>1. CASE ranFor[r] < ExpectedMinDuration[r]
      BY <1>2, <3>1, RecoveryAssumption DEF RecoveryAssumption
    <3>2. CASE ~(ranFor[r] < ExpectedMinDuration[r])
      <4>1. ranFor[r] >= ExpectedMinDuration[r]
        BY <3>2, RecoveryAssumption DEF RecoveryAssumption
      <4>2. i = InitialInterval
        BY <1>1, <4>1 DEF ResetInv
      <4> QED BY <3>2, <4>2, RecoveryAssumption DEF RecoveryAssumption
    <3> QED BY <3>1, <3>2
  <2>2. next \in Nat
    BY RecoveryAssumption DEF RecoveryAssumption
  <2> HIDE DEF i, next
  <2> QED BY <1>2, <2>1, <2>2, RecoveryAssumption DEF RecoveryAssumption
<1>5. CASE GivesUp(elapsed[r], w)
  <2>1. phase' = [phase EXCEPT ![r] = "abandoned"] /\ UNCHANGED left
    BY <1>5 DEF AskPolicy, Backoff
  <2>2. MaxElapsedTime # 0 /\ elapsed[r] + (3 * next) \div 2 > MaxElapsedTime
    <3>1. MaxElapsedTime # 0 /\ elapsed[r] + w > MaxElapsedTime
      BY <1>5 DEF GivesUp
    <3>2. next \in Nat /\ elapsed[r] \in Nat /\ MaxElapsedTime \in Nat
      BY RecoveryAssumption DEF RecoveryAssumption
    <3> HIDE DEF next
    <3> QED BY <1>2, <1>4, <3>1, <3>2
  <2>3. GivenUpOnlyInCrashLoop'
    BY <1>1, <2>1, <2>2 DEF GivenUpOnlyInCrashLoop
  <2>4. ResetInv'
    BY <1>1, <2>1 DEF ResetInv
  <2> QED BY <1>1, <1>3, <2>1, <2>3, <2>4 DEF Phases
<1>6. CASE ~GivesUp(elapsed[r], w)
  <2>1. phase' = [phase EXCEPT ![r] = "waiting"] /\ left' = [left EXCEPT ![r] = w]
    BY <1>6 DEF AskPolicy, Backoff
  <2>2. GivenUpOnlyInCrashLoop'
    BY <1>1, <2>1 DEF GivenUpOnlyInCrashLoop
  <2>3. ResetInv'
    BY <1>1, <2>1 DEF ResetInv
  <2> QED BY <1>1, <1>2, <1>3, <2>1, <2>2, <2>3 DEF Phases
<1> QED BY <1>5, <1>6

LEMMA TickStep == ASSUME RecoveryInv, Tick PROVE RecoveryInv'
<1> USE DEF RecoveryInv, RecoveryTypeOK
<1>1. ranFor' \in [Routines -> Nat] /\ \A r \in Routines : ranFor'[r] <= ExpectedMinDuration[r]
  BY RecoveryAssumption DEF Tick, Least, RecoveryAssumption
<1>2. elapsed' \in [Routines -> Nat] /\ left' \in [Routines -> Nat]
  BY RecoveryAssumption DEF Tick, Least, RecoveryAssumption
<1>3. \A r \in Routines : phase[r] # "running" => ranFor'[r] = ranFor[r]
  BY DEF Tick
<1>4. \A r \in Routines : phase[r] = "abandoned" => elapsed'[r] = elapsed[r]
  BY DEF Tick
<1>5. UNCHANGED <<phase, interval>>
  BY DEF Tick
<1>6. ResetInv' /\ GivenUpOnlyInCrashLoop'
  BY <1>3, <1>4, <1>5 DEF ResetInv, GivenUpOnlyInCrashLoop
<1> QED BY <1>1, <1>2, <1>5, <1>6

LEMMA RecoveryStep == ASSUME RecoveryInv, [RecoveryNext]_recoveryVars PROVE RecoveryInv'
<1> USE DEF RecoveryInv, RecoveryTypeOK, ResetInv, GivenUpOnlyInCrashLoop
<1>1. ASSUME NEW r \in Routines, StartRoutine(r) \/ Return(r) PROVE RecoveryInv'
  BY <1>1 DEF StartRoutine, Return, Phases
<1>2. ASSUME NEW r \in Routines, ReportPanic(r) PROVE RecoveryInv'
  BY <1>2 DEF ReportPanic, Phases
<1>3. ASSUME NEW r \in Routines, Restart(r) PROVE RecoveryInv'
  BY <1>3, NoNegativeDuration DEF Restart, Phases
<1>4. ASSUME NEW r \in Routines, Panic(r) PROVE RecoveryInv'
  BY <1>4, PanicStep
<1>5. ASSUME NEW r \in Routines, NEW w \in 1 .. 2 * MaxInterval, AskPolicy(r, w)
      PROVE  RecoveryInv'
  BY <1>5, AskPolicyStep
<1>6. CASE Tick
  BY <1>6, TickStep
<1>7. CASE UNCHANGED recoveryVars
  BY <1>7 DEF recoveryVars
<1> QED BY <1>1, <1>2, <1>3, <1>4, <1>5, <1>6, <1>7 DEF RecoveryNext

\* A routine is abandoned only in a crash loop that has used up the policy's time, or when
\* the report of its panic has.
THEOREM AbandonedInCrashLoop == RecoverySpec => [](RecoveryTypeOK /\ GivenUpOnlyInCrashLoop)
<1>1. RecoveryInv /\ [RecoveryNext]_recoveryVars => RecoveryInv'
  BY RecoveryStep
<1>2. RecoveryInv => RecoveryTypeOK /\ GivenUpOnlyInCrashLoop
  BY DEF RecoveryInv
<1> QED BY <1>1, <1>2, RecoveryInvInit, PTL DEF RecoverySpec

-----------------------------------------------------------------------------
(* The daemon keeps its services under Recovery *)

LEMMA DaemonRecoveryStep == [Next]_vars => [RecoveryNext]_recoveryVars
<1> SUFFICES ASSUME [Next]_vars PROVE [RecoveryNext]_recoveryVars
  OBVIOUS
<1>1. ASSUME NEW r \in Routines, StartService(r) \/ ServicePanics(r) \/ ServiceReports(r)
      PROVE  RecoveryNext
  BY <1>1 DEF StartService, ServicePanics, ServiceReports, RecoveryNext
<1>2. ASSUME NEW r \in Routines, NEW w \in 1 .. 2 * MaxInterval, ServiceWaits(r, w)
      PROVE  RecoveryNext
  BY <1>2 DEF ServiceWaits, RecoveryNext
<1>3. ASSUME NEW r \in Routines, ServiceReturns(r) \/ ServiceRestarts(r) PROVE RecoveryNext
  BY <1>3 DEF ServiceReturns, ServiceRestarts, RecoveryNext
<1>4. CASE Time
  BY <1>4 DEF Time, RecoveryNext
<1>5. CASE \/ Execute \/ ReadFails \/ ReadEmpty \/ SetupLogging \/ Started \/ Notify
           \/ StartedAnswered \/ Serve \/ SeeSignal \/ Stopped \/ StoppedAnswered
           \/ LogLastLine \/ Closed \/ Exit
  BY <1>5 DEF Execute, ReadFails, ReadEmpty, SetupLogging, Started, StartedAnswered, Notify,
              Serve, SeeSignal, Stopped, StoppedAnswered, LogLastLine, Closed, Exit
<1>6. CASE ReportRunning \/ Signal \/ SendBuffer \/ Gone \/ UNCHANGED vars
  BY <1>6 DEF ReportRunning, Signal, SendBuffer, Gone, vars
<1> QED BY <1>1, <1>2, <1>3, <1>4, <1>5, <1>6 DEF Next, Alone, Answered

\* What the daemon does to its services is what Recovery describes, whatever the rest of
\* the agent does meanwhile.
THEOREM DaemonRecovers == Spec => RecoverySpec
<1>1. Init => RecoveryInit
  BY DEF Init
<1> QED BY <1>1, DaemonRecoveryStep, PTL DEF Spec, RecoverySpec

\* So no service of the daemon is abandoned but in a crash loop.
THEOREM ServicesAreKept == Spec => []GivenUpOnlyInCrashLoop
BY DaemonRecovers, AbandonedInCrashLoop, PTL

-----------------------------------------------------------------------------
(* Reports *)

\* The places before the properties are set, and those after it.
Unset == {"main", "reading", "configured"}
Dead == {"exited", "crashed", "killed"}
Set == Places \ (Unset \cup Dead)

\* The life of the agent, as far as reports depend on it: services have a copy of the
\* logger from after the properties were set.
LifeInv ==
  /\ at \in Places
  /\ agentProps \in BOOLEAN
  /\ copied \in [Routines -> BOOLEAN]
  /\ at \in Unset => ~agentProps
  /\ at \in Set => agentProps
  /\ daily => agentProps
  /\ \A r \in Routines : phase[r] # "idle" => agentProps /\ copied[r]

\* Nothing is reported without properties and a zone, STARTED is reported with the
\* properties set, and STOPPED at the end.
ReportInv ==
  /\ reports \in [Statuses -> Nat]
  /\ \A s \in Statuses : reports[s] <= MaxReports[s]
  /\ unreported \subseteq Routines
  /\ agentProps /\ zone => reports["STARTED"] = 1
  /\ ~(agentProps /\ zone) => \A s \in Statuses : reports[s] = 0
  /\ reports["STOPPED"] <= 1
  /\ at \notin {"reportingStopped", "stopped", "closing", "closed", "exited"} =>
       reports["STOPPED"] = 0

DaemonInv == RecoveryInv /\ LifeInv /\ ReportInv /\ PanicsAreReported

LEMMA BoundType == \A s \in Statuses : MaxReports[s] \in Nat /\ 0 <= MaxReports[s] /\ 1 <= MaxReports[s]
BY DaemonAssumption DEF DaemonAssumption

\* What a request does to the counts.
LEMMA CountedStep ==
  ASSUME reports \in [Statuses -> Nat], \A s \in Statuses : reports[s] <= MaxReports[s],
         NEW s \in Statuses
  PROVE  /\ Counted(s) \in [Statuses -> Nat]
         /\ \A t \in Statuses : Counted(s)[t] <= MaxReports[t]
         /\ \A t \in Statuses \ {s} : Counted(s)[t] = reports[t]
         /\ reports[s] = 0 => Counted(s)[s] = 1
BY BoundType DEF Counted, Least

LEMMA DaemonInvInit == Init => DaemonInv
<1> SUFFICES ASSUME Init PROVE DaemonInv
  OBVIOUS
<1>1. RecoveryInv
  BY RecoveryInvInit DEF Init
<1>2. LifeInv
  BY DEF Init, RecoveryInit, LifeInv, Unset, Set, Dead, Places, Early
<1>3. ReportInv
  BY BoundType DEF Init, ReportInv, Statuses
<1>4. PanicsAreReported
  BY DEF Init, RecoveryInit, PanicsAreReported
<1> QED BY <1>1, <1>2, <1>3, <1>4 DEF DaemonInv

\* A step of the main goroutine that reports nothing.
LEMMA QuietStep ==
  ASSUME DaemonInv, UNCHANGED <<recoveryVars, zone, agentProps, copied, reports, unreported>>,
         at' \in Places,
         at' \in Unset => at \in Unset,
         at' \in Set => at \in Set,
         at \in {"reportingStopped", "stopped", "closing", "closed", "exited"} =>
           at' \in {"reportingStopped", "stopped", "closing", "closed", "exited"},
         daily' => daily \/ at \in Set
  PROVE  LifeInv' /\ ReportInv' /\ PanicsAreReported'
<1>1. LifeInv'
  BY DEF DaemonInv, LifeInv, recoveryVars
<1>2. ReportInv'
  BY DEF DaemonInv, ReportInv
<1>3. PanicsAreReported'
  BY DEF DaemonInv, PanicsAreReported, recoveryVars
<1> QED BY <1>1, <1>2, <1>3

LEMMA StartedStep ==
  ASSUME DaemonInv, Started PROVE LifeInv' /\ ReportInv' /\ PanicsAreReported'
<1>1. /\ at = "configured" /\ at' \in {"reportingStarted", "started"} /\ agentProps' = TRUE
      /\ UNCHANGED <<phase, copied, daily, zone, unreported>>
  BY DEF Started, recoveryVars
<1>2. ~agentProps
  BY <1>1 DEF DaemonInv, LifeInv, Unset
<1>3. LifeInv'
  BY <1>1, <1>2 DEF DaemonInv, LifeInv, Unset, Set, Dead, Places, Early
<1>4. /\ \A s \in Statuses : reports[s] = 0
      /\ reports \in [Statuses -> Nat]
      /\ \A s \in Statuses : reports[s] <= MaxReports[s]
  BY <1>2 DEF DaemonInv, ReportInv
<1>5. ReportInv'
  <2>1. CASE zone
    <3>1. reports' = Counted("STARTED")
      BY <2>1 DEF Started
    <3> QED BY <1>1, <1>4, <2>1, <3>1, CountedStep DEF DaemonInv, ReportInv, Statuses
  <2>2. CASE ~zone
    <3>1. reports' = reports
      BY <2>2 DEF Started
    <3> QED BY <1>1, <1>4, <2>2, <3>1 DEF DaemonInv, ReportInv, Statuses
  <2> QED BY <2>1, <2>2
<1>6. PanicsAreReported'
  BY <1>1 DEF DaemonInv, PanicsAreReported
<1> QED BY <1>3, <1>5, <1>6

LEMMA StoppedStep ==
  ASSUME DaemonInv, Stopped PROVE LifeInv' /\ ReportInv' /\ PanicsAreReported'
<1>1. /\ at = "stopping" /\ at' \in {"reportingStopped", "stopped"}
      /\ UNCHANGED <<phase, zone, agentProps, copied, daily, unreported>>
  BY DEF Stopped, recoveryVars
<1>2. agentProps
  BY <1>1 DEF DaemonInv, LifeInv, Unset, Set, Dead, Places, Shutdown
<1>3. LifeInv'
  BY <1>1, <1>2 DEF DaemonInv, LifeInv, Unset, Set, Dead, Places, Shutdown
<1>4. /\ reports["STOPPED"] = 0
      /\ reports \in [Statuses -> Nat]
      /\ \A s \in Statuses : reports[s] <= MaxReports[s]
  BY <1>1 DEF DaemonInv, ReportInv
<1>5. ReportInv'
  <2>1. CASE zone
    <3>1. reports' = Counted("STOPPED")
      BY <1>2, <2>1 DEF Stopped, Report
    <3> QED BY <1>1, <1>2, <1>4, <2>1, <3>1, CountedStep DEF DaemonInv, ReportInv, Statuses
  <2>2. CASE ~zone
    <3>1. reports' = reports
      BY <2>2 DEF Stopped, Report
    <3> QED BY <1>1, <1>4, <2>2, <3>1 DEF DaemonInv, ReportInv
  <2> QED BY <2>1, <2>2
<1>6. PanicsAreReported'
  BY <1>1 DEF DaemonInv, PanicsAreReported
<1> QED BY <1>3, <1>5, <1>6

LEMMA ReportRunningStep ==
  ASSUME DaemonInv, ReportRunning PROVE LifeInv' /\ ReportInv' /\ PanicsAreReported'
<1>1. daily /\ UNCHANGED <<phase, at, zone, agentProps, copied, daily, unreported>>
  BY DEF ReportRunning, recoveryVars
<1>2. LifeInv' /\ PanicsAreReported'
  BY <1>1 DEF DaemonInv, LifeInv, PanicsAreReported
<1>3. ReportInv'
  <2>1. agentProps /\ reports \in [Statuses -> Nat] /\ \A s \in Statuses : reports[s] <= MaxReports[s]
    BY <1>1 DEF DaemonInv, LifeInv, ReportInv
  <2>2. CASE zone
    <3>1. reports' = Counted("RUNNING")
      BY <2>1, <2>2 DEF ReportRunning, Report
    <3>2. reports'["STARTED"] = reports["STARTED"] /\ reports'["STOPPED"] = reports["STOPPED"]
      BY <2>1, <3>1, CountedStep DEF Statuses
    <3>3. reports' \in [Statuses -> Nat] /\ \A s \in Statuses : reports'[s] <= MaxReports[s]
      BY <2>1, <3>1, CountedStep DEF Statuses
    <3> QED BY <1>1, <2>1, <2>2, <3>2, <3>3 DEF DaemonInv, ReportInv
  <2>3. CASE ~zone
    <3>1. reports' = reports
      BY <2>3 DEF ReportRunning, Report
    <3> QED BY <1>1, <3>1 DEF DaemonInv, ReportInv
  <2> QED BY <2>2, <2>3
<1> QED BY <1>2, <1>3

LEMMA StartServiceStep ==
  ASSUME DaemonInv, NEW r \in Routines, StartService(r)
  PROVE  LifeInv' /\ ReportInv' /\ PanicsAreReported'
<1>1. at = "starting" /\ UNCHANGED <<at, zone, agentProps, daily, reports, unreported>>
  BY DEF StartService
<1>2. agentProps
  BY <1>1 DEF DaemonInv, LifeInv, Unset, Set, Dead, Places
<1>3. copied' = [copied EXCEPT ![r] = TRUE]
  BY <1>2 DEF StartService, DaemonInv, LifeInv
<1>4. phase[r] = "idle" /\ phase' = [phase EXCEPT ![r] = "running"]
  BY DEF StartService, StartRoutine
<1>5. LifeInv'
  BY <1>1, <1>2, <1>3, <1>4 DEF DaemonInv, LifeInv, RecoveryInv, RecoveryTypeOK
<1>6. ReportInv' /\ PanicsAreReported'
  BY <1>1, <1>4 DEF DaemonInv, ReportInv, PanicsAreReported, RecoveryInv, RecoveryTypeOK
<1> QED BY <1>5, <1>6

LEMMA ServicePanicsStep ==
  ASSUME DaemonInv, NEW r \in Routines, ServicePanics(r)
  PROVE  LifeInv' /\ ReportInv' /\ PanicsAreReported'
<1>1. UNCHANGED <<at, zone, agentProps, copied, daily, reports>>
  BY DEF ServicePanics
<1>2. phase[r] = "running" /\ phase' = [phase EXCEPT ![r] = "panicked"]
      /\ unreported' = unreported \cup {r}
  BY DEF ServicePanics, Panic
<1>3. LifeInv'
  BY <1>1, <1>2 DEF DaemonInv, LifeInv, RecoveryInv, RecoveryTypeOK
<1>4. ReportInv' /\ PanicsAreReported'
  BY <1>1, <1>2 DEF DaemonInv, ReportInv, PanicsAreReported, RecoveryInv, RecoveryTypeOK
<1> QED BY <1>3, <1>4

\* A service that panicked was started, so its copy of the logger has properties.
LEMMA ServiceReportsStep ==
  ASSUME DaemonInv, NEW r \in Routines, ServiceReports(r)
  PROVE  LifeInv' /\ ReportInv' /\ PanicsAreReported'
<1>1. UNCHANGED <<at, zone, agentProps, copied, daily>>
  BY DEF ServiceReports
<1>2. phase[r] = "panicked" /\ phase' = [phase EXCEPT ![r] = "reporting"]
  BY DEF ServiceReports, ReportPanic
<1>3. agentProps /\ copied[r]
  BY <1>2 DEF DaemonInv, LifeInv
<1>4. LifeInv'
  BY <1>1, <1>2 DEF DaemonInv, LifeInv, RecoveryInv, RecoveryTypeOK
<1>5. CASE zone
  <2>1. reports' = Counted("ERROR") /\ unreported' = unreported \ {r}
    BY <1>3, <1>5 DEF ServiceReports
  <2>2. reports \in [Statuses -> Nat] /\ \A s \in Statuses : reports[s] <= MaxReports[s]
    BY DEF DaemonInv, ReportInv
  <2>3. /\ reports' \in [Statuses -> Nat] /\ \A s \in Statuses : reports'[s] <= MaxReports[s]
        /\ reports'["STARTED"] = reports["STARTED"] /\ reports'["STOPPED"] = reports["STOPPED"]
    BY <2>1, <2>2, CountedStep DEF Statuses
  <2>4. ReportInv'
    BY <1>1, <1>3, <1>5, <2>1, <2>3 DEF DaemonInv, ReportInv
  <2>5. PanicsAreReported'
    BY <1>1, <1>2, <2>1 DEF DaemonInv, PanicsAreReported, RecoveryInv, RecoveryTypeOK
  <2> QED BY <1>4, <2>4, <2>5
<1>6. CASE ~zone
  <2>1. UNCHANGED <<reports, unreported>>
    BY <1>6 DEF ServiceReports
  <2> QED BY <1>1, <1>4, <1>6, <2>1 DEF DaemonInv, ReportInv, PanicsAreReported
<1> QED BY <1>5, <1>6

\* A service that waits, goes on or returns, and time.
LEMMA OtherServiceStep ==
  ASSUME DaemonInv, UNCHANGED daemonVars, DOMAIN phase' = Routines,
         \A r \in Routines : /\ phase'[r] # "idle" => phase[r] # "idle"
                             /\ phase'[r] = "panicked" <=> phase[r] = "panicked"
  PROVE  LifeInv' /\ ReportInv' /\ PanicsAreReported'
BY DEF DaemonInv, LifeInv, ReportInv, PanicsAreReported, daemonVars

LEMMA DaemonStep == ASSUME DaemonInv, [Next]_vars PROVE DaemonInv'
<1>1. RecoveryInv'
  BY DaemonRecoveryStep, RecoveryStep DEF DaemonInv
<1>2. phase \in [Routines -> Phases]
  BY DEF DaemonInv, RecoveryInv, RecoveryTypeOK
<1>3. ASSUME NEW r \in Routines, StartService(r) \/ ServicePanics(r) \/ ServiceReports(r)
      PROVE  DaemonInv'
  BY <1>1, <1>3, StartServiceStep, ServicePanicsStep, ServiceReportsStep DEF DaemonInv
<1>4. ASSUME NEW r \in Routines, NEW w \in 1 .. 2 * MaxInterval, ServiceWaits(r, w)
      PROVE  DaemonInv'
  <2>1. /\ UNCHANGED daemonVars /\ phase[r] = "reporting"
        /\ \/ phase' = [phase EXCEPT ![r] = "abandoned"]
           \/ phase' = [phase EXCEPT ![r] = "waiting"]
    BY <1>4 DEF ServiceWaits, AskPolicy, Backoff
  <2> QED BY <1>1, <1>2, <2>1, OtherServiceStep DEF DaemonInv
<1>5. ASSUME NEW r \in Routines, ServiceReturns(r) \/ ServiceRestarts(r) PROVE DaemonInv'
  <2>1. /\ UNCHANGED daemonVars /\ phase[r] \in {"running", "waiting"}
        /\ \/ phase' = [phase EXCEPT ![r] = "ended"]
           \/ phase' = [phase EXCEPT ![r] = "running"]
    BY <1>5 DEF ServiceReturns, ServiceRestarts, Return, Restart
  <2> QED BY <1>1, <1>2, <2>1, OtherServiceStep DEF DaemonInv
<1>6. CASE Time
  <2>1. UNCHANGED daemonVars /\ UNCHANGED phase
    BY <1>6 DEF Time, Tick
  <2> QED BY <1>1, <1>2, <2>1, OtherServiceStep DEF DaemonInv
<1>7. CASE Started \/ Stopped \/ ReportRunning
  BY <1>1, <1>7, StartedStep, StoppedStep, ReportRunningStep DEF DaemonInv
<1>8. CASE \/ Execute \/ ReadFails \/ ReadEmpty \/ SetupLogging \/ StartedAnswered \/ Notify
           \/ Serve \/ SeeSignal \/ StoppedAnswered \/ LogLastLine \/ Closed \/ Exit
  <2>1. UNCHANGED <<recoveryVars, zone, agentProps, copied, reports, unreported>>
    BY <1>8 DEF Execute, ReadFails, ReadEmpty, SetupLogging, StartedAnswered, Notify, Serve,
                SeeSignal, StoppedAnswered, LogLastLine, Closed, Exit, usageVars
  <2>2. /\ at' \in Places
        /\ at' \in Unset => at \in Unset
        /\ at' \in Set => at \in Set
        /\ at \in {"reportingStopped", "stopped", "closing", "closed", "exited"} =>
             at' \in {"reportingStopped", "stopped", "closing", "closed", "exited"}
    BY <1>8 DEF Execute, ReadFails, ReadEmpty, SetupLogging, StartedAnswered, Notify, Serve,
                SeeSignal, StoppedAnswered, LogLastLine, Closed, Exit,
                Unset, Set, Dead, Places, Early, Shutdown
  <2>3. daily' => daily \/ at \in Set
    BY <1>8 DEF Execute, ReadFails, ReadEmpty, SetupLogging, StartedAnswered, Notify, Serve,
                SeeSignal, StoppedAnswered, LogLastLine, Closed, Exit, usageVars,
                Unset, Set, Dead, Places
  <2> QED BY <1>1, <2>1, <2>2, <2>3, QuietStep DEF DaemonInv
<1>9. CASE Signal \/ SendBuffer
  <2>1. /\ UNCHANGED <<recoveryVars, zone, agentProps, copied, daily, reports, unreported>>
        /\ at' = at \/ (at' = "killed" /\ at \in Early)
    BY <1>9 DEF Signal, SendBuffer, usageVars
  <2>2. at \in Places
    BY DEF DaemonInv, LifeInv
  <2> QED BY <1>1, <2>1, <2>2, QuietStep DEF DaemonInv, Unset, Set, Dead, Places, Early
<1>10. CASE Gone \/ UNCHANGED vars
  BY <1>1, <1>10, <1>2, OtherServiceStep DEF DaemonInv, Gone, vars, recoveryVars
<1> QED BY <1>3, <1>4, <1>5, <1>6, <1>7, <1>8, <1>9, <1>10 DEF Next, Alone, Answered

LEMMA DaemonInvariant == Spec => []DaemonInv
BY DaemonInvInit, DaemonStep, PTL DEF Spec

\* Every panic of every service is reported: a service has its copy of the logger from
\* after SetProperties, however often it is started again.
THEOREM PanicsReported == Spec => []PanicsAreReported
<1>1. DaemonInv => PanicsAreReported
  BY DEF DaemonInv
<1> QED BY <1>1, DaemonInvariant, PTL

\* Nothing is reported before STARTED, and STOPPED once.
THEOREM StartedFirstOfAll == Spec => []StartedComesFirst
<1>1. DaemonInv => StartedComesFirst
  BY DEF DaemonInv, ReportInv, StartedComesFirst, Statuses
<1> QED BY <1>1, DaemonInvariant, PTL

-----------------------------------------------------------------------------
(* The shutdown *)

\* A signal is taken once the main goroutine asked for it; the services are cancelled before
\* STOPPED is reported, and STOPPED is reported before the agent exits.
EndInv ==
  /\ signalled => at \notin Early
  /\ at \in Shutdown => cancelled
  /\ at \in Shutdown \ {"stopping"} /\ zone => reports["STOPPED"] = 1
  /\ signalled /\ at = "exited" => cancelled /\ (zone => reports["STOPPED"] = 1)

LEMMA EndStep == ASSUME DaemonInv, EndInv, [Next]_vars PROVE EndInv'
<1>1. CASE Stopped
  <2>1. /\ at = "stopping" /\ at' \in {"reportingStopped", "stopped"} /\ cancelled /\ agentProps
        /\ reports["STOPPED"] = 0 /\ reports \in [Statuses -> Nat]
        /\ \A s \in Statuses : reports[s] <= MaxReports[s]
        /\ UNCHANGED <<zone, signalled, cancelled>>
    BY <1>1 DEF Stopped, EndInv, DaemonInv, LifeInv, ReportInv, Unset, Set, Dead, Places, Shutdown
  <2>2. zone => reports'["STOPPED"] = 1
    BY <1>1, <2>1, CountedStep DEF Stopped, Report, Statuses
  <2> QED BY <2>1, <2>2 DEF EndInv, Early, Shutdown
<1>2. CASE ReportRunning
  <2>1. reports'["STOPPED"] = reports["STOPPED"]
    BY <1>2, CountedStep DEF ReportRunning, Report, DaemonInv, ReportInv, Statuses
  <2> QED BY <1>2, <2>1 DEF ReportRunning, EndInv
<1>3. ASSUME NEW r \in Routines, ServiceReports(r) PROVE EndInv'
  <2>1. reports'["STOPPED"] = reports["STOPPED"]
    BY <1>3, CountedStep DEF ServiceReports, DaemonInv, ReportInv, Statuses
  <2> QED BY <1>3, <2>1 DEF ServiceReports, EndInv
<1>4. CASE Started
  BY <1>4 DEF Started, EndInv, Early, Shutdown
<1>5. CASE Execute \/ SetupLogging \/ Notify \/ Serve \/ ReadFails \/ ReadEmpty \/ StartedAnswered
  BY <1>5 DEF Execute, SetupLogging, Notify, Serve, ReadFails, ReadEmpty, StartedAnswered,
              EndInv, Early, Shutdown
<1>6. CASE SeeSignal
  BY <1>6 DEF SeeSignal, EndInv, Early, Shutdown, usageVars
<1>7. CASE StoppedAnswered \/ LogLastLine \/ Closed \/ Exit
  BY <1>7 DEF StoppedAnswered, LogLastLine, Closed, Exit, EndInv, Early, Shutdown, usageVars
<1>8. ASSUME NEW r \in Routines, StartService(r) \/ ServicePanics(r) PROVE EndInv'
  BY <1>8 DEF StartService, ServicePanics, EndInv, usageVars
<1>9. ASSUME NEW r \in Routines,
             \/ ServiceReturns(r) \/ ServiceRestarts(r)
             \/ \E w \in 1 .. 2 * MaxInterval : ServiceWaits(r, w)
      PROVE  EndInv'
  BY <1>9 DEF ServiceReturns, ServiceRestarts, ServiceWaits, EndInv, daemonVars
<1>10. CASE Signal
  BY <1>10 DEF Signal, Alive, EndInv, Early, Shutdown, usageVars
<1>11. CASE SendBuffer \/ Time
  BY <1>11 DEF SendBuffer, Time, EndInv, usageVars, daemonVars
<1>12. CASE Gone \/ UNCHANGED vars
  BY <1>12 DEF Gone, vars, EndInv, daemonVars
<1> QED BY <1>1, <1>2, <1>3, <1>4, <1>5, <1>6, <1>7, <1>8, <1>9, <1>10, <1>11, <1>12
        DEF Next, Alone, Answered

LEMMA EndInvariant == Spec => []EndInv
<1>1. Init => EndInv
  BY DEF Init, EndInv, Early, Shutdown
<1>2. DaemonInv /\ EndInv /\ [Next]_vars => EndInv'
  BY EndStep
<1> QED BY <1>1, <1>2, DaemonInvariant, PTL DEF Spec

\* The safety part of SignalEndsDaemon: an agent that was signalled does not exit with its
\* services not cancelled or, where anything is reported, STOPPED not reported.
THEOREM SignalledExitIsComplete ==
  Spec => [](signalled /\ at = "exited" => cancelled /\ (zone => reports["STOPPED"] = 1))
<1>1. EndInv => (signalled /\ at = "exited" => cancelled /\ (zone => reports["STOPPED"] = 1))
  BY DEF EndInv
<1> QED BY <1>1, EndInvariant, PTL

-----------------------------------------------------------------------------
(* Logging *)

\* What the lines of the log go to, and that a client that was closed, or that the daemon
\* does not have, keeps no line of the main goroutine.
LogInv ==
  /\ client \in Clients
  /\ logsToCloud => client # "none"
  /\ unsent \subseteq Clients \ {"none"}
  /\ cancelled => at \in Shutdown \cup {"exited"}
  /\ at = "closed" \/ (at = "exited" /\ cancelled) => client \notin unsent

LEMMA LoggedType == ASSUME LogInv PROVE Logged \subseteq Clients \ {"none"}
BY DEF LogInv, Logged

LEMMA LogInvStep == ASSUME LogInv, [Next]_vars PROVE LogInv'
<1>1. CASE Execute
  BY <1>1 DEF Execute, LogInv, Shutdown
<1>2. CASE SetupLogging
  <2>1. client' \in Clients
    BY <1>2 DEF SetupLogging, ConfiguredClients, LogInv, Clients
  <2>2. /\ logsToCloud' => client' # "none"
        /\ unsent' = Logged /\ at = "reading" /\ at' = "configured" /\ UNCHANGED cancelled
    BY <1>2 DEF SetupLogging
  <2> QED BY <2>1, <2>2, LoggedType DEF LogInv, Shutdown
<1>3. CASE ReadFails \/ ReadEmpty \/ Started \/ StartedAnswered
  <2>1. /\ UNCHANGED <<client, logsToCloud, cancelled>> /\ unsent' = Logged
        /\ at \notin Shutdown \cup {"exited"} /\ at' # "closed"
    BY <1>3 DEF ReadFails, ReadEmpty, Started, StartedAnswered, Shutdown
  <2> QED BY <2>1, LoggedType DEF LogInv
<1>4. CASE SeeSignal \/ Stopped \/ StoppedAnswered
  <2>1. /\ UNCHANGED <<client, logsToCloud>> /\ unsent' \in {unsent, Logged}
        /\ at' \in {"stopping", "reportingStopped", "stopped"}
    BY <1>4 DEF SeeSignal, Stopped, StoppedAnswered
  <2> QED BY <2>1, LoggedType DEF LogInv, Shutdown
<1>5. CASE LogLastLine
  <2>1. /\ UNCHANGED <<client, logsToCloud>> /\ unsent' = Logged
        /\ at' = IF client = "none" THEN "closed" ELSE "closing"
    BY <1>5 DEF LogLastLine
  <2> QED BY <2>1, LoggedType DEF LogInv, Shutdown
<1>6. CASE Closed \/ Exit
  BY <1>6 DEF Closed, Exit, LogInv, Shutdown, logVars
<1>7. CASE Notify \/ Serve
  BY <1>7 DEF Notify, Serve, LogInv, Shutdown, logVars
<1>8. CASE ReportRunning \/ Time
  BY <1>8 DEF ReportRunning, Time, LogInv, logVars, daemonVars
<1>9. CASE Signal
  BY <1>9 DEF Signal, LogInv, logVars, Early, Shutdown
<1>10. CASE SendBuffer
  BY <1>10 DEF SendBuffer, LogInv
<1>11. ASSUME NEW r \in Routines, StartService(r) PROVE LogInv'
  <2>1. UNCHANGED <<client, logsToCloud, at, cancelled>> /\ unsent' = Logged /\ at = "starting"
    BY <1>11 DEF StartService
  <2> QED BY <2>1, LoggedType DEF LogInv, Shutdown
<1>12. ASSUME NEW r \in Routines, ServicePanics(r) \/ ServiceReports(r) PROVE LogInv'
  BY <1>12 DEF ServicePanics, ServiceReports, LogInv, logVars
<1>13. ASSUME NEW r \in Routines,
              \/ ServiceReturns(r) \/ ServiceRestarts(r)
              \/ \E w \in 1 .. 2 * MaxInterval : ServiceWaits(r, w)
       PROVE  LogInv'
  BY <1>13 DEF ServiceReturns, ServiceRestarts, ServiceWaits, LogInv, daemonVars
<1>14. CASE Gone \/ UNCHANGED vars
  BY <1>14 DEF Gone, vars, daemonVars, LogInv
<1> QED BY <1>1, <1>2, <1>3, <1>4, <1>5, <1>6, <1>7, <1>8, <1>9, <1>10, <1>11, <1>12, <1>13, <1>14
        DEF Next, Alone, Answered

LEMMA LogInvariant == Spec => []LogInv
<1>1. Init => LogInv
  BY DEF Init, LogInv, Clients
<1> QED BY <1>1, LogInvStep, PTL DEF Spec

\* An agent that was shut down has sent what its main goroutine logged to the client it has
\* by then: the last line comes before Close, and nothing of main after it.
THEOREM ShutdownLogged == Spec => []ShutdownIsLogged
<1>1. LogInv => ShutdownIsLogged
  BY DEF LogInv, ShutdownIsLogged
<1> QED BY <1>1, LogInvariant, PTL

\* The types, of the daemon and of the policies of its services.
THEOREM TypeCorrect == Spec => []TypeOK
<1>1. DaemonInv /\ LogInv => TypeOK
  BY DEF DaemonInv, RecoveryInv, LifeInv, ReportInv, LogInv, TypeOK
<1> QED BY <1>1, DaemonInvariant, LogInvariant, PTL
=============================================================================
