------------------------------ MODULE Recovery ------------------------------
(***************************************************************************)
(* sharedlibraries/recovery: RecoverableRoutine.  A routine that panics is *)
(* started again after a wait, until its backoff policy gives up; one that *)
(* returns has ended.                                                      *)
(*                                                                         *)
(* The policy is the ExponentialBackOff that StartRoutine makes when it is *)
(* given none: waits that grow up to MaxInterval (by half each time; in    *)
(* whole ticks they double), each with a random part, and a limit on the   *)
(* time since the last reset, which includes the time the routine ran.  A  *)
(* panic after a run of ExpectedMinDuration or more resets it.  The panic  *)
(* is reported before the policy is asked, by a request that may take any  *)
(* time, or for ever.  Time is counted in ticks and only as far as the     *)
(* comparisons can tell it apart.                                          *)
(***************************************************************************)
EXTENDS Integers

CONSTANTS
  Routines,
  ExpectedMinDuration, \* of each routine
  InitialInterval, MaxInterval,
  MaxElapsedTime       \* 0 is no limit

ASSUME RecoveryAssumption ==
  /\ ExpectedMinDuration \in [Routines -> Nat]
  /\ InitialInterval \in Nat \ {0}
  /\ MaxInterval \in Nat
  /\ InitialInterval <= MaxInterval
  /\ MaxElapsedTime \in Nat

VARIABLES
  phase,    \* where the goroutine of the routine is, one of Phases
  ranFor,   \* the time since lastRestart
  elapsed,  \* the time since the policy was reset
  interval, \* its next interval, without the random part
  left      \* what is left of a wait

\* "panicked" and "reporting" are in the deferred function, before the request that reports
\* the panic and within it.
Phases == {"idle", "running", "panicked", "reporting", "waiting", "ended", "abandoned"}

recoveryVars == <<phase, ranFor, elapsed, interval, left>>

RecoveryInit ==
  /\ phase = [r \in Routines |-> "idle"]
  /\ ranFor = [r \in Routines |-> 0]
  /\ elapsed = [r \in Routines |-> 0]
  /\ interval = [r \in Routines |-> InitialInterval]
  /\ left = [r \in Routines |-> 0]

Least(a, b) == IF a <= b THEN a ELSE b

-----------------------------------------------------------------------------
(* The policy *)

\* A wait is half of the interval at least and one and a half at most.
Waits(i) == (i + 1) \div 2 .. (3 * i) \div 2

\* Slip: the interval is not limited.
GrownUnlimited(i) == 2 * i

Grown(i) == Least(2 * i, MaxInterval)

GivesUp(e, w) == MaxElapsedTime # 0 /\ e + w > MaxElapsedTime

\* NextBackOff: wait for w, or stop for good.
Backoff(r, w) ==
  /\ w \in Waits(interval[r])
  /\ interval' = [interval EXCEPT ![r] = Grown(@)]
  /\ IF GivesUp(elapsed[r], w)
       THEN phase' = [phase EXCEPT ![r] = "abandoned"] /\ UNCHANGED left
       ELSE phase' = [phase EXCEPT ![r] = "waiting"] /\ left' = [left EXCEPT ![r] = w]

-----------------------------------------------------------------------------
(* A routine *)

\* backoff.Retry resets the policy before the first attempt.
StartRoutine(r) ==
  /\ phase[r] = "idle"
  /\ phase' = [phase EXCEPT ![r] = "running"]
  /\ UNCHANGED <<ranFor, elapsed, interval, left>>

\* Slip: a run that is as long as expected is held to be too short.
RanLongerThanExpected(r) == ranFor[r] > ExpectedMinDuration[r]

RanLongEnough(r) == ranFor[r] >= ExpectedMinDuration[r]

\* The routine panics, and the policy is reset if it ran long enough.
Panic(r) ==
  /\ phase[r] = "running"
  /\ phase' = [phase EXCEPT ![r] = "panicked"]
  /\ IF RanLongEnough(r)
       THEN /\ elapsed' = [elapsed EXCEPT ![r] = 0]
            /\ interval' = [interval EXCEPT ![r] = InitialInterval]
       ELSE UNCHANGED <<elapsed, interval>>
  /\ UNCHANGED <<ranFor, left>>

ReportPanic(r) ==
  /\ phase[r] = "panicked"
  /\ phase' = [phase EXCEPT ![r] = "reporting"]
  /\ UNCHANGED <<ranFor, elapsed, interval, left>>

\* The report has returned, and backoff.Retry asks the policy.
AskPolicy(r, w) ==
  /\ phase[r] = "reporting"
  /\ Backoff(r, w)
  /\ UNCHANGED <<ranFor, elapsed>>

Return(r) ==
  /\ phase[r] = "running"
  /\ phase' = [phase EXCEPT ![r] = "ended"]
  /\ UNCHANGED <<ranFor, elapsed, interval, left>>

Restart(r) ==
  /\ phase[r] = "waiting"
  /\ left[r] = 0
  /\ phase' = [phase EXCEPT ![r] = "running"]
  /\ ranFor' = [ranFor EXCEPT ![r] = 0]
  /\ UNCHANGED <<elapsed, interval, left>>

Tick ==
  /\ ranFor' = [r \in Routines |->
       IF phase[r] = "running" THEN Least(ranFor[r] + 1, ExpectedMinDuration[r]) ELSE ranFor[r]]
  /\ elapsed' = [r \in Routines |->
       IF phase[r] \in {"running", "panicked", "reporting", "waiting"}
         THEN Least(elapsed[r] + 1, MaxElapsedTime + 1)
         ELSE elapsed[r]]
  /\ left' = [r \in Routines |-> IF left[r] > 0 THEN left[r] - 1 ELSE 0]
  /\ UNCHANGED <<phase, interval>>

RecoveryNext ==
  \/ \E r \in Routines :
       \/ StartRoutine(r)
       \/ Panic(r)
       \/ ReportPanic(r)
       \/ \E w \in 1 .. 2 * MaxInterval : AskPolicy(r, w)
       \/ Return(r)
       \/ Restart(r)
  \/ Tick

RecoverySpec == RecoveryInit /\ [][RecoveryNext]_recoveryVars

-----------------------------------------------------------------------------
(* Properties *)

RecoveryTypeOK ==
  /\ phase \in [Routines -> Phases]
  /\ ranFor \in [Routines -> Nat]
  /\ elapsed \in [Routines -> Nat]
  /\ interval \in [Routines -> 1 .. MaxInterval]
  /\ left \in [Routines -> Nat]
  /\ \A r \in Routines : ranFor[r] <= ExpectedMinDuration[r]

\* A routine is abandoned only if the time since the last reset leaves no room for its
\* longest next wait.  After a run that was too short that time is made of runs, reports and
\* waits, a crash loop.  After a proper run it is the time that the report of this one panic
\* took, and the next wait is a first one: no panic after a proper run, and no number of
\* them, ends the restarts, unless its report hangs.
GivenUpOnlyInCrashLoop ==
  \A r \in Routines : phase[r] = "abandoned" =>
    LET next == IF ranFor[r] < ExpectedMinDuration[r] THEN MaxInterval ELSE InitialInterval
    IN  MaxElapsedTime # 0 /\ elapsed[r] + (3 * next) \div 2 > MaxElapsedTime
=============================================================================
