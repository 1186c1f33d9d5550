------------------------- MODULE GuestActionsProofs -------------------------
(***************************************************************************)
(* Theorems about GuestActions: for any set of operations, keys and        *)
(* requests, any clock and any number of restarts.  The last part is about *)
(* PunctualGuestActions.                                                   *)
(***************************************************************************)
EXTENDS PunctualGuestActions, WellFoundedInduction, TLAPS

-----------------------------------------------------------------------------
(* The longest timeout of a key *)

\* A nonempty set of naturals has a least element.
LEMMA LeastNatural ==
  ASSUME NEW U \in SUBSET Nat, U # {}
  PROVE  \E m \in U : \A u \in U : m <= u
<1> DEFINE R == OpToRel(<, Nat)
<1>1. IsWellFoundedOn(R, Nat)
  BY NatLessThanWellFounded
<1>2. \A x, y \in Nat : <<x, y>> \in R <=> x < y
  BY DEF OpToRel
<1>3. PICK m \in U : \A y \in U : ~ (<<y, m>> \in R)
  <2> HIDE DEF R
  <2> QED BY <1>1, WFMin
<1>4. \A u \in U : ~ (u < m)
  <2> HIDE DEF R
  <2> QED BY <1>2, <1>3
<1> QED BY <1>4

\* Max is what its name says on a nonempty, bounded set of positive numbers: the
\* least upper bound of the set belongs to it.
LEMMA MaxOfBounded ==
  ASSUME NEW M \in Nat, NEW S \in SUBSET (1 .. M), S # {}
  PROVE  /\ Max(S) \in S
         /\ \A x \in S : x <= Max(S)
<1> DEFINE U == {u \in Nat : \A x \in S : x <= u}
<1>1. M \in U
  OBVIOUS
<1>2. PICK m \in U : \A u \in U : m <= u
  BY <1>1, LeastNatural
<1>3. m \in S
  <2>1. SUFFICES ASSUME m \notin S PROVE FALSE
    OBVIOUS
  <2>2. m # 0
    <3>1. PICK x \in S : x \in 1 .. M
      OBVIOUS
    <3> QED BY <3>1
  <2>3. m - 1 \in U
    BY <2>1, <2>2
  <2> QED BY <1>2, <2>3
<1>4. \E x \in S : \A y \in S : x >= y
  BY <1>3
<1> QED BY <1>4 DEF Max

\* The timeouts that a request asks for one of its keys.
LEMMA TimeoutsType ==
  ASSUME NEW req \in Requests, NEW k \in KeysOf(req)
  PROVE  /\ TimeoutsFor(req, k) \in SUBSET (1 .. MaxDuration)
         /\ TimeoutsFor(req, k) # {}
<1>1. req \in Seq(Command)
  BY ConstantsAssumption DEF ConstantsAssumption
<1>2. \A i \in DOMAIN req : LockTimeout(req[i]) \in 1 .. MaxDuration
  <2> TAKE i \in DOMAIN req
  <2>1. req[i] \in Command
    BY <1>1
  <2>2. req[i].timeout \in -MaxDuration .. MaxDuration
    BY <2>1 DEF Command
  <2> QED BY <2>2, ConstantsAssumption DEF LockTimeout, ConstantsAssumption
<1>3. TimeoutsFor(req, k) \in SUBSET (1 .. MaxDuration)
  BY <1>2 DEF TimeoutsFor
<1>4. TimeoutsFor(req, k) # {}
  BY DEF TimeoutsFor, KeysOf
<1> QED BY <1>3, <1>4

\* acquireLocksForRequest gives every key of a request a positive timeout, one of those that
\* the request asks for.
LEMMA LongestTimeoutType ==
  ASSUME NEW req \in Requests, NEW k \in KeysOf(req)
  PROVE  /\ LongestTimeout(req, k) \in TimeoutsFor(req, k)
         /\ LongestTimeout(req, k) \in 1 .. MaxDuration
<1>1. MaxDuration \in Nat
  BY ConstantsAssumption DEF ConstantsAssumption
<1> QED BY <1>1, TimeoutsType, MaxOfBounded DEF LongestTimeout

\* The leases of a request run into the future, on its own keys and no other.
LEMMA LeasesType ==
  ASSUME NEW req \in Requests, now \in Nat
  PROVE  /\ KeysOf(req) \subseteq Keys
         /\ Leases(req) \in [Keys -> Nat]
         /\ \A k \in Keys : Leases(req)[k] # 0 <=> k \in KeysOf(req)
<1>1. req \in Seq(Command)
  BY ConstantsAssumption DEF ConstantsAssumption
<1>2. KeysOf(req) \subseteq Keys
  <2> SUFFICES ASSUME NEW i \in DOMAIN req, req[i].key # NoKey
               PROVE  req[i].key \in Keys
    BY DEF KeysOf
  <2>1. req[i] \in Command
    BY <1>1
  <2> QED BY <2>1 DEF Command
<1>3. \A k \in KeysOf(req) : LongestTimeout(req, k) \in Nat /\ LongestTimeout(req, k) # 0
  <2> TAKE k \in KeysOf(req)
  <2>1. LongestTimeout(req, k) \in 1 .. MaxDuration
    BY LongestTimeoutType
  <2> QED BY <2>1
<1> QED BY <1>2, <1>3 DEF Leases

-----------------------------------------------------------------------------
(* Type correctness *)

LEMMA TypeInit == Init => TypeOK
<1> SUFFICES ASSUME Init PROVE TypeOK
  OBVIOUS
<1>1. lease \in [Ops -> [Keys -> Nat]] /\ locks \in [Keys -> Nat]
  BY DEF Init
<1>2. request \in [Ops -> Seq(Command)] /\ reports \in [Ops -> Seq(Statuses)]
  <2>1. <<>> \in Seq(Command) /\ <<>> \in Seq(Statuses)
    OBVIOUS
  <2> QED BY <2>1 DEF Init
<1>3. phase \in [Ops -> Phases] /\ outcome \in [Ops -> {"succeeded", "failed"}]
  BY DEF Init, Phases
<1> QED BY <1>1, <1>2, <1>3 DEF Init, TypeOK, ListenerStates

\* Releasing keeps the lock table and the leases well-typed.
LEMMA ReleaseType ==
  ASSUME TypeOK, NEW o \in Ops, Release(o)
  PROVE  /\ locks' \in [Keys -> Nat]
         /\ lease' \in [Ops -> [Keys -> Nat]]
         /\ lapsed' \subseteq Keys
BY DEF TypeOK, Release

LEMMA AdmitType ==
  ASSUME TypeOK, NEW o \in Ops, NEW req \in Requests, Admit(o, req)
  PROVE  TypeOK'
<1>1. req \in Seq(Command)
  BY ConstantsAssumption DEF ConstantsAssumption
<1>2. KeysOf(req) \subseteq Keys /\ Leases(req) \in [Keys -> Nat]
  BY LeasesType DEF TypeOK
<1>3. locks' \in [Keys -> Nat] /\ lapsed' \subseteq Keys
  BY <1>2 DEF TypeOK, Admit, Acquire
<1>4. lease' \in [Ops -> [Keys -> Nat]] /\ request' \in [Ops -> Seq(Command)]
  BY <1>1, <1>2 DEF TypeOK, Admit
<1>5. phase' \in [Ops -> Phases] /\ listener' \in ListenerStates
  BY DEF TypeOK, Admit, Launch, Phases, ListenerStates
<1>6. era' \in [Ops -> Nat]
  BY DEF TypeOK, Admit
<1> QED BY <1>3, <1>4, <1>5, <1>6 DEF TypeOK, Admit

LEMMA TypeStep == TypeOK /\ [Next]_vars => TypeOK'
<1> SUFFICES ASSUME TypeOK, [Next]_vars PROVE TypeOK'
  OBVIOUS
<1>1. CASE StartListening
  BY <1>1 DEF TypeOK, StartListening, ListenerStates, opVars
<1>2. CASE CheckContext
  BY <1>2 DEF TypeOK, CheckContext, ListenerStates, lockVars, opVars
<1>3. CASE ReceiveUnusable
  BY <1>3 DEF TypeOK, ReceiveUnusable, ListenerStates, lockVars, opVars
<1>4. CASE Panic
  BY <1>4 DEF TypeOK, Panic, ListenerStates, lockVars, opVars
<1>5. ASSUME NEW o \in Ops, NEW req \in Requests, Refuse(o, req) PROVE TypeOK'
  <2>1. req \in Seq(Command)
    BY ConstantsAssumption DEF ConstantsAssumption
  <2> QED BY <1>5, <2>1 DEF TypeOK, Refuse, ListenerStates, Phases, lockVars
<1>6. ASSUME NEW o \in Ops, NEW req \in Requests, Admit(o, req) PROVE TypeOK'
  BY <1>6, AdmitType
<1>7. ASSUME NEW o \in Ops, NEW delivered \in BOOLEAN, ReportRefusal(o, delivered)
      PROVE  TypeOK'
  <2>1. reports' \in [Ops -> Seq(Statuses)]
    <3>1. Append(reports[o], "failed") \in Seq(Statuses)
      BY DEF TypeOK, Statuses
    <3> QED BY <1>7, <3>1 DEF TypeOK, ReportRefusal
  <2> QED BY <1>7, <2>1 DEF TypeOK, ReportRefusal, ListenerStates, Phases, lockVars
<1>8. ASSUME NEW o \in Ops, NEW delivered \in BOOLEAN, ReportRunning(o, delivered)
      PROVE  TypeOK'
  <2>1. reports' \in [Ops -> Seq(Statuses)]
    <3>1. Append(reports[o], "running") \in Seq(Statuses)
      BY DEF TypeOK, Statuses
    <3> QED BY <1>8, <3>1 DEF TypeOK, ReportRunning
  <2>2. locks' \in [Keys -> Nat] /\ lapsed' \subseteq Keys
           /\ lease' \in [Ops -> [Keys -> Nat]]
    BY <1>8, ReleaseType DEF TypeOK, ReportRunning, lockVars
  <2>3. phase' \in [Ops -> Phases] /\ listener' \in ListenerStates
    BY <1>8 DEF TypeOK, ReportRunning, Launch, Phases, ListenerStates
  <2> QED BY <1>8, <2>1, <2>2, <2>3 DEF TypeOK, ReportRunning
<1>9. ASSUME NEW o \in Ops, NEW ok \in BOOLEAN, RunCommand(o, ok) PROVE TypeOK'
  BY <1>9 DEF TypeOK, RunCommand, Phases, lockVars
<1>10. ASSUME NEW o \in Ops, NEW delivered \in BOOLEAN, SendDone(o, delivered)
       PROVE  TypeOK'
  <2>1. reports' \in [Ops -> Seq(Statuses)]
    <3>1. outcome[o] \in Statuses
      BY DEF TypeOK, Statuses
    <3>2. Append(reports[o], outcome[o]) \in Seq(Statuses)
      BY <3>1 DEF TypeOK
    <3> QED BY <1>10, <3>2 DEF TypeOK, SendDone
  <2> QED BY <1>10, <2>1 DEF TypeOK, SendDone, Phases, lockVars
<1>11. ASSUME NEW o \in Ops, ReleaseLocks(o) PROVE TypeOK'
  <2>1. locks' \in [Keys -> Nat] /\ lapsed' \subseteq Keys
           /\ lease' \in [Ops -> [Keys -> Nat]]
    BY <1>11, ReleaseType DEF ReleaseLocks
  <2> QED BY <1>11, <2>1 DEF TypeOK, ReleaseLocks, Phases
<1>12. CASE Tick
  BY <1>12 DEF TypeOK, Tick, lockVars, opVars
<1>13. CASE Cancel
  BY <1>13 DEF TypeOK, Cancel, lockVars, opVars
<1>14. CASE UNCHANGED vars
  BY <1>14 DEF TypeOK, vars
<1> QED BY <1>1, <1>2, <1>3, <1>4, <1>5, <1>6, <1>7, <1>8, <1>9, <1>10, <1>11, <1>12,
           <1>13, <1>14 DEF Next, Listening, Executing

\* Every variable keeps its type.
THEOREM TypeCorrect == Spec => []TypeOK
  BY TypeInit, TypeStep, PTL DEF Spec

-----------------------------------------------------------------------------
(* The locks *)

\* No operation took its locks from a locker that is still to come.
ErasPast == \A o \in Ops : era[o] <= epoch

\* What an operation holds on a key that never lapsed is the table's entry.
HoldsItsEntry ==
  \A k \in Keys \ lapsed, o \in Ops : Holds(o, k) => locks[k] = lease[o][k]

\* MutualExclusion alone is not inductive: whether acquire may grant a key is
\* decided by the table, so the table has to agree with the operations.
LockInv ==
  /\ ErasPast
  /\ HoldsItsEntry
  /\ NoLeakedLock
  /\ MutualExclusion

LEMMA LockInit == Init => LockInv
  BY DEF Init, LockInv, ErasPast, HoldsItsEntry, NoLeakedLock, MutualExclusion, Holds, Holding

\* A step that leaves the locks alone and no operation in or out of Holding.
LEMMA LockUnaffected ==
  ASSUME TypeOK, LockInv, UNCHANGED <<locks, lapsed, lease, era, epoch>>,
         \A o \in Ops : phase'[o] \in Holding <=> phase[o] \in Holding
  PROVE  LockInv'
BY DEF TypeOK, LockInv, ErasPast, HoldsItsEntry, NoLeakedLock, MutualExclusion, Holds

\* An operation that took its locks gives them up.
LEMMA LockReleased ==
  ASSUME TypeOK, LockInv, UNCHANGED <<era, epoch>>, NEW o \in Ops,
         Release(o), phase[o] \in Holding,
         phase' = [phase EXCEPT ![o] = "closed"]
  PROVE  LockInv'
<1> USE DEF TypeOK, LockInv, Holding
<1>1. \A p \in Ops, k \in Keys : Holds(p, k)' <=> p # o /\ Holds(p, k)
  BY DEF Release, Holds
<1>2. \A p \in Ops : p # o => lease'[p] = lease[p]
  BY DEF Release
<1>3. \A k \in Keys : Holds(o, k) => locks'[k] = 0
  BY DEF Release, Holds
<1>4. \A k \in Keys : ~Holds(o, k) => locks'[k] = locks[k]
  BY DEF Release, Holds
<1>5. lapsed' = lapsed
  BY DEF Release
<1>6. ErasPast'
  BY DEF ErasPast
<1>7. MutualExclusion'
  BY <1>1, <1>5 DEF MutualExclusion
<1>8. HoldsItsEntry'
  BY <1>1, <1>2, <1>4, <1>5 DEF HoldsItsEntry, MutualExclusion
<1>9. NoLeakedLock'
  <2> SUFFICES ASSUME NEW k \in Keys, locks'[k] # 0
               PROVE  \E p \in Ops : Holds(p, k)' /\ lease'[p][k] = locks'[k]
    BY DEF NoLeakedLock
  <2>1. ~Holds(o, k) /\ locks'[k] = locks[k]
    BY <1>3, <1>4
  <2>2. PICK p \in Ops : Holds(p, k) /\ lease[p][k] = locks[k]
    BY <2>1 DEF NoLeakedLock
  <2> QED BY <1>1, <1>2, <2>1, <2>2
<1> QED BY <1>6, <1>7, <1>8, <1>9

\* A request whose keys are all free is granted them.
LEMMA LockGranted ==
  ASSUME TypeOK, LockInv, NEW o \in Ops, NEW req \in Requests, Admit(o, req)
  PROVE  LockInv'
<1>1. /\ now \in Nat /\ epoch \in Nat /\ locks \in [Keys -> Nat] /\ lapsed \subseteq Keys
      /\ phase \in [Ops -> Phases] /\ era \in [Ops -> Nat]
      /\ lease \in [Ops -> [Keys -> Nat]]
  BY DEF TypeOK
<1>2. /\ KeysOf(req) \subseteq Keys
      /\ \A k \in Keys : Leases(req)[k] # 0 <=> k \in KeysOf(req)
  BY <1>1, LeasesType
<1>3. /\ phase[o] = "unseen"
      /\ phase'[o] \in Holding
      /\ \A p \in Ops : p # o => phase'[p] = phase[p] /\ era'[p] = era[p]
                                 /\ lease'[p] = lease[p]
      /\ era'[o] = epoch /\ epoch' = epoch /\ lease'[o] = Leases(req)
  BY <1>1 DEF Admit, Launch, Holding
<1>4. \A k \in KeysOf(req) : locks'[k] = Leases(req)[k]
  BY <1>1, <1>2 DEF Admit, Acquire
<1>5. \A k \in Keys \ KeysOf(req) : locks'[k] = locks[k]
  BY <1>1 DEF Admit, Acquire
<1>6. /\ \A k \in Keys : Holds(o, k)' <=> k \in KeysOf(req)
      /\ \A p \in Ops, k \in Keys : p # o => (Holds(p, k)' <=> Holds(p, k))
      /\ \A k \in Keys : ~Holds(o, k)
  BY <1>2, <1>3 DEF Holds, Holding
<1>7. \A k \in Keys \ lapsed' : k \notin lapsed /\ (k \in KeysOf(req) => locks[k] = 0)
  <2>1. \A k \in KeysOf(req) : locks[k] \in Nat /\ ~(now < locks[k])
    BY <1>1, <1>2 DEF Admit, Busy
  <2>2. lapsed' = lapsed \cup {k \in KeysOf(req) : locks[k] # 0 /\ locks[k] <= now}
    BY DEF Admit, Acquire
  <2> QED BY <1>1, <2>1, <2>2
<1>8. \A k \in Keys \ lapsed' : k \in KeysOf(req) => \A p \in Ops : ~Holds(p, k)
  <2> SUFFICES ASSUME NEW k \in Keys, k \notin lapsed, locks[k] = 0, NEW p \in Ops, Holds(p, k)
               PROVE  FALSE
    BY <1>7
  <2>1. locks[k] = lease[p][k]
    BY DEF LockInv, HoldsItsEntry
  <2> QED BY <2>1 DEF Holds
<1>9. ErasPast'
  BY <1>1, <1>3 DEF LockInv, ErasPast
<1>10. MutualExclusion'
  <2> SUFFICES ASSUME NEW k \in Keys \ lapsed', NEW a \in Ops, NEW b \in Ops,
                      Holds(a, k)', Holds(b, k)'
               PROVE  a = b
    BY DEF MutualExclusion
  <2>1. CASE k \in KeysOf(req)
    BY <1>6, <1>8, <2>1
  <2>2. CASE k \notin KeysOf(req)
    <3>1. Holds(a, k) /\ Holds(b, k) /\ k \notin lapsed
      BY <1>6, <1>7, <2>2
    <3> QED BY <3>1 DEF LockInv, MutualExclusion
  <2> QED BY <2>1, <2>2
<1>11. HoldsItsEntry'
  <2> SUFFICES ASSUME NEW k \in Keys \ lapsed', NEW p \in Ops, Holds(p, k)'
               PROVE  locks'[k] = lease'[p][k]
    BY DEF HoldsItsEntry
  <2>1. CASE p = o
    BY <1>3, <1>4, <1>6, <2>1
  <2>2. CASE p # o
    <3>1. Holds(p, k) /\ k \notin lapsed /\ k \notin KeysOf(req)
      BY <1>6, <1>7, <1>8, <2>2
    <3>2. locks[k] = lease[p][k]
      BY <3>1 DEF LockInv, HoldsItsEntry
    <3> QED BY <1>3, <1>5, <2>2, <3>1, <3>2
  <2> QED BY <2>1, <2>2
<1>12. NoLeakedLock'
  <2> SUFFICES ASSUME NEW k \in Keys, locks'[k] # 0
               PROVE  \E p \in Ops : Holds(p, k)' /\ lease'[p][k] = locks'[k]
    BY DEF NoLeakedLock
  <2>1. CASE k \in KeysOf(req)
    BY <1>3, <1>4, <1>6, <2>1
  <2>2. CASE k \notin KeysOf(req)
    <3>1. PICK p \in Ops : Holds(p, k) /\ lease[p][k] = locks[k]
      BY <1>5, <2>2 DEF LockInv, NoLeakedLock
    <3> QED BY <1>3, <1>5, <1>6, <2>2, <3>1
  <2> QED BY <2>1, <2>2
<1> QED BY <1>9, <1>10, <1>11, <1>12 DEF LockInv

LEMMA LockStep == TypeOK /\ LockInv /\ [Next]_vars => LockInv'
<1> SUFFICES ASSUME TypeOK, LockInv, [Next]_vars PROVE LockInv'
  OBVIOUS
<1>1. CASE StartListening
  <2>1. \A o \in Ops, k \in Keys : ~Holds(o, k)'
    BY <1>1 DEF StartListening, opVars, Holds, LockInv, ErasPast, TypeOK
  <2>2. ErasPast'
    BY <1>1 DEF StartListening, opVars, LockInv, ErasPast, TypeOK
  <2>3. \A k \in Keys : locks'[k] = 0
    BY <1>1 DEF StartListening
  <2> QED BY <2>1, <2>2, <2>3 DEF LockInv, HoldsItsEntry, NoLeakedLock, MutualExclusion
<1>2. CASE CheckContext
  BY <1>2, LockUnaffected DEF CheckContext, lockVars, opVars
<1>3. CASE ReceiveUnusable
  BY <1>3, LockUnaffected DEF ReceiveUnusable, lockVars, opVars
<1>4. CASE Panic
  BY <1>4, LockUnaffected DEF Panic, lockVars, opVars
<1>5. ASSUME NEW o \in Ops, NEW req \in Requests, Refuse(o, req) PROVE LockInv'
  BY <1>5, LockUnaffected DEF Refuse, lockVars, TypeOK, Holding
<1>6. ASSUME NEW o \in Ops, NEW req \in Requests, Admit(o, req) PROVE LockInv'
  BY <1>6, LockGranted
<1>7. ASSUME NEW o \in Ops, NEW delivered \in BOOLEAN, ReportRefusal(o, delivered)
      PROVE  LockInv'
  BY <1>7, LockUnaffected DEF ReportRefusal, lockVars, TypeOK, Holding
<1>8. ASSUME NEW o \in Ops, NEW delivered \in BOOLEAN, ReportRunning(o, delivered)
      PROVE  LockInv'
  <2>1. CASE delivered
    BY <1>8, <2>1, LockUnaffected DEF ReportRunning, Launch, lockVars, TypeOK, Holding
  <2>2. CASE ~delivered
    BY <1>8, <2>2, LockReleased DEF ReportRunning, Holding
  <2> QED BY <2>1, <2>2
<1>9. ASSUME NEW o \in Ops, NEW ok \in BOOLEAN, RunCommand(o, ok) PROVE LockInv'
  BY <1>9, LockUnaffected DEF RunCommand, lockVars, TypeOK, Holding
<1>10. ASSUME NEW o \in Ops, NEW delivered \in BOOLEAN, SendDone(o, delivered)
       PROVE  LockInv'
  BY <1>10, LockUnaffected DEF SendDone, lockVars, TypeOK, Holding
<1>11. ASSUME NEW o \in Ops, ReleaseLocks(o) PROVE LockInv'
  BY <1>11, LockReleased DEF ReleaseLocks, Holding
<1>12. CASE Tick
  BY <1>12, LockUnaffected DEF Tick, lockVars, opVars
<1>13. CASE Cancel
  BY <1>13, LockUnaffected DEF Cancel, lockVars, opVars
<1>14. CASE UNCHANGED vars
  BY <1>14, LockUnaffected DEF vars
<1> QED BY <1>1, <1>2, <1>3, <1>4, <1>5, <1>6, <1>7, <1>8, <1>9, <1>10, <1>11, <1>12,
           <1>13, <1>14 DEF Next, Listening, Executing

THEOREM LocksAgree == Spec => []LockInv
  BY TypeCorrect, LockInit, LockStep, PTL DEF Spec

\* One operation at most holds a key that was never taken over after its expiry.
THEOREM Exclusion == Spec => []MutualExclusion
<1>1. LockInv => MutualExclusion
  BY DEF LockInv
<1> QED BY <1>1, LocksAgree, PTL

\* No path of the dispatcher leaks a lock.
THEOREM NoLeak == Spec => []NoLeakedLock
<1>1. LockInv => NoLeakedLock
  BY DEF LockInv
<1> QED BY <1>1, LocksAgree, PTL

-----------------------------------------------------------------------------
(* The life of a lock *)

\* An unexpired lock on a key that never lapsed goes only when its owner goes.
THEOREM OwnersRelease == Spec => OnlyOwnerReleases
<1> DEFINE OwnerGoes ==
      \A k \in Keys \ lapsed :
        epoch' = epoch /\ now < locks[k] /\ locks'[k] # locks[k] =>
          \E o \in Ops : Holds(o, k) /\ lease[o][k] = locks[k] /\ phase'[o] = "closed"
<1>1. TypeOK /\ LockInv /\ [Next]_vars => OwnerGoes
  <2> SUFFICES ASSUME TypeOK, LockInv, [Next]_vars,
                      NEW k \in Keys \ lapsed,
                      epoch' = epoch, now < locks[k], locks'[k] # locks[k]
               PROVE  \E o \in Ops : /\ Holds(o, k) /\ lease[o][k] = locks[k]
                                     /\ phase'[o] = "closed"
    OBVIOUS
  <2>1. ASSUME NEW o \in Ops, Release(o), phase[o] \in Holding,
               phase' = [phase EXCEPT ![o] = "closed"]
        PROVE  Holds(o, k) /\ lease[o][k] = locks[k] /\ phase'[o] = "closed"
    <3>1. era[o] = epoch /\ lease[o][k] # 0
      BY <2>1 DEF Release
    <3>2. Holds(o, k)
      BY <2>1, <3>1 DEF Holds
    <3> QED BY <2>1, <3>2 DEF LockInv, HoldsItsEntry, TypeOK
  <2>2. ASSUME NEW o \in Ops, NEW req \in Requests, Admit(o, req) PROVE FALSE
    <3>1. k \in KeysOf(req)
      BY <2>2 DEF Admit, Acquire
    <3> QED BY <2>2, <3>1 DEF Admit, Busy
  <2>3. ~StartListening
    BY DEF StartListening, TypeOK
  <2>4. ASSUME NEW o \in Ops, NEW delivered \in BOOLEAN, ReportRunning(o, delivered)
        PROVE  Release(o) /\ phase[o] \in Holding /\ phase' = [phase EXCEPT ![o] = "closed"]
    BY <2>4 DEF ReportRunning, lockVars, Holding
  <2>5. ASSUME NEW o \in Ops, ReleaseLocks(o)
        PROVE  Release(o) /\ phase[o] \in Holding /\ phase' = [phase EXCEPT ![o] = "closed"]
    BY <2>5 DEF ReleaseLocks, Holding
  <2>6. \/ \E o \in Ops, req \in Requests : Admit(o, req)
        \/ \E o \in Ops, delivered \in BOOLEAN : ReportRunning(o, delivered)
        \/ \E o \in Ops : ReleaseLocks(o)
    BY <2>3 DEF Next, Listening, Executing, CheckContext, ReceiveUnusable, Panic, Refuse,
                ReportRefusal, RunCommand, SendDone, Tick, Cancel, lockVars, vars
  <2> QED BY <2>1, <2>2, <2>4, <2>5, <2>6
<1>2. [][OwnerGoes]_vars <=> OnlyOwnerReleases
  BY DEF OnlyOwnerReleases
<1> HIDE DEF OwnerGoes
<1>3. TypeOK /\ LockInv /\ [Next]_vars => [OwnerGoes]_vars
  BY <1>1
<1> QED BY <1>2, <1>3, TypeCorrect, LocksAgree, PTL DEF Spec

-----------------------------------------------------------------------------
(* The reports *)

\* How far operation o is, in terms of what ran and what was reported.
Progress(o) ==
  LET announced == Announcement(request[o])
      complete == outcome[o] = "succeeded" => ran[o] = Len(request[o])
  IN  /\ phase[o] \in {"unseen", "refused", "locked"} =>
           reports[o] = <<>> /\ ran[o] = 0 /\ outcome[o] = "succeeded"
      /\ phase[o] = "locked" => IsLRORequest(request[o])
      /\ phase[o] = "executing" =>
           /\ reports[o] = announced
           /\ outcome[o] = "succeeded"
           /\ ran[o] < Len(request[o])
      /\ phase[o] = "reporting" => reports[o] = announced /\ complete
      /\ phase[o] = "releasing" =>
           reports[o] \in {announced, Append(announced, outcome[o])} /\ complete
      /\ phase[o] = "closed" =>
           \/ reports[o] \in {<<>>, <<"failed">>}
           \/ reports[o] \in {announced, Append(announced, outcome[o])} /\ complete

ReportInv == \A o \in Ops : Progress(o)

LEMMA ReportInit == Init => ReportInv
  BY DEF Init, ReportInv, Progress

\* An operation none of whose state changes stays where it is.
LEMMA ProgressUnaffected ==
  ASSUME NEW o \in Ops, Progress(o), phase'[o] = phase[o], request'[o] = request[o],
         ran'[o] = ran[o], outcome'[o] = outcome[o], reports'[o] = reports[o]
  PROVE  Progress(o)'
BY DEF Progress

LEMMA ReportStep == TypeOK /\ ReportInv /\ [Next]_vars => ReportInv'
<1> SUFFICES ASSUME TypeOK, ReportInv, [Next]_vars, NEW p \in Ops
             PROVE  Progress(p)'
  BY DEF ReportInv
<1> USE DEF TypeOK
<1>1. Progress(p)
  BY DEF ReportInv
<1>2. CASE UNCHANGED opVars
  BY <1>1, <1>2, ProgressUnaffected DEF opVars
<1>3. ASSUME NEW o \in Ops, NEW req \in Requests, Refuse(o, req) PROVE Progress(p)'
  <2>1. CASE p = o
    BY <1>1, <1>3, <2>1 DEF Progress, Refuse
  <2>2. CASE p # o
    BY <1>1, <1>3, <2>2, ProgressUnaffected DEF Refuse
  <2> QED BY <2>1, <2>2
<1>4. ASSUME NEW o \in Ops, NEW req \in Requests, Admit(o, req) PROVE Progress(p)'
  <2>1. req \in Seq(Command)
    BY ConstantsAssumption DEF ConstantsAssumption
  <2>2. CASE p = o
    <3>1. /\ reports'[p] = <<>> /\ ran'[p] = 0 /\ outcome'[p] = "succeeded"
          /\ request'[p] = req
      BY <1>1, <1>4, <2>2 DEF Progress, Admit
    <3>2. CASE IsLRORequest(req)
      <4>1. phase'[p] = "locked"
        BY <1>4, <2>2, <3>2 DEF Admit
      <4> QED BY <3>1, <3>2, <4>1 DEF Progress
    <3>3. CASE ~IsLRORequest(req)
      <4>1. phase'[p] = IF req = <<>> THEN "reporting" ELSE "executing"
        BY <1>4, <2>2, <3>3 DEF Admit, Launch
      <4>2. Announcement(req) = <<>>
        BY <3>3 DEF Announcement
      <4>3. req # <<>> => 0 < Len(req)
        BY <2>1
      <4>4. req = <<>> => Len(req) = 0
        OBVIOUS
      <4> QED BY <3>1, <4>1, <4>2, <4>3, <4>4 DEF Progress
    <3> QED BY <3>2, <3>3
  <2>3. CASE p # o
    BY <1>1, <1>4, <2>3, ProgressUnaffected DEF Admit, Launch
  <2> QED BY <2>2, <2>3
<1>5. ASSUME NEW o \in Ops, NEW delivered \in BOOLEAN, ReportRefusal(o, delivered)
      PROVE  Progress(p)'
  <2>1. CASE p = o
    <3>1. reports[o] = <<>> /\ phase'[o] = "closed"
      BY <1>1, <1>5, <2>1 DEF Progress, ReportRefusal
    <3>2. reports'[o] \in {<<>>, <<"failed">>}
      BY <1>5, <3>1 DEF ReportRefusal
    <3> QED BY <2>1, <3>1, <3>2 DEF Progress
  <2>2. CASE p # o
    BY <1>1, <1>5, <2>2, ProgressUnaffected DEF ReportRefusal
  <2> QED BY <2>1, <2>2
<1>6. ASSUME NEW o \in Ops, NEW delivered \in BOOLEAN, ReportRunning(o, delivered)
      PROVE  Progress(p)'
  <2>1. CASE p # o
    BY <1>1, <1>6, <2>1, ProgressUnaffected DEF ReportRunning, Launch
  <2>2. CASE p = o /\ ~delivered
    <3>1. reports'[p] = <<>> /\ phase'[p] = "closed"
      BY <1>1, <1>6, <2>2 DEF Progress, ReportRunning
    <3> QED BY <3>1 DEF Progress
  <2>3. CASE p = o /\ delivered
    <3>1. /\ reports[p] = <<>> /\ ran'[p] = 0 /\ outcome'[p] = "succeeded"
          /\ request'[p] = request[p]
          /\ phase'[p] = IF request[p] = <<>> THEN "reporting" ELSE "executing"
      BY <1>1, <1>6, <2>3 DEF Progress, ReportRunning, Launch
    <3>2. reports'[p] = <<"running">>
      BY <1>6, <2>3, <3>1 DEF ReportRunning
    <3>3. Announcement(request[p]) = <<"running">>
      BY <1>1, <1>6, <2>3 DEF Progress, ReportRunning, Announcement
    <3>4. /\ request[p] # <<>> => 0 < Len(request[p])
          /\ request[p] = <<>> => Len(request[p]) = 0
      OBVIOUS
    <3> QED BY <3>1, <3>2, <3>3, <3>4 DEF Progress
  <2> QED BY <2>1, <2>2, <2>3
<1>7. ASSUME NEW o \in Ops, NEW ok \in BOOLEAN, RunCommand(o, ok) PROVE Progress(p)'
  <2>1. CASE p = o
    <3>1. /\ reports[p] = Announcement(request[p])
          /\ ran[p] < Len(request[p]) /\ Len(request[p]) \in Nat
      BY <1>1, <1>7, <2>1 DEF Progress, RunCommand
    <3>2. /\ reports'[p] = reports[p] /\ request'[p] = request[p]
          /\ ran'[p] = ran[p] + 1
          /\ outcome'[p] = IF ok THEN "succeeded" ELSE "failed"
          /\ phase'[p] = IF ok /\ ran[p] + 1 < Len(request[p])
                           THEN "executing" ELSE "reporting"
      BY <1>7, <2>1 DEF RunCommand
    <3> QED BY <3>1, <3>2 DEF Progress
  <2>2. CASE p # o
    BY <1>1, <1>7, <2>2, ProgressUnaffected DEF RunCommand
  <2> QED BY <2>1, <2>2
<1>8. ASSUME NEW o \in Ops, NEW delivered \in BOOLEAN, SendDone(o, delivered)
      PROVE  Progress(p)'
  <2>1. CASE p = o
    <3>1. /\ reports[p] = Announcement(request[p])
          /\ outcome[p] = "succeeded" => ran[p] = Len(request[p])
      BY <1>1, <1>8, <2>1 DEF Progress, SendDone
    <3>2. /\ phase'[p] = "releasing" /\ outcome'[p] = outcome[p] /\ ran'[p] = ran[p]
          /\ request'[p] = request[p]
          /\ reports'[p] \in {reports[p], Append(reports[p], outcome[p])}
      BY <1>8, <2>1 DEF SendDone
    <3> QED BY <3>1, <3>2 DEF Progress
  <2>2. CASE p # o
    BY <1>1, <1>8, <2>2, ProgressUnaffected DEF SendDone
  <2> QED BY <2>1, <2>2
<1>9. ASSUME NEW o \in Ops, ReleaseLocks(o) PROVE Progress(p)'
  BY <1>1, <1>9, ProgressUnaffected DEF ReleaseLocks, Progress
<1> QED BY <1>2, <1>3, <1>4, <1>5, <1>6, <1>7, <1>8, <1>9
        DEF Next, Listening, Executing, StartListening, CheckContext, ReceiveUnusable,
            Panic, Tick, Cancel, vars, opVars

\* The service is told the truth about every operation, in order.
THEOREM Reports == Spec => []ReportsFollowExecution
<1>1. TypeOK /\ ReportInv => ReportsFollowExecution
  <2> SUFFICES ASSUME TypeOK, NEW o \in Ops, Progress(o)
               PROVE  /\ phase[o] \in {"unseen", "refused", "locked"} => reports[o] = <<>>
                      /\ phase[o] \in {"executing", "reporting"} =>
                           reports[o] = Announcement(request[o])
                      /\ phase[o] = "releasing" =>
                           reports[o] \in {Announcement(request[o]),
                                           Append(Announcement(request[o]), outcome[o])}
                      /\ phase[o] = "closed" =>
                           reports[o] \in {<<>>, <<"failed">>, Announcement(request[o]),
                                           Append(Announcement(request[o]), outcome[o])}
                      /\ reports[o] # <<>> /\ reports[o][Len(reports[o])] = "succeeded" =>
                           ran[o] = Len(request[o])
    BY DEF ReportInv, ReportsFollowExecution
  <2>1. Announcement(request[o]) \in {<<>>, <<"running">>}
    BY DEF Announcement
  <2>2. ASSUME reports[o] # <<>>, reports[o][Len(reports[o])] = "succeeded"
        PROVE  ran[o] = Len(request[o])
    <3>1. reports[o] \notin {<<>>, <<"failed">>, <<"running">>}
      BY <2>2
    <3>2. reports[o] = Append(Announcement(request[o]), outcome[o])
      BY <2>1, <3>1 DEF Progress, TypeOK, Phases
    <3>3. reports[o][Len(reports[o])] = outcome[o]
      BY <2>1, <3>2
    <3> QED BY <2>1, <2>2, <3>1, <3>3 DEF Progress, TypeOK, Phases
  <2> QED BY <2>2 DEF Progress
<1> QED BY <1>1, TypeCorrect, ReportInit, ReportStep, PTL DEF Spec

-----------------------------------------------------------------------------
(* Punctual operations *)

\* What the theorems of this part assume: a request has one command at most, and Start is
\* called once.
OneCommand == \A req \in Requests : Len(req) <= 1
OneStart == MaxRestarts = 0

\* A punctual operation is within its leases: they are the timeout of its command after the
\* last moment at which that command can have been started.
OnSchedule(o) ==
  phase[o] \in Holding =>
    /\ era[o] = epoch
    /\ request[o] \in Requests
    /\ \A k \in Keys : lease[o][k] # 0 =>
         /\ now < lease[o][k]
         /\ phase[o] = "locked" => lease[o][k] = now + LockTimeout(request[o][1])
         /\ phase[o] = "executing" => lease[o][k] = began[o] + LockTimeout(request[o][1])

\* No lock is ever taken over, since none expires under its holder.
PunctualInv ==
  /\ IF listener = "starting" THEN \A o \in Ops : phase[o] = "unseen" ELSE epoch > 0
  /\ lapsed = {}
  /\ \A o \in Ops : OnSchedule(o)

\* With one command the longest timeout is its own.
LEMMA LongestOfOne ==
  ASSUME OneCommand, NEW req \in Requests, NEW k \in KeysOf(req)
  PROVE  LongestTimeout(req, k) = LockTimeout(req[1])
<1>1. req \in Seq(Command) /\ Len(req) <= 1
  BY ConstantsAssumption DEF ConstantsAssumption, OneCommand
<1>2. \A i \in DOMAIN req : i = 1
  BY <1>1
<1>3. TimeoutsFor(req, k) \subseteq {LockTimeout(req[1])}
  BY <1>2 DEF TimeoutsFor
<1> QED BY <1>3, LongestTimeoutType

\* Nobody finds an expired lock to take over.
LEMMA NothingLapses ==
  ASSUME TypeOK, LockInv, PunctualInv, NEW k \in Keys, locks[k] # 0
  PROVE  now < locks[k]
<1>1. PICK o \in Ops : Holds(o, k) /\ lease[o][k] = locks[k]
  BY DEF LockInv, NoLeakedLock
<1> QED BY <1>1 DEF Holds, PunctualInv, OnSchedule

LEMMA PunctualInit == InitPunctual => PunctualInv
BY DEF InitPunctual, Init, PunctualInv, OnSchedule, Holding

\* An operation that takes no step stays on schedule as long as the clock stands.
LEMMA ScheduleUnaffected ==
  ASSUME NEW p \in Ops, OnSchedule(p), NextPunctual \/ UNCHANGED began,
         phase'[p] = phase[p], request'[p] = request[p], lease'[p] = lease[p],
         era'[p] = era[p], ran'[p] = ran[p], epoch' = epoch, now' = now
  PROVE  OnSchedule(p)'
<1>1. phase[p] = "executing" => began'[p] = began[p]
  BY DEF NextPunctual, StartsCommand
<1> QED BY <1>1 DEF OnSchedule

\* The clock moves only as far as every operation in its command allows.
LEMMA TickOnSchedule ==
  ASSUME TypeOK, ReportInv, OneCommand, NEW p \in Ops, OnSchedule(p), Tick, NextPunctual
  PROVE  OnSchedule(p)'
<1>1. /\ now' = now + 1 /\ now \in Nat
      /\ UNCHANGED <<phase, request, lease, era, ran, epoch>>
  BY DEF Tick, TypeOK, opVars
<1>2. OnTime(p)
  BY <1>1 DEF NextPunctual
<1>3. SUFFICES ASSUME phase[p] = "executing" PROVE OnSchedule(p)'
  BY <1>1, <1>2 DEF OnTime, OnSchedule
<1>4. began'[p] = began[p]
  BY <1>1, <1>3 DEF NextPunctual, StartsCommand
<1>5. request[p] \in Requests
  BY <1>3 DEF OnSchedule, Holding
<1>6. ran[p] = 0
  <2>1. ran[p] < Len(request[p]) /\ ran[p] \in Nat
    BY <1>3 DEF ReportInv, Progress, TypeOK
  <2>2. Len(request[p]) <= 1 /\ Len(request[p]) \in Nat
    BY <1>5, ConstantsAssumption DEF OneCommand, TypeOK
  <2> QED BY <2>1, <2>2
<1>7. now' < began[p] + LockTimeout(request[p][1])
  BY <1>1, <1>2, <1>3, <1>6 DEF OnTime, Holding
<1> QED BY <1>1, <1>3, <1>4, <1>7 DEF OnSchedule, Holding

\* What a request is granted ends one timeout of its command from now.
LEMMA GrantedOnSchedule ==
  ASSUME TypeOK, OneCommand, NextPunctual, NEW o \in Ops, NEW req \in Requests, Admit(o, req)
  PROVE  OnSchedule(o)'
<1>1. /\ now' = now /\ now \in Nat /\ epoch' = epoch
      /\ era'[o] = epoch /\ request'[o] = req /\ lease'[o] = Leases(req)
      /\ phase[o] = "unseen"
  BY DEF TypeOK, Admit
<1>2. phase'[o] = "executing" => began'[o] = now
  BY <1>1 DEF NextPunctual, StartsCommand
<1>3. ASSUME NEW k \in Keys, Leases(req)[k] # 0
      PROVE  /\ Leases(req)[k] = now + LockTimeout(req[1])
             /\ now < Leases(req)[k]
  <2>1. k \in KeysOf(req)
    BY <1>1, <1>3, LeasesType
  <2>2. Leases(req)[k] = now + LongestTimeout(req, k)
    BY <2>1 DEF Leases
  <2>3. LongestTimeout(req, k) = LockTimeout(req[1]) /\ LongestTimeout(req, k) \in 1 .. MaxDuration
    BY <2>1, LongestOfOne, LongestTimeoutType
  <2> QED BY <1>1, <2>2, <2>3, ConstantsAssumption DEF ConstantsAssumption
<1> QED BY <1>1, <1>2, <1>3 DEF OnSchedule

\* Nor does it lapse any lock.
LEMMA GrantedLapsesNone ==
  ASSUME TypeOK, LockInv, PunctualInv, NEW o \in Ops, NEW req \in Requests, Admit(o, req)
  PROVE  lapsed' = {}
<1>1. KeysOf(req) \subseteq Keys
  BY LeasesType DEF TypeOK
<1>2. ASSUME NEW k \in KeysOf(req) PROVE ~(locks[k] # 0 /\ locks[k] <= now)
  BY <1>1, NothingLapses DEF TypeOK
<1>3. lapsed' = lapsed \cup {k \in KeysOf(req) : locks[k] # 0 /\ locks[k] <= now}
  BY DEF Admit, Acquire
<1> QED BY <1>2, <1>3 DEF PunctualInv

\* "running" was sent: the command starts, and no time has passed since its lock was taken.
LEMMA AnnouncedOnSchedule ==
  ASSUME TypeOK, NEW o \in Ops, OnSchedule(o), NEW delivered \in BOOLEAN,
         ReportRunning(o, delivered), NextPunctual
  PROVE  OnSchedule(o)'
<1>1. phase[o] = "locked" /\ UNCHANGED <<now, epoch, request, era>>
  BY DEF ReportRunning
<1>2. CASE delivered
  <2>1. lease' = lease /\ phase'[o] \in {"reporting", "executing"}
    BY <1>2 DEF ReportRunning, Launch, TypeOK
  <2>2. phase'[o] = "executing" => began'[o] = now
    BY <1>1 DEF NextPunctual, StartsCommand
  <2> QED BY <1>1, <2>1, <2>2 DEF OnSchedule, Holding
<1>3. CASE ~delivered
  <2>1. phase'[o] = "closed"
    BY <1>3 DEF ReportRunning, TypeOK
  <2> QED BY <2>1 DEF OnSchedule, Holding
<1> QED BY <1>2, <1>3

\* The only command of a request is its last.
LEMMA CommandOnSchedule ==
  ASSUME TypeOK, ReportInv, OneCommand, NEW o \in Ops, OnSchedule(o), NEW ok \in BOOLEAN,
         RunCommand(o, ok)
  PROVE  OnSchedule(o)'
<1>1. phase[o] = "executing" /\ UNCHANGED <<now, epoch, request, era, lease>>
  BY DEF RunCommand, lockVars
<1>2. ran[o] \in Nat /\ Len(request[o]) <= 1 /\ Len(request[o]) \in Nat
  BY <1>1 DEF OnSchedule, Holding, OneCommand, TypeOK
<1>3. phase'[o] = "reporting"
  BY <1>2 DEF RunCommand, TypeOK
<1> QED BY <1>1, <1>3 DEF OnSchedule, Holding

LEMMA PunctualStep ==
  ASSUME TypeOK, LockInv, ReportInv, OneCommand, OneStart, PunctualInv,
         [NextPunctual]_<<vars, began>>
  PROVE  PunctualInv'
<1> USE DEF PunctualInv
<1>1. CASE UNCHANGED <<vars, began>>
  BY <1>1, ScheduleUnaffected DEF vars
<1>2. CASE StartListening
  <2>1. \A o \in Ops : phase'[o] = "unseen"
    BY <1>2 DEF StartListening, opVars
  <2>2. epoch' > 0
    BY <1>2 DEF StartListening, TypeOK
  <2> QED BY <1>2, <2>1, <2>2 DEF StartListening, OnSchedule, Holding
<1>3. ASSUME NextPunctual, CheckContext \/ ReceiveUnusable \/ Cancel PROVE PunctualInv'
  <2>1. /\ UNCHANGED <<now, epoch, lapsed, opVars>>
        /\ listener' = "starting" <=> listener = "starting"
    BY <1>3 DEF CheckContext, ReceiveUnusable, Cancel, lockVars
  <2> QED BY <1>3, <2>1, ScheduleUnaffected DEF opVars
<1>4. CASE Panic
  BY <1>4 DEF Panic, OneStart, TypeOK
<1>5. ASSUME NextPunctual, NEW o \in Ops, NEW req \in Requests, Refuse(o, req)
      PROVE  PunctualInv'
  <2>1. listener' # "starting" /\ epoch' > 0 /\ lapsed' = {}
    BY <1>5 DEF Refuse, lockVars
  <2>2. OnSchedule(o)'
    BY <1>5 DEF Refuse, TypeOK, OnSchedule, Holding
  <2>3. ASSUME NEW p \in Ops, p # o PROVE OnSchedule(p)'
    BY <1>5, <2>3, ScheduleUnaffected DEF Refuse, TypeOK
  <2> QED BY <2>1, <2>2, <2>3
<1>6. ASSUME NextPunctual, NEW o \in Ops, NEW req \in Requests, Admit(o, req)
      PROVE  PunctualInv'
  <2>1. listener' # "starting" /\ epoch' > 0
    BY <1>6 DEF Admit, Launch
  <2>2. lapsed' = {}
    BY <1>6, GrantedLapsesNone
  <2>3. OnSchedule(o)'
    BY <1>6, GrantedOnSchedule
  <2>4. ASSUME NEW p \in Ops, p # o PROVE OnSchedule(p)'
    BY <1>6, <2>4, ScheduleUnaffected DEF Admit, Launch, TypeOK
  <2> QED BY <2>1, <2>2, <2>3, <2>4
<1>7. ASSUME NextPunctual, NEW o \in Ops, NEW delivered \in BOOLEAN,
             ReportRefusal(o, delivered)
      PROVE  PunctualInv'
  <2>1. listener' # "starting" /\ epoch' > 0 /\ lapsed' = {}
    BY <1>7 DEF ReportRefusal, lockVars
  <2>2. OnSchedule(o)'
    BY <1>7 DEF ReportRefusal, TypeOK, OnSchedule, Holding
  <2>3. ASSUME NEW p \in Ops, p # o PROVE OnSchedule(p)'
    BY <1>7, <2>3, ScheduleUnaffected DEF ReportRefusal, TypeOK
  <2> QED BY <2>1, <2>2, <2>3
<1>8. ASSUME NextPunctual, NEW o \in Ops, NEW delivered \in BOOLEAN,
             ReportRunning(o, delivered)
      PROVE  PunctualInv'
  <2>1. listener' # "starting" /\ epoch' > 0 /\ lapsed' = {}
    BY <1>8 DEF ReportRunning, Launch, Release, lockVars
  <2>2. OnSchedule(o)'
    BY <1>8, AnnouncedOnSchedule
  <2>3. ASSUME NEW p \in Ops, p # o PROVE OnSchedule(p)'
    <3>1. lease'[p] = lease[p]
      BY <1>8, <2>3 DEF ReportRunning, Release, TypeOK
    <3> QED BY <1>8, <2>3, <3>1, ScheduleUnaffected DEF ReportRunning, Launch, TypeOK
  <2> QED BY <2>1, <2>2, <2>3
<1>9. ASSUME NextPunctual, NEW o \in Ops, NEW ok \in BOOLEAN, RunCommand(o, ok)
      PROVE  PunctualInv'
  <2>1. UNCHANGED <<listener, epoch, lapsed>> /\ phase[o] # "unseen"
    BY <1>9 DEF RunCommand, lockVars
  <2>2. OnSchedule(o)'
    BY <1>9, CommandOnSchedule
  <2>3. ASSUME NEW p \in Ops, p # o PROVE OnSchedule(p)'
    BY <1>9, <2>3, ScheduleUnaffected DEF RunCommand, TypeOK
  <2> QED BY <2>1, <2>2, <2>3
<1>10. ASSUME NextPunctual, NEW o \in Ops, NEW delivered \in BOOLEAN, SendDone(o, delivered)
       PROVE  PunctualInv'
  <2>1. UNCHANGED <<listener, epoch, lapsed>> /\ phase[o] # "unseen"
    BY <1>10 DEF SendDone, lockVars
  <2>2. OnSchedule(o)'
    BY <1>10 DEF SendDone, TypeOK, OnSchedule, Holding
  <2>3. ASSUME NEW p \in Ops, p # o PROVE OnSchedule(p)'
    BY <1>10, <2>3, ScheduleUnaffected DEF SendDone, TypeOK
  <2> QED BY <2>1, <2>2, <2>3
<1>11. ASSUME NextPunctual, NEW o \in Ops, ReleaseLocks(o) PROVE PunctualInv'
  <2>1. UNCHANGED <<listener, epoch, lapsed>> /\ phase[o] # "unseen"
    BY <1>11 DEF ReleaseLocks, Release
  <2>2. OnSchedule(o)'
    BY <1>11 DEF ReleaseLocks, TypeOK, OnSchedule, Holding
  <2>3. ASSUME NEW p \in Ops, p # o PROVE OnSchedule(p)'
    BY <1>11, <2>3, ScheduleUnaffected DEF ReleaseLocks, Release, TypeOK
  <2> QED BY <2>1, <2>2, <2>3
<1>12. ASSUME NextPunctual, Tick PROVE PunctualInv'
  <2>1. UNCHANGED <<listener, epoch, lapsed, phase>>
    BY <1>12 DEF Tick, lockVars, opVars
  <2>2. \A p \in Ops : OnSchedule(p)'
    BY <1>12, TickOnSchedule
  <2> QED BY <2>1, <2>2
<1>13. NextPunctual => Next
  BY DEF NextPunctual
<1> QED BY <1>1, <1>2, <1>3, <1>4, <1>5, <1>6, <1>7, <1>8, <1>9, <1>10, <1>11, <1>12, <1>13
        DEF Next, Listening, Executing

\* A punctual behaviour is one of the dispatcher.
LEMMA PunctualIsGuestActions == SpecPunctual => Spec
<1>1. InitPunctual => Init
  BY DEF InitPunctual
<1>2. [NextPunctual]_<<vars, began>> => [Next]_vars
  BY DEF NextPunctual
<1> QED BY <1>1, <1>2, PTL DEF SpecPunctual, Spec

\* Where commands keep to their timeouts every holder is within its leases, and no lock is
\* taken over.
THEOREM PunctualOperations ==
  ASSUME OneCommand, OneStart
  PROVE  SpecPunctual => [](TypeOK /\ LockInv /\ ReportInv /\ PunctualInv)
<1>1. SpecPunctual => [](TypeOK /\ LockInv /\ ReportInv)
  BY PunctualIsGuestActions, TypeCorrect, LocksAgree, ReportInit, ReportStep, PTL DEF Spec
<1>2. TypeOK /\ LockInv /\ ReportInv /\ PunctualInv /\ [NextPunctual]_<<vars, began>>
        => PunctualInv'
  BY PunctualStep
<1> QED BY <1>1, <1>2, PunctualInit, PTL DEF SpecPunctual

\* Punctual operations that hold unexpired locks on a key are one operation: here the promise
\* of Options.CommandConcurrencyKey is kept.
THEOREM PunctualExclusion ==
  ASSUME OneCommand, OneStart
  PROVE  SpecPunctual => []UnexpiredLocksExclude
<1>1. LockInv /\ PunctualInv => UnexpiredLocksExclude
  BY DEF LockInv, MutualExclusion, PunctualInv, UnexpiredLocksExclude
<1> QED BY <1>1, PunctualOperations, PTL

-----------------------------------------------------------------------------
(* Punctual operations use their keys exclusively *)

\* What ExclusiveOperations sees of an operation.
StageOf(o) == CASE phase[o] \in Holding -> "active"
                [] phase[o] = "closed" -> "ended"
                [] OTHER -> "idle"
UsesOf(o) == IF phase[o] \in Holding THEN {k \in Keys : lease[o][k] # 0} ELSE {}
ToldOf(o) == IF reports[o] = <<>> THEN "nothing" ELSE reports[o][Len(reports[o])]

Stages == [o \in Ops |-> StageOf(o)]
UsesNow == [o \in Ops |-> UsesOf(o)]
Told == [o \in Ops |-> ToldOf(o)]

LEMMA AccessInit ==
  Access!Init <=> /\ Stages = [o \in Ops |-> "idle"]
                  /\ UsesNow = [o \in Ops |-> {}]
                  /\ Told = [o \in Ops |-> "nothing"]
BY DEF Access!Init, Stages, UsesNow, Told, StageOf, UsesOf, ToldOf

\* The abstract actions, in these terms.
LEMMA AccessBegin ==
  ASSUME NEW o \in Ops
  PROVE  Access!Begin(o) <=>
           /\ Stages[o] = "idle"
           /\ Stages' = [Stages EXCEPT ![o] = "active"]
           /\ \E K \in SUBSET Keys : /\ \A p \in Ops : UsesNow[p] \cap K = {}
                                     /\ UsesNow' = [UsesNow EXCEPT ![o] = K]
           /\ Told' = Told
BY DEF Access!Begin, Stages, UsesNow, Told, StageOf, UsesOf, ToldOf

LEMMA AccessAnnounce ==
  ASSUME NEW o \in Ops
  PROVE  Access!Announce(o) <=>
           /\ Stages[o] = "active"
           /\ Told[o] = "nothing"
           /\ Told' = [Told EXCEPT ![o] = "running"]
           /\ Stages' = Stages /\ UsesNow' = UsesNow
BY DEF Access!Announce, Stages, UsesNow, Told, StageOf, UsesOf, ToldOf

LEMMA AccessConclude ==
  ASSUME NEW o \in Ops
  PROVE  Access!Conclude(o) <=>
           /\ Stages[o] = "active"
           /\ Told[o] \in {"nothing", "running"}
           /\ \E verdict \in {"succeeded", "failed"} : Told' = [Told EXCEPT ![o] = verdict]
           /\ Stages' = Stages /\ UsesNow' = UsesNow
BY DEF Access!Conclude, Stages, UsesNow, Told, StageOf, UsesOf, ToldOf

LEMMA AccessEnd ==
  ASSUME NEW o \in Ops
  PROVE  Access!End(o) <=>
           /\ Stages[o] = "active"
           /\ Stages' = [Stages EXCEPT ![o] = "ended"]
           /\ UsesNow' = [UsesNow EXCEPT ![o] = {}]
           /\ Told' = Told
BY DEF Access!End, Stages, UsesNow, Told, StageOf, UsesOf, ToldOf

LEMMA AccessTurnAway ==
  ASSUME NEW o \in Ops
  PROVE  Access!TurnAway(o) <=>
           /\ Stages[o] = "idle"
           /\ Stages' = [Stages EXCEPT ![o] = "ended"]
           /\ Told' \in {Told, [Told EXCEPT ![o] = "failed"]}
           /\ UsesNow' = UsesNow
BY DEF Access!TurnAway, Stages, UsesNow, Told, StageOf, UsesOf, ToldOf

\* A step of operation o alone changes what is seen of o alone.
LEMMA OnlyStageOf ==
  ASSUME NEW o \in Ops, NEW s, StageOf(o)' = s, \A p \in Ops : p # o => phase'[p] = phase[p]
  PROVE  Stages' = [Stages EXCEPT ![o] = s]
<1>1. \A p \in Ops : p # o => StageOf(p)' = StageOf(p)
  BY DEF StageOf
<1>2. Stages' = [p \in Ops |-> StageOf(p)']
  BY DEF Stages
<1> QED BY <1>1, <1>2 DEF Stages

LEMMA OnlyUsesOf ==
  ASSUME NEW o \in Ops, NEW K, UsesOf(o)' = K,
         \A p \in Ops : p # o => phase'[p] = phase[p] /\ lease'[p] = lease[p]
  PROVE  UsesNow' = [UsesNow EXCEPT ![o] = K]
<1>1. \A p \in Ops : p # o => UsesOf(p)' = UsesOf(p)
  BY DEF UsesOf
<1>2. UsesNow' = [p \in Ops |-> UsesOf(p)']
  BY DEF UsesNow
<1> QED BY <1>1, <1>2 DEF UsesNow

LEMMA OnlyToldOf ==
  ASSUME NEW o \in Ops, NEW t, ToldOf(o)' = t, \A p \in Ops : p # o => reports'[p] = reports[p]
  PROVE  Told' = [Told EXCEPT ![o] = t]
<1>1. \A p \in Ops : p # o => ToldOf(p)' = ToldOf(p)
  BY DEF ToldOf
<1>2. Told' = [p \in Ops |-> ToldOf(p)']
  BY DEF Told
<1> QED BY <1>1, <1>2 DEF Told

\* A step in which nothing is seen of any operation.
LEMMA NothingSeen ==
  ASSUME \A p \in Ops : /\ StageOf(p)' = StageOf(p)
                        /\ UsesOf(p)' = UsesOf(p)
                        /\ ToldOf(p)' = ToldOf(p)
  PROVE  UNCHANGED Access!vars
<1>1. /\ Stages' = [p \in Ops |-> StageOf(p)']
      /\ UsesNow' = [p \in Ops |-> UsesOf(p)']
      /\ Told' = [p \in Ops |-> ToldOf(p)']
  BY DEF Stages, UsesNow, Told
<1>2. Stages' = Stages /\ UsesNow' = UsesNow /\ Told' = Told
  BY <1>1 DEF Stages, UsesNow, Told
<1> QED BY <1>2 DEF Access!vars, Stages, UsesNow, Told, StageOf, UsesOf, ToldOf

\* An operation that keeps its locks is seen to go on.
LEMMA StaysActive ==
  ASSUME NEW o \in Ops, phase[o] \in Holding, phase'[o] \in Holding, lease' = lease,
         \A p \in Ops : p # o => phase'[p] = phase[p]
  PROVE  /\ \A p \in Ops : StageOf(p)' = StageOf(p) /\ UsesOf(p)' = UsesOf(p)
         /\ Stages' = Stages /\ UsesNow' = UsesNow
<1>1. StageOf(o)' = "active" /\ StageOf(o) = "active"
  BY DEF StageOf, Holding
<1>2. UsesOf(o)' = UsesOf(o)
  BY DEF UsesOf
<1>3. \A p \in Ops : p # o => StageOf(p)' = StageOf(p) /\ UsesOf(p)' = UsesOf(p)
  BY DEF StageOf, UsesOf
<1>4. Stages' = [p \in Ops |-> StageOf(p)'] /\ UsesNow' = [p \in Ops |-> UsesOf(p)']
  BY DEF Stages, UsesNow
<1> QED BY <1>1, <1>2, <1>3, <1>4 DEF Stages, UsesNow

\* What was reported last, as the service sees it.
LEMMA ToldLast ==
  ASSUME TypeOK, NEW o \in Ops, NEW status \in Statuses,
         reports' = [reports EXCEPT ![o] = Append(@, status)]
  PROVE  Told' = [Told EXCEPT ![o] = status]
<1>1. reports[o] \in Seq(Statuses)
  BY DEF TypeOK
<1>2. reports'[o] = Append(reports[o], status)
  BY DEF TypeOK
<1>3. reports'[o] # <<>> /\ reports'[o][Len(reports'[o])] = status
  BY <1>1, <1>2
<1>4. ToldOf(o)' = status
  BY <1>3 DEF ToldOf
<1> QED BY <1>4, OnlyToldOf DEF TypeOK

\* acquire grants a punctual request keys that nobody uses.
LEMMA GrantIsBegin ==
  ASSUME TypeOK, LockInv, PunctualInv, NEW o \in Ops, NEW req \in Requests, Admit(o, req)
  PROVE  Access!Begin(o)
<1>1. /\ phase[o] = "unseen" /\ phase'[o] \in Holding /\ reports' = reports
      /\ lease'[o] = Leases(req)
      /\ \A p \in Ops : p # o => phase'[p] = phase[p] /\ lease'[p] = lease[p]
  BY DEF TypeOK, Admit, Launch, Holding
<1>2. Stages[o] = "idle" /\ StageOf(o)' = "active"
  BY <1>1 DEF Stages, StageOf, Holding
<1>3. KeysOf(req) \in SUBSET Keys /\ \A k \in Keys : Leases(req)[k] # 0 <=> k \in KeysOf(req)
  BY LeasesType DEF TypeOK
<1>4. UsesOf(o)' = KeysOf(req)
  BY <1>1, <1>3 DEF UsesOf
<1>5. ASSUME NEW p \in Ops, NEW k \in UsesNow[p], k \in KeysOf(req) PROVE FALSE
  <2>1. k \in Keys /\ phase[p] \in Holding /\ lease[p][k] # 0
    BY <1>5 DEF UsesNow, UsesOf
  <2>2. era[p] = epoch /\ now < lease[p][k] /\ lapsed = {}
    BY <2>1 DEF PunctualInv, OnSchedule
  <2>3. locks[k] = lease[p][k]
    BY <2>1, <2>2 DEF LockInv, HoldsItsEntry, Holds
  <2> QED BY <1>5, <2>2, <2>3 DEF Admit, Busy
<1>6. \A p \in Ops : UsesNow[p] \cap KeysOf(req) = {}
  BY <1>5
<1>7. Told' = Told
  BY <1>1 DEF Told, ToldOf
<1>8. UsesNow' = [UsesNow EXCEPT ![o] = KeysOf(req)]
  BY <1>1, <1>4, OnlyUsesOf
<1>9. Stages' = [Stages EXCEPT ![o] = "active"]
  BY <1>1, <1>2, OnlyStageOf
<1> QED BY <1>2, <1>3, <1>6, <1>7, <1>8, <1>9, AccessBegin

\* An operation that gives its locks back is seen to end.
LEMMA ReleaseIsEnd ==
  ASSUME TypeOK, NEW o \in Ops, phase[o] \in Holding, Release(o), reports' = reports,
         phase' = [phase EXCEPT ![o] = "closed"]
  PROVE  Access!End(o)
<1>1. /\ phase'[o] = "closed"
      /\ \A p \in Ops : p # o => phase'[p] = phase[p] /\ lease'[p] = lease[p]
  BY DEF TypeOK, Release
<1>2. Stages[o] = "active" /\ StageOf(o)' = "ended" /\ UsesOf(o)' = {}
  BY <1>1 DEF Stages, StageOf, UsesOf, Holding
<1>3. Told' = Told
  BY DEF Told, ToldOf
<1>4. Stages' = [Stages EXCEPT ![o] = "ended"]
  BY <1>1, <1>2, OnlyStageOf
<1>5. UsesNow' = [UsesNow EXCEPT ![o] = {}]
  BY <1>1, <1>2, OnlyUsesOf
<1> QED BY <1>2, <1>3, <1>4, <1>5, AccessEnd

\* Every step of a punctual dispatcher is one of the exclusive use of keys, or is not seen.
LEMMA AccessStep ==
  ASSUME TypeOK, LockInv, ReportInv, PunctualInv, [Next]_vars
  PROVE  [Access!Next]_(Access!vars)
<1>1. CASE UNCHANGED <<phase, lease, reports>>
  BY <1>1, NothingSeen DEF StageOf, UsesOf, ToldOf
<1>2. ASSUME NEW o \in Ops, NEW req \in Requests, Refuse(o, req) PROVE UNCHANGED Access!vars
  <2>1. /\ phase[o] = "unseen" /\ phase'[o] = "refused"
        /\ \A p \in Ops : p # o => phase'[p] = phase[p]
        /\ UNCHANGED <<lease, reports>>
    BY <1>2 DEF Refuse, TypeOK
  <2>2. /\ StageOf(o)' = StageOf(o) /\ UsesOf(o)' = UsesOf(o)
    BY <2>1 DEF StageOf, UsesOf, Holding
  <2>3. \A p \in Ops : p # o => StageOf(p)' = StageOf(p) /\ UsesOf(p)' = UsesOf(p)
    BY <2>1 DEF StageOf, UsesOf
  <2> QED BY <2>1, <2>2, <2>3, NothingSeen DEF ToldOf
<1>3. ASSUME NEW o \in Ops, NEW req \in Requests, Admit(o, req) PROVE Access!Next
  BY <1>3, GrantIsBegin DEF Access!Next
<1>4. ASSUME NEW o \in Ops, NEW delivered \in BOOLEAN, ReportRefusal(o, delivered)
      PROVE  Access!Next
  <2>1. /\ phase[o] = "refused" /\ phase'[o] = "closed" /\ lease' = lease
        /\ \A p \in Ops : p # o => phase'[p] = phase[p]
    BY <1>4 DEF ReportRefusal, TypeOK
  <2>2. Stages[o] = "idle" /\ StageOf(o)' = "ended"
    BY <2>1 DEF Stages, StageOf, Holding
  <2>3. Stages' = [Stages EXCEPT ![o] = "ended"]
    BY <2>1, <2>2, OnlyStageOf
  <2>4. UsesNow' = UsesNow
    <3>1. UsesOf(o)' = {} /\ UsesNow[o] = {}
      BY <2>1 DEF UsesOf, UsesNow, Holding
    <3>2. UsesNow' = [UsesNow EXCEPT ![o] = {}]
      BY <2>1, <3>1, OnlyUsesOf
    <3> QED BY <3>1, <3>2 DEF UsesNow
  <2>5. Told' \in {Told, [Told EXCEPT ![o] = "failed"]}
    <3>1. CASE delivered
      BY <1>4, <3>1, ToldLast DEF ReportRefusal, Statuses
    <3>2. CASE ~delivered
      BY <1>4, <3>2 DEF ReportRefusal, Told, ToldOf
    <3> QED BY <3>1, <3>2
  <2>6. Access!TurnAway(o)
    BY <2>2, <2>3, <2>4, <2>5, AccessTurnAway
  <2> QED BY <2>6 DEF Access!Next
<1>5. ASSUME NEW o \in Ops, NEW delivered \in BOOLEAN, ReportRunning(o, delivered)
      PROVE  Access!Next
  <2>1. phase[o] = "locked" /\ phase[o] \in Holding
    BY <1>5 DEF ReportRunning, Holding
  <2>2. CASE delivered
    <3>1. /\ phase'[o] \in Holding /\ lease' = lease
          /\ \A p \in Ops : p # o => phase'[p] = phase[p]
          /\ reports' = [reports EXCEPT ![o] = Append(@, "running")]
      BY <1>5, <2>2 DEF ReportRunning, Launch, Holding, TypeOK
    <3>2. Stages' = Stages /\ UsesNow' = UsesNow
      BY <2>1, <3>1, StaysActive
    <3>3. Stages[o] = "active"
      BY <2>1 DEF Stages, StageOf
    <3>4. Told[o] = "nothing"
      BY <2>1 DEF Told, ToldOf, ReportInv, Progress
    <3>5. Told' = [Told EXCEPT ![o] = "running"]
      BY <3>1, ToldLast DEF Statuses
    <3>6. Access!Announce(o)
      BY <3>2, <3>3, <3>4, <3>5, AccessAnnounce
    <3> QED BY <3>6 DEF Access!Next
  <2>3. CASE ~delivered
    <3>1. Release(o) /\ phase' = [phase EXCEPT ![o] = "closed"] /\ reports' = reports
      BY <1>5, <2>3 DEF ReportRunning
    <3> QED BY <2>1, <3>1, ReleaseIsEnd DEF Access!Next
  <2> QED BY <2>2, <2>3
<1>6. ASSUME NEW o \in Ops, NEW ok \in BOOLEAN, RunCommand(o, ok) PROVE UNCHANGED Access!vars
  <2>1. /\ phase[o] \in Holding /\ phase'[o] \in Holding
        /\ \A p \in Ops : p # o => phase'[p] = phase[p]
        /\ UNCHANGED <<lease, reports>>
    BY <1>6 DEF RunCommand, Holding, TypeOK
  <2> QED BY <2>1, StaysActive, NothingSeen DEF ToldOf
<1>7. ASSUME NEW o \in Ops, NEW delivered \in BOOLEAN, SendDone(o, delivered)
      PROVE  Access!Next \/ UNCHANGED Access!vars
  <2>1. /\ phase[o] = "reporting" /\ phase[o] \in Holding /\ phase'[o] \in Holding
        /\ \A p \in Ops : p # o => phase'[p] = phase[p]
        /\ lease' = lease
    BY <1>7 DEF SendDone, Holding, TypeOK, lockVars
  <2>2. /\ \A p \in Ops : StageOf(p)' = StageOf(p) /\ UsesOf(p)' = UsesOf(p)
        /\ Stages' = Stages /\ UsesNow' = UsesNow
    BY <2>1, StaysActive
  <2>3. CASE delivered
    <3>1. Stages[o] = "active"
      BY <2>1 DEF Stages, StageOf
    <3>2. Told[o] \in {"nothing", "running"}
      <4>1. reports[o] \in {<<>>, <<"running">>}
        BY <2>1 DEF ReportInv, Progress, Announcement
      <4> QED BY <4>1 DEF Told, ToldOf
    <3>3. outcome[o] \in {"succeeded", "failed"} /\ outcome[o] \in Statuses
      BY DEF TypeOK, Statuses
    <3>4. Told' = [Told EXCEPT ![o] = outcome[o]]
      BY <1>7, <2>3, <3>3, ToldLast DEF SendDone
    <3>5. Access!Conclude(o)
      BY <2>2, <3>1, <3>2, <3>3, <3>4, AccessConclude
    <3> QED BY <3>5 DEF Access!Next
  <2>4. CASE ~delivered
    <3>1. reports' = reports
      BY <1>7, <2>4 DEF SendDone
    <3> QED BY <2>2, <3>1, NothingSeen DEF ToldOf
  <2> QED BY <2>3, <2>4
<1>8. ASSUME NEW o \in Ops, ReleaseLocks(o) PROVE Access!Next
  <2>1. phase[o] \in Holding
    BY <1>8 DEF ReleaseLocks, Holding
  <2> QED BY <1>8, <2>1, ReleaseIsEnd DEF ReleaseLocks, Access!Next
<1> QED BY <1>1, <1>2, <1>3, <1>4, <1>5, <1>6, <1>7, <1>8
        DEF Next, Listening, Executing, StartListening, CheckContext, ReceiveUnusable,
            Panic, Tick, Cancel, vars, opVars

\* In a punctual environment the dispatcher is an exclusive use of the keys: whoever asks for
\* a key either has it alone until it ends or is turned away.
THEOREM PunctualImplements ==
  ASSUME OneCommand, OneStart
  PROVE  SpecPunctual => ImplementsExclusiveOperations
<1>1. Init => Access!Init
  BY AccessInit DEF Init, Stages, UsesNow, Told, StageOf, UsesOf, ToldOf, Holding
<1>2. TypeOK /\ LockInv /\ ReportInv /\ PunctualInv /\ [Next]_vars
        => [Access!Next]_(Access!vars)
  BY AccessStep
<1> QED BY <1>1, <1>2, PunctualOperations, PunctualIsGuestActions, PTL
        DEF Spec, ImplementsExclusiveOperations, Access!Spec
=============================================================================
