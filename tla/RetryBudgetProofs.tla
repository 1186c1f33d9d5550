------------------------- MODULE RetryBudgetProofs --------------------------
(***************************************************************************)
(* Theorems about RetryBudget: for any set of goroutines, any MaxRetries   *)
(* and any number of transfers.                                            *)
(***************************************************************************)
EXTENDS RetryBudget, TLAPS

USE RetryAssumption DEF RetryAssumption

-----------------------------------------------------------------------------
LEMMA TypeInit == Init => TypeOK
BY DEF Init, TypeOK, Ready

LEMMA TypeStep == TypeOK /\ [Next]_vars => TypeOK'
<1> SUFFICES ASSUME TypeOK, [Next]_vars PROVE TypeOK'
  OBVIOUS
<1> USE DEF TypeOK
<1>1. CASE Transferring
  <2>1. CASE BeginWithDefaults \/ BeginDownload
    <3>1. PICK t \in SUBSET Callers : Begin(t)
      BY <2>1 DEF BeginWithDefaults, BeginDownload, Ready
    <3>2. alone' \in BOOLEAN
      BY <3>1, Zenon DEF Begin
    <3>3. team' \subseteq Callers
      BY <3>1 DEF Begin
    <3> QED BY <2>1, <3>2, <3>3 DEF BeginWithDefaults, BeginDownload
  <2>2. CASE DefaultArgs \/ FinishTransfer
    BY <2>2 DEF DefaultArgs, FinishTransfer
  <2> QED BY <1>1, <2>1, <2>2 DEF Transferring
<1>2. ASSUME NEW c \in Callers, StartCall(c) PROVE TypeOK'
  BY <1>2 DEF StartCall
<1>3. ASSUME NEW c \in Callers, NEW notFound \in BOOLEAN, AttemptEnds(c, notFound)
      PROVE  TypeOK'
  BY <1>3 DEF AttemptEnds, EndCall
<1>4. ASSUME NEW c \in Callers, AttemptFails(c) PROVE TypeOK'
  <2>1. failures[c] <= MaxRetries + 1 => failures[c] + 1 \in 0 .. MaxRetries + 2
    OBVIOUS
  <2> QED BY <1>4, <2>1 DEF AttemptFails
<1>5. ASSUME NEW c \in Callers, StoreCount(c) PROVE TypeOK'
  BY <1>5 DEF StoreCount
<1>6. ASSUME NEW c \in Callers, CompareCount(c) PROVE TypeOK'
  BY <1>6 DEF CompareCount, EndCall
<1>7. ASSUME NEW c \in Callers, Abandon(c) PROVE TypeOK'
  BY <1>7 DEF Abandon
<1>8. CASE UNCHANGED vars
  BY <1>8 DEF vars
<1> QED BY <1>1, <1>2, <1>3, <1>4, <1>5, <1>6, <1>7, <1>8 DEF Next, Calling

\* Every variable keeps its type.
THEOREM TypeCorrect == Spec => []TypeOK
BY TypeInit, TypeStep, PTL DEF Spec

-----------------------------------------------------------------------------
(* A goroutine that has the ReadWriter to itself *)

\* How the count of a call relates to the shared counter, at each place of the call.
\* In "opening" the counter may start above the count, and above MaxRetries.
CountAgrees(c) ==
  /\ place[c] = "ready" /\ transfer = "moving" => numRetries = 0
  /\ place[c] = "trying" =>
       /\ failures[c] <= numRetries
       /\ failures[c] > 0 => numRetries <= MaxRetries
       /\ transfer = "moving" => numRetries = failures[c]
  /\ place[c] = "loaded" =>
       /\ loaded[c] = numRetries
       /\ failures[c] <= numRetries + 1
       /\ transfer = "moving" => failures[c] = numRetries + 1
  /\ place[c] = "stored" =>
       /\ numRetries = loaded[c] + 1
       /\ failures[c] <= numRetries
       /\ transfer = "moving" => numRetries = failures[c]

\* Neither bound is inductive: they hold because the counter belongs to one call at a
\* time, the one of the only goroutine of the transfer in progress.
BudgetInv ==
  alone =>
    /\ \A c, d \in team : c = d
    /\ \A c \in Callers : place[c] # "ready" => c \in team /\ transfer \in {"opening", "moving"}
    /\ \A c \in team : CountAgrees(c)
    /\ RetriesAreBounded

LEMMA BudgetInit == Init => BudgetInv
BY DEF Init, BudgetInv, RetriesAreBounded

LEMMA BudgetStep ==
  ASSUME TypeOK, BudgetInv, [Next]_vars
  PROVE  BudgetInv'
<1> USE DEF TypeOK, BudgetInv, CountAgrees, RetriesAreBounded
<1>1. CASE BeginWithDefaults
  BY <1>1 DEF BeginWithDefaults, Begin, Ready
<1>2. CASE BeginDownload
  BY <1>2 DEF BeginDownload, Begin, Ready
<1>3. CASE DefaultArgs
  BY <1>3 DEF DefaultArgs
<1>4. CASE FinishTransfer
  BY <1>4 DEF FinishTransfer, Ready
<1>5. ASSUME NEW c \in Callers, StartCall(c) PROVE BudgetInv'
  BY <1>5 DEF StartCall, Ready
<1>6. ASSUME NEW c \in Callers, NEW notFound \in BOOLEAN, AttemptEnds(c, notFound)
      PROVE  BudgetInv'
  BY <1>6 DEF AttemptEnds, EndCall
<1>7. ASSUME NEW c \in Callers, AttemptFails(c) PROVE BudgetInv'
  BY <1>7 DEF AttemptFails
<1>8. ASSUME NEW c \in Callers, StoreCount(c) PROVE BudgetInv'
  BY <1>8 DEF StoreCount
<1>9. ASSUME NEW c \in Callers, CompareCount(c) PROVE BudgetInv'
  BY <1>9 DEF CompareCount, EndCall
<1>10. ASSUME NEW c \in Callers, Abandon(c) PROVE BudgetInv'
  BY <1>10 DEF Abandon
<1>11. CASE UNCHANGED vars
  BY <1>11 DEF vars
<1> QED BY <1>1, <1>2, <1>3, <1>4, <1>5, <1>6, <1>7, <1>8, <1>9, <1>10, <1>11
        DEF Next, Transferring, Calling

\* The counter agrees with the calls whenever one goroutine has the ReadWriter to itself.
THEOREM CountsAgree == Spec => []BudgetInv
<1>1. TypeOK /\ BudgetInv /\ [Next]_vars => BudgetInv'
  BY BudgetStep
<1> QED BY <1>1, TypeCorrect, BudgetInit, PTL DEF Spec

\* Such a goroutine retries no API call more than MaxRetries times, whatever the transfers
\* before it did to the counter.
THEOREM Bounded == Spec => []RetriesAreBounded
<1>1. BudgetInv => RetriesAreBounded
  BY DEF BudgetInv, RetriesAreBounded
<1> QED BY <1>1, CountsAgree, PTL

\* Such a goroutine has the whole budget for every API call of a transfer.
THEOREM Fresh == Spec => []BudgetIsFresh
<1>1. BudgetInv => BudgetIsFresh
  BY DEF BudgetInv, BudgetIsFresh, CountAgrees
<1> QED BY <1>1, CountsAgree, PTL
=============================================================================
