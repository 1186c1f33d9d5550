------------------------- MODULE CommunicateProofs --------------------------
(***************************************************************************)
(* Theorems about Communicate: for any operations, any number of           *)
(* deliveries and any bound of the backoff.                                *)
(***************************************************************************)
EXTENDS Communicate, TLAPS

USE CommunicateAssumption DEF CommunicateAssumption

-----------------------------------------------------------------------------
(* The inductive invariant *)

InHand(o) == IF at = "handling" /\ operation = o THEN 1 ELSE 0

\* An operation in hand was not answered, and every delivery that has no answer, but for
\* the one in hand, left an error.
AnswerInv ==
  /\ at = "handling" => answered[operation] = 0
  /\ \A o \in Operations : answered[o] + InHand(o) <= received[o]
  /\ lastErr = "none" => \A o \in Operations : received[o] = answered[o] + InHand(o)

LEMMA AnswerInit == Init => TypeOK /\ AnswerInv
<1> SUFFICES ASSUME Init PROVE TypeOK /\ AnswerInv
  OBVIOUS
<1>1. at = "connecting" /\ \A o \in Operations : received[o] = 0 /\ answered[o] = 0
  BY DEF Init
<1>2. AnswerInv
  BY <1>1 DEF AnswerInv, InHand
<1>3. TypeOK
  <2>1. received \in [Operations -> 0 .. MaxDeliveries] /\ answered \in [Operations -> 0 .. 1]
    BY DEF Init
  <2>2. doublings \in 0 .. MaxDoublings
    BY DEF Init
  <2> QED BY <2>1, <2>2 DEF Init, TypeOK
<1> QED BY <1>2, <1>3

LEMMA BackOffType == ASSUME TypeOK PROVE NextBackOff \in 0 .. MaxDoublings
BY DEF TypeOK, NextBackOff

LEMMA TypeStep == ASSUME TypeOK, AnswerInv, [Next]_vars PROVE TypeOK'
<1> USE DEF TypeOK
<1>1. ASSUME NEW c \in Attempts, Connect(c) PROVE TypeOK'
  <2>1. c \in {"nil", "open"}
    BY DEF Attempts
  <2>2. doublings' \in 0 .. MaxDoublings
    BY <1>1, BackOffType DEF Connect
  <2> QED BY <1>1, <2>1, <2>2 DEF Connect
<1>2. ASSUME NEW c \in Attempts, Reconnect(c) PROVE TypeOK'
  <2>1. c \in {"nil", "open"}
    BY DEF Attempts
  <2> QED BY <1>2, <2>1, BackOffType DEF Reconnect
<1>3. CASE CheckContext
  BY <1>3 DEF CheckContext
<1>4. CASE PanicOnNil
  BY <1>4 DEF PanicOnNil
<1>5. CASE ReceiveWithoutId
  BY <1>5, BackOffType DEF ReceiveWithoutId
<1>6. ASSUME NEW o \in Operations, ReceiveOperation(o) PROVE TypeOK'
  <2>1. received[o] + 1 \in 0 .. MaxDeliveries
    BY <1>6 DEF ReceiveOperation
  <2>2. received' \in [Operations -> 0 .. MaxDeliveries]
    BY <1>6, <2>1 DEF ReceiveOperation
  <2> QED BY <1>6, <2>2 DEF ReceiveOperation
<1>7. ASSUME NEW sent \in BOOLEAN, SendDone(sent) PROVE TypeOK'
  <2>1. answered[operation] = 0
    BY <1>7 DEF SendDone, AnswerInv
  <2>2. answered' \in [Operations -> 0 .. 1]
    <3>1. CASE sent
      BY <1>7, <2>1, <3>1 DEF SendDone
    <3>2. CASE ~sent
      BY <1>7, <3>2 DEF SendDone
    <3> QED BY <3>1, <3>2
  <2>3. lastErr' \in {"none", "unlabelled", "unidentified", "send"}
    BY <1>7 DEF SendDone
  <2> QED BY <1>7, <2>2, <2>3 DEF SendDone
<1>8. CASE Break
  BY <1>8 DEF Break
<1>9. CASE Cancel
  BY <1>9 DEF Cancel
<1>10. CASE UNCHANGED vars
  BY <1>10 DEF vars
<1> QED BY <1>1, <1>2, <1>3, <1>4, <1>5, <1>6, <1>7, <1>8, <1>9, <1>10 DEF Next, Loop, Ended

LEMMA AnswerStep == ASSUME TypeOK, AnswerInv, [Next]_vars PROVE AnswerInv'
<1> USE DEF AnswerInv, InHand
<1>1. ASSUME NEW c \in Attempts, Connect(c) \/ Reconnect(c) PROVE AnswerInv'
  BY <1>1 DEF Connect, Reconnect
<1>2. CASE CheckContext \/ PanicOnNil \/ ReceiveWithoutId
  BY <1>2 DEF CheckContext, PanicOnNil, ReceiveWithoutId
<1>3. ASSUME NEW o \in Operations, ReceiveOperation(o) PROVE AnswerInv'
  <2>1. /\ at = "receiving" /\ at' = "handling" /\ operation' = o
        /\ UNCHANGED <<answered, lastErr>> /\ answered[o] = 0
    BY <1>3 DEF ReceiveOperation
  <2>2. \A p \in Operations : received'[p] = IF p = o THEN received[p] + 1 ELSE received[p]
    BY <1>3 DEF ReceiveOperation, TypeOK
  <2>3. \A p \in Operations : received[p] \in Nat /\ answered[p] \in Nat
    BY DEF TypeOK
  <2> QED BY <2>1, <2>2, <2>3
<1>4. ASSUME NEW sent \in BOOLEAN, SendDone(sent) PROVE AnswerInv'
  <2>1. at = "handling" /\ at' = "checking" /\ UNCHANGED <<operation, received>>
    BY <1>4 DEF SendDone
  <2>2. operation \in Operations /\ \A p \in Operations : received[p] \in Nat /\ answered[p] \in Nat
    BY DEF TypeOK
  <2>3. CASE sent
    <3>1. lastErr' = lastErr
      BY <1>4, <2>3 DEF SendDone
    <3>2. \A p \in Operations :
            answered'[p] = IF p = operation THEN answered[p] + 1 ELSE answered[p]
      BY <1>4, <2>3 DEF SendDone, TypeOK
    <3> QED BY <2>1, <2>2, <3>1, <3>2
  <2>4. CASE ~sent
    <3>1. lastErr' = "send" /\ answered' = answered
      BY <1>4, <2>4 DEF SendDone
    <3> QED BY <2>1, <2>2, <3>1
  <2> QED BY <2>3, <2>4
<1>5. CASE Break \/ Cancel \/ UNCHANGED vars
  BY <1>5 DEF Break, Cancel, vars
<1> QED BY <1>1, <1>2, <1>3, <1>4, <1>5 DEF Next, Loop, Ended

\* Answers and deliveries agree: the invariant from which the theorems follow.
THEOREM AnswersAgree == Spec => [](TypeOK /\ AnswerInv)
<1>1. TypeOK /\ AnswerInv /\ [Next]_vars => (TypeOK /\ AnswerInv)'
  BY TypeStep, AnswerStep
<1> QED BY <1>1, AnswerInit, PTL DEF Spec

-----------------------------------------------------------------------------
(* The properties *)

\* Every variable keeps its type; in particular no operation has two answers, and the
\* backoff stays within its limits.
THEOREM TypeCorrect == Spec => []TypeOK
BY AnswersAgree, PTL

\* Communicate returns nil only if every operation it received was answered.
THEOREM NilIsComplete == Spec => []NilMeansAllAnswered
<1>1. TypeOK /\ AnswerInv => NilMeansAllAnswered
  <2> SUFFICES ASSUME TypeOK, AnswerInv, at = "returned", lastErr = "none",
                      NEW o \in Operations
               PROVE  received[o] = answered[o]
    BY DEF NilMeansAllAnswered
  <2>1. answered[o] \in Nat /\ InHand(o) = 0
    BY DEF TypeOK, InHand
  <2>2. received[o] = answered[o] + InHand(o)
    BY DEF AnswerInv
  <2> QED BY <2>1, <2>2
<1> QED BY <1>1, AnswersAgree, PTL

\* No answer is sent for an operation that was not received.
THEOREM AnswersHaveDeliveries == Spec => []AnswersAreForDeliveries
<1>1. AnswerInv => AnswersAreForDeliveries
  BY DEF AnswerInv, InHand, AnswersAreForDeliveries
<1> QED BY <1>1, AnswersAgree, PTL
=============================================================================
