---------------------------- MODULE Communicate -----------------------------
(***************************************************************************)
(* sharedlibraries/communication: Communicate, the synchronous loop over   *)
(* an ACS connection, and its older copy in sharedlibraries/uap.           *)
(*                                                                         *)
(* The goroutine connects, then receives, handles and answers one message  *)
(* at a time.  A receive that fails, or a message without labels, makes it *)
(* sleep and try once to reconnect; the loop goes on with whatever that    *)
(* attempt gave, which is nil when it failed.  The sleep does not look at  *)
(* the context, nor does the first loop, which connects.  A sleep and the  *)
(* attempt after it are one step: a context that ends between them can as  *)
(* well end before both.                                                   *)
(*                                                                         *)
(* The service and its client library are outside of the repository.  A    *)
(* connection may break at any time and breaks when the context ends; an   *)
(* operation is delivered again until it is answered; receiving from a nil *)
(* connection fails or panics.                                             *)
(***************************************************************************)
EXTENDS Integers

CONSTANTS
  Operations,    \* the operation_ids of the messages
  MaxDoublings,  \* doublings of the backoff from InitialInterval to MaxInterval
  MaxDeliveries  \* bound on how often the service delivers one operation

ASSUME CommunicateAssumption ==
  /\ MaxDoublings \in Nat
  /\ MaxDeliveries \in Nat

VARIABLES
  at,         \* where the goroutine is
  conn,       \* "nil", "open", or "broken"
  doublings,  \* the next wait of the backoff is InitialInterval * 2^doublings
  lastErr,    \* what Communicate will return
  operation,  \* the operation in hand
  cancelled,  \* the context is done
  received,   \* how often each operation was received
  answered    \* how many "done" messages the service has for each operation

vars == <<at, conn, doublings, lastErr, operation, cancelled, received, answered>>

Init ==
  /\ at = "connecting"
  /\ conn = "nil"
  /\ doublings = 0
  /\ lastErr = "none"
  /\ operation \in Operations
  /\ cancelled = FALSE
  /\ received = [o \in Operations |-> 0]
  /\ answered = [o \in Operations |-> 0]

-----------------------------------------------------------------------------
(* Connecting *)

\* Slip: the interval is not limited.
NextBackOffUnlimited == doublings + 1

\* The next wait, after the one that NextBackOff returns.
NextBackOff == IF doublings < MaxDoublings THEN doublings + 1 ELSE doublings

\* What one attempt of establishConnection may give.
Attempts == {"nil"} \cup (IF cancelled THEN {} ELSE {"open"})

\* The first loop of Communicate: it does not leave without a connection.
Connect(c) ==
  /\ at = "connecting"
  /\ c \in Attempts
  /\ conn' = c
  /\ IF c = "nil"
       THEN doublings' = NextBackOff /\ UNCHANGED at
       ELSE doublings' = 0 /\ at' = "checking"
  /\ UNCHANGED <<lastErr, operation, cancelled, received, answered>>

-----------------------------------------------------------------------------
(* The loop *)

CheckContext ==
  /\ at = "checking"
  /\ at' = IF cancelled THEN "returned" ELSE "receiving"
  /\ UNCHANGED <<conn, doublings, lastErr, operation, cancelled, received, answered>>

\* Slip: the loop keeps the connection it has.
BackoffOnly(c) ==
  /\ at = "receiving"
  /\ c \in Attempts
  /\ at' = "checking"
  /\ lastErr' = "unlabelled"
  /\ doublings' = NextBackOff
  /\ UNCHANGED <<conn, operation, cancelled, received, answered>>

\* Slip: the loop does not go on before it is connected again.
ReconnectUntilConnected(c) ==
  /\ at = "receiving"
  /\ c \in Attempts
  /\ at' = IF c = "nil" THEN "connecting" ELSE "checking"
  /\ lastErr' = "unlabelled"
  /\ doublings' = NextBackOff
  /\ conn' = c
  /\ UNCHANGED <<operation, cancelled, received, answered>>

\* Receive failed, or gave a message without labels: back off, then one attempt to
\* reconnect, whatever it gives.
Reconnect(c) ==
  /\ at = "receiving"
  /\ c \in Attempts
  /\ at' = "checking"
  /\ lastErr' = "unlabelled"
  /\ doublings' = NextBackOff
  /\ conn' = c
  /\ UNCHANGED <<operation, cancelled, received, answered>>

\* The receive from a nil connection.
PanicOnNil ==
  /\ at = "receiving"
  /\ conn = "nil"
  /\ at' = "panicked"
  /\ UNCHANGED <<conn, doublings, lastErr, operation, cancelled, received, answered>>

ReceiveWithoutId ==
  /\ at = "receiving"
  /\ conn = "open"
  /\ at' = "checking"
  /\ lastErr' = "unidentified"
  /\ doublings' = NextBackOff
  /\ UNCHANGED <<conn, operation, cancelled, received, answered>>

ReceiveOperation(o) ==
  /\ at = "receiving"
  /\ conn = "open"
  /\ answered[o] = 0
  /\ received[o] < MaxDeliveries
  /\ at' = "handling"
  /\ operation' = o
  /\ received' = [received EXCEPT ![o] = @ + 1]
  /\ doublings' = 0
  /\ UNCHANGED <<conn, lastErr, cancelled, answered>>

\* Slip: the result of the send replaces lastErr, success or not.
SendDoneForgetting(sent) ==
  /\ at = "handling"
  /\ sent => conn = "open"
  /\ at' = "checking"
  /\ answered' = IF sent THEN [answered EXCEPT ![operation] = @ + 1] ELSE answered
  /\ lastErr' = IF sent THEN "none" ELSE "send"
  /\ UNCHANGED <<conn, doublings, operation, cancelled, received>>

\* messageHandler returns, and its result goes out as "done", once.
SendDone(sent) ==
  /\ at = "handling"
  /\ sent => conn = "open"
  /\ at' = "checking"
  /\ answered' = IF sent THEN [answered EXCEPT ![operation] = @ + 1] ELSE answered
  /\ lastErr' = IF sent THEN lastErr ELSE "send"
  /\ UNCHANGED <<conn, doublings, operation, cancelled, received>>

-----------------------------------------------------------------------------
(* The environment *)

Break ==
  /\ conn = "open"
  /\ conn' = "broken"
  /\ UNCHANGED <<at, doublings, lastErr, operation, cancelled, received, answered>>

Cancel ==
  /\ ~cancelled
  /\ cancelled' = TRUE
  /\ conn' = IF conn = "open" THEN "broken" ELSE conn
  /\ UNCHANGED <<at, doublings, lastErr, operation, received, answered>>

Ended == at \in {"returned", "panicked"} /\ UNCHANGED vars

Loop ==
  \/ \E c \in Attempts : Connect(c) \/ Reconnect(c)
  \/ CheckContext
  \/ PanicOnNil
  \/ ReceiveWithoutId
  \/ \E o \in Operations : ReceiveOperation(o)
  \/ \E sent \in BOOLEAN : SendDone(sent)

Next == Loop \/ Break \/ Cancel \/ Ended

Spec == Init /\ [][Next]_vars

\* The goroutine goes on.  A receive may wait for ever for a message on a connection
\* that holds; on one that does not, it returns.
FairSpec ==
  /\ Spec
  /\ WF_vars(\E c \in Attempts : Connect(c))
  /\ WF_vars(CheckContext)
  /\ WF_vars(conn # "open" /\ \E c \in Attempts : Reconnect(c))
  /\ WF_vars(\E sent \in BOOLEAN : SendDone(sent))

-----------------------------------------------------------------------------
(* Properties *)

TypeOK ==
  /\ at \in {"connecting", "checking", "receiving", "handling", "returned", "panicked"}
  /\ conn \in {"nil", "open", "broken"}
  /\ doublings \in 0 .. MaxDoublings
  /\ lastErr \in {"none", "unlabelled", "unidentified", "send"}
  /\ operation \in Operations
  /\ cancelled \in BOOLEAN
  /\ received \in [Operations -> 0 .. MaxDeliveries]
  /\ answered \in [Operations -> 0 .. 1]

\* Communicate returns nil only if the service has the answer to every operation that
\* was received, however many operations and failures came in between.  The error is
\* the only trace of an answer that was lost, for nobody sends it again.
NilMeansAllAnswered ==
  at = "returned" /\ lastErr = "none" => \A o \in Operations : received[o] = answered[o]

\* No answer is sent for an operation that was not received, and none is sent twice for
\* one delivery.
AnswersAreForDeliveries ==
  \A o \in Operations :
    answered[o] + (IF at = "handling" /\ operation = o THEN 1 ELSE 0) <= received[o]

\* Once the first connection was made, the loop ends after its context does: no failure
\* keeps it in the loop.
CancelledLoopEnds == (cancelled /\ at # "connecting") ~> at \in {"returned", "panicked"}

\* The service comes back: from some time on connections hold, an attempt that may
\* succeed does in the end, and an operation that may be delivered is.
ServiceComesBack ==
  /\ <>[][~Break]_vars
  /\ SF_vars(Connect("open"))
  /\ SF_vars(Reconnect("open"))
  /\ \A o \in Operations : SF_vars(ReceiveOperation(o))

\* As long as the service comes back, every operation is received in the end, unless the
\* context ends or a nil connection panics: no failure leaves the loop on a connection
\* that is of no use.
EveryOperationIsReceived ==
  ServiceComesBack =>
    \A o \in Operations : <>(received[o] > 0 \/ cancelled \/ at = "panicked")
=============================================================================
