---------------------------- MODULE RetryBudget -----------------------------
(***************************************************************************)
(* sharedlibraries/storage: the retries of a ReadWriter.                   *)
(*                                                                         *)
(* retryOptions gives the storage client an error function, which the      *)
(* client calls after every attempt of an API call, the successful ones    *)
(* included, and which counts in the one field rw.numRetries.  The field   *)
(* is shared by all API calls of the ReadWriter: those of one transfer,    *)
(* those of the workers of a parallel download, which run concurrently and *)
(* without a lock, and those of the next transfer of a ReadWriter that is  *)
(* used again.  Counting is a load, a store and a comparison.              *)
(***************************************************************************)
EXTENDS Integers

CONSTANTS
  Callers,     \* goroutines that make API calls
  Transfers,   \* the methods in use: "upload", "download" (one goroutine), "parallel"
  MaxRetries,  \* rw.MaxRetries
  MaxCount     \* bound on what earlier transfers may leave in rw.numRetries

ASSUME RetryAssumption ==
  /\ Transfers \subseteq {"upload", "download", "parallel"}
  /\ MaxRetries \in Nat
  /\ MaxCount \in Nat

VARIABLES
  numRetries, \* rw.numRetries
  transfer,   \* what the ReadWriter does: "opening" is NewReader of Download
  team,       \* the goroutines of the transfer; others outlived an earlier one
  alone,      \* history: the transfer has one goroutine, and no other outlived an earlier one
  place,      \* where each goroutine is in an API call
  loaded,     \* what each goroutine read from rw.numRetries
  failures    \* failed attempts of the API call of each goroutine

vars == <<numRetries, transfer, team, alone, place, loaded, failures>>

Ready == {c \in Callers : place[c] = "ready"}

Init ==
  /\ numRetries = 0
  /\ transfer = "none"
  /\ team = {}
  /\ alone = TRUE
  /\ place = [c \in Callers |-> "ready"]
  /\ loaded = [c \in Callers |-> 0]
  /\ failures = [c \in Callers |-> 0]

-----------------------------------------------------------------------------
(* Transfers *)

Begin(t) ==
  /\ team' = t
  /\ alone' = (Ready = Callers /\ \A c, d \in t : c = d)

\* Upload and a parallel Download make no API call before defaultArgs.
BeginWithDefaults ==
  /\ transfer = "none"
  /\ \/ "upload" \in Transfers /\ \E c \in Ready : Begin({c})
     \/ "parallel" \in Transfers /\ Ready # {} /\ Begin(Ready)
  /\ transfer' = "moving"
  /\ numRetries' = 0
  /\ UNCHANGED <<place, loaded, failures>>

\* Any other Download calls NewReader, then defaultArgs.
BeginDownload ==
  /\ transfer = "none"
  /\ "download" \in Transfers
  /\ numRetries <= MaxCount
  /\ \E c \in Ready : Begin({c})
  /\ transfer' = "opening"
  /\ UNCHANGED <<numRetries, place, loaded, failures>>

DefaultArgs ==
  /\ transfer = "opened"
  /\ transfer' = "moving"
  /\ numRetries' = 0
  /\ UNCHANGED <<team, alone, place, loaded, failures>>

FinishTransfer ==
  /\ transfer = "moving"
  /\ team \subseteq Ready
  /\ transfer' = "none"
  /\ team' = {}
  /\ UNCHANGED <<numRetries, alone, place, loaded, failures>>

\* The call of c ended.  A failed call ends the transfer it belongs to.
EndCall(c, failed) ==
  /\ place' = [place EXCEPT ![c] = "ready"]
  /\ IF failed /\ c \in team
       THEN transfer' = "none" /\ team' = {}
       ELSE /\ transfer' = IF transfer = "opening" /\ c \in team THEN "opened" ELSE transfer
            /\ UNCHANGED team

-----------------------------------------------------------------------------
(* An API call of goroutine c *)

StartCall(c) ==
  /\ transfer \in {"opening", "moving"}
  /\ c \in team \cap Ready
  /\ place' = [place EXCEPT ![c] = "trying"]
  /\ failures' = [failures EXCEPT ![c] = 0]
  /\ UNCHANGED <<numRetries, transfer, team, alone, loaded>>

\* Slip: a call that ends leaves the count as it is.
AttemptEndsWithoutReset(c, notFound) ==
  /\ place[c] = "trying"
  /\ EndCall(c, notFound)
  /\ UNCHANGED <<numRetries, alone, loaded, failures>>

\* The error function is called with nil or a 404: no retry.
AttemptEnds(c, notFound) ==
  /\ place[c] = "trying"
  /\ numRetries' = 0
  /\ EndCall(c, notFound)
  /\ UNCHANGED <<alone, loaded, failures>>

\* The error function is called with any other error.  `failures' says no more
\* than that there were more than MaxRetries + 1.
AttemptFails(c) ==
  /\ place[c] = "trying"
  /\ place' = [place EXCEPT ![c] = "loaded"]
  /\ loaded' = [loaded EXCEPT ![c] = numRetries]
  /\ failures' = [failures EXCEPT ![c] = IF @ > MaxRetries + 1 THEN @ ELSE @ + 1]
  /\ UNCHANGED <<numRetries, transfer, team, alone>>

\* Slip: the failure is not counted.
StoreSameCount(c) ==
  /\ place[c] = "loaded"
  /\ place' = [place EXCEPT ![c] = "stored"]
  /\ numRetries' = loaded[c]
  /\ UNCHANGED <<transfer, team, alone, loaded, failures>>

StoreCount(c) ==
  /\ place[c] = "loaded"
  /\ place' = [place EXCEPT ![c] = "stored"]
  /\ numRetries' = loaded[c] + 1
  /\ UNCHANGED <<transfer, team, alone, loaded, failures>>

\* The comparison may read the field again or use what was just stored.
CompareCount(c) ==
  /\ place[c] = "stored"
  /\ \E n \in {numRetries, loaded[c] + 1} :
       IF n > MaxRetries
         THEN EndCall(c, TRUE)
         ELSE place' = [place EXCEPT ![c] = "trying"] /\ UNCHANGED <<transfer, team>>
  /\ UNCHANGED <<numRetries, alone, loaded, failures>>

\* The transfer of c ended and cancelled its context.
Abandon(c) ==
  /\ c \notin team
  /\ place[c] = "trying"
  /\ place' = [place EXCEPT ![c] = "ready"]
  /\ UNCHANGED <<numRetries, transfer, team, alone, loaded, failures>>

Transferring == BeginWithDefaults \/ BeginDownload \/ DefaultArgs \/ FinishTransfer

Calling(c) ==
  \/ \E notFound \in BOOLEAN : AttemptEnds(c, notFound)
  \/ AttemptFails(c)
  \/ StoreCount(c)
  \/ CompareCount(c)
  \/ Abandon(c)

Next == Transferring \/ \E c \in Callers : StartCall(c) \/ Calling(c)

Spec == Init /\ [][Next]_vars

\* A goroutine that is in an API call goes on; nothing obliges it to start one.
FairSpec == Spec /\ \A c \in Callers : WF_vars(Calling(c))

-----------------------------------------------------------------------------
(* Properties *)

TypeOK ==
  /\ numRetries \in Nat
  /\ transfer \in {"none", "opening", "opened", "moving"}
  /\ team \subseteq Callers
  /\ alone \in BOOLEAN
  /\ place \in [Callers -> {"ready", "trying", "loaded", "stored"}]
  /\ loaded \in [Callers -> Nat]
  /\ failures \in [Callers -> 0 .. MaxRetries + 2]

\* A goroutine that has the ReadWriter to itself retries no API call more than MaxRetries
\* times ("MaxRetries sets the maximum amount of retries when executing an API call"),
\* whatever concurrent transfers left in the counter before.
RetriesAreBounded ==
  alone => \A c \in team : place[c] # "ready" => failures[c] <= MaxRetries + 1

\* Once such a goroutine has begun to move data each of its API calls has the whole budget
\* of MaxRetries: no call inherits what an earlier one or an earlier transfer used.
BudgetIsFresh ==
  alone /\ transfer = "moving" =>
    \A c \in team : place[c] = "trying" => numRetries = failures[c]

\* When from some time on every attempt fails, every API call ends: the updates of
\* numRetries that concurrent goroutines lose delay the end and cannot prevent it.
FailingCallsEnd ==
  <>[][numRetries' # 0 \/ UNCHANGED numRetries]_vars =>
    \A c \in Callers : place[c] # "ready" ~> place[c] = "ready"
=============================================================================
