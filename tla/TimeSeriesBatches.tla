------------------------- MODULE TimeSeriesBatches --------------------------
(***************************************************************************)
(* sharedlibraries/cloudmonitoring: SendTimeSeries.  A slice of time       *)
(* series is sent in batches of MaxTSPerRequest, each pruned of the series *)
(* that repeat a key of the batch, each with retries.  A batch that fails  *)
(* ends the call, and what is left of the slice is discarded.              *)
(*                                                                         *)
(* A time series is its place in the slice; a batch is the interval from   *)
(* `first' up to, without, `next'.  The API is external: a request that it *)
(* accepts is written; of one that fails it may have written any part, and *)
(* one that holds a key twice fails as a whole.                            *)
(***************************************************************************)
EXTENDS Integers

CONSTANTS
  Keys,            \* what prepareKey tells apart
  MaxTSPerRequest, \* maxTSPerRequest, which is 200
  MaxSeries,       \* bound on the length of a slice
  MaxRetries       \* bound on bo.Retries

ASSUME BatchesAssumption ==
  /\ MaxTSPerRequest \in Nat \ {0}
  /\ MaxSeries \in Nat
  /\ MaxRetries \in Nat

VARIABLES
  total,      \* len(timeSeries)
  key,        \* the key of each time series
  retries,    \* bo.Retries; 0 also for a nil bo
  at,         \* "collecting", "calling", "waiting" between attempts, or "returned"
  first, next,
  attempt,    \* failed attempts to send the batch
  batchCount,
  sent,
  failed,     \* whether the error is not nil
  cancelled,  \* the context is done
  written     \* history: the time series that the API has written

vars == <<total, key, retries, at, first, next, attempt, batchCount, sent, failed, cancelled,
          written>>
inputs == <<total, key, retries>>

Init ==
  /\ total \in 0 .. MaxSeries
  /\ key \in [1 .. total -> Keys]
  /\ retries \in 0 .. MaxRetries
  /\ at = "collecting"
  /\ first = 1
  /\ next = 1
  /\ attempt = 0
  /\ batchCount = 0
  /\ sent = 0
  /\ failed = FALSE
  /\ cancelled = FALSE
  /\ written = {}

-----------------------------------------------------------------------------
(* The batch *)

Batch == first .. next - 1

\* Slip: the keys seen are those of all batches.
PrunedOfAll == {i \in Batch : \A j \in 1 .. i - 1 : key[j] # key[i]}

\* Slip: nothing is pruned, and the API takes a key twice.
PrunedOfNone == Batch

\* The first time series of each key of the batch.
Pruned == {i \in Batch : \A j \in first .. i - 1 : key[j] # key[i]}

SendBatch ==
  /\ at' = "calling"
  /\ attempt' = 0
  /\ batchCount' = batchCount + 1

Full(n) == n = MaxTSPerRequest

\* One round of the loop, which sends a batch that is full.
Append ==
  /\ at = "collecting"
  /\ next <= total
  /\ next' = next + 1
  /\ IF Full(next + 1 - first)
       THEN SendBatch
       ELSE UNCHANGED <<at, attempt, batchCount>>
  /\ UNCHANGED <<inputs, first, sent, failed, cancelled, written>>

\* After the loop: the rest, if there is one.
Finish ==
  /\ at = "collecting"
  /\ next > total
  /\ IF first = next
       THEN at' = "returned" /\ UNCHANGED <<attempt, batchCount>>
       ELSE SendBatch
  /\ UNCHANGED <<inputs, first, next, sent, failed, cancelled, written>>

-----------------------------------------------------------------------------
(* sendBatch and CreateTimeSeriesWithRetry *)

\* The whole batch counts as sent, what was pruned included.
Accepted ==
  /\ at = "calling"
  /\ at' = "collecting"
  /\ written' = written \cup Pruned
  /\ sent' = sent + (next - first)
  /\ first' = next
  /\ UNCHANGED <<inputs, next, attempt, batchCount, failed, cancelled>>

\* Slip: a batch that failed does not end the call.
GiveUpBatch ==
  /\ at' = "collecting"
  /\ failed' = TRUE
  /\ first' = next

GiveUp ==
  /\ at' = "returned"
  /\ failed' = TRUE
  /\ UNCHANGED first

\* The policy stops after so many retries, and when the context is done.
Refused ==
  /\ at = "calling"
  /\ \E part \in SUBSET Pruned : written' = written \cup part
  /\ attempt' = attempt + 1
  /\ IF attempt = retries \/ cancelled
       THEN GiveUp
       ELSE at' = "waiting" /\ UNCHANGED <<first, failed>>
  /\ UNCHANGED <<inputs, next, batchCount, sent, cancelled>>

Retry ==
  /\ at = "waiting"
  /\ at' = "calling"
  /\ UNCHANGED <<inputs, first, next, attempt, batchCount, sent, failed, cancelled, written>>

\* The wait for the next attempt ends with the context.
StopWaiting ==
  /\ at = "waiting"
  /\ cancelled
  /\ GiveUp
  /\ UNCHANGED <<inputs, next, attempt, batchCount, sent, cancelled, written>>

Cancel ==
  /\ ~cancelled
  /\ cancelled' = TRUE
  /\ UNCHANGED <<inputs, at, first, next, attempt, batchCount, sent, failed, written>>

SendTimeSeries == Append \/ Finish \/ Accepted \/ Refused \/ Retry \/ StopWaiting

Returned == at = "returned" /\ UNCHANGED vars

Next == SendTimeSeries \/ Cancel \/ Returned

Spec == Init /\ [][Next]_vars

-----------------------------------------------------------------------------
(* Properties *)

TypeOK ==
  /\ total \in Nat
  /\ key \in [1 .. total -> Keys]
  /\ retries \in Nat
  /\ at \in {"collecting", "calling", "waiting", "returned"}
  /\ first \in 1 .. next
  /\ next \in 1 .. total + 1
  /\ next - first <= MaxTSPerRequest
  /\ attempt \in 0 .. retries + 1
  /\ batchCount \in Nat
  /\ sent \in 0 .. total
  /\ failed \in BOOLEAN
  /\ cancelled \in BOOLEAN
  /\ written \subseteq 1 .. total

\* What SendTimeSeries counts as sent was written: each time series itself, or one with
\* its key that went before it in the same request.
SentIsWritten ==
  \A i \in 1 .. sent : \E j \in written : j <= i /\ i < j + MaxTSPerRequest /\ key[j] = key[i]

\* The call fails exactly if it did not send everything, and then all that was written
\* beyond what it reports belongs to the one batch that failed ("the remaining
\* measurements are discarded").
RemainderIsDiscarded ==
  at = "returned" =>
    /\ failed <=> sent < total
    /\ \A i \in written : i <= sent + MaxTSPerRequest

\* The points of one key are written in the order of the slice, although batches fail in
\* part and are sent again.
KeysAreWrittenInOrder ==
  [][\A i \in written' \ written, j \in written : key[i] = key[j] => j < i]_vars
=============================================================================
