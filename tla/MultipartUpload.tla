-------------------------- MODULE MultipartUpload ---------------------------
(***************************************************************************)
(* sharedlibraries/storage: ReadWriter.Upload with XMLMultipartUpload set. *)
(*                                                                         *)
(* The goroutine of Upload copies the source into a MultipartWriter, which *)
(* fills the buffer of one worker at a time.  A full buffer is one part:   *)
(* a goroutine (uploadPartAsync) sends it, with retries, while the next    *)
(* idle worker is filled.  Close sends the last part, waits for every      *)
(* worker, and asks GCS to assemble the object from the parts.             *)
(*                                                                         *)
(* Data is counted in units; a buffer or a part is the interval            *)
(* [first, size] of the written stream it holds.  Which idle worker the    *)
(* channel idleWorkers yields next is left open: `idle' is a set.          *)
(***************************************************************************)
EXTENDS Integers, Sequences, FiniteSets

CONSTANTS
  Workers,       \* w.workers
  None,          \* no current worker
  PartSize,      \* w.partSizeBytes, in units
  MaxRetries,    \* w.maxRetries
  VerifyUpload,  \* rw.VerifyUpload
  WriteSizes,    \* lengths of the slices the copier writes
  SourceSize     \* bound on the units the source may hold

ASSUME UploadAssumption ==
  /\ IsFiniteSet(Workers) /\ Workers # {}
  /\ None \notin Workers
  /\ PartSize \in Nat \ {0}
  /\ MaxRetries \in Nat
  /\ VerifyUpload \in BOOLEAN
  /\ WriteSizes \subseteq Nat \ {0}
  /\ SourceSize \in Nat

VARIABLES
  at,         \* where the goroutine of Upload is
  result,     \* what Upload returned: "none" until it does, then "ok" or "error"
  written,    \* units copied into buffers so far
  left,       \* units of the current Write call that are still to be copied
  partNum,    \* w.partNum
  current,    \* w.currentWorker
  idle,       \* the workers in w.idleWorkers
  buffer,     \* uw.buffer[:uw.offset] of each worker, as an interval
  sending,    \* the part number each worker's goroutine uploads, 0 if none
  numRetries, \* uw.numRetries
  parts,      \* w.parts: part number -> what GCS confirmed with an ETag
  uploadErr,  \* w.uploadErr is set
  session,    \* the multipart upload in GCS; once completed, there is an object
  object      \* the parts the object in GCS was assembled from

callVars == <<written, left, partNum, current>>
workerVars == <<idle, buffer, sending, numRetries>>
gcsVars == <<session, object>>
vars == <<at, result, callVars, workerVars, parts, uploadErr, gcsVars>>

Places == {"opening", "copying", "writing", "closing", "completing", "updating",
           "verifying", "returned"}
Interval == [first : Nat, size : Nat]
Empty == [first |-> 0, size |-> 0]

Stored == session = "completed"

Size(obj) == IF obj = <<>> THEN 0 ELSE obj[Len(obj)].first + obj[Len(obj)].size

-----------------------------------------------------------------------------
Init ==
  /\ at = "opening"
  /\ result = "none"
  /\ written = 0
  /\ left = 0
  /\ partNum = 1
  /\ current = None
  /\ idle = {}
  /\ buffer = [w \in Workers |-> Empty]
  /\ sending = [w \in Workers |-> 0]
  /\ numRetries = [w \in Workers |-> 0]
  /\ parts = <<>>
  /\ uploadErr = FALSE
  /\ session = "none"
  /\ object = <<>>

Return(verdict) == at' = "returned" /\ result' = verdict

\* The DELETE may fail: that is logged and the session stays.  GCS no longer
\* knows an upload that was completed.
AbortMultipartUpload ==
  /\ session' \in {session, IF session = "open" THEN "aborted" ELSE session}
  /\ UNCHANGED object

-----------------------------------------------------------------------------
(* The goroutine of Upload *)

\* NewMultipartWriter: fetch a token, initiate the upload, make all workers idle.
Open ==
  /\ at = "opening"
  /\ \/ /\ at' = "copying"
        /\ session' = "open"
        /\ idle' = Workers
        /\ UNCHANGED result
     \/ /\ Return("error")
        /\ session' \in {"none", "open"}
        /\ UNCHANGED idle
  /\ UNCHANGED <<callVars, buffer, sending, numRetries, parts, uploadErr, object>>

\* The copier read some data and calls Write with it.
CallWrite(n) ==
  /\ at = "copying"
  /\ written + n <= SourceSize
  /\ at' = "writing"
  /\ left' = n
  /\ UNCHANGED <<result, written, partNum, current, workerVars, parts, uploadErr, gcsVars>>

\* The source fails: Upload returns without closing the writer.
SourceFails ==
  /\ at = "copying"
  /\ Return("error")
  /\ UNCHANGED <<callVars, workerVars, parts, uploadErr, gcsVars>>

\* One round of the loop of Write with worker w: the current one, or the one the
\* channel yields.
Takes(w) ==
  /\ at = "writing"
  /\ IF current = None THEN w \in idle ELSE w = current
  /\ idle' = idle \ {w}

\* Write reads w.uploadErr without the lock.  It is sure to see the error of a
\* worker it received from the channel; otherwise it may still read nil.
MustSeeError(w) == uploadErr /\ numRetries[w] > MaxRetries

WriteFails(w) ==
  /\ Takes(w)
  /\ uploadErr
  /\ current' = w
  /\ AbortMultipartUpload
  /\ Return("error")
  /\ UNCHANGED <<written, left, partNum, buffer, sending, numRetries, parts, uploadErr>>

FillBuffer(w) ==
  LET room == PartSize - buffer[w].size
      n    == IF left < room THEN left ELSE room
      from == IF buffer[w].size = 0 THEN written ELSE buffer[w].first
      full == n = room
  IN  /\ Takes(w)
      /\ ~MustSeeError(w)
      /\ buffer' = [buffer EXCEPT ![w] = [first |-> from, size |-> @.size + n]]
      /\ written' = written + n
      /\ left' = left - n
      /\ at' = IF left = n THEN "copying" ELSE "writing"
      /\ sending' = IF full THEN [sending EXCEPT ![w] = partNum] ELSE sending
      /\ partNum' = IF full THEN partNum + 1 ELSE partNum
      /\ current' = IF full THEN None ELSE w
      /\ UNCHANGED <<result, numRetries, parts, uploadErr, gcsVars>>

\* The source is exhausted.  Close sends what the current worker holds.
CallClose ==
  /\ at = "copying"
  /\ at' = "closing"
  /\ sending' = IF current = None THEN sending
                                  ELSE [sending EXCEPT ![current] = partNum]
  /\ UNCHANGED <<result, callVars, idle, buffer, numRetries, parts, uploadErr, gcsVars>>

\* Slip: Close looks at no error.
AllWorkersIdleUnchecked ==
  /\ at = "closing"
  /\ idle = Workers
  /\ idle' = {}
  /\ at' = "completing"
  /\ UNCHANGED <<result, callVars, buffer, sending, numRetries, parts, uploadErr, gcsVars>>

\* Slip: Close waits for one worker.
OneWorkerIdle ==
  /\ at = "closing"
  /\ \E w \in idle : idle' = idle \ {w}
  /\ IF uploadErr
       THEN Return("error") /\ AbortMultipartUpload
       ELSE at' = "completing" /\ UNCHANGED <<result, gcsVars>>
  /\ UNCHANGED <<callVars, buffer, sending, numRetries, parts, uploadErr>>

\* Close receives every worker from the channel.
AllWorkersIdle ==
  /\ at = "closing"
  /\ idle = Workers
  /\ idle' = {}
  /\ IF uploadErr
       THEN Return("error") /\ AbortMultipartUpload
       ELSE at' = "completing" /\ UNCHANGED <<result, gcsVars>>
  /\ UNCHANGED <<callVars, buffer, sending, numRetries, parts, uploadErr>>

\* completeMultipartUploadXML wants the parts 1 to len(parts), all of them.
Listed == [p \in 1 .. Cardinality(DOMAIN parts) |-> parts[p]]
NoPartMissing == 1 .. Cardinality(DOMAIN parts) \subseteq DOMAIN parts

\* The request to assemble the object: it may be carried out and its answer lost.
Complete ==
  /\ at = "completing"
  /\ \/ /\ NoPartMissing
        /\ session = "open"
        /\ session' = "completed"
        /\ object' = Listed
        /\ \/ at' = "updating" /\ UNCHANGED result
           \/ Return("error")
     \/ /\ Return("error")
        /\ AbortMultipartUpload
  /\ UNCHANGED <<callVars, workerVars, parts, uploadErr>>

\* The metadata update; when it fails Close aborts the upload it completed.
UpdateMetadata ==
  /\ at = "updating"
  /\ \/ IF VerifyUpload THEN at' = "verifying" /\ UNCHANGED result ELSE Return("ok")
     \/ Return("error")
  /\ UNCHANGED <<callVars, workerVars, parts, uploadErr, gcsVars>>

\* Upload compares what it wrote with the size of the object in the bucket.
Verify ==
  /\ at = "verifying"
  /\ \/ Return(IF written = Size(object) THEN "ok" ELSE "error")
     \/ Return("error")
  /\ UNCHANGED <<callVars, workerVars, parts, uploadErr, gcsVars>>

-----------------------------------------------------------------------------
(* The goroutine uploadPartAsync of worker w *)

\* Slip: the offset of the buffer is not reset.
PartUploadedBufferKept(w) ==
  /\ sending[w] # 0
  /\ session = "open"
  /\ parts' = [p \in DOMAIN parts \cup {sending[w]} |->
                 IF p = sending[w] THEN buffer[w] ELSE parts[p]]
  /\ numRetries' = [numRetries EXCEPT ![w] = 0]
  /\ sending' = [sending EXCEPT ![w] = 0]
  /\ idle' = idle \cup {w}
  /\ UNCHANGED <<at, result, callVars, buffer, uploadErr, gcsVars>>

\* GCS takes the part and answers with an ETag.
PartUploaded(w) ==
  /\ sending[w] # 0
  /\ session = "open"
  /\ parts' = [p \in DOMAIN parts \cup {sending[w]} |->
                 IF p = sending[w] THEN buffer[w] ELSE parts[p]]
  /\ buffer' = [buffer EXCEPT ![w] = Empty]
  /\ numRetries' = [numRetries EXCEPT ![w] = 0]
  /\ sending' = [sending EXCEPT ![w] = 0]
  /\ idle' = idle \cup {w}
  /\ UNCHANGED <<at, result, callVars, uploadErr, gcsVars>>

\* Slip: one retry too many.
PartRetriedOnceMore(w) ==
  /\ sending[w] # 0
  /\ numRetries[w] <= MaxRetries
  /\ numRetries' = [numRetries EXCEPT ![w] = @ + 1]
  /\ UNCHANGED <<at, result, callVars, idle, buffer, sending, parts, uploadErr, gcsVars>>

PartRetried(w) ==
  /\ sending[w] # 0
  /\ numRetries[w] + 1 <= MaxRetries
  /\ numRetries' = [numRetries EXCEPT ![w] = @ + 1]
  /\ UNCHANGED <<at, result, callVars, idle, buffer, sending, parts, uploadErr, gcsVars>>

\* Slip: a worker that gives up does not go back to the others.
PartFailedWorkerLost(w) ==
  /\ sending[w] # 0
  /\ numRetries[w] + 1 > MaxRetries
  /\ numRetries' = [numRetries EXCEPT ![w] = @ + 1]
  /\ uploadErr' = TRUE
  /\ sending' = [sending EXCEPT ![w] = 0]
  /\ UNCHANGED <<at, result, callVars, idle, buffer, parts, gcsVars>>

\* The worker gives up and goes back to the others with its buffer full.
PartFailed(w) ==
  /\ sending[w] # 0
  /\ numRetries[w] + 1 > MaxRetries
  /\ numRetries' = [numRetries EXCEPT ![w] = @ + 1]
  /\ uploadErr' = TRUE
  /\ sending' = [sending EXCEPT ![w] = 0]
  /\ idle' = idle \cup {w}
  /\ UNCHANGED <<at, result, callVars, buffer, parts, gcsVars>>

Uploading ==
  \/ Open
  \/ \E n \in WriteSizes : CallWrite(n)
  \/ SourceFails
  \/ \E w \in Workers : WriteFails(w) \/ FillBuffer(w)
  \/ CallClose
  \/ AllWorkersIdle
  \/ Complete
  \/ UpdateMetadata
  \/ Verify

Sending(w) == PartUploaded(w) \/ PartRetried(w) \/ PartFailed(w)

Next == Uploading \/ \E w \in Workers : Sending(w)

Spec == Init /\ [][Next]_vars

\* Every HTTP request ends one way or the other and the source is finite.
FairSpec == Spec /\ WF_vars(Uploading) /\ \A w \in Workers : WF_vars(Sending(w))

-----------------------------------------------------------------------------
(* Properties *)

TypeOK ==
  /\ at \in Places
  /\ result \in {"none", "ok", "error"}
  /\ written \in Nat
  /\ left \in Nat
  /\ partNum \in Nat \ {0}
  /\ current \in Workers \cup {None}
  /\ idle \subseteq Workers
  /\ buffer \in [Workers -> Interval]
  /\ sending \in [Workers -> Nat]
  /\ numRetries \in [Workers -> 0 .. MaxRetries + 1]
  /\ DOMAIN parts \subseteq Nat \ {0}
  /\ \A p \in DOMAIN parts : parts[p] \in Interval
  /\ uploadErr \in BOOLEAN
  /\ session \in {"none", "open", "aborted", "completed"}

\* The object, from the moment it exists, is what was written: its parts are
\* adjacent, in order, start at the beginning of the source and end where the
\* writing ended.
ObjectIsWhatWasWritten ==
  Stored =>
    /\ \A i \in 1 .. Len(object) :
         /\ object[i].first = IF i = 1 THEN 0 ELSE object[i - 1].first + object[i - 1].size
         /\ i < Len(object) => object[i].size = PartSize
    /\ Size(object) = written

\* No worker is in two hands: Write never fills a buffer that is being sent or
\* that another Write may take from the channel, and no part is sent twice at once.
WorkersAreExclusive ==
  /\ \A w \in idle : sending[w] = 0
  /\ at \in {"copying", "writing"} /\ current # None =>
       current \notin idle /\ sending[current] = 0
  /\ \A v, w \in Workers : v # w /\ sending[v] # 0 => sending[v] # sending[w]

\* No worker gets lost, so that neither Write nor Close waits for ever on the
\* channel of idle workers.
NoWorkerIsLost ==
  at \in {"copying", "writing", "closing"} =>
    \A w \in Workers : w \in idle \/ sending[w] # 0 \/ (w = current /\ at # "closing")

\* Write, Close and the goroutines that send parts pass the workers on without sharing one
\* and without dropping one.
WorkersAreAccountedFor == WorkersAreExclusive /\ NoWorkerIsLost

\* A part that could not be uploaded fails the upload, and then there is no object.
FailedPartFailsUpload ==
  uploadErr => result # "ok" /\ ~Stored

\* A part that waits to be retried is sent as it was: the buffer of a worker does
\* not change between two attempts.
RetriesSendTheSameData ==
  [][\A w \in Workers : sending[w] # 0 /\ sending'[w] = sending[w] =>
       buffer'[w] = buffer[w]]_vars

\* Upload returns.
UploadReturns == <>(at = "returned")

\* Upload is all or nothing: the object appears whole or not at all, and never
\* after Upload returned.
Atomic == INSTANCE AtomicUpload WITH
  object <- IF ~Stored THEN "none" ELSE
            IF Size(object) = written /\ at \notin {"copying", "writing"}
              THEN "whole" ELSE "broken"

ImplementsAtomicUpload == Atomic!Spec
=============================================================================
