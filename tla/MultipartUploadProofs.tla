----------------------- MODULE MultipartUploadProofs ------------------------
(***************************************************************************)
(* Theorems about MultipartUpload: for any number of workers, any part     *)
(* size, any number of retries and any source.                             *)
(***************************************************************************)
EXTENDS MultipartUpload, FiniteSetTheorems, SequenceTheorems, TLAPS

-----------------------------------------------------------------------------
(* The workers *)

\* Where a worker is depends on what its goroutine, Write and the channel make of
\* it.  The bound on numRetries in TypeOK holds because a worker that gave up is
\* never filled again: Write fails when it receives one from the channel.
WorkInv ==
  /\ TypeOK
  /\ \A w \in Workers : buffer[w].size <= PartSize
  /\ \A w \in Workers : numRetries[w] > MaxRetries => uploadErr /\ sending[w] = 0
  /\ at \in {"copying", "writing"} /\ current # None => numRetries[current] <= MaxRetries
  /\ at = "opening" => idle = {} /\ current = None /\ \A w \in Workers : sending[w] = 0
  /\ \A w \in Workers : sending[w] <= partNum
  /\ at \in {"copying", "writing"} => \A w \in Workers : sending[w] < partNum
  /\ WorkersAreExclusive
  /\ NoWorkerIsLost

LEMMA WorkInit == Init => WorkInv
<1> SUFFICES ASSUME Init PROVE WorkInv
  OBVIOUS
<1> USE UploadAssumption DEF Init, UploadAssumption
<1>1. TypeOK
  <2>1. \A p \in DOMAIN parts : FALSE
    OBVIOUS
  <2>2. /\ buffer \in [Workers -> Interval]
        /\ sending \in [Workers -> Nat]
        /\ numRetries \in [Workers -> 0 .. MaxRetries + 1]
    BY DEF Interval, Empty
  <2>3. /\ at \in Places
        /\ session \in {"none", "open", "aborted", "completed"}
        /\ result \in {"none", "ok", "error"}
        /\ uploadErr \in BOOLEAN
        /\ current \in Workers \cup {None} /\ idle \subseteq Workers
    BY DEF Places
  <2>4. written \in Nat /\ left \in Nat /\ partNum \in Nat \ {0}
    OBVIOUS
  <2> QED BY <2>1, <2>2, <2>3, <2>4, Zenon DEF TypeOK
<1>2. WorkersAreExclusive /\ NoWorkerIsLost
  BY DEF WorkersAreExclusive, NoWorkerIsLost
<1>3. \A w \in Workers : buffer[w].size = 0 /\ numRetries[w] = 0 /\ sending[w] = 0
  BY DEF Empty
<1> QED BY <1>1, <1>2, <1>3 DEF WorkInv

\* What one round of Write does to the numbers.
LEMMA FillNumbers ==
  ASSUME WorkInv, NEW w \in Workers, Takes(w), FillBuffer(w)
  PROVE  LET room == PartSize - buffer[w].size
             n    == IF left < room THEN left ELSE room
         IN  /\ n \in Nat
             /\ buffer[w].size + n <= PartSize
             /\ left - n \in Nat
<1> USE UploadAssumption DEF UploadAssumption, WorkInv, TypeOK, Interval
<1>1. buffer[w].size \in Nat /\ buffer[w].size <= PartSize /\ left \in Nat /\ PartSize \in Nat
  OBVIOUS
<1> QED BY <1>1

LEMMA WorkFill ==
  ASSUME WorkInv, NEW w \in Workers, FillBuffer(w)
  PROVE  WorkInv'
<1> DEFINE room == PartSize - buffer[w].size
           n    == IF left < room THEN left ELSE room
           from == IF buffer[w].size = 0 THEN written ELSE buffer[w].first
<1>1. /\ Takes(w) /\ ~MustSeeError(w)
      /\ buffer' = [buffer EXCEPT ![w] = [first |-> from, size |-> @.size + n]]
      /\ written' = written + n
      /\ left' = left - n
      /\ at' = IF left = n THEN "copying" ELSE "writing"
      /\ sending' = IF n = room THEN [sending EXCEPT ![w] = partNum] ELSE sending
      /\ partNum' = IF n = room THEN partNum + 1 ELSE partNum
      /\ current' = IF n = room THEN None ELSE w
      /\ UNCHANGED <<result, numRetries, parts, uploadErr, session, object>>
  BY DEF FillBuffer, gcsVars
<1>2. n \in Nat /\ buffer[w].size + n <= PartSize /\ left - n \in Nat
  BY <1>1, FillNumbers
<1>3. /\ at = "writing" /\ idle' = idle \ {w}
      /\ IF current = None THEN w \in idle ELSE w = current
  BY <1>1 DEF Takes
<1>4. /\ sending[w] = 0 /\ numRetries[w] <= MaxRetries
      /\ at = "writing" /\ idle' = idle \ {w}
      /\ \A v \in Workers : v # w => v \in idle \/ sending[v] # 0
  BY <1>1, <1>3, UploadAssumption
     DEF WorkInv, WorkersAreExclusive, MustSeeError, TypeOK, NoWorkerIsLost, UploadAssumption
<1>5. from \in Nat
  BY DEF WorkInv, TypeOK, Interval
<1> HIDE DEF room, n, from
<1>6. TypeOK'
  <2>1. buffer' \in [Workers -> Interval]
    BY <1>1, <1>2, <1>5 DEF WorkInv, TypeOK, Interval
  <2> QED BY <1>1, <1>2, <1>4, <2>1 DEF WorkInv, TypeOK, Places
<1>7. \A v \in Workers : buffer'[v].size <= PartSize
  BY <1>1, <1>2 DEF WorkInv, TypeOK
<1>8. /\ (\A v \in Workers : sending[v] <= partNum)'
      /\ (at \in {"copying", "writing"} => \A v \in Workers : sending[v] < partNum)'
  BY <1>1, <1>4 DEF WorkInv, TypeOK
<1>9. WorkersAreExclusive'
  BY <1>1, <1>4 DEF WorkInv, TypeOK, WorkersAreExclusive
<1>10. NoWorkerIsLost'
  BY <1>1, <1>4 DEF WorkInv, TypeOK, NoWorkerIsLost
<1>11. (at = "opening" => idle = {} /\ current = None /\ \A v \in Workers : sending[v] = 0)'
  BY <1>1
<1>12. \A v \in Workers :
         numRetries'[v] > MaxRetries => uploadErr' /\ sending'[v] = 0
  <2> SUFFICES ASSUME NEW v \in Workers, numRetries'[v] > MaxRetries
               PROVE  uploadErr' /\ sending'[v] = 0
    OBVIOUS
  <2>1. numRetries' = numRetries /\ uploadErr' = uploadErr
    BY <1>1
  <2>2. v # w
    <3>1. numRetries[w] \in Int /\ MaxRetries \in Int
      BY UploadAssumption DEF UploadAssumption, WorkInv, TypeOK
    <3> QED BY <3>1, <2>1, <1>4
  <2>3. sending'[v] = sending[v]
    BY <1>1, <2>2 DEF WorkInv, TypeOK
  <2> QED BY <2>1, <2>3 DEF WorkInv
<1>13. current' # None => numRetries'[current'] <= MaxRetries
  BY <1>1, <1>4
<1> QED BY <1>6, <1>7, <1>8, <1>9, <1>10, <1>11, <1>12, <1>13 DEF WorkInv

LEMMA WorkStep == WorkInv /\ [Next]_vars => WorkInv'
<1> SUFFICES ASSUME WorkInv, [Next]_vars PROVE WorkInv'
  OBVIOUS
<1> USE UploadAssumption
    DEF UploadAssumption, WorkInv, TypeOK, WorkersAreExclusive, NoWorkerIsLost, Places,
        callVars, workerVars, gcsVars
<1>1. CASE Open
  BY <1>1 DEF Open, Return
<1>2. ASSUME NEW n \in WriteSizes, CallWrite(n) PROVE WorkInv'
  BY <1>2 DEF CallWrite
<1>3. CASE SourceFails
  BY <1>3 DEF SourceFails, Return
<1>4. ASSUME NEW w \in Workers, WriteFails(w) PROVE WorkInv'
  BY <1>4 DEF WriteFails, Takes, AbortMultipartUpload, Return
<1>5. ASSUME NEW w \in Workers, FillBuffer(w) PROVE WorkInv'
  BY <1>5, WorkFill
<1>6. CASE CallClose
  BY <1>6 DEF CallClose
<1>7. CASE AllWorkersIdle
  BY <1>7 DEF AllWorkersIdle, AbortMultipartUpload, Return
<1>8. CASE Complete
  BY <1>8 DEF Complete, AbortMultipartUpload, Return
<1>9. CASE UpdateMetadata
  BY <1>9 DEF UpdateMetadata, Return
<1>10. CASE Verify
  BY <1>10 DEF Verify, Return
<1>11. ASSUME NEW w \in Workers, PartUploaded(w) PROVE WorkInv'
  BY <1>11 DEF PartUploaded, Empty, Interval
<1>12. ASSUME NEW w \in Workers, PartRetried(w) PROVE WorkInv'
  BY <1>12 DEF PartRetried
<1>13. ASSUME NEW w \in Workers, PartFailed(w) PROVE WorkInv'
  BY <1>13 DEF PartFailed
<1>14. CASE UNCHANGED vars
  BY <1>14 DEF vars
<1> QED BY <1>1, <1>2, <1>3, <1>4, <1>5, <1>6, <1>7, <1>8, <1>9, <1>10, <1>11, <1>12, <1>13,
           <1>14 DEF Next, Uploading, Sending

\* Workers are neither shared nor lost, whatever the source and GCS do: the
\* strengthened invariant from which the theorems below follow.
THEOREM WorkersAgree == Spec => []WorkInv
BY WorkInit, WorkStep, PTL DEF Spec

\* Every variable keeps its type; in particular the retry counter of a worker never
\* passes maxRetries + 1.
THEOREM TypeCorrect == Spec => []TypeOK
<1>1. WorkInv => TypeOK
  BY DEF WorkInv
<1> QED BY <1>1, WorkersAgree, PTL

\* Write and the goroutines of uploadPartAsync never hold the same worker, and no
\* part number is uploaded by two of them.
THEOREM Exclusive == Spec => []WorkersAreExclusive
<1>1. WorkInv => WorkersAreExclusive
  BY DEF WorkInv
<1> QED BY <1>1, WorkersAgree, PTL

\* Every worker Close waits for is idle or has a goroutine that will make it so.
THEOREM NotLost == Spec => []NoWorkerIsLost
<1>1. WorkInv => NoWorkerIsLost
  BY DEF WorkInv
<1> QED BY <1>1, WorkersAgree, PTL

\* The workers of an upload are accounted for: none is shared and none is lost.
THEOREM AccountedFor == Spec => []WorkersAreAccountedFor
<1>1. WorkersAreExclusive /\ NoWorkerIsLost => WorkersAreAccountedFor
  BY DEF WorkersAreAccountedFor
<1> QED BY <1>1, Exclusive, NotLost, PTL

-----------------------------------------------------------------------------
(* The outcome *)

LEMMA TakenWorker ==
  ASSUME WorkInv, NEW w \in Workers, FillBuffer(w)
  PROVE  sending[w] = 0 /\ numRetries[w] <= MaxRetries
BY UploadAssumption
   DEF WorkInv, WorkersAreExclusive, FillBuffer, Takes, MustSeeError, TypeOK, UploadAssumption

\* A retry sends the data of the first attempt: nothing writes into a buffer that
\* a goroutine is sending.
THEOREM RetriesKeepData == Spec => RetriesSendTheSameData
<1> DEFINE Same == \A w \in Workers : sending[w] # 0 /\ sending'[w] = sending[w] =>
                     buffer'[w] = buffer[w]
<1>1. WorkInv /\ [Next]_vars => [Same]_vars
  <2> SUFFICES ASSUME WorkInv, [Next]_vars, NEW w \in Workers,
                      sending[w] # 0, sending'[w] = sending[w]
               PROVE  buffer'[w] = buffer[w]
    OBVIOUS
  <2> USE DEF callVars, workerVars, gcsVars
  <2>1. ASSUME NEW v \in Workers, FillBuffer(v) PROVE buffer'[w] = buffer[w]
    <3>1. v # w
      BY <2>1, TakenWorker
    <3> QED BY <2>1, <3>1 DEF FillBuffer, WorkInv, TypeOK
  <2>2. ASSUME NEW v \in Workers, PartUploaded(v) PROVE buffer'[w] = buffer[w]
    BY <2>2 DEF PartUploaded, WorkInv, TypeOK
  <2>3. CASE buffer' = buffer
    BY <2>3
  <2>4. ASSUME NEW v \in Workers, WriteFails(v) \/ PartRetried(v) \/ PartFailed(v)
        PROVE  buffer' = buffer
    BY <2>4 DEF WriteFails, PartRetried, PartFailed
  <2>5. ASSUME Open \/ (\E n \in WriteSizes : CallWrite(n)) \/ SourceFails \/ CallClose
               \/ AllWorkersIdle \/ Complete \/ UpdateMetadata \/ Verify
        PROVE  buffer' = buffer
    BY <2>5 DEF Open, CallWrite, SourceFails, CallClose, AllWorkersIdle, Complete,
                UpdateMetadata, Verify
  <2> QED BY <2>1, <2>2, <2>3, <2>4, <2>5 DEF Next, Uploading, Sending, vars
<1> QED BY <1>1, WorkersAgree, PTL DEF Spec, RetriesSendTheSameData

\* Close asks for the object only when no part failed and none is under way, and
\* no goroutine is left that could fail one afterwards.
OutcomeInv ==
  /\ at \in {"opening", "copying", "writing", "closing", "completing"} =>
       result = "none" /\ ~Stored
  /\ at \in {"updating", "verifying"} => result = "none" /\ Stored
  /\ result = "ok" => Stored
  /\ at = "completing" \/ Stored => ~uploadErr /\ \A w \in Workers : sending[w] = 0

LEMMA OutcomeStep == WorkInv /\ OutcomeInv /\ [Next]_vars => OutcomeInv'
<1> SUFFICES ASSUME WorkInv, OutcomeInv, [Next]_vars PROVE OutcomeInv'
  OBVIOUS
<1> USE DEF OutcomeInv, Stored, callVars, workerVars, gcsVars
<1>1. CASE Open
  BY <1>1 DEF Open, Return
<1>2. ASSUME NEW n \in WriteSizes, CallWrite(n) PROVE OutcomeInv'
  BY <1>2 DEF CallWrite
<1>3. CASE SourceFails
  BY <1>3 DEF SourceFails, Return
<1>4. ASSUME NEW w \in Workers, WriteFails(w) PROVE OutcomeInv'
  BY <1>4 DEF WriteFails, Takes, AbortMultipartUpload, Return
<1>5. ASSUME NEW w \in Workers, FillBuffer(w) PROVE OutcomeInv'
  BY <1>5 DEF FillBuffer, Takes
<1>6. CASE CallClose
  BY <1>6 DEF CallClose
<1>7. CASE AllWorkersIdle
  <2>1. \A w \in Workers : sending[w] = 0
    BY <1>7 DEF AllWorkersIdle, WorkInv, WorkersAreExclusive
  <2> QED BY <1>7, <2>1 DEF AllWorkersIdle, AbortMultipartUpload, Return
<1>8. CASE Complete
  BY <1>8 DEF Complete, AbortMultipartUpload, Return
<1>9. CASE UpdateMetadata
  BY <1>9 DEF UpdateMetadata, Return
<1>10. CASE Verify
  BY <1>10 DEF Verify, Return
<1>11. ASSUME NEW w \in Workers, Sending(w) PROVE OutcomeInv'
  <2>1. sending[w] # 0
    BY <1>11 DEF Sending, PartUploaded, PartRetried, PartFailed
  <2> QED BY <1>11, <2>1 DEF Sending, PartUploaded, PartRetried, PartFailed
<1>12. CASE UNCHANGED vars
  BY <1>12 DEF vars
<1> QED BY <1>1, <1>2, <1>3, <1>4, <1>5, <1>6, <1>7, <1>8, <1>9, <1>10, <1>11, <1>12
        DEF Next, Uploading

LEMMA OutcomeIsSettled == Spec => []OutcomeInv
<1>1. Init => OutcomeInv
  BY DEF Init, OutcomeInv, Stored
<1> QED BY <1>1, OutcomeStep, WorkersAgree, PTL DEF Spec

\* When a part was given up Upload does not return nil and GCS has no object, then
\* or later.
THEOREM FailedPart == Spec => []FailedPartFailsUpload
<1>1. OutcomeInv => FailedPartFailsUpload
  BY DEF OutcomeInv, FailedPartFailsUpload
<1> QED BY <1>1, OutcomeIsSettled, PTL
-----------------------------------------------------------------------------
(* The data *)

\* Where part p starts in the stream.
Offset(p) == (p - 1) * PartSize

LEMMA OffsetStep ==
  ASSUME NEW p \in Nat \ {0}
  PROVE  /\ Offset(p) \in Nat
         /\ Offset(p + 1) = Offset(p) + PartSize
         /\ Offset(1) = 0
<1>1. p - 1 \in Nat /\ PartSize \in Nat
  BY UploadAssumption DEF UploadAssumption
<1>2. (p - 1) * PartSize \in Nat
  BY <1>1
<1>3. ((p + 1) - 1) * PartSize = (p - 1) * PartSize + PartSize
  BY <1>1
<1>4. (1 - 1) * PartSize = 0
  BY <1>1
<1> QED BY <1>2, <1>3, <1>4 DEF Offset

\* The number of the last part Write or Close started to send.
Last == IF at \in {"closing", "completing"} /\ current # None THEN partNum ELSE partNum - 1

\* Every part but the last is full, the last ends where the writing ended.
IsPart(data, p) ==
  /\ data.first = Offset(p)
  /\ IF p < partNum THEN data.size = PartSize ELSE Offset(p) + data.size = written

\* The writer is open.
Live == at \in {"copying", "writing", "closing", "completing"}

\* Nothing is written before the upload is open, and a Write call has work left.
StartInv ==
  /\ at = "opening" =>
       /\ written = 0 /\ partNum = 1 /\ parts = <<>>
       /\ \A w \in Workers : buffer[w].size = 0
  /\ at = "writing" => left > 0

\* The current worker holds what follows the parts that were sent, and the worker
\* Write takes next has an empty buffer or has failed.
HeldInv ==
  /\ at \in {"copying", "writing"} =>
       /\ current # None =>
            /\ buffer[current].first = Offset(partNum)
            /\ buffer[current].size < PartSize
            /\ written = Offset(partNum) + buffer[current].size
       /\ \A w \in idle : buffer[w].size = 0 \/ numRetries[w] > MaxRetries
  /\ Live /\ current = None => written = Offset(partNum)

\* The parts GCS has confirmed and those under way are the pieces 1 to Last of the
\* stream, none is missing unless one was given up.
PiecesInv ==
  Live =>
    /\ \A p \in DOMAIN parts : p \in 1 .. Last /\ IsPart(parts[p], p)
    /\ \A w \in Workers : sending[w] # 0 =>
         sending[w] \in 1 .. Last /\ IsPart(buffer[w], sending[w])
    /\ \A p \in 1 .. Last :
         p \in DOMAIN parts \/ uploadErr \/ \E w \in Workers : sending[w] = p

DataInv == StartInv /\ HeldInv /\ PiecesInv /\ ObjectIsWhatWasWritten

LEMMA DataInit == Init => DataInv
BY DEF Init, Empty, DataInv, StartInv, HeldInv, PiecesInv, Live, ObjectIsWhatWasWritten, Stored

\* One round of Write: the buffer of w continues the stream, and when it is full it
\* is the next part.
LEMMA DataFill ==
  ASSUME WorkInv, OutcomeInv, DataInv, NEW w \in Workers, FillBuffer(w)
  PROVE  DataInv'
<1> DEFINE room == PartSize - buffer[w].size
           n    == IF left < room THEN left ELSE room
           from == IF buffer[w].size = 0 THEN written ELSE buffer[w].first
<1>1. /\ Takes(w)
      /\ buffer' = [buffer EXCEPT ![w] = [first |-> from, size |-> @.size + n]]
      /\ written' = written + n
      /\ left' = left - n
      /\ at' = IF left = n THEN "copying" ELSE "writing"
      /\ sending' = IF n = room THEN [sending EXCEPT ![w] = partNum] ELSE sending
      /\ partNum' = IF n = room THEN partNum + 1 ELSE partNum
      /\ current' = IF n = room THEN None ELSE w
      /\ UNCHANGED <<result, numRetries, parts, uploadErr, session, object>>
  BY DEF FillBuffer, gcsVars
<1>2. /\ at = "writing" /\ idle' = idle \ {w} /\ w # None
      /\ IF current = None THEN w \in idle ELSE w = current
  BY <1>1, UploadAssumption DEF Takes, UploadAssumption
<1>3. /\ sending[w] = 0 /\ numRetries[w] <= MaxRetries /\ numRetries[w] \in Int
      /\ MaxRetries \in Int
  BY TakenWorker, UploadAssumption DEF WorkInv, TypeOK, UploadAssumption
<1>4. /\ written \in Nat /\ left \in Nat \ {0} /\ partNum \in Nat \ {0} /\ PartSize \in Nat \ {0}
      /\ buffer[w].size \in Nat /\ buffer[w].first \in Nat
      /\ buffer \in [Workers -> Interval] /\ sending \in [Workers -> Nat]
  BY <1>2, UploadAssumption DEF WorkInv, TypeOK, Interval, UploadAssumption, DataInv, StartInv
<1>5. /\ from = Offset(partNum)
      /\ written = Offset(partNum) + buffer[w].size
      /\ buffer[w].size < PartSize
  <2>1. CASE current = None
    <3>1. buffer[w].size = 0
      BY <2>1, <1>2, <1>3, <1>4 DEF DataInv, HeldInv
    <3>2. written = Offset(partNum)
      BY <2>1, <1>2 DEF DataInv, HeldInv, Live
    <3> QED BY <3>1, <3>2, <1>4
  <2>2. CASE current # None
    <3>1. /\ buffer[w].first = Offset(partNum)
          /\ buffer[w].size < PartSize
          /\ written = Offset(partNum) + buffer[w].size
      BY <2>2, <1>2 DEF DataInv, HeldInv
    <3>2. Offset(partNum) \in Nat
      BY <1>4, OffsetStep
    <3> QED BY <3>1, <3>2, <1>4
  <2> QED BY <2>1, <2>2
<1>6. /\ n \in Nat \ {0} /\ buffer[w].size + n <= PartSize
      /\ n # room => buffer[w].size + n < PartSize
      /\ n = room => buffer[w].size + n = PartSize
  BY <1>4, <1>5
<1>7. /\ Offset(partNum) \in Nat /\ Offset(partNum + 1) = Offset(partNum) + PartSize
  BY <1>4, OffsetStep
<1>8. /\ buffer'[w] = [first |-> Offset(partNum), size |-> buffer[w].size + n]
      /\ \A v \in Workers : v # w => buffer'[v] = buffer[v] /\ sending'[v] = sending[v]
      /\ sending'[w] = IF n = room THEN partNum ELSE 0
  BY <1>1, <1>3, <1>4, <1>5
<1>9. at' \in {"copying", "writing"} /\ (at' = "writing" => left' > 0)
  <2>1. CASE left = n
    BY <2>1, <1>1
  <2>2. CASE left # n
    BY <2>2, <1>1, <1>4
  <2> QED BY <2>1, <2>2
<1> HIDE DEF room, n, from
<1>10. StartInv'
  BY <1>9 DEF StartInv
<1>11. HeldInv'
  <2>1. ASSUME current' # None
        PROVE  /\ buffer'[current'].first = Offset(partNum')
               /\ buffer'[current'].size < PartSize
               /\ written' = Offset(partNum') + buffer'[current'].size
    <3>1. n # room /\ current' = w /\ partNum' = partNum
      BY <2>1, <1>1
    <3> QED BY <3>1, <1>1, <1>4, <1>5, <1>6, <1>7, <1>8
  <2>2. \A v \in idle' : buffer'[v].size = 0 \/ numRetries'[v] > MaxRetries
    BY <1>1, <1>2, <1>8 DEF DataInv, HeldInv, WorkInv, TypeOK
  <2>3. ASSUME current' = None PROVE written' = Offset(partNum')
    <3>1. n = room /\ partNum' = partNum + 1
      BY <2>3, <1>1, <1>2
    <3> QED BY <3>1, <1>1, <1>4, <1>5, <1>6, <1>7
  <2> QED BY <2>1, <2>2, <2>3 DEF HeldInv, Offset
<1>12. PiecesInv'
  <2>1. /\ Last = partNum - 1 /\ Last' = partNum' - 1
        /\ partNum' \in {partNum, partNum + 1} /\ Live
    BY <1>1, <1>2, <1>9 DEF Last, Live
  <2>2. ASSUME NEW p \in DOMAIN parts'
        PROVE  p \in 1 .. Last' /\ IsPart(parts[p], p)'
    <3>1. p \in DOMAIN parts /\ p \in 1 .. Last /\ IsPart(parts[p], p) /\ parts'[p] = parts[p]
      BY <2>1, <2>2, <1>1 DEF DataInv, PiecesInv
    <3>2. p \in Int /\ p < partNum /\ p < partNum' /\ p \in 1 .. Last'
      BY <3>1, <2>1, <1>4
    <3> QED BY <3>1, <3>2 DEF IsPart, Offset
  <2>3. ASSUME NEW v \in Workers, sending'[v] # 0
        PROVE  sending'[v] \in 1 .. Last' /\ IsPart(buffer[v], sending[v])'
    <3>1. CASE v = w
      <4>1. n = room /\ partNum' = partNum + 1 /\ sending'[v] = partNum
        BY <3>1, <2>3, <1>1, <1>8
      <4>2. buffer'[v].first = Offset(partNum) /\ buffer'[v].size = PartSize
        BY <4>1, <3>1, <1>6, <1>8
      <4> QED BY <4>1, <4>2, <2>1, <1>4 DEF IsPart, Offset
    <3>2. CASE v # w
      <4>1. /\ sending'[v] = sending[v] /\ buffer'[v] = buffer[v]
            /\ sending[v] \in 1 .. Last /\ IsPart(buffer[v], sending[v])
        BY <3>2, <2>1, <2>3, <1>8 DEF DataInv, PiecesInv
      <4>2. sending[v] \in Int /\ sending[v] < partNum /\ sending[v] < partNum'
            /\ sending[v] \in 1 .. Last'
        BY <4>1, <2>1, <1>4
      <4> QED BY <4>1, <4>2 DEF IsPart, Offset
    <3> QED BY <3>1, <3>2
  <2>4. ASSUME NEW p \in 1 .. Last'
        PROVE  p \in DOMAIN parts' \/ uploadErr' \/ \E v \in Workers : sending'[v] = p
    <3>1. CASE p \in 1 .. Last
      <4>1. p \in DOMAIN parts \/ uploadErr \/ \E v \in Workers : sending[v] = p
        BY <3>1, <2>1 DEF DataInv, PiecesInv
      <4>2. ASSUME NEW v \in Workers, sending[v] = p PROVE sending'[v] = p
        BY <4>2, <3>1, <1>3, <1>8
      <4> QED BY <4>1, <4>2, <1>1
    <3>2. CASE p \notin 1 .. Last
      <4>1. p = partNum /\ partNum' = partNum + 1
        <5>1. p \in 1 .. (partNum' - 1) /\ p \notin 1 .. (partNum - 1)
          BY <2>1, <2>4, <3>2
        <5>2. partNum \in Nat
          BY <1>4
        <5>3. CASE partNum' = partNum
          BY <5>1, <5>3
        <5>4. CASE partNum' = partNum + 1
          BY <5>1, <5>2, <5>4
        <5> QED BY <5>3, <5>4, <2>1
      <4>2. n = room
        BY <4>1, <1>1, <1>4
      <4> QED BY <4>1, <4>2, <1>8
    <3> QED BY <3>1, <3>2
  <2> QED BY <2>2, <2>3, <2>4 DEF PiecesInv
<1>13. ObjectIsWhatWasWritten'
  BY <1>1, <1>2 DEF OutcomeInv, ObjectIsWhatWasWritten, Stored
<1> QED BY <1>10, <1>11, <1>12, <1>13 DEF DataInv

\* The list of parts from which GCS assembles the object, when none was given up.
LEMMA DataComplete ==
  ASSUME WorkInv, OutcomeInv, DataInv, at = "completing",
         object' = Listed, UNCHANGED written
  PROVE  /\ \A i \in 1 .. Len(object') :
              /\ object'[i].first = IF i = 1 THEN 0
                                    ELSE object'[i - 1].first + object'[i - 1].size
              /\ i < Len(object') => object'[i].size = PartSize
         /\ Size(object') = written
<1>1. /\ partNum \in Nat \ {0} /\ Last \in Nat /\ Last <= partNum /\ partNum - 1 <= Last
      /\ written \in Nat /\ PartSize \in Nat
  BY UploadAssumption DEF WorkInv, TypeOK, Last, UploadAssumption
<1>2. DOMAIN parts = 1 .. Last
  <2>1. DOMAIN parts \subseteq 1 .. Last
    BY DEF DataInv, PiecesInv, Live
  <2>2. ~uploadErr /\ \A w \in Workers : sending[w] = 0
    BY DEF OutcomeInv
  <2>3. \A p \in 1 .. Last : p # 0 /\ (p \in DOMAIN parts \/ \E w \in Workers : sending[w] = p)
    BY <1>1, <2>2 DEF DataInv, PiecesInv, Live
  <2> QED BY <2>1, <2>2, <2>3
<1>3. Cardinality(DOMAIN parts) = Last
  BY <1>1, <1>2, FS_Interval
<1>4. object' = [p \in 1 .. Last |-> parts[p]]
  BY <1>3 DEF Listed
<1>5. \A p \in 1 .. Last : parts[p] \in Interval
  BY <1>2 DEF WorkInv, TypeOK
<1>6. Len(object') = Last /\ (object' = <<>> <=> Last = 0)
  <2>1. object' \in Seq(Interval)
    <3>1. object' \in [1 .. Last -> Interval]
      BY <1>4, <1>5
    <3> QED BY <3>1, <1>1, SeqDef
  <2>2. Len(object') = Last
    BY <1>1, <1>4, <2>1, LenProperties
  <2> QED BY <2>1, <2>2, EmptySeq
<1>7. \A p \in 1 .. Last : object'[p] = parts[p] /\ IsPart(parts[p], p)
  BY <1>2, <1>4 DEF DataInv, PiecesInv, Live
<1>8. ASSUME NEW i \in 1 .. Last
      PROVE  /\ object'[i].first = IF i = 1 THEN 0
                                   ELSE object'[i - 1].first + object'[i - 1].size
             /\ i < Last => object'[i].size = PartSize
  <2>1. object'[i].first = Offset(i) /\ (i < partNum => object'[i].size = PartSize)
    BY <1>7, <1>8 DEF IsPart
  <2>2. CASE i = 1
    <3>1. Offset(1) = 0
      BY OffsetStep
    <3> QED BY <3>1, <2>1, <2>2, <1>1
  <2>3. CASE i # 1
    <3>1. i - 1 \in 1 .. Last /\ i - 1 < partNum /\ i - 1 \in Nat \ {0} /\ (i - 1) + 1 = i
      BY <2>3, <1>1
    <3>2. object'[i - 1].first = Offset(i - 1) /\ object'[i - 1].size = PartSize
      BY <3>1, <1>7 DEF IsPart
    <3>3. Offset((i - 1) + 1) = Offset(i - 1) + PartSize
      BY <3>1, OffsetStep
    <3> QED BY <3>1, <3>2, <3>3, <2>1, <2>3, <1>1
  <2> QED BY <2>2, <2>3
<1>9. Size(object') = written
  <2>1. CASE Last = 0
    <3>1. current = None /\ partNum = 1
      BY <2>1, <1>1 DEF Last
    <3>2. written = Offset(1) /\ Offset(1) = 0
      BY <3>1, OffsetStep DEF DataInv, HeldInv, Live
    <3> QED BY <3>2, <2>1, <1>6 DEF Size
  <2>2. CASE Last # 0
    <3>1. Size(object') = parts[Last].first + parts[Last].size /\ IsPart(parts[Last], Last)
      BY <2>2, <1>1, <1>6, <1>7 DEF Size
    <3>2. CASE Last = partNum
      BY <3>1, <3>2, <1>1 DEF IsPart
    <3>3. CASE Last # partNum
      <4>1. Last + 1 = partNum /\ current = None /\ Last < partNum
        BY <3>3, <1>1 DEF Last
      <4>2. written = Offset(Last + 1)
        BY <4>1 DEF DataInv, HeldInv, Live
      <4>3. Offset(Last + 1) = Offset(Last) + PartSize
        BY <2>2, <1>1, OffsetStep
      <4> QED BY <3>1, <4>1, <4>2, <4>3 DEF IsPart
    <3> QED BY <3>2, <3>3
  <2> QED BY <2>1, <2>2
<1> QED BY <1>6, <1>8, <1>9

\* A goroutine of uploadPartAsync delivers its part, keeps it, or gives up.
LEMMA DataSend ==
  ASSUME WorkInv, OutcomeInv, DataInv, NEW w \in Workers, Sending(w)
  PROVE  DataInv'
<1>1. /\ sending[w] # 0 /\ w \notin idle
      /\ at \in {"copying", "writing"} => w # current
      /\ UNCHANGED <<at, left, current, written, partNum, session, object>>
  BY UploadAssumption
     DEF Sending, PartUploaded, PartRetried, PartFailed, WorkInv, WorkersAreExclusive,
         UploadAssumption, callVars, gcsVars
<1>2. at # "opening"
  BY <1>1 DEF WorkInv
<1>3. StartInv' /\ ObjectIsWhatWasWritten' /\ Last' = Last /\ (Live' <=> Live)
  BY <1>1, <1>2
     DEF DataInv, StartInv, ObjectIsWhatWasWritten, Stored, Size, Last, Live
<1>4. CASE PartUploaded(w)
  <2>1. /\ parts' = [p \in DOMAIN parts \cup {sending[w]} |->
                       IF p = sending[w] THEN buffer[w] ELSE parts[p]]
        /\ idle' = idle \cup {w} /\ uploadErr' = uploadErr
        /\ buffer'[w].size = 0 /\ sending'[w] = 0
        /\ \A v \in Workers : v # w => /\ buffer'[v] = buffer[v]
                                       /\ sending'[v] = sending[v]
                                       /\ numRetries'[v] = numRetries[v]
    BY <1>4 DEF PartUploaded, Empty, WorkInv, TypeOK
  <2>2. HeldInv'
    <3>1. current # None => current \in Workers
      BY DEF WorkInv, TypeOK
    <3>2. idle \subseteq Workers
      BY DEF WorkInv, TypeOK
    <3> QED BY <3>1, <3>2, <2>1, <1>1 DEF DataInv, HeldInv, Live, Offset
  <2>3. ASSUME Live PROVE \A p \in DOMAIN parts' : p \in 1 .. Last' /\ IsPart(parts[p], p)'
    BY <2>1, <2>3, <1>1, <1>3 DEF DataInv, PiecesInv, IsPart, Offset
  <2>4. ASSUME Live, NEW v \in Workers, sending'[v] # 0
        PROVE  sending'[v] \in 1 .. Last' /\ IsPart(buffer[v], sending[v])'
    BY <2>1, <2>4, <1>1, <1>3 DEF DataInv, PiecesInv, IsPart, Offset
  <2>5. ASSUME Live, NEW p \in 1 .. Last'
        PROVE  p \in DOMAIN parts' \/ uploadErr' \/ \E v \in Workers : sending'[v] = p
    <3>1. p \in DOMAIN parts \/ uploadErr \/ \E v \in Workers : sending[v] = p
      BY <2>5, <1>3 DEF DataInv, PiecesInv
    <3> QED BY <3>1, <2>1
  <2> QED BY <1>3, <2>2, <2>3, <2>4, <2>5 DEF DataInv, PiecesInv
<1>5. CASE PartRetried(w)
  <2>1. /\ UNCHANGED <<idle, buffer, sending, parts, uploadErr>>
        /\ \A v \in Workers : v # w => numRetries'[v] = numRetries[v]
    BY <1>5 DEF PartRetried, WorkInv, TypeOK
  <2>2. HeldInv'
    BY <2>1, <1>1 DEF DataInv, HeldInv, Live, Offset, WorkInv, TypeOK
  <2>3. PiecesInv'
    BY <2>1, <1>1, <1>3 DEF DataInv, PiecesInv, IsPart, Offset
  <2> QED BY <1>3, <2>2, <2>3 DEF DataInv
<1>6. CASE PartFailed(w)
  <2>1. /\ UNCHANGED <<buffer, parts>>
        /\ idle' = idle \cup {w} /\ uploadErr' /\ numRetries'[w] > MaxRetries
        /\ sending'[w] = 0
        /\ \A v \in Workers : v # w => /\ sending'[v] = sending[v]
                                       /\ numRetries'[v] = numRetries[v]
    BY <1>6 DEF PartFailed, WorkInv, TypeOK
  <2>2. HeldInv'
    BY <2>1, <1>1 DEF DataInv, HeldInv, Live, Offset, WorkInv, TypeOK
  <2>3. PiecesInv'
    BY <2>1, <1>1, <1>3 DEF DataInv, PiecesInv, IsPart, Offset
  <2> QED BY <1>3, <2>2, <2>3 DEF DataInv
<1> QED BY <1>4, <1>5, <1>6 DEF Sending

LEMMA DataStep == WorkInv /\ OutcomeInv /\ DataInv /\ [Next]_vars => DataInv'
<1> SUFFICES ASSUME WorkInv, OutcomeInv, DataInv, [Next]_vars PROVE DataInv'
  OBVIOUS
<1> USE DEF callVars, workerVars, gcsVars
<1>1. CASE Open
  <2>1. /\ written = 0 /\ partNum = 1 /\ parts = <<>> /\ current = None /\ ~Stored
        /\ \A w \in Workers : buffer[w].size = 0 /\ sending[w] = 0
    BY <1>1 DEF Open, DataInv, StartInv, WorkInv, OutcomeInv
  <2>2. UNCHANGED <<callVars, buffer, sending, parts>> /\ session' # "completed"
        /\ \/ at' = "copying" /\ idle' = Workers
           \/ at' = "returned"
    BY <1>1, <2>1 DEF Open, Return, Stored
  <2>3. Offset(1) = 0
    BY OffsetStep
  <2>4. StartInv' /\ ObjectIsWhatWasWritten'
    BY <2>2 DEF StartInv, ObjectIsWhatWasWritten, Stored
  <2>5. HeldInv'
    BY <2>1, <2>2, <2>3 DEF HeldInv, Live, Offset
  <2>6. PiecesInv'
    <3>1. DOMAIN parts' = {} /\ (Live' => Last' = 0)
      BY <2>1, <2>2 DEF Last, Live
    <3> QED BY <3>1, <2>1, <2>2 DEF PiecesInv
  <2> QED BY <2>4, <2>5, <2>6 DEF DataInv
<1>2. ASSUME NEW k \in WriteSizes, CallWrite(k) PROVE DataInv'
  <2>1. k \in Nat \ {0}
    BY UploadAssumption DEF UploadAssumption
  <2>2. /\ at = "copying" /\ at' = "writing" /\ left' = k
        /\ UNCHANGED <<written, partNum, current, workerVars, parts, uploadErr, gcsVars>>
    BY <1>2 DEF CallWrite
  <2> QED BY <2>1, <2>2 DEF DataInv, StartInv, HeldInv, PiecesInv, Live, Last, IsPart, Offset,
                            ObjectIsWhatWasWritten, Stored, Size
<1>3. ASSUME SourceFails \/ \E w \in Workers : WriteFails(w) PROVE DataInv'
  <2>1. ~Live' /\ at' = "returned" /\ session' # "completed"
    BY <1>3 DEF SourceFails, WriteFails, Takes, Return, Live, AbortMultipartUpload,
                OutcomeInv, Stored
  <2> QED BY <2>1 DEF DataInv, StartInv, HeldInv, PiecesInv, Live,
                      ObjectIsWhatWasWritten, Stored
<1>4. ASSUME NEW w \in Workers, FillBuffer(w) PROVE DataInv'
  BY <1>4, DataFill
<1>5. CASE CallClose
  <2>1. /\ at = "copying" /\ at' = "closing" /\ ~Stored
        /\ sending' = IF current = None THEN sending ELSE [sending EXCEPT ![current] = partNum]
        /\ UNCHANGED <<written, left, partNum, current, idle, buffer, numRetries, parts,
                       uploadErr, session, object>>
    BY <1>5 DEF CallClose, OutcomeInv
  <2>2. StartInv' /\ ObjectIsWhatWasWritten' /\ HeldInv'
    BY <2>1 DEF StartInv, ObjectIsWhatWasWritten, Stored, HeldInv, Live, DataInv, Offset
  <2>3. partNum \in Nat \ {0} /\ Last = partNum - 1 /\ Live
    BY <2>1 DEF WorkInv, TypeOK, Last, Live
  <2>4. CASE current = None
    <3>1. Last' = Last
      BY <2>1, <2>4 DEF Last
    <3> QED BY <3>1, <2>1, <2>2, <2>3, <2>4 DEF DataInv, PiecesInv, IsPart, Offset
  <2>5. CASE current # None
    <3>1. /\ Last' = partNum /\ current \in Workers /\ sending[current] = 0
          /\ sending'[current] = partNum
          /\ \A v \in Workers : v # current => sending'[v] = sending[v]
      BY <2>1, <2>5 DEF Last, WorkInv, TypeOK, WorkersAreExclusive
    <3>2. IsPart(buffer[current], partNum)'
      BY <2>1, <2>3, <2>5 DEF DataInv, HeldInv, IsPart, Offset
    <3>3. 1 .. Last \subseteq 1 .. Last' /\ partNum \in 1 .. Last'
      BY <2>3, <3>1
    <3>4. \A p \in DOMAIN parts' : p \in 1 .. Last' /\ IsPart(parts[p], p)'
      BY <2>1, <2>3, <3>3 DEF DataInv, PiecesInv, IsPart, Offset
    <3>5. ASSUME NEW v \in Workers, sending'[v] # 0
          PROVE  sending'[v] \in 1 .. Last' /\ IsPart(buffer[v], sending[v])'
      <4>1. CASE v = current
        BY <4>1, <2>1, <3>1, <3>2, <3>3
      <4>2. CASE v # current
        BY <4>2, <3>5, <2>1, <2>3, <3>1, <3>3 DEF DataInv, PiecesInv, IsPart, Offset
      <4> QED BY <4>1, <4>2
    <3>6. ASSUME NEW p \in 1 .. Last'
          PROVE  p \in DOMAIN parts' \/ uploadErr' \/ \E v \in Workers : sending'[v] = p
      <4>1. CASE p = partNum
        BY <4>1, <3>1
      <4>2. CASE p # partNum
        <5>1. p \in 1 .. Last /\ p # 0
          BY <4>2, <2>3, <3>1
        <5>2. p \in DOMAIN parts \/ uploadErr \/ \E v \in Workers : sending[v] = p
          BY <5>1, <2>3 DEF DataInv, PiecesInv
        <5> QED BY <5>1, <5>2, <2>1, <3>1
      <4> QED BY <4>1, <4>2
    <3> QED BY <2>2, <3>4, <3>5, <3>6 DEF DataInv, PiecesInv
  <2> QED BY <2>4, <2>5
<1>6. CASE AllWorkersIdle
  <2>1. /\ at = "closing" /\ at' \in {"completing", "returned"} /\ session' # "completed"
        /\ UNCHANGED <<callVars, buffer, sending, parts, uploadErr>>
    BY <1>6 DEF AllWorkersIdle, Return, AbortMultipartUpload, OutcomeInv, Stored
  <2>2. StartInv' /\ ObjectIsWhatWasWritten'
    BY <2>1 DEF StartInv, ObjectIsWhatWasWritten, Stored
  <2>3. HeldInv' /\ PiecesInv'
    BY <2>1 DEF DataInv, HeldInv, PiecesInv, Live, Last, IsPart, Offset
  <2> QED BY <2>2, <2>3 DEF DataInv
<1>7. CASE Complete
  <2>1. /\ at = "completing" /\ at' \in {"updating", "returned"} /\ written' = written
        /\ \/ session' = "completed" /\ object' = Listed
           \/ session' # "completed"
    BY <1>7 DEF Complete, Return, AbortMultipartUpload, OutcomeInv, Stored
  <2>2. StartInv' /\ HeldInv' /\ PiecesInv'
    BY <2>1 DEF StartInv, HeldInv, PiecesInv, Live
  <2>3. CASE session' = "completed" /\ object' = Listed
    <3>1. /\ \A i \in 1 .. Len(object') :
               /\ object'[i].first = IF i = 1 THEN 0
                                     ELSE object'[i - 1].first + object'[i - 1].size
               /\ i < Len(object') => object'[i].size = PartSize
          /\ Size(object') = written
      BY <2>1, <2>3, DataComplete
    <3> QED BY <3>1, <2>1, <2>2 DEF DataInv, ObjectIsWhatWasWritten, Size
  <2>4. CASE session' # "completed"
    BY <2>2, <2>4 DEF DataInv, ObjectIsWhatWasWritten, Stored
  <2> QED BY <2>1, <2>3, <2>4
<1>8. ASSUME UpdateMetadata \/ Verify PROVE DataInv'
  <2>1. at' \in {"verifying", "returned"} /\ UNCHANGED <<written, session, object>>
    BY <1>8 DEF UpdateMetadata, Verify, Return
  <2> QED BY <2>1 DEF DataInv, StartInv, HeldInv, PiecesInv, Live,
                      ObjectIsWhatWasWritten, Stored, Size
<1>9. ASSUME NEW w \in Workers, Sending(w) PROVE DataInv'
  BY <1>9, DataSend
<1>10. CASE UNCHANGED vars
  BY <1>10 DEF vars, DataInv, StartInv, HeldInv, PiecesInv, Live, Last, IsPart, Offset,
               ObjectIsWhatWasWritten, Stored, Size
<1> QED BY <1>1, <1>2, <1>3, <1>4, <1>5, <1>6, <1>7, <1>8, <1>9, <1>10 DEF Next, Uploading

\* An object that exists is the source up to where it was read: the parts in the
\* order they were cut, none missing, doubled or cut short.
THEOREM ObjectIsWhole == Spec => []ObjectIsWhatWasWritten
<1>1. DataInv => ObjectIsWhatWasWritten
  BY DEF DataInv
<1> QED BY <1>1, DataInit, DataStep, OutcomeIsSettled, WorkersAgree, PTL DEF Spec

-----------------------------------------------------------------------------
(* Refinement *)

LEMMA AtomicStep ==
  WorkInv /\ WorkInv' /\ OutcomeInv /\ OutcomeInv' /\ DataInv /\ DataInv' /\ [Next]_vars =>
    [Atomic!Next]_<<IF ~Stored THEN "none" ELSE
                    IF Size(object) = written /\ at \notin {"copying", "writing"}
                      THEN "whole" ELSE "broken", result>>
<1> DEFINE abstract == IF ~Stored THEN "none" ELSE
                       IF Size(object) = written /\ at \notin {"copying", "writing"}
                         THEN "whole" ELSE "broken"
<1> SUFFICES ASSUME WorkInv, WorkInv', OutcomeInv, OutcomeInv', DataInv, DataInv',
                    [Next]_vars
             PROVE  [Atomic!Next]_<<abstract, result>>
  OBVIOUS
<1>1. abstract = (IF Stored THEN "whole" ELSE "none")
  BY DEF OutcomeInv, DataInv, ObjectIsWhatWasWritten
<1>2. abstract' = (IF Stored' THEN "whole" ELSE "none")
  BY DEF OutcomeInv, DataInv, ObjectIsWhatWasWritten
<1> HIDE DEF abstract
<1> USE DEF Stored, callVars, workerVars, gcsVars
<1>3. ASSUME UNCHANGED <<session, result>> PROVE UNCHANGED <<abstract, result>>
  BY <1>1, <1>2, <1>3
<1>4. ASSUME result = "none", result' = "error", Stored' <=> Stored
      PROVE  Atomic!Fail
  BY <1>1, <1>2, <1>4 DEF Atomic!Fail, abstract
<1>5. CASE Complete
  <2>1. ~Stored /\ result = "none"
    BY <1>5 DEF Complete, OutcomeInv
  <2>2. /\ Stored' => result' \in {"none", "error"}
        /\ ~Stored' => result' = "error"
    BY <1>5, <2>1 DEF Complete, Return, AbortMultipartUpload
  <2>3. CASE Stored'
    <3>1. Atomic!Store
      BY <1>1, <1>2, <2>1, <2>2, <2>3 DEF Atomic!Store, abstract
    <3> QED BY <3>1 DEF Atomic!Next
  <2>4. CASE ~Stored'
    BY <1>4, <2>1, <2>2, <2>4 DEF Atomic!Next
  <2> QED BY <2>3, <2>4
<1>6. ASSUME UpdateMetadata \/ Verify PROVE [Atomic!Next]_<<abstract, result>>
  <2>1. Stored /\ Stored' /\ result = "none"
    BY <1>6 DEF UpdateMetadata, Verify, OutcomeInv
  <2>2. result' \in {"none", "ok", "error"}
    BY DEF WorkInv, TypeOK
  <2>3. CASE result' = "none"
    BY <1>1, <1>2, <2>1, <2>3
  <2>4. CASE result' = "ok"
    <3>1. Atomic!Succeed
      BY <1>1, <1>2, <2>1, <2>4 DEF Atomic!Succeed, abstract
    <3> QED BY <3>1 DEF Atomic!Next
  <2>5. CASE result' = "error"
    BY <1>4, <2>1, <2>5 DEF Atomic!Next
  <2> QED BY <2>2, <2>3, <2>4, <2>5
<1>7. ASSUME \/ Open \/ SourceFails \/ AllWorkersIdle
             \/ \E w \in Workers : WriteFails(w)
      PROVE  [Atomic!Next]_<<abstract, result>>
  <2>1. ~Stored /\ ~Stored' /\ result = "none" /\ result' \in {"none", "error"}
    BY <1>7 DEF Open, SourceFails, AllWorkersIdle, WriteFails, Takes, Return,
                AbortMultipartUpload, OutcomeInv
  <2>2. CASE result' = "none"
    BY <1>1, <1>2, <2>1, <2>2
  <2>3. CASE result' = "error"
    BY <1>4, <2>1, <2>3 DEF Atomic!Next
  <2> QED BY <2>1, <2>2, <2>3
<1>8. ASSUME \/ CallClose
             \/ \E k \in WriteSizes : CallWrite(k)
             \/ \E w \in Workers : FillBuffer(w) \/ Sending(w)
      PROVE  UNCHANGED <<session, result>>
  BY <1>8 DEF CallClose, CallWrite, FillBuffer, Sending, PartUploaded, PartRetried, PartFailed
<1>9. CASE UNCHANGED vars
  BY <1>3, <1>9 DEF vars
<1> QED BY <1>3, <1>5, <1>6, <1>7, <1>8, <1>9 DEF Next, Uploading

\* Upload is all or nothing, whatever the source, the goroutines and GCS do.
THEOREM UploadIsAtomic == Spec => ImplementsAtomicUpload
<1>1. Init => Atomic!Init
  BY DEF Init, Atomic!Init, Stored
<1>2. Spec => []DataInv
  BY DataInit, DataStep, OutcomeIsSettled, WorkersAgree, PTL DEF Spec
<1> QED BY <1>1, <1>2, AtomicStep, OutcomeIsSettled, WorkersAgree, PTL
        DEF Spec, ImplementsAtomicUpload, Atomic!Spec
=============================================================================
