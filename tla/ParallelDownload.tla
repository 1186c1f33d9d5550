-------------------------- MODULE ParallelDownload --------------------------
(***************************************************************************)
(* sharedlibraries/storage: ReadWriter.Download with two or more           *)
(* ParallelDownloadWorkers.                                                *)
(*                                                                         *)
(* The goroutine of Download copies from a ParallelReader, which hands out *)
(* the chunks its workers fetched, in turn.  A goroutine per assigned      *)
(* chunk (assignWorkersChunk, fillWorkerBuffer) fills the buffer of its    *)
(* worker from a range reader and sends the worker's number over the       *)
(* channel idleWorkersIDs.                                                 *)
(*                                                                         *)
(* The object is the sequence of units 0, 1, ..., ObjectSize - 1.          *)
(***************************************************************************)
EXTENDS Integers, Sequences

CONSTANTS
  NumWorkers,   \* rw.ParallelDownloadWorkers
  PartSize,     \* r.partSizeBytes, in units
  ObjectSize,   \* the size of the object in the bucket
  TotalBytes,   \* rw.TotalBytes: the size the caller claims
  ReadSizes,    \* lengths of the slices the copier reads into
  EOFWithData   \* TRUE: a range reader may return its last data with io.EOF

ASSUME DownloadAssumption ==
  /\ NumWorkers \in Nat \ {0, 1}
  /\ PartSize \in Nat \ {0}
  /\ ObjectSize \in Nat
  /\ TotalBytes \in Nat
  /\ ReadSizes \subseteq Nat \ {0}
  /\ EOFWithData \in BOOLEAN

Workers == 0 .. NumWorkers - 1

VARIABLES
  at,            \* where the goroutine of Download is
  result,        \* what Download returned: "none" until it does, "ok" or "error"
  wanted,        \* len(p) of the Read call in progress
  delivered,     \* the units Read handed out, in order
  objectOffset,  \* r.objectOffset
  currentWorker, \* r.currentWorkerID
  cancelled,     \* r.ctx.Done() is closed
  filling,       \* what the goroutine of each worker does
  startByte,     \* where the chunk of each worker starts
  bytesRead,     \* what fillWorkerBuffer has put into the buffer
  chunkSize,     \* worker.chunkSize
  bufferOffset,  \* worker.bufferOffset
  bytesRemain,   \* worker.BytesRemain
  copyReady,     \* worker.copyReady
  errReading,    \* worker.errReading is set
  idle           \* the workers in r.idleWorkersIDs

readVars == <<wanted, delivered, objectOffset, currentWorker>>
chunkVars == <<chunkSize, bufferOffset, bytesRemain>>
fillVars == <<filling, startByte, bytesRead>>
vars == <<at, result, readVars, cancelled, fillVars, chunkVars, copyReady, errReading, idle>>

Places == {"copying", "waiting", "returned"}
Lesser(a, b) == IF a < b THEN a ELSE b

\* Slip: a chunk that is not full counts as the end of the object.
AtEndOfFullChunks == objectOffset + PartSize > TotalBytes

AtEnd == objectOffset >= TotalBytes

\* Slip: taken for the first Read as long as the first chunk lasts.
FirstChunk == objectOffset < PartSize

FirstRead == objectOffset = 0

\* Slip: only full chunks are handed to a worker.
FullChunkAt(start) == start + PartSize <= TotalBytes

ChunkAt(start) == start < TotalBytes

\* Slip: the chunks of the other workers and one more are skipped.
NextStartTooFar(n) == objectOffset + n + NumWorkers * PartSize

\* The chunk after those the other workers have, once n more units are copied.
NextStart(n) == objectOffset + n + (NumWorkers - 1) * PartSize

\* Slip: no return to the first worker.
FollowingUnwrapped(w) == w + 1

Following(w) == (w + 1) % NumWorkers

\* What is left of the range of worker w for its reader to return.
RangeLeft(w) == Lesser(startByte[w] + PartSize, ObjectSize) - startByte[w] - bytesRead[w]

-----------------------------------------------------------------------------
\* NewParallelReader gave every worker a bucket.  It drops the error of ConnectToBucket: when
\* that fails, the nil bucket panics in the next statement, with nothing started so far.
Init ==
  /\ at = "copying"
  /\ result = "none"
  /\ wanted = 0
  /\ delivered = <<>>
  /\ objectOffset = 0
  /\ currentWorker = 0
  /\ cancelled = FALSE
  /\ filling = [w \in Workers |-> "nothing"]
  /\ startByte = [w \in Workers |-> 0]
  /\ bytesRead = [w \in Workers |-> 0]
  /\ chunkSize = [w \in Workers |-> 0]
  /\ bufferOffset = [w \in Workers |-> 0]
  /\ bytesRemain = [w \in Workers |-> 0]
  /\ copyReady = [w \in Workers |-> FALSE]
  /\ errReading = [w \in Workers |-> FALSE]
  /\ idle = {}

\* assignWorkersChunk for each worker in W, from byte start[w].  A goroutine that
\* still fills the buffer of the worker makes two: the worker is "contended".
Assign(W, start) ==
  /\ filling' = [w \in Workers |-> IF w \notin W THEN filling[w] ELSE
                                   IF filling[w] = "nothing" THEN "opening" ELSE "contended"]
  /\ startByte' = [w \in Workers |-> IF w \in W THEN start[w] ELSE startByte[w]]
  /\ bytesRead' = [w \in Workers |-> IF w \in W THEN 0 ELSE bytesRead[w]]

\* The copier stops, and the deferred Close of Download cancels the workers.
Return(verdict) ==
  /\ at' = "returned"
  /\ result' = verdict
  /\ cancelled' = TRUE

-----------------------------------------------------------------------------
(* The goroutine of Download *)

\* The copier calls Read with a slice of length n.  At offset 0 Read first sets
\* every worker to work.
CallRead(n) ==
  /\ at = "copying"
  /\ ~AtEnd
  /\ at' = "waiting"
  /\ wanted' = n
  /\ IF FirstRead
       THEN LET first == [w \in Workers |-> PartSize * w]
            IN  Assign({w \in Workers : ChunkAt(first[w])}, first)
       ELSE UNCHANGED fillVars
  /\ UNCHANGED <<result, delivered, objectOffset, currentWorker, cancelled, chunkVars,
                 copyReady, errReading, idle>>

ReadEOF ==
  /\ at = "copying"
  /\ AtEnd
  /\ Return("ok")
  /\ UNCHANGED <<readVars, fillVars, chunkVars, copyReady, errReading, idle>>

\* Attrs fails before the first Read, or the copier cannot write what it read.
CopierFails ==
  /\ at = "copying"
  /\ Return("error")
  /\ UNCHANGED <<readVars, fillVars, chunkVars, copyReady, errReading, idle>>

\* Read waits for the current worker and learns of others meanwhile.
ReceiveWorker(w) ==
  /\ at = "waiting"
  /\ ~copyReady[currentWorker]
  /\ w \in idle
  /\ idle' = idle \ {w}
  /\ IF cancelled \/ errReading[w]
       THEN Return("error") /\ UNCHANGED copyReady
       ELSE /\ copyReady' = [copyReady EXCEPT ![w] = TRUE]
            /\ UNCHANGED <<at, result, cancelled>>
  /\ UNCHANGED <<readVars, fillVars, chunkVars, errReading>>

CopyOut ==
  LET w == currentWorker
      n == Lesser(wanted, chunkSize[w] - bufferOffset[w])
      drained == bytesRemain[w] = n
  IN  /\ at = "waiting"
      /\ copyReady[w]
      /\ at' = "copying"
      /\ delivered' = delivered \o [i \in 1 .. n |-> startByte[w] + bufferOffset[w] + i - 1]
      /\ objectOffset' = objectOffset + n
      /\ bufferOffset' = [bufferOffset EXCEPT ![w] = @ + n]
      /\ bytesRemain' = [bytesRemain EXCEPT ![w] = @ - n]
      /\ copyReady' = [copyReady EXCEPT ![w] = ~drained]
      /\ currentWorker' = IF drained THEN Following(w) ELSE w
      /\ IF drained /\ ChunkAt(NextStart(n)) THEN Assign({w}, [v \in Workers |-> NextStart(n)])
           ELSE UNCHANGED fillVars
      /\ UNCHANGED <<result, wanted, cancelled, chunkSize, errReading, idle>>

-----------------------------------------------------------------------------
(* The goroutine that fills the buffer of worker w *)

\* It ends, with or without an error, and sends the worker's number.
EndFill(w, failed) ==
  /\ errReading' = [errReading EXCEPT ![w] = failed]
  /\ filling' = [filling EXCEPT ![w] = "nothing"]
  /\ idle' = idle \cup {w}
  /\ UNCHANGED <<at, result, readVars, cancelled, startByte, bytesRead, copyReady>>

\* NewRangeReader; a range that starts past the end of the object is an error.
OpenRange(w) ==
  /\ filling[w] = "opening"
  /\ startByte[w] < ObjectSize
  /\ ~cancelled
  /\ filling' = [filling EXCEPT ![w] = "reading"]
  /\ UNCHANGED <<at, result, readVars, cancelled, startByte, bytesRead, chunkVars, copyReady,
                 errReading, idle>>

\* The request or the stream fails, or the context is cancelled.
FillFails(w) ==
  /\ filling[w] \in {"opening", "reading"}
  /\ EndFill(w, TRUE)
  /\ UNCHANGED chunkVars

ReadRange(w) ==
  /\ filling[w] = "reading"
  /\ ~cancelled
  /\ \E n \in 1 .. RangeLeft(w) : bytesRead' = [bytesRead EXCEPT ![w] = @ + n]
  /\ UNCHANGED <<at, result, readVars, cancelled, filling, startByte, chunkVars, copyReady,
                 errReading, idle>>

\* The reader returns no data, or data along with io.EOF, which is not counted.
RangeEnds(w) ==
  /\ filling[w] = "reading"
  /\ ~cancelled
  /\ RangeLeft(w) = 0 \/ EOFWithData
  /\ chunkSize' = [chunkSize EXCEPT ![w] = bytesRead[w]]
  /\ bytesRemain' = [bytesRemain EXCEPT ![w] = bytesRead[w]]
  /\ bufferOffset' = [bufferOffset EXCEPT ![w] = 0]
  /\ EndFill(w, FALSE)

-----------------------------------------------------------------------------
\* The caller cancels the context it gave to Download.
Cancel ==
  /\ ~cancelled
  /\ cancelled' = TRUE
  /\ UNCHANGED <<at, result, readVars, fillVars, chunkVars, copyReady, errReading, idle>>

Reading ==
  \/ \E n \in ReadSizes : CallRead(n)
  \/ ReadEOF
  \/ CopierFails
  \/ \E w \in Workers : ReceiveWorker(w)
  \/ CopyOut

Filling(w) == OpenRange(w) \/ FillFails(w) \/ ReadRange(w) \/ RangeEnds(w)

Next == Reading \/ Cancel \/ \E w \in Workers : Filling(w)

Spec == Init /\ [][Next]_vars

\* Requests end, one way or the other, and both kinds of goroutine are scheduled.
FairSpec == Spec /\ WF_vars(Reading) /\ \A w \in Workers : WF_vars(Filling(w))

-----------------------------------------------------------------------------
(* Properties *)

TypeOK ==
  /\ at \in Places
  /\ result \in {"none", "ok", "error"}
  /\ wanted \in Nat
  /\ delivered \in Seq(Nat)
  /\ objectOffset \in Nat
  /\ currentWorker \in Workers
  /\ cancelled \in BOOLEAN
  /\ filling \in [Workers -> {"nothing", "opening", "reading", "contended"}]
  /\ startByte \in [Workers -> Nat]
  /\ bytesRead \in [Workers -> Nat]
  /\ chunkSize \in [Workers -> Nat]
  /\ bufferOffset \in [Workers -> Nat]
  /\ bytesRemain \in [Workers -> Nat]
  /\ copyReady \in [Workers -> BOOLEAN]
  /\ errReading \in [Workers -> BOOLEAN]
  /\ idle \subseteq Workers

\* Read hands out the bytes of the object in order, none skipped and none twice
\* ("Read asynchronously downloads data and returns the properly ordered bytes").
ProperlyOrdered == \A i \in 1 .. Len(delivered) : delivered[i] = i - 1

\* A download that reports success delivered the whole object.
SuccessIsWhole == result = "ok" => Len(delivered) = ObjectSize

\* The worker Read waits for is at work or about to be received: Read never waits
\* on the channel for a worker nobody will send.
CurrentWorkerIsComing ==
  at = "waiting" /\ ~copyReady[currentWorker] =>
    filling[currentWorker] # "nothing" \/ currentWorker \in idle

\* No buffer is filled while it is copied from or by two goroutines at once.
BuffersAreExclusive ==
  \A w \in Workers : filling[w] # "nothing" =>
    filling[w] # "contended" /\ ~copyReady[w] /\ w \notin idle

\* Read and the goroutines that fill buffers pass the workers on without either waiting
\* for a worker that nobody has or using one that the other has.
WorkersServeInTurn == CurrentWorkerIsComing /\ BuffersAreExclusive

\* Download returns and, once it has, every goroutine it started ends.
EverythingEnds == <>[](at = "returned" /\ \A w \in Workers : filling[w] = "nothing")
=============================================================================
