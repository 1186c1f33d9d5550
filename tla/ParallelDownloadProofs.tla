----------------------- MODULE ParallelDownloadProofs -----------------------
(***************************************************************************)
(* Theorems about ParallelDownload: for any number of workers, any sizes   *)
(* of chunks and objects and any lengths of the slices that Read is given. *)
(* What goes beyond types is about range readers that return their data    *)
(* before io.EOF; the size that the caller claims is bounded only where    *)
(* the theorem says so.                                                    *)
(***************************************************************************)
EXTENDS ParallelDownload, SequenceTheorems, TLAPS

-----------------------------------------------------------------------------
(* Types *)

\* What was filled is what was copied out and what remains: copying never leaves the buffer.
ChunkInv == \A w \in Workers : bufferOffset[w] + bytesRemain[w] = chunkSize[w]

LEMMA FollowingWorker ==
  ASSUME NEW w \in Workers
  PROVE  /\ Following(w) = IF w + 1 = NumWorkers THEN 0 ELSE w + 1
         /\ Following(w) \in Workers
<1>1. NumWorkers \in Nat /\ NumWorkers > 1 /\ w \in Nat /\ w + 1 <= NumWorkers
  BY DownloadAssumption DEF DownloadAssumption, Workers
<1>2. CASE w + 1 = NumWorkers
  <2>1. NumWorkers % NumWorkers = 0
    BY <1>1, SMT
  <2> QED BY <1>1, <1>2, <2>1 DEF Following, Workers
<1>3. CASE w + 1 < NumWorkers
  <2>1. (w + 1) % NumWorkers = w + 1
    BY <1>1, <1>3, SMT
  <2> QED BY <1>1, <1>3, <2>1 DEF Following, Workers
<1> QED BY <1>1, <1>2, <1>3

LEMMA Appending ==
  ASSUME NEW s \in Seq(Nat), NEW n \in Nat, NEW f \in [1 .. n -> Nat]
  PROVE  /\ s \o f \in Seq(Nat)
         /\ Len(s \o f) = Len(s) + n
         /\ \A i \in 1 .. Len(s) : (s \o f)[i] = s[i]
         /\ \A i \in 1 .. n : (s \o f)[Len(s) + i] = f[i]
<1>1. f \in Seq(Nat) /\ Len(f) = n
  OBVIOUS
<1>2. /\ s \o f \in Seq(Nat)
      /\ Len(s \o f) = Len(s) + Len(f)
      /\ \A i \in 1 .. Len(s) + Len(f) :
           (s \o f)[i] = IF i <= Len(s) THEN s[i] ELSE f[i - Len(s)]
  BY <1>1, ConcatProperties
<1>3. Len(s) \in Nat
  BY LenProperties
<1> QED BY <1>1, <1>2, <1>3

LEMMA TypeInit == Init => TypeOK /\ ChunkInv
<1> SUFFICES ASSUME Init PROVE TypeOK /\ ChunkInv
  OBVIOUS
<1>1. 0 \in Workers
  BY DownloadAssumption DEF DownloadAssumption, Workers
<1> QED BY <1>1 DEF Init, TypeOK, ChunkInv, Places

\* Setting workers to work keeps what they have well-typed.
LEMMA AssignType ==
  ASSUME TypeOK, NEW W \in SUBSET Workers, NEW start \in [Workers -> Nat], Assign(W, start)
  PROVE  /\ filling' \in [Workers -> {"nothing", "opening", "reading", "contended"}]
         /\ startByte' \in [Workers -> Nat]
         /\ bytesRead' \in [Workers -> Nat]
BY DEF TypeOK, Assign

LEMMA CopyType ==
  ASSUME TypeOK, ChunkInv, CopyOut
  PROVE  TypeOK' /\ ChunkInv'
<1> DEFINE w == currentWorker
           n == Lesser(wanted, chunkSize[w] - bufferOffset[w])
           piece == [i \in 1 .. n |-> startByte[w] + bufferOffset[w] + i - 1]
<1>1. /\ at' = "copying"
      /\ delivered' = delivered \o piece
      /\ objectOffset' = objectOffset + n
      /\ bufferOffset' = [bufferOffset EXCEPT ![w] = @ + n]
      /\ bytesRemain' = [bytesRemain EXCEPT ![w] = @ - n]
      /\ copyReady' = [copyReady EXCEPT ![w] = (bytesRemain[w] # n)]
      /\ currentWorker' \in {Following(w), w}
      /\ \/ Assign({w}, [v \in Workers |-> NextStart(n)])
         \/ UNCHANGED <<filling, startByte, bytesRead>>
      /\ UNCHANGED <<result, wanted, cancelled, chunkSize, errReading, idle>>
  BY DEF CopyOut, fillVars
<1>2. /\ w \in Workers /\ wanted \in Nat /\ objectOffset \in Nat /\ delivered \in Seq(Nat)
      /\ chunkSize[w] \in Nat /\ bufferOffset[w] \in Nat /\ bytesRemain[w] \in Nat
      /\ startByte[w] \in Nat /\ bufferOffset[w] + bytesRemain[w] = chunkSize[w]
  BY DEF TypeOK, ChunkInv
<1>3. n \in Nat /\ n <= bytesRemain[w]
  BY <1>2 DEF Lesser
<1> HIDE DEF n
<1>4. piece \in [1 .. n -> Nat]
  BY <1>2, <1>3
<1>5. delivered' \in Seq(Nat)
  <2> HIDE DEF piece
  <2> QED BY <1>1, <1>2, <1>3, <1>4, Appending
<1>6. bufferOffset[w] + n \in Nat /\ bytesRemain[w] - n \in Nat
  BY <1>2, <1>3
<1>7. bufferOffset' \in [Workers -> Nat] /\ bytesRemain' \in [Workers -> Nat]
  BY <1>1, <1>6 DEF TypeOK
<1>8. NextStart(n) \in Nat
  <2>1. (NumWorkers - 1) * PartSize \in Nat
    BY DownloadAssumption DEF DownloadAssumption
  <2> QED BY <1>2, <1>3, <2>1 DEF NextStart
<1>9. /\ filling' \in [Workers -> {"nothing", "opening", "reading", "contended"}]
      /\ startByte' \in [Workers -> Nat]
      /\ bytesRead' \in [Workers -> Nat]
  <2>1. {w} \in SUBSET Workers /\ [v \in Workers |-> NextStart(n)] \in [Workers -> Nat]
    BY <1>2, <1>8
  <2>2. CASE Assign({w}, [v \in Workers |-> NextStart(n)])
    BY <2>1, <2>2, AssignType
  <2>3. CASE UNCHANGED <<filling, startByte, bytesRead>>
    BY <2>3 DEF TypeOK
  <2> QED BY <1>1, <2>2, <2>3
<1>10. currentWorker' \in Workers /\ objectOffset' \in Nat /\ at' \in Places
  BY <1>1, <1>2, <1>3, FollowingWorker DEF Places
<1>11. TypeOK'
  BY <1>1, <1>5, <1>7, <1>9, <1>10 DEF TypeOK
<1>12. ChunkInv'
  <2> SUFFICES ASSUME NEW v \in Workers
               PROVE  bufferOffset'[v] + bytesRemain'[v] = chunkSize[v]
    BY <1>1 DEF ChunkInv
  <2>1. CASE v = w
    BY <1>1, <1>2, <1>3, <2>1 DEF TypeOK
  <2>2. CASE v # w
    BY <1>1, <2>2 DEF TypeOK, ChunkInv
  <2> QED BY <2>1, <2>2
<1> QED BY <1>11, <1>12

LEMMA TypeStep ==
  ASSUME TypeOK, ChunkInv, [Next]_vars
  PROVE  TypeOK' /\ ChunkInv'
<1> USE DEF TypeOK, ChunkInv, Places, readVars, chunkVars, fillVars
<1>1. ASSUME NEW n \in ReadSizes, CallRead(n) PROVE TypeOK' /\ ChunkInv'
  <2>1. n \in Nat
    BY DownloadAssumption DEF DownloadAssumption
  <2>2. /\ filling' \in [Workers -> {"nothing", "opening", "reading", "contended"}]
        /\ startByte' \in [Workers -> Nat]
        /\ bytesRead' \in [Workers -> Nat]
    <3> DEFINE first == [w \in Workers |-> PartSize * w]
               W == {w \in Workers : ChunkAt(first[w])}
    <3>1. first \in [Workers -> Nat] /\ W \in SUBSET Workers
      BY DownloadAssumption DEF DownloadAssumption, Workers
    <3>2. Assign(W, first) \/ UNCHANGED <<filling, startByte, bytesRead>>
      BY <1>1 DEF CallRead
    <3> HIDE DEF first, W
    <3> QED BY <3>1, <3>2, AssignType
  <2> QED BY <1>1, <2>1, <2>2 DEF CallRead
<1>2. CASE ReadEOF \/ CopierFails
  BY <1>2 DEF ReadEOF, CopierFails, Return
<1>3. ASSUME NEW w \in Workers, ReceiveWorker(w) PROVE TypeOK' /\ ChunkInv'
  BY <1>3 DEF ReceiveWorker, Return
<1>4. CASE CopyOut
  BY <1>4, CopyType
<1>5. ASSUME NEW w \in Workers, OpenRange(w) PROVE TypeOK' /\ ChunkInv'
  BY <1>5 DEF OpenRange
<1>6. ASSUME NEW w \in Workers, FillFails(w) PROVE TypeOK' /\ ChunkInv'
  BY <1>6 DEF FillFails, EndFill
<1>7. ASSUME NEW w \in Workers, ReadRange(w) PROVE TypeOK' /\ ChunkInv'
  <2>1. PICK n \in 1 .. RangeLeft(w) : bytesRead' = [bytesRead EXCEPT ![w] = @ + n]
    BY <1>7 DEF ReadRange
  <2>2. bytesRead[w] + n \in Nat
    OBVIOUS
  <2> QED BY <1>7, <2>1, <2>2 DEF ReadRange
<1>8. ASSUME NEW w \in Workers, RangeEnds(w) PROVE TypeOK' /\ ChunkInv'
  <2>1. /\ w \in Workers /\ UNCHANGED <<at, result, wanted, delivered, objectOffset, currentWorker,
                                        cancelled, startByte, bytesRead>>
        /\ filling' = [filling EXCEPT ![w] = "nothing"]
        /\ chunkSize' = [chunkSize EXCEPT ![w] = bytesRead[w]]
        /\ bufferOffset' = [bufferOffset EXCEPT ![w] = 0]
        /\ bytesRemain' = [bytesRemain EXCEPT ![w] = bytesRead[w]]
        /\ copyReady' \in [Workers -> BOOLEAN] /\ errReading' \in [Workers -> BOOLEAN]
        /\ idle' \subseteq Workers
    BY <1>8 DEF RangeEnds, EndFill
  <2>2. TypeOK'
    BY <2>1
  <2>3. ChunkInv'
    BY <2>1
  <2> QED BY <2>2, <2>3
<1>9. CASE Cancel \/ UNCHANGED vars
  BY <1>9 DEF Cancel, vars
<1> QED BY <1>1, <1>2, <1>3, <1>4, <1>5, <1>6, <1>7, <1>8, <1>9 DEF Next, Reading, Filling

\* Every variable keeps its type, whatever the range readers do and the caller claims: no
\* copy goes beyond what is in the buffer.
THEOREM TypeCorrect == Spec => [](TypeOK /\ ChunkInv)
<1>1. TypeOK /\ ChunkInv /\ [Next]_vars => (TypeOK /\ ChunkInv)'
  BY TypeStep
<1> QED BY <1>1, TypeInit, PTL DEF Spec

-----------------------------------------------------------------------------
(* The inductive invariant *)

\* After how many other workers it is the turn of worker w.
Turn(w) ==
  IF w >= currentWorker THEN w - currentWorker ELSE w + NumWorkers - currentWorker

\* Where the chunk that Read copies now, or waits for, starts.
Base == objectOffset - (IF copyReady[currentWorker] THEN bufferOffset[currentWorker] ELSE 0)

\* Where the chunk that worker w has, if it has one, must start.
Slot(w) == Base + Turn(w) * PartSize

RangeSize(w) == Lesser(startByte[w] + PartSize, ObjectSize) - startByte[w]

Busy(w) == filling[w] # "nothing" \/ w \in idle \/ copyReady[w]

\* Before the first Read no worker was set to work.
StartInv ==
  at = "copying" /\ objectOffset = 0 =>
    /\ currentWorker = 0
    /\ \A w \in Workers : ~Busy(w)

\* From the first Read on the workers have the chunks that follow, in the order in which
\* it is their turn.  Once the object is used up, but not what the caller claims, they are
\* at work beyond its end.
TurnInv ==
  at = "waiting" \/ (at = "copying" /\ objectOffset > 0) =>
    IF objectOffset < ObjectSize
      THEN \A w \in Workers :
             IF Slot(w) < TotalBytes THEN Busy(w) /\ startByte[w] = Slot(w) ELSE ~Busy(w)
      ELSE \A w \in Workers : Busy(w) => startByte[w] >= ObjectSize

Filled(w) ==
  /\ chunkSize[w] = RangeSize(w)
  /\ chunkSize[w] > 0
  /\ bufferOffset[w] + bytesRemain[w] = chunkSize[w]

\* A buffer is filled, waits or is copied from, and holds its range once it is filled.
BufferOf(w) ==
  /\ filling[w] # "contended"
  /\ filling[w] # "nothing" => ~copyReady[w] /\ w \notin idle
  /\ w \in idle => ~copyReady[w]
  /\ filling[w] = "opening" => bytesRead[w] = 0
  /\ filling[w] = "reading" => startByte[w] < ObjectSize /\ bytesRead[w] <= RangeSize(w)
  /\ w \in idle /\ ~errReading[w] => Filled(w) /\ bufferOffset[w] = 0
  /\ copyReady[w] => Filled(w) /\ bytesRemain[w] > 0
  /\ copyReady[w] /\ w # currentWorker => bufferOffset[w] = 0

BufferInv == \A w \in Workers : BufferOf(w)

\* Read is called before the end only, and hands out the units one after the other.
OrderInv ==
  /\ Len(delivered) = objectOffset
  /\ ProperlyOrdered
  /\ objectOffset <= ObjectSize
  /\ at = "waiting" => objectOffset < TotalBytes /\ wanted > 0
  /\ result = "ok" => objectOffset >= TotalBytes

DownloadInv == TypeOK /\ StartInv /\ TurnInv /\ BufferInv /\ OrderInv

\* What the theorems assume of the range readers, and one of them of the caller.
DataBeforeEOF == ~EOFWithData
NoOverclaim == TotalBytes <= ObjectSize

-----------------------------------------------------------------------------
(* Whose turn it is *)

LEMMA TurnType ==
  ASSUME TypeOK, NEW w \in Workers
  PROVE  Turn(w) \in 0 .. NumWorkers - 1 /\ (Turn(w) = 0 <=> w = currentWorker)
BY DownloadAssumption DEF DownloadAssumption, Workers, TypeOK, Turn

\* When the next worker has its turn, so have all, one earlier.
LEMMA TurnsMove ==
  ASSUME TypeOK, currentWorker' = Following(currentWorker), NEW w \in Workers
  PROVE  /\ Following(currentWorker) \in Workers
         /\ Following(currentWorker) # currentWorker
         /\ Turn(w)' = IF w = currentWorker THEN NumWorkers - 1 ELSE Turn(w) - 1
<1>1. currentWorker \in Workers
  BY DEF TypeOK
<1>2. currentWorker' = IF currentWorker + 1 = NumWorkers THEN 0 ELSE currentWorker + 1
  BY <1>1, FollowingWorker
<1>3. NumWorkers \in Nat /\ NumWorkers > 1
  BY DownloadAssumption DEF DownloadAssumption
<1> QED BY <1>1, <1>2, <1>3 DEF Workers, Turn

LEMMA RangeSizeType ==
  ASSUME TypeOK, NEW w \in Workers, startByte[w] < ObjectSize
  PROVE  /\ RangeSize(w) \in 1 .. PartSize
         /\ startByte[w] + RangeSize(w) <= ObjectSize
         /\ RangeSize(w) = PartSize \/ startByte[w] + RangeSize(w) = ObjectSize
         /\ RangeLeft(w) = RangeSize(w) - bytesRead[w]
<1>1. /\ PartSize \in Nat /\ PartSize > 0 /\ ObjectSize \in Nat
      /\ startByte[w] \in Nat /\ bytesRead[w] \in Nat
  BY DownloadAssumption DEF DownloadAssumption, TypeOK
<1> QED BY <1>1 DEF RangeSize, RangeLeft, Lesser

LEMMA BaseType == ASSUME DownloadInv PROVE Base \in Int
<1>1. /\ objectOffset \in Nat /\ currentWorker \in Workers
      /\ bufferOffset \in [Workers -> Nat]
  BY DEF DownloadInv, TypeOK
<1>2. bufferOffset[currentWorker] \in Nat
  BY <1>1
<1> QED BY <1>1, <1>2 DEF Base

-----------------------------------------------------------------------------
(* Steps *)

LEMMA DownloadInit == Init => DownloadInv
<1> SUFFICES ASSUME Init PROVE DownloadInv
  OBVIOUS
<1> USE DownloadAssumption DEF Init, DownloadAssumption
<1>1. 0 \in Workers
  BY DEF Workers
<1>2. delivered \in Seq(Nat) /\ Len(delivered) = 0
  OBVIOUS
<1>3. TypeOK
  BY <1>1, <1>2 DEF TypeOK, Places
<1>4. \A w \in Workers : ~Busy(w)
  BY DEF Busy
<1>5. BufferInv
  BY DEF BufferInv, BufferOf
<1>6. OrderInv
  BY <1>2 DEF OrderInv, ProperlyOrdered
<1> QED BY <1>3, <1>4, <1>5, <1>6 DEF DownloadInv, StartInv, TurnInv

\* The copier stops: the turns do not matter any more.
LEMMA ReturnStep ==
  ASSUME DownloadInv, NEW verdict \in {"ok", "error"}, Return(verdict),
         verdict = "ok" => objectOffset >= TotalBytes,
         idle' \subseteq idle, TypeOK',
         UNCHANGED <<readVars, fillVars, chunkVars, copyReady, errReading>>
  PROVE  DownloadInv'
<1> USE DEF DownloadInv, Return, readVars, fillVars, chunkVars
<1>1. StartInv' /\ TurnInv'
  BY DEF StartInv, TurnInv
<1>2. BufferInv'
  BY DEF BufferInv, BufferOf, Filled, RangeSize
<1>3. OrderInv'
  BY DEF OrderInv, ProperlyOrdered
<1> QED BY <1>1, <1>2, <1>3

LEMMA CallReadStep ==
  ASSUME DownloadInv, TypeOK', NEW n \in ReadSizes, CallRead(n) PROVE DownloadInv'
<1> USE DEF DownloadInv, CallRead, chunkVars, fillVars
<1> DEFINE first == [w \in Workers |-> PartSize * w]
           W == {w \in Workers : ChunkAt(first[w])}
<1>1. n \in Nat /\ n > 0
  BY DownloadAssumption DEF DownloadAssumption
<1>2. /\ objectOffset < TotalBytes /\ at = "copying" /\ at' = "waiting" /\ wanted' = n
      /\ UNCHANGED <<result, delivered, objectOffset, currentWorker, cancelled, chunkSize,
                     bufferOffset, bytesRemain, copyReady, errReading, idle>>
  BY DownloadAssumption DEF AtEnd, TypeOK, DownloadAssumption
<1>3. OrderInv'
  BY <1>1, <1>2 DEF OrderInv, ProperlyOrdered
<1>4. StartInv'
  BY <1>2 DEF StartInv
<1>5. CASE FirstRead
  <2>1. Assign(W, first)
    BY <1>5
  <2>2. currentWorker = 0 /\ objectOffset = 0 /\ \A w \in Workers : ~Busy(w)
    BY <1>2, <1>5 DEF StartInv, FirstRead
  <2>3. /\ filling' = [w \in Workers |-> IF w \in W THEN "opening" ELSE "nothing"]
        /\ startByte' = [w \in Workers |-> IF w \in W THEN first[w] ELSE startByte[w]]
        /\ bytesRead' = [w \in Workers |-> IF w \in W THEN 0 ELSE bytesRead[w]]
    BY <2>1, <2>2 DEF Assign, Busy, TypeOK
  <2>4. \A w \in Workers : first[w] \in Nat /\ first[w] = w * PartSize
    BY DownloadAssumption DEF DownloadAssumption, Workers
  <2>5. BufferInv'
    BY <1>2, <2>2, <2>3 DEF BufferInv, BufferOf, Busy
  <2>6. \A w \in Workers : Slot(w)' = first[w]
    <3> SUFFICES ASSUME NEW w \in Workers PROVE Slot(w)' = first[w]
      OBVIOUS
    <3>1. Base' = 0
      <4>1. 0 \in Workers
        BY <2>2 DEF TypeOK
      <4>2. ~copyReady'[currentWorker']
        BY <1>2, <2>2, <4>1 DEF Busy
      <4> QED BY <1>2, <2>2, <4>2 DEF Base
    <3>2. Turn(w)' = w
      BY <1>2, <2>2 DEF Turn, Workers
    <3> QED BY <2>4, <3>1, <3>2, DownloadAssumption DEF Slot, DownloadAssumption, Workers
  <2>7. TurnInv'
    <3>1. ASSUME NEW w \in Workers
          PROVE  /\ Busy(w)' <=> ChunkAt(first[w])
                 /\ ChunkAt(first[w]) => startByte'[w] = first[w]
      BY <1>2, <2>2, <2>3 DEF Busy
    <3>2. CASE objectOffset < ObjectSize
      BY <1>2, <2>6, <3>1, <3>2 DEF TurnInv, ChunkAt
    <3>3. CASE ~(objectOffset < ObjectSize)
      <4>1. ASSUME NEW w \in Workers, Busy(w)' PROVE startByte'[w] >= ObjectSize
        BY <2>2, <2>4, <3>1, <3>3, <4>1, DownloadAssumption DEF DownloadAssumption
      <4> QED BY <1>2, <3>3, <4>1 DEF TurnInv
    <3> QED BY <3>2, <3>3
  <2> QED BY <1>3, <1>4, <2>5, <2>7
<1>6. CASE ~FirstRead
  <2>1. UNCHANGED <<filling, startByte, bytesRead>>
    BY <1>6
  <2>2. BufferInv'
    BY <1>2, <2>1 DEF BufferInv, BufferOf, Filled, RangeSize
  <2>3. objectOffset > 0
    BY <1>6 DEF FirstRead, TypeOK
  <2>4. TurnInv'
    BY <1>2, <2>1, <2>3 DEF TurnInv, Busy, Slot, Base, Turn
  <2> QED BY <1>3, <1>4, <2>2, <2>4
<1> QED BY <1>5, <1>6

LEMMA ReceiveStep ==
  ASSUME DownloadInv, TypeOK', NEW w \in Workers, ReceiveWorker(w) PROVE DownloadInv'
<1> USE DEF ReceiveWorker
<1>1. CASE cancelled \/ errReading[w]
  <2>1. Return("error") /\ UNCHANGED copyReady /\ idle' \subseteq idle
    BY <1>1
  <2> QED BY <2>1, ReturnStep
<1>2. CASE ~(cancelled \/ errReading[w])
  <2> USE DEF DownloadInv, readVars, fillVars, chunkVars
  <2>1. /\ copyReady' = [copyReady EXCEPT ![w] = TRUE]
        /\ idle' = idle \ {w} /\ w \in idle /\ ~errReading[w]
        /\ at = "waiting" /\ ~copyReady[currentWorker]
        /\ UNCHANGED <<at, result, cancelled, wanted, delivered, objectOffset, currentWorker,
                       filling, startByte, bytesRead, chunkSize, bufferOffset, bytesRemain,
                       errReading>>
    BY <1>2
  <2>2. StartInv' /\ OrderInv'
    BY <2>1 DEF StartInv, OrderInv, ProperlyOrdered
  <2>3. BufferInv'
    <3>1. Filled(w) /\ bufferOffset[w] = 0 /\ bytesRemain[w] > 0 /\ filling[w] = "nothing"
      BY <2>1 DEF BufferInv, BufferOf, Filled, TypeOK
    <3>2. ASSUME NEW v \in Workers PROVE Filled(v)' <=> Filled(v)
      BY <2>1 DEF Filled, RangeSize
    <3>3. ASSUME NEW v \in Workers, v # w
          PROVE  (copyReady'[v] <=> copyReady[v]) /\ (v \in idle' <=> v \in idle)
      BY <2>1, <3>3 DEF TypeOK
    <3>4. copyReady'[w] /\ w \notin idle'
      BY <2>1 DEF TypeOK
    <3> SUFFICES ASSUME NEW v \in Workers PROVE BufferOf(v)'
      BY DEF BufferInv
    <3>5. CASE v = w
      BY <2>1, <3>1, <3>2, <3>4, <3>5 DEF BufferOf
    <3>6. CASE v # w
      <4>1. BufferOf(v)
        BY DEF BufferInv
      <4>2. RangeSize(v)' = RangeSize(v)
        BY <2>1 DEF RangeSize
      <4> QED BY <2>1, <3>2, <3>3, <3>6, <4>1, <4>2 DEF BufferOf
    <3> QED BY <3>5, <3>6
  <2>4. TurnInv'
    <3>1. Base' = Base
      <4>1. bufferOffset[w] = 0 /\ objectOffset \in Nat
        BY <2>1 DEF BufferInv, BufferOf, TypeOK
      <4> QED BY <2>1, <4>1 DEF Base, TypeOK
    <3>2. \A v \in Workers : Turn(v)' = Turn(v) /\ (Busy(v)' <=> Busy(v))
      BY <2>1 DEF Turn, Busy, TypeOK
    <3> QED BY <2>1, <3>1, <3>2 DEF TurnInv, Slot
  <2> QED BY <2>2, <2>3, <2>4
<1> QED BY <1>1, <1>2

\* Once the chunk of the current worker is used up it gets the next one that nobody has.
LEMMA CopyStep ==
  ASSUME DownloadInv, TypeOK', CopyOut PROVE DownloadInv'
<1> DEFINE w == currentWorker
           n == Lesser(wanted, chunkSize[w] - bufferOffset[w])
<1> USE DEF DownloadInv, readVars, fillVars, chunkVars
<1>1. /\ at = "waiting" /\ copyReady[w] /\ at' = "copying"
      /\ delivered' = delivered \o [i \in 1 .. n |-> startByte[w] + bufferOffset[w] + i - 1]
      /\ objectOffset' = objectOffset + n
      /\ bufferOffset' = [bufferOffset EXCEPT ![w] = @ + n]
      /\ bytesRemain' = [bytesRemain EXCEPT ![w] = @ - n]
      /\ copyReady' = [copyReady EXCEPT ![w] = (bytesRemain[w] # n)]
      /\ currentWorker' = IF bytesRemain[w] = n THEN Following(w) ELSE w
      /\ IF bytesRemain[w] = n /\ ChunkAt(NextStart(n))
           THEN Assign({w}, [v \in Workers |-> NextStart(n)])
           ELSE UNCHANGED <<filling, startByte, bytesRead>>
      /\ UNCHANGED <<result, wanted, cancelled, chunkSize, errReading, idle>>
  BY DEF CopyOut
<1>2. /\ w \in Workers /\ wanted \in Nat /\ objectOffset \in Nat /\ delivered \in Seq(Nat)
      /\ chunkSize[w] \in Nat /\ bufferOffset[w] \in Nat /\ bytesRemain[w] \in Nat
      /\ startByte[w] \in Nat
  BY DEF TypeOK
<1>3. /\ Filled(w) /\ bytesRemain[w] > 0 /\ filling[w] = "nothing" /\ w \notin idle
  BY <1>1, <1>2 DEF BufferInv, BufferOf
<1>4. n \in Nat /\ n > 0 /\ n <= bytesRemain[w]
  BY <1>1, <1>2, <1>3 DEF OrderInv, Filled, Lesser
<1> HIDE DEF n
<1>5. startByte[w] < ObjectSize
  BY <1>2, <1>3, DownloadAssumption DEF Filled, RangeSize, Lesser, DownloadAssumption
<1>6. Busy(w)
  BY <1>1 DEF Busy
<1>7. objectOffset < ObjectSize
  BY <1>1, <1>2, <1>5, <1>6, DownloadAssumption DEF TurnInv, DownloadAssumption
<1>8. /\ Base = startByte[w] /\ startByte[w] < TotalBytes
      /\ startByte[w] + bufferOffset[w] = objectOffset
  <2>1. Slot(w) = Base
    BY <1>1, <1>2, BaseType, TurnType, DownloadAssumption DEF Slot, DownloadAssumption
  <2>2. Slot(w) < TotalBytes /\ startByte[w] = Slot(w)
    BY <1>1, <1>2, <1>6, <1>7 DEF TurnInv
  <2> QED BY <1>1, <1>2, <2>1, <2>2 DEF Base
<1>9. /\ chunkSize[w] \in 1 .. PartSize
      /\ startByte[w] + chunkSize[w] <= ObjectSize
      /\ chunkSize[w] = PartSize \/ startByte[w] + chunkSize[w] = ObjectSize
  BY <1>2, <1>3, <1>5, RangeSizeType, DownloadAssumption DEF Filled, DownloadAssumption
<1>10. OrderInv'
  <2> DEFINE piece == [i \in 1 .. n |-> startByte[w] + bufferOffset[w] + i - 1]
  <2>1. piece \in [1 .. n -> Nat]
    BY <1>2, <1>4
  <2>2. delivered' = delivered \o piece /\ Len(delivered) = objectOffset
    BY <1>1 DEF OrderInv
  <2>3. /\ Len(delivered') = objectOffset + n
        /\ \A i \in 1 .. Len(delivered) : delivered'[i] = delivered[i]
        /\ \A i \in 1 .. n : delivered'[Len(delivered) + i] = piece[i]
    <3> HIDE DEF piece
    <3> QED BY <1>2, <1>4, <2>1, <2>2, Appending
  <2>4. objectOffset' <= ObjectSize
    <3>1. objectOffset + n <= startByte[w] + chunkSize[w]
      BY <1>2, <1>3, <1>4, <1>8 DEF Filled
    <3> QED BY <1>1, <1>2, <1>4, <1>9, <3>1, DownloadAssumption DEF DownloadAssumption
  <2>5. ASSUME NEW i \in 1 .. Len(delivered') PROVE delivered'[i] = i - 1
    <3>1. CASE i <= objectOffset
      BY <1>2, <2>3, <2>2, <3>1 DEF OrderInv, ProperlyOrdered
    <3>2. CASE i > objectOffset
      <4>1. i - objectOffset \in 1 .. n /\ i = Len(delivered) + (i - objectOffset)
        BY <1>2, <1>4, <2>3, <2>2, <3>2
      <4>2. delivered'[i] = piece[i - objectOffset]
        BY <2>3, <4>1
      <4>3. piece[i - objectOffset] = startByte[w] + bufferOffset[w] + (i - objectOffset) - 1
        BY <4>1
      <4> QED BY <1>2, <1>8, <4>2, <4>3
    <3> QED BY <1>2, <3>1, <3>2
  <2>6. result' = "ok" => objectOffset' >= TotalBytes
    BY <1>1, <1>2, <1>4, DownloadAssumption DEF OrderInv, DownloadAssumption
  <2> QED BY <1>1, <2>3, <2>4, <2>5, <2>6 DEF OrderInv, ProperlyOrdered
<1>11. StartInv'
  BY <1>1, <1>2, <1>4 DEF StartInv
<1>12. CASE n < bytesRemain[w]
  <2>1. UNCHANGED <<currentWorker, filling, startByte, bytesRead, copyReady>>
    <3>1. bytesRemain[w] # n
      BY <1>2, <1>4, <1>12
    <3>2. copyReady' = [copyReady EXCEPT ![w] = TRUE]
      BY <1>1, <3>1
    <3>3. copyReady \in [Workers -> BOOLEAN]
      BY DEF TypeOK
    <3>4. copyReady' = copyReady
      BY <1>1, <3>2, <3>3
    <3> QED BY <1>1, <3>1, <3>4
  <2>2. bufferOffset'[w] = bufferOffset[w] + n /\ bytesRemain'[w] = bytesRemain[w] - n
    BY <1>1, <1>2 DEF TypeOK
  <2>3. Filled(w)'
    <3>1. RangeSize(w)' = RangeSize(w) /\ chunkSize' = chunkSize
      BY <1>1, <2>1 DEF RangeSize
    <3>2. bufferOffset'[w] + bytesRemain'[w] = bufferOffset[w] + bytesRemain[w]
      BY <1>2, <1>4, <2>2
    <3> QED BY <1>3, <2>1, <3>1, <3>2 DEF Filled
  <2>4. ASSUME NEW v \in Workers, v # w
        PROVE  bufferOffset'[v] = bufferOffset[v] /\ (Filled(v)' <=> Filled(v))
    BY <1>1, <2>1, <2>4 DEF Filled, RangeSize, TypeOK
  <2>5. bytesRemain'[w] > 0
    BY <1>2, <1>4, <1>12, <2>2
  <2>6. BufferInv'
    <3> SUFFICES ASSUME NEW v \in Workers PROVE BufferOf(v)'
      BY DEF BufferInv
    <3>1. CASE v = w
      BY <1>1, <1>2, <1>3, <2>1, <2>3, <2>5, <3>1 DEF BufferInv, BufferOf
    <3>2. CASE v # w
      <4>1. bytesRemain'[v] = bytesRemain[v] /\ RangeSize(v)' = RangeSize(v)
        BY <1>1, <2>1, <3>2 DEF TypeOK, RangeSize
      <4> QED BY <1>1, <2>1, <2>4, <3>2, <4>1 DEF BufferInv, BufferOf
    <3> QED BY <3>1, <3>2
  <2>7. Base' = Base
    BY <1>1, <1>2, <1>4, <2>1, <2>2 DEF Base
  <2>8. TurnInv'
    <3>1. objectOffset' < ObjectSize
      <4>1. objectOffset + n < startByte[w] + chunkSize[w]
        BY <1>2, <1>3, <1>4, <1>8, <1>12 DEF Filled
      <4>2. ObjectSize \in Nat /\ PartSize \in Nat /\ objectOffset' = objectOffset + n
        BY <1>1, DownloadAssumption DEF DownloadAssumption
      <4> QED BY <1>2, <1>4, <1>9, <4>1, <4>2
    <3> QED BY <1>1, <1>2, <1>7, <2>1, <2>7, <3>1 DEF TurnInv, Slot, Turn, Busy
  <2> QED BY <1>10, <1>11, <2>6, <2>8
<1>13. CASE n = bytesRemain[w]
  <2> DEFINE next == NextStart(n)
             W == IF ChunkAt(next) THEN {w} ELSE {}
  <2>1. /\ copyReady' = [copyReady EXCEPT ![w] = FALSE]
        /\ currentWorker' = Following(w)
    BY <1>1, <1>13
  <2>2. next = objectOffset + n + (NumWorkers - 1) * PartSize /\ next \in Nat
    <3>1. (NumWorkers - 1) * PartSize \in Nat
      BY DownloadAssumption DEF DownloadAssumption
    <3> QED BY <1>2, <1>4, <3>1 DEF NextStart
  <2>3. /\ filling' = [v \in Workers |-> IF v \in W THEN "opening" ELSE filling[v]]
        /\ startByte' = [v \in Workers |-> IF v \in W THEN next ELSE startByte[v]]
        /\ bytesRead' = [v \in Workers |-> IF v \in W THEN 0 ELSE bytesRead[v]]
    <3>1. CASE ChunkAt(next)
      <4>1. Assign({w}, [v \in Workers |-> next])
        BY <1>1, <1>13, <3>1
      <4> QED BY <1>2, <1>3, <3>1, <4>1 DEF Assign
    <3>2. CASE ~ChunkAt(next)
      <4>1. UNCHANGED <<filling, startByte, bytesRead>>
        BY <1>1, <1>13, <3>2
      <4> QED BY <3>2, <4>1 DEF TypeOK
    <3> QED BY <3>1, <3>2
  <2>4. /\ currentWorker' \in Workers /\ currentWorker' # w
        /\ \A v \in Workers : Turn(v)' = IF v = w THEN NumWorkers - 1 ELSE Turn(v) - 1
    <3>1. ASSUME NEW v \in Workers
          PROVE  /\ Following(w) \in Workers /\ Following(w) # w
                 /\ Turn(v)' = IF v = w THEN NumWorkers - 1 ELSE Turn(v) - 1
      BY <2>1, TurnsMove
    <3> QED BY <1>2, <2>1, <3>1
  <2>5. ASSUME NEW v \in Workers, v # w
        PROVE  /\ filling'[v] = filling[v] /\ startByte'[v] = startByte[v]
               /\ bytesRead'[v] = bytesRead[v] /\ copyReady'[v] = copyReady[v]
               /\ bufferOffset'[v] = bufferOffset[v] /\ bytesRemain'[v] = bytesRemain[v]
    BY <1>1, <2>1, <2>3, <2>5 DEF TypeOK
  <2>6. /\ ~copyReady'[w] /\ startByte'[w] = IF ChunkAt(next) THEN next ELSE startByte[w]
        /\ filling'[w] = IF ChunkAt(next) THEN "opening" ELSE "nothing"
        /\ ChunkAt(next) => bytesRead'[w] = 0
    BY <1>2, <1>3, <2>1, <2>3 DEF TypeOK
  <2>7. BufferInv'
    <3> SUFFICES ASSUME NEW v \in Workers PROVE BufferOf(v)'
      BY DEF BufferInv
    <3>1. CASE v = w
      BY <1>1, <1>3, <2>6, <3>1 DEF BufferOf
    <3>2. CASE v # w
      <4>1. RangeSize(v)' = RangeSize(v) /\ (Filled(v)' <=> Filled(v))
        BY <1>1, <2>5, <3>2 DEF RangeSize, Filled
      <4> QED BY <1>1, <2>5, <3>2, <4>1 DEF BufferInv, BufferOf
    <3> QED BY <3>1, <3>2
  <2>8. Base' = objectOffset + n /\ objectOffset + n = startByte[w] + chunkSize[w]
    <3>1. copyReady'[currentWorker'] => bufferOffset'[currentWorker'] = 0
      BY <2>4, <2>5 DEF BufferInv, BufferOf
    <3>2. bufferOffset[w] + n = chunkSize[w]
      BY <1>3, <1>13 DEF Filled
    <3>3. objectOffset = startByte[w] + bufferOffset[w]
      BY <1>8
    <3>4. objectOffset + n = startByte[w] + chunkSize[w]
      <4> HIDE DEF w
      <4> QED BY <1>2, <1>4, <3>2, <3>3
    <3>5. objectOffset' = objectOffset + n
      BY <1>1
    <3> QED BY <1>2, <1>4, <3>1, <3>4, <3>5 DEF Base
  <2>9. /\ PartSize \in Nat /\ PartSize > 0 /\ NumWorkers \in Nat /\ NumWorkers > 1
         /\ TotalBytes \in Nat /\ ObjectSize \in Nat
    BY DownloadAssumption DEF DownloadAssumption
  <2>10. ASSUME NEW v \in Workers, v # w
         PROVE  /\ Busy(v)' <=> Busy(v)
                /\ Turn(v) \in Nat /\ Turn(v) > 0
                /\ Turn(v) * PartSize \in Nat /\ Turn(v) * PartSize >= PartSize
                /\ Slot(v) = startByte[w] + Turn(v) * PartSize
                /\ Slot(v)' = objectOffset + n + Turn(v) * PartSize - PartSize
    <3> DEFINE t == Turn(v)
    <3>1. t \in Nat /\ t > 0 /\ Turn(v)' = t - 1
      BY <2>4, <2>9, <2>10, TurnType
    <3>2. (t - 1) * PartSize = t * PartSize - PartSize /\ t * PartSize \in Nat
          /\ (t - 1) * PartSize \in Nat
      BY <2>9, <3>1
    <3>3. Slot(v)' = Base' + (t - 1) * PartSize
      BY <3>1 DEF Slot
    <3>4. Slot(v)' = objectOffset + n + t * PartSize - PartSize
      <4> HIDE DEF t
      <4> QED BY <1>2, <1>4, <2>8, <2>9, <3>2, <3>3
    <3>5. Busy(v)' <=> Busy(v)
      BY <1>1, <2>5, <2>10 DEF Busy
    <3>6. Slot(v) = startByte[w] + t * PartSize
      BY <1>8 DEF Slot
    <3>7. t * PartSize >= PartSize
      <4> HIDE DEF t
      <4> QED BY <2>9, <3>2
    <3> QED BY <3>1, <3>2, <3>4, <3>5, <3>6, <3>7
  <2>11. ASSUME NEW v \in Workers, v = w
         PROVE  /\ Busy(v)' <=> ChunkAt(next)
                /\ ChunkAt(next) => startByte'[v] = next
    <3>1. v \notin idle' /\ ~copyReady'[v]
      BY <1>1, <1>3, <2>6, <2>11
    <3>2. filling'[v] = IF ChunkAt(next) THEN "opening" ELSE "nothing"
      BY <2>6, <2>11
    <3> QED BY <2>6, <2>11, <3>1, <3>2 DEF Busy
  <2>12. TurnInv'
    <3>1. CASE objectOffset' < ObjectSize
      <4>1. chunkSize[w] = PartSize
        BY <1>1, <1>9, <2>8, <3>1
      <4> SUFFICES ASSUME NEW v \in Workers
                   PROVE  IF Slot(v)' < TotalBytes THEN Busy(v)' /\ startByte'[v] = Slot(v)'
                                                   ELSE ~Busy(v)'
        BY <3>1 DEF TurnInv
      <4>2. CASE v = w
        <5>1. Slot(v)' = next
          BY <2>2, <2>4, <2>8, <4>2 DEF Slot
        <5>2. /\ Busy(v)' <=> ChunkAt(next)
              /\ ChunkAt(next) => startByte'[v] = next
          BY <2>11, <4>2
        <5> QED BY <5>1, <5>2 DEF ChunkAt
      <4>3. CASE v # w
        <5>1. Slot(v)' = Slot(v)
          BY <1>2, <2>8, <2>9, <2>10, <4>1, <4>3
        <5> QED BY <1>1, <1>7, <2>5, <2>10, <4>3, <5>1 DEF TurnInv
      <4> QED BY <4>2, <4>3
    <3>2. CASE ~(objectOffset' < ObjectSize)
      <4>1. startByte[w] + chunkSize[w] = ObjectSize
        BY <1>1, <1>2, <1>9, <2>8, <2>9, <3>2
      <4>2. next >= ObjectSize
        <5>1. (NumWorkers - 1) * PartSize \in Nat
          BY <2>9
        <5> QED BY <2>2, <2>8, <2>9, <4>1, <5>1
      <4>3. ASSUME NEW v \in Workers, v # w, Busy(v)' PROVE startByte'[v] >= ObjectSize
        <5>1. startByte[v] = Slot(v) /\ startByte'[v] = startByte[v]
          BY <1>1, <1>7, <2>5, <2>10, <4>3 DEF TurnInv
        <5> QED BY <1>2, <1>9, <2>9, <2>10, <4>1, <4>3, <5>1
      <4>4. ASSUME NEW v \in Workers, v = w, Busy(v)' PROVE startByte'[v] >= ObjectSize
        <5>1. startByte'[v] = next
          BY <2>11, <4>4
        <5> QED BY <4>2, <5>1
      <4> QED BY <3>2, <4>3, <4>4 DEF TurnInv
    <3> QED BY <3>1, <3>2
  <2> QED BY <1>10, <1>11, <2>7, <2>12
<1> QED BY <1>2, <1>4, <1>12, <1>13

\* The goroutine of worker w goes on: the turns are the same, and so is what was delivered.
LEMMA FillStep ==
  ASSUME DownloadInv, TypeOK', DataBeforeEOF, NEW w \in Workers, Filling(w)
  PROVE  DownloadInv'
<1> USE DEF DownloadInv, readVars, chunkVars, EndFill
<1>1. /\ filling[w] \in {"opening", "reading"}
      /\ UNCHANGED <<at, result, wanted, delivered, objectOffset, currentWorker, cancelled,
                     startByte, copyReady>>
  BY DEF Filling, OpenRange, FillFails, ReadRange, RangeEnds
<1>2. ~copyReady[w] /\ w \notin idle
  BY <1>1 DEF BufferInv, BufferOf
<1>3. \A v \in Workers \ {w} :
        /\ filling'[v] = filling[v] /\ (v \in idle' <=> v \in idle)
        /\ bytesRead'[v] = bytesRead[v] /\ chunkSize'[v] = chunkSize[v]
        /\ bufferOffset'[v] = bufferOffset[v] /\ bytesRemain'[v] = bytesRemain[v]
        /\ errReading'[v] = errReading[v]
  BY DEF Filling, OpenRange, FillFails, ReadRange, RangeEnds, TypeOK
<1>4. Busy(w) /\ Busy(w)'
  BY <1>1 DEF Filling, OpenRange, FillFails, ReadRange, RangeEnds, Busy, TypeOK
<1>5. StartInv'
  <2>1. at = "copying" /\ objectOffset = 0 => FALSE
    BY <1>4 DEF StartInv
  <2> QED BY <1>1, <2>1 DEF StartInv
<1>6. Base' = Base
  <2>1. copyReady[currentWorker] => currentWorker # w
    BY <1>2
  <2> QED BY <1>1, <1>3, <2>1 DEF Base, TypeOK
<1>7. TurnInv'
  <2>1. \A v \in Workers : (Busy(v)' <=> Busy(v)) /\ Slot(v)' = Slot(v)
    BY <1>1, <1>3, <1>4, <1>6 DEF Busy, Slot, Turn
  <2> QED BY <1>1, <2>1 DEF TurnInv
<1>8. OrderInv'
  BY <1>1 DEF OrderInv, ProperlyOrdered
<1>9. BufferInv'
  <2>1. ASSUME NEW v \in Workers PROVE RangeSize(v)' = RangeSize(v)
    BY <1>1 DEF RangeSize
  <2>2. ASSUME NEW v \in Workers \ {w} PROVE Filled(v)' <=> Filled(v)
    BY <1>3, <2>1 DEF Filled
  <2>3. /\ filling'[w] # "contended"
        /\ filling'[w] # "nothing" => w \notin idle'
        /\ filling'[w] = "opening" => bytesRead'[w] = 0
        /\ filling'[w] = "reading" => startByte[w] < ObjectSize /\ bytesRead'[w] <= RangeSize(w)
        /\ w \in idle' /\ ~errReading'[w] => Filled(w)' /\ bufferOffset'[w] = 0
    <3>1. CASE OpenRange(w)
      <4>1. startByte[w] < ObjectSize /\ filling' = [filling EXCEPT ![w] = "reading"]
            /\ UNCHANGED <<bytesRead, idle>>
        BY <3>1 DEF OpenRange
      <4>2. bytesRead[w] = 0
        BY <3>1 DEF OpenRange, BufferInv, BufferOf
      <4>3. RangeSize(w) \in 1 .. PartSize /\ PartSize \in Nat
        BY <4>1, RangeSizeType, DownloadAssumption DEF DownloadAssumption
      <4>4. filling'[w] = "reading"
        BY <4>1 DEF TypeOK
      <4> QED BY <1>2, <4>1, <4>2, <4>3, <4>4
    <3>2. CASE FillFails(w)
      BY <3>2 DEF FillFails, TypeOK
    <3>3. CASE ReadRange(w)
      <4>1. PICK n \in 1 .. RangeLeft(w) : bytesRead' = [bytesRead EXCEPT ![w] = @ + n]
        BY <3>3 DEF ReadRange
      <4>2. bytesRead'[w] = bytesRead[w] + n /\ bytesRead[w] \in Nat
        BY <4>1 DEF TypeOK
      <4>3. startByte[w] < ObjectSize /\ UNCHANGED <<filling, idle>> /\ filling[w] = "reading"
        BY <3>3 DEF ReadRange, BufferInv, BufferOf
      <4> QED BY <1>2, <4>1, <4>2, <4>3, RangeSizeType
    <3>4. CASE RangeEnds(w)
      <4>1. /\ filling[w] = "reading" /\ RangeLeft(w) = 0
            /\ chunkSize'[w] = bytesRead[w] /\ bytesRemain'[w] = bytesRead[w]
            /\ bufferOffset'[w] = 0 /\ filling'[w] = "nothing"
        BY <3>4 DEF RangeEnds, DataBeforeEOF, TypeOK
      <4>2. startByte[w] < ObjectSize
        BY <4>1 DEF BufferInv, BufferOf
      <4>3. bytesRead[w] = RangeSize(w) /\ RangeSize(w) > 0 /\ RangeSize(w) \in Nat
        <5>1. bytesRead[w] \in Nat /\ PartSize \in Nat
          BY DownloadAssumption DEF TypeOK, DownloadAssumption
        <5>2. RangeSize(w) \in 1 .. PartSize /\ RangeLeft(w) = RangeSize(w) - bytesRead[w]
          BY <4>2, RangeSizeType
        <5> QED BY <4>1, <5>1, <5>2
      <4> QED BY <2>1, <4>1, <4>3 DEF Filled
    <3> QED BY <3>1, <3>2, <3>3, <3>4 DEF Filling
  <2>4. ~copyReady'[w]
    BY <1>1, <1>2
  <2> QED BY <1>1, <1>3, <2>1, <2>2, <2>3, <2>4 DEF BufferInv, BufferOf
<1> QED BY <1>5, <1>7, <1>8, <1>9

LEMMA DownloadStep ==
  ASSUME DownloadInv, TypeOK', DataBeforeEOF, [Next]_vars PROVE DownloadInv'
<1>1. ASSUME NEW n \in ReadSizes, CallRead(n) PROVE DownloadInv'
  BY <1>1, CallReadStep
<1>2. CASE ReadEOF
  <2>1. objectOffset >= TotalBytes /\ Return("ok")
    BY <1>2 DEF ReadEOF, AtEnd
  <2> QED BY <1>2, <2>1, ReturnStep DEF ReadEOF
<1>3. CASE CopierFails
  <2>1. Return("error") /\ idle' \subseteq idle
    BY <1>3 DEF CopierFails
  <2> QED BY <1>3, <2>1, ReturnStep DEF CopierFails
<1>4. ASSUME NEW w \in Workers, ReceiveWorker(w) PROVE DownloadInv'
  BY <1>4, ReceiveStep
<1>5. CASE CopyOut
  BY <1>5, CopyStep
<1>6. ASSUME NEW w \in Workers, Filling(w) PROVE DownloadInv'
  BY <1>6, FillStep
<1>7. CASE Cancel \/ UNCHANGED vars
  <2>1. UNCHANGED <<at, result, readVars, fillVars, chunkVars, copyReady, errReading, idle>>
    BY <1>7 DEF Cancel, vars
  <2> USE DEF DownloadInv, readVars, fillVars, chunkVars
  <2>2. StartInv' /\ OrderInv'
    BY <2>1 DEF StartInv, Busy, OrderInv, ProperlyOrdered
  <2>3. TurnInv'
    BY <2>1 DEF TurnInv, Busy, Slot, Base, Turn
  <2>4. BufferInv'
    BY <2>1 DEF BufferInv, BufferOf, Filled, RangeSize
  <2> QED BY <2>2, <2>3, <2>4
<1> QED BY <1>1, <1>2, <1>3, <1>4, <1>5, <1>6, <1>7 DEF Next, Reading

-----------------------------------------------------------------------------
(* Theorems *)

\* The turns of the workers, their buffers and the bytes handed out agree.
THEOREM TurnsAgree == ASSUME DataBeforeEOF PROVE Spec => []DownloadInv
<1>1. DownloadInv /\ TypeOK' /\ [Next]_vars => DownloadInv'
  BY DownloadStep
<1> QED BY <1>1, DownloadInit, TypeCorrect, PTL DEF Spec

\* The bytes come out in the order of the object, whatever order the chunks arrive in.
THEOREM Ordered == ASSUME DataBeforeEOF PROVE Spec => []ProperlyOrdered
<1>1. DownloadInv => ProperlyOrdered
  BY DEF DownloadInv, OrderInv
<1> QED BY <1>1, TurnsAgree, PTL

\* If the caller claims no less than the size of the object, success means all of it; who
\* claims more is never told that the download succeeded.
THEOREM Whole ==
  ASSUME DataBeforeEOF, TotalBytes >= ObjectSize PROVE Spec => []SuccessIsWhole
<1>1. DownloadInv => SuccessIsWhole
  <2> SUFFICES ASSUME DownloadInv, result = "ok" PROVE Len(delivered) = ObjectSize
    BY DEF SuccessIsWhole
  <2>1. /\ Len(delivered) = objectOffset /\ objectOffset \in Nat
        /\ objectOffset <= ObjectSize /\ objectOffset >= TotalBytes
    BY DEF DownloadInv, OrderInv, TypeOK
  <2> QED BY <2>1, DownloadAssumption DEF DownloadAssumption
<1> QED BY <1>1, TurnsAgree, PTL

\* No buffer is filled while it is copied from, or twice at a time.
THEOREM BuffersExclusive == ASSUME DataBeforeEOF PROVE Spec => []BuffersAreExclusive
<1>1. DownloadInv => BuffersAreExclusive
  BY DEF DownloadInv, BufferInv, BufferOf, BuffersAreExclusive
<1> QED BY <1>1, TurnsAgree, PTL

\* Where the caller claims no more than the size of the object, Read also waits only for a
\* worker that comes.
THEOREM InTurn ==
  ASSUME DataBeforeEOF, NoOverclaim PROVE Spec => []WorkersServeInTurn
<1>1. DownloadInv => WorkersServeInTurn
  <2> SUFFICES ASSUME DownloadInv PROVE CurrentWorkerIsComing /\ BuffersAreExclusive
    BY DEF WorkersServeInTurn
  <2>1. BuffersAreExclusive
    BY DEF DownloadInv, BufferInv, BufferOf, BuffersAreExclusive
  <2>2. CurrentWorkerIsComing
    <3> SUFFICES ASSUME at = "waiting", ~copyReady[currentWorker]
                 PROVE  filling[currentWorker] # "nothing" \/ currentWorker \in idle
      BY DEF CurrentWorkerIsComing
    <3>1. /\ currentWorker \in Workers /\ objectOffset \in Nat
          /\ objectOffset < TotalBytes /\ objectOffset < ObjectSize
      BY DownloadAssumption DEF DownloadInv, TypeOK, OrderInv, NoOverclaim, DownloadAssumption
    <3>2. Turn(currentWorker) = 0
      BY <3>1, TurnType DEF DownloadInv
    <3>3. Slot(currentWorker) = objectOffset
      BY <3>1, <3>2, DownloadAssumption DEF Slot, Base, DownloadAssumption
    <3>4. Busy(currentWorker)
      BY <3>1, <3>3 DEF DownloadInv, TurnInv
    <3> QED BY <3>4 DEF Busy
  <2> QED BY <2>1, <2>2
<1> QED BY <1>1, TurnsAgree, PTL
=============================================================================
