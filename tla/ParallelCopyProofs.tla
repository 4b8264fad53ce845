------------------------- MODULE ParallelCopyProofs -------------------------
(***************************************************************************)
(* For every file size, chunk size and number of cores: copyParallel       *)
(* returns nil only when the whole file has been written, and no worker    *)
(* touches the handles after it has returned.                              *)
(***************************************************************************)
EXTENDS ParallelCopy, TLAPS

\* A byte handed out is in the channel, in the hands of a worker, or written,
\* unless the context is done.
Queued(b) == \E i \in DOMAIN chunks : b \in Bytes(chunks[i])
Held(b)   == \E w \in Workers : Busy(w) /\ b \in Bytes(chunk[w])

Accounted ==
  ~canceled => \A b \in 0..(offset - 1) : b \in written \/ Queued(b) \/ Held(b)

Setup == caller \in {"prepare", "openReader", "openWriter"}

\* How far the caller, the channel and the workers can be from each other.
Phases ==
  /\ closed => caller \in {"wait", "returned"}
  /\ caller = "wait" => closed
  /\ caller = "select" => offset < Size
  /\ Setup => chunks = <<>> /\ \A w \in Workers : wpc[w] = "receive"
  /\ caller = "returned" =>
       \/ \A w \in Workers : wpc[w] = "exited"
       \/ /\ chunks = <<>> /\ ~closed
          /\ \A w \in Workers : wpc[w] = "receive"
  /\ result # "none" <=> caller = "returned"
  /\ (closed /\ ~canceled) => offset = Size
  /\ ~canceled =>
       \A w \in Workers : wpc[w] = "exited" => closed /\ chunks = <<>>
  /\ \A w \in Workers : Busy(w) => chunk[w] \in Chunk

IInv == TypeOK /\ Accounted /\ Phases /\ NilMeansAllWritten

----------------------------------------------------------------------------
\* There is always at least one worker to drain the channel.
LEMMA WorkerCountPositive == WorkerCount \in Nat \ {0}
  <1> DEFINE cores  == IF Cores < 1 THEN 1 ELSE Lesser(Cores, MaxWorkers)
             pieces == (Size + ChunkSize - 1) \div ChunkSize
  <1>1. cores \in Nat \ {0}
    BY CopyAssumption DEF Lesser
  <1>2. pieces \in Nat \ {0}
    <2>1. Size + ChunkSize - 1 \in Nat /\ Size + ChunkSize - 1 >= ChunkSize
      BY CopyAssumption
    <2> QED
      BY <2>1, CopyAssumption
  <1>3. WorkerCount = IF Size < ChunkSize * cores THEN Lesser(pieces, MaxWorkers)
                                                  ELSE cores
    BY DEF WorkerCount
  <1> HIDE DEF cores, pieces
  <1> QED
    BY <1>1, <1>2, <1>3, CopyAssumption DEF Lesser

\* The next chunk starts at the offset, ends at the offset after it, lies in the
\* file and is not empty.
LEMMA NextChunkFits ==
  ASSUME offset \in 0..Size, offset < Size,
         offset' = offset + NextChunk.length
  PROVE  /\ NextChunk \in Chunk
         /\ offset' \in 0..Size
         /\ \A b : b \in Bytes(NextChunk) <=> b \in offset .. (offset' - 1)
  BY CopyAssumption DEF NextChunk, Chunk, Lesser, Bytes

\* The bytes below one offset and not below an earlier one are those between.
LEMMA BetweenOffsets ==
  ASSUME NEW n \in 0..Size, NEW m \in 0..Size,
         NEW b \in 0..(m - 1), b \notin 0..(n - 1)
  PROVE  b \in n .. (m - 1)
  BY CopyAssumption

LEMMA InitIInv == Init => IInv
  <1> SUFFICES ASSUME Init PROVE IInv
    OBVIOUS
  <1>1. TypeOK
    <2>1. chunks \in Seq(Chunk) /\ offset \in 0..Size
      BY CopyAssumption DEF Init
    <2>2. /\ wpc \in [Workers -> {"receive", "got", "copy", "write", "exited"}]
          /\ chunk \in [Workers -> Chunk \cup {NoChunk}]
      BY DEF Init
    <2>3. canceled \in BOOLEAN /\ written \subseteq 0..(Size - 1)
      BY DEF Init
    <2> QED
      BY <2>1, <2>2, <2>3 DEF Init, TypeOK
  <1>2. Accounted
    BY CopyAssumption DEF Init, Accounted
  <1>3. Phases
    BY DEF Init, Phases, Setup, Busy
  <1>4. NilMeansAllWritten
    BY DEF Init, NilMeansAllWritten
  <1> QED
    BY <1>1, <1>2, <1>3, <1>4 DEF IInv

----------------------------------------------------------------------------
\* Accounted is kept by a step that hands out nothing, loses no chunk of the
\* channel, and takes none from a worker unless the context is done.
LEMMA AccountedFrame ==
  ASSUME IInv, UNCHANGED <<offset, chunks>>, written \subseteq written',
         canceled => canceled',
         ~canceled' => \A w \in Workers :
           Busy(w) => /\ chunk'[w] = chunk[w]
                      /\ Busy(w)' \/ Bytes(chunk[w]) \subseteq written'
  PROVE  Accounted'
  <1> SUFFICES ASSUME ~canceled', NEW b \in 0..(offset - 1)
               PROVE  b \in written' \/ Queued(b)' \/ Held(b)'
    BY DEF Accounted
  <1>1. b \in written \/ Queued(b) \/ Held(b)
    BY DEF IInv, Accounted
  <1>2. CASE b \in written
    BY <1>2
  <1>3. CASE Queued(b)
    BY <1>3 DEF Queued
  <1>4. CASE Held(b)
    BY <1>4 DEF Held
  <1> QED
    BY <1>1, <1>2, <1>3, <1>4

LEMMA CallerIInv ==
  ASSUME IInv, CallerStep
  PROVE  IInv'
  <1> USE DEF IInv
  <1>1. CASE Prepare
    <2>1. TypeOK'
      BY <1>1 DEF Prepare, TypeOK
    <2>2. Phases'
      BY <1>1 DEF Prepare, Phases, Setup, Busy
    <2>3. Accounted' /\ NilMeansAllWritten'
      BY <1>1, AccountedFrame DEF Prepare, Busy, NilMeansAllWritten
    <2> QED
      BY <2>1, <2>2, <2>3
  <1>2. CASE EnterSelect \/ GiveUpSending
    <2>1. TypeOK'
      BY <1>2 DEF EnterSelect, GiveUpSending, TypeOK
    <2>2. Phases'
      BY <1>2 DEF EnterSelect, GiveUpSending, Phases, Setup, Busy
    <2>3. Accounted' /\ NilMeansAllWritten'
      BY <1>2, AccountedFrame
         DEF EnterSelect, GiveUpSending, Busy, NilMeansAllWritten
    <2> QED
      BY <2>1, <2>2, <2>3
  <1>3. CASE CloseChunks
    <2>1. TypeOK'
      BY <1>3 DEF CloseChunks, TypeOK
    <2>2. Phases'
      BY <1>3, CopyAssumption DEF CloseChunks, Phases, Setup, Busy, TypeOK
    <2>3. Accounted' /\ NilMeansAllWritten'
      BY <1>3, AccountedFrame DEF CloseChunks, Busy, NilMeansAllWritten
    <2> QED
      BY <2>1, <2>2, <2>3
  <1>4. CASE Send
    <2>1. /\ offset \in 0..Size /\ offset < Size /\ chunks \in Seq(Chunk)
          /\ caller = "select" /\ ~closed
      BY <1>4 DEF Send, Phases, TypeOK
    <2>2. /\ NextChunk \in Chunk /\ offset' \in 0..Size
          /\ \A b : b \in Bytes(NextChunk) <=> b \in offset .. (offset' - 1)
      BY <1>4, <2>1, NextChunkFits DEF Send
    <2>3. /\ chunks' \in Seq(Chunk)
          /\ Len(chunks') = Len(chunks) + 1
          /\ chunks'[Len(chunks) + 1] = NextChunk
          /\ \A i \in DOMAIN chunks : i \in DOMAIN chunks' /\ chunks'[i] = chunks[i]
      BY <1>4, <2>1, <2>2 DEF Send
    <2>4. TypeOK'
      BY <1>4, <2>2, <2>3 DEF Send, TypeOK
    <2>5. Phases'
      BY <1>4, <2>1 DEF Send, Phases, Setup, Busy
    <2>6. NilMeansAllWritten'
      BY <1>4 DEF Send, NilMeansAllWritten
    <2>7. Accounted'
      <3> SUFFICES ASSUME ~canceled', NEW b \in 0..(offset' - 1)
                   PROVE  b \in written' \/ Queued(b)' \/ Held(b)'
        BY DEF Accounted
      <3>1. CASE b \in 0..(offset - 1)
        <4>1. b \in written \/ Queued(b) \/ Held(b)
          BY <1>4, <3>1 DEF Send, Accounted
        <4>2. Queued(b) => Queued(b)'
          BY <2>3 DEF Queued
        <4>3. Held(b) => Held(b)'
          BY <1>4 DEF Send, Held, Busy
        <4> QED
          BY <4>1, <4>2, <4>3, <1>4 DEF Send
      <3>2. CASE b \notin 0..(offset - 1)
        <4>1. b \in Bytes(NextChunk)
          <5>1. b \in offset .. (offset' - 1)
            BY <2>1, <2>2, <3>2, CopyAssumption, BetweenOffsets
          <5> QED
            BY <2>2, <5>1
        <4>2. Len(chunks) + 1 \in DOMAIN chunks'
          BY <2>1, <2>3
        <4>3. Bytes(chunks'[Len(chunks) + 1]) = Bytes(NextChunk)
          BY <2>3
        <4> QED
          BY <4>1, <4>2, <4>3 DEF Queued
      <3> QED
        BY <3>1, <3>2
    <2> QED
      BY <2>4, <2>5, <2>6, <2>7
  <1>5. CASE Return
    <2>1. TypeOK'
      BY <1>5 DEF Return, TypeOK
    <2>2. Phases'
      BY <1>5 DEF Return, Phases, Setup, Busy
    <2>3. Accounted'
      BY <1>5, AccountedFrame DEF Return, Busy
    <2>4. NilMeansAllWritten'
      <3> SUFFICES ASSUME result' = "nil" PROVE written' = 0..(Size - 1)
        BY DEF NilMeansAllWritten
      <3>1. ~canceled /\ closed /\ offset = Size
        BY <1>5 DEF Return, Phases
      <3>2. 1 \in Workers
        BY WorkerCountPositive DEF Workers
      <3>3. chunks = <<>> /\ \A w \in Workers : wpc[w] = "exited"
        BY <1>5, <3>1, <3>2 DEF Return, Phases
      <3>4. \A b \in 0..(Size - 1) : b \in written
        BY <3>1, <3>3 DEF Accounted, Queued, Held, Busy
      <3> QED
        BY <1>5, <3>4 DEF Return, TypeOK
    <2> QED
      BY <2>1, <2>2, <2>3, <2>4
  <1> QED
    BY <1>1, <1>2, <1>3, <1>4, <1>5 DEF CallerStep

\* A step of a worker keeps the invariant.
LEMMA WorkerIInv ==
  ASSUME IInv, NEW w \in Workers, WorkerStep(w)
  PROVE  IInv'
  <1> USE DEF IInv
  <1>1. CASE Receive(w)
    <2>1. /\ chunks \in Seq(Chunk) /\ chunks # <<>>
          /\ wpc \in [Workers -> {"receive", "got", "copy", "write", "exited"}]
          /\ chunk \in [Workers -> Chunk \cup {NoChunk}]
      BY <1>1 DEF Receive, TypeOK
    <2>2. Head(chunks) \in Chunk /\ Tail(chunks) \in Seq(Chunk)
      BY <2>1
    <2>3. /\ wpc' \in [Workers -> {"receive", "got", "copy", "write", "exited"}]
          /\ wpc'[w] = "got" /\ chunk'[w] = Head(chunks)
          /\ chunk' \in [Workers -> Chunk \cup {NoChunk}]
          /\ \A v \in Workers : v # w => wpc'[v] = wpc[v] /\ chunk'[v] = chunk[v]
      BY <1>1, <2>1, <2>2 DEF Receive
    <2>4. TypeOK'
      BY <1>1, <2>2, <2>3 DEF Receive, TypeOK
    <2>5. Phases'
      BY <1>1, <2>1, <2>2, <2>3 DEF Receive, Phases, Setup, Busy
    <2>6. NilMeansAllWritten'
      BY <1>1 DEF Receive, NilMeansAllWritten
    <2>7. Accounted'
      <3> SUFFICES ASSUME ~canceled, NEW b \in 0..(offset - 1)
                   PROVE  b \in written' \/ Queued(b)' \/ Held(b)'
        BY <1>1 DEF Receive, Accounted
      <3>1. b \in written \/ Queued(b) \/ Held(b)
        BY DEF Accounted
      <3>2. CASE Queued(b)
        <4>1. PICK i \in DOMAIN chunks : b \in Bytes(chunks[i])
          BY <3>2 DEF Queued
        <4>2. CASE i = 1
          BY <4>1, <4>2, <2>1, <2>3 DEF Held, Busy
        <4>3. CASE i # 1
          <5>1. i - 1 \in DOMAIN Tail(chunks) /\ Tail(chunks)[i - 1] = chunks[i]
            BY <4>1, <4>3, <2>1
          <5> QED
            BY <5>1, <4>1, <1>1 DEF Receive, Queued
        <4> QED
          BY <4>2, <4>3
      <3>3. CASE Held(b)
        <4>1. PICK v \in Workers : Busy(v) /\ b \in Bytes(chunk[v])
          BY <3>3 DEF Held
        <4>2. v # w
          BY <4>1, <1>1 DEF Receive, Busy
        <4> QED
          BY <4>1, <4>2, <2>3 DEF Held, Busy
      <3> QED
        BY <3>1, <3>2, <3>3, <1>1 DEF Receive
    <2> QED
      BY <2>4, <2>5, <2>6, <2>7
  <1>2. CASE EndOfChunks(w)
    <2>1. TypeOK'
      BY <1>2 DEF EndOfChunks, TypeOK
    <2>2. Phases'
      BY <1>2 DEF EndOfChunks, Phases, Setup, Busy, TypeOK
    <2>3. Accounted' /\ NilMeansAllWritten'
      BY <1>2, AccountedFrame DEF EndOfChunks, Busy, NilMeansAllWritten, TypeOK
    <2> QED
      BY <2>1, <2>2, <2>3
  <1>3. CASE CheckContext(w)
    <2>1. TypeOK'
      BY <1>3 DEF CheckContext, TypeOK
    <2>2. Phases'
      BY <1>3 DEF CheckContext, Phases, Setup, Busy, TypeOK
    <2>3. Accounted' /\ NilMeansAllWritten'
      BY <1>3, AccountedFrame DEF CheckContext, Busy, NilMeansAllWritten, TypeOK
    <2> QED
      BY <2>1, <2>2, <2>3
  <1>4. CASE StartChunk(w)
    <2>1. TypeOK'
      BY <1>4 DEF StartChunk, Fail, TypeOK
    <2>2. Phases'
      BY <1>4 DEF StartChunk, Fail, Phases, Setup, Busy, TypeOK
    <2>3. Accounted' /\ NilMeansAllWritten'
      BY <1>4, AccountedFrame
         DEF StartChunk, Fail, Busy, NilMeansAllWritten, TypeOK
    <2> QED
      BY <2>1, <2>2, <2>3
  <1>5. CASE CopyChunk(w)
    <2>1. chunk[w] \in Chunk
      BY <1>5 DEF CopyChunk, Phases, Busy
    <2>2. Bytes(chunk[w]) \subseteq 0..(Size - 1)
      BY <2>1, CopyAssumption DEF Chunk, Bytes
    <2>3. TypeOK'
      BY <1>5, <2>2 DEF CopyChunk, TypeOK
    <2>4. caller # "returned"
      BY <1>5 DEF CopyChunk, Phases
    <2>5. Phases'
      BY <1>5, <2>4 DEF CopyChunk, Phases, Setup, Busy, TypeOK
    <2>6. NilMeansAllWritten'
      BY <1>5, <2>4 DEF CopyChunk, Phases, NilMeansAllWritten
    <2>7. Accounted'
      BY <1>5, AccountedFrame DEF CopyChunk, Busy, TypeOK
    <2> QED
      BY <2>3, <2>5, <2>6, <2>7
  <1>6. CASE ChunkFails(w)
    <2>1. PICK n \in 0..(chunk[w].length - 1) :
            written' = written \cup Bytes([chunk[w] EXCEPT !.length = n])
      BY <1>6 DEF ChunkFails
    <2>2. chunk[w] \in Chunk
      BY <1>6 DEF ChunkFails, Phases, Busy
    <2>3. Bytes([chunk[w] EXCEPT !.length = n]) \subseteq 0..(Size - 1)
      BY <2>2, CopyAssumption DEF Chunk, Bytes
    <2>4. written' \subseteq 0..(Size - 1)
      BY <2>1, <2>3 DEF TypeOK
    <2>5. TypeOK'
      BY <1>6, <2>4 DEF ChunkFails, Fail, TypeOK
    <2>6. caller # "returned"
      BY <1>6 DEF ChunkFails, Phases
    <2>7. Phases'
      BY <1>6, <2>6 DEF ChunkFails, Fail, Phases, Setup, Busy, TypeOK
    <2>8. Accounted' /\ NilMeansAllWritten'
      BY <1>6, <2>6 DEF ChunkFails, Fail, Phases, Accounted, NilMeansAllWritten
    <2> QED
      BY <2>5, <2>7, <2>8
  <1> QED
    BY <1>1, <1>2, <1>3, <1>4, <1>5, <1>6 DEF WorkerStep

LEMMA CancelIInv == IInv /\ Cancel => IInv'
  <1> SUFFICES ASSUME IInv, Cancel PROVE IInv'
    OBVIOUS
  <1>1. TypeOK'
    BY DEF IInv, TypeOK, Cancel
  <1>2. Phases'
    BY DEF IInv, Phases, Setup, Busy, Cancel
  <1> QED
    BY <1>1, <1>2 DEF IInv, Accounted, NilMeansAllWritten, Cancel

LEMMA StutterIInv == IInv /\ UNCHANGED vars => IInv'
  BY DEF IInv, vars, TypeOK, Phases, Setup, Busy, Accounted, Queued, Held,
         NilMeansAllWritten

LEMMA NextIInv == IInv /\ [Next]_vars => IInv'
  BY CallerIInv, WorkerIInv, CancelIInv, StutterIInv DEF Next, Returned

\* The inductive invariant of a parallel copy.
THEOREM Invariance == Spec => []IInv
  BY InitIInv, NextIInv, PTL DEF Spec

\* A copy that reports success has written every byte.
THEOREM NilIsComplete == Spec => []NilMeansAllWritten
  <1>1. IInv => NilMeansAllWritten
    BY DEF IInv
  <1> QED
    BY <1>1, Invariance, PTL

\* No worker uses the reader or the writer once they are being closed.
THEOREM Quiet == Spec => []QuietAfterReturn
  <1>1. IInv => QuietAfterReturn
    BY DEF IInv, Phases, QuietAfterReturn, Busy
  <1> QED
    BY <1>1, Invariance, PTL

\* Every step of the producer and of the workers writes some bytes of the
\* source before the call returns, or is its return, or changes neither.
LEMMA StepIsCopyStep ==
  ASSUME IInv, [Next]_vars
  PROVE  [Copy!Next]_<<written, result>>
  <1> USE DEF IInv
  <1>1. CASE UNCHANGED vars
    BY <1>1 DEF vars
  <1>2. CASE CallerStep
    <2>1. CASE Prepare
      BY <2>1 DEF Prepare, Phases, Copy!Next, Copy!Return
    <2>2. CASE Return
      <3>1. result = "none" /\ UNCHANGED written
        BY <2>2 DEF Return, Phases
      <3>2. result' \in {"nil", "error"}
        BY <2>2 DEF Return
      <3>3. result' = "nil" => written = 0..(Size - 1)
        BY <1>2, <3>1, CallerIInv DEF NilMeansAllWritten
      <3> QED
        BY <3>1, <3>2, <3>3 DEF Copy!Next, Copy!Return
    <2>3. CASE EnterSelect \/ CloseChunks \/ Send \/ GiveUpSending
      BY <2>3 DEF EnterSelect, CloseChunks, Send, GiveUpSending
    <2> QED
      BY <1>2, <2>1, <2>2, <2>3 DEF CallerStep
  <1>3. CASE \E w \in Workers : WorkerStep(w)
    <2>1. PICK w \in Workers : WorkerStep(w)
      BY <1>3
    <2>2. CASE CopyChunk(w) \/ ChunkFails(w)
      <3>1. result = "none"
        BY <2>2 DEF CopyChunk, ChunkFails, Phases
      <3>2. written \subseteq written' /\ UNCHANGED result
        BY <2>2 DEF CopyChunk, ChunkFails
      <3>3. written' \subseteq 0..(Size - 1)
        BY <2>1, WorkerIInv DEF TypeOK
      <3> QED
        BY <3>1, <3>2, <3>3 DEF Copy!Next, Copy!Write
    <2>3. CASE Receive(w) \/ EndOfChunks(w) \/ CheckContext(w) \/ StartChunk(w)
      BY <2>3 DEF Receive, EndOfChunks, CheckContext, StartChunk
    <2> QED
      BY <2>1, <2>2, <2>3 DEF WorkerStep
  <1>4. CASE Cancel \/ Returned
    BY <1>4 DEF Cancel, Returned, vars
  <1> QED
    BY <1>1, <1>2, <1>3, <1>4 DEF Next

\* copyParallel implements FileCopy, whatever the size of the file, the chunks
\* and the number of workers.
THEOREM Refinement == Spec => ImplementsFileCopy
  <1>1. Init => Copy!Init
    BY DEF Init, Copy!Init
  <1>2. IInv /\ [Next]_vars => [Copy!Next]_<<written, result>>
    BY StepIsCopyStep
  <1> QED
    BY <1>1, <1>2, Invariance, PTL DEF Spec, ImplementsFileCopy, Copy!Spec
=============================================================================
