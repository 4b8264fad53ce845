---------------------------- MODULE ParallelCopy ----------------------------
(***************************************************************************)
(* copyParallel (internal/storage/parallel.go): one caller cuts a large    *)
(* file into chunks and feeds them through a bounded channel to workers,   *)
(* each of which reads a chunk at its offset and writes it at the same     *)
(* offset.  The first error cancels the shared context; so may the job or  *)
(* the schedule the copy belongs to, at any moment.                        *)
(*                                                                         *)
(* The content of the file is the set of its bytes that have been copied   *)
(* into the destination.  copyBufferSize equals parallelCopyChunkSize, so  *)
(* a chunk is one read and one write.                                      *)
(***************************************************************************)
EXTENDS Naturals, Sequences

CONSTANTS
  Size,        \* the size of the source when it was listed
  ChunkSize,   \* parallelCopyChunkSize
  MaxWorkers,  \* parallelCopyMaxWorkers
  Cores        \* runtime.GOMAXPROCS(0)

ASSUME CopyAssumption ==
  /\ Size \in Nat \ {0}
  /\ ChunkSize \in Nat \ {0}
  /\ MaxWorkers \in Nat \ {0}
  /\ Cores \in Nat

VARIABLES
  caller,    \* where copyParallel is
  offset,    \* the first byte not handed out yet
  chunks,    \* the chunks in the channel, oldest first
  closed,    \* close(chunks) has happened
  wpc,       \* where each worker is
  chunk,     \* the chunk each worker received last
  written,   \* the bytes of the source that are in the destination
  canceled,  \* ctx.Err() # nil
  copyErr,   \* copyErr # nil
  result     \* "none" until copyParallel returns, then "nil" or "error"

vars == <<caller, offset, chunks, closed, wpc, chunk, written, canceled,
          copyErr, result>>

Lesser(a, b) == IF a < b THEN a ELSE b

\* One worker per core up to the cap, and none that would have no chunk.
WorkerCount ==
  LET cores   == IF Cores < 1 THEN 1 ELSE Lesser(Cores, MaxWorkers)
      pieces  == (Size + ChunkSize - 1) \div ChunkSize
  IN  IF Size < ChunkSize * cores THEN Lesser(pieces, MaxWorkers) ELSE cores

Workers == 1..WorkerCount

Capacity == WorkerCount * 2

Bytes(c) == c.offset .. (c.offset + c.length - 1)

Chunk == {c \in [offset : Nat, length : Nat \ {0}] : c.offset + c.length <= Size}

NoChunk == [offset |-> 0, length |-> 0]

Busy(w) == wpc[w] \in {"got", "copy", "write"}

\* The chunk at the offset; the last one is cut at the end of the file.
NextChunk == [offset |-> offset, length |-> Lesser(ChunkSize, Size - offset)]

----------------------------------------------------------------------------
Init ==
  /\ caller = "prepare"
  /\ offset = 0
  /\ chunks = <<>>
  /\ closed = FALSE
  /\ wpc = [w \in Workers |-> "receive"]
  /\ chunk = [w \in Workers |-> NoChunk]
  /\ written = {}
  /\ canceled \in BOOLEAN
  /\ copyErr = FALSE
  /\ result = "none"

\* PrepareParallelWrite, OpenParallelReader and OpenParallelWriter, one after
\* the other; the first that fails ends the call.
Prepare ==
  /\ caller \in {"prepare", "openReader", "openWriter"}
  /\ \/ /\ caller' = CASE caller = "prepare" -> "openReader"
                       [] caller = "openReader" -> "openWriter"
                       [] caller = "openWriter" -> "loop"
        /\ UNCHANGED result
     \/ /\ caller' = "returned"
        /\ result' = "error"
  /\ UNCHANGED <<offset, chunks, closed, wpc, chunk, written, canceled, copyErr>>

\* The head of the producer loop: go on, or leave it and close the channel.
EnterSelect ==
  /\ caller = "loop"
  /\ offset < Size
  /\ ~canceled
  /\ caller' = "select"
  /\ UNCHANGED <<offset, chunks, closed, wpc, chunk, written, canceled, copyErr,
                 result>>

CloseChunks ==
  /\ caller = "loop"
  /\ offset >= Size \/ canceled
  /\ closed' = TRUE
  /\ caller' = "wait"
  /\ UNCHANGED <<offset, chunks, wpc, chunk, written, canceled, copyErr, result>>

\* The select statement: a ready channel may win over a done context.
Send ==
  /\ caller = "select"
  /\ Len(chunks) < Capacity
  /\ chunks' = Append(chunks, NextChunk)
  /\ offset' = offset + NextChunk.length
  /\ caller' = "loop"
  /\ UNCHANGED <<closed, wpc, chunk, written, canceled, copyErr, result>>

\* Mutant: the producer sends without watching the context.
NeverGiveUp == caller = "select" /\ canceled /\ UNCHANGED vars

GiveUpSending ==
  /\ caller = "select"
  /\ canceled
  /\ caller' = "loop"
  /\ UNCHANGED <<offset, chunks, closed, wpc, chunk, written, canceled, copyErr,
                 result>>

\* Mutant: the workers are not awaited.
ReturnWithoutWait ==
  /\ caller = "wait"
  /\ caller' = "returned"
  /\ result' = IF copyErr \/ canceled THEN "error" ELSE "nil"
  /\ UNCHANGED <<offset, chunks, closed, wpc, chunk, written, canceled, copyErr>>

\* wg.Wait, then copyErr or else ctx.Err().
Return ==
  /\ caller = "wait"
  /\ \A w \in Workers : wpc[w] = "exited"
  /\ caller' = "returned"
  /\ result' = IF copyErr \/ canceled THEN "error" ELSE "nil"
  /\ UNCHANGED <<offset, chunks, closed, wpc, chunk, written, canceled, copyErr>>

Receive(w) ==
  /\ wpc[w] = "receive"
  /\ chunks # <<>>
  /\ chunk' = [chunk EXCEPT ![w] = Head(chunks)]
  /\ chunks' = Tail(chunks)
  /\ wpc' = [wpc EXCEPT ![w] = "got"]
  /\ UNCHANGED <<caller, offset, closed, written, canceled, copyErr, result>>

\* The range over the channel ends once it is closed and empty.
EndOfChunks(w) ==
  /\ wpc[w] = "receive"
  /\ chunks = <<>> /\ closed
  /\ wpc' = [wpc EXCEPT ![w] = "exited"]
  /\ UNCHANGED <<caller, offset, chunks, closed, chunk, written, canceled,
                 copyErr, result>>

\* The worker's own look at the context: it drops the chunk and says nothing.
CheckContext(w) ==
  /\ wpc[w] = "got"
  /\ wpc' = [wpc EXCEPT ![w] = IF canceled THEN "exited" ELSE "copy"]
  /\ UNCHANGED <<caller, offset, chunks, closed, chunk, written, canceled,
                 copyErr, result>>

\* fail(err): the first error is kept and cancels the context.
Fail(w) ==
  /\ copyErr' = TRUE
  /\ canceled' = TRUE
  /\ wpc' = [wpc EXCEPT ![w] = "exited"]

\* copyChunkAt looks at the context again: from here on it is an error.
StartChunk(w) ==
  /\ wpc[w] = "copy"
  /\ IF canceled
       THEN Fail(w)
       ELSE /\ wpc' = [wpc EXCEPT ![w] = "write"]
            /\ UNCHANGED <<canceled, copyErr>>
  /\ UNCHANGED <<caller, offset, chunks, closed, chunk, written, result>>

\* readExactAt and writeExactAt both succeed.
CopyChunk(w) ==
  /\ wpc[w] = "write"
  /\ written' = written \cup Bytes(chunk[w])
  /\ wpc' = [wpc EXCEPT ![w] = "receive"]
  /\ UNCHANGED <<caller, offset, chunks, closed, chunk, canceled, copyErr, result>>

\* One of them fails, the write perhaps after some of the bytes.
ChunkFails(w) ==
  /\ wpc[w] = "write"
  /\ \E n \in 0..(chunk[w].length - 1) :
       written' = written \cup Bytes([chunk[w] EXCEPT !.length = n])
  /\ Fail(w)
  /\ UNCHANGED <<caller, offset, chunks, closed, chunk, result>>

\* The job is canceled, or the schedule's context is done.
Cancel ==
  /\ ~canceled
  /\ caller # "returned"
  /\ canceled' = TRUE
  /\ UNCHANGED <<caller, offset, chunks, closed, wpc, chunk, written, copyErr,
                 result>>

CallerStep ==
  Prepare \/ EnterSelect \/ CloseChunks \/ Send \/ GiveUpSending \/ Return

WorkerStep(w) ==
  \/ Receive(w) \/ EndOfChunks(w) \/ CheckContext(w)
  \/ StartChunk(w) \/ CopyChunk(w) \/ ChunkFails(w)

\* A call that has returned does nothing more.
Returned == caller = "returned" /\ UNCHANGED vars

Next ==
  \/ CallerStep
  \/ \E w \in Workers : WorkerStep(w)
  \/ Cancel
  \/ Returned

Spec == Init /\ [][Next]_vars

\* Reads and writes return (a backend call fails rather than hangs), and the
\* Go scheduler runs every goroutine that can go on.
FairSpec ==
  /\ Spec
  /\ WF_vars(CallerStep)
  /\ \A w \in Workers : WF_vars(WorkerStep(w))

----------------------------------------------------------------------------
\* Types: chunks lie inside the file, and the last one ends where it ends.
TypeOK ==
  /\ caller \in {"prepare", "openReader", "openWriter", "loop", "select",
                 "wait", "returned"}
  /\ offset \in 0..Size
  /\ chunks \in Seq(Chunk)
  /\ closed \in BOOLEAN
  /\ wpc \in [Workers -> {"receive", "got", "copy", "write", "exited"}]
  /\ chunk \in [Workers -> Chunk \cup {NoChunk}]
  /\ written \subseteq 0..(Size - 1)
  /\ canceled \in BOOLEAN
  /\ copyErr \in BOOLEAN
  /\ result \in {"none", "nil", "error"}

\* copyParallel returns nil only if every byte of the source has been written,
\* whatever chunks workers dropped, failed or abandoned on the way.
NilMeansAllWritten == result = "nil" => written = 0..(Size - 1)

\* Once copyParallel has returned, its deferred calls close the reader and the
\* writer: no worker may be about to use them.
QuietAfterReturn == result # "none" => \A w \in Workers : ~Busy(w)

\* copyParallel is a file copy: see FileCopy for what that promises.
Copy == INSTANCE FileCopy WITH Whole <- 0..(Size - 1)

ImplementsFileCopy == Copy!Spec

\* The call returns: a full channel, failed workers and a canceled context
\* never leave the producer or the WaitGroup waiting for ever.
Returns == <>(caller = "returned")
=============================================================================
