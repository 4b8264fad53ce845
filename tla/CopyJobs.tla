------------------------------ MODULE CopyJobs ------------------------------
(***************************************************************************)
(* The background copy jobs (internal/storage/sync.go) and the lock that   *)
(* keeps two of them off the same pair of files (transfer_lock.go).        *)
(*                                                                         *)
(* A file is the sequence of its blocks, one block being one turn of the   *)
(* copy loop.  A path stands for a backend and a path in it; one on S3     *)
(* holds an object, which is read as it was when it was opened and written *)
(* when the writer is closed.  Opening a backend, planning, ensureDir and  *)
(* every call of a backend may fail; a failure says nothing of why.  The   *)
(* parallel copy of a large file, which takes the place of the loop, is    *)
(* the subject of ParallelCopy.                                            *)
(***************************************************************************)
EXTENDS Naturals, Sequences, Subsequences

CONSTANTS
  Jobs,      \* the identifiers Start hands out
  Paths,     \* the files of all backends
  Objects,   \* those on S3
  NoFile,    \* what a path holds when there is no file
  Blocks,    \* the blocks files are made of
  Hole,      \* a block nobody has written
  Requests,  \* the requests: items (pairs of files) and the overwrite flag
  Disks      \* what the backends may hold at first

Pair == [src : Paths, dst : Paths]
File == {NoFile} \cup Seq(Blocks)

ASSUME JobsAssumption ==
  /\ Objects \subseteq Paths
  /\ NoFile \notin Seq(Blocks)
  /\ Hole \in Blocks
  /\ Requests \subseteq [items : Seq(Pair), overwrite : BOOLEAN]
  /\ Disks \subseteq [Paths -> File]

VARIABLES
  disk,       \* what each path holds
  active,     \* transferLock.active
  pc,         \* where each job's goroutine is
  status,     \* job.status, "none" before Start
  canceled,   \* the job's context is done
  plan,       \* the steps of the job
  overwrite,  \* request.Overwrite
  index,      \* the step the job is at
  pos,        \* how many blocks of the file have been copied
  copied,     \* job.copiedFiles
  skipped,    \* job.skippedFiles
  failed,     \* job.failedFiles
  opened,     \* what the source held when it was opened
  buffer,     \* what the writer of an object has collected
  disturbed,  \* history: another job has written to the pair meanwhile
  blind       \* history: the destination was there and the look missed it

vars == <<disk, active, pc, status, canceled, plan, overwrite, index, pos,
          copied, skipped, failed, opened, buffer, disturbed, blind>>

Terminal  == {"completed", "failed", "canceled"}
Status    == {"none", "queued", "running"} \cup Terminal
InLock    == {"check", "open", "create", "copy", "closed", "abandoned"}
Outside   == {"none", "queued", "plan", "loop", "skip", "copied", "broken", "counted",
              "done"}
Step(j)   == plan[j][index[j]]
Copying(j) == pc[j] \in InLock

\* dedupeCopySteps: the first of equal steps stays.
Dedupe(steps) ==
  SubSeqAt(steps, {n \in DOMAIN steps : \A m \in 1..(n - 1) : steps[m] # steps[n]})

----------------------------------------------------------------------------
Init ==
  /\ disk \in Disks
  /\ active = {}
  /\ pc = [j \in Jobs |-> "none"]
  /\ status = [j \in Jobs |-> "none"]
  /\ canceled = [j \in Jobs |-> FALSE]
  /\ plan = [j \in Jobs |-> <<>>]
  /\ overwrite = [j \in Jobs |-> FALSE]
  /\ index = [j \in Jobs |-> 1]
  /\ pos = [j \in Jobs |-> 0]
  /\ copied = [j \in Jobs |-> 0]
  /\ skipped = [j \in Jobs |-> 0]
  /\ failed = [j \in Jobs |-> 0]
  /\ opened = [j \in Jobs |-> NoFile]
  /\ buffer = [j \in Jobs |-> <<>>]
  /\ disturbed = [j \in Jobs |-> FALSE]
  /\ blind = [j \in Jobs |-> FALSE]

counts  == <<copied, skipped, failed>>
file    == <<disk, pos, opened, buffer, disturbed, blind>>
request == <<plan, overwrite>>

Start(j, r) ==
  /\ pc[j] = "none"
  /\ pc' = [pc EXCEPT ![j] = "queued"]
  /\ status' = [status EXCEPT ![j] = "queued"]
  /\ plan' = [plan EXCEPT ![j] = r.items]
  /\ overwrite' = [overwrite EXCEPT ![j] = r.overwrite]
  /\ UNCHANGED <<active, canceled, index, counts, file>>

\* Cancel ends the job's context and leaves the rest to the job.
Cancel(j) ==
  /\ status[j] \in {"queued", "running"}
  /\ canceled' = [canceled EXCEPT ![j] = TRUE]
  /\ UNCHANGED <<active, pc, status, request, index, counts, file>>

End(j, s) ==
  /\ pc' = [pc EXCEPT ![j] = "done"]
  /\ status' = [status EXCEPT ![j] = s]

Run(j) ==
  /\ pc[j] = "queued"
  /\ pc' = [pc EXCEPT ![j] = "plan"]
  /\ status' = [status EXCEPT ![j] = "running"]
  /\ UNCHANGED <<active, canceled, request, index, counts, file>>

\* The backends are opened and the steps listed, each once.
Plan(j) ==
  /\ pc[j] = "plan"
  /\ \A n \in DOMAIN plan[j] : disk[plan[j][n].src] # NoFile
  /\ plan' = [plan EXCEPT ![j] = Dedupe(@)]
  /\ pc' = [pc EXCEPT ![j] = "loop"]
  /\ UNCHANGED <<active, status, canceled, overwrite, index, counts, file>>

\* Or one of these fails, and the job with it.
PlanFails(j) ==
  /\ pc[j] = "plan"
  /\ End(j, "failed")
  /\ UNCHANGED <<active, canceled, request, index, counts, file>>

Complete(j) ==
  /\ pc[j] = "loop"
  /\ index[j] > Len(plan[j])
  /\ End(j, "completed")
  /\ UNCHANGED <<active, canceled, request, index, counts, file>>

\* Mutant: the loop is left without a word.
StopQuietly(j) ==
  /\ pc[j] = "loop"
  /\ index[j] <= Len(plan[j])
  /\ canceled[j]
  /\ pc' = [pc EXCEPT ![j] = "done"]
  /\ UNCHANGED <<active, status, canceled, request, index, counts, file>>

\* The context is looked at before each step.
StopCanceled(j) ==
  /\ pc[j] = "loop"
  /\ index[j] <= Len(plan[j])
  /\ canceled[j]
  /\ End(j, "canceled")
  /\ UNCHANGED <<active, canceled, request, index, counts, file>>

\* Mutant: the pair is reserved whether it is in flight or not.
TryBeginUnchecked(j) ==
  /\ pc[j] = "loop"
  /\ index[j] <= Len(plan[j])
  /\ ~canceled[j]
  /\ active' = active \cup {Step(j)}
  /\ pc' = [pc EXCEPT ![j] = "check"]
  /\ disturbed' = [disturbed EXCEPT ![j] = FALSE]
  /\ blind' = [blind EXCEPT ![j] = FALSE]
  /\ UNCHANGED <<disk, status, canceled, request, index, pos, counts, opened, buffer>>

\* TryBegin reserves the pair.
TryBegin(j) ==
  /\ pc[j] = "loop"
  /\ index[j] <= Len(plan[j])
  /\ ~canceled[j]
  /\ Step(j) \notin active
  /\ active' = active \cup {Step(j)}
  /\ pc' = [pc EXCEPT ![j] = "check"]
  /\ disturbed' = [disturbed EXCEPT ![j] = FALSE]
  /\ blind' = [blind EXCEPT ![j] = FALSE]
  /\ UNCHANGED <<disk, status, canceled, request, index, pos, counts, opened, buffer>>

\* errTransferInFlight: another job has the pair, this one goes on without it.
Skip(j) ==
  /\ pc[j] = "loop"
  /\ index[j] <= Len(plan[j])
  /\ ~canceled[j]
  /\ Step(j) \in active
  /\ pc' = [pc EXCEPT ![j] = "skip"]
  /\ UNCHANGED <<active, status, canceled, request, index, counts, file>>

\* The loop goes on with the next step.
Continue(j) ==
  /\ index' = [index EXCEPT ![j] = @ + 1]
  /\ pc' = [pc EXCEPT ![j] = "loop"]

\* Mutant: a pair that is in flight is passed over without being counted.
SkipUncounted(j) ==
  /\ pc[j] = "skip"
  /\ Continue(j)
  /\ UNCHANGED <<active, status, canceled, request, counts, file>>

CountSkipped(j) ==
  /\ pc[j] = "skip"
  /\ skipped' = [skipped EXCEPT ![j] = @ + 1]
  /\ Continue(j)
  /\ UNCHANGED <<active, status, canceled, request, copied, failed, file>>

\* Mutant: the destination is not looked at.
CheckNothing(j) ==
  /\ pc[j] = "check"
  /\ pc' = [pc EXCEPT ![j] = "open"]
  /\ UNCHANGED <<active, status, canceled, request, index, counts, file>>

\* ensureDir, and the look at the destination of a job that may not overwrite.
\* Stat takes an object for missing that cannot be asked for and has nothing
\* below it, and the job goes on.
Check(j) ==
  /\ pc[j] = "check"
  /\ \/ /\ overwrite[j] \/ disk[Step(j).dst] = NoFile
        /\ UNCHANGED blind
     \/ /\ ~overwrite[j] /\ disk[Step(j).dst] # NoFile /\ Step(j).dst \in Objects
        /\ blind' = [blind EXCEPT ![j] = TRUE]
  /\ pc' = [pc EXCEPT ![j] = "open"]
  /\ UNCHANGED <<active, status, canceled, request, index, counts, disk, pos, opened,
                 buffer, disturbed>>

OpenSource(j) ==
  /\ pc[j] = "open"
  /\ disk[Step(j).src] # NoFile
  /\ opened' = [opened EXCEPT ![j] = disk[Step(j).src]]
  /\ pc' = [pc EXCEPT ![j] = "create"]
  /\ UNCHANGED <<active, status, canceled, request, index, counts, disk, pos, buffer,
                 disturbed, blind>>

\* A write to a path disturbs every other job whose pair has that path.
Disturb(j, p) ==
  disturbed' = [k \in Jobs |->
    \/ disturbed[k]
    \/ k # j /\ Copying(k) /\ p \in {Step(k).src, Step(k).dst}]

\* Create empties the destination; for an object it only begins to collect.
CreateDest(j) ==
  /\ pc[j] = "create"
  /\ \/ /\ Step(j).dst \notin Objects
        /\ disk' = [disk EXCEPT ![Step(j).dst] = <<>>]
        /\ Disturb(j, Step(j).dst)
        /\ UNCHANGED buffer
     \/ /\ Step(j).dst \in Objects
        /\ buffer' = [buffer EXCEPT ![j] = <<>>]
        /\ UNCHANGED <<disk, disturbed>>
  /\ pos' = [pos EXCEPT ![j] = 0]
  /\ pc' = [pc EXCEPT ![j] = "copy"]
  /\ UNCHANGED <<active, status, canceled, request, index, counts, opened, blind>>

\* What the reader of a job sees.
Content(j) == IF Step(j).src \in Objects THEN opened[j] ELSE disk[Step(j).src]

\* A file after the block at position n (from 0) has been written; a file that
\* somebody else has cut short gets a hole.
PutBlock(f, n, b) ==
  LET old  == IF f = NoFile THEN <<>> ELSE f
      last == IF n < Len(old) THEN Len(old) ELSE n + 1
  IN  [m \in 1..last |->
         IF m = n + 1 THEN b ELSE IF m \in DOMAIN old THEN old[m] ELSE Hole]

\* One turn of the copy loop: read a block, write it.
CopyBlock(j) ==
  LET s == Step(j)
      next == Content(j)[pos[j] + 1]
  IN  /\ pc[j] = "copy"
      /\ ~canceled[j]
      /\ Content(j) # NoFile /\ pos[j] < Len(Content(j))
      /\ \/ /\ s.dst \notin Objects
            /\ disk' = [disk EXCEPT ![s.dst] = PutBlock(@, pos[j], next)]
            /\ Disturb(j, s.dst)
            /\ UNCHANGED buffer
         \/ /\ s.dst \in Objects
            /\ buffer' = [buffer EXCEPT ![j] = Append(@, next)]
            /\ UNCHANGED <<disk, disturbed>>
      /\ pos' = [pos EXCEPT ![j] = @ + 1]
      /\ UNCHANGED <<active, pc, status, canceled, request, index, counts, opened, blind>>

\* Close, which is what writes an object.
Close(j) ==
  IF Step(j).dst \in Objects
    THEN disk' = [disk EXCEPT ![Step(j).dst] = buffer[j]] /\ Disturb(j, Step(j).dst)
    ELSE UNCHANGED <<disk, disturbed>>

\* Mutant: a done context ends the loop as the end of the source does.
FileDoneWhenCanceled(j) ==
  /\ pc[j] = "copy"
  /\ \/ canceled[j]
     \/ Content(j) = NoFile \/ pos[j] >= Len(Content(j))
  /\ Close(j)
  /\ pc' = [pc EXCEPT ![j] = "closed"]
  /\ UNCHANGED <<active, status, canceled, request, index, counts, pos, opened, buffer,
                 blind>>

\* The end of the source: the file is closed.
FileDone(j) ==
  /\ pc[j] = "copy"
  /\ ~canceled[j]
  /\ Content(j) = NoFile \/ pos[j] >= Len(Content(j))
  /\ Close(j)
  /\ pc' = [pc EXCEPT ![j] = "closed"]
  /\ UNCHANGED <<active, status, canceled, request, index, counts, pos, opened, buffer,
                 blind>>

\* Any call fails, the destination exists and may not be overwritten, or the
\* context is done in the middle of a file.  The writer is closed nonetheless,
\* and an object then holds what has been collected, unless that fails too.
FileFails(j) ==
  /\ pc[j] \in {"check", "open", "create", "copy"}
  /\ \/ UNCHANGED <<disk, disturbed>>
     \/ pc[j] = "copy" /\ Close(j)
  /\ pc' = [pc EXCEPT ![j] = "abandoned"]
  /\ UNCHANGED <<active, status, canceled, request, index, counts, pos, opened, buffer,
                 blind>>

\* Mutant: a copy that fails keeps its pair.
ReleaseCopied(j) ==
  /\ pc[j] \in {"closed", "abandoned"}
  /\ active' = IF pc[j] = "closed" THEN active \ {Step(j)} ELSE active
  /\ pc' = [pc EXCEPT ![j] = IF @ = "closed" THEN "copied" ELSE "broken"]
  /\ UNCHANGED <<status, canceled, request, index, counts, file>>

\* The pair is released, however the copy has ended.
Release(j) ==
  /\ pc[j] \in {"closed", "abandoned"}
  /\ active' = active \ {Step(j)}
  /\ pc' = [pc EXCEPT ![j] = IF @ = "closed" THEN "copied" ELSE "broken"]
  /\ UNCHANGED <<status, canceled, request, index, counts, file>>

CountCopied(j) ==
  /\ pc[j] = "copied"
  /\ copied' = [copied EXCEPT ![j] = @ + 1]
  /\ Continue(j)
  /\ UNCHANGED <<active, status, canceled, request, skipped, failed, file>>

\* A failure is counted while the job is still running ...
CountFailed(j) ==
  /\ pc[j] = "broken"
  /\ failed' = [failed EXCEPT ![j] = @ + 1]
  /\ pc' = [pc EXCEPT ![j] = "counted"]
  /\ UNCHANGED <<active, status, canceled, request, index, copied, skipped, file>>

\* ... and ends it.
Fail(j) ==
  /\ pc[j] = "counted"
  /\ End(j, "failed")
  /\ UNCHANGED <<active, canceled, request, index, counts, file>>

JobStep(j) ==
  \/ Run(j) \/ Plan(j) \/ PlanFails(j)
  \/ Complete(j) \/ StopCanceled(j) \/ TryBegin(j) \/ Skip(j)
  \/ Check(j) \/ OpenSource(j) \/ CreateDest(j) \/ CopyBlock(j)
  \/ FileDone(j) \/ FileFails(j) \/ Release(j)
  \/ CountCopied(j) \/ CountSkipped(j) \/ CountFailed(j) \/ Fail(j)

Next ==
  \E j \in Jobs :
    \/ \E r \in Requests : Start(j, r)
    \/ Cancel(j)
    \/ JobStep(j)

Spec == Init /\ [][Next]_vars

\* The goroutine of a job runs, and the calls of a backend return.
FairSpec == Spec /\ \A j \in Jobs : WF_vars(JobStep(j))

----------------------------------------------------------------------------
\* Types, and a job that copies is at a step of its plan.
TypeOK ==
  /\ disk \in [Paths -> File]
  /\ active \subseteq Pair
  /\ pc \in [Jobs -> Outside \cup InLock]
  /\ status \in [Jobs -> Status]
  /\ canceled \in [Jobs -> BOOLEAN]
  /\ plan \in [Jobs -> Seq(Pair)]
  /\ overwrite \in [Jobs -> BOOLEAN]
  /\ index \in [Jobs -> Nat \ {0}]
  /\ \A j \in Jobs : Copying(j) => index[j] \in DOMAIN plan[j]
  /\ pos \in [Jobs -> Nat]
  /\ copied \in [Jobs -> Nat] /\ skipped \in [Jobs -> Nat]
  /\ failed \in [Jobs -> 0..1]
  /\ opened \in [Jobs -> File] /\ buffer \in [Jobs -> Seq(Blocks)]
  /\ disturbed \in [Jobs -> BOOLEAN] /\ blind \in [Jobs -> BOOLEAN]

\* "transferLock prevents the same source->dest file pair from being copied
\* concurrently": no two jobs are inside copyOneFile with the same pair.
PairExclusive ==
  \A i, j \in Jobs : (i # j /\ Copying(i) /\ Copying(j)) => Step(i) # Step(j)

\* The lock holds the pairs being copied and nothing else: whichever way a copy
\* ends its pair can be copied again, and is free once its job has ended.
LockHasOwner == active = {Step(j) : j \in {k \in Jobs : Copying(k)}}

\* The counters a client polls, each of which is written in a section of its own,
\* add up: a completed job has accounted for each file of its plan, a canceled one
\* has left some, a failed one failed before it came to any, or at one of them.
\* A failure shows while the job still runs, and the job then ends as failed.
Accounting ==
  \A j \in Jobs :
    LET accounted == copied[j] + skipped[j] + failed[j] IN
    /\ status[j] = "completed" => accounted = Len(plan[j]) /\ failed[j] = 0
    /\ status[j] = "canceled" => accounted < Len(plan[j]) /\ failed[j] = 0
    /\ status[j] = "failed" =>
         accounted = 0 \/ (failed[j] = 1 /\ accounted <= Len(plan[j]))
    /\ failed[j] > 0 => status[j] \in {"running", "failed"}

\* A file is closed as copied, and counted so in the end, only when the destination
\* holds what the source held when it was opened, unless another job wrote to one
\* of the two, or the two are one file, which CreateDest has emptied.
CopiedFileIsWhole ==
  [][\A j \in Jobs :
       (pc[j] # "closed" /\ pc'[j] = "closed" /\ ~disturbed[j]
          /\ Step(j).src # Step(j).dst) =>
         disk'[Step(j).dst] = opened[j]]_vars

\* The step in which a job first changes its destination.
Begins(j) ==
  \/ pc[j] = "create" /\ pc'[j] = "copy" /\ Step(j).dst \notin Objects
  \/ pc[j] = "copy" /\ pc'[j] # "copy" /\ Step(j).dst \in Objects /\ disk' # disk

\* Without the overwrite flag no file is emptied, and no object replaced, that was
\* there when the job took the pair; one that another job has made since then may
\* be, and on S3 one that the job could not see.
KeepsExistingFiles ==
  [][\A j \in Jobs :
       (Begins(j) /\ ~overwrite[j] /\ ~disturbed[j] /\ ~blind[j]) =>
         disk[Step(j).dst] = NoFile]_vars

\* What a client has read as the outcome of a job never changes, however
\* cancellation races with the job's own end.
OutcomeIsFinal ==
  [][\A j \in Jobs : status[j] \in Terminal => status'[j] = status[j]]_vars

\* Every job ends, canceled or not, whoever holds the pairs it wants.
JobsEnd == \A j \in Jobs : (status[j] = "queued") ~> (status[j] \in Terminal)
=============================================================================
