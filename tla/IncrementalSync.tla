--------------------------- MODULE IncrementalSync ---------------------------
(***************************************************************************)
(* SyncIncremental (internal/storage/incremental.go): a pass lists the     *)
(* source, compares size and modification time of each file with those of  *)
(* its copy and copies what differs, while the files may be edited, copy   *)
(* jobs take the same pairs (copyOneFile is common to both), and a pass    *)
(* may fail, be canceled or die with the process at any point.             *)
(*                                                                         *)
(* A file is the sequence of its blocks, each marked with the edit that    *)
(* wrote it.  Only the order of the two modification times matters: newer  *)
(* says that the source has been edited since the copy was last written.   *)
(* Edits and writes happen at different instants of one clock.  One        *)
(* schedule is followed, whose passes do not overlap (see SyncScheduler).  *)
(* The destination is written in place, which one on S3 is not (CopyJobs). *)
(* Init, Next and the like have names of their own here: the proofs take   *)
(* the pass together with the scheduler running it (SyncSchedulerProofs).  *)
(***************************************************************************)
EXTENDS Naturals, Sequences, FiniteSets

CONSTANTS
  Files,        \* the files under rule.Src
  Page,         \* those a listing tells of: on S3 only the first of each prefix
  Sizes,        \* the sizes, in blocks, an edit may give a file
  ParallelMin,  \* parallelCopyMinSize, in blocks
  NoCopy,       \* what the destination holds when there is no file
  MaxEdits,     \* bound: edits of the sources
  MaxFailures,  \* bound: passes that fail
  MaxJobs       \* bound: files that copy jobs take

ASSUME SyncAssumption ==
  /\ Page \subseteq Files
  /\ Sizes \subseteq Nat
  /\ ParallelMin \in Nat
  /\ MaxEdits \in Nat /\ MaxFailures \in Nat /\ MaxJobs \in Nat

VARIABLES
  source,    \* each file: the number of its last edit, and its size
  dest,      \* the blocks of each copy, or NoCopy
  newer,     \* the source is newer than the copy
  pc,        \* where the pass is
  listed,    \* size and newer, as the pass saw them in its listing
  todo,      \* the listed files the pass has not dealt with
  owner,     \* who holds the pair in transferLock: the pass, a job or nobody
  told,      \* the size the holder was told
  begun,     \* the files whose holder has made the destination
  edits,     \* the number of edits so far
  failures,  \* the number of failed passes so far
  jobs,      \* the number of files taken by jobs so far
  edited,    \* history: the listed files edited since the pass listed them
  torn,      \* history: the files edited while they were last copied
  broken,    \* history: the files whose last copy was parallel and failed
  met        \* history: the files a job held when the pass looked at them or since

history  == <<edited, torn, broken, met>>
counters == <<edits, failures, jobs>>
lock     == <<owner, told, begun>>
passVars == <<source, dest, newer, pc, listed, todo, lock, counters, history>>

Hole == MaxEdits + 1   \* a block nobody has written

Idle == [at |-> "idle"]
Walk == [at |-> "file"]
At(step, f) == [at |-> step, file |-> f]

NotListed == [f \in Page |-> [size |-> 0, newer |-> FALSE]]

Content(s) == [n \in 1..s.size |-> s.edit]

Mirrored(f) == dest[f] = Content(source[f])

Parallel(f) == told[f] >= ParallelMin

----------------------------------------------------------------------------
PassInit ==
  /\ source \in [Files -> [edit : {0}, size : Sizes]]
  /\ dest = [f \in Files |-> NoCopy]
  /\ newer = [f \in Files |-> FALSE]
  /\ pc = Idle
  /\ listed = NotListed
  /\ todo = {}
  /\ owner = [f \in Files |-> "none"]
  /\ told = [f \in Files |-> 0]
  /\ begun = {}
  /\ edits = 0 /\ failures = 0 /\ jobs = 0
  /\ edited = {} /\ torn = {} /\ broken = {} /\ met = {}

\* Somebody edits a source.
Edit(f) ==
  /\ edits < MaxEdits
  /\ edits' = edits + 1
  /\ \E size \in Sizes :
       source' = [source EXCEPT ![f] = [edit |-> edits + 1, size |-> size]]
  /\ newer' = [newer EXCEPT ![f] = TRUE]
  /\ edited' = IF pc = Idle THEN edited ELSE edited \cup ({f} \cap Page)
  /\ torn' = IF f \in begun THEN torn \cup {f} ELSE torn
  /\ UNCHANGED <<dest, pc, listed, todo, lock, failures, jobs, broken, met>>

\* The backends are opened and the source is listed.
StartPass ==
  /\ pc = Idle
  /\ listed' = [f \in Page |-> [size |-> source[f].size, newer |-> newer[f]]]
  /\ todo' = Page
  /\ pc' = Walk
  /\ UNCHANGED <<source, dest, newer, lock, counters, history>>

\* Mutants: every file is copied every time; the time alone decides.
NeedsCopyAlways(f) == TRUE
NeedsCopyByTime(f) == dest[f] = NoCopy \/ listed[f].newer

\* incrementalCopyReason: missing, size, mtime.
NeedsCopy(f) ==
  \/ dest[f] = NoCopy
  \/ Len(dest[f]) # listed[f].size
  \/ listed[f].newer

\* The copy is looked at: it is left as it is, or to be made again.
Examine(f) ==
  /\ pc = Walk
  /\ f \in todo
  /\ IF NeedsCopy(f)
       THEN pc' = At("begin", f) /\ UNCHANGED todo
       ELSE todo' = todo \ {f} /\ UNCHANGED pc
  /\ met' = IF owner[f] = "job" THEN met \cup {f} ELSE met \ {f}
  /\ UNCHANGED <<source, dest, newer, listed, lock, counters, edited, torn, broken>>

Take(f, o, size) ==
  /\ owner[f] = "none"
  /\ owner' = [owner EXCEPT ![f] = o]
  /\ told' = [told EXCEPT ![f] = size]

\* TryBegin reserves the pair for the pass.
TryBegin(f) ==
  /\ pc = At("begin", f)
  /\ Take(f, "pass", listed[f].size)
  /\ pc' = At("copy", f)
  /\ UNCHANGED <<source, dest, newer, listed, todo, begun, counters, history>>

\* errTransferInFlight: a job has the pair, and the pass goes on without the file.
SkipInFlight(f) ==
  /\ pc = At("begin", f)
  /\ owner[f] # "none"
  /\ todo' = todo \ {f}
  /\ pc' = Walk
  /\ UNCHANGED <<source, dest, newer, listed, lock, counters, history>>

\* Or for a copy job, which has planned it at some earlier size.
JobBegins(f) ==
  /\ jobs < MaxJobs
  /\ jobs' = jobs + 1
  /\ \E size \in Sizes : Take(f, "job", size)
  /\ met' = IF pc = Idle THEN met ELSE met \cup {f}
  /\ UNCHANGED <<source, dest, newer, pc, listed, todo, begun, edits, failures, edited,
                 torn, broken>>

----------------------------------------------------------------------------
\* copyOneFile, for the pass and for the jobs.

\* The source is opened and the destination emptied.
Create(f) ==
  /\ owner[f] # "none" /\ f \notin begun
  /\ begun' = begun \cup {f}
  /\ dest' = [dest EXCEPT ![f] = <<>>]
  /\ newer' = [newer EXCEPT ![f] = FALSE]
  /\ torn' = torn \ {f}
  /\ broken' = broken \ {f}
  /\ met' = IF owner[f] = "pass" THEN met \ {f} ELSE met
  /\ UNCHANGED <<source, pc, listed, todo, owner, told, counters, edited>>

\* The stream copy reads the next block of the source as it is now.
CopyBlock(f) ==
  /\ f \in begun
  /\ ~Parallel(f)
  /\ Len(dest[f]) < source[f].size
  /\ dest' = [dest EXCEPT ![f] = Append(@, source[f].edit)]
  /\ newer' = [newer EXCEPT ![f] = FALSE]
  /\ UNCHANGED <<source, pc, listed, todo, lock, counters, history>>

WriteAt(s, n, b) ==
  [m \in 1..(IF n > Len(s) THEN n ELSE Len(s)) |->
     IF m = n THEN b ELSE IF m \in DOMAIN s THEN s[m] ELSE Hole]

\* The parallel copy writes the blocks of the size it was told in any order.
CopyChunk(f) ==
  /\ f \in begun
  /\ Parallel(f)
  /\ \E n \in 1..told[f] :
       /\ n \in DOMAIN dest[f] => dest[f][n] = Hole
       /\ n <= source[f].size
       /\ dest' = [dest EXCEPT ![f] = WriteAt(@, n, source[f].edit)]
  /\ newer' = [newer EXCEPT ![f] = FALSE]
  /\ UNCHANGED <<source, pc, listed, todo, lock, counters, history>>

Free(f) ==
  /\ owner' = [owner EXCEPT ![f] = "none"]
  /\ told' = [told EXCEPT ![f] = 0]
  /\ begun' = begun \ {f}

\* The end of the source, or the last chunk.
FinishFile(f) ==
  /\ f \in begun
  /\ IF Parallel(f)
       THEN Len(dest[f]) = told[f] /\ \A n \in DOMAIN dest[f] : dest[f][n] # Hole
       ELSE Len(dest[f]) >= source[f].size
  /\ Free(f)
  /\ IF owner[f] = "pass" THEN todo' = todo \ {f} /\ pc' = Walk
                          ELSE UNCHANGED <<todo, pc>>
  /\ UNCHANGED <<source, dest, newer, listed, counters, history>>

\* SyncIncremental returns, and with it goes what it has seen.
Leave ==
  /\ pc' = Idle
  /\ todo' = {} /\ listed' = NotListed
  /\ edited' = {} /\ met' = {}

\* The copy fails, and the pass with it if it is its own.
Abandon(f) ==
  /\ Free(f)
  /\ broken' = IF f \in begun /\ Parallel(f) THEN broken \cup {f} ELSE broken
  /\ IF owner[f] = "pass" THEN Leave ELSE UNCHANGED <<pc, todo, listed, edited, met>>

\* A chunk beyond the end of a source that was cut short cannot be read.
ShortRead(f) ==
  /\ f \in begun
  /\ Parallel(f)
  /\ source[f].size < told[f]
  /\ Abandon(f)
  /\ UNCHANGED <<source, dest, newer, counters, torn>>

\* An error or a canceled context.  The copy in hand is left as it is, or removed
\* (a stream to an SMB share).
CopyFails(f) ==
  /\ owner[f] # "none"
  /\ IF owner[f] = "pass" THEN failures < MaxFailures /\ failures' = failures + 1
                          ELSE UNCHANGED failures
  /\ \/ UNCHANGED dest
     \/ f \in begun /\ ~Parallel(f) /\ dest' = [dest EXCEPT ![f] = NoCopy]
  /\ Abandon(f)
  /\ UNCHANGED <<source, newer, edits, jobs, torn>>

CopyStep(f) == Create(f) \/ CopyBlock(f) \/ CopyChunk(f) \/ FinishFile(f) \/ ShortRead(f)

----------------------------------------------------------------------------
\* SyncIncremental returns nil.
EndPass ==
  /\ pc = Walk
  /\ todo = {}
  /\ Leave
  /\ UNCHANGED <<source, dest, newer, lock, counters, torn, broken>>

\* The pass fails between two copies.  The end of the process is this, or the
\* failure of its copy, together with the failure of each job.
Fail ==
  /\ pc.at \in {"file", "begin"}
  /\ failures < MaxFailures
  /\ failures' = failures + 1
  /\ Leave
  /\ UNCHANGED <<source, dest, newer, lock, edits, jobs, torn, broken>>

PassStep ==
  \/ StartPass \/ EndPass
  \/ \E f \in Page : Examine(f) \/ TryBegin(f) \/ SkipInFlight(f)
  \/ \E f \in Page : owner[f] = "pass" /\ CopyStep(f)

JobStep(f) == owner[f] = "job" /\ CopyStep(f)

PassNext ==
  \/ PassStep \/ Fail
  \/ \E f \in Files : JobBegins(f) \/ JobStep(f) \/ CopyFails(f) \/ Edit(f)

PassSpec == PassInit /\ [][PassNext]_passVars

\* Cron starts a pass again and again, the goroutine of a job runs, and the calls of
\* a backend return.
PassFairSpec == PassSpec /\ WF_passVars(PassStep) /\ \A f \in Files : WF_passVars(JobStep(f))

----------------------------------------------------------------------------
\* Types, and the file the pass is at is one it has still to deal with.
PassTypeOK ==
  /\ source \in [Files -> [edit : 0..MaxEdits, size : Sizes]]
  /\ dest \in [Files -> {NoCopy} \cup Seq(0..Hole)]
  /\ newer \in [Files -> BOOLEAN]
  /\ pc.at \in {"idle", "file", "begin", "copy"}
  /\ pc.at \in {"begin", "copy"} => pc.file \in todo
  /\ listed \in [Page -> [size : Sizes \cup {0}, newer : BOOLEAN]]
  /\ todo \subseteq Page
  /\ owner \in [Files -> {"none", "pass", "job"}]
  /\ told \in [Files -> Sizes \cup {0}]
  /\ begun \subseteq Files
  /\ edits \in 0..MaxEdits /\ failures \in 0..MaxFailures /\ jobs \in 0..MaxJobs
  /\ edited \subseteq Files /\ torn \subseteq Files
  /\ broken \subseteq Files /\ met \subseteq Files

Delivered(f) == Mirrored(f) \/ f \in edited \/ f \in torn

\* A pass that ends without an error leaves every copy it has listed equal to its
\* source, whatever passes and jobs before it left behind.  Nothing is said, though
\* the pass returns nil, of the files beyond the page, and of four kinds of listed
\* ones: those edited since they were listed, those edited in the middle of their
\* last copy, those whose pair a copy job has held since the pass looked at them,
\* which it may have passed over for that, and those whose last copy was parallel
\* and failed: with its last chunk written it has the size of the source and is
\* newer, so every later pass skips it, holes and all.
PassDelivers ==
  (pc = Walk /\ todo = {}) =>
    \A f \in Page : Delivered(f) \/ f \in broken \/ f \in met

\* Once the sources are left alone, passes no longer fail and no more jobs come, the
\* listed files come to mirror the source and stay so.
EventuallyMirrors ==
  <>[](\A f \in Page : Mirrored(f) \/ f \in torn \/ f \in broken)
=============================================================================
