--------------------------- MODULE CopyJobsProofs ---------------------------
(***************************************************************************)
(* For every set of jobs, requests and files: no two jobs copy the same    *)
(* pair, the lock holds the pairs being copied and nothing else, and the   *)
(* outcome of a job is final; the counters of a job add up, a file closed  *)
(* as copied is whole, and none is begun anew that may not be.             *)
(***************************************************************************)
EXTENDS CopyJobs, Functions, FiniteSetTheorems, TLAPS

\* The part of TypeOK the argument needs: which variables are arrays over Jobs.
Shape ==
  /\ pc \in [Jobs -> Outside \cup InLock]
  /\ status \in [Jobs -> Status]
  /\ plan = [j \in Jobs |-> plan[j]]
  /\ index = [j \in Jobs |-> index[j]]

\* Only a job that does nothing any more has an outcome.
Ended == \A j \in Jobs : status[j] \in Terminal => pc[j] = "done"

IInv == Shape /\ LockHasOwner /\ PairExclusive /\ Ended

----------------------------------------------------------------------------
LEMMA InitIInv == Init => IInv
  BY DEF Init, IInv, Shape, Outside, InLock, Status, Terminal, LockHasOwner,
         PairExclusive, Copying, Ended

\* A step that neither moves a job into or out of copyOneFile nor changes the
\* lock, or the step of a job in it, keeps the two invariants of the lock.
LEMMA LockFrame ==
  ASSUME LockHasOwner, PairExclusive, active' = active,
         \A k \in Jobs : Copying(k)' <=> Copying(k),
         \A k \in Jobs : Copying(k) => Step(k)' = Step(k)
  PROVE  LockHasOwner' /\ PairExclusive'
  <1>1. PairExclusive'
    BY DEF PairExclusive
  <1>2. {Step(j) : j \in {k \in Jobs : Copying(k)}}' =
        {Step(j) : j \in {k \in Jobs : Copying(k)}}
    OBVIOUS
  <1>3. LockHasOwner'
    BY <1>2 DEF LockHasOwner
  <1> QED
    BY <1>1, <1>3

\* Reserving a pair that is free.
LEMMA LockTaken ==
  ASSUME LockHasOwner, PairExclusive, NEW j \in Jobs,
         ~Copying(j), Copying(j)', Step(j) \notin active,
         active' = active \cup {Step(j)}, Step(j)' = Step(j),
         \A k \in Jobs : k # j => (Copying(k)' <=> Copying(k)),
         \A k \in Jobs : Copying(k) => Step(k)' = Step(k)
  PROVE  LockHasOwner' /\ PairExclusive'
  <1>1. \A k \in Jobs : Copying(k) => Step(k) \in active
    BY DEF LockHasOwner
  <1>2. PairExclusive'
    <2> SUFFICES ASSUME NEW i \in Jobs, NEW k \in Jobs, i # k,
                        Copying(i)', Copying(k)'
                 PROVE  Step(i)' # Step(k)'
      BY DEF PairExclusive
    <2>1. CASE i = j
      BY <1>1, <2>1
    <2>2. CASE k = j
      BY <1>1, <2>2
    <2>3. CASE i # j /\ k # j
      BY <2>3 DEF PairExclusive
    <2> QED
      BY <2>1, <2>2, <2>3
  <1>3. LockHasOwner'
    <2>1. \A p : p \in active' <=> \E k \in Jobs : Copying(k)' /\ p = Step(k)'
      BY DEF LockHasOwner
    <2> QED
      BY <2>1 DEF LockHasOwner
  <1> QED
    BY <1>2, <1>3

\* Releasing the pair of the copy that ends.
LEMMA LockReleased ==
  ASSUME LockHasOwner, PairExclusive, NEW j \in Jobs,
         Copying(j), ~Copying(j)', active' = active \ {Step(j)},
         \A k \in Jobs : k # j => (Copying(k)' <=> Copying(k)),
         \A k \in Jobs : k # j /\ Copying(k) => Step(k)' = Step(k)
  PROVE  LockHasOwner' /\ PairExclusive'
  <1>1. PairExclusive'
    BY DEF PairExclusive
  <1>2. \A k \in Jobs : k # j /\ Copying(k) => Step(k) # Step(j)
    BY DEF PairExclusive
  <1>3. \A p : p \in active' <=> \E k \in Jobs : Copying(k)' /\ p = Step(k)'
    BY <1>2 DEF LockHasOwner
  <1>4. LockHasOwner'
    BY <1>3 DEF LockHasOwner
  <1> QED
    BY <1>1, <1>4

----------------------------------------------------------------------------
LEMMA RequestIInv ==
  ASSUME IInv, NEW j \in Jobs, (\E r \in Requests : Start(j, r)) \/ Cancel(j)
  PROVE  IInv'
  <1> USE DEF IInv
  <1>1. Shape'
    BY DEF Start, Cancel, Shape, Outside, Status, request
  <1>2. LockHasOwner' /\ PairExclusive'
    BY LockFrame DEF Start, Cancel, Shape, Copying, InLock, Step, request
  <1>3. Ended'
    BY DEF Start, Cancel, Shape, Ended, Terminal
  <1> QED
    BY <1>1, <1>2, <1>3

LEMMA JobIInv ==
  ASSUME IInv, NEW j \in Jobs, JobStep(j)
  PROVE  IInv'
  <1> USE DEF IInv
  <1>1. CASE Run(j) \/ Plan(j) \/ PlanFails(j) \/ Complete(j) \/ StopCanceled(j)
             \/ Skip(j) \/ CountSkipped(j) \/ CountCopied(j) \/ CountFailed(j) \/ Fail(j)
    <2>1. Shape'
      BY <1>1 DEF Run, Plan, PlanFails, Complete, StopCanceled, Skip, CountSkipped,
                  CountCopied, CountFailed, Fail, Continue, End, Shape, Outside, Status,
                  Terminal, request
    <2>2. LockHasOwner' /\ PairExclusive'
      BY <1>1, LockFrame
         DEF Run, Plan, PlanFails, Complete, StopCanceled, Skip, CountSkipped,
             CountCopied, CountFailed, Fail, Continue, End, Shape, Copying, InLock, Step,
             request
    <2>3. Ended'
      BY <1>1 DEF Run, Plan, PlanFails, Complete, StopCanceled, Skip, CountSkipped,
                  CountCopied, CountFailed, Fail, Continue, End, Shape, Ended, Terminal
    <2> QED
      BY <2>1, <2>2, <2>3
  <1>2. CASE TryBegin(j)
    <2>1. Shape'
      BY <1>2 DEF TryBegin, Shape, InLock, request
    <2>2. LockHasOwner' /\ PairExclusive'
      BY <1>2, LockTaken DEF TryBegin, Shape, Copying, InLock, Step, request
    <2>3. Ended'
      BY <1>2 DEF TryBegin, Shape, Ended, Terminal
    <2> QED
      BY <2>1, <2>2, <2>3
  <1>3. CASE \/ Check(j) \/ OpenSource(j) \/ CreateDest(j) \/ CopyBlock(j)
             \/ FileDone(j) \/ FileFails(j)
    <2>1. Shape'
      BY <1>3 DEF Check, OpenSource, CreateDest, CopyBlock, FileDone, FileFails, Shape,
                  InLock, request
    <2>2. LockHasOwner' /\ PairExclusive'
      BY <1>3, LockFrame
         DEF Check, OpenSource, CreateDest, CopyBlock, FileDone, FileFails, Shape,
             Copying, InLock, Step, request
    <2>3. Ended'
      BY <1>3 DEF Check, OpenSource, CreateDest, CopyBlock, FileDone, FileFails, Shape,
                  Ended, Terminal
    <2> QED
      BY <2>1, <2>2, <2>3
  <1>4. CASE Release(j)
    <2>1. Shape'
      BY <1>4 DEF Release, Shape, Outside, request
    <2>2. LockHasOwner' /\ PairExclusive'
      BY <1>4, LockReleased DEF Release, Shape, Copying, InLock, Step, request
    <2>3. Ended'
      BY <1>4 DEF Release, Shape, Ended, Terminal
    <2> QED
      BY <2>1, <2>2, <2>3
  <1> QED
    BY <1>1, <1>2, <1>3, <1>4 DEF JobStep

\* Whatever step is taken, an outcome stays.
LEMMA OutcomeStays ==
  ASSUME IInv, [Next]_vars, NEW j \in Jobs, status[j] \in Terminal
  PROVE  status'[j] = status[j]
  <1>1. pc[j] = "done"
    BY DEF IInv, Ended
  <1>2. CASE UNCHANGED vars
    BY <1>2 DEF vars
  <1>3. ASSUME NEW k \in Jobs, \E r \in Requests : Start(k, r)
        PROVE  status'[j] = status[j]
    BY <1>1, <1>3 DEF Start, IInv, Shape
  <1>4. ASSUME NEW k \in Jobs, Cancel(k)
        PROVE  status'[j] = status[j]
    BY <1>4 DEF Cancel
  <1>5. ASSUME NEW k \in Jobs, JobStep(k)
        PROVE  status'[j] = status[j]
    <2>1. k # j
      BY <1>1, <1>5
         DEF JobStep, Run, Plan, PlanFails, Complete, StopCanceled, TryBegin, Skip,
             CountSkipped, CountCopied, CountFailed, Fail, Check, OpenSource, CreateDest,
             CopyBlock, FileDone, FileFails, Release
    <2> QED
      BY <1>5, <2>1
         DEF JobStep, Run, Plan, PlanFails, Complete, StopCanceled, TryBegin, Skip,
             CountSkipped, CountCopied, CountFailed, Fail, Check, OpenSource, CreateDest,
             CopyBlock, FileDone, FileFails, Release, End, IInv, Shape
  <1> QED
    BY <1>2, <1>3, <1>4, <1>5 DEF Next

----------------------------------------------------------------------------
\* The inductive invariant holds throughout.
THEOREM Invariance == Spec => []IInv
  <1>1. IInv /\ [Next]_vars => IInv'
    <2> SUFFICES ASSUME IInv, [Next]_vars PROVE IInv'
      OBVIOUS
    <2>1. CASE UNCHANGED vars
      BY <2>1 DEF vars, IInv, Shape, LockHasOwner, PairExclusive, Copying, Step,
                  Ended
    <2>2. CASE Next
      BY <2>2, RequestIInv, JobIInv DEF Next
    <2> QED
      BY <2>1, <2>2
  <1> QED
    BY <1>1, InitIInv, PTL DEF Spec

\* transferLock does what its comment says: no two jobs copy the same pair.
THEOREM NoPairTwice == Spec => []PairExclusive
  <1>1. IInv => PairExclusive
    BY DEF IInv
  <1> QED
    BY <1>1, Invariance, PTL

\* However a copy ends its pair is released, and no pair is held for nobody.
THEOREM NoPairLeaks == Spec => []LockHasOwner
  <1>1. IInv => LockHasOwner
    BY DEF IInv
  <1> QED
    BY <1>1, Invariance, PTL

\* The outcome a client has read never changes.
THEOREM OutcomesAreFinal == Spec => OutcomeIsFinal
  <1>1. IInv /\ [Next]_vars =>
          [\A j \in Jobs : status[j] \in Terminal => status'[j] = status[j]]_vars
    BY OutcomeStays
  <1> QED
    BY <1>1, Invariance, PTL DEF Spec, OutcomeIsFinal
----------------------------------------------------------------------------
\* Sequences without some of their elements.

\* Which place of s the k-th element of SubSeqAt(s, S) comes from.
LEMMA PlaceOfEach ==
  ASSUME NEW N \in Nat, NEW S \in SUBSET (1..N)
  PROVE  /\ IsFiniteSet(S) /\ Cardinality(S) \in Nat
         /\ \A k \in 1..Cardinality(S) :
              \E n \in S : Cardinality({m \in S : m <= n}) = k
  <1> DEFINE Upto(n) == {m \in S : m <= n}
             rank    == [n \in S |-> Cardinality(Upto(n))]
             Ranks   == 1..Cardinality(S)
  <1>0. IsFiniteSet(1..N) /\ \A n \in S : n \in Nat
    BY FS_Interval
  <1>1. IsFiniteSet(S) /\ Cardinality(S) \in Nat
    BY <1>0, FS_Subset, FS_CardinalityType
  <1>2. \A n \in S : IsFiniteSet(Upto(n)) /\ Cardinality(Upto(n)) \in Ranks
    <2> TAKE n \in S
    <2>1. IsFiniteSet(Upto(n)) /\ Cardinality(Upto(n)) <= Cardinality(S)
      BY <1>1, FS_Subset, Zenon
    <2>2. Upto(n) # {}
      OBVIOUS
    <2> QED
      BY <1>1, <2>1, <2>2, FS_EmptySet, FS_CardinalityType
  <1>3. \A n, k \in S : n < k => Cardinality(Upto(n)) < Cardinality(Upto(k))
    <2> TAKE n, k \in S
    <2> HAVE n < k
    <2>1. n \in Nat /\ k \in Nat /\ \A m \in S : m \in Nat /\ (m <= n => m <= k)
      BY <1>0
    <2>2. Upto(n) \subseteq Upto(k)
      BY <2>1
    <2>3. k \in Upto(k) /\ k \notin Upto(n)
      BY <2>1
    <2>4. Cardinality(Upto(n)) <= Cardinality(Upto(k))
          /\ Cardinality(Upto(n)) # Cardinality(Upto(k))
      BY <1>2, <2>2, <2>3, FS_Subset
    <2> QED
      BY <1>2, <2>4
  <1>4. rank \in Injection(S, Ranks)
    <2>1. \A n, k \in S : Cardinality(Upto(n)) = Cardinality(Upto(k)) => n = k
      <3> TAKE n, k \in S
      <3>1. Cardinality(Upto(n)) \in Nat /\ Cardinality(Upto(k)) \in Nat
        BY <1>2
      <3>2. n \in Nat /\ k \in Nat
        BY <1>0
      <3> HIDE DEF Upto
      <3> QED
        BY <1>3, <3>1, <3>2
    <2> QED
      BY <1>2, <2>1 DEF Injection, IsInjective
  <1>5. IsFiniteSet(Ranks) /\ Cardinality(Ranks) = Cardinality(S)
    BY <1>1, FS_Interval
  <1>6. rank \in Surjection(S, Ranks)
    BY <1>4, <1>5, FS_Injection, Zenon
  <1> QED
    BY <1>1, <1>6 DEF Surjection

\* What is left of a sequence has elements of the same set.
LEMMA SubSeqTyped ==
  ASSUME NEW T, NEW s \in Seq(T), NEW S \in SUBSET DOMAIN s
  PROVE  SubSeqAt(s, S) \in Seq(T)
  <1> DEFINE Place(k) == CHOOSE n \in S : Cardinality({m \in S : m <= n}) = k
  <1>1. Len(s) \in Nat /\ DOMAIN s = 1..Len(s)
    OBVIOUS
  <1>2. Cardinality(S) \in Nat
    BY <1>1, PlaceOfEach
  <1>3. \A k \in 1..Cardinality(S) : Place(k) \in S
    <2> TAKE k \in 1..Cardinality(S)
    <2>1. \E n \in S : Cardinality({m \in S : m <= n}) = k
      BY <1>1, PlaceOfEach
    <2> QED
      BY <2>1
  <1> HIDE DEF Place
  <1>4. \A k \in 1..Cardinality(S) : s[Place(k)] \in T
    BY <1>1, <1>3
  <1>5. [k \in 1..Cardinality(S) |-> s[Place(k)]] \in Seq(T)
    BY <1>2, <1>4
  <1> QED
    BY <1>5 DEF SubSeqAt, Place
----------------------------------------------------------------------------
\* Types.

LEMMA DedupeTyped ==
  ASSUME NEW steps \in Seq(Pair)
  PROVE  Dedupe(steps) \in Seq(Pair)
  BY SubSeqTyped DEF Dedupe

LEMMA PutBlockTyped ==
  ASSUME NEW f \in File, NEW n \in Nat, NEW b \in Blocks
  PROVE  PutBlock(f, n, b) \in Seq(Blocks)
  <1> DEFINE old  == IF f = NoFile THEN <<>> ELSE f
             last == IF n < Len(old) THEN Len(old) ELSE n + 1
             At(m) == IF m = n + 1 THEN b ELSE IF m \in DOMAIN old THEN old[m] ELSE Hole
  <1>1. old \in Seq(Blocks)
    BY DEF File
  <1> HIDE DEF old
  <1>2. last \in Nat
    BY <1>1
  <1>3. \A m \in 1..last : At(m) \in Blocks
    BY <1>1, JobsAssumption
  <1> HIDE DEF last, At
  <1>4. [m \in 1..last |-> At(m)] \in Seq(Blocks)
    BY <1>2, <1>3
  <1> QED
    BY <1>4 DEF PutBlock, At, last, old

LEMMA TypedInit == Init => TypeOK
  BY JobsAssumption DEF Init, TypeOK, Outside, InLock, Status, File, Copying

\* The places of a job at which the current step is one of its plan.
AtStep == {"skip", "copied", "broken"} \cup InLock

\* What the counters say along the way, and that an outcome is the end.
CountsFit(j) ==
  /\ pc[j] # "done" => status[j] \notin Terminal
  /\ pc[j] \notin {"none", "queued", "done"} => status[j] = "running"
  /\ pc[j] \notin {"counted", "done"} => failed[j] = 0
  /\ pc[j] \in {"none", "queued", "plan"} =>
       index[j] = 1 /\ copied[j] = 0 /\ skipped[j] = 0
  /\ pc[j] \in {"loop"} \cup AtStep =>
       /\ copied[j] + skipped[j] + 1 = index[j]
       /\ index[j] <= Len(plan[j]) + 1
  /\ pc[j] \in AtStep => index[j] <= Len(plan[j])
  /\ pc[j] = "counted" => failed[j] = 1 /\ copied[j] + skipped[j] + 1 <= Len(plan[j])
  /\ pc[j] = "done" =>
       /\ status[j] = "completed" =>
            copied[j] + skipped[j] = Len(plan[j]) /\ failed[j] = 0
       /\ status[j] = "canceled" =>
            copied[j] + skipped[j] < Len(plan[j]) /\ failed[j] = 0
       /\ status[j] = "failed" =>
            \/ copied[j] + skipped[j] + failed[j] = 0
            \/ failed[j] = 1 /\ copied[j] + skipped[j] + 1 <= Len(plan[j])
       /\ failed[j] > 0 => status[j] = "failed"

Counted == \A j \in Jobs : CountsFit(j)

\* The step a job that copies is at is a pair of paths.
LEMMA StepIsPair ==
  ASSUME TypeOK, NEW j \in Jobs, pc[j] = "loop" => index[j] <= Len(plan[j]),
         pc[j] = "loop" \/ Copying(j)
  PROVE  Step(j) \in Pair /\ Step(j).src \in Paths /\ Step(j).dst \in Paths
  <1>1. plan[j] \in Seq(Pair) /\ index[j] \in Nat \ {0}
    BY DEF TypeOK
  <1>2. index[j] \in 1..Len(plan[j])
    BY <1>1 DEF TypeOK
  <1>3. plan[j][index[j]] \in Pair
    BY <1>1, <1>2
  <1> QED
    BY <1>3 DEF Step, Pair

LEMMA RequestTyped ==
  ASSUME TypeOK, NEW j \in Jobs, (\E r \in Requests : Start(j, r)) \/ Cancel(j)
  PROVE  TypeOK'
  <1>1. CASE Cancel(j)
    BY <1>1 DEF Cancel, TypeOK, Copying, counts, file, request
  <1>2. CASE \E r \in Requests : Start(j, r)
    <2>1. PICK r \in Requests : Start(j, r)
      BY <1>2
    <2>2. r.items \in Seq(Pair) /\ r.overwrite \in BOOLEAN
      BY JobsAssumption
    <2> QED
      BY <2>1, <2>2 DEF Start, TypeOK, Copying, Outside, InLock, Status, counts, file
  <1> QED
    BY <1>1, <1>2

\* Closing a writer leaves files of blocks.
LEMMA CloseTyped ==
  ASSUME TypeOK, NEW j \in Jobs, UNCHANGED <<disk, disturbed>> \/ Close(j)
  PROVE  disk' \in [Paths -> File] /\ disturbed' \in [Jobs -> BOOLEAN]
  BY DEF Close, Disturb, TypeOK, File

\* One turn of the loop puts a block of the source into the file or the buffer.
LEMMA CopyTyped ==
  ASSUME TypeOK, NEW j \in Jobs, CopyBlock(j)
  PROVE  /\ disk' \in [Paths -> File] /\ disturbed' \in [Jobs -> BOOLEAN]
         /\ buffer' \in [Jobs -> Seq(Blocks)]
  <1> DEFINE p == Step(j).dst
             b == Content(j)[pos[j] + 1]
  <1>1. Step(j).src \in Paths /\ p \in Paths
    BY StepIsPair DEF CopyBlock, Copying, InLock
  <1>2. Content(j) \in Seq(Blocks) /\ pos[j] \in Nat
    BY <1>1 DEF CopyBlock, Content, TypeOK, File
  <1>3. b \in Blocks
    BY <1>2 DEF CopyBlock
  <1> HIDE DEF b
  <1>4. disk[p] \in File /\ PutBlock(disk[p], pos[j], b) \in File
    BY <1>1, <1>2, <1>3, PutBlockTyped DEF TypeOK, File
  <1>5. Append(buffer[j], b) \in Seq(Blocks)
    BY <1>3 DEF TypeOK
  <1>6. CASE p \in Objects
    BY <1>5, <1>6 DEF CopyBlock, TypeOK, b
  <1>7. CASE p \notin Objects
    BY <1>4, <1>7 DEF CopyBlock, Disturb, TypeOK, b
  <1> QED
    BY <1>6, <1>7

LEMMA JobTyped ==
  ASSUME TypeOK, Counted, NEW j \in Jobs, JobStep(j)
  PROVE  TypeOK'
  <1>1. CASE Run(j) \/ PlanFails(j) \/ Complete(j) \/ StopCanceled(j) \/ Fail(j)
             \/ Skip(j)
    BY <1>1 DEF Run, PlanFails, Complete, StopCanceled, Fail, Skip, End, TypeOK, Copying,
                Outside, InLock, Status, Terminal, counts, file, request
  <1>2. CASE Plan(j)
    <2>1. Dedupe(plan[j]) \in Seq(Pair)
      BY DedupeTyped DEF TypeOK
    <2> QED
      BY <1>2, <2>1 DEF Plan, TypeOK, Copying, Outside, InLock, counts, file
  <1>3. CASE TryBegin(j)
    <2>1. Step(j) \in Pair /\ index[j] \in DOMAIN plan[j]
      BY <1>3, StepIsPair DEF TryBegin, TypeOK
    <2> QED
      BY <1>3, <2>1 DEF TryBegin, TypeOK, Copying, InLock, counts, request
  <1>4. CASE CountSkipped(j) \/ CountCopied(j)
    <2>1. /\ copied' \in [Jobs -> Nat] /\ skipped' \in [Jobs -> Nat]
          /\ index' \in [Jobs -> Nat \ {0}]
      <3>1. CASE CountSkipped(j)
        BY <3>1 DEF CountSkipped, Continue, TypeOK
      <3>2. CASE CountCopied(j)
        BY <3>2 DEF CountCopied, Continue, TypeOK
      <3> QED
        BY <1>4, <3>1, <3>2
    <2>2. /\ pc' = [pc EXCEPT ![j] = "loop"]
          /\ index' = [index EXCEPT ![j] = @ + 1]
          /\ UNCHANGED <<active, status, canceled, plan, overwrite, failed, file>>
      BY <1>4 DEF CountSkipped, CountCopied, Continue, request
    <2> QED
      BY <2>1, <2>2 DEF TypeOK, Copying, Outside, InLock, file
  <1>5. CASE CountFailed(j)
    <2>1. failed[j] = 0
      BY <1>5 DEF CountFailed, Counted, CountsFit
    <2> QED
      BY <1>5, <2>1 DEF CountFailed, TypeOK, Copying, Outside, InLock, file, request
  <1>6. CASE Check(j)
    BY <1>6 DEF Check, TypeOK, Copying, InLock, counts, request
  <1>7. CASE OpenSource(j)
    <2>1. disk[Step(j).src] \in File
      BY <1>7, StepIsPair DEF OpenSource, TypeOK, Copying, InLock
    <2> QED
      BY <1>7, <2>1 DEF OpenSource, TypeOK, Copying, InLock, counts, request
  <1>8. CASE CreateDest(j)
    <2>1. <<>> \in File /\ <<>> \in Seq(Blocks) /\ Step(j).dst \in Paths
      BY <1>8, StepIsPair DEF CreateDest, Copying, InLock, File
    <2>2. disk' \in [Paths -> File] /\ disturbed' \in [Jobs -> BOOLEAN]
      <3>1. CASE Step(j).dst \in Objects
        BY <1>8, <3>1 DEF CreateDest, TypeOK
      <3>2. CASE Step(j).dst \notin Objects
        BY <1>8, <2>1, <3>2 DEF CreateDest, Disturb, TypeOK
      <3> QED
        BY <3>1, <3>2
    <2>3. buffer' \in [Jobs -> Seq(Blocks)]
      BY <1>8, <2>1 DEF CreateDest, TypeOK
    <2> QED
      BY <1>8, <2>2, <2>3 DEF CreateDest, TypeOK, Copying, InLock, counts, request
  <1>9. CASE CopyBlock(j)
    <2>1. /\ disk' \in [Paths -> File] /\ disturbed' \in [Jobs -> BOOLEAN]
          /\ buffer' \in [Jobs -> Seq(Blocks)]
      BY <1>9, CopyTyped
    <2>2. /\ pos' = [pos EXCEPT ![j] = @ + 1]
          /\ UNCHANGED <<active, pc, status, canceled, plan, overwrite, index, copied,
                         skipped, failed, opened, blind>>
      BY <1>9 DEF CopyBlock, counts, request
    <2> QED
      BY <2>1, <2>2 DEF TypeOK, Copying
  <1>10. CASE FileDone(j) \/ FileFails(j)
    <2>1. disk' \in [Paths -> File] /\ disturbed' \in [Jobs -> BOOLEAN]
      BY <1>10, CloseTyped DEF FileDone, FileFails
    <2> QED
      BY <1>10, <2>1 DEF FileDone, FileFails, TypeOK, Copying, InLock, counts, request
  <1>11. CASE Release(j)
    BY <1>11 DEF Release, TypeOK, Copying, Outside, InLock, counts, file, request
  <1> QED
    BY <1>1, <1>2, <1>3, <1>4, <1>5, <1>6, <1>7, <1>8, <1>9, <1>10, <1>11 DEF JobStep

----------------------------------------------------------------------------
\* The counters.

LEMMA CountedInit == Init => Counted
  BY DEF Init, Counted, CountsFit, AtStep, InLock, Terminal

\* A step of a job that leaves the counters and the plan of the others alone.
LEMMA CountedOfOne ==
  ASSUME Counted, NEW j \in Jobs,
         \A k \in Jobs : k # j =>
           /\ pc'[k] = pc[k] /\ status'[k] = status[k] /\ failed'[k] = failed[k]
           /\ index'[k] = index[k] /\ copied'[k] = copied[k]
           /\ skipped'[k] = skipped[k] /\ plan'[k] = plan[k],
         CountsFit(j)'
  PROVE  Counted'
  <1> SUFFICES ASSUME NEW k \in Jobs, k # j
               PROVE  CountsFit(k)'
    BY DEF Counted
  <1> QED
    BY DEF Counted, CountsFit

LEMMA RequestCounted ==
  ASSUME TypeOK, Counted, NEW j \in Jobs,
         (\E r \in Requests : Start(j, r)) \/ Cancel(j)
  PROVE  Counted'
  <1>1. CASE Cancel(j)
    BY <1>1 DEF Cancel, Counted, CountsFit, request, counts
  <1>2. CASE \E r \in Requests : Start(j, r)
    <2>1. CountsFit(j)'
      BY <1>2 DEF Start, TypeOK, Counted, CountsFit, AtStep, InLock, Terminal, counts
    <2> QED
      BY <1>2, <2>1, CountedOfOne DEF Start, TypeOK, counts
  <1> QED
    BY <1>1, <1>2

LEMMA JobCounted ==
  ASSUME TypeOK, Counted, NEW j \in Jobs, JobStep(j)
  PROVE  Counted'
  <1>1. /\ Len(plan[j]) \in Nat /\ index[j] \in Nat
        /\ copied[j] \in Nat /\ skipped[j] \in Nat
    BY DEF TypeOK
  <1>2. CountsFit(j)
    BY DEF Counted
  <1>3. \A k \in Jobs : k # j =>
          /\ pc'[k] = pc[k] /\ status'[k] = status[k] /\ failed'[k] = failed[k]
          /\ index'[k] = index[k] /\ copied'[k] = copied[k]
          /\ skipped'[k] = skipped[k] /\ plan'[k] = plan[k]
    BY DEF JobStep, Run, Plan, PlanFails, Complete, StopCanceled, TryBegin, Skip,
           CountSkipped, CountCopied, CountFailed, Fail, Check, OpenSource, CreateDest,
           CopyBlock, FileDone, FileFails, Release, Continue, End, TypeOK, counts, request
  <1> SUFFICES CountsFit(j)'
    BY <1>3, CountedOfOne
  <1>4. CASE Run(j) \/ PlanFails(j)
    BY <1>2, <1>4 DEF Run, PlanFails, End, TypeOK, CountsFit, AtStep, InLock, Terminal,
                      counts, request
  <1>5. CASE Plan(j)
    <2>1. Len(Dedupe(plan[j])) \in Nat
      BY DedupeTyped DEF TypeOK
    <2>2. /\ pc'[j] = "loop" /\ plan'[j] = Dedupe(plan[j]) /\ pc[j] = "plan"
          /\ UNCHANGED <<status, index, copied, skipped, failed>>
      BY <1>5 DEF Plan, TypeOK, counts
    <2> QED
      BY <1>2, <2>1, <2>2 DEF CountsFit, AtStep, InLock
  <1>6. CASE Complete(j) \/ StopCanceled(j)
    <2>1. /\ copied[j] + skipped[j] + 1 = index[j] /\ index[j] <= Len(plan[j]) + 1
          /\ failed[j] = 0
      BY <1>2, <1>6 DEF Complete, StopCanceled, CountsFit
    <2>2. /\ pc'[j] = "done" /\ UNCHANGED <<plan, index, copied, skipped, failed>>
          /\ \/ status'[j] = "completed" /\ index[j] > Len(plan[j])
             \/ status'[j] = "canceled" /\ index[j] <= Len(plan[j])
      BY <1>6 DEF Complete, StopCanceled, End, TypeOK, counts, request
    <2> QED
      BY <1>1, <2>1, <2>2 DEF CountsFit, AtStep, InLock
  <1>7. CASE \/ TryBegin(j) \/ Skip(j) \/ Check(j) \/ OpenSource(j) \/ CreateDest(j)
             \/ CopyBlock(j) \/ FileDone(j) \/ FileFails(j) \/ Release(j)
    <2>1. /\ UNCHANGED <<plan, index, copied, skipped, failed, status>>
          /\ pc'[j] \in AtStep /\ pc[j] \in {"loop"} \cup AtStep
          /\ pc[j] = "loop" => index[j] <= Len(plan[j])
      BY <1>7 DEF TryBegin, Skip, Check, OpenSource, CreateDest, CopyBlock, FileDone,
                  FileFails, Release, TypeOK, AtStep, InLock, counts, request
    <2> QED
      BY <1>2, <2>1 DEF CountsFit, AtStep, InLock
  <1>8. CASE CountSkipped(j) \/ CountCopied(j)
    <2>1. /\ copied[j] + skipped[j] + 1 = index[j] /\ index[j] <= Len(plan[j])
          /\ failed[j] = 0 /\ status[j] = "running"
      BY <1>2, <1>8 DEF CountSkipped, CountCopied, CountsFit, AtStep
    <2>2. /\ pc'[j] = "loop" /\ failed'[j] = failed[j] /\ status'[j] = status[j]
          /\ plan'[j] = plan[j] /\ index'[j] = index[j] + 1
          /\ \/ copied'[j] = copied[j] /\ skipped'[j] = skipped[j] + 1
             \/ copied'[j] = copied[j] + 1 /\ skipped'[j] = skipped[j]
      BY <1>8 DEF CountSkipped, CountCopied, Continue, TypeOK, request
    <2>3. copied'[j] + skipped'[j] + 1 = index'[j] /\ index'[j] <= Len(plan'[j]) + 1
      BY <1>1, <2>1, <2>2
    <2> QED
      BY <2>1, <2>2, <2>3 DEF CountsFit, AtStep, InLock, Terminal
  <1>9. CASE CountFailed(j)
    <2>1. /\ copied[j] + skipped[j] + 1 <= Len(plan[j])
          /\ failed[j] = 0 /\ status[j] = "running"
      BY <1>1, <1>2, <1>9 DEF CountFailed, CountsFit, AtStep
    <2>2. /\ pc'[j] = "counted" /\ failed'[j] = 1 /\ copied'[j] = copied[j]
          /\ status'[j] = status[j] /\ plan'[j] = plan[j] /\ skipped'[j] = skipped[j]
      BY <1>9, <2>1 DEF CountFailed, TypeOK, request
    <2> QED
      BY <2>1, <2>2 DEF CountsFit, AtStep, InLock, Terminal
  <1>10. CASE Fail(j)
    <2>1. failed[j] = 1 /\ copied[j] + skipped[j] + 1 <= Len(plan[j])
      BY <1>2, <1>10 DEF Fail, CountsFit
    <2>2. /\ pc'[j] = "done" /\ status'[j] = "failed"
          /\ UNCHANGED <<plan, copied, skipped, failed>>
      BY <1>10 DEF Fail, End, TypeOK, counts, request
    <2> QED
      BY <2>1, <2>2 DEF CountsFit, AtStep, InLock
  <1> QED
    BY <1>4, <1>5, <1>6, <1>7, <1>8, <1>9, <1>10 DEF JobStep

----------------------------------------------------------------------------
\* The files.

\* The first n blocks of a file.
FirstBlocks(f, n) == [m \in 1..n |-> f[m]]

\* What a job has written of its copy: an object has it in the buffer.
Written(j) == IF Step(j).dst \in Objects THEN buffer[j] ELSE disk[Step(j).dst]

\* While no other job writes to its files, a job that may not overwrite finds no
\* destination up to where it makes one, if it can see it, the source stays what was
\* opened, and what has been copied of it is what has been written.
FilesFit(j) ==
  /\ (~overwrite[j] /\ ~blind[j]
        /\ (pc[j] \in {"open", "create"} \/ (pc[j] = "copy" /\ Step(j).dst \in Objects))) =>
       disk[Step(j).dst] = NoFile
  /\ Step(j).src # Step(j).dst =>
       /\ pc[j] \in {"create", "copy"} =>
            opened[j] \in Seq(Blocks) /\ disk[Step(j).src] = opened[j]
       /\ pc[j] = "copy" =>
            /\ pos[j] <= Len(opened[j])
            /\ Written(j) = FirstBlocks(opened[j], pos[j])

Contents == \A j \in Jobs : (Copying(j) /\ ~disturbed[j]) => FilesFit(j)

LEMMA FirstBlocksProperties ==
  ASSUME NEW f \in Seq(Blocks)
  PROVE  /\ FirstBlocks(f, 0) = <<>>
         /\ FirstBlocks(f, Len(f)) = f
         /\ \A n \in 0..Len(f) :
              FirstBlocks(f, n) \in Seq(Blocks) /\ Len(FirstBlocks(f, n)) = n
  BY DEF FirstBlocks

LEMMA PutNextBlock ==
  ASSUME NEW f \in Seq(Blocks), NEW n \in Nat, n < Len(f)
  PROVE  PutBlock(FirstBlocks(f, n), n, f[n + 1]) = FirstBlocks(f, n + 1)
  <1> DEFINE old == FirstBlocks(f, n)
  <1>1. n \in 0..Len(f)
    OBVIOUS
  <1>2. old \in Seq(Blocks) /\ Len(old) = n /\ old # NoFile
    BY <1>1, FirstBlocksProperties, JobsAssumption
  <1>3. \A m \in 1..n : old[m] = f[m]
    BY DEF FirstBlocks
  <1>4. DOMAIN old = 1..n
    BY DEF FirstBlocks
  <1> HIDE DEF old
  <1>5. PutBlock(old, n, f[n + 1]) =
          [m \in 1..(n + 1) |->
             IF m = n + 1 THEN f[n + 1] ELSE IF m \in DOMAIN old THEN old[m] ELSE Hole]
    BY <1>2 DEF PutBlock
  <1>6. \A m \in 1..(n + 1) : m # n + 1 => m \in 1..n
    OBVIOUS
  <1> QED
    BY <1>3, <1>4, <1>5, <1>6 DEF FirstBlocks, old

\* What an object has collected grows by the next block.
LEMMA AppendNextBlock ==
  ASSUME NEW f \in Seq(Blocks), NEW n \in Nat, n < Len(f)
  PROVE  Append(FirstBlocks(f, n), f[n + 1]) = FirstBlocks(f, n + 1)
  <1>1. n \in 0..Len(f) /\ n + 1 \in 0..Len(f)
    OBVIOUS
  <1>2. /\ FirstBlocks(f, n) \in Seq(Blocks) /\ Len(FirstBlocks(f, n)) = n
        /\ FirstBlocks(f, n + 1) \in Seq(Blocks) /\ Len(FirstBlocks(f, n + 1)) = n + 1
    BY <1>1, FirstBlocksProperties
  <1>3. f[n + 1] \in Blocks
    OBVIOUS
  <1>4. /\ Append(FirstBlocks(f, n), f[n + 1]) \in Seq(Blocks)
        /\ Len(Append(FirstBlocks(f, n), f[n + 1])) = n + 1
    BY <1>2, <1>3
  <1>5. \A m \in 1..(n + 1) :
          Append(FirstBlocks(f, n), f[n + 1])[m] = FirstBlocks(f, n + 1)[m]
    <2> TAKE m \in 1..(n + 1)
    <2>1. CASE m = n + 1
      BY <1>2, <1>3, <2>1 DEF FirstBlocks
    <2>2. CASE m # n + 1
      <3>1. m \in 1..n /\ FirstBlocks(f, n)[m] = f[m] /\ FirstBlocks(f, n + 1)[m] = f[m]
        BY <2>2 DEF FirstBlocks
      <3> QED
        BY <1>2, <1>3, <3>1
    <2> QED
      BY <2>1, <2>2
  <1> QED
    BY <1>2, <1>4, <1>5

LEMMA FilesOfOther ==
  ASSUME NEW k \in Jobs, Contents, pc'[k] = pc[k], Step(k)' = Step(k),
         overwrite'[k] = overwrite[k], opened'[k] = opened[k], pos'[k] = pos[k],
         buffer'[k] = buffer[k], blind'[k] = blind[k], disturbed[k] => disturbed'[k],
         Copying(k) => \/ disturbed'[k]
                       \/ /\ disk'[Step(k).src] = disk[Step(k).src]
                          /\ disk'[Step(k).dst] = disk[Step(k).dst]
  PROVE  (Copying(k)' /\ ~disturbed'[k]) => FilesFit(k)'
  BY DEF Contents, FilesFit, Written, Copying

LEMMA RequestContents ==
  ASSUME TypeOK, Contents, NEW j \in Jobs,
         (\E r \in Requests : Start(j, r)) \/ Cancel(j)
  PROVE  Contents'
  <1> SUFFICES ASSUME NEW k \in Jobs
               PROVE  (Copying(k)' /\ ~disturbed'[k]) => FilesFit(k)'
    BY DEF Contents
  <1>1. CASE k = j /\ \E r \in Requests : Start(j, r)
    BY <1>1 DEF Start, TypeOK, Copying, InLock
  <1>2. CASE k # j \/ Cancel(j)
    BY <1>2, FilesOfOther DEF Start, Cancel, TypeOK, Step, file, request
  <1> QED
    BY <1>1, <1>2

\* A step of another job.
LEMMA OtherContents ==
  ASSUME TypeOK, Contents, NEW j \in Jobs, JobStep(j), NEW k \in Jobs, k # j
  PROVE  (Copying(k)' /\ ~disturbed'[k]) => FilesFit(k)'
  <1>1. /\ pc'[k] = pc[k] /\ Step(k)' = Step(k) /\ overwrite'[k] = overwrite[k]
        /\ opened'[k] = opened[k] /\ pos'[k] = pos[k] /\ buffer'[k] = buffer[k]
        /\ blind'[k] = blind[k]
    BY DEF JobStep, Run, Plan, PlanFails, Complete, StopCanceled, TryBegin, Skip,
           CountSkipped, CountCopied, CountFailed, Fail, Check, OpenSource, CreateDest,
           CopyBlock, FileDone, FileFails, Release, Continue, End, TypeOK, Step, file,
           request
  <1>2. CASE UNCHANGED disk /\ disturbed'[k] = disturbed[k]
    BY <1>1, <1>2, FilesOfOther
  <1>3. CASE /\ Disturb(j, Step(j).dst) /\ Copying(j)
             /\ \A p \in Paths : p # Step(j).dst => disk'[p] = disk[p]
    <2>1. /\ disturbed[k] => disturbed'[k]
          /\ Copying(k) /\ Step(j).dst \in {Step(k).src, Step(k).dst} => disturbed'[k]
      BY <1>3 DEF Disturb
    <2>2. Copying(k) => Step(k).src \in Paths /\ Step(k).dst \in Paths
      BY StepIsPair DEF Copying, InLock
    <2> QED
      BY <1>1, <1>3, <2>1, <2>2, FilesOfOther
  <1>4. CASE CreateDest(j) \/ CopyBlock(j) \/ FileDone(j) \/ FileFails(j)
    BY <1>2, <1>3, <1>4
       DEF CreateDest, CopyBlock, FileDone, FileFails, Close, TypeOK, Copying, InLock
  <1>5. CASE \/ Run(j) \/ Plan(j) \/ PlanFails(j) \/ Complete(j) \/ StopCanceled(j)
             \/ Skip(j) \/ CountSkipped(j) \/ CountCopied(j) \/ CountFailed(j) \/ Fail(j)
             \/ TryBegin(j) \/ Check(j) \/ OpenSource(j) \/ Release(j)
    BY <1>2, <1>5
       DEF Run, Plan, PlanFails, Complete, StopCanceled, TryBegin, Skip, CountSkipped,
           CountCopied, CountFailed, Fail, Check, OpenSource, Release, TypeOK, file
  <1> QED
    BY <1>4, <1>5 DEF JobStep

\* A step of the job itself.
LEMMA OwnContents ==
  ASSUME TypeOK, Contents, NEW j \in Jobs, JobStep(j), Copying(j)', ~disturbed'[j]
  PROVE  FilesFit(j)'
  <1>1. CASE TryBegin(j)
    BY <1>1 DEF TryBegin, TypeOK, FilesFit
  <1>2. CASE Check(j)
    BY <1>2 DEF Check, TypeOK, FilesFit, Step, counts, request
  <1>3. CASE OpenSource(j)
    <2>1. Copying(j) /\ ~disturbed[j]
      BY <1>3 DEF OpenSource, Copying, InLock
    <2>2. FilesFit(j)
      BY <2>1 DEF Contents
    <2>3. disk[Step(j).src] \in Seq(Blocks)
      BY <1>3, <2>1, StepIsPair DEF OpenSource, TypeOK, File, Copying, InLock
    <2> QED
      BY <1>3, <2>2, <2>3 DEF OpenSource, TypeOK, FilesFit, Step, request
  <1>4. CASE CreateDest(j)
    <2>1. Copying(j) /\ ~disturbed[j] /\ pc[j] = "create"
      BY <1>4 DEF CreateDest, Disturb, Copying, InLock
    <2>2. FilesFit(j)
      BY <2>1 DEF Contents
    <2>3. Step(j).src \in Paths /\ Step(j).dst \in Paths
      BY <2>1, StepIsPair DEF Copying, InLock
    <2>4. /\ pc'[j] = "copy" /\ pos'[j] = 0 /\ opened'[j] = opened[j]
          /\ blind'[j] = blind[j] /\ overwrite'[j] = overwrite[j] /\ Step(j)' = Step(j)
          /\ IF Step(j).dst \in Objects
               THEN disk' = disk /\ buffer'[j] = <<>>
               ELSE disk' = [disk EXCEPT ![Step(j).dst] = <<>>]
      BY <1>4 DEF CreateDest, TypeOK, Step, request
    <2>5. Step(j).src # Step(j).dst =>
            /\ opened[j] \in Seq(Blocks) /\ disk[Step(j).src] = opened[j]
            /\ FirstBlocks(opened[j], 0) = <<>> /\ 0 <= Len(opened[j])
      BY <2>1, <2>2, FirstBlocksProperties DEF FilesFit
    <2>6. CASE Step(j).dst \in Objects
      BY <2>1, <2>2, <2>4, <2>5, <2>6 DEF FilesFit, Written
    <2>7. CASE Step(j).dst \notin Objects
      BY <2>3, <2>4, <2>5, <2>7 DEF FilesFit, Written, TypeOK
    <2> QED
      BY <2>6, <2>7
  <1>5. CASE CopyBlock(j)
    <2> DEFINE s == Step(j)
    <2>1. Copying(j) /\ ~disturbed[j] /\ pc[j] = "copy"
      BY <1>5 DEF CopyBlock, Disturb, Copying, InLock
    <2>2. FilesFit(j)
      BY <2>1 DEF Contents
    <2>3. s.src \in Paths /\ s.dst \in Paths
      BY <2>1, StepIsPair DEF Copying, InLock
    <2>4. /\ pc'[j] = "copy" /\ pos'[j] = pos[j] + 1 /\ opened'[j] = opened[j]
          /\ blind'[j] = blind[j] /\ overwrite'[j] = overwrite[j]
          /\ Step(j)' = s /\ pos[j] \in Nat /\ pos[j] < Len(Content(j))
          /\ IF s.dst \in Objects
               THEN /\ disk' = disk
                    /\ buffer'[j] = Append(buffer[j], Content(j)[pos[j] + 1])
               ELSE disk' = [disk EXCEPT ![s.dst] =
                               PutBlock(disk[s.dst], pos[j], Content(j)[pos[j] + 1])]
      BY <1>5 DEF CopyBlock, TypeOK, Step, request
    <2> HIDE DEF s
    <2>5. ASSUME s.src # s.dst
          PROVE  /\ opened[j] \in Seq(Blocks) /\ disk'[s.src] = opened[j]
                 /\ pos'[j] <= Len(opened[j])
                 /\ (IF s.dst \in Objects THEN buffer'[j] ELSE disk'[s.dst])
                      = FirstBlocks(opened[j], pos'[j])
      <3>1. /\ opened[j] \in Seq(Blocks) /\ disk[s.src] = opened[j]
            /\ (IF s.dst \in Objects THEN buffer[j] ELSE disk[s.dst])
                 = FirstBlocks(opened[j], pos[j])
            /\ Content(j) = opened[j]
        BY <2>1, <2>2, <2>5 DEF FilesFit, Written, Content, s
      <3>2. CASE s.dst \in Objects
        <4>1. buffer'[j] = FirstBlocks(opened[j], pos'[j])
          BY <2>4, <3>1, <3>2, AppendNextBlock
        <4>2. Len(opened[j]) \in Nat
          BY <3>1
        <4> QED
          BY <2>4, <3>1, <3>2, <4>1, <4>2
      <3>3. CASE s.dst \notin Objects
        <4>1. disk'[s.dst] = FirstBlocks(opened[j], pos'[j])
          BY <2>3, <2>4, <3>1, <3>3, PutNextBlock DEF TypeOK
        <4>2. disk'[s.src] = disk[s.src]
          BY <2>3, <2>4, <2>5, <3>3 DEF TypeOK
        <4>3. Len(opened[j]) \in Nat
          BY <3>1
        <4> QED
          BY <2>4, <3>1, <3>3, <4>1, <4>2, <4>3
      <3> QED
        BY <3>2, <3>3
    <2>6. (s.dst \in Objects /\ ~overwrite[j] /\ ~blind[j]) => disk'[s.dst] = NoFile
      BY <2>1, <2>2, <2>4 DEF FilesFit, s
    <2> QED
      BY <2>4, <2>5, <2>6 DEF FilesFit, Written
  <1>6. CASE \/ Run(j) \/ Plan(j) \/ PlanFails(j) \/ Complete(j) \/ StopCanceled(j)
             \/ Skip(j) \/ CountSkipped(j) \/ CountCopied(j) \/ CountFailed(j) \/ Fail(j)
             \/ Release(j)
    BY <1>6 DEF Run, Plan, PlanFails, Complete, StopCanceled, Skip, CountSkipped,
                CountCopied, CountFailed, Fail, Release, Continue, End, TypeOK, Copying,
                InLock
  <1>7. CASE FileDone(j) \/ FileFails(j)
    <2>1. pc'[j] \in {"closed", "abandoned"}
      BY <1>7 DEF FileDone, FileFails, TypeOK
    <2> QED
      BY <2>1 DEF FilesFit
  <1> QED
    BY <1>1, <1>2, <1>3, <1>4, <1>5, <1>6, <1>7 DEF JobStep

LEMMA JobContents ==
  ASSUME TypeOK, Contents, NEW j \in Jobs, JobStep(j)
  PROVE  Contents'
  BY OwnContents, OtherContents DEF Contents

----------------------------------------------------------------------------
WorkFits == TypeOK /\ Counted /\ Contents

\* What the counters say and what the files hold is so throughout.
THEOREM WorkInvariance == Spec => []WorkFits
  <1>1. Init => WorkFits
    BY TypedInit, CountedInit DEF Init, WorkFits, Contents, Copying, InLock
  <1>2. WorkFits /\ [Next]_vars => WorkFits'
    <2> SUFFICES ASSUME WorkFits, [Next]_vars PROVE WorkFits'
      OBVIOUS
    <2>1. CASE UNCHANGED vars
      BY <2>1 DEF vars, WorkFits, TypeOK, Counted, CountsFit, Contents, FilesFit,
                  Written, Copying, Step
    <2>2. CASE Next
      BY <2>2, RequestTyped, JobTyped, RequestCounted, JobCounted, RequestContents,
         JobContents DEF Next, WorkFits
    <2> QED
      BY <2>1, <2>2
  <1> QED
    BY <1>1, <1>2, PTL DEF Spec

\* The types of the state, and a job that copies is at a step of its plan.
THEOREM TypesCorrect == Spec => []TypeOK
  <1>1. WorkFits => TypeOK
    BY DEF WorkFits
  <1> QED
    BY <1>1, WorkInvariance, PTL

\* The counters a client polls add up, whichever way a job ends.
THEOREM CountersAddUp == Spec => []Accounting
  <1>1. WorkFits => Accounting
    BY DEF WorkFits, TypeOK, Counted, CountsFit, Accounting, Terminal
  <1> QED
    BY <1>1, WorkInvariance, PTL

\* A file is closed by the step that ends its copy.
LEMMA ClosedByFileDone ==
  ASSUME TypeOK, [Next]_vars, NEW j \in Jobs, pc[j] # "closed", pc'[j] = "closed"
  PROVE  FileDone(j)
  <1>1. /\ ~(UNCHANGED vars)
        /\ \A k \in Jobs : ~Cancel(k) /\ \A r \in Requests : ~Start(k, r)
    BY DEF vars, Cancel, Start, TypeOK
  <1>2. PICK k \in Jobs : JobStep(k)
    BY <1>1 DEF Next
  <1>3. \A i \in Jobs : i # k => pc'[i] = pc[i]
    BY <1>2 DEF JobStep, Run, Plan, PlanFails, Complete, StopCanceled, TryBegin, Skip,
                CountSkipped, CountCopied, CountFailed, Fail, Check, OpenSource,
                CreateDest, CopyBlock, FileDone, FileFails, Release, Continue, End, TypeOK
  <1>4. k = j
    BY <1>3
  <1> QED
    BY <1>2, <1>4
       DEF JobStep, Run, Plan, PlanFails, Complete, StopCanceled, TryBegin, Skip,
           CountSkipped, CountCopied, CountFailed, Fail, Check, OpenSource, CreateDest,
           CopyBlock, FileFails, Release, Continue, End, TypeOK

\* A file closed as copied is whole: the destination holds what the source held
\* when it was opened, unless another job wrote to one of them.
THEOREM CopiesAreWhole == Spec => CopiedFileIsWhole
  <1>1. ASSUME WorkFits, [Next]_vars, NEW j \in Jobs, pc[j] # "closed",
               pc'[j] = "closed", ~disturbed[j], Step(j).src # Step(j).dst
        PROVE  disk'[Step(j).dst] = opened[j]
    <2>1. FileDone(j)
      BY <1>1, ClosedByFileDone DEF WorkFits
    <2>2. pc[j] = "copy" /\ Copying(j)
      BY <2>1 DEF FileDone, Copying, InLock
    <2>3. /\ opened[j] \in Seq(Blocks) /\ disk[Step(j).src] = opened[j]
          /\ pos[j] <= Len(opened[j])
          /\ Written(j) = FirstBlocks(opened[j], pos[j])
      BY <1>1, <2>2 DEF WorkFits, Contents, FilesFit
    <2>4. opened[j] # NoFile /\ Content(j) = opened[j]
      BY <2>3, JobsAssumption DEF Content
    <2>5. pos[j] >= Len(opened[j])
      BY <2>1, <2>3, <2>4 DEF FileDone
    <2>6. pos[j] = Len(opened[j])
      BY <1>1, <2>3, <2>5 DEF WorkFits, TypeOK
    <2>7. Written(j) = opened[j]
      BY <2>3, <2>6, FirstBlocksProperties
    <2>8. Step(j).dst \in Paths
      BY <1>1, <2>2, StepIsPair DEF WorkFits
    <2>9. disk'[Step(j).dst] = Written(j)
      BY <1>1, <2>1, <2>8 DEF FileDone, Close, Written, WorkFits, TypeOK
    <2> QED
      BY <2>7, <2>9
  <1>2. WorkFits /\ [Next]_vars =>
          [\A j \in Jobs :
             (pc[j] # "closed" /\ pc'[j] = "closed" /\ ~disturbed[j]
                /\ Step(j).src # Step(j).dst) =>
               disk'[Step(j).dst] = opened[j]]_vars
    BY <1>1
  <1> QED
    BY <1>2, WorkInvariance, PTL DEF Spec, CopiedFileIsWhole

\* Without the overwrite flag a job empties no file, and replaces no object, that was
\* there when it took the pair, unless another job has made it since or the look at
\* the object failed.
THEOREM ExistingFilesKept == Spec => KeepsExistingFiles
  <1>1. ASSUME WorkFits, NEW j \in Jobs, Begins(j), ~overwrite[j], ~disturbed[j],
               ~blind[j]
        PROVE  disk[Step(j).dst] = NoFile
    BY <1>1 DEF Begins, WorkFits, Contents, FilesFit, Copying, InLock
  <1>2. WorkFits /\ [Next]_vars =>
          [\A j \in Jobs :
             (Begins(j) /\ ~overwrite[j] /\ ~disturbed[j] /\ ~blind[j]) =>
               disk[Step(j).dst] = NoFile]_vars
    BY <1>1
  <1> QED
    BY <1>2, WorkInvariance, PTL DEF Spec, KeepsExistingFiles
=============================================================================
