------------------------ MODULE SyncSchedulerProofs ------------------------
(***************************************************************************)
(* The invariants of SyncScheduler hold for every set of goroutines, every *)
(* set of configurations and every number of reloads.  IInv is inductive:  *)
(* one lemma per action below, each with one step per conjunct of IInv     *)
(* that the action can disturb.  What a run of a schedule does, a pass of  *)
(* IncrementalSync, follows in the second part, for every set of files.    *)
(***************************************************************************)
EXTENDS SyncScheduler, IncrementalSync, TLAPS

\* A configuration read by Replace is a sequence of rules.
LEMMA CallRules ==
  ASSUME TypeOK, NEW c \in Callers
  PROVE  calls[c].rules \in Seq(Rule)
  <1>1. calls[c] \in Call
    BY DEF TypeOK
  <1>2. calls[c].rules \in Configs \cup {<<>>}
    BY <1>1 DEF Call
  <1>3. <<>> \in Seq(Rule)
    OBVIOUS
  <1> QED
    BY <1>2, <1>3, SchedulerAssumption

\* Setting fields of one entry keeps a list of entries of the same length.
LEMMA EntryUpdate ==
  ASSUME entries \in Seq(Entry), NEW i \in DOMAIN entries, NEW e \in Entry
  PROVE  /\ [entries EXCEPT ![i] = e] \in Seq(Entry)
         /\ DOMAIN [entries EXCEPT ![i] = e] = DOMAIN entries
  OBVIOUS

\* What a claim does to the entries (Trigger and the first section of a cron
\* run): only the entry at i changes, and only its flag and status.
LEMMA ClaimEffect ==
  ASSUME entries \in Seq(Entry), NEW i \in DOMAIN entries
  PROVE  /\ Claimed(i) \in Seq(Entry)
         /\ DOMAIN Claimed(i) = DOMAIN entries
         /\ Claimed(i)[i].running
         /\ Claimed(i)[i].rule = entries[i].rule
         /\ Claimed(i)[i].result = entries[i].result
         /\ \A j \in DOMAIN entries : j # i => Claimed(i)[j] = entries[j]
  <1> DEFINE e == [entries[i] EXCEPT !.running = TRUE, !.status = "running"]
  <1>1. entries[i] \in Entry
    OBVIOUS
  <1>2. e \in Entry
    BY <1>1 DEF Entry, Statuses
  <1>3. Claimed(i) = [entries EXCEPT ![i] = e]
    BY <1>1 DEF Claimed, Entry
  <1>4. e.running /\ e.rule = entries[i].rule /\ e.result = entries[i].result
    BY <1>1 DEF Entry
  <1> HIDE DEF e
  <1> QED
    BY <1>2, <1>3, <1>4, EntryUpdate

\* What recording an outcome does to the entries.
LEMMA RecordEffect ==
  ASSUME entries \in Seq(Entry), NEW i \in DOMAIN entries,
         NEW st \in {"completed", "failed"}, NEW k \in RuleKeys \cup {None}
  PROVE  /\ Recorded(i, st, k) \in Seq(Entry)
         /\ DOMAIN Recorded(i, st, k) = DOMAIN entries
         /\ Recorded(i, st, k)[i].status = st
         /\ Recorded(i, st, k)[i].result = k
         /\ Recorded(i, st, k)[i].rule = entries[i].rule
         /\ Recorded(i, st, k)[i].running = entries[i].running
         /\ \A j \in DOMAIN entries :
              j # i => Recorded(i, st, k)[j] = entries[j]
  <1> DEFINE e == [entries[i] EXCEPT !.status = st, !.result = k]
  <1>1. entries[i] \in Entry
    OBVIOUS
  <1>2. e \in Entry
    BY <1>1 DEF Entry, Statuses
  <1>3. Recorded(i, st, k) = [entries EXCEPT ![i] = e]
    BY <1>1 DEF Entry, Recorded
  <1>4. e.status = st /\ e.result = k /\ e.rule = entries[i].rule
        /\ e.running = entries[i].running
    BY <1>1 DEF Entry
  <1> HIDE DEF e
  <1> QED
    BY <1>2, <1>3, <1>4, EntryUpdate

\* What clearing the flag does to the entries.
LEMMA ClearEffect ==
  ASSUME entries \in Seq(Entry), NEW i \in DOMAIN entries
  PROVE  LET next == [entries EXCEPT ![i].running = FALSE]
         IN  /\ next \in Seq(Entry)
             /\ DOMAIN next = DOMAIN entries
             /\ ~next[i].running
             /\ next[i].status = entries[i].status
             /\ next[i].result = entries[i].result
             /\ next[i].rule = entries[i].rule
             /\ \A j \in DOMAIN entries : j # i => next[j] = entries[j]
  <1> DEFINE e == [entries[i] EXCEPT !.running = FALSE]
             next == [entries EXCEPT ![i].running = FALSE]
  <1>1. entries[i] \in Entry
    OBVIOUS
  <1>2. e \in Entry
    BY <1>1 DEF Entry
  <1>3. next = [entries EXCEPT ![i] = e]
    BY <1>1 DEF Entry
  <1> QED
    BY <1>1, <1>2, <1>3, EntryUpdate DEF Entry

\* The list Replace builds has the rules it was given and no flag set.
LEMMA RebuiltEffect ==
  ASSUME entries \in Seq(Entry), NEW rules \in Seq(Rule)
  PROVE  /\ Rebuilt(rules) \in Seq(Entry)
         /\ DOMAIN Rebuilt(rules) = DOMAIN rules
         /\ \A i \in DOMAIN rules :
              /\ Rebuilt(rules)[i].rule = rules[i]
              /\ ~Rebuilt(rules)[i].running
              /\ \/ /\ i \in DOMAIN entries
                    /\ entries[i].rule.key = rules[i].key
                    /\ Rebuilt(rules)[i].status = entries[i].status
                    /\ Rebuilt(rules)[i].result = entries[i].result
                 \/ /\ Rebuilt(rules)[i].status = ""
                    /\ Rebuilt(rules)[i].result = None
  <1>1. \A i \in DOMAIN rules : Rebuilt(rules)[i] \in Entry
    <2> SUFFICES ASSUME NEW i \in DOMAIN rules
                 PROVE  Rebuilt(rules)[i] \in Entry
      OBVIOUS
    <2>1. rules[i] \in Rule
      OBVIOUS
    <2>2. i \in DOMAIN entries => entries[i] \in Entry
      OBVIOUS
    <2> QED
      BY <2>1, <2>2 DEF Rebuilt, Entry, Statuses, InRange
  <1>2. DOMAIN Rebuilt(rules) = 1..Len(rules)
    BY DEF Rebuilt
  <1>3. Rebuilt(rules) \in [1..Len(rules) -> Entry]
    BY <1>1, <1>2 DEF Rebuilt
  <1>4. Rebuilt(rules) \in Seq(Entry)
    BY <1>3
  <1> QED
    BY <1>2, <1>4 DEF Rebuilt, InRange

----------------------------------------------------------------------------
LEMMA InitIInv == Init => IInv
  <1> SUFFICES ASSUME Init PROVE IInv
    OBVIOUS
  <1>1. entries \in Seq(Entry) /\ DOMAIN entries = {}
    BY DEF Init
  <1>2. NoCall \in Call /\ NoRun \in Run
    BY DEF NoCall, Call, NoRun, Run
  <1>3. TypeOK
    BY <1>1, <1>2 DEF Init, TypeOK
  <1>4. \A r \in Runs : ~Live(r)
    BY DEF Init, NoRun, Live
  <1> QED
    BY <1>1, <1>3, <1>4 DEF Init, IInv, CronRunsAreCurrent,
       RunningFlagHasOwner, NoOverlapUnlessCrossed, Claims, Live,
       ListTellsTruthUnlessCrossed, RunMatchesEntryUnlessCrossed

\* A step that leaves the entries, the runs, the epoch and the history alone
\* and does not take cron away from a live job keeps the invariant.
LEMMA FrameIInv ==
  ASSUME IInv, TypeOK', UNCHANGED <<entries, runs, epoch, crossed>>,
         cron' = "none" => (cron = "none" \/ CronDrained)
  PROVE  IInv'
  <1>1. CronRunsAreCurrent'
    BY DEF IInv, CronRunsAreCurrent, CronDrained, Live, InRange
  <1>2. RunningFlagHasOwner'
    BY DEF IInv, RunningFlagHasOwner, Claims, Live
  <1>3. NoOverlapUnlessCrossed'
    BY DEF IInv, NoOverlapUnlessCrossed, Claims, Live, InRange
  <1>4. ListTellsTruthUnlessCrossed'
    BY DEF IInv, ListTellsTruthUnlessCrossed
  <1>5. RunMatchesEntryUnlessCrossed'
    BY DEF IInv, RunMatchesEntryUnlessCrossed, InRange
  <1> QED
    BY <1>1, <1>2, <1>3, <1>4, <1>5 DEF IInv

LEMMA CallReplaceIInv ==
  ASSUME IInv, NEW c \in Callers, CallReplace(c)
  PROVE  IInv'
  <1>1. PICK rules \in Configs :
          calls' = [calls EXCEPT ![c] =
                      [pc |-> "lock", op |-> "replace", rules |-> rules]]
    BY DEF CallReplace
  <1>2. TypeOK'
    BY <1>1 DEF IInv, TypeOK, CallReplace, Call
  <1> QED
    BY <1>2, FrameIInv DEF CallReplace

LEMMA CallStopIInv ==
  ASSUME IInv, NEW c \in Callers, CallStop(c)
  PROVE  IInv'
  <1>1. TypeOK'
    BY DEF IInv, TypeOK, CallStop, Call
  <1> QED
    BY <1>1, FrameIInv DEF CallStop

LEMMA LockAndStopCronIInv ==
  ASSUME IInv, NEW c \in Callers, LockAndStopCron(c)
  PROVE  IInv'
  <1>1. calls[c] \in Call /\ calls \in [Callers -> Call]
    BY DEF IInv, TypeOK
  <1>2. [calls[c] EXCEPT !.pc = "wait"] \in Call
    BY <1>1 DEF Call
  <1>3. calls' \in [Callers -> Call]
    BY <1>1, <1>2 DEF LockAndStopCron
  <1>4. canceled' \in BOOLEAN /\ cron' \in {"none", "on", "stopped"}
    BY DEF LockAndStopCron, IInv, TypeOK
  <1>5. TypeOK'
    BY <1>3, <1>4 DEF IInv, TypeOK, LockAndStopCron
  <1> QED
    BY <1>5, FrameIInv DEF LockAndStopCron

LEMMA FinishStopIInv ==
  ASSUME IInv, NEW c \in Callers, FinishStop(c)
  PROVE  IInv'
  <1>1. NoCall \in Call
    BY DEF NoCall, Call
  <1>2. TypeOK'
    BY <1>1 DEF IInv, TypeOK, FinishStop
  <1> QED
    BY <1>2, FrameIInv DEF FinishStop

LEMMA FinishReplaceIInv ==
  ASSUME IInv, NEW c \in Callers, FinishReplace(c)
  PROVE  IInv'
  <1> DEFINE rules == calls[c].rules
  <1>1. TypeOK /\ entries \in Seq(Entry) /\ rules \in Seq(Rule)
    BY CallRules DEF IInv, TypeOK
  <1>2. entries' = Rebuilt(rules)
    BY DEF FinishReplace
  <1>3. /\ entries' \in Seq(Entry)
        /\ DOMAIN entries' = DOMAIN rules
        /\ \A i \in DOMAIN rules :
             /\ entries'[i].rule = rules[i]
             /\ ~entries'[i].running
             /\ \/ /\ i \in DOMAIN entries
                   /\ entries[i].rule.key = rules[i].key
                   /\ entries'[i].status = entries[i].status
                   /\ entries'[i].result = entries[i].result
                \/ /\ entries'[i].status = ""
                   /\ entries'[i].result = None
    BY <1>1, <1>2, RebuiltEffect
  <1> HIDE DEF rules
  <1>4. NoCall \in Call
    BY DEF NoCall, Call
  <1>5. crossed' \in BOOLEAN /\ cron' \in {"none", "on", "stopped"}
    BY DEF FinishReplace, IInv, TypeOK
  <1>6. TypeOK'
    <2>1. calls' \in [Callers -> Call] /\ holder' \in Callers \cup {None}
      BY <1>4 DEF IInv, TypeOK, FinishReplace
    <2>2. epoch' \in Nat /\ runs' \in [Runs -> Run] /\ canceled' \in BOOLEAN
      BY DEF IInv, TypeOK, FinishReplace
    <2>3. entries' \in Seq(Entry)
      BY <1>3
    <2> QED
      BY <2>1, <2>2, <2>3, <1>5 DEF TypeOK
  <1>7. \A r \in Runs : Live(r) => runs[r].trigger # "cron"
    BY DEF FinishReplace, IInv, CronRunsAreCurrent, CronDrained
  <1>8. CronRunsAreCurrent'
    BY <1>7 DEF FinishReplace, CronRunsAreCurrent, Live
  <1>9. RunningFlagHasOwner'
    BY <1>3 DEF RunningFlagHasOwner
  <1>10. ~crossed' => ~crossed /\ \A r \in Runs : runs'[r].pc = "idle"
    BY DEF FinishReplace, Live
  <1>11. NoOverlapUnlessCrossed'
    BY <1>10 DEF NoOverlapUnlessCrossed, Claims, Live
  <1>12. RunMatchesEntryUnlessCrossed'
    BY <1>10 DEF RunMatchesEntryUnlessCrossed
  <1>13. ListTellsTruthUnlessCrossed'
    <2> SUFFICES ASSUME ~crossed', NEW i \in DOMAIN entries'
                 PROVE  /\ entries'[i].result \in {None, entries'[i].rule.key}
                        /\ entries'[i].status # "running"
      BY DEF ListTellsTruthUnlessCrossed
    <2>1. \A j \in DOMAIN entries : ~entries[j].running
      BY <1>10 DEF IInv, RunningFlagHasOwner, Claims, Live, FinishReplace
    <2>2. i \in DOMAIN entries =>
            /\ entries[i].result \in {None, entries[i].rule.key}
            /\ entries[i].status # "running"
      BY <1>10, <2>1 DEF IInv, ListTellsTruthUnlessCrossed
    <2> QED
      BY <1>3, <2>2
  <1> QED
    BY <1>6, <1>8, <1>9, <1>11, <1>12, <1>13 DEF IInv

----------------------------------------------------------------------------
\* The goroutine a step starts, and what it does to the others.
LEMMA TriggerIInv ==
  ASSUME IInv, NEW r \in Runs, NEW i \in DOMAIN entries, Trigger(r, i)
  PROVE  IInv'
  <1> DEFINE new == Started(i, "manual")
  <1>1. TypeOK /\ entries \in Seq(Entry) /\ runs \in [Runs -> Run]
        /\ i \in Nat /\ epoch \in Nat
    BY DEF IInv, TypeOK
  <1>2. /\ new.pc = "begin" /\ new.id = i
        /\ new.trigger = "manual" /\ new.epoch = epoch
    BY DEF Started
  <1>3. new \in Run
    BY <1>1 DEF Run, Started
  <1>4. runs' = [runs EXCEPT ![r] = new]
    BY DEF Trigger
  <1>5. /\ runs' \in [Runs -> Run]
        /\ runs'[r] = new
        /\ \A s \in Runs : s # r => runs'[s] = runs[s]
    BY <1>1, <1>3, <1>4
  <1>6. /\ runs'[r].pc = "begin" /\ runs'[r].id = i
        /\ runs'[r].trigger = "manual" /\ runs'[r].epoch = epoch
    BY <1>2, <1>5
  <1>7. entries' = Claimed(i) /\ ~entries[i].running /\ ~Live(r)
    BY DEF Trigger
  <1>8. /\ entries' \in Seq(Entry)
        /\ DOMAIN entries' = DOMAIN entries
        /\ entries'[i].running
        /\ entries'[i].rule = entries[i].rule
        /\ entries'[i].result = entries[i].result
        /\ \A j \in DOMAIN entries : j # i => entries'[j] = entries[j]
    BY <1>1, <1>7, ClaimEffect
  <1>9. UNCHANGED <<holder, calls, cron, canceled, epoch, crossed>>
    BY DEF Trigger
  <1> HIDE DEF new
  <1>10. TypeOK'
    BY <1>1, <1>5, <1>8, <1>9 DEF TypeOK
  <1>11. CronRunsAreCurrent'
    BY <1>5, <1>6, <1>8, <1>9 DEF IInv, CronRunsAreCurrent, Live, InRange
  <1>12. RunningFlagHasOwner'
    BY <1>5, <1>6, <1>7, <1>8, <1>9 DEF IInv, RunningFlagHasOwner, Claims, Live
  <1>13. NoOverlapUnlessCrossed'
    BY <1>5, <1>6, <1>7, <1>8, <1>9
       DEF IInv, NoOverlapUnlessCrossed, Claims, Live, InRange
  <1>14. ListTellsTruthUnlessCrossed'
    BY <1>8, <1>9 DEF IInv, ListTellsTruthUnlessCrossed
  <1>15. RunMatchesEntryUnlessCrossed'
    <2> SUFFICES ASSUME ~crossed, NEW s \in Runs,
                        runs'[s].pc \in {"sync", "record", "clear"}
                 PROVE  /\ s # r
                        /\ runs[s].id \in DOMAIN entries
                        /\ runs[s].key = entries'[runs[s].id].rule.key
                        /\ runs[s].pc = "clear" =>
                              entries'[runs[s].id].status # "running"
      BY <1>5, <1>8, <1>9 DEF RunMatchesEntryUnlessCrossed, InRange
    <2>1. s # r /\ runs[s].pc \in {"sync", "record", "clear"}
      BY <1>5, <1>6
    <2>2. Claims(s)
      BY <2>1 DEF Claims, Live
    <2>3. runs[s].id # i
      BY <1>7, <2>2 DEF IInv, NoOverlapUnlessCrossed
    <2> QED
      BY <1>8, <2>1, <2>3 DEF IInv, RunMatchesEntryUnlessCrossed, InRange
  <1> QED
    BY <1>10, <1>11, <1>12, <1>13, <1>14, <1>15 DEF IInv

LEMMA TickIInv ==
  ASSUME IInv, NEW r \in Runs, NEW i \in DOMAIN entries, Tick(r, i)
  PROVE  IInv'
  <1> DEFINE new == Started(i, "cron")
  <1>1. TypeOK /\ entries \in Seq(Entry) /\ runs \in [Runs -> Run]
        /\ i \in Nat /\ epoch \in Nat
    BY DEF IInv, TypeOK
  <1>2. /\ new.pc = "begin" /\ new.id = i
        /\ new.trigger = "cron" /\ new.epoch = epoch
    BY DEF Started
  <1>3. new \in Run
    BY <1>1 DEF Run, Started
  <1>4. runs' = [runs EXCEPT ![r] = new]
    BY DEF Tick
  <1>5. /\ runs' \in [Runs -> Run]
        /\ runs'[r] = new
        /\ \A s \in Runs : s # r => runs'[s] = runs[s]
    BY <1>1, <1>3, <1>4
  <1>6. /\ runs'[r].pc = "begin" /\ runs'[r].id = i
        /\ runs'[r].trigger = "cron" /\ runs'[r].epoch = epoch
    BY <1>2, <1>5
  <1>7. UNCHANGED <<holder, calls, cron, entries, canceled, epoch, crossed>>
        /\ cron = "on" /\ ~Live(r)
    BY DEF Tick
  <1> HIDE DEF new
  <1>8. TypeOK'
    BY <1>1, <1>5, <1>7 DEF TypeOK
  <1>9. CronRunsAreCurrent'
    BY <1>5, <1>6, <1>7 DEF IInv, CronRunsAreCurrent, Live, InRange
  <1>10. RunningFlagHasOwner'
    BY <1>5, <1>7 DEF IInv, RunningFlagHasOwner, Claims, Live
  <1>11. NoOverlapUnlessCrossed'
    BY <1>5, <1>6, <1>7 DEF IInv, NoOverlapUnlessCrossed, Claims, Live, InRange
  <1>12. ListTellsTruthUnlessCrossed'
    BY <1>7 DEF IInv, ListTellsTruthUnlessCrossed
  <1>13. RunMatchesEntryUnlessCrossed'
    BY <1>5, <1>6, <1>7 DEF IInv, RunMatchesEntryUnlessCrossed, InRange
  <1> QED
    BY <1>8, <1>9, <1>10, <1>11, <1>12, <1>13 DEF IInv

LEMMA BailIInv ==
  ASSUME IInv, NEW r \in Runs, Bail(r)
  PROVE  IInv'
  <1>1. NoRun \in Run /\ NoRun.pc = "idle"
    BY DEF NoRun, Run
  <1>2. runs \in [Runs -> Run] /\ TypeOK
    BY DEF IInv, TypeOK
  <1>3. /\ runs' \in [Runs -> Run]
        /\ runs'[r].pc = "idle"
        /\ \A s \in Runs : s # r => runs'[s] = runs[s]
    BY <1>1, <1>2 DEF Bail
  <1>4. UNCHANGED <<holder, calls, cron, entries, canceled, epoch, crossed>>
    BY DEF Bail
  <1>5. TypeOK'
    BY <1>2, <1>3, <1>4 DEF TypeOK
  <1>6. CronRunsAreCurrent'
    BY <1>3, <1>4 DEF IInv, CronRunsAreCurrent, Live, InRange
  <1>7. RunningFlagHasOwner'
    BY <1>3, <1>4 DEF IInv, RunningFlagHasOwner, Claims, Live, Bail, InRange
  <1>8. NoOverlapUnlessCrossed'
    BY <1>3, <1>4 DEF IInv, NoOverlapUnlessCrossed, Claims, Live, InRange
  <1>9. ListTellsTruthUnlessCrossed'
    BY <1>4 DEF IInv, ListTellsTruthUnlessCrossed
  <1>10. RunMatchesEntryUnlessCrossed'
    BY <1>3, <1>4 DEF IInv, RunMatchesEntryUnlessCrossed, InRange
  <1> QED
    BY <1>5, <1>6, <1>7, <1>8, <1>9, <1>10 DEF IInv

LEMMA BeginIInv ==
  ASSUME IInv, NEW r \in Runs, Begin(r)
  PROVE  IInv'
  <1> DEFINE i == runs[r].id
             new == [runs[r] EXCEPT !.pc = "sync", !.key = entries[i].rule.key]
  <1>1. TypeOK /\ entries \in Seq(Entry) /\ runs \in [Runs -> Run]
        /\ runs[r] \in Run /\ i \in DOMAIN entries /\ i \in Nat
    BY DEF IInv, TypeOK, Begin, InRange
  <1>2. entries[i].rule.key \in RuleKeys
    <2>1. entries[i] \in Entry
      BY <1>1
    <2> QED
      BY <2>1 DEF Entry, Rule
  <1>3. new \in Run /\ new.pc = "sync" /\ new.key = entries[i].rule.key
        /\ new.id = i /\ new.trigger = runs[r].trigger
        /\ new.epoch = runs[r].epoch
    BY <1>1, <1>2 DEF Run
  <1>4. runs' = [runs EXCEPT ![r] = new]
    BY <1>1 DEF Begin, Run
  <1>5. /\ runs' \in [Runs -> Run]
        /\ runs'[r].pc = "sync" /\ runs'[r].key = entries[i].rule.key
        /\ runs'[r].id = i /\ runs'[r].trigger = runs[r].trigger
        /\ runs'[r].epoch = runs[r].epoch
        /\ \A s \in Runs : s # r => runs'[s] = runs[s]
    BY <1>1, <1>3, <1>4
  <1>6. UNCHANGED <<holder, calls, cron, canceled, epoch, crossed>>
        /\ runs[r].pc = "begin"
    BY DEF Begin
  <1>7. runs[r].trigger = "cron" \/ runs[r].trigger = "manual"
    BY <1>1 DEF Run
  <1>8. runs[r].trigger = "cron" => entries' = Claimed(i) /\ ~entries[i].running
    BY DEF Begin
  <1>9. runs[r].trigger = "manual" => entries' = entries /\ entries[i].running
    BY DEF Begin
  <1> HIDE DEF i, new
  <1>10. /\ entries' \in Seq(Entry)
         /\ DOMAIN entries' = DOMAIN entries
         /\ entries'[i].running
         /\ entries'[i].rule = entries[i].rule
         /\ entries'[i].result = entries[i].result
         /\ \A j \in DOMAIN entries : j # i => entries'[j] = entries[j]
    BY <1>1, <1>7, <1>8, <1>9, ClaimEffect
  <1>11. TypeOK'
    BY <1>1, <1>5, <1>6, <1>10 DEF TypeOK
  <1>12. CronRunsAreCurrent'
    <2> SUFFICES ASSUME NEW s \in Runs, Live(s)', runs'[s].trigger = "cron"
                 PROVE  /\ cron # "none"
                        /\ runs'[s].epoch = epoch
                        /\ runs'[s].id \in DOMAIN entries
                        /\ runs'[s].pc # "begin" =>
                             runs'[s].key = entries'[runs'[s].id].rule.key
      BY <1>6, <1>10 DEF CronRunsAreCurrent, InRange
    <2>1. CASE s = r
      <3>1. Live(r) /\ runs[r].trigger = "cron"
        BY <2>1, <1>5, <1>6 DEF Live
      <3> QED
        BY <2>1, <3>1, <1>1, <1>5, <1>10
           DEF IInv, CronRunsAreCurrent, InRange
    <2>2. CASE s # r
      <3>1. Live(s) /\ runs[s].trigger = "cron" /\ runs'[s] = runs[s]
        BY <2>2, <1>5 DEF Live
      <3>2. runs[s].id \in DOMAIN entries
        BY <3>1 DEF IInv, CronRunsAreCurrent, InRange
      <3>3. entries'[runs[s].id].rule = entries[runs[s].id].rule
        BY <3>2, <1>10
      <3> QED
        BY <3>1, <3>2, <3>3 DEF IInv, CronRunsAreCurrent
    <2> QED
      BY <2>1, <2>2
  <1>13. RunningFlagHasOwner'
    <2> SUFFICES ASSUME NEW j \in DOMAIN entries, entries'[j].running
                 PROVE  \E s \in Runs : Claims(s)' /\ runs'[s].id = j
                                         /\ runs'[s].epoch = epoch
      BY <1>6, <1>10 DEF RunningFlagHasOwner
    <2>1. CASE entries[j].running
      <3>1. PICK s \in Runs : Claims(s) /\ runs[s].id = j
                               /\ runs[s].epoch = epoch
        BY <2>1 DEF IInv, RunningFlagHasOwner
      <3>2. Claims(s)' /\ runs'[s].id = j /\ runs'[s].epoch = epoch
        BY <3>1, <1>5 DEF Claims, Live, i
      <3> QED
        BY <3>2
    <2>2. CASE ~entries[j].running
      <3>1. j = i
        BY <2>2, <1>10
      <3>2. runs[r].trigger = "cron"
        BY <2>2, <3>1, <1>7, <1>9
      <3>3. runs'[r].epoch = epoch
        BY <3>2, <1>5, <1>6 DEF IInv, CronRunsAreCurrent, Live
      <3>4. Claims(r)'
        BY <1>5 DEF Claims, Live
      <3> QED
        BY <3>1, <3>3, <3>4, <1>5
    <2> QED
      BY <2>1, <2>2
  <1>14. \A s \in Runs : s # r => (Claims(s)' <=> Claims(s))
    BY <1>5 DEF Claims, Live
  <1>15. ~crossed => \A s \in Runs : Claims(s) /\ runs[s].id = i => s = r
    <2>1. CASE runs[r].trigger = "cron"
      BY <2>1, <1>8 DEF IInv, NoOverlapUnlessCrossed
    <2>2. CASE runs[r].trigger = "manual"
      <3>1. Claims(r) /\ runs[r].id = i
        BY <2>2, <1>6 DEF Claims, Live, i
      <3> QED
        BY <3>1 DEF IInv, NoOverlapUnlessCrossed
    <2> QED
      BY <2>1, <2>2, <1>7
  <1>16. NoOverlapUnlessCrossed'
    <2> SUFFICES ASSUME ~crossed, NEW s \in Runs, Claims(s)'
                 PROVE  /\ runs'[s].id \in DOMAIN entries
                        /\ entries'[runs'[s].id].running
                        /\ \A t \in Runs : Claims(t)'
                             /\ runs'[t].id = runs'[s].id => t = s
      BY <1>6, <1>10 DEF NoOverlapUnlessCrossed, InRange
    <2>1. CASE s = r
      BY <2>1, <1>1, <1>5, <1>10, <1>14, <1>15
    <2>2. CASE s # r
      <3>1. Claims(s) /\ runs'[s] = runs[s]
        BY <2>2, <1>5, <1>14
      <3>2. runs[s].id # i
        BY <3>1, <2>2, <1>15
      <3>3. runs[s].id \in DOMAIN entries /\ entries[runs[s].id].running
        BY <3>1 DEF IInv, NoOverlapUnlessCrossed, InRange
      <3>4. \A t \in Runs : Claims(t) /\ runs[t].id = runs[s].id => t = s
        BY <3>1 DEF IInv, NoOverlapUnlessCrossed
      <3> QED
        BY <3>1, <3>2, <3>3, <3>4, <1>5, <1>10, <1>14
    <2> QED
      BY <2>1, <2>2
  <1>17. ListTellsTruthUnlessCrossed'
    BY <1>6, <1>10 DEF IInv, ListTellsTruthUnlessCrossed
  <1>18. RunMatchesEntryUnlessCrossed'
    <2> SUFFICES ASSUME ~crossed, NEW s \in Runs,
                        runs'[s].pc \in {"sync", "record", "clear"}
                 PROVE  /\ runs'[s].id \in DOMAIN entries
                        /\ runs'[s].key = entries'[runs'[s].id].rule.key
                        /\ runs'[s].pc = "clear" =>
                              entries'[runs'[s].id].status # "running"
      BY <1>6, <1>10 DEF RunMatchesEntryUnlessCrossed, InRange
    <2>1. CASE s = r
      BY <2>1, <1>1, <1>5, <1>10
    <2>2. CASE s # r
      <3>1. Claims(s) /\ runs'[s] = runs[s]
        BY <2>2, <1>5 DEF Claims, Live
      <3>2. runs[s].id # i
        BY <3>1, <2>2, <1>15
      <3> QED
        BY <3>1, <3>2, <1>10 DEF IInv, RunMatchesEntryUnlessCrossed, InRange
    <2> QED
      BY <2>1, <2>2
  <1> QED
    BY <1>11, <1>12, <1>13, <1>16, <1>17, <1>18 DEF IInv

LEMMA SyncReturnsIInv ==
  ASSUME IInv, NEW r \in Runs, SyncReturns(r)
  PROVE  IInv'
  <1>1. PICK o \in {"completed", "failed"} :
          runs' = [runs EXCEPT ![r] = [@ EXCEPT !.pc = "record",
                                                !.outcome = o]]
    BY DEF SyncReturns
  <1> DEFINE new == [runs[r] EXCEPT !.pc = "record", !.outcome = o]
  <1>2. TypeOK /\ runs \in [Runs -> Run] /\ runs[r] \in Run
    BY DEF IInv, TypeOK
  <1>3. new \in Run /\ new.pc = "record" /\ new.key = runs[r].key
        /\ new.id = runs[r].id /\ new.trigger = runs[r].trigger
        /\ new.epoch = runs[r].epoch
    BY <1>2 DEF Run
  <1>4. runs' = [runs EXCEPT ![r] = new]
    BY <1>1, <1>2 DEF Run
  <1> HIDE DEF new
  <1>5. /\ runs' \in [Runs -> Run]
        /\ runs'[r].pc = "record"
        /\ \A s \in Runs : /\ s # r => runs'[s] = runs[s]
                           /\ runs'[s].key = runs[s].key
                           /\ runs'[s].id = runs[s].id
                           /\ runs'[s].trigger = runs[s].trigger
                           /\ runs'[s].epoch = runs[s].epoch
    BY <1>2, <1>3, <1>4
  <1>6. UNCHANGED <<holder, calls, cron, entries, canceled, epoch, crossed>>
        /\ runs[r].pc = "sync"
    BY DEF SyncReturns
  <1>7. TypeOK'
    BY <1>2, <1>5, <1>6 DEF TypeOK
  <1>8. \A s \in Runs : (Live(s)' <=> Live(s)) /\ (Claims(s)' <=> Claims(s))
    BY <1>5, <1>6 DEF Live, Claims
  <1>9. CronRunsAreCurrent'
    BY <1>5, <1>6, <1>8 DEF IInv, CronRunsAreCurrent, InRange
  <1>10. RunningFlagHasOwner'
    BY <1>5, <1>6, <1>8 DEF IInv, RunningFlagHasOwner
  <1>11. NoOverlapUnlessCrossed'
    BY <1>5, <1>6, <1>8 DEF IInv, NoOverlapUnlessCrossed, InRange
  <1>12. ListTellsTruthUnlessCrossed'
    BY <1>6 DEF IInv, ListTellsTruthUnlessCrossed
  <1>13. RunMatchesEntryUnlessCrossed'
    BY <1>5, <1>6 DEF IInv, RunMatchesEntryUnlessCrossed, InRange
  <1> QED
    BY <1>7, <1>9, <1>10, <1>11, <1>12, <1>13 DEF IInv

LEMMA RecordIInv ==
  ASSUME IInv, NEW r \in Runs, Record(r)
  PROVE  IInv'
  <1> DEFINE i == runs[r].id
             new == [runs[r] EXCEPT !.pc = "clear"]
  <1>1. TypeOK /\ entries \in Seq(Entry) /\ runs \in [Runs -> Run]
        /\ runs[r] \in Run
    BY DEF IInv, TypeOK
  <1>2. new \in Run /\ new.pc = "clear" /\ new.key = runs[r].key
        /\ new.id = i /\ new.trigger = runs[r].trigger
        /\ new.epoch = runs[r].epoch
    BY <1>1 DEF Run
  <1>3. runs' = [runs EXCEPT ![r] = new]
    BY <1>1 DEF Record, Run
  <1>4. /\ runs' \in [Runs -> Run]
        /\ runs'[r].pc = "clear"
        /\ \A s \in Runs : /\ s # r => runs'[s] = runs[s]
                           /\ runs'[s].key = runs[s].key
                           /\ runs'[s].id = runs[s].id
                           /\ runs'[s].trigger = runs[s].trigger
                           /\ runs'[s].epoch = runs[s].epoch
    BY <1>1, <1>2, <1>3
  <1>5. UNCHANGED <<holder, calls, cron, canceled, epoch, crossed>>
        /\ runs[r].pc = "record"
    BY DEF Record
  <1>6. runs[r].outcome \in {"completed", "failed"}
        /\ runs[r].key \in RuleKeys \cup {None}
    BY <1>1 DEF Run
  <1>7. i \notin DOMAIN entries => entries' = entries
    BY DEF Record, InRange
  <1>8. i \in DOMAIN entries =>
          entries' = Recorded(i, runs[r].outcome, runs[r].key)
    BY DEF Record, InRange
  <1> HIDE DEF i, new
  <1>9. i \in DOMAIN entries =>
          /\ entries' \in Seq(Entry)
          /\ DOMAIN entries' = DOMAIN entries
          /\ entries'[i].status # "running"
          /\ entries'[i].result = runs[r].key
          /\ entries'[i].rule = entries[i].rule
          /\ entries'[i].running = entries[i].running
          /\ \A j \in DOMAIN entries : j # i => entries'[j] = entries[j]
    BY <1>1, <1>6, <1>8, RecordEffect
  <1>10. /\ entries' \in Seq(Entry)
         /\ DOMAIN entries' = DOMAIN entries
         /\ \A j \in DOMAIN entries :
              /\ entries'[j].rule = entries[j].rule
              /\ entries'[j].running = entries[j].running
              /\ j # i => entries'[j] = entries[j]
    BY <1>1, <1>7, <1>9
  <1>11. TypeOK'
    BY <1>1, <1>4, <1>5, <1>10 DEF TypeOK
  <1>12. \A s \in Runs : (Live(s)' <=> Live(s)) /\ (Claims(s)' <=> Claims(s))
    BY <1>4, <1>5 DEF Live, Claims
  <1>13. CronRunsAreCurrent'
    BY <1>4, <1>5, <1>10, <1>12 DEF IInv, CronRunsAreCurrent, InRange
  <1>14. RunningFlagHasOwner'
    BY <1>4, <1>5, <1>10, <1>12 DEF IInv, RunningFlagHasOwner
  <1>15. NoOverlapUnlessCrossed'
    BY <1>4, <1>5, <1>10, <1>12 DEF IInv, NoOverlapUnlessCrossed, InRange
  <1>16. ~crossed => i \in DOMAIN entries /\ runs[r].key = entries[i].rule.key
    BY <1>5 DEF IInv, RunMatchesEntryUnlessCrossed, InRange, i
  <1>17. ListTellsTruthUnlessCrossed'
    <2> SUFFICES ASSUME ~crossed, NEW j \in DOMAIN entries
                 PROVE  /\ entries'[j].result \in {None, entries'[j].rule.key}
                        /\ entries'[j].status = "running" => entries'[j].running
      BY <1>5, <1>10 DEF ListTellsTruthUnlessCrossed
    <2>1. CASE j = i
      BY <2>1, <1>9, <1>16
    <2>2. CASE j # i
      BY <2>2, <1>10 DEF IInv, ListTellsTruthUnlessCrossed
    <2> QED
      BY <2>1, <2>2
  <1>18. RunMatchesEntryUnlessCrossed'
    <2> SUFFICES ASSUME ~crossed, NEW s \in Runs,
                        runs'[s].pc \in {"sync", "record", "clear"}
                 PROVE  /\ runs'[s].id \in DOMAIN entries
                        /\ runs'[s].key = entries'[runs'[s].id].rule.key
                        /\ runs'[s].pc = "clear" =>
                              entries'[runs'[s].id].status # "running"
      BY <1>5, <1>10 DEF RunMatchesEntryUnlessCrossed, InRange
    <2>1. runs[s].pc \in {"sync", "record", "clear"}
      BY <1>4, <1>5
    <2>2. /\ runs[s].id \in DOMAIN entries
          /\ runs[s].key = entries[runs[s].id].rule.key
          /\ runs[s].pc = "clear" => entries[runs[s].id].status # "running"
      BY <2>1 DEF IInv, RunMatchesEntryUnlessCrossed, InRange
    <2>3. CASE runs[s].id = i
      BY <2>2, <2>3, <1>4, <1>9, <1>10
    <2>4. CASE runs[s].id # i
      <3>1. s # r /\ runs'[s] = runs[s]
        BY <2>4, <1>4 DEF i
      <3> QED
        BY <3>1, <2>2, <2>4, <1>10
    <2> QED
      BY <2>3, <2>4
  <1> QED
    BY <1>11, <1>13, <1>14, <1>15, <1>17, <1>18 DEF IInv

LEMMA ClearIInv ==
  ASSUME IInv, NEW r \in Runs, Clear(r)
  PROVE  IInv'
  <1> DEFINE i == runs[r].id
  <1>1. NoRun \in Run /\ NoRun.pc = "idle"
    BY DEF NoRun, Run
  <1>2. TypeOK /\ entries \in Seq(Entry) /\ runs \in [Runs -> Run]
    BY DEF IInv, TypeOK
  <1>3. /\ runs' \in [Runs -> Run]
        /\ runs'[r].pc = "idle"
        /\ \A s \in Runs : s # r => runs'[s] = runs[s]
    BY <1>1, <1>2 DEF Clear
  <1>4. UNCHANGED <<holder, calls, cron, canceled, epoch, crossed>>
        /\ runs[r].pc = "clear"
    BY DEF Clear
  <1>5. i \notin DOMAIN entries => entries' = entries
    BY DEF Clear, InRange
  <1>6. i \in DOMAIN entries =>
          entries' = [entries EXCEPT ![i].running = FALSE]
    BY DEF Clear, InRange
  <1> HIDE DEF i
  <1>7. i \in DOMAIN entries =>
          /\ entries' \in Seq(Entry)
          /\ DOMAIN entries' = DOMAIN entries
          /\ ~entries'[i].running
          /\ entries'[i].status = entries[i].status
          /\ entries'[i].result = entries[i].result
          /\ entries'[i].rule = entries[i].rule
          /\ \A j \in DOMAIN entries : j # i => entries'[j] = entries[j]
    BY <1>2, <1>6, ClearEffect
  <1>8. /\ entries' \in Seq(Entry)
        /\ DOMAIN entries' = DOMAIN entries
        /\ \A j \in DOMAIN entries :
             /\ entries'[j].rule = entries[j].rule
             /\ entries'[j].status = entries[j].status
             /\ entries'[j].result = entries[j].result
             /\ j # i => entries'[j] = entries[j]
    BY <1>2, <1>5, <1>7
  <1>9. TypeOK'
    BY <1>2, <1>3, <1>4, <1>8 DEF TypeOK
  <1>10. \A s \in Runs : Live(s)' => s # r /\ Live(s)
    BY <1>3 DEF Live
  <1>11. \A s \in Runs : s # r => (Claims(s)' <=> Claims(s))
    BY <1>3 DEF Live, Claims
  <1>12. Claims(r) /\ ~Claims(r)'
    BY <1>3, <1>4 DEF Live, Claims
  <1>13. CronRunsAreCurrent'
    BY <1>3, <1>4, <1>8, <1>10 DEF IInv, CronRunsAreCurrent, InRange
  <1>14. RunningFlagHasOwner'
    <2> SUFFICES ASSUME NEW j \in DOMAIN entries, entries'[j].running
                 PROVE  \E s \in Runs : Claims(s)' /\ runs'[s].id = j
                                         /\ runs'[s].epoch = epoch
      BY <1>4, <1>8 DEF RunningFlagHasOwner
    <2>1. j # i /\ entries[j].running
      BY <1>7, <1>8
    <2>2. PICK s \in Runs : Claims(s) /\ runs[s].id = j
                             /\ runs[s].epoch = epoch
      BY <2>1 DEF IInv, RunningFlagHasOwner
    <2>3. s # r
      BY <2>1, <2>2 DEF i
    <2> QED
      BY <2>2, <2>3, <1>3, <1>11
  <1>15. ~crossed => \A s \in Runs : Claims(s) /\ runs[s].id = i => s = r
    BY <1>12 DEF IInv, NoOverlapUnlessCrossed, i
  <1>16. NoOverlapUnlessCrossed'
    <2> SUFFICES ASSUME ~crossed, NEW s \in Runs, Claims(s)'
                 PROVE  /\ runs'[s].id \in DOMAIN entries
                        /\ entries'[runs'[s].id].running
                        /\ \A t \in Runs : Claims(t)'
                             /\ runs'[t].id = runs'[s].id => t = s
      BY <1>4, <1>8 DEF NoOverlapUnlessCrossed, InRange
    <2>1. s # r /\ Claims(s) /\ runs'[s] = runs[s]
      BY <1>3, <1>11, <1>12
    <2>2. runs[s].id # i
      BY <2>1, <1>15
    <2>3. runs[s].id \in DOMAIN entries /\ entries[runs[s].id].running
      BY <2>1 DEF IInv, NoOverlapUnlessCrossed, InRange
    <2>4. \A t \in Runs : Claims(t) /\ runs[t].id = runs[s].id => t = s
      BY <2>1 DEF IInv, NoOverlapUnlessCrossed
    <2> QED
      BY <2>1, <2>2, <2>3, <2>4, <1>3, <1>8, <1>11, <1>12
  <1>17. ListTellsTruthUnlessCrossed'
    <2> SUFFICES ASSUME ~crossed, NEW j \in DOMAIN entries
                 PROVE  /\ entries'[j].result \in {None, entries'[j].rule.key}
                        /\ entries'[j].status = "running" => entries'[j].running
      BY <1>4, <1>8 DEF ListTellsTruthUnlessCrossed
    <2>1. i \in DOMAIN entries /\ entries[i].status # "running"
      BY <1>4 DEF IInv, RunMatchesEntryUnlessCrossed, InRange, i
    <2> QED
      BY <2>1, <1>8 DEF IInv, ListTellsTruthUnlessCrossed
  <1>18. RunMatchesEntryUnlessCrossed'
    <2> SUFFICES ASSUME ~crossed, NEW s \in Runs,
                        runs'[s].pc \in {"sync", "record", "clear"}
                 PROVE  /\ runs'[s].id \in DOMAIN entries
                        /\ runs'[s].key = entries'[runs'[s].id].rule.key
                        /\ runs'[s].pc = "clear" =>
                              entries'[runs'[s].id].status # "running"
      BY <1>4, <1>8 DEF RunMatchesEntryUnlessCrossed, InRange
    <2>1. s # r /\ runs'[s] = runs[s]
      BY <1>3
    <2> QED
      BY <2>1, <1>8 DEF IInv, RunMatchesEntryUnlessCrossed, InRange
  <1> QED
    BY <1>9, <1>13, <1>14, <1>16, <1>17, <1>18 DEF IInv

----------------------------------------------------------------------------
\* IInv is kept by every step of the scheduler.
LEMMA NextIInv == IInv /\ [Next]_vars => IInv'
  <1> SUFFICES ASSUME IInv, [Next]_vars PROVE IInv'
    OBVIOUS
  <1>1. CASE \E c \in Callers : CallReplace(c) \/ CallStop(c) \/ CallStep(c)
    BY <1>1, CallReplaceIInv, CallStopIInv, LockAndStopCronIInv,
       FinishReplaceIInv, FinishStopIInv DEF CallStep
  <1>2. CASE \E r \in Runs : RunStep(r)
    BY <1>2, BailIInv, BeginIInv, SyncReturnsIInv, RecordIInv, ClearIInv
       DEF RunStep
  <1>3. CASE \E r \in Runs, i \in DOMAIN entries : Trigger(r, i) \/ Tick(r, i)
    BY <1>3, TriggerIInv, TickIInv
  <1>4. CASE UNCHANGED vars
    <2>1. UNCHANGED <<holder, calls, cron, entries, canceled, runs, epoch,
                      crossed>>
      BY <1>4 DEF vars
    <2>2. TypeOK'
      BY <2>1 DEF IInv, TypeOK
    <2> QED
      BY <2>1, <2>2, FrameIInv
  <1> QED
    BY <1>1, <1>2, <1>3, <1>4 DEF Next

\* The inductive invariant holds in every state of every behaviour.
THEOREM Invariance == Spec => []IInv
  BY InitIInv, NextIInv, PTL DEF Spec

\* Every variable of the scheduler keeps its type.
THEOREM TypeCorrect == Spec => []TypeOK
  <1>1. IInv => TypeOK
    BY DEF IInv
  <1> QED
    BY <1>1, Invariance, PTL

\* No cron job ever outlives the entries it was started for.
THEOREM CronRunsCurrent == Spec => []CronRunsAreCurrent
  <1>1. IInv => CronRunsAreCurrent
    BY DEF IInv
  <1> QED
    BY <1>1, Invariance, PTL

\* No running flag is ever left set without a goroutine that will clear it.
THEOREM NoStuckFlag == Spec => []RunningFlagHasOwner
  <1>1. IInv => RunningFlagHasOwner
    BY DEF IInv
  <1> QED
    BY <1>1, Invariance, PTL

\* Until a reload crosses a run, runs of one schedule never overlap.
THEOREM NoOverlap == Spec => []NoOverlapUnlessCrossed
  <1>1. IInv => NoOverlapUnlessCrossed
    BY DEF IInv
  <1> QED
    BY <1>1, Invariance, PTL

\* Until a reload crosses a run, List reports runs of the rules it lists.
THEOREM ListIsTrue == Spec => []ListTellsTruthUnlessCrossed
  <1>1. IInv => ListTellsTruthUnlessCrossed
    BY DEF IInv
  <1> QED
    BY <1>1, Invariance, PTL

----------------------------------------------------------------------------
\* The pass a run makes.  PassFits is inductive: what an action does to the files it
\* is not about is one lemma, what it does to the one it is about another.

\* Where a pass can be: the file at hand is one it has still to deal with.
Places == {Idle, Walk} \cup {At(step, f) : step \in {"begin", "copy"}, f \in todo}

PassTyped == PassTypeOK /\ pc \in Places

\* A copy is as the source is, or the next pass will see that it is not.
Good(f) ==
  \/ dest[f] = NoCopy \/ newer[f]
  \/ Len(dest[f]) # source[f].size
  \/ f \in torn \/ f \in broken \/ Mirrored(f)

\* What has been written of a file under copy is of the source as it is.
Begun(f) ==
  /\ Parallel(f) \/ Len(dest[f]) <= source[f].size
  /\ \A n \in DOMAIN dest[f] :
       dest[f][n] = source[f].edit \/ (Parallel(f) /\ dest[f][n] = Hole)

CopyFits(f) ==
  /\ owner[f] = "pass" <=> pc = At("copy", f)
  /\ f \in begun => owner[f] # "none" /\ dest[f] \in Seq(0..Hole)
  /\ f \in begun /\ f \notin torn => Begun(f)
  /\ f \notin begun => Good(f)

\* What the pass has listed of a file is still so.
Fresh(f) ==
  /\ listed[f].size = source[f].size
  /\ newer[f] => listed[f].newer

Settled(f) == Delivered(f) \/ f \in broken \/ f \in met

SeenFits(f) ==
  /\ f \notin edited => Fresh(f)
  /\ owner[f] = "pass" => told[f] = listed[f].size
  /\ f \notin todo => Settled(f)
  /\ owner[f] = "job" /\ (f \notin todo \/ pc = At("begin", f)) => f \in met

FileFits(f) == CopyFits(f) /\ (f \in Page /\ pc # Idle => SeenFits(f))

PassFits == PassTyped /\ \A f \in Files : FileFits(f)

\* The places are told apart by their names, and those at a file by the file.
LEMMA PlacesDiffer ==
  /\ Idle # Walk
  /\ \A f \in Files, s \in {"begin", "copy"} : At(s, f) # Idle /\ At(s, f) # Walk
  /\ \A f, g \in Files : At("begin", f) # At("copy", g)
  /\ \A f, g \in Files, s \in {"begin", "copy"} : At(s, f) = At(s, g) => f = g
  <1>1. /\ Idle.at = "idle" /\ Walk.at = "file"
        /\ \A f \in Files, s \in {"begin", "copy"} : At(s, f).at = s /\ At(s, f).file = f
    BY DEF Idle, Walk, At
  <1> QED
    BY <1>1

\* A sequence of the right length whose blocks are all of the last edit.
LEMMA WholeIsMirrored ==
  ASSUME NEW f \in Files, dest[f] \in Seq(0..Hole), Len(dest[f]) = source[f].size,
         \A n \in DOMAIN dest[f] : dest[f][n] = source[f].edit
  PROVE  Mirrored(f)
  <1> DEFINE d == dest[f]
  <1>1. d = [n \in 1..Len(d) |-> d[n]] /\ DOMAIN d = 1..Len(d)
    OBVIOUS
  <1> QED
    BY <1>1 DEF Mirrored, Content

\* WriteAt makes the copy as long as the block it writes needs.
LEMMA WriteAtFits ==
  ASSUME NEW s \in Seq(0..Hole), NEW n \in Nat \ {0}, NEW b \in 0..Hole
  PROVE  /\ WriteAt(s, n, b) \in Seq(0..Hole)
         /\ \A m \in DOMAIN WriteAt(s, n, b) :
              \/ m = n /\ WriteAt(s, n, b)[m] = b
              \/ m \in DOMAIN s /\ WriteAt(s, n, b)[m] = s[m]
              \/ WriteAt(s, n, b)[m] = Hole
  <1> DEFINE k == IF n > Len(s) THEN n ELSE Len(s)
             val(m) == IF m = n THEN b ELSE IF m \in DOMAIN s THEN s[m] ELSE Hole
  <1>1. k \in Nat
    OBVIOUS
  <1>2. Hole \in 0..Hole
    BY SyncAssumption DEF Hole
  <1>3. \A m \in 1..k : val(m) \in 0..Hole
    BY <1>2
  <1>4. WriteAt(s, n, b) = [m \in 1..k |-> val(m)]
    BY DEF WriteAt
  <1> HIDE DEF k, val
  <1>5. WriteAt(s, n, b) \in Seq(0..Hole)
    BY <1>1, <1>3, <1>4
  <1>6. \A m \in DOMAIN WriteAt(s, n, b) : WriteAt(s, n, b)[m] = val(m)
    BY <1>4
  <1> QED
    BY <1>5, <1>6 DEF val

\* What the types come to.
LEMMA PassTypes ==
  ASSUME PassTyped
  PROVE  /\ source \in [Files -> [edit : 0..MaxEdits, size : Sizes]]
         /\ dest \in [Files -> {NoCopy} \cup Seq(0..Hole)]
         /\ newer \in [Files -> BOOLEAN]
         /\ listed \in [Page -> [size : Sizes \cup {0}, newer : BOOLEAN]]
         /\ owner \in [Files -> {"none", "pass", "job"}]
         /\ told \in [Files -> Sizes \cup {0}]
         /\ todo \subseteq Page /\ Page \subseteq Files /\ pc \in Places
         /\ edits \in 0..MaxEdits /\ failures \in 0..MaxFailures /\ jobs \in 0..MaxJobs
         /\ begun \subseteq Files /\ edited \subseteq Files /\ torn \subseteq Files
         /\ broken \subseteq Files /\ met \subseteq Files
         /\ \A f \in Files : source[f].edit \in 0..Hole /\ source[f].size \in Nat
                             /\ told[f] \in Nat
         /\ \A f \in Page : listed[f].size \in Sizes \cup {0}
         /\ Hole \in Nat
  <1>1. /\ source \in [Files -> [edit : 0..MaxEdits, size : Sizes]]
        /\ told \in [Files -> Sizes \cup {0}]
        /\ listed \in [Page -> [size : Sizes \cup {0}, newer : BOOLEAN]]
    BY DEF PassTyped, PassTypeOK
  <1>2. /\ dest \in [Files -> {NoCopy} \cup Seq(0..Hole)]
        /\ newer \in [Files -> BOOLEAN]
        /\ owner \in [Files -> {"none", "pass", "job"}]
        /\ todo \subseteq Page /\ Page \subseteq Files /\ pc \in Places
        /\ edits \in 0..MaxEdits /\ failures \in 0..MaxFailures /\ jobs \in 0..MaxJobs
        /\ begun \subseteq Files /\ edited \subseteq Files /\ torn \subseteq Files
        /\ broken \subseteq Files /\ met \subseteq Files
    BY SyncAssumption DEF PassTyped, PassTypeOK
  <1>3. Hole \in Nat /\ 0..MaxEdits \subseteq 0..Hole
    BY SyncAssumption DEF Hole
  <1>4. \A f \in Files : /\ source[f].edit \in 0..MaxEdits /\ source[f].size \in Sizes
                         /\ told[f] \in Sizes \cup {0}
    BY <1>1
  <1>5. \A f \in Files : /\ source[f].edit \in 0..Hole /\ source[f].size \in Nat
                         /\ told[f] \in Nat
    <2>1. Sizes \subseteq Nat /\ Sizes \cup {0} \subseteq Nat
      BY SyncAssumption
    <2> HIDE DEF Hole
    <2> QED
      BY <1>3, <1>4, <2>1
  <1>6. \A f \in Page : listed[f].size \in Sizes \cup {0}
    BY <1>1
  <1> QED
    BY <1>1, <1>2, <1>3, <1>5, <1>6

\* A pass is typed after a step that leaves its parts so, wherever it is.
LEMMA PassTypedFromParts ==
  ASSUME pc' \in Places', todo' \subseteq Page,
         source' \in [Files -> [edit : 0..MaxEdits, size : Sizes]],
         dest' \in [Files -> {NoCopy} \cup Seq(0..Hole)],
         newer' \in [Files -> BOOLEAN],
         listed' \in [Page -> [size : Sizes \cup {0}, newer : BOOLEAN]],
         owner' \in [Files -> {"none", "pass", "job"}],
         told' \in [Files -> Sizes \cup {0}],
         edits' \in 0..MaxEdits, failures' \in 0..MaxFailures, jobs' \in 0..MaxJobs,
         begun' \subseteq Files, edited' \subseteq Files, torn' \subseteq Files,
         broken' \subseteq Files, met' \subseteq Files
  PROVE  PassTyped'
  <1>1. /\ pc'.at \in {"idle", "file", "begin", "copy"}
        /\ pc'.at \in {"begin", "copy"} => pc'.file \in todo'
    BY DEF Places, Idle, Walk, At
  <1> QED
    BY <1>1 DEF PassTyped, PassTypeOK, Hole

\* The end of a pass leaves it typed.
LEMMA LeaveTyped ==
  ASSUME Leave
  PROVE  /\ pc' \in Places' /\ todo' \subseteq Page
         /\ listed' \in [Page -> [size : Sizes \cup {0}, newer : BOOLEAN]]
         /\ edited' \subseteq Files /\ met' \subseteq Files
  BY DEF Leave, Places, NotListed

LEMMA PassInitTyped ==
  ASSUME PassInit
  PROVE  PassTyped
  BY SyncAssumption DEF PassInit, PassTyped, PassTypeOK, Places, Idle, NotListed

\* Each action keeps the types.
LEMMA EditTyped ==
  ASSUME PassTyped, NEW g \in Files, Edit(g)
  PROVE  PassTyped'
  <1>1. PICK size \in Sizes :
          source' = [source EXCEPT ![g] = [edit |-> edits + 1, size |-> size]]
    BY DEF Edit
  <1>2. edits + 1 \in 0..MaxEdits
    BY PassTypes, SyncAssumption DEF Edit
  <1>3. source' \in [Files -> [edit : 0..MaxEdits, size : Sizes]]
    BY <1>1, <1>2, PassTypes
  <1>4. newer' \in [Files -> BOOLEAN] /\ edited' \subseteq Files /\ torn' \subseteq Files
    BY PassTypes DEF Edit
  <1>5. /\ edits' \in 0..MaxEdits /\ pc' \in Places'
        /\ UNCHANGED <<dest, listed, todo, owner, told, begun, failures, jobs, broken, met>>
    BY <1>2, PassTypes DEF Edit, Places, lock
  <1> QED
    BY <1>3, <1>4, <1>5, PassTypes, PassTypedFromParts

LEMMA StartTyped ==
  ASSUME PassTyped, StartPass
  PROVE  PassTyped'
  <1>1. listed' \in [Page -> [size : Sizes \cup {0}, newer : BOOLEAN]]
    BY PassTypes DEF StartPass
  <1>2. pc' \in Places' /\ todo' \subseteq Page
    BY DEF StartPass, Places
  <1>3. UNCHANGED <<source, dest, newer, lock, counters, history>>
    BY DEF StartPass
  <1> QED
    BY <1>1, <1>2, <1>3, PassTypes, PassTypedFromParts DEF lock, counters, history

LEMMA WalkTyped ==
  ASSUME PassTyped, NEW g \in Page, Examine(g) \/ SkipInFlight(g) \/ TryBegin(g)
  PROVE  PassTyped'
  <1>1. g \in todo /\ g \in Files
    BY PassTypes, PlacesDiffer DEF Examine, SkipInFlight, TryBegin, Places
  <1>2. pc' \in Places' /\ todo' \subseteq Page
    BY <1>1, PassTypes DEF Examine, SkipInFlight, TryBegin, Places
  <1>3. met' \subseteq Files
    BY <1>1, PassTypes DEF Examine, SkipInFlight, TryBegin, history
  <1>4. owner' \in [Files -> {"none", "pass", "job"}] /\ told' \in [Files -> Sizes \cup {0}]
    BY PassTypes DEF Examine, SkipInFlight, TryBegin, Take, lock
  <1>5. UNCHANGED <<source, dest, newer, listed, begun, counters, edited, torn, broken>>
    BY DEF Examine, SkipInFlight, TryBegin, lock, history
  <1> QED
    BY <1>2, <1>3, <1>4, <1>5, PassTypes, PassTypedFromParts DEF counters

LEMMA JobBeginsTyped ==
  ASSUME PassTyped, NEW g \in Files, JobBegins(g)
  PROVE  PassTyped'
  <1>1. PICK size \in Sizes : Take(g, "job", size)
    BY DEF JobBegins
  <1>2. owner' \in [Files -> {"none", "pass", "job"}] /\ told' \in [Files -> Sizes \cup {0}]
    BY <1>1, PassTypes DEF Take
  <1>3. jobs' \in 0..MaxJobs
    BY PassTypes, SyncAssumption DEF JobBegins
  <1>4. /\ UNCHANGED <<source, dest, newer, pc, listed, todo, begun, edits, failures, edited,
                       torn, broken>>
        /\ met' \subseteq Files
    BY PassTypes DEF JobBegins
  <1> QED
    BY <1>2, <1>3, <1>4, PassTypes, PassTypedFromParts DEF Places

LEMMA CreateTyped ==
  ASSUME PassTyped, NEW g \in Files, Create(g)
  PROVE  PassTyped'
  <1>1. <<>> \in Seq(0..Hole)
    OBVIOUS
  <1>2. dest' \in [Files -> {NoCopy} \cup Seq(0..Hole)] /\ newer' \in [Files -> BOOLEAN]
    BY <1>1, PassTypes DEF Create
  <1>3. /\ begun' \subseteq Files /\ torn' \subseteq Files
        /\ broken' \subseteq Files /\ met' \subseteq Files
    BY PassTypes DEF Create
  <1>4. UNCHANGED <<source, pc, listed, todo, owner, told, edits, failures, jobs, edited>>
    BY DEF Create, counters
  <1> QED
    BY <1>2, <1>3, <1>4, PassTypes, PassTypedFromParts DEF Places

\* A copy with another block in it.
LEMMA WriteTyped ==
  ASSUME PassTyped, NEW g \in Files, NEW d \in Seq(0..Hole),
         dest' = [dest EXCEPT ![g] = d], newer' = [newer EXCEPT ![g] = FALSE],
         UNCHANGED <<source, pc, listed, todo, lock, counters, history>>
  PROVE  PassTyped'
  <1>1. dest' \in [Files -> {NoCopy} \cup Seq(0..Hole)] /\ newer' \in [Files -> BOOLEAN]
    BY PassTypes
  <1>2. pc' \in Places'
    BY PassTypes DEF Places
  <1> QED
    BY <1>1, <1>2, PassTypes, PassTypedFromParts DEF lock, counters, history

\* Where a pass has its own copy it is at that file.
LEMMA OwnCopyIsAtHand ==
  ASSUME PassFits, NEW g \in Files, owner[g] = "pass"
  PROVE  pc = At("copy", g) /\ g \in todo /\ g \in Page /\ pc # Idle
  <1>1. PassTyped /\ pc = At("copy", g)
    BY DEF PassFits, FileFits, CopyFits
  <1> QED
    BY <1>1, PassTypes, PlacesDiffer DEF Places

LEMMA FreeTyped ==
  ASSUME PassTyped, NEW g \in Files, Free(g)
  PROVE  /\ owner' \in [Files -> {"none", "pass", "job"}]
         /\ told' \in [Files -> Sizes \cup {0}] /\ begun' \subseteq Files
  BY PassTypes DEF Free

LEMMA FinishTyped ==
  ASSUME PassTyped, NEW g \in Files, FinishFile(g)
  PROVE  PassTyped'
  <1>1. pc' \in Places' /\ todo' \subseteq Page
    BY PassTypes DEF FinishFile, Places
  <1>2. /\ owner' \in [Files -> {"none", "pass", "job"}]
        /\ told' \in [Files -> Sizes \cup {0}] /\ begun' \subseteq Files
    BY FreeTyped DEF FinishFile
  <1>3. UNCHANGED <<source, dest, newer, listed, counters, history>>
    BY DEF FinishFile
  <1> QED
    BY <1>1, <1>2, <1>3, PassTypes, PassTypedFromParts DEF counters, history

LEMMA AbandonTyped ==
  ASSUME PassTyped, NEW g \in Files, ShortRead(g) \/ CopyFails(g)
  PROVE  PassTyped'
  <1>1. Abandon(g) /\ UNCHANGED <<source, newer, edits, jobs, torn>>
    BY DEF ShortRead, CopyFails, counters
  <1>2. /\ owner' \in [Files -> {"none", "pass", "job"}]
        /\ told' \in [Files -> Sizes \cup {0}] /\ begun' \subseteq Files
        /\ broken' \subseteq Files
    BY <1>1, FreeTyped, PassTypes DEF Abandon
  <1>3. /\ pc' \in Places' /\ todo' \subseteq Page
        /\ listed' \in [Page -> [size : Sizes \cup {0}, newer : BOOLEAN]]
        /\ edited' \subseteq Files /\ met' \subseteq Files
    <2>1. CASE owner[g] = "pass"
      BY <1>1, <2>1, LeaveTyped DEF Abandon
    <2>2. CASE owner[g] # "pass"
      BY <1>1, <2>2, PassTypes DEF Abandon, Places
    <2> QED
      BY <2>1, <2>2
  <1>4. dest' \in [Files -> {NoCopy} \cup Seq(0..Hole)]
    BY PassTypes DEF ShortRead, CopyFails
  <1>5. failures' \in 0..MaxFailures
    BY PassTypes, SyncAssumption DEF ShortRead, CopyFails, counters
  <1> QED
    BY <1>1, <1>2, <1>3, <1>4, <1>5, PassTypes, PassTypedFromParts

LEMMA EndTyped ==
  ASSUME PassTyped, EndPass \/ Fail
  PROVE  PassTyped'
  <1>1. Leave /\ UNCHANGED <<source, dest, newer, lock, edits, jobs, torn, broken>>
    BY DEF EndPass, Fail, counters
  <1>2. failures' \in 0..MaxFailures
    BY PassTypes, SyncAssumption DEF EndPass, Fail, counters
  <1> QED
    BY <1>1, <1>2, LeaveTyped, PassTypes, PassTypedFromParts DEF lock

----------------------------------------------------------------------------
\* What a step does not touch.

\* A step that leaves a file, its copy and what the pass thinks of it alone.
Kept(f) ==
  /\ dest'[f] = dest[f] /\ source'[f] = source[f] /\ newer'[f] = newer[f]
  /\ owner'[f] = owner[f] /\ told'[f] = told[f]
  /\ f \in begun' <=> f \in begun
  /\ f \in torn' <=> f \in torn
  /\ f \in broken' <=> f \in broken

Unseen(f) ==
  pc' # Idle =>
    /\ pc # Idle /\ listed'[f] = listed[f]
    /\ f \in todo' <=> f \in todo
    /\ f \in edited' <=> f \in edited
    /\ f \in met' <=> f \in met
    /\ pc' = At("begin", f) => pc = At("begin", f)

LEMMA OtherCopy ==
  ASSUME NEW f \in Files, CopyFits(f), Kept(f), pc' = At("copy", f) <=> pc = At("copy", f)
  PROVE  CopyFits(f)'
  <1>1. Good(f)' <=> Good(f)
    BY DEF Kept, Good, Mirrored, Content
  <1>2. Begun(f)' <=> Begun(f)
    BY DEF Kept, Begun, Parallel, Hole
  <1> QED
    BY <1>1, <1>2 DEF Kept, CopyFits, At, Hole

LEMMA OtherFile ==
  ASSUME NEW f \in Files, FileFits(f), Kept(f), Unseen(f),
         pc' = At("copy", f) <=> pc = At("copy", f)
  PROVE  FileFits(f)'
  <1>1. CopyFits(f)'
    BY OtherCopy DEF FileFits
  <1>2. f \in Page /\ pc' # Idle => SeenFits(f)'
    BY DEF Kept, Unseen, FileFits, SeenFits, Fresh, Settled, Delivered, Mirrored, Content, At
  <1> QED
    BY <1>1, <1>2 DEF FileFits, Idle

----------------------------------------------------------------------------
\* What each action does to a file.

\* An edited file is newer than its copy, and left out of what the pass promises.
LEMMA EditFits ==
  ASSUME PassFits, NEW g \in Files, Edit(g), NEW f \in Files
  PROVE  FileFits(f)'
  <1>1. PassTyped /\ FileFits(f)
    BY DEF PassFits
  <1>2. UNCHANGED <<dest, pc, listed, todo, owner, told, begun, broken, met>>
    BY DEF Edit, lock
  <1>3. CASE f # g
    <2>1. Kept(f) /\ Unseen(f)
      BY <1>1, <1>2, <1>3, PassTypes DEF Edit, Kept, Unseen, At
    <2> QED
      BY <1>1, <1>2, <2>1, OtherFile DEF At
  <1>4. CASE f = g
    <2>1. newer'[f] /\ (f \in begun => f \in torn')
          /\ (f \in Page /\ pc # Idle => f \in edited')
      BY <1>1, <1>4, PassTypes DEF Edit
    <2>2. Good(f)'
      BY <2>1 DEF Good
    <2>3. CopyFits(f)'
      BY <1>1, <1>2, <2>1, <2>2 DEF FileFits, CopyFits, At, Hole
    <2>4. f \in Page /\ pc' # Idle => SeenFits(f)'
      BY <1>1, <1>2, <2>1 DEF FileFits, SeenFits, Settled, Delivered, At
    <2> QED
      BY <2>3, <2>4 DEF FileFits, Idle
  <1> QED
    BY <1>3, <1>4

\* A listing is fresh, and promises nothing yet.
LEMMA StartFits ==
  ASSUME PassFits, StartPass, NEW f \in Files
  PROVE  FileFits(f)'
  <1>1. FileFits(f)
    BY DEF PassFits
  <1>2. /\ UNCHANGED <<source, dest, newer, lock, history>>
        /\ pc = Idle /\ pc' = Walk /\ todo' = Page
    BY DEF StartPass
  <1>3. pc # At("copy", f) /\ pc' # At("copy", f) /\ pc' # At("begin", f)
    BY <1>2, PlacesDiffer
  <1>4. CopyFits(f)'
    BY <1>1, <1>2, <1>3, OtherCopy DEF FileFits, Kept, lock, history
  <1>5. owner[f] # "pass"
    BY <1>1, <1>3 DEF FileFits, CopyFits
  <1>6. ASSUME f \in Page
        PROVE  SeenFits(f)'
    <2>1. listed'[f] = [size |-> source[f].size, newer |-> newer[f]]
      BY <1>6 DEF StartPass
    <2>2. Fresh(f)'
      BY <1>2, <2>1 DEF Fresh
    <2> QED
      BY <1>2, <1>3, <1>5, <1>6, <2>2 DEF SeenFits, At, lock
  <1> QED
    BY <1>4, <1>6 DEF FileFits, Idle

\* A pass that is over has nothing to keep.
LEMMA EndFits ==
  ASSUME PassFits, EndPass \/ Fail, NEW f \in Files
  PROVE  FileFits(f)'
  <1>1. PassTyped /\ FileFits(f)
    BY DEF PassFits
  <1>2. Kept(f) /\ pc' = Idle
    BY DEF EndPass, Fail, Leave, Kept, lock
  <1>3. pc # At("copy", f) /\ pc' # At("copy", f)
    <2>1. pc.at # "copy"
      BY DEF EndPass, Fail, Walk
    <2> QED
      BY <1>2, <2>1, PlacesDiffer DEF At
  <1> QED
    BY <1>1, <1>2, <1>3, OtherFile DEF Unseen

\* A file that is not copied has its copy, unless it was edited after the listing.
LEMMA ExamineFits ==
  ASSUME PassFits, NEW g \in Page, Examine(g), NEW f \in Files
  PROVE  FileFits(f)'
  <1>1. PassTyped /\ FileFits(f)
    BY DEF PassFits
  <1>2. /\ Kept(f) /\ UNCHANGED <<source, dest, newer, listed, lock, torn, broken, edited>>
        /\ pc = Walk /\ pc' \in {Walk, At("begin", g)}
    BY DEF Examine, Kept, lock
  <1>3. g \in Files
    BY SyncAssumption
  <1>4. pc # Idle /\ pc # At("copy", f) /\ pc' # At("copy", f)
    BY <1>2, <1>3, PlacesDiffer
  <1>5. CASE f # g
    <2>1. pc' # At("begin", f)
      BY <1>2, <1>3, <1>5, PlacesDiffer
    <2>2. Unseen(f)
      BY <1>2, <1>4, <1>5, <2>1 DEF Examine, Unseen
    <2> QED
      BY <1>1, <1>2, <1>4, <2>2, OtherFile
  <1>6. CASE f = g
    <2>1. CopyFits(f)'
      BY <1>1, <1>2, <1>4, OtherCopy DEF FileFits
    <2>2. owner[f] = "job" <=> f \in met'
      BY <1>6 DEF Examine
    <2>3. SeenFits(f) /\ f \in todo
      BY <1>1, <1>4, <1>6 DEF FileFits, Examine
    <2>4. f \notin edited => Fresh(f)'
      BY <1>2, <2>3 DEF SeenFits, Fresh
    <2>5. ASSUME f \notin todo', owner[f] # "job"
          PROVE  Delivered(f) \/ f \in broken
      <3>1. ~NeedsCopy(f)
        BY <1>6, <2>3, <2>5 DEF Examine
      <3>2. dest[f] # NoCopy /\ Len(dest[f]) = listed[f].size /\ ~listed[f].newer
        BY <3>1 DEF NeedsCopy
      <3>3. f \notin begun
        BY <1>1, <1>4, <2>5, PassTypes DEF FileFits, CopyFits
      <3>4. Good(f)
        BY <1>1, <3>3 DEF FileFits, CopyFits
      <3>5. f \notin edited => ~newer[f] /\ Len(dest[f]) = source[f].size
        BY <2>3, <3>2 DEF SeenFits, Fresh
      <3> QED
        BY <3>2, <3>4, <3>5 DEF Good, Delivered
    <2>6. f \notin todo' => Settled(f)'
      BY <1>2, <2>2, <2>5 DEF Settled, Delivered, Mirrored, Content
    <2>7. SeenFits(f)'
      BY <1>2, <2>2, <2>3, <2>4, <2>6 DEF SeenFits, At, lock
    <2> QED
      BY <2>1, <2>7 DEF FileFits, Idle
  <1> QED
    BY <1>5, <1>6

\* The pass takes a pair that is free with the size it has listed.
LEMMA BeginFits ==
  ASSUME PassFits, NEW g \in Page, TryBegin(g), NEW f \in Files
  PROVE  FileFits(f)'
  <1>1. PassTyped /\ FileFits(f) /\ g \in Files
    BY SyncAssumption DEF PassFits
  <1>2. /\ UNCHANGED <<source, dest, newer, listed, todo, begun, history>>
        /\ pc = At("begin", g) /\ pc' = At("copy", g) /\ owner[g] = "none"
        /\ owner' = [owner EXCEPT ![g] = "pass"]
        /\ told' = [told EXCEPT ![g] = listed[g].size]
    BY DEF TryBegin, Take
  <1>3. pc # Idle /\ pc # At("copy", f)
    BY <1>1, <1>2, PlacesDiffer
  <1>4. CASE f # g
    <2>1. Kept(f) /\ Unseen(f) /\ pc' # At("copy", f)
      BY <1>1, <1>2, <1>3, <1>4, PassTypes, PlacesDiffer DEF Kept, Unseen, history
    <2> QED
      BY <1>1, <1>3, <2>1, OtherFile
  <1>5. CASE f = g
    <2>1. owner'[f] = "pass" /\ told'[f] = listed[f].size
      BY <1>1, <1>2, <1>5, PassTypes
    <2>2. f \notin begun /\ Good(f)
      BY <1>1, <1>2, <1>5 DEF FileFits, CopyFits
    <2>3. Good(f)'
      BY <1>2, <2>2 DEF Good, Mirrored, Content, history
    <2>4. CopyFits(f)'
      BY <1>2, <1>5, <2>1, <2>2, <2>3 DEF CopyFits, At
    <2>5. SeenFits(f)
      BY <1>1, <1>3, <1>5 DEF FileFits
    <2>6. SeenFits(f)'
      BY <1>2, <2>1, <2>5
         DEF SeenFits, Fresh, Settled, Delivered, Mirrored, Content, history
    <2> QED
      BY <2>4, <2>6 DEF FileFits, Idle
  <1> QED
    BY <1>4, <1>5

\* A file that is passed over is in the hands of a job.
LEMMA SkipFits ==
  ASSUME PassFits, NEW g \in Page, SkipInFlight(g), NEW f \in Files
  PROVE  FileFits(f)'
  <1>1. PassTyped /\ FileFits(f) /\ g \in Files
    BY SyncAssumption DEF PassFits
  <1>2. /\ UNCHANGED <<source, dest, newer, listed, lock, history>> /\ Kept(f)
        /\ pc = At("begin", g) /\ pc' = Walk /\ todo' = todo \ {g}
    BY DEF SkipInFlight, Kept, lock, history
  <1>3. pc # Idle /\ pc # At("copy", f) /\ pc' # At("copy", f) /\ pc' # At("begin", f)
    BY <1>1, <1>2, PlacesDiffer
  <1>4. CASE f # g
    <2>1. Unseen(f)
      BY <1>2, <1>3, <1>4 DEF Unseen, history
    <2> QED
      BY <1>1, <1>2, <1>3, <2>1, OtherFile
  <1>5. CASE f = g
    <2>1. CopyFits(f)'
      BY <1>1, <1>2, <1>3, OtherCopy DEF FileFits
    <2>2. owner[f] = "job"
      BY <1>1, <1>3, <1>5, PassTypes DEF SkipInFlight, FileFits, CopyFits
    <2>3. SeenFits(f) /\ f \in met
      BY <1>1, <1>2, <1>3, <1>5, <2>2 DEF FileFits, SeenFits
    <2>4. SeenFits(f)'
      BY <1>2, <2>2, <2>3 DEF SeenFits, Fresh, Settled, history, lock
    <2> QED
      BY <2>1, <2>4 DEF FileFits, Idle
  <1> QED
    BY <1>4, <1>5

\* A job takes a pair that is free.
LEMMA JobBeginsFits ==
  ASSUME PassFits, NEW g \in Files, JobBegins(g), NEW f \in Files
  PROVE  FileFits(f)'
  <1>1. PassTyped /\ FileFits(f)
    BY DEF PassFits
  <1>2. PICK size \in Sizes : Take(g, "job", size)
    BY DEF JobBegins
  <1>3. /\ UNCHANGED <<source, dest, newer, pc, listed, todo, begun, edited, torn, broken>>
        /\ pc # Idle => met' = met \cup {g}
        /\ owner[g] = "none" /\ owner' = [owner EXCEPT ![g] = "job"]
        /\ told' = [told EXCEPT ![g] = size]
    BY <1>2 DEF JobBegins, Take
  <1>4. CASE f # g
    <2>1. Kept(f) /\ Unseen(f)
      BY <1>1, <1>3, <1>4, PassTypes DEF Kept, Unseen, At
    <2> QED
      BY <1>1, <1>3, <2>1, OtherFile DEF At
  <1>5. CASE f = g
    <2>1. owner'[f] = "job"
      BY <1>1, <1>3, <1>5, PassTypes
    <2>2. f \notin begun /\ Good(f) /\ pc # At("copy", f)
      BY <1>1, <1>3, <1>5 DEF FileFits, CopyFits
    <2>3. Good(f)'
      BY <1>3, <2>2 DEF Good, Mirrored, Content
    <2>4. CopyFits(f)'
      BY <1>3, <2>1, <2>2, <2>3 DEF CopyFits, At
    <2>5. f \in Page /\ pc' # Idle => SeenFits(f)'
      BY <1>1, <1>3, <1>5, <2>1
         DEF FileFits, SeenFits, Fresh, Settled
    <2> QED
      BY <2>4, <2>5 DEF FileFits, Idle
  <1> QED
    BY <1>4, <1>5

\* An empty copy is the beginning of any source.
LEMMA CreateFits ==
  ASSUME PassFits, NEW g \in Files, Create(g), NEW f \in Files
  PROVE  FileFits(f)'
  <1>1. PassTyped /\ FileFits(f) /\ FileFits(g)
    BY DEF PassFits
  <1>2. /\ UNCHANGED <<source, pc, listed, todo, owner, told, edited>>
        /\ begun' = begun \cup {g} /\ torn' = torn \ {g} /\ broken' = broken \ {g}
        /\ dest' = [dest EXCEPT ![g] = <<>>] /\ newer' = [newer EXCEPT ![g] = FALSE]
        /\ met' = IF owner[g] = "pass" THEN met \ {g} ELSE met
        /\ owner[g] # "none" /\ g \notin begun
    BY DEF Create
  <1>3. CASE f # g
    <2>1. Kept(f) /\ Unseen(f)
      BY <1>1, <1>2, <1>3, PassTypes DEF Kept, Unseen, At
    <2> QED
      BY <1>1, <1>2, <2>1, OtherFile DEF At
  <1>4. CASE f = g
    <2>1. dest'[f] = <<>> /\ ~newer'[f]
      BY <1>1, <1>2, <1>4, PassTypes
    <2>2. dest'[f] \in Seq(0..Hole)
      BY <2>1
    <2>3. Begun(f)'
      BY <1>1, <1>2, <2>1, PassTypes DEF Begun
    <2>4. CopyFits(f)'
      BY <1>1, <1>2, <1>4, <2>2, <2>3 DEF FileFits, CopyFits, At, Hole
    <2>5. ASSUME f \in Page, pc # Idle
          PROVE  SeenFits(f)'
      <3>1. SeenFits(f)
        BY <1>1, <2>5 DEF FileFits
      <3>2. f \notin edited' => Fresh(f)'
        BY <1>2, <2>1, <3>1 DEF SeenFits, Fresh
      <3>3. CASE owner[f] = "pass"
        <4>1. f \in todo
          BY <3>3, OwnCopyIsAtHand
        <4> QED
          BY <1>2, <3>1, <3>2, <3>3, <4>1 DEF SeenFits
      <3>4. CASE owner[f] # "pass"
        <4>1. owner[f] = "job" /\ UNCHANGED met
          BY <1>1, <1>2, <1>4, <3>4, PassTypes
        <4> QED
          BY <1>2, <3>1, <3>2, <4>1 DEF SeenFits, Settled, At
      <3> QED
        BY <3>3, <3>4
    <2> QED
      BY <1>2, <2>4, <2>5 DEF FileFits, Idle
  <1> QED
    BY <1>3, <1>4

\* A block more of a file under copy.
LEMMA WriteFits ==
  ASSUME PassFits, NEW g \in Files, NEW f \in Files, g \in begun,
         UNCHANGED <<source, pc, listed, todo, lock, counters, history>>,
         newer' = [newer EXCEPT ![g] = FALSE],
         NEW d \in Seq(0..Hole), dest' = [dest EXCEPT ![g] = d],
         g \notin torn => Begun(g)'
  PROVE  FileFits(f)'
  <1>1. PassTyped /\ FileFits(f)
    BY DEF PassFits
  <1>2. CASE f # g
    <2>1. Kept(f) /\ Unseen(f)
      BY <1>1, <1>2, PassTypes DEF Kept, Unseen, At, lock, history
    <2> QED
      BY <1>1, <2>1, OtherFile DEF At
  <1>3. CASE f = g
    <2>1. dest'[f] \in Seq(0..Hole) /\ ~newer'[f]
      BY <1>1, <1>3, PassTypes
    <2>2. CopyFits(f)'
      BY <1>1, <1>3, <2>1 DEF FileFits, CopyFits, At, Hole, lock, history
    <2>3. ASSUME f \in Page, pc # Idle
          PROVE  SeenFits(f)'
      <3>1. SeenFits(f)
        BY <1>1, <2>3 DEF FileFits
      <3>2. f \notin edited' => Fresh(f)'
        BY <2>1, <3>1 DEF SeenFits, Fresh, history
      <3>3. f \notin todo => f \in met
        <4>1. owner[f] = "job" \/ owner[f] = "pass"
          BY <1>1, <1>3, PassTypes DEF FileFits, CopyFits
        <4> QED
          BY <3>1, <4>1, OwnCopyIsAtHand DEF SeenFits
      <3> QED
        BY <3>1, <3>2, <3>3 DEF SeenFits, Settled, At, lock, history
    <2> QED
      BY <2>2, <2>3 DEF FileFits, Idle
  <1> QED
    BY <1>2, <1>3

\* The two ways to write a block.
LEMMA BlockWrites ==
  ASSUME PassFits, NEW g \in Files, CopyBlock(g)
  PROVE  PassTyped' /\ \A f \in Files : FileFits(f)'
  <1> DEFINE d == dest[g]
             e == Append(d, source[g].edit)
  <1>1. PassTyped /\ FileFits(g) /\ g \in begun
    BY DEF PassFits, CopyBlock
  <1>2. d \in Seq(0..Hole) /\ (g \notin torn => Begun(g))
    BY <1>1 DEF FileFits, CopyFits
  <1>3. dest' = [dest EXCEPT ![g] = e] /\ e \in Seq(0..Hole)
    BY <1>1, <1>2, PassTypes DEF CopyBlock
  <1>4. ~Parallel(g) /\ Len(d) < source[g].size /\ UNCHANGED <<source, told>>
    BY DEF CopyBlock, lock
  <1>5. dest'[g] = e
    BY <1>1, <1>3, PassTypes
  <1>6. ASSUME g \notin torn
        PROVE  Begun(g)'
    <2>1. \A n \in DOMAIN d : d[n] = source[g].edit
      BY <1>2, <1>4, <1>6 DEF Begun
    <2>2. /\ Len(e) <= source[g].size
          /\ \A n \in DOMAIN e : e[n] = source[g].edit
      BY <1>1, <1>2, <1>4, <2>1, PassTypes
    <2> QED
      BY <1>4, <1>5, <2>2 DEF Begun, Parallel
  <1> HIDE DEF e
  <1>7. /\ UNCHANGED <<source, pc, listed, todo, lock, counters, history>>
        /\ newer' = [newer EXCEPT ![g] = FALSE]
    BY DEF CopyBlock
  <1> QED
    BY <1>1, <1>3, <1>6, <1>7, WriteTyped, WriteFits

LEMMA ChunkWrites ==
  ASSUME PassFits, NEW g \in Files, CopyChunk(g)
  PROVE  PassTyped' /\ \A f \in Files : FileFits(f)'
  <1> DEFINE d == dest[g]
  <1>1. PassTyped /\ FileFits(g) /\ g \in begun /\ Parallel(g)
    BY DEF PassFits, CopyChunk
  <1>2. d \in Seq(0..Hole) /\ (g \notin torn => Begun(g))
    BY <1>1 DEF FileFits, CopyFits
  <1>3. PICK n \in 1..told[g] :
          dest' = [dest EXCEPT ![g] = WriteAt(d, n, source[g].edit)]
    BY DEF CopyChunk
  <1> DEFINE e == WriteAt(d, n, source[g].edit)
  <1>4. n \in Nat \ {0} /\ source[g].edit \in 0..Hole
    BY <1>1, PassTypes
  <1>5. /\ e \in Seq(0..Hole)
        /\ \A m \in DOMAIN e : \/ e[m] \in {source[g].edit, Hole}
                               \/ m \in DOMAIN d /\ e[m] = d[m]
    BY <1>2, <1>4, WriteAtFits
  <1> HIDE DEF e
  <1>6. dest'[g] = e
    BY <1>1, <1>3, PassTypes DEF e
  <1>7. /\ UNCHANGED <<source, pc, listed, todo, lock, counters, history>>
        /\ newer' = [newer EXCEPT ![g] = FALSE]
    BY DEF CopyChunk
  <1>8. ASSUME g \notin torn
        PROVE  Begun(g)'
    <2>1. \A m \in DOMAIN d : d[m] \in {source[g].edit, Hole}
      BY <1>2, <1>8 DEF Begun
    <2>2. \A m \in DOMAIN e : e[m] \in {source[g].edit, Hole}
      BY <1>5, <2>1
    <2> QED
      BY <1>1, <1>6, <1>7, <2>2 DEF Begun, Parallel, Hole, lock
  <1>9. dest' = [dest EXCEPT ![g] = e]
    BY <1>3 DEF e
  <1> QED
    BY <1>1, <1>5, <1>7, <1>8, <1>9, WriteTyped, WriteFits

\* A stream that has come to the length of its source is all of it.
LEMMA StreamedIsMirrored ==
  ASSUME PassTyped, NEW g \in Files, dest[g] \in Seq(0..Hole), Begun(g), ~Parallel(g),
         Len(dest[g]) >= source[g].size
  PROVE  Mirrored(g)
  <1>1. Len(dest[g]) = source[g].size
    BY PassTypes DEF Begun
  <1>2. \A n \in DOMAIN dest[g] : dest[g][n] = source[g].edit
    BY DEF Begun
  <1> QED
    BY <1>1, <1>2, WholeIsMirrored

\* A copy that is finished is of the source, but for one that was edited meanwhile, or
\* for the size the copy was told.
LEMMA FinishedIsGood ==
  ASSUME PassFits, NEW g \in Files, FinishFile(g)
  PROVE  /\ Good(g)
         /\ g \in torn \/ Mirrored(g) \/ told[g] # source[g].size
  <1>1. PassTyped /\ FileFits(g) /\ g \in begun
    BY DEF PassFits, FinishFile
  <1>2. dest[g] \in Seq(0..Hole) /\ (g \notin torn => Begun(g))
    BY <1>1 DEF FileFits, CopyFits
  <1>3. CASE Parallel(g) /\ g \notin torn
    <2>1. /\ Len(dest[g]) = told[g]
          /\ \A n \in DOMAIN dest[g] : dest[g][n] # Hole
      BY <1>3 DEF FinishFile
    <2>2. \A n \in DOMAIN dest[g] : dest[g][n] = source[g].edit
      BY <1>2, <1>3, <2>1 DEF Begun
    <2>3. Mirrored(g) \/ Len(dest[g]) # source[g].size
      BY <1>2, <2>2, WholeIsMirrored
    <2> QED
      BY <2>1, <2>3 DEF Good
  <1>4. CASE ~Parallel(g) /\ g \notin torn
    <2>1. Len(dest[g]) >= source[g].size
      BY <1>4 DEF FinishFile
    <2>2. Mirrored(g)
      BY <1>1, <1>2, <1>4, <2>1, StreamedIsMirrored
    <2> QED
      BY <2>2 DEF Good
  <1>5. CASE g \in torn
    BY <1>5 DEF Good
  <1> QED
    BY <1>3, <1>4, <1>5

\* A file the pass has finished has its copy, or has been edited since it was listed.
LEMMA FinishFits ==
  ASSUME PassFits, NEW g \in Files, FinishFile(g), NEW f \in Files
  PROVE  FileFits(f)'
  <1>1. PassTyped /\ FileFits(f)
    BY DEF PassFits
  <1>2. /\ UNCHANGED <<source, dest, newer, listed, history>>
        /\ owner' = [owner EXCEPT ![g] = "none"] /\ told' = [told EXCEPT ![g] = 0]
        /\ begun' = begun \ {g} /\ g \in begun
        /\ IF owner[g] = "pass" THEN todo' = todo \ {g} /\ pc' = Walk
                                ELSE UNCHANGED <<todo, pc>>
    BY DEF FinishFile, Free
  <1>3. owner[g] = "pass" => pc = At("copy", g) /\ pc # Idle
    BY OwnCopyIsAtHand
  <1>4. pc' # At("copy", g)
    <2>1. FileFits(g)
      BY DEF PassFits
    <2> QED
      BY <1>2, <2>1, PlacesDiffer DEF FileFits, CopyFits
  <1>5. CASE f # g
    <2>1. Kept(f)
      BY <1>1, <1>2, <1>5, PassTypes DEF Kept, history
    <2>2. Unseen(f) /\ (pc' = At("copy", f) <=> pc = At("copy", f))
      BY <1>2, <1>3, <1>5, PlacesDiffer DEF Unseen, history
    <2> QED
      BY <1>1, <2>1, <2>2, OtherFile
  <1>6. CASE f = g
    <2>1. /\ Good(f)
          /\ f \in torn \/ Mirrored(f) \/ told[f] # source[f].size
      BY <1>6, FinishedIsGood
    <2>2. Good(f)' /\ (Mirrored(f)' <=> Mirrored(f))
      BY <1>2, <2>1 DEF Good, Mirrored, Content, history
    <2>3. owner'[f] = "none" /\ f \notin begun'
      BY <1>1, <1>2, <1>6, PassTypes
    <2>4. CopyFits(f)'
      BY <1>4, <1>6, <2>2, <2>3 DEF CopyFits, At
    <2>5. ASSUME f \in Page, pc' # Idle
          PROVE  SeenFits(f)'
      <3>1. SeenFits(f)
        BY <1>1, <1>2, <1>3, <1>6, <2>5 DEF FileFits
      <3>2. f \notin edited' => Fresh(f)'
        BY <1>2, <3>1 DEF SeenFits, Fresh, history
      <3>3. CASE owner[f] = "pass"
        <4>1. Delivered(f)
          BY <2>1, <3>1, <3>3 DEF SeenFits, Fresh, Delivered
        <4>2. Settled(f)'
          BY <1>2, <2>2, <4>1 DEF Settled, Delivered, history
        <4> QED
          BY <2>3, <3>2, <4>2 DEF SeenFits
      <3>4. CASE owner[f] # "pass"
        <4>1. f \notin todo' => Settled(f)
          BY <1>2, <1>6, <3>1, <3>4 DEF SeenFits
        <4>2. f \notin todo' => Settled(f)'
          BY <1>2, <2>2, <4>1 DEF Settled, Delivered, history
        <4> QED
          BY <2>3, <3>2, <4>2 DEF SeenFits
      <3> QED
        BY <3>3, <3>4
    <2> QED
      BY <2>4, <2>5 DEF FileFits, Idle
  <1> QED
    BY <1>5, <1>6

\* A copy that fails leaves something the next pass will see, but for a parallel one.
LEMMA AbandonFits ==
  ASSUME PassFits, NEW g \in Files, ShortRead(g) \/ CopyFails(g), NEW f \in Files
  PROVE  FileFits(f)'
  <1>1. PassTyped /\ FileFits(f)
    BY DEF PassFits
  <1>2. /\ UNCHANGED <<source, newer, torn>> /\ owner[g] # "none"
        /\ owner' = [owner EXCEPT ![g] = "none"] /\ told' = [told EXCEPT ![g] = 0]
        /\ begun' = begun \ {g}
        /\ broken' = IF g \in begun /\ Parallel(g) THEN broken \cup {g} ELSE broken
        /\ IF owner[g] = "pass" THEN Leave ELSE UNCHANGED <<pc, todo, listed, edited, met>>
    <2>1. FileFits(g)
      BY DEF PassFits
    <2> QED
      BY <2>1 DEF ShortRead, CopyFails, Abandon, Free, FileFits, CopyFits
  <1>3. owner[g] = "pass" => pc = At("copy", g) /\ pc' = Idle
    BY <1>2, OwnCopyIsAtHand DEF Leave
  <1>4. pc' # At("copy", g)
    <2>1. FileFits(g)
      BY DEF PassFits
    <2> QED
      BY <1>2, <1>3, <2>1, PlacesDiffer DEF FileFits, CopyFits
  <1>5. CASE f # g
    <2>1. dest'[f] = dest[f]
      BY <1>1, <1>5, PassTypes DEF ShortRead, CopyFails
    <2>2. Kept(f)
      BY <1>1, <1>2, <1>5, <2>1, PassTypes DEF Kept
    <2>3. Unseen(f) /\ (pc' = At("copy", f) <=> pc = At("copy", f))
      BY <1>2, <1>3, <1>5, PlacesDiffer DEF Unseen
    <2> QED
      BY <1>1, <2>2, <2>3, OtherFile
  <1>6. CASE f = g
    <2>1. owner'[f] = "none" /\ f \notin begun'
      BY <1>1, <1>2, <1>6, PassTypes
    <2>2. dest'[f] = dest[f] \/ (f \in begun /\ dest'[f] = NoCopy)
      BY <1>1, <1>6, PassTypes DEF ShortRead, CopyFails
    <2>3. Good(f)'
      <3>1. CASE dest'[f] = NoCopy
        BY <3>1 DEF Good
      <3>2. CASE dest'[f] = dest[f] /\ f \notin begun
        <4>1. Good(f) /\ broken' = broken
          BY <1>1, <1>2, <1>6, <3>2 DEF FileFits, CopyFits
        <4> QED
          BY <1>2, <3>2, <4>1 DEF Good, Mirrored, Content
      <3>3. CASE dest'[f] = dest[f] /\ f \in begun
        <4>1. dest[f] \in Seq(0..Hole) /\ (f \notin torn => Begun(f))
          BY <1>1, <3>3 DEF FileFits, CopyFits
        <4>2. Parallel(f) => f \in broken'
          BY <1>2, <1>6, <3>3
        <4>3. ~Parallel(f) => f \in torn \/ Mirrored(f) \/ Len(dest[f]) # source[f].size
          BY <1>1, <4>1, StreamedIsMirrored, PassTypes
        <4> QED
          BY <1>2, <3>3, <4>2, <4>3 DEF Good, Mirrored, Content
      <3> QED
        BY <2>2, <3>1, <3>2, <3>3
    <2>4. CopyFits(f)'
      BY <1>4, <1>6, <2>1, <2>3 DEF CopyFits, At
    <2>5. ASSUME f \in Page, pc' # Idle
          PROVE  SeenFits(f)'
      <3>1. owner[f] # "pass" /\ UNCHANGED <<pc, todo, listed, edited, met>>
        BY <1>2, <1>3, <1>6, <2>5
      <3>2. SeenFits(f) /\ owner[f] = "job"
        BY <1>1, <1>2, <1>6, <2>5, <3>1, PassTypes DEF FileFits
      <3>3. f \notin edited' => Fresh(f)'
        BY <1>2, <3>1, <3>2 DEF SeenFits, Fresh
      <3>4. f \notin todo' => f \in met'
        BY <3>1, <3>2 DEF SeenFits
      <3> QED
        BY <2>1, <3>3, <3>4 DEF SeenFits, Settled
    <2> QED
      BY <2>4, <2>5 DEF FileFits, Idle
  <1> QED
    BY <1>5, <1>6

\* At first there is no copy, and then every step keeps what has been said.
LEMMA PassInitFits ==
  ASSUME PassInit
  PROVE  PassFits
  <1>1. /\ pc = Idle /\ begun = {} /\ dest = [f \in Files |-> NoCopy]
        /\ owner = [f \in Files |-> "none"]
    BY DEF PassInit
  <1>2. \A f \in Files : pc # At("copy", f)
    BY <1>1, PlacesDiffer
  <1> QED
    BY <1>1, <1>2, PassInitTyped DEF PassFits, FileFits, CopyFits, Good

LEMMA PassKeepsFits ==
  ASSUME PassFits, [PassNext]_passVars
  PROVE  PassFits'
  <1>1. PassTyped /\ Page \subseteq Files
    BY SyncAssumption DEF PassFits
  <1>2. CASE StartPass \/ EndPass \/ Fail
    BY <1>1, <1>2, StartTyped, EndTyped, StartFits, EndFits DEF PassFits
  <1>3. ASSUME NEW g \in Page, Examine(g) \/ TryBegin(g) \/ SkipInFlight(g)
        PROVE  PassFits'
    BY <1>1, <1>3, WalkTyped, ExamineFits, BeginFits, SkipFits DEF PassFits
  <1>4. ASSUME NEW g \in Files, CopyStep(g) \/ CopyFails(g)
        PROVE  PassFits'
    BY <1>1, <1>4, CreateTyped, CreateFits, BlockWrites, ChunkWrites, FinishTyped,
       FinishFits, AbandonTyped, AbandonFits DEF PassFits, CopyStep
  <1>5. ASSUME NEW g \in Files, JobBegins(g) \/ Edit(g)
        PROVE  PassFits'
    BY <1>1, <1>5, JobBeginsTyped, JobBeginsFits, EditTyped, EditFits DEF PassFits
  <1>6. CASE UNCHANGED passVars
    <2>1. PassTyped'
      BY <1>1, <1>6 DEF passVars, lock, counters, history, PassTyped, PassTypeOK, Places, At,
                        Idle, Walk
    <2>2. ASSUME NEW f \in Files
          PROVE  FileFits(f)'
      <3>1. Kept(f) /\ Unseen(f) /\ UNCHANGED pc
        BY <1>6 DEF passVars, lock, history, Kept, Unseen
      <3> QED
        BY <3>1, OtherFile DEF PassFits
    <2> QED
      BY <2>1, <2>2 DEF PassFits
  <1> QED
    BY <1>1, <1>2, <1>3, <1>4, <1>5, <1>6 DEF PassNext, PassStep, JobStep

\* The types, and what every file has of its source at every point of a pass, whoever
\* copies it.
THEOREM PassInvariance == PassSpec => []PassFits
  <1>1. PassInit => PassFits
    BY PassInitFits
  <1>2. PassFits /\ [PassNext]_passVars => PassFits'
    BY PassKeepsFits
  <1> QED
    BY <1>1, <1>2, PTL DEF PassSpec

\* A pass that ends without an error leaves every copy it has listed equal to its
\* source, but for the files edited since they were listed or in the middle of a
\* copy, those a copy job held when the pass looked at them or since, and those whose
\* parallel copy failed, whatever passes and jobs before it have done.
THEOREM PassesDeliver == PassSpec => []PassDelivers
  <1>1. PassFits => PassDelivers
    <2> SUFFICES ASSUME PassFits, pc = Walk, todo = {}, NEW f \in Page
                 PROVE  Delivered(f) \/ f \in broken \/ f \in met
      BY DEF PassDelivers
    <2>1. FileFits(f) /\ pc # Idle
      BY PlacesDiffer, SyncAssumption DEF PassFits
    <2> QED
      BY <2>1 DEF FileFits, SeenFits, Settled
  <1> QED
    BY <1>1, PassInvariance, PTL
=============================================================================
