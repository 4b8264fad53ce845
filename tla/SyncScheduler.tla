--------------------------- MODULE SyncScheduler ---------------------------
(***************************************************************************)
(* The cron scheduler of storage.sync rules (internal/storage/scheduler.go)*)
(* with the goroutines that meet on Scheduler.mu: cron jobs, manual runs,  *)
(* reload requests calling Replace, and main calling Stop.                 *)
(*                                                                         *)
(* A critical section that never blocks is one action, enabled while no    *)
(* goroutine holds mu.  Replace and Stop wait for the running cron jobs    *)
(* while they hold mu, so each of them is two actions and "holder" names   *)
(* the goroutine in between.  The cron library is external: Start lets it  *)
(* fire jobs, Stop makes it fire no more, and the context Stop returns is  *)
(* done when every job it started has returned.                            *)
(*                                                                         *)
(* Data left out: lastError is non-empty exactly when lastStatus is        *)
(* "failed", lastFinishedAt is nil exactly when lastStatus is "" or        *)
(* "running"; an IncrementalResult is the rule key of the run that made    *)
(* it.  AddFunc cannot fail here: config.expandStorage has parsed every    *)
(* interval with the same parser.                                          *)
(***************************************************************************)
EXTENDS Naturals, Sequences

CONSTANTS
  Runs,         \* goroutines that may execute runRule at one time
  Callers,      \* goroutines that may be inside Replace or Stop
  RuleKeys,     \* the interval and endpoints of a rule (its fingerprint)
  Configs,      \* the rule lists a configuration may hold
  MaxReplaces,  \* bound: no call of Replace starts once this many are done
  MayShutDown,  \* whether the process may be told to stop
  None          \* a value that is no caller and no key

Rule == [key : RuleKeys, enabled : BOOLEAN]

ASSUME SchedulerAssumption ==
  /\ Configs \subseteq Seq(Rule)
  /\ None \notin Callers
  /\ None \notin RuleKeys
  /\ MaxReplaces \in Nat
  /\ MayShutDown \in BOOLEAN

VARIABLES
  holder,    \* the caller that holds mu while it waits for cron jobs, or None
  calls,     \* the calls of Replace and Stop in progress
  cron,      \* "none" (s.cron = nil), "on" (started), "stopped" (Stop called)
  entries,   \* s.entries
  canceled,  \* s.ctx is done
  runs,      \* the goroutines in runRule
  epoch,     \* history: how many times Replace has rebuilt the entries
  crossed    \* history: a run was in flight while the entries were rebuilt

vars == <<holder, calls, cron, entries, canceled, runs, epoch, crossed>>

Statuses == {"", "running", "completed", "failed"}

Entry == [rule : Rule, running : BOOLEAN, status : Statuses,
          result : RuleKeys \cup {None}]

Call == [pc : {"idle", "lock", "wait"}, op : {"replace", "stop"},
         rules : Configs \cup {<<>>}]

\* begin: started, not yet past the first critical section.  sync: inside
\* SyncIncremental.  record and clear: before the last two critical sections.
Run == [pc : {"idle", "begin", "sync", "record", "clear"}, id : Nat,
        trigger : {"cron", "manual"}, key : RuleKeys \cup {None},
        epoch : Nat, outcome : {"completed", "failed"}]

NoRun == [pc |-> "idle", id |-> 0, trigger |-> "cron", key |-> None,
          epoch |-> 0, outcome |-> "completed"]

\* A goroutine that is about to enter runRule(i, trigger).
Started(i, trigger) ==
  [pc |-> "begin", id |-> i, trigger |-> trigger, key |-> None,
   epoch |-> epoch, outcome |-> "completed"]

NoCall == [pc |-> "idle", op |-> "replace", rules |-> <<>>]

MuFree == holder = None

Live(r) == runs[r].pc # "idle"

\* The run owns the running flag of an entry: Trigger sets it before the
\* goroutine starts, a cron job only in its first critical section.
Claims(r) == Live(r) /\ ~(runs[r].pc = "begin" /\ runs[r].trigger = "cron")

\* Mutant: Stop's context is not awaited.
CronNotAwaited == TRUE

CronDrained == \A r \in Runs : Live(r) => runs[r].trigger # "cron"

InRange(i) == i \in DOMAIN entries

Enabled(rules) == {i \in DOMAIN rules : rules[i].enabled}

----------------------------------------------------------------------------
\* NewScheduler, before the first Replace.
Init ==
  /\ holder = None
  /\ calls = [c \in Callers |-> NoCall]
  /\ cron = "none"
  /\ entries = <<>>
  /\ canceled = FALSE
  /\ runs = [r \in Runs |-> NoRun]
  /\ epoch = 0
  /\ crossed = FALSE

\* A reload request (or main at start-up) enters Replace.
CallReplace(c) ==
  /\ calls[c].pc = "idle"
  /\ epoch < MaxReplaces
  /\ \E rules \in Configs :
       calls' = [calls EXCEPT ![c] =
                   [pc |-> "lock", op |-> "replace", rules |-> rules]]
  /\ UNCHANGED <<holder, cron, entries, canceled, runs, epoch, crossed>>

\* main enters Stop on its way out of runServer.
CallStop(c) ==
  /\ MayShutDown
  /\ ~canceled
  /\ \A d \in Callers : calls[d].pc # "idle" => calls[d].op # "stop"
  /\ calls[c].pc = "idle"
  /\ calls' = [calls EXCEPT ![c] =
                 [pc |-> "lock", op |-> "stop", rules |-> <<>>]]
  /\ UNCHANGED <<holder, cron, entries, canceled, runs, epoch, crossed>>

\* Replace and Stop take mu, Stop cancels the context, and both call
\* cron.Stop and start to wait for the running jobs with mu held.
LockAndStopCron(c) ==
  /\ calls[c].pc = "lock"
  /\ MuFree
  /\ holder' = c
  /\ calls' = [calls EXCEPT ![c].pc = "wait"]
  /\ cron' = IF cron = "on" THEN "stopped" ELSE cron
  /\ canceled' = (canceled \/ calls[c].op = "stop")
  /\ UNCHANGED <<entries, runs, epoch, crossed>>

\* Mutants of Rebuilt: the running flag is carried over; the fingerprint is
\* the index alone; a new entry gets a status of its own.
RebuiltKeepsFlag(rules) ==
  [i \in DOMAIN rules |->
     LET kept == InRange(i) /\ entries[i].rule.key = rules[i].key
     IN  [rule    |-> rules[i],
          running |-> kept /\ entries[i].running,
          status  |-> IF kept THEN entries[i].status ELSE "",
          result  |-> IF kept THEN entries[i].result ELSE None]]

RebuiltByIndex(rules) ==
  [i \in DOMAIN rules |->
     [rule    |-> rules[i],
      running |-> FALSE,
      status  |-> IF InRange(i) THEN entries[i].status ELSE "",
      result  |-> IF InRange(i) THEN entries[i].result ELSE None]]

RebuiltIdle(rules) ==
  [i \in DOMAIN rules |-> [rule |-> rules[i], running |-> FALSE,
                           status |-> "idle", result |-> None]]

\* An entry keeps its last-run fields when the old list holds a rule with
\* the same fingerprint, which names the index; it never keeps the flag.
Rebuilt(rules) ==
  [i \in DOMAIN rules |->
     LET kept == InRange(i) /\ entries[i].rule.key = rules[i].key
     IN  [rule    |-> rules[i],
          running |-> FALSE,
          status  |-> IF kept THEN entries[i].status ELSE "",
          result  |-> IF kept THEN entries[i].result ELSE None]]

\* Mutant: manual runs are awaited too, with mu held.
FinishReplaceAwaitsAll(c) ==
  /\ holder = c
  /\ calls[c].pc = "wait"
  /\ calls[c].op = "replace"
  /\ \A r \in Runs : ~Live(r)
  /\ entries' = Rebuilt(calls[c].rules)
  /\ cron' = IF Enabled(calls[c].rules) = {} THEN "none" ELSE "on"
  /\ epoch' = epoch + 1
  /\ calls' = [calls EXCEPT ![c] = NoCall]
  /\ holder' = None
  /\ UNCHANGED <<canceled, runs, crossed>>

\* The rest of Replace once the cron jobs have returned.
FinishReplace(c) ==
  /\ holder = c
  /\ calls[c].pc = "wait"
  /\ calls[c].op = "replace"
  /\ cron # "none" => CronDrained
  /\ entries' = Rebuilt(calls[c].rules)
  /\ cron' = IF Enabled(calls[c].rules) = {} THEN "none" ELSE "on"
  /\ epoch' = epoch + 1
  /\ crossed' = (crossed \/ \E r \in Runs : Live(r))
  /\ calls' = [calls EXCEPT ![c] = NoCall]
  /\ holder' = None
  /\ UNCHANGED <<canceled, runs>>

\* The rest of Stop.
FinishStop(c) ==
  /\ holder = c
  /\ calls[c].pc = "wait"
  /\ calls[c].op = "stop"
  /\ cron # "none" => CronDrained
  /\ cron' = "none"
  /\ calls' = [calls EXCEPT ![c] = NoCall]
  /\ holder' = None
  /\ UNCHANGED <<entries, canceled, runs, epoch, crossed>>

\* The flag, status and clock updates of a claim (Trigger and runRule).
Claimed(i) == [entries EXCEPT ![i] = [@ EXCEPT !.running = TRUE,
                                               !.status = "running"]]

\* Mutant: Trigger does not look at the flag.
TriggerUnchecked(r, i) ==
  /\ MuFree
  /\ ~Live(r)
  /\ InRange(i)
  /\ entries' = Claimed(i)
  /\ runs' = [runs EXCEPT ![r] = Started(i, "manual")]
  /\ UNCHANGED <<holder, calls, cron, canceled, epoch, crossed>>

\* Trigger on a schedule that is not running; the other calls change nothing.
Trigger(r, i) ==
  /\ MuFree
  /\ ~Live(r)
  /\ InRange(i)
  /\ ~entries[i].running
  /\ entries' = Claimed(i)
  /\ runs' = [runs EXCEPT ![r] = Started(i, "manual")]
  /\ UNCHANGED <<holder, calls, cron, canceled, epoch, crossed>>

\* The cron goroutine starts a job; it does not need mu.
Tick(r, i) ==
  /\ cron = "on"
  /\ ~Live(r)
  /\ InRange(i)
  /\ entries[i].rule.enabled
  /\ runs' = [runs EXCEPT ![r] = Started(i, "cron")]
  /\ UNCHANGED <<holder, calls, cron, entries, canceled, epoch, crossed>>

\* First critical section of runRule: a job that may not go on returns.
Bail(r) ==
  /\ MuFree
  /\ runs[r].pc = "begin"
  /\ InRange(runs[r].id) =>
       (entries[runs[r].id].running <=> runs[r].trigger = "cron")
  /\ runs' = [runs EXCEPT ![r] = NoRun]
  /\ UNCHANGED <<holder, calls, cron, entries, canceled, epoch, crossed>>

\* First critical section of runRule: the run reads its rule and goes on.
Begin(r) ==
  /\ MuFree
  /\ runs[r].pc = "begin"
  /\ InRange(runs[r].id)
  /\ IF runs[r].trigger = "cron"
       THEN /\ ~entries[runs[r].id].running
            /\ entries' = Claimed(runs[r].id)
       ELSE /\ entries[runs[r].id].running
            /\ UNCHANGED entries
  /\ runs' = [runs EXCEPT ![r] = [@ EXCEPT !.pc = "sync",
                                           !.key = entries[runs[r].id].rule.key]]
  /\ UNCHANGED <<holder, calls, cron, canceled, epoch, crossed>>

\* Mutant: without the timeout only a shutdown ends a hung transfer.
SyncReturnsOnCancel(r) ==
  /\ canceled
  /\ runs[r].pc = "sync"
  /\ runs' = [runs EXCEPT ![r] = [@ EXCEPT !.pc = "record",
                                           !.outcome = "failed"]]
  /\ UNCHANGED <<holder, calls, cron, entries, canceled, epoch, crossed>>

\* SyncIncremental returns; its six-hour timeout bounds the wait.
SyncReturns(r) ==
  /\ runs[r].pc = "sync"
  /\ \E outcome \in {"completed", "failed"} :
       runs' = [runs EXCEPT ![r] = [@ EXCEPT !.pc = "record",
                                             !.outcome = outcome]]
  /\ UNCHANGED <<holder, calls, cron, entries, canceled, epoch, crossed>>

Recorded(i, outcome, key) ==
  [entries EXCEPT ![i] = [@ EXCEPT !.status = outcome, !.result = key]]

\* Second critical section: the result goes to whatever entry has the index.
Record(r) ==
  /\ MuFree
  /\ runs[r].pc = "record"
  /\ entries' = IF InRange(runs[r].id)
                  THEN Recorded(runs[r].id, runs[r].outcome, runs[r].key)
                  ELSE entries
  /\ runs' = [runs EXCEPT ![r].pc = "clear"]
  /\ UNCHANGED <<holder, calls, cron, canceled, epoch, crossed>>

\* Mutant: the flag is cleared on the success path instead of by a defer.
ClearOnSuccess(r) ==
  /\ MuFree
  /\ runs[r].pc = "clear"
  /\ entries' = IF InRange(runs[r].id) /\ runs[r].outcome = "completed"
                  THEN [entries EXCEPT ![runs[r].id].running = FALSE]
                  ELSE entries
  /\ runs' = [runs EXCEPT ![r] = NoRun]
  /\ UNCHANGED <<holder, calls, cron, canceled, epoch, crossed>>

\* The deferred critical section clears the flag, and the goroutine ends.
Clear(r) ==
  /\ MuFree
  /\ runs[r].pc = "clear"
  /\ entries' = IF InRange(runs[r].id)
                  THEN [entries EXCEPT ![runs[r].id].running = FALSE]
                  ELSE entries
  /\ runs' = [runs EXCEPT ![r] = NoRun]
  /\ UNCHANGED <<holder, calls, cron, canceled, epoch, crossed>>

RunStep(r) == Bail(r) \/ Begin(r) \/ SyncReturns(r) \/ Record(r) \/ Clear(r)

CallStep(c) == LockAndStopCron(c) \/ FinishReplace(c) \/ FinishStop(c)

Next ==
  \/ \E c \in Callers : CallReplace(c) \/ CallStop(c) \/ CallStep(c)
  \/ \E r \in Runs : RunStep(r)
  \/ \E r \in Runs, i \in DOMAIN entries : Trigger(r, i) \/ Tick(r, i)

Spec == Init /\ [][Next]_vars

\* sync.Mutex hands itself to a waiter that has waited a millisecond, so a
\* goroutine for which mu is free again and again gets it (SF).  Nobody is
\* bound to call Replace, Trigger or Stop, nor does cron have to tick.
FairSpec ==
  /\ Spec
  /\ \A c \in Callers : SF_vars(CallStep(c))
  /\ \A r \in Runs : SF_vars(RunStep(r))

----------------------------------------------------------------------------
\* Types of the scheduler's state: entries built from a configuration, calls
\* and runs at one of their steps, mu held only by a caller that waits.
TypeOK ==
  /\ holder \in Callers \cup {None}
  /\ calls \in [Callers -> Call]
  /\ cron \in {"none", "on", "stopped"}
  /\ entries \in Seq(Entry)
  /\ canceled \in BOOLEAN
  /\ runs \in [Runs -> Run]
  /\ epoch \in Nat
  /\ crossed \in BOOLEAN

\* Replace waits for the cron jobs before it rebuilds the entries, so a cron
\* job never runs against, or reports into, a list it was not started for:
\* it belongs to the current entries and works on the rule now at its index.
CronRunsAreCurrent ==
  \A r \in Runs :
    (Live(r) /\ runs[r].trigger = "cron") =>
      /\ cron # "none"
      /\ runs[r].epoch = epoch
      /\ InRange(runs[r].id)
      /\ runs[r].pc # "begin" =>
           runs[r].key = entries[runs[r].id].rule.key

\* Across reloads, stale runs and shutdown, a schedule shown as running has a
\* goroutine of the current configuration that will clear the flag: no flag
\* is left set for good, which would make Trigger refuse for ever.
RunningFlagHasOwner ==
  \A i \in DOMAIN entries :
    entries[i].running =>
      \E r \in Runs : Claims(r) /\ runs[r].id = i /\ runs[r].epoch = epoch

\* As long as no reload rebuilt the entries under a run, the flag is exact:
\* a run that claimed a schedule still has its flag, and is the only one, so
\* cron ticks and manual triggers of a rule never overlap.
NoOverlapUnlessCrossed ==
  ~crossed =>
    \A r \in Runs : Claims(r) =>
      /\ InRange(runs[r].id) /\ entries[runs[r].id].running
      /\ \A s \in Runs : (Claims(s) /\ runs[s].id = runs[r].id) => s = r

\* As long as no reload rebuilt the entries under a run, what List shows is
\* true of the rule it is shown for: the result is of a run of that very
\* rule, and a status "running" is of a schedule that is running.
ListTellsTruthUnlessCrossed ==
  ~crossed =>
    \A i \in DOMAIN entries :
      /\ entries[i].result \in {None, entries[i].rule.key}
      /\ entries[i].status = "running" => entries[i].running

\* What the invariants above need to be inductive: as long as no reload
\* crossed a run, a run past its first critical section works on the rule at
\* its index, and has replaced the status "running" once it has recorded.
RunMatchesEntryUnlessCrossed ==
  ~crossed =>
    \A r \in Runs : runs[r].pc \in {"sync", "record", "clear"} =>
      /\ InRange(runs[r].id)
      /\ runs[r].key = entries[runs[r].id].rule.key
      /\ runs[r].pc = "clear" => entries[runs[r].id].status # "running"

IInv ==
  /\ TypeOK
  /\ CronRunsAreCurrent
  /\ RunningFlagHasOwner
  /\ NoOverlapUnlessCrossed
  /\ ListTellsTruthUnlessCrossed
  /\ RunMatchesEntryUnlessCrossed

\* Every call of Replace and Stop returns: scheduler.go:63 "Replace rebuilds
\* cron entries from configuration. Safe to call on reload."
CallsReturn == \A c \in Callers : calls[c].pc # "idle" ~> calls[c].pc = "idle"

Indexes == UNION {DOMAIN rules : rules \in Configs}

\* A schedule shown as running stops being so, so it can be triggered again.
ScheduleFreed ==
  \A i \in Indexes :
    (InRange(i) /\ entries[i].running) ~> ~(InRange(i) /\ entries[i].running)
=============================================================================
