# Specifications of home-gateway

TLA+ specifications of the concurrent and stateful parts of home-gateway: the
storage backends, the copies between them and their scheduler, the DNS cache, the
peer blocklist with its file, the seed-ratio watch, the table of torrents, and
what stands in front of all: logins, sessions and the reload. Each module follows
the source files named at its head; every definition that stands for code is listed
with its lines in `PROJECT.json` under `map`.

## The system

home-gateway is one Go process (`home-gateway run`). An HTTP server calls a
handful of services that are shared by all requests; background goroutines work
beside the requests; `POST /reload` replaces the configuration of every service
while they run. What the services keep, how they meet and what can go wrong:

| Component | State it keeps | Operations | Meets | What is hard | What must hold |
|---|---|---|---|---|---|
| `storage/scheduler.go` | entries with running flag and last result, cron, context | Replace, Trigger, List, Stop, runRule | reload and shutdown (`command/run.go`), incremental sync | critical sections of one mutex, goroutines that outlive the list they were started from, waiting with the mutex held | no overlap of a schedule, no flag left set, results shown for the right rule, every call returns |
| `storage/incremental.go` | none but the destination itself | SyncIncremental | backends, parallel copy, transfer lock, copy jobs | passes that die half way, files edited under the pass, pairs a job has | a pass that ends without an error has delivered what it listed and was free to copy |
| `storage/sync.go`, `transfer_lock.go` | jobs with status and counters, pairs in flight | Start, Cancel, Get, run, copyOneFile | backends, incremental sync | jobs that share files, cancellation racing with the end, partial failure | one copy of a pair at a time, no leaked pair, counters that add up, whole files, final outcomes |
| `storage/parallel.go` | channel, shared context, first error | copyParallel | copy jobs, incremental sync | producer, workers and canceler | nil only for a whole copy, nothing written after the return, it returns |
| `storage/smb.go` | one session per backend, leases | withShare, streams, Close | all of storage | reconnects, retries of operations that may have been done | an operation that ran twice has been done, whatever it answers |
| `storage/s3.go`, `local.go`, `service.go`, `handler.go`, `download.go` | buffered writer; the map of backends | list, mkdir, rename, remove, upload, download | all of storage | check then act, copy then delete, one page of names, uploads that break off | no file lost, answers that are true, whole files |
| `dns/service.go` | token, zone names, zone ids, copy of the records | Replace, ListZones, ListRecords, RefreshZone, Create/Update/DeleteRecord | Cloudflare | the lock is released during each call | the copy mirrors the zone and belongs to the configuration |
| `bt/service.go`, `control.go` | engine, limits, blocklist, paused seeds | AttachEngine, ApplyConfig, AddBlock, UpdateSettings, watchSeedRatio, Resume, AddMagnet, ListTasks, UpdateFiles, Delete, Close | Transmission, configuration file | read, unlock, call, lock; the watch races with requests | blocklist in memory, file and engine agree; a task paused for its ratio is resumed |
| `bt/transmission*.go` | task table, session id | add, ensureTask, RemoveByID, ListRemote, callResult | transmission-daemon | the table lags behind the daemon, whose numbers change when it restarts; one session id for all calls | an entry stands for a torrent under its number; the table catches up |
| `auth/service.go`, `user/service.go` | sessions, failed logins; users in the database | Login, UserForSession, Logout; Create, UpdatePassword | database | check then act around a slow comparison; a database that fails between two steps | the limit of attempts; who is let in; no session comes back, none stays of a failed login |
| `config/config.go` | the file | Load, Save | blocklist, reload | one temporary name | a saved file is one of the configurations saved |
| `command/run.go`, `router/router.go` | services | reload, shutdown | everything | reloads are not serialised | all services have one configuration |
| database, credentials, data directory, router, host metrics, web UI | rows of a database; none | | | | |

`PROJECT.json` lists the hazards one by one, each at its line, with the
properties that cover it.

## Modules

| Module | Models | Checked by | Proved in |
|---|---|---|---|
| `SyncScheduler` | `scheduler.go` and its callers in `run.go` | `MCSyncScheduler`, three configurations | `SyncSchedulerProofs` |
| `ParallelCopy`, `FileCopy` | `parallel.go`, and what a copy of a file promises | one configuration | `ParallelCopyProofs` |
| `CopyJobs` | `sync.go`, `transfer_lock.go` | `MCCopyJobs`, one configuration | `CopyJobsProofs` |
| `IncrementalSync` | `incremental.go` | one configuration | `SyncSchedulerProofs` |
| `DnsCache` | `dns/service.go` | `MCDnsCache`, one configuration | `DnsCacheProofs` |
| `Blocklist` | `AddBlock`, `ApplyConfig`, `AttachEngine` in `bt/service.go`; `Load`, `Save` in `config.go` | `MCBlocklist`, one configuration | `BlocklistProofs` |
| `SeedRatio` | the watch, `Resume` and the settings in `bt/service.go`, `control.go`, `transmission.go` | one configuration | `SeedRatioProofs` |
| `Torrents` | the task table and the remote calls: `transmission.go`, `transmission_rpc.go`, the requests of `service.go`, `control.go`, `query.go`, `connectTransmission` in `run.go` | one configuration | `TorrentsProofs` |
| `Backends` | `local.go`, `s3.go`, `smb.go`, and the handlers, `service.go`, `download.go` above them | `MCBackends`, one configuration | |
| `Gateway` | `auth/service.go`, `auth/handler.go`, `user/service.go`, the reload in `run.go` and `router.go` | `MCGateway`, one configuration | `GatewayProofs` |
| `Subsequences` | what a loop that appends what it keeps leaves of a list: `dedupeCopySteps`, the filter of `DeleteRecord`, `isRateLimited` | with the three modules that use it | with them |

`SyncScheduler`, `Blocklist`, `SeedRatio`, `Torrents` and `Backends` meet in the
process but share no variable: each is checked with the calls the others make of
it (a reload, a crash, a listing). `Gateway` has the order in which a reload
reaches them. `ParallelCopy` is what `CopyJobs` and `IncrementalSync` take as one
way to copy a file.

### SyncScheduler

`entries`, `cron`, `canceled` are the fields of `Scheduler`. A critical section
that does not block is one action, guarded by `MuFree`: `Trigger`, the three of
`runRule` (`Bail`/`Begin`, `Record`, `Clear`). `Replace` and `Stop` wait for the
cron jobs with the mutex held, so each is two actions (`LockAndStopCron`, then
`FinishReplace` or `FinishStop`) and `holder` says who has the mutex in between.
`runs` are the goroutines inside `runRule`, `calls` those inside `Replace` or
`Stop`. `epoch` and `crossed` are history: how often the entries were rebuilt,
and whether that ever happened under a run. The cron library is external: once
stopped it starts nothing, and its context is done when its jobs are.

What the code gives: a cron job only ever meets the list it was started for; a
running flag always has a goroutine of the current list that will clear it; and
*unless a reload rebuilt the list under a manual run*, runs of a schedule never
overlap and the list shows the result of the rule it is shown for. The last two
are stated with that condition because a manual run outlives a reload and
reports into whatever entry has its index then: `runRule` makes such a run bail
when the flag at its index is down, and a newer run may have raised it again.
One run shows what is wrong beyond that: a reload that meets a cron job never
returns (`SyncScheduler_deadlock`).

### ParallelCopy and FileCopy

The content of the destination is the set of source bytes written so far; a
chunk is one read and one write because the buffer has the size of a chunk. The
select of the producer, the two looks at the context, the first-error rule and
the order of `close`, `wg.Wait` and the deferred closes are as in the source.
`FileCopy` says what a copy may do (write, then return nil for a whole copy or
an error), and `ParallelCopy` implements it.

### CopyJobs

One action per step of a job: `Start`, `Run`, `Plan`, `TryBegin` or `Skip`,
`Check`, `OpenSource`, `CreateDest`, `CopyBlock`, `FileDone`; `FileFails` at any
point of a copy, `Cancel` at any point of a job. What follows a copy is a critical
section each: the pair is released by the defer of `copyOneFile` (`Release`),
the outcome is counted (`CountCopied`, `CountSkipped`, `CountFailed`), and after a
failure the status is set (`Fail`), so that a client may read a failed file of a
job that is running still.

A file is a sequence of blocks, a block one turn of the copy loop. `Objects` are
the paths on S3: one is read as it was when it was opened, what is written to it
is collected in `buffer`, and `Close` writes the object, also when the copy has
failed or was canceled in the middle. `opened`, `disturbed` and `blind` are
history: what the source was when it was opened; whether another job has written
to one of the two files since the pair was taken; and whether the look at the
destination missed an object that was there, which happens when HeadObject fails
and nothing is listed below its name (`s3.go:320`): the job then replaces the
object without having been told to overwrite. `KeepsExistingFiles` holds but for
these two. The read and the write of a block are one step, which leaves out only
an interleaving between them that another job's write to the same pair of files
would have to use. A request may copy a file onto itself: `Start` accepts one, and
with the overwrite flag the file is emptied (`sync.go:377`) and counted as
copied, which `CopiedFileIsWhole` sets apart; the configuration refuses a
schedule like that.

### IncrementalSync

One schedule, whose passes do not overlap (that is SyncScheduler's subject).
A file is a sequence of blocks marked with the edit that wrote them; of the
modification times only their order matters (`newer`), every edit and every
write happening at an instant of its own. `StartPass` lists, `Examine` compares,
`Create`, `CopyBlock` and `CopyChunk` copy, `Fail` and `CopyFails` end a pass
anywhere. The listing tells of the files in `Page`: on S3 that is the first page
of each prefix (`s3.go:98`), and the pass returns nil though it has never heard
of the others.

Copy jobs share `copyOneFile` and the lock with the pass: `owner` says who has
the pair of a file, `told` the size the copy was given, `begun` that it has made
the destination. `JobBegins` takes a pair for a job at any time, and a pass that
comes to it passes it over (`SkipInFlight`, `incremental.go:93`) and returns nil
just the same. The destination is written in place; one on S3 is in `CopyJobs`.

The properties speak of the files in `Page`, and leave out four kinds of these.
The code compares sizes and times only, so there are files edited in the middle of
their copy (`torn`) or since the listing (`edited`). A file whose pair a job held
when the pass looked at it, or later (`met`), may have been passed over: the pass
promises nothing of it, but a later pass does. And there are the
files whose last copy was parallel and failed (`broken`). That leaves out a
fault of the code: chunks are written in any order into the destination itself,
so a parallel copy that fails or dies after its last chunk was written leaves a
file of full length, newer than the source, with holes, and every later pass
takes it for an up-to-date copy (`parallel.go:72` against `incremental.go:78`).

### DnsCache

One zone name, one zone per Cloudflare account. A request is a record in `op`
that goes through the critical sections of `providerForZone` and `ensureZone`,
the call to Cloudflare, and the section that stores the reply. `remote` is the
zone at Cloudflare, and a reply may be lost. `Conflict` names the pairs of
requests that may undo each other in the copy (a full list and a write, two
writes of one record); while none of these overlap, the copy mirrors the zone.
`Configs` are the configurations a reload may bring: a zone that is listed has a
token.
`raced` says that something of the kind has happened, a reply was lost, or a
reload came between: until the next full list that nothing comes upon the
property says nothing of the copy, which may then differ from the zone.
`fetched` is in the property for a fault of the code: a write before the first
list makes a copy with that record alone, or none (`service.go:168`, `193`,
`220`), and every list is answered from it, though `service.go:112` says that
the first access fetches.
Identifiers of records that never existed and edits made elsewhere are left out.

### Blocklist

The list is in three places: `memory` (`s.config`, the bt section in force),
`file` (the YAML file) and `engine` (the Blocker of the engine, once `attached`). `AddBlock` changes
`memory` under the lock and then, without it, loads the file, writes a temporary
one, renames it and sets the engine's list (`Load`, `OpenTemp`, `WriteTemp`,
`Rename`, `SetBlockConfig`, and a failure of each). `BeginReload` and
`ApplyConfig` bring the file's bt section into memory and its rules to the engine; `AttachEngine` is the
connection made in the background with the list the process was started with;
`Edit` is the operator; `Restart` a crash at any point. There is one temporary
name, so a `handle` says where the file a request has open is by now: under the
temporary name, in place, or replaced.

`settled`, `mixed` and `lost` are history: the last change was made by a request
that nothing overlapped; two requests have written the temporary file at once;
an edit fell between a request's Load and its Rename. The properties are stated
with them because the code promises no more: a failure in `AddBlock` leaves the
rule in memory and nowhere else, of two overlapping requests one may lose its
rule in the file, and the file they leave may be garbled, and then the next
start fails, or empty, and then the next start takes the defaults.

`AddBlock` loads the file for its other sections (`other`) and puts the whole bt
section as it is in memory in the place of the file's (`service.go:296`): not
only the rules but `bt.enable` and `bt.transmission` (`rest`). An operator's edit
of that section which no reload has read is undone by the next rule that is
added, however long before it was made. So `OtherSectionsKept` is about the other
sections, and `SettledAgree` says that it is the bt section as a whole that
memory and file agree on. References to the environment are written back
resolved; `rest` and `other` are what they resolve to.

### SeedRatio

`watch` is the goroutine `watchSeedRatio`: the step it is at and the torrents of
the listing it has still to deal with (`over`, `under` the limit, `free` to be
released). `op` is the request of each caller: a Resume with its steps (`start`,
`check`, `stats`, `hold`, `limit`, `mark`), or one for the settings, which reads
them (`get`, also the one a reload makes), changes them (`put`) or is the
reading after the engine was attached (`attach`). `session`, `running`,
`limited` and `ratio` are transmission-daemon's. A call that fails may have had
its effect or not. `Restart` is a crash: marks and holds are gone, the daemon
has kept everything.

A torrent is found again by its mark only. `forgotten` is history: the torrents
whose upload stayed stopped when something other than a release took the mark.
That happens at a crash, at a release that failed (its answer is not looked at),
and at a Resume: it takes the mark at once, and when the torrent was on hold and
the limit has been raised or lifted since, it stops the upload a second time
without marking it. Such an upload stays stopped until somebody resumes or
limits it again. `settled` says that the limit was last read or changed by a
request that no other overlapped.

Ratios and limits are small numbers of which only the order matters; ratio 0
stands for every torrent under all limits, an incomplete one included. The
torrents stay at the daemon: adding and deleting are the task table's subject.

### Torrents

`torrents` is what transmission-daemon has: the number of each torrent, given
anew at a restart (`boot`). `tasks` is `TransmissionEngine.tasks`, from the hash
to the task's number. `op` says of each caller, a request or the watch, at which
call it is (`step`) and how far that call has come (`net`): a call is sent with
the `sessionID` there is, refused (409) if the daemon has started since it gave
that id, and sent again with the one it is told, three times at most. A call may
fail before or after the daemon has done its part, and the daemon may decline a
removal and keep the torrent (`Decline`): `RemoveByID` does not look at the result
of its call (`transmission.go:278`), so the request is answered like one that
removed it; that of any other call is an error. What is done with a reply are
the critical sections of the engine: `LoadTable`, `Register`, `EnsureTask` for
one torrent after the other, `Drop`. `Connect` is the engine made in the
background when the process starts; the two callers of `ListRemote`, a request
and the watch, take the same steps, the watch only while there is a limit
(`limited`, which `SetLimit` changes: `enforceSeedRatio` returns early without
one). `AddElsewhere`, `RemoveElsewhere` and
`Restart` are the world.

`alone` and `excused` are history. `alone` is the caller beside which nothing has
happened since it began, and `declined` says that the daemon has declined its
removal; the answers are promised to it, and to nobody else: a
listing that comes between the reply to torrent-add and the table makes the add
of a new torrent answer "conflict". `excused` are the torrents removed by another
client, or while another call was under way, and all of them after a restart: of
these an entry may stay though the torrent has gone, nothing in the engine takes
it away, and a later add of the torrent is refused, and the torrent removed
again (`transmission.go:191`). What a Resume asks of limits is SeedRatio's
subject; `watchMetadata`, which polls and changes nothing others read, rates and
samples are left out. UpdateFiles uses the number of the request where the code
reads that of the task it found, which can only differ after a restart.

### Backends

Each request opens a backend of its own, so requests meet in the files only.
`dir` says which file each name has, `data` the blocks of each file; a file keeps
its identity when it is moved or written in place, so `NothingLost` can follow
it. There is one directory with `Kids`, and names in `Top` beside it. One step is
one call of the operating system, of S3 or of the SMB share: `Check`, `Move`,
`Copy`, `Delete` of a rename; `LookAt`, `Clear`, `Unlink`, or `Delete`, `Page`,
`Batch` on S3, of a removal; `Collect` or `Create`, `Write`, `PutObject` or
`Close`, `Discard` of an upload; `Stat`, `OpenSeekable`, `Open`, `Read` of a
download. A directory on local disk is read, and then each of its entries is
asked for (`Info`): one that has gone or cannot be asked about is left out of the
answer. An upload that is `long` has more than a file may have, by no more than
what `MaxBytesReader` grants the form around it. `Call` is a call that may fail, on S3 with its effect, on SMB also by
breaking the connection, and then `Reconnect` runs the operation from its start
once more, as `withShare` does. Where two backends do different things they have
different actions or a condition on `kind`; a definition is mapped to the backend
whose code says most.

The properties say what the code leaves open. A rename may replace a file that
appears between its check and its end, and one that is there if the check fails
(`local.go:141`, `s3.go:225`). An upload that is a little too long is cut and
answered as created (`handler.go:215`). A removal on S3 deletes the object of the
name before it finds that there is something below it and answers "not empty"
(`s3.go:176`). On SMB an operation that was repeated may answer
"conflict" or "not found" for what it has just done. S3 answers "not found" when
it could not be asked, lists one page, removes one page, and publishes an upload
that broke off; SMB keeps one that broke off, too, and can remove a partial file
only while the session lives; a local partial file stays.

Left out: markers of directories on S3, and so `Mkdir` there; renaming a
directory; links; Ping; ranges of a download.

### Gateway

A step is a statement on the database, a critical section of `Service.mu`, or
the `Replace` of one service; `request` says at which each request is (`find`,
`compare`, `update`, `log` of a login; `lookup`, `query` of a session; `load`,
`apply` of a reload). The reading of the clock and the test of the limit are one
step. A process that is started while bt is not enabled makes no BT service, and
none later: its number in `services` is 0, `Apply` passes over it (`run.go:86`),
and `ServicesAgree` is about the services there are (`Present`), whatever the
features say of bt after a reload. A password is the number of times it was set, so a replaced one is known.
`cookies` are the sessions a client knows; `spilt` is history, the sessions of
logins that failed after the session was made, at the log (`service.go:137`) or
at the query for the answer (`handler.go:94`): they stay until they are asked
for, which nobody can. `hopeless` is history: when the request came it could not
be let in. A user is disabled only from outside; the program has no operation
for it, and what would happen to sessions of a user who is enabled again is not
asked. `mixed` says that the last reload to end was crossed by another.

Load has parsed everything a service could refuse, so no Replace fails in a
reload; that the scheduler's may never return is `SyncScheduler_deadlock`. A
restart forgets sessions and failed logins and is left out.

## Runs

| Run | Expectation | Bounds | What it shows |
|---|---|---|---|
| `SyncScheduler_reload` | passes | 3 runs, 2 callers, 2 reloads, rule lists of up to 2 rules with 2 fingerprints, shutdown | the five invariants over every order of reload, tick, trigger and shutdown |
| `SyncScheduler_manual` | passes | 2 runs, 2 callers, no enabled rule | calls return, schedules are freed |
| `SyncScheduler_deadlock` | violation | 1 run, 1 caller | reload against a cron job in flight |
| `ParallelCopy` | passes | 13 bytes in chunks of 2, 2 workers, channel of 4 | nothing is written after the return, the refinement of FileCopy (nil for a whole copy only), and the call returns |
| `DnsCache_requests` | passes | 2 requests, 2 accounts, 2 writes, any number of reloads | the copy mirrors the zone and belongs to the configuration |
| `CopyJobs_pairs` | passes | 2 jobs, 4 requests over 4 files, one of them an object | exclusion, accounting, whole files, every job ends |
| `IncrementalSync_passes` | passes | 3 files of 1 or 2 blocks (2 are copied in parallel), 2 of them listed, 1 edit, 2 failures, 1 file taken by a job | a pass delivers; the destination comes to mirror the source |
| `Blocklist_calls` | passes | 2 requests, 2 rules, 1 edit, any number of failures and restarts | the file is whole, memory, file and engine agree, the other sections of the file are kept |
| `SeedRatio` | passes | 1 torrent, 2 requests, limits 0 to 2, ratio up to 1, 1 failed call or crash | stopped uploads have their mark, the limit is the session's, a lifted limit releases, a torrent over the limit is stopped |
| `Torrents` | passes | 1 request and the watch, 2 torrents, numbers to 2, 2 failed or declined calls, restarts or doings of others, a limit that comes and goes | entries are torrents, a lone request answers the truth, calls are given up only after a restart, the table catches up |
| `Backends_pairs` | passes | 2 requests, 1 name beside the directory and 2 in it, files of 2 blocks and uploads of 1 more, pages of 1 name, 2 failures, each kind of backend | nothing is lost, answers are true, what a failed upload leaves |
| `Gateway_requests` | passes | 2 requests, 1 user, 1 address, 1 attempt in a window of 2, sessions of 2, clock to 2, 2 passwords, 1 session, 2 configurations, with or without bt, 1 failure | the limit, who is let in, which sessions there are, one configuration in all services |

The bounds are the least at which each hazard occurs: two reloads so that a run
can be crossed twice and an index can come, go and come back; three runs so that
a stale one meets two new ones; seven chunks for two workers over a channel of
four so that it fills; two jobs so that one writes to a file of the pair the
other holds, and an object because it appears all at once and by a close; two
listed files so that one is copied while another waits, one that is not listed,
one job so that a pair is passed over, and two failures so that a pass finds what
two have left; two requests on the blocklist so that both write the temporary
file, and two rules so that one of them can be lost. Torrents do not interact,
so one is enough; ratio 1 is over limit 1 and under limit 2, so a limit can be
set, raised and lifted around it; the failures of `SeedRatio` are few because
every call may fail, and each hazard above needs one. Two names in the directory
and pages of one name make S3 cut a listing and a removal; two failures are a
call that breaks the connection and another that breaks it again, or an upload
that breaks off and a removal of its file that fails. Two requests may pass the
limit of one attempt together; one user is enough because sessions and passwords
of different users never meet, and one session because it is known by a number
that is not used again. A request and the watch are the two callers whose replies can
cross; two torrents exchange their numbers in a restart, and two events are a
restart between two doings of others, or a call that fails after its effect and a
torrent that another client then removes.
Deadlock is checked except in the runs of the scheduler that may really stop
(shutdown; the deadlock above), of the copy jobs and of the backends (all
requests done), and of the gateway (every bound used up).

Fairness. Goroutines that can go on do (weak fairness per goroutine); a backend
call returns or fails. The scheduler needs strong fairness, because its
goroutines wait for a mutex that is free again and again: `sync.Mutex` hands
itself to a waiter after a millisecond. Nobody is bound to trigger, reload or
cancel; `IncrementalSync` assumes that cron starts passes again and again, and
that a job that has a pair goes on. In
`SeedRatio` the watch goes on, because its ticker does and the calls to the
daemon have a timeout of a minute, and so does every request; no request has to
be made, and no torrent has to upload. In `Torrents` each caller goes on, and the
watch lists at its ticks while there is a limit, and else not at all; other
clients and the daemon owe nothing, and after `MaxEvents` of their doings they are
quiet. The table catches up if the limit stays set, or if browsers list again and
again: `TableCatchesUp` has that as its condition, since nothing in the process
lists otherwise. `Backends` and `Gateway` claim no liveness.

## Proofs

TLAPS proves for every value of the constants:

* `SyncSchedulerProofs`: `IInv` is inductive. It adds to the five invariants of
  the run `RunMatchesEntryUnlessCrossed`: a run past its first critical section
  works on the rule at its index. Without it nothing would tie the key a run
  records to the entry it records it in. From it `TypeOK`, `CronRunsAreCurrent`,
  `RunningFlagHasOwner`, `NoOverlapUnlessCrossed`, `ListTellsTruthUnlessCrossed`.
  The second part is about the pass that a run makes, beside copy jobs. `PassFits`
  is `PassTyped` and, of each file, `CopyFits` and `SeenFits`. `CopyFits`: while
  nobody copies the file, its copy is as the source is, or shows a later pass that
  it is not (`Good`: it is missing, of another size, or older), unless it is
  `torn` or `broken`; of a copy under way, the pass's or a job's, what is written
  is of the source as it is (`Begun`). `SeenFits`: what was listed of a file is
  still so unless it was edited (`Fresh`), and a file dealt with is delivered,
  unless a job has held it since it was looked at. `Good` is what makes a pass that follows failed ones
  right. From it `PassDelivers`. `IncrementalSync` calls its `Init`, `Next` and
  so on `PassInit`, `PassNext`, so that one module can extend both.
* `ParallelCopyProofs`: `IInv` accounts for every byte below `offset`: it is
  written, in the channel, or held by a worker, unless the copy is canceled.
  From it `QuietAfterReturn` and the refinement `ImplementsFileCopy`, and
  `NilMeansAllWritten`, which the refinement contains.
* `CopyJobsProofs`: the lock holds exactly the pairs of the jobs inside a copy,
  and no two of them are equal. From it `PairExclusive` and `LockHasOwner`;
  `OutcomeIsFinal` (the outcome a client has read never changes) from the shape
  of the state. `WorkFits` is a second inductive invariant, of what the jobs do:
  `Counted` (the counters have counted the steps before the one at hand, one
  each, and a failure only of a job that has counted it and is about to end, or
  has failed) and `Contents` (until another job disturbs the pair, the source is
  what it was when it was opened, and the destination, or what has been collected
  for it, is the first blocks of that, as the step of the copy has it). From it `TypeOK`, `Accounting`, `CopiedFileIsWhole`,
  `KeepsExistingFiles`.
* `DnsCacheProofs`: `TypedInv` are the types and that a write to be stored has
  the reply Cloudflare gives. `Remembered` says that a request no reload has come
  upon has the token in force and ends with its zone; from it
  `RemembersConfiguredZone`. `CopyInv` says more of the records: identifiers are
  not used again (`Numbered`), a refresh nothing came between is alone and has
  the zone's records (`Undisturbed`), requests under way do not conflict
  (`Apart`), and the copy has the zone's records but for those that a write
  still to be stored has touched (`Mirrors`). The last is what overlapping writes
  of different records need: in between, copy and zone differ by one record for
  each. From it `CopyMirrorsZone`.
* `BlocklistProofs`: `IInv` adds to the types `OneWriter` (unless two have
  written at once, the temporary file belongs to one request and no handle is
  left behind), `EditKept` (a request that is not stale holds what the operator
  last wrote), `AloneIsInStep` (what a request that is alone has done so far) and
  `SettledHolds`. From it `TypeOK`, `FileIsWhole`, `SettledAgree`,
  `OtherSectionsKept`.
* `SeedRatioProofs`: `TypeOK` is not inductive alone: that a mark is put on a
  torrent needs `TorrentKnown` and `StepsFit` (a step that works on a torrent
  has one). `WatchWaits` (the watch is off exactly while the first settings are
  read) and `SettingsKnown` (what a request that is alone has done to the limit
  here and at the daemon) give the rest. From it `TypeOK`, `StoppedIsMarked`,
  `LimitIsTheSessions`.
* `GatewayProofs`: `Fits` says what a request has found out so far: one that
  cannot be let in is on its way to being turned away, by the password it was
  given or has read, by its session, or by the user found with it. It is kept
  because nothing makes a hopeless request hopeful (`Grows`: passwords are only
  replaced by newer ones, sessions only end, users only become disabled).
  `ReloadsFit` says that of two reloads both know that they have crossed, and
  that one which has not has brought its configuration to all the services
  there are before the next. From `IInv`: `AccessIsEarned`, `FailedLoginsLeaveNothing`,
  `ServicesAgree`, and the action property `SessionsStayEnded`. `AttemptsFit`
  bounds the failures remembered of an address together with the logins that
  have passed the test and not been compared yet; from it `LimitHolds`.
* `TorrentsProofs`: `Typed` are the types, `Placed` (what a request may carry at
  the call it is at) and `Numbered`: the numbers of the torrents are distinct and
  below the next one, and enough are left for every torrent-add on its way, also
  when a restart numbers the torrents anew, which is a count of the torrents
  against the numbers. `Known` says that before a restart there is one session
  id, and that whoever was refused has learnt it; from it
  `GivesUpOnlyAfterRestart`. `Truthful` adds three parts. `Current`: not only the
  entries but every reply yet to be entered is right. `Unshared`: before a
  restart no number has ever stood for two torrents, not even in a reply of long
  ago; without it `Drop` and `EnsureTask`, which look for a task by its number,
  could hit the wrong one. `Lone`: what a request that is alone has found and
  done, call by call, a declined removal (`TruthfulDecline`) included. From it `EntriesAreTorrents` and `LoneCallsAreHonest`.

They assume only the named assumptions of the modules on their constants. The
lists that lose some of their elements (a plan without repeated steps, records
without one, attempts without the old ones) are `SubSeqAt` of `Subsequences`, not
a fold over the list: its definition says what every place holds, so that its
type and its elements follow without an induction over the list.

The prover's SMT backend takes two updates at one index, `[f EXCEPT ![c].x = a,
![c].y = b]`, for a contradiction. The modules write `[f EXCEPT ![c] = [@ EXCEPT
!.x = a, !.y = b]]`, and for each action it was tried that FALSE does not follow
from it. An `@` inside such a nested update is written out (`op[c].tries + 1`):
the prover takes it for the outer one. Where a definition is reasoned about, the
guards of a `CASE` exclude each other, since TLA+ does not say which of two that
hold is taken.

Model-checked only: every liveness property (`LiftedLimitReleases`,
`OverLimitIsStopped`, `JobsEnd` and `TableCatchesUp` among them), which is beyond
the prover, and all of `Backends`.

## Not modelled

* `dns/validation.go`, `dns/handler.go`: single values are tested and requests
  translated; no state. `cloudflare/client.go`: requests are built and replies
  decoded; what a call does and how it fails is in `DnsCache`.
* Database, migrations, credentials, data directory: thin wrappers of the SQL
  driver, a library, a cipher and the environment.
* Host metrics and the web UI: counters of the host, static files.
* Of the modelled components: see their sections, and the notes in
  `PROJECT.json`.

## Plan

1. Proofs: `NothingLost`.
2. `watchMetadata` and `Close` of the engine, if they come to change what others
   read.

Each run answers one question and their number is kept small. What a run could
only show by a counterexample (a write before the first list, a copy onto itself,
a parallel copy that failed) is put in words above, and is a condition in the
property it concerns.
