------------------------------- MODULE Torrents -------------------------------
(***************************************************************************)
(* The table of tasks that the BT service keeps of the torrents of a       *)
(* transmission-daemon (internal/bt/transmission.go), the remote calls it  *)
(* is kept by (transmission_rpc.go), and the requests that use both        *)
(* (service.go, control.go, query.go).                                     *)
(*                                                                         *)
(* The daemon knows a torrent by a number, given anew when it restarts;    *)
(* the table maps the hash of a torrent to that number.  A call to the     *)
(* daemon is sent with the session id the client has, is refused (409) if  *)
(* the daemon has started anew since, and may fail, with or without its    *)
(* effect.  Other clients add and remove torrents.  The two services that  *)
(* call, requests and the watch, differ only in what they begin.           *)
(*                                                                         *)
(* Whether a torrent runs, and marks and limits, are the subject of        *)
(* SeedRatio; what a reply says of a torrent besides hash and number, and  *)
(* the polling for metadata, are left out.                                 *)
(***************************************************************************)
EXTENDS Naturals, FiniteSets

CONSTANTS
  Requests,    \* the requests that may be under way together
  Watch,       \* connects to the daemon, then lists the torrents for ever
  Nobody,      \* no caller
  Hashes,      \* the torrents there are
  NoHash,      \* no torrent
  MaxId,       \* bound: the largest number a torrent gets
  MaxEvents    \* bound: how often a call fails, another client changes
               \* something or the daemon restarts, taken together

Callers == Requests \cup {Watch}

ASSUME TorrentsAssumption ==
  /\ IsFiniteSet(Requests) /\ IsFiniteSet(Hashes)
  /\ Watch \notin Requests /\ Nobody \notin Callers
  /\ NoHash \notin Hashes
  /\ MaxId \in Nat /\ MaxEvents \in Nat

VARIABLES
  boot,      \* the daemon: which start it is, and so its session id
  torrents,  \* the daemon: the number of each torrent, 0 if it has it not
  nextId,    \* the daemon: the next number
  sessionID, \* transmissionRPC.sessionID, 0 if there is none
  tasks,     \* TransmissionEngine.tasks: the task.id of each hash, or 0
  attached,  \* Service.engine is set
  op,        \* what each caller is doing
  events,    \* how much the world has done
  limited,   \* Service.seedRatioLimit is above 0
  alone,     \* history: the caller nothing else has happened beside so far
  declined,  \* history: the daemon has declined the last request's removal
  excused    \* history: torrents removed in the middle of another call

vars == <<boot, torrents, nextId, sessionID, tasks, attached, op, events,
          limited, alone, declined, excused>>
daemon == <<boot, torrents, nextId>>
table  == <<tasks, attached>>

Ids == 1..MaxId
None == [h \in Hashes |-> 0]

\* kind: the request.  step: the call it is at.  net: how far that call is.
\* got: the torrents of a reply yet to be entered, by their number.
\* held: the table still has the task whose number the request will use.
Op == [kind : {"none", "connect", "add", "list", "get", "delete", "control",
               "files", "peers", "magnet"},
       step : {"idle", "hello", "hello again", "settings", "load", "add",
               "undo", "set", "get", "find", "files", "look", "link", "list",
               "drop", "remove"},
       net : {"none", "send", "sent", "refused", "reply"},
       id : 0..MaxId, hash : Hashes \cup {NoHash}, held : BOOLEAN,
       tries : 0..2, token : 0..(MaxEvents + 1),
       got : [Hashes -> 0..MaxId], found : BOOLEAN, duplicate : BOOLEAN,
       result : {"none", "ok", "conflict", "not found", "unavailable"}]

Idle == [kind |-> "none", step |-> "idle", net |-> "none", id |-> 0,
         hash |-> NoHash, held |-> FALSE, tries |-> 0, token |-> 0,
         got |-> None, found |-> FALSE, duplicate |-> FALSE, result |-> "none"]

Busy(c) == op[c].step # "idle"

\* A request goes on to its next call, or returns; what it returned is kept
\* for as long as a property asks for it.
Ask(o, step) == [o EXCEPT !.step = step, !.net = "send", !.tries = 0,
                          !.token = 0, !.got = None, !.found = FALSE]
Return(o, r) ==
  IF alone = Nobody THEN Idle
  ELSE [Idle EXCEPT !.kind = o.kind, !.hash = o.hash, !.result = r]

\* The table's task with a number.  Several may have it, one of them wrongly.
TaskByID(i) == {h \in Hashes : tasks[h] = i}

----------------------------------------------------------------------------
Connect == Ask([Idle EXCEPT !.kind = "connect"], "hello")

\* The engine is being connected to a daemon that has some torrents.
Init ==
  /\ boot = 1
  /\ \E S \in SUBSET Hashes :
       /\ Cardinality(S) <= MaxId
       /\ torrents \in [Hashes -> 0..Cardinality(S)]
       /\ \A h \in Hashes : torrents[h] = 0 <=> h \notin S
       /\ \A g, h \in S : torrents[g] = torrents[h] => g = h
       /\ nextId = Cardinality(S) + 1
  /\ sessionID = 0
  /\ tasks = None
  /\ attached = FALSE
  /\ op = [c \in Callers |-> IF c = Watch THEN Connect ELSE Idle]
  /\ events = 0
  /\ limited \in BOOLEAN
  /\ alone = Watch
  /\ declined = FALSE
  /\ excused = {}

----------------------------------------------------------------------------
\* Requests.

\* Room for the number of one more torrent.
Room ==
  nextId + Cardinality({c \in Callers : op[c].step = "add" /\ op[c].net # "reply"})
    <= MaxId

Begins(c, o) ==
  /\ ~Busy(c)
  /\ op' = [op EXCEPT ![c] = IF attached THEN o ELSE Return(o, "unavailable")]
  /\ alone' = IF \E d \in Callers \ {c} : Busy(d) THEN Nobody ELSE c
  /\ declined' = FALSE
  /\ UNCHANGED <<daemon, sessionID, table, events, limited, excused>>

Request(k, h, i) == [Idle EXCEPT !.kind = k, !.hash = h, !.id = i]

\* A magnet link, or a torrent file: the same call with other arguments.
Add(c, h) == Room /\ Begins(c, Ask(Request("add", h, 0), "add"))

ListTasks(c) == Begins(c, Ask(Request("list", NoHash, 0), "list"))

GetTask(c, i) == Begins(c, Ask(Request("get", NoHash, i), "get"))

Delete(c, i) == Begins(c, Ask(Request("delete", NoHash, i), "get"))

MagnetLink(c, i) == Begins(c, Ask(Request("magnet", NoHash, i), "link"))

\* The task has been found: files are read before they are set.
Use(o) == Ask(o, IF o.kind = "files" THEN "files" ELSE "set")

\* Pause and Resume, UpdateFiles, Peers: calls on the task that has the
\* number; without one the torrent is fetched first, and its task entered.
UseTask(c, k, i) ==
  LET o == Request(k, NoHash, i) IN
  Begins(c, IF TaskByID(i) # {} THEN Use(o) ELSE Ask(o, "find"))

Control(c, i)     == UseTask(c, "control", i)
UpdateFiles(c, i) == UseTask(c, "files", i)
Peers(c, i)       == UseTask(c, "peers", i)

BeginRequest(c) ==
  \/ \E h \in Hashes : Add(c, h)
  \/ ListTasks(c)
  \/ \E i \in Ids :
       \/ GetTask(c, i) \/ MagnetLink(c, i) \/ Delete(c, i)
       \/ Control(c, i) \/ UpdateFiles(c, i) \/ Peers(c, i)

----------------------------------------------------------------------------
\* Remote calls.

\* A new attempt of a call, with the session id there is at the moment.
Send(c) ==
  /\ op[c].net = "send"
  /\ op' = [op EXCEPT ![c] = [@ EXCEPT !.net = "sent", !.token = sessionID]]
  /\ UNCHANGED <<daemon, sessionID, table, events, limited, alone, declined, excused>>

Refuse(c) ==
  /\ op[c].net = "sent" /\ op[c].token # boot
  /\ op' = [op EXCEPT ![c] = [@ EXCEPT !.net = "refused", !.token = boot]]
  /\ UNCHANGED <<daemon, sessionID, table, events, limited, alone, declined, excused>>

\* A call on a task has been made, whatever came of it.
AfterUse(o) ==
  IF o.kind = "peers" THEN Return(o, "ok")
  ELSE [Ask(o, "get") EXCEPT !.held = FALSE]

\* Mutant: so is the error of any removal.
AfterErrorSwallowed(o) ==
  CASE o.step = "hello"  -> Ask(o, "hello again")
    [] o.step = "undo"   -> Return(o, "conflict")
    [] o.step = "set" /\ o.kind # "files" -> AfterUse(o)
    [] o.step = "remove" -> Return(o, "ok")
    [] OTHER             -> Return(o, "unavailable")

\* The call has failed.  The error of a call on a task is not looked at, but
\* for its files, nor is that of the removal of a torrent just added; a daemon
\* that does not know the first call is asked again.
AfterError(o) ==
  CASE o.step = "hello" -> Ask(o, "hello again")
    [] o.step = "undo"  -> Return(o, "conflict")
    [] o.step = "set" /\ o.kind # "files" -> AfterUse(o)
    [] OTHER            -> Return(o, "unavailable")

\* Mutant: the session id of the refusal is not kept.
RetryForgetful(c) ==
  /\ op[c].net = "refused"
  /\ op' = [op EXCEPT ![c] = IF @.tries = 2 THEN AfterError(@)
              ELSE [@ EXCEPT !.net = "send", !.tries = op[c].tries + 1, !.token = 0]]
  /\ UNCHANGED <<daemon, sessionID, table, events, limited, alone, declined, excused>>

\* The session id of a refusal is kept for all calls; the third one is final.
Retry(c) ==
  /\ op[c].net = "refused"
  /\ sessionID' = op[c].token
  /\ op' = [op EXCEPT ![c] = IF @.tries = 2 THEN AfterError(@)
              ELSE [@ EXCEPT !.net = "send", !.tries = op[c].tries + 1, !.token = 0]]
  /\ UNCHANGED <<daemon, table, events, limited, alone, declined, excused>>

\* What the daemon does for a call.
Execute(c) ==
  LET o == op[c] IN
  CASE o.step = "add" /\ torrents[o.hash] = 0 ->
         /\ torrents' = [torrents EXCEPT ![o.hash] = nextId]
         /\ nextId' = nextId + 1
         /\ UNCHANGED <<boot, excused>>
    [] o.step \in {"undo", "remove"} ->
         LET gone == {h \in Hashes : torrents[h] = o.id} IN
         /\ torrents' = [h \in Hashes |-> IF h \in gone THEN 0 ELSE torrents[h]]
         /\ excused' = IF alone = c THEN excused ELSE excused \cup gone
         /\ UNCHANGED <<boot, nextId>>
    [] OTHER -> UNCHANGED <<daemon, excused>>

\* What its reply makes of the request.
Replied(o, got, duplicate) ==
  [o EXCEPT !.net = "reply", !.tries = 0, !.token = 0, !.got = got,
            !.duplicate = duplicate]

\* Of a torrent by its number: its files before they are set, or its link.
Looked(o) ==
  IF \A h \in Hashes : torrents[h] # o.id THEN Return(o, "not found")
  ELSE IF o.step = "link" THEN Return(o, "ok") ELSE Ask(o, "set")

Answered(o) ==
  CASE o.step = "add" ->
         LET new == torrents[o.hash] = 0 IN
         Replied(o, [None EXCEPT ![o.hash] = IF new THEN nextId
                                          ELSE torrents[o.hash]],
                 ~new)
    [] o.step \in {"get", "find", "files"} ->
         Replied(o, [h \in Hashes |-> IF torrents[h] = o.id THEN o.id ELSE 0], FALSE)
    [] o.step \in {"list", "load"} -> Replied(o, torrents, FALSE)
    [] o.step = "undo"     -> Return(o, "conflict")
    [] o.step = "set"      -> AfterUse(o)
    [] o.step \in {"look", "link"} -> Looked(o)
    [] o.step = "remove"   -> Return(o, "ok")
    [] o.step = "settings" -> Ask(o, "load")
    [] OTHER               -> Ask(o, "settings")

Answer(c) ==
  /\ op[c].net = "sent" /\ op[c].token = boot
  /\ Execute(c)
  /\ op' = [op EXCEPT ![c] = Answered(@)]
  /\ UNCHANGED <<sessionID, table, events, limited, alone, declined>>

\* Something happens that is not the gateway's doing.
Happens == events < MaxEvents /\ events' = events + 1

\* The connection breaks before or after the daemon has done its part.
Break(c) ==
  /\ op[c].net = "sent"
  /\ Happens
  /\ \/ UNCHANGED <<daemon, excused>>
     \/ op[c].token = boot /\ Execute(c)
  /\ op' = [op EXCEPT ![c] = AfterError(@)]
  /\ UNCHANGED <<sessionID, table, limited, alone, declined>>

\* The daemon answers a torrent-remove with a failure, and keeps the torrent.
\* RemoveByID does not look at the result; that of any other call is an error
\* like a broken connection (callInto, add).
Decline(c) ==
  /\ op[c].net = "sent" /\ op[c].token = boot /\ op[c].step = "remove"
  /\ Happens
  /\ op' = [op EXCEPT ![c] = Return(@, "ok")]
  /\ declined' = TRUE
  /\ UNCHANGED <<daemon, sessionID, table, limited, alone, excused>>

----------------------------------------------------------------------------
\* What is done with a reply, each a critical section of the engine.

\* reloadTasks: the table of a new engine, which is then attached.
LoadTable(c) ==
  /\ op[c].step = "load" /\ op[c].net = "reply"
  /\ tasks' = op[c].got
  /\ attached' = TRUE
  /\ op' = [op EXCEPT ![c] = Return(@, "ok")]
  /\ UNCHANGED <<daemon, sessionID, events, limited, alone, declined, excused>>

\* add enters the new torrent.  An entry with another number stays, and the
\* new torrent is removed; an entry with the same number is a conflict too.
Register(c) ==
  LET o == op[c]  h == o.hash  i == o.got[h] IN
  /\ o.step = "add" /\ o.net = "reply" /\ ~o.duplicate
  /\ IF tasks[h] = 0
       THEN /\ tasks' = [tasks EXCEPT ![h] = i]
            /\ op' = [op EXCEPT ![c] =
                        Ask([o EXCEPT !.id = i, !.held = TRUE], "set")]
       ELSE /\ op' = [op EXCEPT ![c] =
                        IF tasks[h] = i THEN Return(o, "conflict")
                        ELSE Ask([o EXCEPT !.id = i], "undo")]
            /\ UNCHANGED tasks
  /\ UNCHANGED <<daemon, sessionID, attached, events, limited, alone, declined, excused>>

\* An old daemon reports a duplicate without saying which.
UnnamedDuplicate(c) ==
  /\ op[c].step = "add" /\ op[c].net = "reply" /\ op[c].duplicate
  /\ op' = [op EXCEPT ![c] = Return(@, "conflict")]
  /\ UNCHANGED <<daemon, sessionID, table, events, limited, alone, declined, excused>>

Enters(o) ==
  /\ o.net = "reply"
  /\ o.step \in {"get", "find", "files", "list"} \/ (o.step = "add" /\ o.duplicate)

\* What becomes of the requests when the task of h gets number i.
Entered(c, h, i) ==
  [d \in Callers |->
     IF d = c THEN [op[c] EXCEPT !.got[h] = 0, !.found = TRUE,
                      !.hash = IF op[c].kind = "delete" THEN h ELSE @]
     ELSE IF op[d].held /\ op[d].hash = h THEN [op[d] EXCEPT !.id = i]
     ELSE op[d]]

\* Mutant: the number of an entry stays what it is.
EnsureTaskOnce(c, h) ==
  LET i == op[c].got[h] IN
  /\ Enters(op[c]) /\ i # 0
  /\ tasks' = [tasks EXCEPT ![h] = IF @ = 0 THEN i ELSE @]
  /\ op' = Entered(c, h, tasks'[h])
  /\ UNCHANGED <<daemon, sessionID, attached, events, limited, alone, declined, excused>>

\* ensureTask, for one torrent of the reply.
EnsureTask(c, h) ==
  LET i == op[c].got[h] IN
  /\ Enters(op[c]) /\ i # 0
  /\ tasks' = [tasks EXCEPT ![h] = i]
  /\ op' = Entered(c, h, i)
  /\ UNCHANGED <<daemon, sessionID, attached, events, limited, alone, declined, excused>>

\* Where a request goes from a reply that is entered.
Finished(o) ==
  IF o.step = "add" THEN Return(o, "conflict")
  ELSE IF o.step = "list" THEN Return(o, "ok")
  ELSE IF ~o.found THEN Return(o, "not found")
  ELSE CASE o.step = "find" -> IF TaskByID(o.id) # {} THEN Use(o)
                               ELSE Return(o, "unavailable")
         [] o.step = "files" -> Ask(o, "look")
         [] o.step = "get" /\ o.kind = "delete" ->
              [o EXCEPT !.step = "drop", !.net = "none"]
         [] OTHER -> Return(o, "ok")

Finish(c) ==
  /\ Enters(op[c]) /\ op[c].got = None
  /\ op' = [op EXCEPT ![c] = Finished(@)]
  /\ UNCHANGED <<daemon, sessionID, table, events, limited, alone, declined, excused>>

\* Mutant: the entry is left to the next listing.
DropNothing(c) ==
  /\ op[c].step = "drop"
  /\ op' = [op EXCEPT ![c] = Ask(@, "remove")]
  /\ UNCHANGED <<daemon, sessionID, table, events, limited, alone, declined, excused>>

\* RemoveByID drops one entry that has the number, then asks the daemon.
Drop(c) ==
  /\ op[c].step = "drop"
  /\ \/ \E h \in TaskByID(op[c].id) :
          /\ tasks' = [tasks EXCEPT ![h] = 0]
          /\ op' = [d \in Callers |->
                      IF d = c THEN Ask(op[c], "remove")
                      ELSE IF op[d].hash = h THEN [op[d] EXCEPT !.held = FALSE]
                      ELSE op[d]]
     \/ /\ TaskByID(op[c].id) = {}
        /\ op' = [op EXCEPT ![c] = Ask(@, "remove")]
        /\ UNCHANGED tasks
  /\ UNCHANGED <<daemon, sessionID, attached, events, limited, alone, declined, excused>>

----------------------------------------------------------------------------
\* The world.

\* Another client adds a torrent, or removes one.
AddElsewhere(h) ==
  /\ Room /\ torrents[h] = 0 /\ Happens
  /\ torrents' = [torrents EXCEPT ![h] = nextId]
  /\ nextId' = nextId + 1
  /\ alone' = Nobody
  /\ UNCHANGED <<boot, sessionID, table, op, limited, declined, excused>>

RemoveElsewhere(h) ==
  /\ torrents[h] # 0 /\ Happens
  /\ torrents' = [torrents EXCEPT ![h] = 0]
  /\ alone' = Nobody
  /\ excused' = excused \cup {h}
  /\ UNCHANGED <<boot, nextId, sessionID, table, op, limited, declined>>

\* The daemon restarts: a new session id, and its torrents numbered anew.
Restart ==
  LET there == {h \in Hashes : torrents[h] # 0}
      n     == Cardinality(there) IN
  /\ Happens
  /\ boot' = boot + 1
  /\ torrents' \in [Hashes -> 0..n]
  /\ \A h \in Hashes : torrents'[h] = 0 <=> h \notin there
  /\ \A g, h \in there : torrents'[g] = torrents'[h] => g = h
  /\ nextId' = n + 1
  /\ alone' = Nobody
  /\ excused' = Hashes
  /\ UNCHANGED <<sessionID, table, op, limited, declined>>

\* The settings, or a reload, set the limit or take it away.
SetLimit ==
  /\ limited' = ~limited
  /\ UNCHANGED <<daemon, sessionID, table, op, events, alone, declined, excused>>

----------------------------------------------------------------------------
Step(c) ==
  \/ Send(c) \/ Refuse(c) \/ Retry(c) \/ Answer(c)
  \/ Break(c) \/ Decline(c)
  \/ LoadTable(c) \/ Register(c) \/ UnnamedDuplicate(c)
  \/ \E h \in Hashes : EnsureTask(c, h)
  \/ Finish(c) \/ Drop(c)

World ==
  \/ \E h \in Hashes : AddElsewhere(h) \/ RemoveElsewhere(h)
  \/ Restart

\* enforceSeedRatio: without a limit the watch lists nothing.
WatchLists == limited /\ ListTasks(Watch)

Next ==
  \/ \E c \in Callers : Step(c)
  \/ \E c \in Requests : BeginRequest(c)
  \/ WatchLists
  \/ World \/ SetLimit

\* Goroutines run, calls end (the HTTP client has a timeout), and the watch
\* ticks for ever.  The world, browsers and settings owe nothing.
Fairness ==
  /\ \A c \in Callers : WF_vars(Step(c))
  /\ WF_vars(WatchLists)

Spec == Init /\ [][Next]_vars /\ Fairness

----------------------------------------------------------------------------
\* Properties.

\* The types of the state.
TypeOK ==
  /\ boot \in 1..(MaxEvents + 1)
  /\ torrents \in [Hashes -> 0..MaxId]
  /\ nextId \in 1..(MaxId + 1)
  /\ sessionID \in 0..(MaxEvents + 1)
  /\ tasks \in [Hashes -> 0..MaxId]
  /\ attached \in BOOLEAN
  /\ op \in [Callers -> Op]
  /\ events \in 0..MaxEvents
  /\ limited \in BOOLEAN
  /\ alone \in Callers \cup {Nobody}
  /\ declined \in BOOLEAN
  /\ excused \subseteq Hashes

\* An entry of the table is a torrent of the daemon, under its number, unless
\* that torrent was removed by another client, or by a request that another
\* one overlapped, or the daemon has restarted: there is no other way to an
\* entry without a torrent, which every later add of the torrent would fail
\* on (add, ensureTask, RemoveByID).
EntriesAreTorrents ==
  \A h \in Hashes \ excused : tasks[h] \in {0, torrents[h]}

\* A request that nothing else happened beside, a failure of a call aside,
\* returned what is so: add leaves the torrent and its entry, or reports a
\* conflict with a torrent that is there, or with the entry of one that was
\* removed as above; Delete leaves neither torrent nor entry, but for the
\* torrent of a removal the daemon declined, which is answered the same.
LoneCallsAreHonest ==
  \A c \in Callers :
    LET o == op[c] IN
    (alone = c /\ ~Busy(c)) =>
      /\ (o.kind = "add" /\ o.result = "ok") =>
           torrents[o.hash] # 0 /\ tasks[o.hash] = torrents[o.hash]
      /\ (o.kind = "add" /\ o.result = "conflict") =>
           torrents[o.hash] # 0 \/ o.hash \in excused
      /\ (o.kind = "delete" /\ o.result = "ok") =>
           /\ torrents[o.hash] = 0 \/ declined
           /\ tasks[o.hash] = 0 \/ o.hash \in excused

\* A call is refused three times, and so given up, only if the daemon has
\* restarted since the engine was made, however many calls share and
\* overwrite the session id (callResult).
GivesUpOnlyAfterRestart ==
  \A c \in Callers : (op[c].net = "refused" /\ op[c].tries = 2) => boot > 1

\* While there is a seed ratio limit, for which the watch lists, or browsers
\* list again and again, the listings see to it that every torrent has its entry
\* with the right number once the other clients and the daemon are quiet,
\* whatever stale replies were entered before (enforceSeedRatio, ListRemote,
\* ensureTask).
Listed == \E c \in Callers : op[c].step = "list"

TableCatchesUp ==
  (<>[]limited \/ []<>Listed) =>
    <>[](attached => \A h \in Hashes : torrents[h] # 0 => tasks[h] = torrents[h])
=============================================================================
