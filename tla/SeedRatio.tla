------------------------------ MODULE SeedRatio ------------------------------
(***************************************************************************)
(* The seed ratio limit of the BT service (internal/bt/service.go,         *)
(* control.go, transmission.go).  Every few seconds the watch lists the    *)
(* torrents, stops the upload of those that have reached the limit and     *)
(* marks them as paused by it, and releases the marked ones when the limit *)
(* is lifted.  Requests resume torrents and read and change the limit      *)
(* meanwhile; every call to transmission-daemon may fail, with or without  *)
(* having had its effect, and the process may crash.                       *)
(*                                                                         *)
(* Ratios and limits are small numbers; ratio 0 stands for every torrent   *)
(* below all limits, an incomplete one included: neither is ever marked.   *)
(* The torrents stay at the daemon.                                        *)
(***************************************************************************)
EXTENDS Naturals

CONSTANTS
  Torrents,    \* the torrents at the daemon
  Callers,     \* the requests that may be under way together
  NoTorrent,   \* no torrent
  Limits,      \* bound: the limits that may be set; 0 is none
  MaxRatio,    \* bound: the largest ratio
  MaxFailures  \* bound: how many calls fail and crashes happen

ASSUME SeedRatioAssumption ==
  /\ NoTorrent \notin Torrents
  /\ Limits \subseteq Nat /\ 0 \in Limits
  /\ MaxRatio \in Nat /\ MaxFailures \in Nat

VARIABLES
  limit,    \* s.seedRatioLimit
  marked,   \* s.seedPaused
  hold,     \* uploadHold of each task
  watch,    \* watchSeedRatio
  op,       \* the request of each caller
  session,  \* daemon: the limit of its session
  running,  \* daemon: the torrents that are started
  limited,  \* daemon: the torrents whose upload is stopped
  ratio,    \* daemon: the ratio of each torrent
  failures, \* the number of failures so far
  settled,  \* history: the limit was last read or changed by a request alone
  forgotten \* history: the torrents whose upload stayed stopped when a crash,
            \* a failed release or a Resume took their mark

daemon == <<session, running, limited, ratio>>
vars == <<limit, marked, hold, watch, op, daemon, failures, settled, forgotten>>

\* What the watch has yet to do: the torrents it listed at or over the limit,
\* those it listed under it, and those whose mark it took, to release them.
Watch == [pc : {"off", "ready", "clear", "list", "limit", "mark", "unlimit"},
          torrent : Torrents \cup {NoTorrent}, limit : Limits,
          over : SUBSET Torrents, under : SUBSET Torrents,
          free : SUBSET Torrents]

Off == [pc |-> "off", torrent |-> NoTorrent, limit |-> 0,
        over |-> {}, under |-> {}, free |-> {}]

\* last: the PauseUpload under way is the one before the mark.
\* alone: no other request for the settings has been under way with this one.
Op == [kind : {"none", "get", "put", "attach", "resume"},
       pc : {"idle", "apply", "read", "store",
             "start", "check", "hold", "limit", "stats", "mark"},
       torrent : Torrents \cup {NoTorrent}, limit : Limits,
       last : BOOLEAN, alone : BOOLEAN]

Idle == [kind |-> "none", pc |-> "idle", torrent |-> NoTorrent, limit |-> 0,
         last |-> FALSE, alone |-> FALSE]

At(c, pc) == op[c].pc = pc
InSettings(c) == op[c].kind \in {"get", "put", "attach"}

Over(t, l) == l > 0 /\ ratio[t] >= l

\* A call to the daemon that does what effect says; it may fail all the same.
MayFail ==
  \/ UNCHANGED failures
  \/ failures < MaxFailures /\ failures' = failures + 1

Fail == failures < MaxFailures /\ failures' = failures + 1

----------------------------------------------------------------------------
\* The engine has just been attached, and its settings are being read.
Attaching(o) ==
  \E c \in Callers :
    o = [d \in Callers |->
           IF d = c THEN [Idle EXCEPT !.kind = "attach", !.pc = "read",
                                      !.alone = TRUE]
                    ELSE Idle]

Init ==
  /\ limit = 0
  /\ marked = {}
  /\ hold = [t \in Torrents |-> FALSE]
  /\ watch = Off
  /\ Attaching(op)
  /\ session \in Limits
  /\ running \in SUBSET Torrents
  /\ limited = {}
  /\ ratio = [t \in Torrents |-> 0]
  /\ failures = 0
  /\ settled = FALSE
  /\ forgotten = {}

----------------------------------------------------------------------------
\* The watch.

\* Mutant: without a limit there is nothing to do.
TickOnlyLimited ==
  /\ watch.pc = "ready"
  /\ watch.over = {} /\ watch.under = {} /\ watch.free = {}
  /\ limit > 0
  /\ watch' = [watch EXCEPT !.pc = "list", !.limit = limit]
  /\ UNCHANGED <<limit, marked, hold, op, daemon, failures, settled, forgotten>>

\* A tick: the limit is read, and what follows goes by it.
Tick ==
  /\ watch.pc = "ready"
  /\ watch.over = {} /\ watch.under = {} /\ watch.free = {}
  /\ watch' = [watch EXCEPT !.pc = IF limit = 0 THEN "clear" ELSE "list",
                            !.limit = limit]
  /\ UNCHANGED <<limit, marked, hold, op, daemon, failures, settled, forgotten>>

\* clearSeedPauses takes all marks, to release the torrents that had one.
Clear ==
  /\ watch.pc = "clear"
  /\ watch' = [watch EXCEPT !.pc = "ready", !.free = marked]
  /\ marked' = {}
  /\ UNCHANGED <<limit, hold, op, daemon, failures, settled, forgotten>>

\* Mutant: a torrent that has its mark is taken to be stopped.
ListUnmarked ==
  /\ watch.pc = "list"
  /\ \/ /\ watch' = [watch EXCEPT
                       !.pc = "ready", !.limit = 0,
                       !.over = {t \in running \ marked : Over(t, watch.limit)},
                       !.under = {t \in running : ~Over(t, watch.limit)}]
        /\ UNCHANGED failures
     \/ Fail /\ watch' = [watch EXCEPT !.pc = "ready", !.limit = 0]
  /\ UNCHANGED <<limit, marked, hold, op, daemon, settled, forgotten>>

\* ListRemote; torrents that are stopped are passed over.
List ==
  /\ watch.pc = "list"
  /\ \/ /\ watch' = [watch EXCEPT
                       !.pc = "ready", !.limit = 0,
                       !.over = {t \in running : Over(t, watch.limit)},
                       !.under = {t \in running : ~Over(t, watch.limit)}]
        /\ UNCHANGED failures
     \/ Fail /\ watch' = [watch EXCEPT !.pc = "ready", !.limit = 0]
  /\ UNCHANGED <<limit, marked, hold, op, daemon, settled, forgotten>>

\* A torrent at the limit: PauseUpload sets uploadHold ...
WatchHold(t) ==
  /\ watch.pc = "ready" /\ watch.free = {}
  /\ t \in watch.over
  /\ hold' = [hold EXCEPT ![t] = TRUE]
  /\ watch' = [watch EXCEPT !.pc = "limit", !.torrent = t, !.over = @ \ {t}]
  /\ UNCHANGED <<limit, marked, op, daemon, failures, settled, forgotten>>

\* ... and calls the daemon, whose answer is not looked at ...
WatchLimit ==
  /\ watch.pc = "limit"
  /\ \/ limited' = limited \cup {watch.torrent} /\ MayFail
     \/ Fail /\ UNCHANGED limited
  /\ watch' = [watch EXCEPT !.pc = "mark"]
  /\ UNCHANGED <<limit, marked, hold, op, session, running, ratio, settled,
                 forgotten>>

\* ... and the torrent is marked.
WatchMark ==
  /\ watch.pc = "mark"
  /\ marked' = marked \cup {watch.torrent}
  /\ forgotten' = forgotten \ {watch.torrent}
  /\ watch' = [watch EXCEPT !.pc = "ready", !.torrent = NoTorrent]
  /\ UNCHANGED <<limit, hold, op, daemon, failures, settled>>

\* Mutant: the mark goes and the upload is not released.
UnmarkOnly(t) ==
  /\ watch.pc = "ready" /\ watch.free = {}
  /\ t \in watch.under
  /\ watch' = [watch EXCEPT !.under = @ \ {t}]
  /\ marked' = marked \ {t}
  /\ UNCHANGED <<limit, hold, op, daemon, failures, settled, forgotten>>

\* A torrent under the limit: when it had a mark it is to be released.
Unmark(t) ==
  /\ watch.pc = "ready" /\ watch.free = {}
  /\ t \in watch.under
  /\ watch' = [watch EXCEPT !.under = @ \ {t}, !.free = marked \cap {t}]
  /\ marked' = marked \ {t}
  /\ UNCHANGED <<limit, hold, op, daemon, failures, settled, forgotten>>

\* ResumeUpload clears uploadHold ...
WatchRelease(t) ==
  /\ watch.pc = "ready"
  /\ t \in watch.free
  /\ hold' = [hold EXCEPT ![t] = FALSE]
  /\ watch' = [watch EXCEPT !.pc = "unlimit", !.torrent = t, !.free = @ \ {t}]
  /\ UNCHANGED <<limit, marked, op, daemon, failures, settled, forgotten>>

\* ... and calls the daemon, whose answer is not looked at.
WatchUnlimit ==
  /\ watch.pc = "unlimit"
  /\ \/ /\ limited' = limited \ {watch.torrent}
        /\ forgotten' = forgotten \ {watch.torrent}
        /\ MayFail
     \/ /\ Fail
        /\ forgotten' = forgotten \cup ({watch.torrent} \cap limited)
        /\ UNCHANGED limited
  /\ watch' = [watch EXCEPT !.pc = "ready", !.torrent = NoTorrent]
  /\ UNCHANGED <<limit, marked, hold, op, session, running, ratio, settled>>

----------------------------------------------------------------------------
\* Resume.

\* Resume takes the torrent's mark and reads the limit.
Resume(c, t) ==
  /\ At(c, "idle")
  /\ marked' = marked \ {t}
  /\ forgotten' = forgotten \cup ({t} \cap limited)
  /\ op' = [op EXCEPT ![c] = [Idle EXCEPT !.kind = "resume", !.pc = "start",
                                          !.torrent = t, !.limit = limit]]
  /\ UNCHANGED <<limit, hold, watch, daemon, failures, settled>>

\* It starts the torrent at the daemon ...
Start(c) ==
  /\ At(c, "start")
  /\ \/ running' = running \cup {op[c].torrent} /\ MayFail
     \/ Fail /\ UNCHANGED running
  /\ op' = [op EXCEPT ![c].pc = "check"]
  /\ UNCHANGED <<limit, marked, hold, watch, session, limited, ratio, settled,
                 forgotten>>

\* ... and looks at uploadHold: when it is set PauseUpload follows.
Check(c) ==
  /\ At(c, "check")
  /\ op' = [op EXCEPT ![c].pc = IF hold[op[c].torrent] THEN "hold" ELSE "stats"]
  /\ UNCHANGED <<limit, marked, hold, watch, daemon, failures, settled,
                 forgotten>>

\* With a limit, the torrent's numbers are fetched and compared with it.
Stats(c) ==
  /\ At(c, "stats")
  /\ \/ /\ Over(op[c].torrent, op[c].limit)
        /\ op' = [op EXCEPT ![c] = [@ EXCEPT !.pc = "hold", !.last = TRUE]]
        /\ UNCHANGED failures
     \/ /\ ~Over(op[c].torrent, op[c].limit)
        /\ op' = [op EXCEPT ![c] = Idle]
        /\ UNCHANGED failures
     \/ /\ op[c].limit > 0
        /\ Fail
        /\ op' = [op EXCEPT ![c] = Idle]
  /\ UNCHANGED <<limit, marked, hold, watch, daemon, settled, forgotten>>

\* PauseUpload sets uploadHold ...
ResumeHold(c) ==
  /\ At(c, "hold")
  /\ hold' = [hold EXCEPT ![op[c].torrent] = TRUE]
  /\ op' = [op EXCEPT ![c].pc = "limit"]
  /\ UNCHANGED <<limit, marked, watch, daemon, failures, settled, forgotten>>

\* ... and calls the daemon.
ResumeLimit(c) ==
  /\ At(c, "limit")
  /\ \/ /\ limited' = limited \cup {op[c].torrent}
        /\ forgotten' = IF op[c].last THEN forgotten
                        ELSE forgotten \cup ({op[c].torrent} \ marked)
        /\ MayFail
     \/ Fail /\ UNCHANGED <<limited, forgotten>>
  /\ op' = [op EXCEPT ![c].pc = IF op[c].last THEN "mark" ELSE "stats"]
  /\ UNCHANGED <<limit, marked, hold, watch, session, running, ratio, settled>>

\* The torrent is marked.
ResumeMark(c) ==
  /\ At(c, "mark")
  /\ marked' = marked \cup {op[c].torrent}
  /\ forgotten' = forgotten \ {op[c].torrent}
  /\ op' = [op EXCEPT ![c] = Idle]
  /\ UNCHANGED <<limit, hold, watch, daemon, failures, settled>>

----------------------------------------------------------------------------
\* The settings.

\* op with a new request for the settings by c: none of them is alone.
Joined(c, o) ==
  [d \in Callers |-> IF d = c THEN [o EXCEPT !.alone = \A e \in Callers :
                                                         ~InSettings(e)]
                              ELSE [op[d] EXCEPT !.alone = FALSE]]

\* A request for the settings has come to its end; it brings them in step when
\* ok.  The watch starts once the engine's settings have been read.
Finish(c, ok) ==
  /\ op' = [op EXCEPT ![c] = Idle]
  /\ settled' = (settled \/ (ok /\ op[c].alone))
  /\ watch' = IF op[c].kind = "attach" THEN [watch EXCEPT !.pc = "ready"]
                                       ELSE watch

\* Mutant: the limit here is left to what is read back.
UpdateRemoteOnly(c, l) ==
  /\ At(c, "idle")
  /\ op' = Joined(c, [Idle EXCEPT !.kind = "put", !.pc = "apply", !.limit = l])
  /\ settled' = FALSE
  /\ UNCHANGED <<limit, marked, hold, watch, daemon, failures, forgotten>>

\* UpdateSettings sets the limit here (or leaves it, when the request does not
\* give one) ...
UpdateSettings(c, l) ==
  /\ At(c, "idle")
  /\ limit' = l
  /\ op' = Joined(c, [Idle EXCEPT !.kind = "put", !.pc = "apply", !.limit = l])
  /\ settled' = FALSE
  /\ UNCHANGED <<marked, hold, watch, daemon, failures, forgotten>>

\* ... and then at the daemon; when that fails the limit here stays.
Apply(c) ==
  /\ At(c, "apply")
  /\ \/ /\ session' = op[c].limit
        /\ op' = [op EXCEPT ![c] = [@ EXCEPT !.pc = "read", !.limit = 0]]
        /\ UNCHANGED <<failures, settled, watch>>
     \/ /\ session' \in {session, op[c].limit}
        /\ Fail
        /\ Finish(c, FALSE)
  /\ UNCHANGED <<limit, marked, hold, running, limited, ratio, forgotten>>

\* A request that only reads the settings: GET, or a reload (ApplyConfig).
GetSettings(c) ==
  /\ At(c, "idle")
  /\ op' = Joined(c, [Idle EXCEPT !.kind = "get", !.pc = "read"])
  /\ UNCHANGED <<limit, marked, hold, watch, daemon, failures, settled,
                 forgotten>>

\* The session's limit is read from the daemon; an error ends the request,
\* well for one that has just changed it.
Read(c) ==
  /\ At(c, "read")
  /\ \/ /\ op' = [op EXCEPT ![c] = [@ EXCEPT !.pc = "store", !.limit = session]]
        /\ UNCHANGED <<failures, settled, watch>>
     \/ Fail /\ Finish(c, op[c].kind = "put")
  /\ UNCHANGED <<limit, marked, hold, daemon, forgotten>>

\* What was read becomes the limit here.
Store(c) ==
  /\ At(c, "store")
  /\ limit' = op[c].limit
  /\ Finish(c, TRUE)
  /\ UNCHANGED <<marked, hold, daemon, failures, forgotten>>

----------------------------------------------------------------------------
\* The daemon, and the process.

\* A torrent uploads.
Upload(t) ==
  /\ t \in running \ limited
  /\ ratio[t] < MaxRatio
  /\ ratio' = [ratio EXCEPT ![t] = @ + 1]
  /\ UNCHANGED <<limit, marked, hold, watch, op, session, running, limited,
                 failures, settled, forgotten>>

\* A torrent is stopped: by Pause, by another client, by the daemon itself.
Pause(t) ==
  /\ t \in running
  /\ running' = running \ {t}
  /\ UNCHANGED <<limit, marked, hold, watch, op, session, limited, ratio,
                 failures, settled, forgotten>>

\* The process dies and is started again: the marks and the holds are gone,
\* the daemon has kept everything.
Restart ==
  /\ Fail
  /\ limit' = 0
  /\ marked' = {}
  /\ hold' = [t \in Torrents |-> FALSE]
  /\ watch' = Off
  /\ Attaching(op')
  /\ settled' = FALSE
  /\ forgotten' = limited
  /\ UNCHANGED daemon

WatchStep ==
  \/ Tick \/ Clear \/ List \/ WatchLimit \/ WatchMark \/ WatchUnlimit
  \/ \E t \in Torrents : WatchHold(t) \/ Unmark(t) \/ WatchRelease(t)

RequestStep(c) ==
  \/ Start(c) \/ Check(c) \/ Stats(c) \/ ResumeHold(c) \/ ResumeLimit(c)
  \/ ResumeMark(c)
  \/ Apply(c) \/ Read(c) \/ Store(c)

Next ==
  \/ WatchStep
  \/ \E c \in Callers :
       \/ RequestStep(c)
       \/ \E t \in Torrents : Resume(c, t)
       \/ \E l \in Limits : UpdateSettings(c, l)
       \/ GetSettings(c)
  \/ \E t \in Torrents : Upload(t) \/ Pause(t)
  \/ Restart

\* The watch and the requests go on; calls to the daemon have a timeout.
Fairness == WF_vars(WatchStep) /\ \A c \in Callers : WF_vars(RequestStep(c))

Spec == Init /\ [][Next]_vars /\ Fairness

----------------------------------------------------------------------------
\* Types.
TypeOK ==
  /\ limit \in Limits
  /\ marked \in SUBSET Torrents
  /\ hold \in [Torrents -> BOOLEAN]
  /\ watch \in Watch
  /\ op \in [Callers -> Op]
  /\ session \in Limits
  /\ running \in SUBSET Torrents /\ limited \in SUBSET Torrents
  /\ ratio \in [Torrents -> 0..MaxRatio]
  /\ failures \in 0..MaxFailures
  /\ settled \in BOOLEAN
  /\ forgotten \in SUBSET Torrents

\* t is about to be marked or released.
Pending(t) ==
  \/ t \in watch.free
  \/ watch.torrent = t /\ watch.pc \in {"mark", "unlimit"}
  \/ \E c \in Callers : op[c].torrent = t /\ At(c, "mark")

\* enforceSeedRatio, clearSeedPauses and Resume (service.go:503, control.go:22)
\* change the mark and the upload in different steps, and nothing but the mark
\* ever leads to a release.  Whatever their order, an upload that is stopped
\* has its mark, or will have it or be released by a step under way, unless a
\* crash, a failed release or a Resume of a torrent whose upload was stopped
\* has taken the mark away.
StoppedIsMarked ==
  \A t \in limited : t \in marked \/ t \in forgotten \/ Pending(t)

\* UpdateSettings (service.go:327) sets the limit here first, at the daemon
\* next and reads it back last, and Settings stores what it has read: after a
\* request that no other overlapped the two are the same, whatever was left by
\* earlier ones, and they stay so until the next change.
LimitIsTheSessions == settled => limit = session

\* When the limit is lifted for good the uploads the watch has stopped go on,
\* all but the forgotten ones.
LiftedLimitReleases ==
  <>[](limit = 0) => <>[](limited \subseteq forgotten)

\* A torrent that runs and stays at or over a limit does not upload for ever:
\* failed calls, restarts and other requests only delay the watch.
OverLimitIsStopped ==
  \A t \in Torrents :
    <>[](t \in running /\ Over(t, limit)) => <>[](t \in limited)
=============================================================================
