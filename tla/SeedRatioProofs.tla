-------------------------- MODULE SeedRatioProofs --------------------------
(***************************************************************************)
(* The invariants of SeedRatio, for any number of torrents, requests and   *)
(* failures.                                                               *)
(***************************************************************************)
EXTENDS SeedRatio, TLAPS

\* Whoever works on a torrent knows which.
TorrentKnown ==
  /\ watch.pc \in {"limit", "mark", "unlimit"} => watch.torrent \in Torrents
  /\ \A c \in Callers :
       op[c].pc \in {"start", "check", "hold", "limit", "stats", "mark"} =>
         op[c].torrent \in Torrents

\* A request is at a step of its kind.
StepsFit ==
  \A c \in Callers :
    /\ InSettings(c) <=> op[c].pc \in {"apply", "read", "store"}
    /\ At(c, "apply") => op[c].kind = "put"

\* The watch starts after the one request that reads the settings of the new
\* engine, and takes marks only when it has nothing left to release.
WatchWaits ==
  /\ \A c \in Callers : op[c].kind = "attach" =>
       /\ watch.pc = "off"
       /\ \A d \in Callers : op[d].kind = "attach" => d = c
  /\ watch.pc \in {"off", "clear", "list"} => watch.free = {}

\* What a request for the settings knows of the limit when it is alone, and
\* what one that is about to store still finds when the limits are settled.
SettingsKnown ==
  /\ \A c \in Callers : op[c].alone =>
       /\ InSettings(c)
       /\ \A d \in Callers : InSettings(d) => d = c
       /\ At(c, "apply") => op[c].limit = limit
       /\ At(c, "read") /\ op[c].kind = "put" => session = limit
       /\ At(c, "store") => op[c].limit = session
  /\ settled =>
       /\ limit = session
       /\ \A c \in Callers :
            /\ op[c].kind # "put"
            /\ At(c, "store") => op[c].limit = session

IInv == TypeOK /\ TorrentKnown /\ StepsFit /\ WatchWaits /\ SettingsKnown
        /\ StoppedIsMarked

----------------------------------------------------------------------------
LEMMA IdleIsOp == Idle \in Op /\ Idle.kind = "none" /\ Idle.pc = "idle"
                  /\ Idle.alone = FALSE
  BY SeedRatioAssumption DEF Idle, Op

LEMMA OffIsWatch == Off \in Watch /\ Off.pc = "off" /\ Off.free = {}
  BY SeedRatioAssumption DEF Off, Watch

LEMMA AttachingIsOp ==
  ASSUME NEW o, Attaching(o)
  PROVE  /\ o \in [Callers -> Op]
         /\ \E c \in Callers :
              /\ o[c].kind = "attach" /\ o[c].pc = "read" /\ o[c].alone
              /\ \A d \in Callers \ {c} : o[d] = Idle
  <1>. DEFINE A == [Idle EXCEPT !.kind = "attach", !.pc = "read",
                                !.alone = TRUE]
  <1>1. A \in Op /\ A.kind = "attach" /\ A.pc = "read" /\ A.alone
    BY SeedRatioAssumption DEF Idle, Op
  <1>2. PICK c \in Callers : o = [d \in Callers |-> IF d = c THEN A ELSE Idle]
    BY DEF Attaching
  <1>. HIDE DEF A
  <1>3. o[c] = A /\ \A d \in Callers \ {c} : o[d] = Idle
    BY <1>2
  <1>. QED
    BY <1>1, <1>2, <1>3, IdleIsOp

\* A request for the settings joins the others: none of them is alone.
LEMMA JoinedEffect ==
  ASSUME TypeOK, NEW c \in Callers, NEW o \in Op
  PROVE  LET j == Joined(c, o)
         IN  /\ j \in [Callers -> Op]
             /\ j[c].kind = o.kind /\ j[c].pc = o.pc
             /\ j[c].torrent = o.torrent /\ j[c].limit = o.limit
             /\ j[c].alone => \A d \in Callers : ~InSettings(d)
             /\ \A d \in Callers \ {c} :
                  /\ j[d].kind = op[d].kind /\ j[d].pc = op[d].pc
                  /\ j[d].torrent = op[d].torrent /\ j[d].limit = op[d].limit
                  /\ j[d].alone = FALSE
  <1>. DEFINE n == \A e \in Callers : ~InSettings(e)
              j == Joined(c, o)
  <1>1. n \in BOOLEAN
    OBVIOUS
  <1>2. j = [d \in Callers |-> IF d = c THEN [o EXCEPT !.alone = n]
                                        ELSE [op[d] EXCEPT !.alone = FALSE]]
    BY DEF Joined
  <1>. HIDE DEF n, j
  <1>3. j[c] = [o EXCEPT !.alone = n]
    BY <1>2
  <1>4. [o EXCEPT !.alone = n] \in Op /\ [o EXCEPT !.alone = n].alone = n
    BY <1>1 DEF Op
  <1>5. /\ j[c] \in Op /\ j[c].alone = n
        /\ j[c].kind = o.kind /\ j[c].pc = o.pc
        /\ j[c].torrent = o.torrent /\ j[c].limit = o.limit
    BY <1>3, <1>4 DEF Op
  <1>6. ASSUME NEW d \in Callers \ {c}
        PROVE  /\ j[d] \in Op
               /\ j[d].kind = op[d].kind /\ j[d].pc = op[d].pc
               /\ j[d].torrent = op[d].torrent /\ j[d].limit = op[d].limit
               /\ j[d].alone = FALSE
    <2>1. j[d] = [op[d] EXCEPT !.alone = FALSE] /\ op[d] \in Op
      BY <1>2, <1>6 DEF TypeOK
    <2>. QED
      BY <2>1 DEF Op
  <1>7. j \in [Callers -> Op]
    BY <1>2, <1>5, <1>6
  <1>. QED
    BY <1>5, <1>6, <1>7 DEF n, j

LEMMA UpdateEffect ==
  ASSUME TypeOK, NEW c \in Callers, NEW l \in Limits, UpdateSettings(c, l)
  PROVE  /\ op' \in [Callers -> Op]
         /\ op'[c].kind = "put" /\ op'[c].pc = "apply" /\ op'[c].limit = l
         /\ op'[c].alone => \A d \in Callers : ~InSettings(d)
         /\ \A d \in Callers \ {c} :
              /\ op'[d].kind = op[d].kind /\ op'[d].pc = op[d].pc
              /\ op'[d].torrent = op[d].torrent /\ op'[d].limit = op[d].limit
              /\ op'[d].alone = FALSE
  <1>. DEFINE o == [Idle EXCEPT !.kind = "put", !.pc = "apply", !.limit = l]
  <1>1. o \in Op /\ o.kind = "put" /\ o.pc = "apply" /\ o.limit = l
    BY SeedRatioAssumption DEF Idle, Op
  <1>2. op' = Joined(c, o)
    BY DEF UpdateSettings
  <1>. HIDE DEF o
  <1>. QED
    BY <1>1, <1>2, JoinedEffect

LEMMA GetEffect ==
  ASSUME TypeOK, NEW c \in Callers, GetSettings(c)
  PROVE  /\ op' \in [Callers -> Op]
         /\ op'[c].kind = "get" /\ op'[c].pc = "read"
         /\ op'[c].alone => \A d \in Callers : ~InSettings(d)
         /\ \A d \in Callers \ {c} :
              /\ op'[d].kind = op[d].kind /\ op'[d].pc = op[d].pc
              /\ op'[d].torrent = op[d].torrent /\ op'[d].limit = op[d].limit
              /\ op'[d].alone = FALSE
  <1>. DEFINE o == [Idle EXCEPT !.kind = "get", !.pc = "read"]
  <1>1. o \in Op /\ o.kind = "get" /\ o.pc = "read"
    BY SeedRatioAssumption DEF Idle, Op
  <1>2. op' = Joined(c, o)
    BY DEF GetSettings
  <1>. HIDE DEF o
  <1>. QED
    BY <1>1, <1>2, JoinedEffect

\* What Apply and Read do to a request.
LEMMA ApplyEffect ==
  ASSUME TypeOK, NEW c \in Callers, Apply(c)
  PROVE  /\ limit' = limit
         /\ settled' => settled
         /\ \/ op' = [op EXCEPT ![c] = Idle]
            \/ /\ session' = op[c].limit
               /\ op'[c].kind = op[c].kind /\ op'[c].alone = op[c].alone
               /\ op'[c].pc = "read"
  <1>1. CASE op' = [op EXCEPT ![c] = Idle]
    BY <1>1 DEF Apply, Finish, TypeOK
  <1>2. CASE op' # [op EXCEPT ![c] = Idle]
    <2>1. /\ session' = op[c].limit /\ settled' = settled
          /\ op' = [op EXCEPT ![c] = [op[c] EXCEPT !.pc = "read", !.limit = 0]]
      BY <1>2 DEF Apply, Finish
    <2>. QED
      BY <2>1 DEF Apply, TypeOK, Op
  <1>. QED
    BY <1>1, <1>2

LEMMA ReadEffect ==
  ASSUME TypeOK, NEW c \in Callers, Read(c)
  PROVE  /\ limit' = limit /\ session' = session
         /\ \/ /\ op' = [op EXCEPT ![c] = Idle]
               /\ settled' = (settled \/ (op[c].kind = "put" /\ op[c].alone))
            \/ /\ settled' = settled
               /\ op'[c].kind = op[c].kind /\ op'[c].alone = op[c].alone
               /\ op'[c].pc = "store" /\ op'[c].limit = session
  <1>0. limit' = limit /\ session' = session
    BY DEF Read, daemon
  <1>1. CASE op' = [op EXCEPT ![c] = [op[c] EXCEPT !.pc = "store",
                                                   !.limit = session]]
             /\ settled' = settled
    BY <1>0, <1>1 DEF TypeOK, Op
  <1>2. CASE Finish(c, op[c].kind = "put")
    BY <1>0, <1>2 DEF Finish
  <1>. QED
    BY <1>1, <1>2 DEF Read

\* A step of a request ends it, or leaves what it is and works on; the request
\* that has read the first settings starts the watch.
LEMMA StepEffect ==
  ASSUME TypeOK, NEW c \in Callers, RequestStep(c)
  PROVE  /\ \A d \in Callers \ {c} : op'[d] = op[d]
         /\ \/ op'[c] = Idle
            \/ /\ op'[c].kind = op[c].kind
               /\ op'[c].torrent = op[c].torrent
               /\ op'[c].alone = op[c].alone
         /\ \/ watch' = watch
            \/ /\ watch' = [watch EXCEPT !.pc = "ready"]
               /\ op[c].kind = "attach" /\ op'[c] = Idle
  <1>1. CASE Start(c) \/ Check(c) \/ ResumeHold(c) \/ ResumeLimit(c)
    BY <1>1 DEF Start, Check, ResumeHold, ResumeLimit, TypeOK, Op
  <1>2. CASE Stats(c)
    BY <1>2 DEF Stats, TypeOK, Op
  <1>3. CASE ResumeMark(c)
    BY <1>3 DEF ResumeMark, TypeOK
  <1>4. CASE Apply(c)
    <2>1. CASE op' = [op EXCEPT ![c] = Idle]
      BY <1>4, <2>1 DEF Apply, Finish, TypeOK
    <2>2. CASE op' = [op EXCEPT ![c] = [op[c] EXCEPT !.pc = "read",
                                                     !.limit = 0]]
      BY <1>4, <2>2 DEF Apply, Finish, TypeOK, Op
    <2>. QED
      BY <1>4, <2>1, <2>2 DEF Apply, Finish
  <1>5. CASE Read(c)
    BY <1>5 DEF Read, Finish, TypeOK, Op
  <1>6. CASE Store(c)
    BY <1>6 DEF Store, Finish, TypeOK
  <1>. QED
    BY <1>1, <1>2, <1>3, <1>4, <1>5, <1>6 DEF RequestStep

----------------------------------------------------------------------------
LEMMA FailureTypes ==
  ASSUME TypeOK, MayFail \/ Fail
  PROVE  failures' \in 0..MaxFailures
  BY SeedRatioAssumption DEF TypeOK, MayFail, Fail

LEMMA TypeStep == TypeOK /\ TorrentKnown /\ [Next]_vars => TypeOK'
<1>. SUFFICES ASSUME TypeOK, TorrentKnown, [Next]_vars PROVE TypeOK'
  OBVIOUS
<1>1. CASE Tick
  BY <1>1 DEF Tick, TypeOK, Watch, daemon
<1>2. CASE Clear
  BY <1>2 DEF Clear, TypeOK, Watch, daemon
<1>3. CASE List
  <2>. DEFINE over == {t \in running : Over(t, watch.limit)}
              under == {t \in running : ~Over(t, watch.limit)}
  <2>1. over \in SUBSET Torrents /\ under \in SUBSET Torrents
    BY DEF TypeOK
  <2>. HIDE DEF over, under
  <2>2. watch' \in Watch
    BY <1>3, <2>1, SeedRatioAssumption DEF List, TypeOK, Watch, over, under
  <2>3. failures' \in 0..MaxFailures
    BY <1>3, FailureTypes DEF List, MayFail
  <2>. QED
    BY <1>3, <2>2, <2>3 DEF List, TypeOK, daemon
<1>4. CASE WatchLimit
  <2>1. limited' \in SUBSET Torrents /\ failures' \in 0..MaxFailures
    BY <1>4, FailureTypes DEF WatchLimit, TypeOK, TorrentKnown
  <2>. QED
    BY <1>4, <2>1 DEF WatchLimit, TypeOK, Watch
<1>5. CASE WatchMark
  <2>1. marked' \in SUBSET Torrents
    BY <1>5 DEF WatchMark, TypeOK, TorrentKnown
  <2>. QED
    BY <1>5, <2>1 DEF WatchMark, TypeOK, Watch, daemon
<1>6. CASE WatchUnlimit
  <2>1. /\ limited' \in SUBSET Torrents /\ forgotten' \in SUBSET Torrents
        /\ failures' \in 0..MaxFailures
    BY <1>6, FailureTypes DEF WatchUnlimit, TypeOK
  <2>. QED
    BY <1>6, <2>1 DEF WatchUnlimit, TypeOK, Watch
<1>7. ASSUME NEW t \in Torrents, WatchHold(t) PROVE TypeOK'
  BY <1>7 DEF WatchHold, TypeOK, Watch, daemon
<1>8. ASSUME NEW t \in Torrents, Unmark(t) PROVE TypeOK'
  BY <1>8 DEF Unmark, TypeOK, Watch, daemon
<1>9. ASSUME NEW t \in Torrents, WatchRelease(t) PROVE TypeOK'
  BY <1>9 DEF WatchRelease, TypeOK, Watch, daemon
<1>10. ASSUME NEW c \in Callers, NEW t \in Torrents, Resume(c, t) PROVE TypeOK'
  BY <1>10 DEF Resume, Idle, TypeOK, Op, daemon
<1>11. ASSUME NEW c \in Callers, Start(c) PROVE TypeOK'
  <2>1. running' \in SUBSET Torrents /\ failures' \in 0..MaxFailures
    BY <1>11, FailureTypes DEF Start, At, TypeOK, TorrentKnown
  <2>. QED
    BY <1>11, <2>1 DEF Start, TypeOK, Op
<1>12. ASSUME NEW c \in Callers, Check(c) PROVE TypeOK'
  BY <1>12 DEF Check, TypeOK, Op, daemon
<1>13. ASSUME NEW c \in Callers, Stats(c) PROVE TypeOK'
  <2>1. failures' \in 0..MaxFailures
    BY <1>13, FailureTypes DEF Stats, MayFail
  <2>2. op' \in [Callers -> Op]
    <3>1. [op[c] EXCEPT !.pc = "hold", !.last = TRUE] \in Op
      BY DEF TypeOK, Op
    <3>2. \/ op' = [op EXCEPT ![c] =
                      [op[c] EXCEPT !.pc = "hold", !.last = TRUE]]
          \/ op' = [op EXCEPT ![c] = Idle]
      BY <1>13 DEF Stats, TypeOK
    <3>. QED
      BY <3>1, <3>2, IdleIsOp DEF TypeOK
  <2>. QED
    BY <1>13, <2>1, <2>2 DEF Stats, TypeOK, daemon
<1>14. ASSUME NEW c \in Callers, ResumeHold(c) PROVE TypeOK'
  BY <1>14 DEF ResumeHold, At, TypeOK, TorrentKnown, Op, daemon
<1>15. ASSUME NEW c \in Callers, ResumeLimit(c) PROVE TypeOK'
  <2>1. /\ limited' \in SUBSET Torrents /\ forgotten' \in SUBSET Torrents
        /\ failures' \in 0..MaxFailures
    BY <1>15, FailureTypes DEF ResumeLimit, At, TypeOK, TorrentKnown
  <2>. QED
    BY <1>15, <2>1 DEF ResumeLimit, TypeOK, Op
<1>16. ASSUME NEW c \in Callers, ResumeMark(c) PROVE TypeOK'
  <2>1. marked' \in SUBSET Torrents
    BY <1>16 DEF ResumeMark, At, TypeOK, TorrentKnown
  <2>. QED
    BY <1>16, <2>1, IdleIsOp DEF ResumeMark, TypeOK, daemon
<1>17. ASSUME NEW c \in Callers, NEW l \in Limits, UpdateSettings(c, l)
       PROVE TypeOK'
  BY <1>17, UpdateEffect DEF UpdateSettings, TypeOK, daemon
<1>18. ASSUME NEW c \in Callers, Apply(c) PROVE TypeOK'
  <2>1. failures' \in 0..MaxFailures
    BY <1>18, FailureTypes DEF Apply, MayFail
  <2>2. op' \in [Callers -> Op] /\ session' \in Limits
    <3>1. /\ [op[c] EXCEPT !.pc = "read", !.limit = 0] \in Op
          /\ op[c].limit \in Limits
      BY SeedRatioAssumption DEF TypeOK, Op
    <3>2. \/ op' = [op EXCEPT ![c] = [op[c] EXCEPT !.pc = "read", !.limit = 0]]
          \/ op' = [op EXCEPT ![c] = Idle]
      BY <1>18 DEF Apply, Finish, TypeOK
    <3>3. op' \in [Callers -> Op]
      BY <3>1, <3>2, IdleIsOp DEF TypeOK
    <3>. QED
      BY <1>18, <3>1, <3>3 DEF Apply, TypeOK
  <2>3. settled' \in BOOLEAN /\ watch' \in Watch
    BY <1>18 DEF Apply, Finish, TypeOK, Op, Watch
  <2>. QED
    BY <1>18, <2>1, <2>2, <2>3 DEF Apply, TypeOK
<1>19. ASSUME NEW c \in Callers, GetSettings(c) PROVE TypeOK'
  BY <1>19, GetEffect DEF GetSettings, TypeOK, daemon
<1>20. ASSUME NEW c \in Callers, Read(c) PROVE TypeOK'
  <2>1. failures' \in 0..MaxFailures
    BY <1>20, FailureTypes DEF Read, MayFail
  <2>2. op' \in [Callers -> Op]
    <3>1. [op[c] EXCEPT !.pc = "store", !.limit = session] \in Op
      BY DEF TypeOK, Op
    <3>2. \/ op' = [op EXCEPT ![c] =
                      [op[c] EXCEPT !.pc = "store", !.limit = session]]
          \/ op' = [op EXCEPT ![c] = Idle]
      BY <1>20 DEF Read, Finish, TypeOK
    <3>. QED
      BY <3>1, <3>2, IdleIsOp DEF TypeOK
  <2>3. settled' \in BOOLEAN /\ watch' \in Watch
    BY <1>20 DEF Read, Finish, TypeOK, Op, Watch
  <2>. QED
    BY <1>20, <2>1, <2>2, <2>3 DEF Read, TypeOK, daemon
<1>21. ASSUME NEW c \in Callers, Store(c) PROVE TypeOK'
  BY <1>21, IdleIsOp DEF Store, Finish, TypeOK, Op, Watch, daemon
<1>22. ASSUME NEW t \in Torrents, Upload(t) PROVE TypeOK'
  BY <1>22, SeedRatioAssumption DEF Upload, TypeOK
<1>23. ASSUME NEW t \in Torrents, Pause(t) PROVE TypeOK'
  BY <1>23 DEF Pause, TypeOK
<1>24. CASE Restart
  <2>1. failures' \in 0..MaxFailures
    BY <1>24, FailureTypes DEF Restart
  <2>2. op' \in [Callers -> Op]
    BY <1>24, AttachingIsOp DEF Restart
  <2>. QED
    BY <1>24, <2>1, <2>2, OffIsWatch, SeedRatioAssumption
    DEF Restart, TypeOK, daemon
<1>25. CASE UNCHANGED vars
  BY <1>25 DEF vars, daemon, TypeOK
<1>. QED
  BY <1>1, <1>2, <1>3, <1>4, <1>5, <1>6, <1>7, <1>8, <1>9, <1>10, <1>11,
     <1>12, <1>13, <1>14, <1>15, <1>16, <1>17, <1>18, <1>19, <1>20, <1>21,
     <1>22, <1>23, <1>24, <1>25
  DEF Next, WatchStep, RequestStep

LEMMA TorrentKnownStep == TypeOK /\ TorrentKnown /\ [Next]_vars => TorrentKnown'
<1>. SUFFICES ASSUME TypeOK, TorrentKnown, [Next]_vars PROVE TorrentKnown'
  OBVIOUS
<1>1. CASE WatchStep
  <2>1. op' = op
    BY <1>1
    DEF WatchStep, Tick, Clear, List, WatchLimit, WatchMark, WatchUnlimit,
        WatchHold, Unmark, WatchRelease
  <2>2. CASE Tick \/ Clear \/ List
    BY <2>1, <2>2 DEF Tick, Clear, List, TorrentKnown, TypeOK, Watch
  <2>3. CASE WatchLimit \/ WatchMark \/ WatchUnlimit
    BY <2>1, <2>3
    DEF WatchLimit, WatchMark, WatchUnlimit, TorrentKnown, TypeOK, Watch
  <2>4. ASSUME NEW t \in Torrents, WatchHold(t) \/ Unmark(t) \/ WatchRelease(t)
        PROVE  TorrentKnown'
    <3>1. /\ watch'.pc \in {"ready", "limit", "unlimit"}
          /\ watch'.pc # "ready" => watch'.torrent = t
      <4>1. CASE WatchHold(t)
        BY <4>1 DEF WatchHold, TypeOK, Watch
      <4>2. CASE Unmark(t)
        BY <4>2 DEF Unmark, TypeOK, Watch
      <4>3. CASE WatchRelease(t)
        BY <4>3 DEF WatchRelease, TypeOK, Watch
      <4>. QED
        BY <2>4, <4>1, <4>2, <4>3
    <3>. QED
      BY <2>1, <3>1 DEF TorrentKnown
  <2>. QED
    BY <1>1, <2>2, <2>3, <2>4 DEF WatchStep
<1>2. ASSUME NEW c \in Callers, RequestStep(c) PROVE TorrentKnown'
  <2>1. op[c].torrent \in Torrents \/ op[c].pc \in {"apply", "read", "store"}
    BY <1>2
    DEF RequestStep, Start, Check, Stats, ResumeHold, ResumeLimit, ResumeMark,
        Apply, Read, Store, At, TorrentKnown
  <2>2. op[c].pc \in {"apply", "read", "store"} =>
          op'[c].pc \in {"idle", "read", "store"}
    <3>1. CASE Apply(c)
      BY <3>1, ApplyEffect, IdleIsOp DEF TypeOK
    <3>2. CASE Read(c)
      BY <3>2, ReadEffect, IdleIsOp DEF TypeOK
    <3>3. CASE Store(c)
      BY <3>3, IdleIsOp DEF Store, Finish, TypeOK
    <3>. QED
      BY <1>2, <3>1, <3>2, <3>3
      DEF RequestStep, Start, Check, Stats, ResumeHold, ResumeLimit, ResumeMark,
          At
  <2>3. watch'.pc \in {"limit", "mark", "unlimit"} =>
          watch'.torrent \in Torrents
    BY <1>2, StepEffect DEF TorrentKnown, TypeOK, Watch
  <2>. QED
    BY <1>2, <2>1, <2>2, <2>3, StepEffect, IdleIsOp DEF TorrentKnown
<1>3. ASSUME NEW c \in Callers, NEW t \in Torrents, Resume(c, t)
      PROVE TorrentKnown'
  BY <1>3 DEF Resume, Idle, TorrentKnown, TypeOK
<1>4. ASSUME NEW c \in Callers, NEW l \in Limits, UpdateSettings(c, l)
      PROVE TorrentKnown'
  BY <1>4, UpdateEffect DEF UpdateSettings, TorrentKnown
<1>5. ASSUME NEW c \in Callers, GetSettings(c) PROVE TorrentKnown'
  BY <1>5, GetEffect DEF GetSettings, TorrentKnown
<1>6. CASE Restart
  BY <1>6, AttachingIsOp, OffIsWatch, IdleIsOp DEF Restart, TorrentKnown
<1>7. CASE \/ \E t \in Torrents : Upload(t) \/ Pause(t)
           \/ UNCHANGED vars
  BY <1>7 DEF Upload, Pause, vars, TorrentKnown
<1>. QED
  BY <1>1, <1>2, <1>3, <1>4, <1>5, <1>6, <1>7 DEF Next

LEMMA StepsFitStep == TypeOK /\ StepsFit /\ [Next]_vars => StepsFit'
<1>. SUFFICES ASSUME TypeOK, StepsFit, [Next]_vars PROVE StepsFit'
  OBVIOUS
<1>1. CASE UNCHANGED op
  BY <1>1 DEF StepsFit, InSettings, At
<1>2. ASSUME NEW c \in Callers, RequestStep(c) PROVE StepsFit'
  <2>1. /\ InSettings(c)' <=> op'[c].pc \in {"apply", "read", "store"}
        /\ op'[c].pc # "apply"
    <3>1. CASE Start(c) \/ Check(c) \/ ResumeHold(c) \/ ResumeLimit(c)
      BY <3>1 DEF Start, Check, ResumeHold, ResumeLimit, StepsFit, InSettings,
                  At, TypeOK, Op
    <3>2. CASE Stats(c)
      <4>1. /\ op'[c] = Idle \/ op'[c].kind = op[c].kind
            /\ op'[c].pc \in {"hold", "idle"}
        <5>1. \/ op' = [op EXCEPT ![c] = Idle]
              \/ op' = [op EXCEPT ![c] =
                          [op[c] EXCEPT !.pc = "hold", !.last = TRUE]]
          BY <3>2 DEF Stats
        <5>2. \/ op'[c] = Idle
              \/ op'[c] = [op[c] EXCEPT !.pc = "hold", !.last = TRUE]
          BY <5>1 DEF TypeOK
        <5>3. op[c] \in Op
          BY DEF TypeOK
        <5>. QED
          BY <5>2, <5>3, IdleIsOp DEF Op
      <4>2. ~InSettings(c)
        BY <3>2 DEF Stats, StepsFit, At
      <4>. QED
        BY <4>1, <4>2, IdleIsOp DEF InSettings
    <3>3. CASE ResumeMark(c) \/ Store(c)
      BY <3>3, IdleIsOp DEF ResumeMark, Store, Finish, InSettings, TypeOK
    <3>4. CASE Apply(c)
      <4>1. op[c].kind = "put"
        BY <3>4 DEF Apply, StepsFit
      <4>. QED
        BY <3>4, <4>1, ApplyEffect, IdleIsOp DEF InSettings, TypeOK
    <3>5. CASE Read(c)
      <4>1. op[c] \in Op /\ InSettings(c)
        BY <3>5 DEF Read, StepsFit, At, TypeOK
      <4>2. CASE op' = [op EXCEPT ![c] = Idle]
        BY <4>2, IdleIsOp DEF InSettings, TypeOK
      <4>3. CASE op' = [op EXCEPT
                          ![c] = [@ EXCEPT !.pc = "store", !.limit = session]]
        <5>1. op'[c] = [op[c] EXCEPT !.pc = "store", !.limit = session]
          BY <4>3 DEF TypeOK
        <5>2. op'[c].kind = op[c].kind /\ op'[c].pc = "store"
          BY <4>1, <5>1 DEF Op
        <5>. QED
          BY <4>1, <5>2 DEF InSettings
      <4>. QED
        BY <3>5, <4>2, <4>3 DEF Read, Finish
    <3>. QED
      BY <1>2, <3>1, <3>2, <3>3, <3>4, <3>5 DEF RequestStep
  <2>. QED
    BY <1>2, <2>1, StepEffect DEF StepsFit, InSettings, At
<1>3. ASSUME NEW c \in Callers, NEW t \in Torrents, Resume(c, t)
      PROVE StepsFit'
  BY <1>3 DEF Resume, Idle, StepsFit, InSettings, At, TypeOK
<1>4. ASSUME NEW c \in Callers, NEW l \in Limits, UpdateSettings(c, l)
      PROVE StepsFit'
  <2>1. op'[c].kind = "put" /\ op'[c].pc = "apply"
    BY <1>4, UpdateEffect
  <2>2. \A d \in Callers \ {c} :
          op'[d].kind = op[d].kind /\ op'[d].pc = op[d].pc
    BY <1>4, UpdateEffect
  <2>. QED
    BY <2>1, <2>2 DEF StepsFit, InSettings, At
<1>5. ASSUME NEW c \in Callers, GetSettings(c) PROVE StepsFit'
  <2>1. op'[c].kind = "get" /\ op'[c].pc = "read"
    BY <1>5, GetEffect
  <2>2. \A d \in Callers \ {c} :
          op'[d].kind = op[d].kind /\ op'[d].pc = op[d].pc
    BY <1>5, GetEffect
  <2>. QED
    BY <2>1, <2>2 DEF StepsFit, InSettings, At
<1>6. CASE Restart
  BY <1>6, AttachingIsOp, IdleIsOp DEF Restart, StepsFit, InSettings, At
<1>7. CASE WatchStep \/ (\E t \in Torrents : Upload(t) \/ Pause(t))
           \/ UNCHANGED vars
  BY <1>1, <1>7
  DEF WatchStep, Tick, Clear, List, WatchLimit, WatchMark, WatchUnlimit,
      WatchHold, Unmark, WatchRelease, Upload, Pause, vars
<1>. QED
  BY <1>2, <1>3, <1>4, <1>5, <1>6, <1>7 DEF Next

LEMMA WatchWaitsStep ==
  TypeOK /\ StepsFit /\ WatchWaits /\ [Next]_vars => WatchWaits'
<1>. SUFFICES ASSUME TypeOK, StepsFit, WatchWaits, [Next]_vars PROVE WatchWaits'
  OBVIOUS
<1>1. CASE WatchStep
  <2>1. /\ watch.pc # "off"
        /\ op' = op
        /\ watch'.pc \in {"off", "clear", "list"} => watch'.free = {}
    BY <1>1
    DEF WatchStep, Tick, Clear, List, WatchLimit, WatchMark, WatchUnlimit,
        WatchHold, Unmark, WatchRelease, TypeOK, Watch
  <2>. QED
    BY <2>1 DEF WatchWaits
<1>2. ASSUME NEW c \in Callers, RequestStep(c) PROVE WatchWaits'
  <2>1. watch'.pc \in {"off", "clear", "list"} => watch'.free = {}
    BY <1>2, StepEffect DEF WatchWaits, TypeOK, Watch
  <2>. QED
    BY <1>2, <2>1, StepEffect, IdleIsOp DEF WatchWaits
<1>3. ASSUME NEW c \in Callers, NEW t \in Torrents, Resume(c, t)
      PROVE WatchWaits'
  BY <1>3 DEF Resume, Idle, WatchWaits, TypeOK
<1>4. ASSUME NEW c \in Callers, NEW l \in Limits, UpdateSettings(c, l)
      PROVE WatchWaits'
  <2>1. op'[c].kind = "put" /\ \A d \in Callers \ {c} : op'[d].kind = op[d].kind
    BY <1>4, UpdateEffect
  <2>. QED
    BY <1>4, <2>1 DEF UpdateSettings, WatchWaits
<1>5. ASSUME NEW c \in Callers, GetSettings(c) PROVE WatchWaits'
  <2>1. op'[c].kind = "get" /\ \A d \in Callers \ {c} : op'[d].kind = op[d].kind
    BY <1>5, GetEffect
  <2>. QED
    BY <1>5, <2>1 DEF GetSettings, WatchWaits
<1>6. CASE Restart
  BY <1>6, AttachingIsOp, OffIsWatch, IdleIsOp DEF Restart, WatchWaits
<1>7. CASE (\E t \in Torrents : Upload(t) \/ Pause(t)) \/ UNCHANGED vars
  BY <1>7 DEF Upload, Pause, vars, WatchWaits
<1>. QED
  BY <1>1, <1>2, <1>3, <1>4, <1>5, <1>6, <1>7 DEF Next

LEMMA SettingsStep ==
  TypeOK /\ StepsFit /\ SettingsKnown /\ [Next]_vars => SettingsKnown'
<1>. SUFFICES ASSUME TypeOK, StepsFit, SettingsKnown, [Next]_vars
     PROVE  SettingsKnown'
  OBVIOUS
<1>1. CASE UNCHANGED <<op, limit, session, settled>>
  BY <1>1 DEF SettingsKnown, InSettings, At
<1>2. ASSUME NEW c \in Callers,
             Start(c) \/ Check(c) \/ Stats(c) \/ ResumeHold(c)
               \/ ResumeLimit(c) \/ ResumeMark(c)
      PROVE  SettingsKnown'
  <2>1. ~InSettings(c) /\ ~InSettings(c)' /\ op'[c].kind # "put"
    BY <1>2, StepEffect, IdleIsOp
    DEF RequestStep, StepsFit, InSettings, At, Start, Check, Stats, ResumeHold,
        ResumeLimit, ResumeMark
  <2>2. UNCHANGED <<limit, session, settled>>
    BY <1>2 DEF Start, Check, Stats, ResumeHold, ResumeLimit, ResumeMark, daemon
  <2>3. op'[c].alone => op[c].alone
    BY <1>2, StepEffect, IdleIsOp DEF RequestStep
  <2>4. op'[c].pc # "store"
    BY <1>2, StepsFitStep, <2>1 DEF StepsFit, Next, RequestStep
  <2>. QED
    BY <1>2, <2>1, <2>2, <2>3, <2>4, StepEffect
    DEF RequestStep, SettingsKnown, InSettings, At
<1>3. ASSUME NEW c \in Callers, NEW t \in Torrents, Resume(c, t)
      PROVE SettingsKnown'
  BY <1>3 DEF Resume, Idle, SettingsKnown, StepsFit, InSettings, At, TypeOK,
              daemon
<1>4. ASSUME NEW c \in Callers, NEW l \in Limits, UpdateSettings(c, l)
      PROVE SettingsKnown'
  <2>1. /\ op'[c].kind = "put" /\ op'[c].pc = "apply" /\ op'[c].limit = l
        /\ op'[c].alone => \A d \in Callers : ~InSettings(d)
    BY <1>4, UpdateEffect
  <2>2. \A d \in Callers \ {c} :
          op'[d].kind = op[d].kind /\ op'[d].alone = FALSE
    BY <1>4, UpdateEffect
  <2>3. limit' = l /\ ~settled'
    BY <1>4 DEF UpdateSettings
  <2>. QED
    BY <2>1, <2>2, <2>3 DEF SettingsKnown, InSettings, At
<1>5. ASSUME NEW c \in Callers, GetSettings(c) PROVE SettingsKnown'
  <2>1. /\ op'[c].kind = "get" /\ op'[c].pc = "read"
        /\ op'[c].alone => \A d \in Callers : ~InSettings(d)
    BY <1>5, GetEffect
  <2>2. \A d \in Callers \ {c} :
          /\ op'[d].kind = op[d].kind /\ op'[d].alone = FALSE
          /\ op'[d].pc = op[d].pc /\ op'[d].limit = op[d].limit
    BY <1>5, GetEffect
  <2>3. UNCHANGED <<limit, session, settled>>
    BY <1>5 DEF GetSettings, daemon
  <2>. QED
    BY <2>1, <2>2, <2>3 DEF SettingsKnown, InSettings, At
<1>6. ASSUME NEW c \in Callers, Apply(c) PROVE SettingsKnown'
  <2>1. /\ op[c].kind = "put" /\ ~settled
        /\ \A d \in Callers \ {c} : ~op[d].alone
    BY <1>6 DEF Apply, StepsFit, SettingsKnown, InSettings, At
  <2>2. ~settled' /\ limit' = limit
    BY <1>6, <2>1, ApplyEffect
  <2>3. op'[c].alone => /\ op[c].alone /\ op'[c].kind = "put"
                        /\ op'[c].pc = "read" /\ session' = limit
    BY <1>6, <2>1, ApplyEffect, IdleIsOp
    DEF Apply, SettingsKnown, TypeOK
  <2>4. \A d \in Callers \ {c} : op'[d] = op[d]
    BY <1>6, StepEffect DEF RequestStep
  <2>5. op'[c].alone => \A d \in Callers \ {c} : ~InSettings(d)
    BY <2>3 DEF SettingsKnown
  <2>. QED
    BY <2>1, <2>2, <2>3, <2>4, <2>5 DEF SettingsKnown, InSettings, At
<1>7. ASSUME NEW c \in Callers, Read(c) PROVE SettingsKnown'
  <2>1. \A d \in Callers \ {c} : op'[d] = op[d]
    BY <1>7, StepEffect DEF RequestStep
  <2>2. InSettings(c) /\ At(c, "read") /\ settled \in BOOLEAN
    BY <1>7 DEF Read, StepsFit, At, TypeOK
  <2>3. CASE /\ op' = [op EXCEPT ![c] = Idle]
             /\ settled' = (settled \/ (op[c].kind = "put" /\ op[c].alone))
    <3>1. op'[c] = Idle
      BY <2>3 DEF TypeOK
    <3>2. CASE ~(op[c].kind = "put" /\ op[c].alone)
      <4>1. settled' = settled /\ limit' = limit /\ session' = session
        BY <1>7, <2>2, <2>3, <3>2, ReadEffect
      <4>. QED
        BY <2>1, <2>2, <3>1, <4>1, IdleIsOp DEF SettingsKnown, InSettings, At
    <3>3. op[c].kind = "put" /\ op[c].alone => SettingsKnown'
      BY <1>7, <2>1, <2>2, <3>1, ReadEffect, IdleIsOp, StepsFitStep
      DEF SettingsKnown, StepsFit, InSettings, At
    <3>. QED
      BY <3>2, <3>3
  <2>4. CASE /\ settled' = settled
             /\ op'[c].kind = op[c].kind /\ op'[c].alone = op[c].alone
             /\ op'[c].pc = "store" /\ op'[c].limit = session
    BY <1>7, <2>1, <2>2, <2>4, ReadEffect DEF SettingsKnown, InSettings, At
  <2>. QED
    BY <1>7, <2>3, <2>4, ReadEffect
<1>8. ASSUME NEW c \in Callers, Store(c) PROVE SettingsKnown'
  BY <1>8, StepEffect, IdleIsOp
  DEF Store, Finish, RequestStep, StepsFit, SettingsKnown, InSettings, At,
      TypeOK, daemon
<1>9. CASE Restart
  BY <1>9, AttachingIsOp, IdleIsOp DEF Restart, SettingsKnown, InSettings, At
<1>10. CASE WatchStep \/ (\E t \in Torrents : Upload(t) \/ Pause(t))
            \/ UNCHANGED vars
  BY <1>1, <1>10
  DEF WatchStep, Tick, Clear, List, WatchLimit, WatchMark, WatchUnlimit,
      WatchHold, Unmark, WatchRelease, Upload, Pause, vars, daemon
<1>. QED
  BY <1>2, <1>3, <1>4, <1>5, <1>6, <1>7, <1>8, <1>9, <1>10
  DEF Next, RequestStep

LEMMA StoppedStep ==
  TypeOK /\ TorrentKnown /\ StepsFit /\ WatchWaits /\ StoppedIsMarked
    /\ [Next]_vars => StoppedIsMarked'
<1>. SUFFICES ASSUME TypeOK, TorrentKnown, StepsFit, WatchWaits,
                     StoppedIsMarked, [Next]_vars,
                     NEW u \in Torrents, u \in limited'
              PROVE  u \in marked' \/ u \in forgotten' \/ Pending(u)'
  BY TypeStep DEF StoppedIsMarked, TypeOK
<1>1. CASE Tick
  BY <1>1 DEF Tick, StoppedIsMarked, Pending, At, TypeOK, Watch, daemon
<1>2. CASE Clear
  BY <1>2 DEF Clear, StoppedIsMarked, Pending, At, WatchWaits, TypeOK, Watch,
              daemon
<1>3. CASE List
  <2>1. /\ watch.pc = "list" /\ watch'.free = watch.free
        /\ UNCHANGED <<op, marked, limited, forgotten>>
    <3>1. ASSUME NEW over, NEW under,
                 watch' = [watch EXCEPT !.pc = "ready", !.limit = 0,
                                        !.over = over, !.under = under]
          PROVE  watch'.free = watch.free
      BY <3>1 DEF TypeOK, Watch
    <3>. QED
      BY <1>3, <3>1 DEF List, daemon, TypeOK, Watch
  <2>. QED
    BY <2>1 DEF StoppedIsMarked, Pending, At
<1>4. CASE WatchLimit
  BY <1>4 DEF WatchLimit, StoppedIsMarked, Pending, At, TypeOK, Watch
<1>5. CASE WatchMark
  BY <1>5 DEF WatchMark, StoppedIsMarked, Pending, At, TypeOK, Watch, daemon
<1>6. CASE WatchUnlimit
  BY <1>6 DEF WatchUnlimit, StoppedIsMarked, Pending, At, TypeOK, Watch
<1>7. ASSUME NEW t \in Torrents, WatchHold(t)
      PROVE  u \in marked' \/ u \in forgotten' \/ Pending(u)'
  BY <1>7 DEF WatchHold, StoppedIsMarked, Pending, At, TypeOK, Watch, daemon
<1>8. ASSUME NEW t \in Torrents, Unmark(t)
      PROVE  u \in marked' \/ u \in forgotten' \/ Pending(u)'
  BY <1>8 DEF Unmark, StoppedIsMarked, Pending, At, TypeOK, Watch, daemon
<1>9. ASSUME NEW t \in Torrents, WatchRelease(t)
      PROVE  u \in marked' \/ u \in forgotten' \/ Pending(u)'
  BY <1>9 DEF WatchRelease, StoppedIsMarked, Pending, At, TypeOK, Watch, daemon
<1>10. ASSUME NEW c \in Callers, NEW t \in Torrents, Resume(c, t)
       PROVE  u \in marked' \/ u \in forgotten' \/ Pending(u)'
  BY <1>10 DEF Resume, StoppedIsMarked, Pending, At, TypeOK, daemon
<1>11. ASSUME NEW c \in Callers,
              Start(c) \/ Check(c) \/ Stats(c) \/ ResumeHold(c)
       PROVE  u \in marked' \/ u \in forgotten' \/ Pending(u)'
  <2>1. \A d \in Callers \ {c} : op'[d] = op[d]
    BY <1>11, StepEffect DEF RequestStep
  <2>2. UNCHANGED <<watch, marked, limited, forgotten>> /\ ~At(c, "mark")
    BY <1>11 DEF Start, Check, Stats, ResumeHold, At, daemon
  <2>. QED
    BY <2>1, <2>2 DEF StoppedIsMarked, Pending, At
<1>12. ASSUME NEW c \in Callers, ResumeLimit(c)
       PROVE  u \in marked' \/ u \in forgotten' \/ Pending(u)'
  <2>1. \A d \in Callers \ {c} : op'[d] = op[d]
    BY <1>12, StepEffect DEF RequestStep
  <2>2. u \in limited => u \in marked' \/ u \in forgotten' \/ Pending(u)'
    BY <1>12, <2>1 DEF ResumeLimit, StoppedIsMarked, Pending, At
  <2>3. CASE u = op[c].torrent /\ op[c].last
    BY <1>12, <2>3 DEF ResumeLimit, Pending, At, TypeOK, Op
  <2>4. CASE u = op[c].torrent /\ ~op[c].last /\ u \notin limited
    BY <1>12, <2>4 DEF ResumeLimit
  <2>. QED
    BY <1>12, <2>2, <2>3, <2>4 DEF ResumeLimit
<1>13. ASSUME NEW c \in Callers, ResumeMark(c)
       PROVE  u \in marked' \/ u \in forgotten' \/ Pending(u)'
  BY <1>13, StepEffect
  DEF RequestStep, ResumeMark, StoppedIsMarked, Pending, At, daemon
<1>14. ASSUME NEW c \in Callers, Apply(c) \/ Read(c) \/ Store(c)
       PROVE  u \in marked' \/ u \in forgotten' \/ Pending(u)'
  <2>1. \A d \in Callers \ {c} : op'[d] = op[d]
    BY <1>14, StepEffect DEF RequestStep
  <2>2. UNCHANGED <<marked, limited, forgotten>> /\ ~At(c, "mark")
    BY <1>14 DEF Apply, Read, Store, At, daemon
  <2>3. /\ watch'.free = watch.free /\ watch'.torrent = watch.torrent
        /\ watch.pc \in {"mark", "unlimit"} => watch'.pc = watch.pc
    BY <1>14, StepEffect DEF RequestStep, WatchWaits, TypeOK, Watch
  <2>. QED
    BY <2>1, <2>2, <2>3 DEF StoppedIsMarked, Pending, At
<1>15. ASSUME NEW c \in Callers, NEW l \in Limits, UpdateSettings(c, l)
       PROVE  u \in marked' \/ u \in forgotten' \/ Pending(u)'
  <2>1. \A d \in Callers \ {c} :
          op'[d].pc = op[d].pc /\ op'[d].torrent = op[d].torrent
    BY <1>15, UpdateEffect
  <2>. QED
    BY <1>15, <2>1 DEF UpdateSettings, StoppedIsMarked, Pending, At, daemon
<1>16. ASSUME NEW c \in Callers, GetSettings(c)
       PROVE  u \in marked' \/ u \in forgotten' \/ Pending(u)'
  <2>1. \A d \in Callers \ {c} :
          op'[d].pc = op[d].pc /\ op'[d].torrent = op[d].torrent
    BY <1>16, GetEffect
  <2>. QED
    BY <1>16, <2>1 DEF GetSettings, StoppedIsMarked, Pending, At, daemon
<1>17. CASE Restart
  BY <1>17 DEF Restart, daemon
<1>18. CASE (\E t \in Torrents : Upload(t) \/ Pause(t)) \/ UNCHANGED vars
  BY <1>18 DEF Upload, Pause, vars, daemon, StoppedIsMarked, Pending, At
<1>. QED
  BY <1>1, <1>2, <1>3, <1>4, <1>5, <1>6, <1>7, <1>8, <1>9, <1>10, <1>11,
     <1>12, <1>13, <1>14, <1>15, <1>16, <1>17, <1>18
  DEF Next, WatchStep, RequestStep

----------------------------------------------------------------------------
\* The invariant holds at the start and is inductive.
LEMMA InitInv == Init => IInv
  <1>. SUFFICES ASSUME Init PROVE IInv
    OBVIOUS
  <1>1. TypeOK
    <2>1. op \in [Callers -> Op]
      BY AttachingIsOp DEF Init
    <2>2. ratio \in [Torrents -> 0..MaxRatio] /\ failures \in 0..MaxFailures
      BY SeedRatioAssumption DEF Init
    <2>. QED
      BY <2>1, <2>2, OffIsWatch, SeedRatioAssumption DEF Init, TypeOK
  <1>2. TorrentKnown /\ StepsFit /\ WatchWaits
    BY AttachingIsOp, OffIsWatch, IdleIsOp
    DEF Init, TorrentKnown, StepsFit, WatchWaits, InSettings, At
  <1>3. SettingsKnown
    BY AttachingIsOp, IdleIsOp DEF Init, SettingsKnown, InSettings, At
  <1>4. StoppedIsMarked
    BY DEF Init, StoppedIsMarked
  <1>. QED
    BY <1>1, <1>2, <1>3, <1>4 DEF IInv

THEOREM Invariance == Spec => []IInv
  <1>1. IInv /\ [Next]_vars => IInv'
    BY TypeStep, TorrentKnownStep, StepsFitStep, WatchWaitsStep, SettingsStep,
       StoppedStep
    DEF IInv
  <1>. QED
    BY InitInv, <1>1, PTL DEF Spec

\* The state of the watch, the requests and the daemon keeps its types.
THEOREM TypeCorrect == Spec => []TypeOK
  BY Invariance, PTL DEF IInv

\* An upload stopped for its ratio is marked, or about to be marked or released,
\* or forgotten in one of the ways known (service.go enforceSeedRatio,
\* control.go Resume).
THEOREM StoppedMarked == Spec => []StoppedIsMarked
  BY Invariance, PTL DEF IInv

\* After a request for the settings that no other overlapped the limit is the
\* one of the daemon's session (service.go UpdateSettings, Settings).
THEOREM LimitsAgree == Spec => []LimitIsTheSessions
  <1>1. IInv => LimitIsTheSessions
    BY DEF IInv, SettingsKnown, LimitIsTheSessions
  <1>. QED
    BY Invariance, <1>1, PTL
=============================================================================
