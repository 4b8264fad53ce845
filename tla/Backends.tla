------------------------------- MODULE Backends -------------------------------
(***************************************************************************)
(* What a request does to the files of a storage backend: the three kinds  *)
(* of backend (internal/storage/local.go, s3.go, smb.go) under the         *)
(* handlers and the service that call them (handler.go, service.go,        *)
(* download.go).                                                           *)
(*                                                                         *)
(* Every request opens a backend of its own, so that requests meet only in *)
(* the files: each call of the file system, of S3 or of the SMB share is a *)
(* step, and other requests come in between.  A call may fail; on S3 its   *)
(* effect may have come about all the same, and on SMB the connection may  *)
(* break, after which withShare runs the operation once more.              *)
(*                                                                         *)
(* There is one directory.  A name stands for a file, a file for its       *)
(* blocks, and a block for who wrote it; the files that are there at first *)
(* are written by their names.  A file keeps its identity when it is moved *)
(* or written anew in place; an object of S3 is another file at each put.  *)
(***************************************************************************)
EXTENDS Naturals, FiniteSets, Sequences, SequencesExt

CONSTANTS
  Requests,   \* the requests
  Top,        \* the names beside the directory
  Kids,       \* the names in the directory
  Folder,     \* the name of the directory
  Nothing,    \* no file
  Kinds,      \* the kinds of backend there may be
  PageSize,   \* how many keys S3 lists and deletes at once
  MaxFaults   \* bound: how many calls fail

Plain == Top \cup Kids
Names == Plain \cup {Folder}
Files == Names \cup Requests   \* a file, by what made it
Length == 2                    \* the blocks of a file, and the most an upload puts

ASSUME BackendsAssumption ==
  /\ Top \cap Kids = {} /\ Folder \notin Plain
  /\ Requests \cap Names = {} /\ Nothing \notin Files
  /\ Kinds \subseteq {"local", "s3", "smb"}
  /\ PageSize \in Nat \ {0} /\ MaxFaults \in Nat

VARIABLES
  kind,       \* the backend's type
  dir,        \* the file of each name; the directory is a file of no blocks
  data,       \* the blocks of each file
  op,         \* the requests
  faults,     \* how many calls have failed
  overlapped  \* history: the requests that ran while another one did

vars == <<kind, dir, data, op, faults, overlapped>>

\* from, to: the names of the request.  long: the upload has a block too many.
\* todo: the names still to be removed, or looked at.  seen: the names listed.
\* file: the open file.  got: the blocks read.  size: what Stat said.
\* retried: the operation is at its second run.  session: the SMB session the
\* file was opened on lives.  blind: whether a name is there was asked, but the
\* answer was an error.  cut: not all names were listed, or removed, or not all
\* blocks put.  failed: the copy of the upload ended early.  broken: a write or a close failed.
\* canceled: the client has left.  before: history, dir at the beginning.
Op == [request : {"none", "rename", "remove", "mkdir", "upload", "download",
                  "list"},
       pc : {"new", "parents", "check", "move", "copy", "delete", "look",
             "page", "batch", "clear", "unlink", "create", "write", "close",
             "discard", "list", "info", "stat", "open", "read", "done"},
       from : Names, to : Names, recursive : BOOLEAN, long : BOOLEAN,
       todo : SUBSET Names, seen : SUBSET Names,
       file : Files \cup {Nothing}, pos : 0..Length, size : 0..Length,
       got : Seq(Files \cup {Nothing}), retried : BOOLEAN, session : BOOLEAN,
       blind : BOOLEAN, cut : BOOLEAN, failed : BOOLEAN, broken : BOOLEAN,
       canceled : BOOLEAN,
       before : [Names -> Files \cup {Nothing}],
       result : {"none", "ok", "conflict", "not found", "not empty", "error"}]

Present(S) == {n \in S : dir[n] # Nothing}
IsFolder(n) == n = Folder /\ kind # "s3"
Under(n) == IF n = Folder THEN Present(Kids) ELSE {}
Pages(S) == IF Cardinality(S) <= PageSize THEN {S}
            ELSE {T \in SUBSET S : Cardinality(T) = PageSize}
Whole(f) == [k \in 1..Length |-> f]
Running(c) == op[c].pc \notin {"new", "done"}

\* S3 knows no directories.  The others put no file where there is none.
HasParent(n) == n \in Kids /\ kind # "s3" => dir[Folder] # Nothing

----------------------------------------------------------------------------
Init ==
  /\ kind \in Kinds
  /\ \E there \in SUBSET Names :
       /\ kind # "s3" /\ there \cap Kids # {} => Folder \in there
       /\ dir = [n \in Names |-> IF n \in there THEN n ELSE Nothing]
  /\ data = [f \in Files |->
               IF f \in Requests \/ (f = Folder /\ kind # "s3") THEN <<>>
               ELSE Whole(f)]
  /\ op = [c \in Requests |->
             [request |-> "none", pc |-> "new", from |-> Folder, to |-> Folder,
              recursive |-> FALSE, long |-> FALSE, todo |-> {}, seen |-> {},
              file |-> Nothing, pos |-> 0,
              size |-> 0, got |-> <<>>, retried |-> FALSE, session |-> TRUE,
              blind |-> FALSE, cut |-> FALSE, failed |-> FALSE,
              broken |-> FALSE, canceled |-> FALSE, before |-> dir,
              result |-> "none"]]
  /\ faults = 0
  /\ overlapped = {}

----------------------------------------------------------------------------
\* Calls.

Fine  == UNCHANGED faults
Fault == faults < MaxFaults /\ faults' = faults + 1

Goto(o, pc) == [o EXCEPT !.pc = pc]
Answer(o, r) == [o EXCEPT !.pc = "done", !.result = r]
Becomes(c, o) == op' = [op EXCEPT ![c] = o]

\* Mutant: an operation is never run again, and the failure not reported.
ReconnectQuietly(o, start) == Answer(o, "ok")

\* withShare: the operation runs again on a new session, but only once.  An
\* upload does without.
Reconnect(o, start) ==
  IF o.request = "upload" THEN [Answer(o, "error") EXCEPT !.session = FALSE]
  ELSE IF o.retried THEN Answer(o, "error")
  ELSE [Goto(o, start) EXCEPT !.retried = TRUE]

\* A call that makes the files d and t, and o of the request; or fails; or
\* fails on S3 after its effect; or breaks the connection to SMB, before or
\* after it, in an operation that withShare runs from start.
Call(c, d, t, o, start) ==
  \/ Fine /\ dir' = d /\ data' = t /\ Becomes(c, o)
  \/ Fault /\ UNCHANGED <<dir, data>> /\ Becomes(c, Answer(op[c], "error"))
  \/ Fault /\ kind = "s3" /\ dir' = d /\ data' = t
     /\ Becomes(c, Answer(op[c], "error"))
  \/ /\ Fault /\ kind = "smb"
     /\ \/ dir' = d /\ data' = t
        \/ UNCHANGED <<dir, data>>
     /\ Becomes(c, Reconnect(op[c], start))

\* A call that only looks.
Look(c, o, start) == Call(c, dir, data, o, start)

Begin(c, o) ==
  LET others == {d \in Requests : Running(d)} IN
  /\ op[c].pc = "new"
  /\ Becomes(c, o)
  /\ overlapped' = overlapped \cup (IF others = {} THEN {} ELSE others \cup {c})
  /\ UNCHANGED <<kind, dir, data, faults>>

Asked(c, request, pc, from, to, recursive) ==
  [op[c] EXCEPT !.request = request, !.pc = pc, !.from = from, !.to = to,
                !.recursive = recursive, !.before = dir]

----------------------------------------------------------------------------
\* Rename, and Mkdir.

Rename(c, from, to) ==
  Begin(c, Asked(c, "rename", IF kind = "local" THEN "parents" ELSE "check",
                 from, to, FALSE))

\* Of S3 only the names of files are modelled, not its markers of directories.
Mkdir(c) ==
  kind # "s3" /\ Begin(c, Asked(c, "mkdir", "parents", Folder, Folder, FALSE))

\* MkdirAll and mkdirAllSMB.
Parents(c) ==
  LET o == op[c] IN
  /\ o.pc = "parents"
  /\ Call(c, IF o.to \in Top THEN dir ELSE [dir EXCEPT ![Folder] = Folder], data,
          CASE o.request = "mkdir"  -> Answer(o, "ok")
            [] o.request = "upload" -> Goto(o, "create")
            [] o.request = "rename" -> Goto(o, IF kind = "local" THEN "check"
                                               ELSE "move"),
          IF o.request = "rename" THEN "check" ELSE "parents")
  /\ UNCHANGED <<kind, overlapped>>

Checked(o) ==
  Goto(o, CASE kind = "local" -> "move" [] kind = "s3" -> "copy"
            [] kind = "smb" -> "parents")

\* Mutant: whatever is there is replaced.
CheckNothing(c) ==
  /\ op[c].pc = "check"
  /\ Look(c, Checked(op[c]), "check")
  /\ UNCHANGED <<kind, overlapped>>

\* Is the destination there?  An error is taken for "no"; if the connection to
\* SMB has broken, the next call finds out.
Check(c) ==
  LET o == op[c] IN
  /\ o.pc = "check"
  /\ \/ /\ Fine
        /\ Becomes(c, IF dir[o.to] # Nothing THEN Answer(o, "conflict")
                      ELSE Checked(o))
     \/ /\ Fault
        /\ Becomes(c, [Checked(o) EXCEPT !.blind = TRUE])
     \/ /\ Fault /\ kind = "smb"
        /\ Becomes(c, Reconnect(o, "check"))
  /\ UNCHANGED <<kind, dir, data, overlapped>>

\* Local disk and SMB move at once, and only SMB minds what is there.
Move(c) ==
  LET o == op[c]
      refused == \/ dir[o.from] = Nothing \/ ~HasParent(o.to)
                 \/ kind = "smb" /\ dir[o.to] # Nothing IN
  /\ o.pc = "move"
  /\ IF refused THEN Look(c, Answer(o, "error"), "check")
     ELSE Call(c, [dir EXCEPT ![o.to] = dir[o.from], ![o.from] = Nothing],
               data, Answer(o, "ok"), "check")
  /\ UNCHANGED <<kind, overlapped>>

\* S3 copies, and then deletes.
Copy(c) ==
  LET o == op[c] IN
  /\ o.pc = "copy"
  /\ IF dir[o.from] = Nothing THEN Look(c, Answer(o, "error"), "check")
     ELSE Call(c, [dir EXCEPT ![o.to] = dir[o.from]], data, Goto(o, "delete"),
               "check")
  /\ UNCHANGED <<kind, overlapped>>

\* DeleteObject, the end of a rename and the beginning of a removal.
Delete(c) ==
  LET o == op[c] IN
  /\ o.pc = "delete"
  /\ Call(c, [dir EXCEPT ![o.from] = Nothing], data,
          IF o.request = "rename" THEN Answer(o, "ok") ELSE Goto(o, "page"),
          "check")
  /\ UNCHANGED <<kind, overlapped>>

----------------------------------------------------------------------------
\* Remove.

RemoveEntry(c, n, recursive) ==
  Begin(c, Asked(c, "remove", IF kind = "s3" THEN "delete" ELSE "look",
                 n, n, recursive))

\* Lstat or Stat, and ReadDir of a directory.
LookAt(c) ==
  LET o == op[c]  n == o.from IN
  /\ o.pc = "look"
  /\ Look(c, CASE dir[n] = Nothing -> Answer(o, "not found")
               [] dir[n] # Nothing /\ IsFolder(n) /\ ~o.recursive /\ Under(n) # {} ->
                    Answer(o, "not empty")
               [] dir[n] # Nothing /\ IsFolder(n) /\ o.recursive ->
                    [Goto(o, "clear") EXCEPT !.todo = Under(n)]
               [] OTHER -> Goto(o, "unlink"),
          "look")
  /\ UNCHANGED <<kind, overlapped>>

\* RemoveAll and removeAllSMB take the files one by one.  To removeAllSMB it
\* is an error if one has gone.
Clear(c) ==
  LET o == op[c] IN
  /\ o.pc = "clear"
  /\ \/ /\ o.todo = {}
        /\ Becomes(c, Goto(o, "unlink")) /\ UNCHANGED <<dir, data, faults>>
     \/ \E n \in o.todo :
          IF dir[n] = Nothing /\ kind = "smb"
            THEN Look(c, Answer(o, "error"), "look")
            ELSE Call(c, [dir EXCEPT ![n] = Nothing], data,
                      [o EXCEPT !.todo = @ \ {n}], "look")
  /\ UNCHANGED <<kind, overlapped>>

\* The last call of a removal.  RemoveAll does not mind that the file has
\* gone, and starts again if the directory has been filled meanwhile.
Unlink(c) ==
  LET o == op[c]  n == o.from
      full == IsFolder(n) /\ Under(n) # {}
      patient == kind = "local" /\ o.recursive IN
  /\ o.pc = "unlink"
  /\ CASE full -> Look(c, IF patient THEN [Goto(o, "clear") EXCEPT !.todo = Under(n)]
                          ELSE Answer(o, "error"), "look")
       [] dir[n] = Nothing /\ ~patient -> Look(c, Answer(o, "error"), "look")
       [] OTHER -> Call(c, [dir EXCEPT ![n] = Nothing], data, Answer(o, "ok"),
                        "look")
  /\ UNCHANGED <<kind, overlapped>>

\* S3 lists what is below the key that it has just deleted: one page of it.
Page(c) ==
  LET o == op[c]  below == Under(o.from) IN
  /\ o.pc = "page"
  /\ CASE below = {} -> Look(c, Answer(o, "ok"), "page")
       [] below # {} /\ ~o.recursive -> Look(c, Answer(o, "not empty"), "page")
       [] OTHER -> \E page \in Pages(below) :
            Look(c, [Goto(o, "batch") EXCEPT !.todo = page, !.cut = page # below],
                 "page")
  /\ UNCHANGED <<kind, overlapped>>

\* DeleteObjects.  What it says of the keys it could not delete is not read.
Batch(c) ==
  LET o == op[c]
      without(S) == [n \in Names |-> IF n \in S THEN Nothing ELSE dir[n]] IN
  /\ o.pc = "batch"
  /\ \/ Call(c, without(o.todo), data, Answer(o, "ok"), "batch")
     \/ /\ Fault
        /\ \E S \in SUBSET o.todo : dir' = without(S)
        /\ UNCHANGED data
        /\ Becomes(c, [Answer(o, "ok") EXCEPT !.cut = TRUE])
  /\ UNCHANGED <<kind, overlapped>>

----------------------------------------------------------------------------
\* Upload.

\* The body may be longer than a file may be, by what the form around it takes;
\* one that is longer still is refused before anything is opened.
Upload(c, n, long) ==
  Begin(c, [Asked(c, "upload", IF kind = "s3" THEN "create" ELSE "parents",
                  n, n, FALSE) EXCEPT !.long = long])

\* Block k of a file gets written; a block that was skipped has no writer.
Put(f, k, c) ==
  [data EXCEPT ![f] =
     [i \in 1..(IF Len(@) < k THEN k ELSE Len(@)) |->
        IF i = k THEN c ELSE IF i <= Len(@) THEN @[i] ELSE Nothing]]

\* Create of S3 asks nobody: its writer collects the blocks first.
Collect(c) ==
  /\ op[c].pc = "create" /\ kind = "s3"
  /\ Becomes(c, [Goto(op[c], "write") EXCEPT !.file = c])
  /\ UNCHANGED <<kind, dir, data, faults, overlapped>>

\* Create of the others: the file is emptied, or a new one.
Create(c) ==
  LET o == op[c]  n == o.to
      f == IF dir[n] = Nothing THEN c ELSE dir[n] IN
  /\ o.pc = "create" /\ kind # "s3"
  /\ IF HasParent(n)
       THEN Call(c, [dir EXCEPT ![n] = f], [data EXCEPT ![f] = <<>>],
                 [Goto(o, "write") EXCEPT !.file = f], "create")
       ELSE Look(c, Answer(o, "error"), "create")
  /\ UNCHANGED <<kind, overlapped>>

\* The copy of the upload into the writer, which takes no more than a file may
\* be (LimitReader), and does not tell what is left.  It ends early if the
\* upload cannot be read on; or if a write fails, as on SMB it does once the
\* client has left; S3 writes to memory.
Write(c) ==
  LET o == op[c]
      refused == kind = "smb" /\ o.canceled
      ended == [Goto(o, "close") EXCEPT !.failed = TRUE] IN
  /\ o.pc = "write"
  /\ \/ /\ o.pos = Length
        /\ Becomes(c, [Goto(o, "close") EXCEPT !.cut = o.long])
        /\ UNCHANGED <<data, faults>>
     \/ /\ o.pos < Length /\ ~refused
        /\ Fine
        /\ data' = Put(o.file, o.pos + 1, c)
        /\ Becomes(c, [o EXCEPT !.pos = @ + 1])
     \/ /\ o.pos < Length /\ UNCHANGED data
        /\ \/ Fault /\ Becomes(c, ended)
           \/ /\ kind # "s3"
              /\ IF refused THEN Fine ELSE Fault
              /\ Becomes(c, [ended EXCEPT !.broken = TRUE])
           \/ /\ kind = "smb" /\ ~refused /\ Fault
              /\ Becomes(c, [ended EXCEPT !.broken = TRUE, !.session = FALSE])
  /\ UNCHANGED <<kind, dir, overlapped>>

Closed(o, broken) == Answer(o, IF o.failed \/ broken THEN "error" ELSE "ok")

\* Close of S3 puts what has been collected, the failure of the copy or not.
PutObject(c) ==
  LET o == op[c] IN
  /\ o.pc = "close" /\ kind = "s3"
  /\ Call(c, [dir EXCEPT ![o.to] = o.file], data, Closed(o, FALSE), "close")
  /\ UNCHANGED <<kind, overlapped>>

\* Close of the others.  Of an SMB writer that has failed, or whose client has
\* left, the file is to be removed.
Close(c) ==
  LET o == op[c]
      ended(broken) ==
        IF kind = "smb" /\ (broken \/ o.broken \/ o.canceled)
          THEN Goto(o, "discard") ELSE Closed(o, broken) IN
  /\ o.pc = "close" /\ kind # "s3"
  /\ \/ Fine /\ Becomes(c, ended(FALSE))
     \/ Fault /\ Becomes(c, ended(TRUE))
  /\ UNCHANGED <<kind, dir, data, overlapped>>

\* Mutant: the partial file stays.
DiscardNothing(c) ==
  /\ op[c].pc = "discard"
  /\ Becomes(c, Answer(op[c], "error"))
  /\ UNCHANGED <<kind, dir, data, faults, overlapped>>

\* By its name, and only if the session it was written on is still there.
Discard(c) ==
  LET o == op[c] IN
  /\ o.pc = "discard"
  /\ Becomes(c, Answer(o, "error"))
  /\ \/ o.session /\ Fine /\ dir' = [dir EXCEPT ![o.to] = Nothing]
     \/ o.session /\ Fault /\ UNCHANGED dir
     \/ ~o.session /\ UNCHANGED <<dir, faults>>
  /\ UNCHANGED <<kind, data, overlapped>>

\* The client leaves, and the context of its request ends.
Leave(c) ==
  /\ op[c].request = "upload" /\ Running(c) /\ ~op[c].canceled
  /\ Fault
  /\ Becomes(c, [op[c] EXCEPT !.canceled = TRUE])
  /\ UNCHANGED <<kind, dir, data, overlapped>>

----------------------------------------------------------------------------
\* Download, and listing.

Download(c, n) == Begin(c, Asked(c, "download", "stat", n, n, FALSE))

Stat(c) ==
  LET o == op[c]  f == dir[o.from] IN
  /\ o.pc = "stat"
  /\ Look(c, IF f = Nothing THEN Answer(o, "not found")
             ELSE [Goto(o, "open") EXCEPT !.size = Len(data[f]),
                                          !.retried = FALSE], "stat")
  /\ UNCHANGED <<kind, overlapped>>

\* On S3 an error of HeadObject is taken for "no" if there is nothing below the
\* name, as there never is: the name is a file's.
StatBlind(c) ==
  /\ op[c].pc = "stat" /\ kind = "s3"
  /\ Fault
  /\ Becomes(c, [Answer(op[c], "not found") EXCEPT !.blind = TRUE])
  /\ UNCHANGED <<kind, dir, data, overlapped>>

Opened(o) == [Goto(o, "read") EXCEPT !.file = dir[o.from]]

\* First what can be sought in: a local file, as long as it is now, or an SMB
\* file, as long as Stat said.  No object of S3 can.
OpenSeekable(c) ==
  LET o == op[c]  f == dir[o.from]
      again == [o EXCEPT !.retried = TRUE] IN
  /\ o.pc = "open" /\ ~o.retried
  /\ \/ /\ Fine
        /\ Becomes(c, CASE f = Nothing \/ kind = "s3" -> again
                        [] f # Nothing /\ kind = "local" ->
                             [Opened(o) EXCEPT !.size = Len(data[f])]
                        [] f # Nothing /\ kind = "smb" -> Opened(o))
     \/ Fault /\ Becomes(c, again)
  /\ UNCHANGED <<kind, dir, data, overlapped>>

\* Failing that the name is opened once more, and streamed.
Open(c) ==
  LET o == op[c] IN
  /\ o.pc = "open" /\ o.retried
  /\ \/ /\ Fine
        /\ Becomes(c, IF dir[o.from] = Nothing THEN Answer(o, "not found")
                      ELSE Opened(o))
     \/ Fault /\ Becomes(c, Answer(o, "error"))
  /\ UNCHANGED <<kind, dir, data, overlapped>>

\* Block after block, up to the size that was announced.
Read(c) ==
  LET o == op[c]  k == Len(o.got) + 1 IN
  /\ o.pc = "read"
  /\ UNCHANGED <<kind, dir, data, overlapped>>
  /\ \/ k > o.size /\ Fine /\ Becomes(c, Answer(o, "ok"))
     \/ /\ k <= o.size
        /\ Fine
        /\ Becomes(c, IF k > Len(data[o.file]) THEN Answer(o, "error")
                      ELSE [o EXCEPT !.got = Append(@, data[o.file][k])])
     \/ Fault /\ Becomes(c, Answer(o, "error"))

List(c) == Begin(c, Asked(c, "list", "list", Folder, Folder, FALSE))

\* The names in the directory; local disk then asks for each.
ReadDir(c) ==
  LET o == op[c] IN
  /\ o.pc = "list" /\ kind # "s3"
  /\ Look(c, CASE dir[Folder] = Nothing -> Answer(o, "not found")
               [] dir[Folder] # Nothing /\ kind = "local" ->
                    [Goto(o, "info") EXCEPT !.todo = Under(Folder)]
               [] dir[Folder] # Nothing /\ kind = "smb" ->
                    [Answer(o, "ok") EXCEPT !.seen = Under(Folder)],
          "list")
  /\ UNCHANGED <<kind, overlapped>>

\* An entry that has gone, or that the disk does not tell about, is left out.
Info(c) ==
  LET o == op[c] IN
  /\ o.pc = "info"
  /\ \/ o.todo = {} /\ Fine /\ Becomes(c, Answer(o, "ok"))
     \/ \E n \in o.todo :
          LET rest == [o EXCEPT !.todo = @ \ {n}] IN
          \/ Fine /\ Becomes(c, [rest EXCEPT !.seen = @ \cup Present({n})])
          \/ Fault /\ Becomes(c, [rest EXCEPT !.cut = TRUE])
  /\ UNCHANGED <<kind, dir, data, overlapped>>

\* Of S3 a page of the names below the directory's.
ListPage(c) ==
  LET o == op[c]  below == Under(Folder) IN
  /\ o.pc = "list" /\ kind = "s3"
  /\ \E page \in Pages(below) :
       Look(c, [Answer(o, "ok") EXCEPT !.seen = page, !.cut = page # below], "list")
  /\ UNCHANGED <<kind, overlapped>>

----------------------------------------------------------------------------
BeginRequest(c) ==
  \/ \E from, to \in Plain : from # to /\ Rename(c, from, to)
  \/ \E n \in Names, recursive \in BOOLEAN : RemoveEntry(c, n, recursive)
  \/ \E n \in Plain, long \in BOOLEAN : Upload(c, n, long)
  \/ \E n \in Plain : Download(c, n)
  \/ List(c) \/ Mkdir(c)

Step(c) ==
  \/ Parents(c) \/ Check(c) \/ Move(c) \/ Copy(c) \/ Delete(c)
  \/ LookAt(c) \/ Clear(c) \/ Unlink(c) \/ Page(c) \/ Batch(c)
  \/ Collect(c) \/ Create(c) \/ Write(c) \/ PutObject(c) \/ Close(c)
  \/ Discard(c) \/ Stat(c) \/ StatBlind(c) \/ OpenSeekable(c) \/ Open(c)
  \/ Read(c) \/ ReadDir(c) \/ Info(c) \/ ListPage(c)

Next == \E c \in Requests : BeginRequest(c) \/ Step(c) \/ Leave(c)

Spec == Init /\ [][Next]_vars

----------------------------------------------------------------------------
\* Properties.

\* The types of the state.
TypeOK ==
  /\ kind \in Kinds
  /\ dir \in [Names -> Files \cup {Nothing}]
  /\ \A f \in Files : data[f] \in Seq(Files \cup {Nothing}) /\ Len(data[f]) <= Length
  /\ op \in [Requests -> Op]
  /\ faults \in 0..MaxFaults
  /\ overlapped \subseteq Requests

\* What c may take away: what it was asked to, and of a rename what another
\* request put in its way between its check and its end; or what was there
\* already, if the check failed and the backend does not look again.
MayLose(c) ==
  LET o == op[c] IN
  CASE o.request = "remove" ->
         {o.from} \cup (IF o.from = Folder /\ o.recursive THEN Kids ELSE {})
    [] o.request = "upload" -> {o.to}
    [] o.request = "rename" /\ c \in overlapped -> {o.from, o.to}
    [] o.request = "rename" /\ c \notin overlapped /\ o.blind /\ kind # "smb" -> {o.to}
    [] OTHER -> {}

\* No file loses its last name but to a request that may take it.  In
\* particular a rename never loses the file it moves, wherever it fails, a
\* removal that is not recursive takes nothing below the name, and nobody else
\* removes at all (the Renames and Removes of local.go, s3.go and smb.go).
NothingLost ==
  [][\A f \in Files :
       (\E n \in Names : dir[n] = f) /\ ~(\E n \in Names : dir'[n] = f) =>
         \E c \in Requests : op'[c] # op[c] /\ \E n \in MayLose(c) : dir[n] = f]_vars

Gone(S) == \A n \in S : dir[n] = Nothing

\* What was asked for has been done, or of a listing, a removal and an upload
\* that were cut what they had come to.
Done(c) ==
  LET o == op[c]  was == o.before IN
  CASE o.request = "rename" ->
         \A n \in Plain : dir[n] = CASE n = o.from -> Nothing
                                     [] n = o.to -> was[o.from]
                                     [] OTHER -> was[n]
    [] o.request = "remove" ->
         /\ Gone({o.from})
         /\ o.cut \/ o.from # Folder \/ Gone(Kids)
    [] o.request = "upload" ->
         /\ dir[o.to] # Nothing /\ data[dir[o.to]] = Whole(c)
         /\ o.cut <=> o.long
    [] o.request = "download" -> dir = was /\ o.got = data[was[o.from]]
    [] o.request = "list" ->
         /\ dir = was
         /\ o.seen = Present(Kids) \/ (o.cut /\ o.seen \subseteq Present(Kids))
    [] o.request = "mkdir" -> dir[Folder] # Nothing

\* The answer of a request that had the backend for itself.  A removal of S3
\* that finds something below the name has deleted the object of the name.
True(c) ==
  LET o == op[c]  was == o.before
      untouched(S) == \A n \in S : dir[n] = was[n] IN
  CASE o.result = "conflict" ->
         \/ was[o.to] # Nothing /\ untouched(Names)
         \/ o.retried /\ dir[o.to] = was[o.from] /\ dir[o.from] = Nothing
    [] o.result = "not found" ->
         \/ was[o.from] = Nothing /\ untouched(Names)
         \/ o.retried /\ o.request = "remove" /\ dir[o.from] = Nothing
         \/ o.blind /\ kind = "s3" /\ untouched(Names)
    [] o.result = "not empty" ->
         /\ Under(o.from) # {}
         /\ untouched(IF kind = "s3" THEN Names \ {o.from} ELSE Names)
         /\ kind = "s3" => dir[o.from] = Nothing
    [] o.result = "ok" -> Done(c)
    [] o.result = "error" -> TRUE

Ends(c) == Running(c) /\ op'[c].pc = "done" /\ c \notin overlapped

\* "ok" of a request that ran alone means that all it was asked for is done,
\* however often its calls failed and were repeated; with four exceptions, and in
\* these what was done is as far as it goes: S3 has listed but a page, or kept
\* some of the keys it was to delete; a local disk did not tell about an entry;
\* an upload was longer than a file may be.  "conflict", "not found" and "not
\* empty" say what was so, and leave all as it was but for the object that S3
\* deletes before it finds the directory not empty.  Two may lie: that of an
\* operation withShare ran twice, but then what was asked for has been done; and
\* "not found" of S3, which may mean that it could not be asked.
AnswersAreTrue == [][\A c \in Requests : Ends(c) => True(c)']_vars

\* An upload that fails while nothing else does and nobody interferes leaves
\* whole files: but on a local disk it does not; S3 publishes what it has of an
\* upload that could not be read to its end, and SMB keeps it; and SMB cannot
\* remove the file once the session has been lost.
PartialFiles ==
  [][\A c \in Requests :
       Ends(c) /\ op[c].request = "upload" /\ op'[c].result = "error"
         /\ faults' <= 1 /\ dir'[op[c].to] # Nothing =>
         \/ \E f \in Files : data'[dir'[op[c].to]] = Whole(f)
         \/ kind = "local"
         \/ op[c].failed /\ ~op[c].broken /\ ~op[c].canceled
         \/ kind = "smb" /\ ~op'[c].session]_vars
=============================================================================
