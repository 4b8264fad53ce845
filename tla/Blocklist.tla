------------------------------ MODULE Blocklist ------------------------------
(***************************************************************************)
(* The peer blocklist: kept in memory by the BT service                    *)
(* (internal/bt/service.go), in the configuration file                     *)
(* (internal/config/config.go) and in the engine (internal/bt/block.go).   *)
(* AddBlock changes the three one after the other and holds the lock only  *)
(* for the first; a reload brings the file into the other two; an operator *)
(* edits the file; the process may crash and start again.                  *)
(*                                                                         *)
(* A configuration is its bt section, which is the rules and a number for  *)
(* what else the section says, and a number for the other sections, all    *)
(* with their references to the environment resolved: AddBlock writes them *)
(* back resolved.  The bt section it writes is the one in memory, the      *)
(* others are those of the file.  A file handle is known by where its file *)
(* is now: still under the temporary name, under the name of the           *)
(* configuration, or replaced.                                             *)
(***************************************************************************)
EXTENDS Naturals

CONSTANTS
  Callers,  \* the requests that may be under way together
  Rules,    \* the rules that may be on the list
  Empty,    \* a file without content
  Garbled,  \* a file that is no configuration
  NoFile,   \* no file of that name
  MaxEdits  \* bound: how often the operator edits the file

VARIABLES
  memory,     \* s.config: the bt section in force
  attached,   \* s.engine is there
  engine,     \* the rules of its Blocker
  startup,    \* the rules connectTransmission was started with, until it ends
  connecting, \* connectTransmission is under way
  file,       \* what is in the configuration file
  temp,       \* what is in the temporary file, or NoFile
  op,         \* the request of each caller
  edits,      \* the number of edits, and the last one's mark in the file
  settled,    \* history: the last change was made by a request alone
  mixed,      \* history: two requests have written the temporary file at once
  lost        \* history: an edit fell between a request's Load and its Rename,
              \* or what requests wrote was mixed

vars == <<memory, attached, engine, startup, connecting, file, temp, op, edits,
          settled, mixed, lost>>

\* rest: bt.enable, bt.transmission.  other: the other sections.  0 is what
\* Default() has of either.
Section == [rules : SUBSET Rules, rest : 0..(MaxEdits + 1)]
Configuration == [bt : Section, other : 0..(MaxEdits + 1)]
DefaultSection == [rules |-> {}, rest |-> 0]
Content == {Empty, Garbled} \cup Configuration

ASSUME BlocklistAssumption ==
  /\ MaxEdits \in Nat
  /\ Empty # Garbled /\ NoFile \notin {Empty, Garbled}
  /\ {Empty, Garbled, NoFile} \cap Configuration = {}

\* alone and stale are history fields: nothing else has happened since the
\* request began; the file was edited since the request loaded it.
Op == [pc : {"idle", "load", "open", "write", "rename", "reload", "set"},
       bt : Section, other : 0..(MaxEdits + 1), attached : BOOLEAN,
       handle : {"none", "temp", "file", "replaced"},
       alone : BOOLEAN, stale : BOOLEAN]

Idle == [pc |-> "idle", bt |-> DefaultSection, other |-> 0, attached |-> FALSE,
         handle |-> "none", alone |-> FALSE, stale |-> FALSE]

UnderWay(c) == op[c].pc # "idle"
Writing(c)  == op[c].pc \in {"write", "rename"}
Quiet       == \A c \in Callers : ~UnderWay(c)

\* Load: a file without content gives the defaults, one that does not parse an
\* error.
Loads(content)  == content # Garbled
Loaded(content) == IF content = Empty THEN [bt |-> DefaultSection, other |-> 0]
                                      ELSE content

----------------------------------------------------------------------------
Init ==
  /\ file \in [bt : [rules : SUBSET Rules, rest : {1}], other : {1}]
  /\ memory = file.bt
  /\ startup = file.bt.rules
  /\ attached = FALSE
  /\ engine = {}
  /\ connecting = TRUE
  /\ temp = NoFile
  /\ op = [c \in Callers |-> Idle]
  /\ edits = 0
  /\ settled = TRUE
  /\ mixed = FALSE
  /\ lost = FALSE

\* ops with c's request replaced by o, and no other request alone any more.
Among(c, o) ==
  [d \in Callers |-> IF d = c THEN o ELSE [op[d] EXCEPT !.alone = FALSE]]

\* A request ends well: a change made by a request alone is settled.
Succeed(c) ==
  /\ op' = [op EXCEPT ![c] = Idle]
  /\ settled' = (settled \/ op[c].alone)

\* A request ends with an error.
Abandon(c) ==
  /\ op' = [op EXCEPT ![c] = Idle]
  /\ UNCHANGED settled

\* Mutant: the list to be written is taken before the rule is on it.
AddBlockTooEarly(c, r) ==
  /\ ~UnderWay(c)
  /\ memory' = [memory EXCEPT !.rules = @ \cup {r}]
  /\ op' = Among(c, [Idle EXCEPT !.pc = "load", !.bt = memory,
                       !.attached = attached, !.alone = Quiet])
  /\ settled' = FALSE
  /\ UNCHANGED <<attached, engine, startup, connecting, file, temp, edits,
                 mixed, lost>>

\* AddBlock under the lock: the rule goes on the list in memory, and the section
\* as it is in memory now is what the request will write.
AddBlock(c, r) ==
  /\ ~UnderWay(c)
  /\ memory' = [memory EXCEPT !.rules = @ \cup {r}]
  /\ op' = Among(c, [Idle EXCEPT !.pc = "load", !.bt = memory',
                       !.attached = attached, !.alone = Quiet])
  /\ settled' = FALSE
  /\ UNCHANGED <<attached, engine, startup, connecting, file, temp, edits,
                 mixed, lost>>

\* Mutant: what is saved has the defaults for everything but the bt section.
LoadNothing(c) ==
  /\ op[c].pc = "load"
  /\ op' = [op EXCEPT ![c] = [@ EXCEPT !.pc = "open", !.other = 0]]
  /\ UNCHANGED <<memory, attached, engine, startup, connecting, file, temp,
                 edits, settled, mixed, lost>>

\* Load, for the other sections of the file: its bt section gives way to the one
\* in memory, and whatever the operator wrote there since the last reload is
\* undone by the Rename.  An error leaves the rule in memory only.
Load(c) ==
  /\ op[c].pc = "load"
  /\ \/ /\ Loads(file)
        /\ op' = [op EXCEPT ![c] = [@ EXCEPT !.pc = "open",
                                             !.other = Loaded(file).other]]
        /\ UNCHANGED settled
     \/ Abandon(c)
  /\ UNCHANGED <<memory, attached, engine, startup, connecting, file, temp,
                 edits, mixed, lost>>

\* Mutant: the configuration is written in place.
OpenInPlace(c) ==
  /\ op[c].pc = "open"
  /\ file' = Empty
  /\ op' = [op EXCEPT ![c] = [@ EXCEPT !.pc = "write", !.handle = "file"]]
  /\ UNCHANGED <<memory, attached, engine, startup, connecting, temp, edits,
                 settled, mixed, lost>>

\* Save opens the temporary file, which is created, or loses its content even
\* when another request is writing it.
OpenTemp(c) ==
  /\ op[c].pc = "open"
  /\ \/ /\ temp' = Empty
        /\ op' = [op EXCEPT ![c] = [@ EXCEPT !.pc = "write",
                                             !.handle = "temp"]]
        /\ mixed' = (mixed \/ \E d \in Callers \ {c} : Writing(d))
        /\ lost' = (lost \/ mixed')
        /\ UNCHANGED settled
     \/ Abandon(c) /\ UNCHANGED <<temp, mixed, lost>>
  /\ UNCHANGED <<memory, attached, engine, startup, connecting, file, edits>>

\* What a file with the content old may hold once new is written from its
\* start: when new is the shorter one the end of old remains.
Over(old, new) ==
  IF \/ old = Empty
     \/ /\ old # Garbled
        /\ old.bt.rules \subseteq new.bt.rules
        /\ old.bt.rest = new.bt.rest /\ old.other = new.other
    THEN {new} ELSE {new, Garbled}

\* The write goes to the file the handle was opened for, whatever its name.
WriteTemp(c) ==
  LET new == [bt |-> op[c].bt, other |-> op[c].other]
  IN  /\ op[c].pc = "write"
      /\ \/ /\ op[c].handle = "temp"
            /\ temp' \in Over(temp, new)
            /\ UNCHANGED file
         \/ /\ op[c].handle = "file"
            /\ file' \in Over(file, new)
            /\ UNCHANGED temp
         \/ /\ op[c].handle = "replaced"
            /\ UNCHANGED <<file, temp>>
      /\ op' = [op EXCEPT ![c] = [@ EXCEPT !.pc = "rename",
                                           !.handle = "none"]]
      /\ UNCHANGED <<memory, attached, engine, startup, connecting, edits,
                     settled, mixed, lost>>

\* The write fails, at its start or in the middle; the file stays.
WriteFails(c) ==
  /\ op[c].pc = "write"
  /\ \/ op[c].handle = "temp" /\ temp' = Garbled /\ UNCHANGED file
     \/ op[c].handle = "file" /\ file' = Garbled /\ UNCHANGED temp
     \/ UNCHANGED <<file, temp>>
  /\ Abandon(c)
  /\ UNCHANGED <<memory, attached, engine, startup, connecting, edits, mixed,
                 lost>>

\* Where the handle of a request is after a rename of the temporary file.
MovedHandle(o) ==
  CASE o.handle = "temp" -> "file"
    [] o.handle = "file" -> "replaced"
    [] OTHER -> o.handle

\* Mutant: the old file is removed first, and then there may be no new one.
RenameBlind(c) ==
  /\ op[c].pc = "rename"
  /\ file' = temp
  /\ temp' = NoFile
  /\ op' = [d \in Callers |->
              IF d = c THEN [op[d] EXCEPT !.pc = "set", !.other = 0, !.stale = FALSE]
                       ELSE [op[d] EXCEPT !.handle = MovedHandle(op[d])]]
  /\ lost' = (lost \/ op[c].stale)
  /\ UNCHANGED <<memory, attached, engine, startup, connecting, edits, settled,
                 mixed>>

\* Rename puts the temporary file in place, whoever wrote it.
Rename(c) ==
  /\ op[c].pc = "rename"
  /\ temp # NoFile
  /\ file' = temp
  /\ temp' = NoFile
  /\ op' = [d \in Callers |->
              IF d = c THEN [op[d] EXCEPT !.pc = "set", !.other = 0, !.stale = FALSE]
                       ELSE [op[d] EXCEPT !.handle = MovedHandle(op[d])]]
  /\ lost' = (lost \/ op[c].stale)
  /\ UNCHANGED <<memory, attached, engine, startup, connecting, edits, settled,
                 mixed>>

\* Rename fails, for one because another request has renamed the file already;
\* what is under the temporary name is removed, if that works.
RenameFails(c) ==
  /\ op[c].pc = "rename"
  /\ \/ /\ temp' = NoFile
        /\ op' = [d \in Callers |->
                    IF d = c THEN Idle
                    ELSE [op[d] EXCEPT !.handle = IF @ = "temp" THEN "replaced"
                                                                ELSE @]]
     \/ /\ op' = [op EXCEPT ![c] = Idle]
        /\ UNCHANGED temp
  /\ UNCHANGED <<memory, attached, engine, startup, connecting, file, edits,
                 settled, mixed, lost>>

\* SetBlockConfig, when there was an engine while the lock was held; a request
\* of either kind then returns nil.
SetBlockConfig(c) ==
  /\ op[c].pc = "set"
  /\ engine' = IF op[c].attached THEN op[c].bt.rules ELSE engine
  /\ Succeed(c)
  /\ UNCHANGED <<memory, attached, startup, connecting, file, temp, edits,
                 mixed, lost>>

\* A reload loads the file ...
BeginReload(c) ==
  /\ ~UnderWay(c)
  /\ Loads(file)
  /\ op' = Among(c, [Idle EXCEPT !.pc = "reload", !.bt = Loaded(file).bt,
                       !.alone = Quiet])
  /\ UNCHANGED <<memory, attached, engine, startup, connecting, file, temp,
                 edits, settled, mixed, lost>>

\* ... and ApplyConfig puts its bt section in memory, unless the storage schedules,
\* which come first, are refused.
ApplyConfig(c) ==
  /\ op[c].pc = "reload"
  /\ \/ /\ memory' = op[c].bt
        /\ op' = [op EXCEPT ![c] = [@ EXCEPT !.pc = "set",
                                             !.attached = attached]]
        /\ UNCHANGED settled
     \/ Abandon(c) /\ UNCHANGED memory
  /\ UNCHANGED <<attached, engine, startup, connecting, file, temp, edits,
                 mixed, lost>>

\* connectTransmission: the engine is made with the rules the process was
\* started with, and attached; or there is no connection.
AttachEngine ==
  /\ connecting
  /\ connecting' = FALSE /\ startup' = {}
  /\ \/ /\ attached' = TRUE
        /\ engine' = startup
        /\ settled' = (settled /\ startup = memory.rules)
        /\ op' = [c \in Callers |-> [op[c] EXCEPT !.alone = FALSE]]
     \/ UNCHANGED <<attached, engine, settled, op>>
  /\ UNCHANGED <<memory, file, temp, edits, mixed, lost>>

\* The operator writes a new file, with all its sections changed but perhaps the
\* rules (external).
Edit(rules) ==
  /\ edits < MaxEdits
  /\ edits' = edits + 1
  /\ file' = [bt |-> [rules |-> rules, rest |-> edits + 2], other |-> edits + 2]
  /\ op' = [c \in Callers |->
              [op[c] EXCEPT !.alone = FALSE,
                 !.stale = (~mixed /\ op[c].pc \in {"open", "write", "rename"}),
                 !.handle = IF @ = "file" THEN "replaced" ELSE @]]
  /\ settled' = FALSE
  /\ lost' = mixed
  /\ UNCHANGED <<memory, attached, engine, startup, connecting, temp, mixed>>

\* The process dies at any point and is started again; a temporary file stays.
Restart ==
  /\ Loads(file)
  /\ memory' = Loaded(file).bt
  /\ startup' = Loaded(file).bt.rules
  /\ attached' = FALSE
  /\ engine' = {}
  /\ connecting' = TRUE
  /\ op' = [c \in Callers |-> Idle]
  /\ settled' = TRUE
  /\ UNCHANGED <<file, temp, edits, mixed, lost>>

Next ==
  \/ \E c \in Callers :
       \/ \E r \in Rules : AddBlock(c, r)
       \/ Load(c) \/ OpenTemp(c) \/ WriteTemp(c) \/ WriteFails(c)
       \/ Rename(c) \/ RenameFails(c) \/ SetBlockConfig(c)
       \/ BeginReload(c) \/ ApplyConfig(c)
  \/ AttachEngine
  \/ \E rules \in SUBSET Rules : Edit(rules)
  \/ Restart

Spec == Init /\ [][Next]_vars

----------------------------------------------------------------------------
\* Types.
TypeOK ==
  /\ memory \in Section /\ startup \in SUBSET Rules
  /\ attached \in BOOLEAN /\ engine \in SUBSET Rules
  /\ connecting \in BOOLEAN
  /\ file \in Content /\ temp \in {NoFile} \cup Content
  /\ op \in [Callers -> Op]
  /\ edits \in 0..MaxEdits
  /\ settled \in BOOLEAN /\ mixed \in BOOLEAN /\ lost \in BOOLEAN

\* Save and a crash in the middle of it: the file is a whole configuration at
\* every moment, as long as two requests have not written the one temporary
\* file at the same time.  When they have, it may be garbled, and the next
\* start fails, or empty, and the next start takes the defaults.
FileIsWhole == ~mixed => file \in Configuration

\* AddBlock "appends one blocklist rule, persists YAML, and applies it
\* immediately" (service.go:248), and a reload undoes what came apart: after a
\* request that nothing overlapped, whatever failed before it, the bt section in
\* memory is that of the file, its list that of the engine, and they stay so
\* through a restart.
SettledAgree ==
  settled => /\ Loads(file) /\ Loaded(file).bt = memory
             /\ attached => engine = memory.rules

\* AddBlock writes the whole file and yet leaves the sections other than bt as
\* the operator last wrote them, unless an edit falls between its Load and its
\* Rename.  Of the bt section no such thing is true: see Load.
OtherSectionsKept ==
  ~lost => file.other = edits + 1
=============================================================================
