--------------------------- MODULE BlocklistProofs ---------------------------
(***************************************************************************)
(* The invariants of Blocklist, for any number of callers, rules and edits *)
(* of the file.                                                            *)
(***************************************************************************)
EXTENDS Blocklist, TLAPS

\* What a request that adds a rule writes.
New(c) == [bt |-> op[c].bt, other |-> op[c].other]

\* While two requests have not written the temporary file at once, a writer
\* finds in it what it put there.
OneWriter ==
  ~mixed =>
    /\ file \in Configuration
    /\ \A c \in Callers : Writing(c) =>
         /\ \A d \in Callers : Writing(d) => d = c
         /\ op[c].pc = "write"  => op[c].handle = "temp" /\ temp = Empty
         /\ op[c].pc = "rename" => temp = New(c)

\* A request that will save has the other sections as last edited, or knows
\* better.
EditKept ==
  /\ mixed => lost
  /\ ~lost =>
       /\ file.other = edits + 1
       /\ \A c \in Callers :
            op[c].pc \in {"open", "write", "rename"} /\ ~op[c].stale =>
              op[c].other = edits + 1

\* A request alone has the section that is in memory, and finds what it left.
AloneIsInStep ==
  \A c \in Callers : UnderWay(c) /\ op[c].alone =>
    /\ \A d \in Callers : UnderWay(d) => d = c
    /\ op[c].pc # "reload" =>
         op[c].bt = memory /\ op[c].attached = attached
    /\ op[c].pc = "write"  => op[c].handle = "temp" /\ temp = Empty
    /\ op[c].pc = "rename" => temp = New(c)
    /\ op[c].pc \in {"reload", "set"} =>
         Loads(file) /\ Loaded(file).bt = op[c].bt

\* While the lists agree, nothing is under way but reloads that leave them so.
SettledHolds ==
  /\ SettledAgree
  /\ settled => \A c \in Callers : UnderWay(c) =>
       op[c].pc \in {"reload", "set"} /\ op[c].bt = memory

IInv == TypeOK /\ OneWriter /\ EditKept /\ AloneIsInStep /\ SettledHolds
----------------------------------------------------------------------------
\* An idle caller, what Load gives, and a request that is not alone any more.
LEMMA DefaultIsSection == DefaultSection \in Section
  BY BlocklistAssumption DEF DefaultSection, Section

LEMMA IdleIsOp == Idle \in Op /\ Idle.pc = "idle"
  BY DefaultIsSection, BlocklistAssumption DEF Idle, Op

LEMMA LoadedIsConfiguration ==
  ASSUME NEW f \in Content, Loads(f)
  PROVE  Loaded(f) \in Configuration
  BY DefaultIsSection, BlocklistAssumption DEF Content, Configuration, Loads, Loaded

\* A rule more.
LEMMA LongerIsSection ==
  ASSUME NEW s \in Section, NEW r \in Rules
  PROVE  [s EXCEPT !.rules = @ \cup {r}] \in Section
  BY DEF Section

LEMMA NotAloneIsOp ==
  ASSUME NEW o \in Op
  PROVE  [o EXCEPT !.alone = FALSE] \in Op
  BY DEF Op

LEMMA EditedIsOp ==
  ASSUME NEW o \in Op, NEW stale \in BOOLEAN,
         NEW handle \in {"none", "temp", "file", "replaced"}
  PROVE  [o EXCEPT !.alone = FALSE, !.stale = stale, !.handle = handle] \in Op
  BY DEF Op

\* What the steps of a request do to it, and that they leave the others alone.
LEMMA LoadEffect ==
  ASSUME TypeOK, NEW c \in Callers, Load(c)
  PROVE  /\ \A d \in Callers \ {c} : op'[d] = op[d]
         /\ \/ op'[c].pc = "idle"
            \/ /\ Loads(file)
               /\ op'[c].pc = "open" /\ op'[c].other = Loaded(file).other
               /\ op'[c].bt = op[c].bt /\ op'[c].attached = op[c].attached
               /\ op'[c].alone = op[c].alone
  <1>1. CASE op' = [op EXCEPT ![c] = Idle]
    BY <1>1, IdleIsOp DEF TypeOK
  <1>2. CASE /\ Loads(file)
             /\ op' = [op EXCEPT ![c] = [@ EXCEPT !.pc = "open",
                                                 !.other = Loaded(file).other]]
    BY <1>2 DEF TypeOK, Op
  <1>. QED
    BY <1>1, <1>2 DEF Load, Abandon

LEMMA OpenTempEffect ==
  ASSUME TypeOK, NEW c \in Callers, OpenTemp(c)
  PROVE  /\ \A d \in Callers \ {c} : op'[d] = op[d]
         /\ \/ op'[c].pc = "idle" /\ temp' = temp /\ mixed' = mixed
            \/ /\ op'[c].pc = "write" /\ op'[c].handle = "temp"
               /\ op'[c].bt = op[c].bt /\ op'[c].other = op[c].other
               /\ op'[c].attached = op[c].attached
               /\ op'[c].alone = op[c].alone /\ op'[c].stale = op[c].stale
               /\ temp' = Empty
               /\ ~mixed' => ~mixed /\ \A d \in Callers \ {c} : ~Writing(d)
  <1>1. CASE op' = [op EXCEPT ![c] = Idle] /\ UNCHANGED <<temp, mixed>>
    BY <1>1, IdleIsOp DEF TypeOK
  <1>2. CASE /\ temp' = Empty
             /\ op' = [op EXCEPT ![c] = [@ EXCEPT !.pc = "write",
                                                 !.handle = "temp"]]
             /\ mixed' = (mixed \/ \E d \in Callers \ {c} : Writing(d))
    <2>1. ~mixed' => ~mixed /\ \A d \in Callers \ {c} : ~Writing(d)
      BY <1>2 DEF TypeOK
    <2>2. op'[c] = [op[c] EXCEPT !.pc = "write", !.handle = "temp"]
      BY <1>2 DEF TypeOK
    <2>. QED
      BY <1>2, <2>1, <2>2 DEF TypeOK, Op
  <1>. QED
    BY <1>1, <1>2 DEF OpenTemp, Abandon

LEMMA WriteTempEffect ==
  ASSUME TypeOK, NEW c \in Callers, WriteTemp(c)
  PROVE  /\ \A d \in Callers \ {c} : op'[d] = op[d]
         /\ op'[c] = [op[c] EXCEPT !.pc = "rename", !.handle = "none"]
         /\ New(c) \in Configuration
         /\ op[c].handle = "temp" => temp' \in Over(temp, New(c)) /\ file' = file
         /\ op[c].handle # "temp" => temp' = temp
  <1>1. op' = [op EXCEPT ![c] = [@ EXCEPT !.pc = "rename", !.handle = "none"]]
    BY DEF WriteTemp
  <1>2. New(c) \in Configuration
    BY DEF TypeOK, Op, New, Configuration
  <1>. QED
    BY <1>1, <1>2 DEF WriteTemp, New, TypeOK

LEMMA RenameEffect ==
  ASSUME TypeOK, NEW c \in Callers, Rename(c)
  PROVE  /\ op' \in [Callers -> Op]
         /\ op'[c].pc = "set" /\ op'[c].bt = op[c].bt
         /\ op'[c].attached = op[c].attached /\ op'[c].alone = op[c].alone
         /\ \A d \in Callers \ {c} :
              /\ op'[d].pc = op[d].pc /\ op'[d].bt = op[d].bt
              /\ op'[d].other = op[d].other /\ op'[d].attached = op[d].attached
              /\ op'[d].alone = op[d].alone /\ op'[d].stale = op[d].stale
         /\ temp \in Content /\ file' = temp /\ temp' = NoFile
  <1>1. op' = [d \in Callers |->
                IF d = c THEN [op[d] EXCEPT !.pc = "set", !.other = 0, !.stale = FALSE]
                         ELSE [op[d] EXCEPT !.handle = MovedHandle(op[d])]]
    BY DEF Rename
  <1>2. \A d \in Callers :
          /\ op[d] \in Op
          /\ MovedHandle(op[d]) \in {"none", "temp", "file", "replaced"}
    BY DEF TypeOK, Op, MovedHandle
  <1>3. 0 \in 0..(MaxEdits + 1)
    BY BlocklistAssumption
  <1>4. ASSUME NEW d \in Callers \ {c}
        PROVE  /\ op'[d] \in Op
               /\ op'[d].pc = op[d].pc /\ op'[d].bt = op[d].bt
               /\ op'[d].other = op[d].other /\ op'[d].attached = op[d].attached
               /\ op'[d].alone = op[d].alone /\ op'[d].stale = op[d].stale
    <2>1. op'[d] = [op[d] EXCEPT !.handle = MovedHandle(op[d])]
      BY <1>1
    <2> QED
      BY <1>2, <2>1 DEF Op
  <1>5. /\ op'[c] \in Op
        /\ op'[c].pc = "set" /\ op'[c].bt = op[c].bt
        /\ op'[c].attached = op[c].attached /\ op'[c].alone = op[c].alone
    <2>1. op'[c] = [op[c] EXCEPT !.pc = "set", !.other = 0, !.stale = FALSE]
      BY <1>1
    <2> QED
      BY <1>2, <1>3, <2>1 DEF Op
  <1>6. op' \in [Callers -> Op]
    BY <1>1, <1>4, <1>5
  <1> QED
    BY <1>4, <1>5, <1>6 DEF Rename, TypeOK

LEMMA ApplyConfigEffect ==
  ASSUME TypeOK, NEW c \in Callers, ApplyConfig(c)
  PROVE  /\ \A d \in Callers \ {c} : op'[d] = op[d]
         /\ \/ op'[c].pc = "idle" /\ memory' = memory
            \/ /\ op'[c].pc = "set" /\ op'[c].attached = attached
               /\ op'[c].bt = op[c].bt /\ op'[c].alone = op[c].alone
               /\ memory' = op[c].bt
  <1>1. CASE op' = [op EXCEPT ![c] = Idle] /\ UNCHANGED memory
    BY <1>1, IdleIsOp DEF TypeOK
  <1>2. CASE /\ memory' = op[c].bt
             /\ op' = [op EXCEPT ![c] = [@ EXCEPT !.pc = "set",
                                                 !.attached = attached]]
    BY <1>2 DEF TypeOK, Op
  <1>. QED
    BY <1>1, <1>2 DEF ApplyConfig, Abandon

\* Types are kept.
LEMMA TypeStep ==
  ASSUME TypeOK, [Next]_vars
  PROVE  TypeOK'
<1>1. ASSUME NEW c \in Callers, NEW r \in Rules, AddBlock(c, r) PROVE TypeOK'
  <2>1. Quiet \in BOOLEAN
    BY DEF Quiet
  <2>4. memory' \in Section
    BY <1>1, LongerIsSection DEF AddBlock, TypeOK
  <2>2. [Idle EXCEPT !.pc = "load", !.bt = memory',
           !.attached = attached, !.alone = Quiet] \in Op
    BY <2>1, <2>4, IdleIsOp DEF TypeOK, Op
  <2>3. op' \in [Callers -> Op]
    BY <1>1, <2>2, NotAloneIsOp DEF AddBlock, Among, TypeOK
  <2>. QED
    BY <1>1, <2>3, <2>4 DEF AddBlock, TypeOK, Content
<1>2. ASSUME NEW c \in Callers, Load(c) PROVE TypeOK'
  <2>1. op' \in [Callers -> Op]
    <3>1. CASE op' = [op EXCEPT ![c] = Idle]
      BY <3>1, IdleIsOp DEF TypeOK
    <3>2. CASE /\ Loads(file)
               /\ op' = [op EXCEPT ![c] = [@ EXCEPT !.pc = "open",
                                           !.other = Loaded(file).other]]
      <4>1. [op[c] EXCEPT !.pc = "open", !.other = Loaded(file).other] \in Op
        BY <3>2, LoadedIsConfiguration DEF TypeOK, Op, Configuration
      <4>. QED
        BY <3>2, <4>1 DEF TypeOK
    <3>. QED
      BY <1>2, <3>1, <3>2 DEF Load, Abandon
  <2>. QED
    BY <1>2, <2>1 DEF Load, Abandon, TypeOK, Content
<1>3. ASSUME NEW c \in Callers, OpenTemp(c) PROVE TypeOK'
  <2>1. op' \in [Callers -> Op]
    <3>1. CASE op' = [op EXCEPT ![c] = Idle]
      BY <3>1, IdleIsOp DEF TypeOK
    <3>2. CASE op' = [op EXCEPT ![c] = [@ EXCEPT !.pc = "write",
                                                 !.handle = "temp"]]
      <4>1. [op[c] EXCEPT !.pc = "write", !.handle = "temp"] \in Op
        BY DEF TypeOK, Op
      <4>. QED
        BY <3>2, <4>1 DEF TypeOK
    <3>. QED
      BY <1>3, <3>1, <3>2 DEF OpenTemp, Abandon
  <2>2. mixed' \in BOOLEAN
    BY <1>3 DEF OpenTemp, TypeOK
  <2>3. temp' \in {NoFile} \cup Content
    BY <1>3 DEF OpenTemp, TypeOK, Content
  <2>4. settled' \in BOOLEAN
    BY <1>3 DEF OpenTemp, Abandon, TypeOK
  <2>. QED
    BY <1>3, <2>1, <2>2, <2>3, <2>4 DEF OpenTemp, TypeOK, Content
<1>4. ASSUME NEW c \in Callers, WriteTemp(c) PROVE TypeOK'
  <2>1. op' = [op EXCEPT ![c] = [@ EXCEPT !.pc = "rename", !.handle = "none"]]
    BY <1>4 DEF WriteTemp
  <2>2. [op[c] EXCEPT !.pc = "rename", !.handle = "none"] \in Op
    BY DEF TypeOK, Op
  <2>3. op' \in [Callers -> Op]
    BY <2>1, <2>2 DEF TypeOK
  <2>4. New(c) \in Configuration
    BY <1>4, WriteTempEffect
  <2>5. \A old : Over(old, New(c)) \subseteq Content
    BY <2>4 DEF Over, Content
  <2>6. file' \in Content /\ temp' \in {NoFile} \cup Content
    BY <1>4, <2>5 DEF WriteTemp, New, TypeOK
  <2>. QED
    BY <1>4, <2>3, <2>6 DEF WriteTemp, TypeOK
<1>5. ASSUME NEW c \in Callers, WriteFails(c) PROVE TypeOK'
  BY <1>5, IdleIsOp DEF WriteFails, Abandon, TypeOK, Content
<1>6. ASSUME NEW c \in Callers, Rename(c) PROVE TypeOK'
  <2>1. lost' \in BOOLEAN
    BY <1>6 DEF Rename, TypeOK, Op
  <2>. QED
    BY <1>6, <2>1, RenameEffect DEF Rename, TypeOK
<1>7. ASSUME NEW c \in Callers, RenameFails(c) PROVE TypeOK'
  <2>1. ASSUME NEW d \in Callers
        PROVE  [op[d] EXCEPT !.handle = IF @ = "temp" THEN "replaced" ELSE @]
                 \in Op
    BY DEF TypeOK, Op
  <2>2. op' \in [Callers -> Op]
    BY <1>7, <2>1, IdleIsOp DEF RenameFails, TypeOK
  <2>. QED
    BY <1>7, <2>2 DEF RenameFails, TypeOK, Content
<1>8. ASSUME NEW c \in Callers, SetBlockConfig(c) PROVE TypeOK'
  BY <1>8, BlocklistAssumption
  DEF SetBlockConfig, Succeed, Idle, DefaultSection, TypeOK, Op, Content,
      Configuration, Section
<1>9. ASSUME NEW c \in Callers, BeginReload(c) PROVE TypeOK'
  <2>1. Quiet \in BOOLEAN
    BY DEF Quiet
  <2>2. [Idle EXCEPT !.pc = "reload", !.bt = Loaded(file).bt,
           !.alone = Quiet] \in Op
    BY <1>9, <2>1, IdleIsOp, LoadedIsConfiguration
    DEF BeginReload, TypeOK, Op, Configuration
  <2>3. op' \in [Callers -> Op]
    BY <1>9, <2>2, NotAloneIsOp DEF BeginReload, Among, TypeOK
  <2>. QED
    BY <1>9, <2>3 DEF BeginReload, TypeOK, Content
<1>10. ASSUME NEW c \in Callers, ApplyConfig(c) PROVE TypeOK'
  <2>1. op' \in [Callers -> Op]
    <3>1. CASE op' = [op EXCEPT ![c] = Idle]
      BY <3>1, IdleIsOp DEF TypeOK
    <3>2. CASE op' = [op EXCEPT ![c] = [@ EXCEPT !.pc = "set",
                                                 !.attached = attached]]
      <4>1. [op[c] EXCEPT !.pc = "set", !.attached = attached] \in Op
        BY DEF TypeOK, Op
      <4>. QED
        BY <3>2, <4>1 DEF TypeOK
    <3>. QED
      BY <1>10, <3>1, <3>2 DEF ApplyConfig, Abandon
  <2>2. memory' \in Section
    BY <1>10 DEF ApplyConfig, TypeOK, Op
  <2>. QED
    BY <1>10, <2>1, <2>2 DEF ApplyConfig, Abandon, TypeOK, Content
<1>11. ASSUME AttachEngine PROVE TypeOK'
  <2>1. op' \in [Callers -> Op]
    BY <1>11, NotAloneIsOp DEF AttachEngine, TypeOK
  <2>2. settled' \in BOOLEAN
    BY <1>11 DEF AttachEngine, TypeOK
  <2>. QED
    BY <1>11, <2>1, <2>2 DEF AttachEngine, TypeOK, Content
<1>12. ASSUME NEW rules \in SUBSET Rules, Edit(rules) PROVE TypeOK'
  <2>1. ASSUME NEW d \in Callers PROVE op'[d] \in Op
    <3>1. (~mixed /\ op[d].pc \in {"open", "write", "rename"}) \in BOOLEAN
      OBVIOUS
    <3>2. (IF op[d].handle = "file" THEN "replaced" ELSE op[d].handle)
            \in {"none", "temp", "file", "replaced"}
      BY DEF TypeOK, Op
    <3>3. [op[d] EXCEPT
             !.alone = FALSE,
             !.stale = (~mixed /\ op[d].pc \in {"open", "write", "rename"}),
             !.handle = IF op[d].handle = "file" THEN "replaced"
                                                 ELSE op[d].handle] \in Op
      BY <3>1, <3>2, EditedIsOp DEF TypeOK
    <3>. QED
      BY <1>12, <3>3 DEF Edit
  <2>2. op' \in [Callers -> Op]
    BY <1>12, <2>1 DEF Edit
  <2>5. /\ edits < MaxEdits /\ edits' = edits + 1 /\ temp' = temp
        /\ file' = [bt |-> [rules |-> rules, rest |-> edits + 2], other |-> edits + 2]
        /\ mixed' = mixed
    BY <1>12 DEF Edit
  <2>3. edits' \in 0..MaxEdits /\ edits + 2 \in 0..(MaxEdits + 1)
    BY <2>5, BlocklistAssumption DEF TypeOK
  <2>4. file' \in Configuration
    BY <1>12, <2>5, <2>3 DEF Configuration, Section
  <2>. QED
    BY <1>12, <2>2, <2>3, <2>4 DEF Edit, TypeOK, Content
<1>13. ASSUME Restart PROVE TypeOK'
  <2>1. op' \in [Callers -> Op]
    BY <1>13, IdleIsOp DEF Restart, TypeOK
  <2>2. memory' \in Section /\ startup' \in SUBSET Rules
    BY <1>13, LoadedIsConfiguration DEF Restart, TypeOK, Configuration, Section
  <2>. QED
    BY <1>13, <2>1, <2>2 DEF Restart, TypeOK, Content
<1>14. CASE UNCHANGED vars
  BY <1>14 DEF vars, TypeOK, Op, Content, Configuration
<1>. QED
  BY <1>1, <1>2, <1>3, <1>4, <1>5, <1>6, <1>7, <1>8, <1>9, <1>10, <1>11,
     <1>12, <1>13, <1>14
  DEF Next

\* A request opens the temporary file alone, or the two are mixed up.
LEMMA OneWriterStep ==
  ASSUME TypeOK, OneWriter, [Next]_vars
  PROVE  OneWriter'
<1>1. ASSUME NEW c \in Callers, NEW r \in Rules, AddBlock(c, r) PROVE OneWriter'
  BY <1>1, BlocklistAssumption
  DEF AddBlock, Among, Idle, OneWriter, New, Writing, TypeOK, Op, Content,
      Configuration
<1>2. ASSUME NEW c \in Callers, Load(c) PROVE OneWriter'
  <2>1. \A d \in Callers \ {c} : op'[d] = op[d]
    BY <1>2, LoadEffect
  <2>2. op'[c].pc \notin {"write", "rename"}
    BY <1>2, LoadEffect
  <2>. QED
    BY <1>2, <2>1, <2>2 DEF Load, OneWriter, New, Writing
<1>3. ASSUME NEW c \in Callers, OpenTemp(c) PROVE OneWriter'
  <2>1. \A d \in Callers \ {c} : op'[d] = op[d]
    BY <1>3 DEF OpenTemp, Abandon, TypeOK
  <2>2. CASE Abandon(c) /\ UNCHANGED <<temp, mixed>>
    <3>1. op'[c].pc \notin {"write", "rename"}
      BY <2>2 DEF Abandon, Idle, TypeOK
    <3>. QED
      BY <1>3, <2>1, <2>2, <3>1 DEF OpenTemp, OneWriter, New, Writing
  <2>3. CASE /\ temp' = Empty
             /\ op' = [op EXCEPT ![c] = [@ EXCEPT !.pc = "write",
                                                 !.handle = "temp"]]
             /\ mixed' = (mixed \/ \E d \in Callers \ {c} : Writing(d))
    <3>1. op'[c].pc = "write" /\ op'[c].handle = "temp"
      BY <2>3 DEF TypeOK, Op
    <3>2. ~mixed' => ~mixed /\ \A d \in Callers \ {c} : ~Writing(d)
      BY <2>3 DEF TypeOK
    <3>3. file' = file
      BY <1>3 DEF OpenTemp
    <3>4. ~mixed' => \A d \in Callers : Writing(d)' => d = c
      BY <2>1, <3>2 DEF Writing
    <3>5. temp' = Empty
      BY <2>3
    <3>. QED
      BY <3>1, <3>2, <3>3, <3>4, <3>5 DEF OneWriter
  <2>. QED
    BY <1>3, <2>2, <2>3 DEF OpenTemp
<1>4. ASSUME NEW c \in Callers, WriteTemp(c) PROVE OneWriter'
  BY <1>4, BlocklistAssumption
  DEF WriteTemp, Over, OneWriter, New, Writing, TypeOK, Op, Content,
      Configuration
<1>5. ASSUME NEW c \in Callers, WriteFails(c) PROVE OneWriter'
  BY <1>5, BlocklistAssumption
  DEF WriteFails, Abandon, Idle, OneWriter, New, Writing, TypeOK, Op, Content,
      Configuration
<1>6. ASSUME NEW c \in Callers, Rename(c) PROVE OneWriter'
  <2>1. op[c].pc = "rename" /\ mixed' = mixed
    BY <1>6 DEF Rename
  <2>2. ~mixed => /\ file' = New(c) /\ New(c) \in Configuration
                  /\ \A d \in Callers : Writing(d) => d = c
    BY <1>6, <2>1, RenameEffect DEF OneWriter, Writing, New, TypeOK, Op, Configuration
  <2>. QED
    BY <1>6, <2>1, <2>2, RenameEffect DEF OneWriter, Writing
<1>7. ASSUME NEW c \in Callers, RenameFails(c) PROVE OneWriter'
  <2>4. op'[c] = Idle
    <3>1. CASE op' = [op EXCEPT ![c] = Idle]
      BY <3>1 DEF TypeOK
    <3>2. CASE op' = [d \in Callers |->
                        IF d = c THEN Idle
                        ELSE [op[d] EXCEPT !.handle =
                                IF @ = "temp" THEN "replaced" ELSE @]]
      BY <3>2
    <3>. QED
      BY <1>7, <3>1, <3>2 DEF RenameFails
  <2>1. op'[c].pc = "idle"
    BY <2>4 DEF Idle
  <2>2. \A d \in Callers \ {c} : op'[d].pc = op[d].pc
    BY <1>7 DEF RenameFails, TypeOK, Op
  <2>3. Writing(c)
    BY <1>7 DEF RenameFails, Writing
  <2>. QED
    BY <1>7, <2>1, <2>2, <2>3 DEF RenameFails, OneWriter, Writing
<1>8. ASSUME NEW c \in Callers, SetBlockConfig(c) PROVE OneWriter'
  BY <1>8, BlocklistAssumption
  DEF SetBlockConfig, Succeed, Idle, OneWriter, New, Writing, TypeOK, Op,
      Content, Configuration
<1>9. ASSUME NEW c \in Callers, BeginReload(c) PROVE OneWriter'
  BY <1>9, BlocklistAssumption
  DEF BeginReload, Among, Idle, OneWriter, New, Writing, TypeOK, Op, Content,
      Configuration, Loaded, Loads
<1>10. ASSUME NEW c \in Callers, ApplyConfig(c) PROVE OneWriter'
  <2>1. \A d \in Callers \ {c} : op'[d] = op[d]
    BY <1>10, ApplyConfigEffect
  <2>2. op'[c].pc \notin {"write", "rename"}
    BY <1>10, ApplyConfigEffect
  <2>. QED
    BY <1>10, <2>1, <2>2 DEF ApplyConfig, OneWriter, New, Writing
<1>11. ASSUME AttachEngine PROVE OneWriter'
  BY <1>11, BlocklistAssumption
  DEF AttachEngine, OneWriter, New, Writing, TypeOK, Op, Content,
      Configuration
<1>12. ASSUME NEW rules \in SUBSET Rules, Edit(rules) PROVE OneWriter'
  <2>1. \A d \in Callers :
           /\ op'[d].pc = op[d].pc /\ op'[d].bt = op[d].bt
           /\ op'[d].other = op[d].other /\ op'[d].attached = op[d].attached
           /\ op[d].handle = "temp" => op'[d].handle = "temp"
           /\ ~op'[d].alone
           /\ ~mixed /\ op[d].pc \in {"open", "write", "rename"} => op'[d].stale
    BY <1>12 DEF Edit, TypeOK, Op
  <2>2. /\ edits < MaxEdits /\ edits' = edits + 1 /\ temp' = temp
        /\ file' = [bt |-> [rules |-> rules, rest |-> edits + 2], other |-> edits + 2]
        /\ mixed' = mixed
    BY <1>12 DEF Edit
  <2>3. edits + 2 \in 0..(MaxEdits + 1)
    BY <2>2, BlocklistAssumption DEF TypeOK
  <2>4. file' \in Configuration
    BY <2>2, <2>3 DEF Configuration, Section
  <2>. QED
    BY <2>1, <2>2, <2>4 DEF OneWriter, New, Writing
<1>13. ASSUME Restart PROVE OneWriter'
  BY <1>13, BlocklistAssumption
  DEF Restart, Idle, OneWriter, New, Writing, TypeOK, Op, Content,
      Configuration, Loaded, Loads
<1>14. CASE UNCHANGED vars
  BY <1>14
  DEF vars, OneWriter, New, Writing, TypeOK, Op, Content, Configuration
<1>. QED
  BY <1>1, <1>2, <1>3, <1>4, <1>5, <1>6, <1>7, <1>8, <1>9, <1>10, <1>11,
     <1>12, <1>13, <1>14
  DEF Next

\* What is saved is what was loaded, and an edit in between is noticed.
LEMMA EditKeptStep ==
  ASSUME TypeOK, OneWriter, EditKept, [Next]_vars
  PROVE  EditKept'
<1>1. ASSUME NEW c \in Callers, NEW r \in Rules, AddBlock(c, r) PROVE EditKept'
  BY <1>1, BlocklistAssumption
  DEF AddBlock, Among, Idle, EditKept, OneWriter, New, Writing, TypeOK, Op,
      Content, Configuration
<1>2. ASSUME NEW c \in Callers, Load(c) PROVE EditKept'
  <2>1. UNCHANGED <<file, edits, mixed, lost>>
    BY <1>2 DEF Load
  <2>2. ~mixed => file \in Configuration /\ Loaded(file) = file
    BY BlocklistAssumption DEF OneWriter, Loaded
  <2>. QED
    BY <1>2, <2>1, <2>2, LoadEffect DEF EditKept
<1>3. ASSUME NEW c \in Callers, OpenTemp(c) PROVE EditKept'
  <2>1. /\ UNCHANGED <<file, edits>> /\ op[c].pc = "open"
        /\ mixed' => lost'
        /\ ~lost' => ~lost
    BY <1>3 DEF OpenTemp, EditKept, TypeOK
  <2>. QED
    BY <1>3, <2>1, OpenTempEffect DEF EditKept
<1>4. ASSUME NEW c \in Callers, WriteTemp(c) PROVE EditKept'
  BY <1>4, BlocklistAssumption
  DEF WriteTemp, Over, EditKept, OneWriter, New, Writing, TypeOK, Op, Content,
      Configuration
<1>5. ASSUME NEW c \in Callers, WriteFails(c) PROVE EditKept'
  BY <1>5, BlocklistAssumption
  DEF WriteFails, Abandon, Idle, EditKept, OneWriter, New, Writing, TypeOK,
      Op, Content, Configuration
<1>6. ASSUME NEW c \in Callers, Rename(c) PROVE EditKept'
  <2>1. /\ op[c].pc = "rename" /\ UNCHANGED <<mixed, edits>>
        /\ lost' = (lost \/ op[c].stale)
    BY <1>6 DEF Rename
  <2>2. ~mixed => file' = New(c)
    BY <1>6, <2>1, RenameEffect DEF OneWriter, Writing
  <2>3. ~lost' => ~lost /\ ~mixed /\ ~op[c].stale
    BY <2>1 DEF EditKept, TypeOK, Op
  <2>. QED
    BY <1>6, <2>1, <2>2, <2>3, RenameEffect DEF EditKept, New
<1>7. ASSUME NEW c \in Callers, RenameFails(c) PROVE EditKept'
  BY <1>7, BlocklistAssumption
  DEF RenameFails, Idle, EditKept, OneWriter, New, Writing, TypeOK, Op,
      Content, Configuration
<1>8. ASSUME NEW c \in Callers, SetBlockConfig(c) PROVE EditKept'
  BY <1>8, BlocklistAssumption
  DEF SetBlockConfig, Succeed, Idle, EditKept, OneWriter, New, Writing,
      TypeOK, Op, Content, Configuration
<1>9. ASSUME NEW c \in Callers, BeginReload(c) PROVE EditKept'
  BY <1>9, BlocklistAssumption
  DEF BeginReload, Among, Idle, EditKept, OneWriter, New, Writing, TypeOK, Op,
      Content, Configuration, Loaded, Loads
<1>10. ASSUME NEW c \in Callers, ApplyConfig(c) PROVE EditKept'
  <2>1. UNCHANGED <<file, edits, mixed, lost>>
    BY <1>10 DEF ApplyConfig
  <2>2. op'[c].pc \in {"idle", "set"}
    BY <1>10, ApplyConfigEffect
  <2>. QED
    BY <1>10, <2>1, <2>2, ApplyConfigEffect DEF EditKept
<1>11. ASSUME AttachEngine PROVE EditKept'
  BY <1>11, BlocklistAssumption
  DEF AttachEngine, EditKept, OneWriter, New, Writing, TypeOK, Op, Content,
      Configuration
<1>12. ASSUME NEW rules \in SUBSET Rules, Edit(rules) PROVE EditKept'
  <2>1. \A d \in Callers :
           /\ op'[d].pc = op[d].pc /\ op'[d].bt = op[d].bt
           /\ op'[d].other = op[d].other /\ op'[d].attached = op[d].attached
           /\ op[d].handle = "temp" => op'[d].handle = "temp"
           /\ ~op'[d].alone
           /\ ~mixed /\ op[d].pc \in {"open", "write", "rename"} => op'[d].stale
    BY <1>12 DEF Edit, TypeOK, Op
  <2>3. /\ edits < MaxEdits /\ edits' = edits + 1 /\ temp' = temp
        /\ file' = [bt |-> [rules |-> rules, rest |-> edits + 2], other |-> edits + 2]
        /\ mixed' = mixed /\ lost' = mixed
    BY <1>12 DEF Edit
  <2>2. file'.other = edits' + 1
    BY <2>3, BlocklistAssumption DEF TypeOK
  <2>. QED
    BY <2>1, <2>2, <2>3 DEF EditKept
<1>13. ASSUME Restart PROVE EditKept'
  BY <1>13, BlocklistAssumption
  DEF Restart, Idle, EditKept, OneWriter, New, Writing, TypeOK, Op, Content,
      Configuration, Loaded, Loads
<1>14. CASE UNCHANGED vars
  BY <1>14
  DEF vars, EditKept, OneWriter, New, Writing, TypeOK, Op, Content,
      Configuration
<1>. QED
  BY <1>1, <1>2, <1>3, <1>4, <1>5, <1>6, <1>7, <1>8, <1>9, <1>10, <1>11,
     <1>12, <1>13, <1>14
  DEF Next

\* A request alone goes its way undisturbed.
LEMMA AloneStep ==
  ASSUME TypeOK, AloneIsInStep, [Next]_vars
  PROVE  AloneIsInStep'
<1>1. ASSUME NEW c \in Callers, NEW r \in Rules, AddBlock(c, r) PROVE AloneIsInStep'
  <2>1. /\ op'[c].pc = "load" /\ op'[c].bt = memory'
        /\ op'[c].attached = attached' /\ op'[c].alone = Quiet
    BY <1>1 DEF AddBlock, Among, Idle, TypeOK
  <2>2. \A d \in Callers \ {c} : op'[d].pc = op[d].pc /\ ~op'[d].alone
    BY <1>1 DEF AddBlock, Among, TypeOK, Op
  <2>3. op'[c].alone => \A d \in Callers \ {c} : op'[d].pc = "idle"
    BY <2>1, <2>2 DEF Quiet, UnderWay
  <2>. QED
    BY <2>1, <2>2, <2>3 DEF AloneIsInStep, UnderWay
<1>2. ASSUME NEW c \in Callers, Load(c) PROVE AloneIsInStep'
  <2>1. UNCHANGED <<memory, attached, file, temp>> /\ op[c].pc = "load"
    BY <1>2 DEF Load
  <2>2. \/ op'[c].pc = "idle"
        \/ /\ op'[c].pc = "open" /\ op'[c].alone = op[c].alone
           /\ op'[c].bt = op[c].bt /\ op'[c].attached = op[c].attached
    BY <1>2, LoadEffect
  <2>3. \A d \in Callers \ {c} : ~(UnderWay(d) /\ op[d].alone)
    BY <2>1 DEF AloneIsInStep, UnderWay
  <2>. QED
    BY <1>2, <2>1, <2>2, <2>3, LoadEffect DEF AloneIsInStep, UnderWay
<1>3. ASSUME NEW c \in Callers, OpenTemp(c) PROVE AloneIsInStep'
  <2>1. UNCHANGED <<memory, attached, file>> /\ op[c].pc = "open"
    BY <1>3 DEF OpenTemp
  <2>2. \/ op'[c].pc = "idle"
        \/ /\ op'[c].pc = "write" /\ op'[c].handle = "temp" /\ temp' = Empty
           /\ op'[c].alone = op[c].alone
           /\ op'[c].bt = op[c].bt /\ op'[c].attached = op[c].attached
    BY <1>3, OpenTempEffect
  <2>3. \A d \in Callers \ {c} : ~(UnderWay(d) /\ op[d].alone)
    BY <2>1 DEF AloneIsInStep, UnderWay
  <2>. QED
    BY <1>3, <2>1, <2>2, <2>3, OpenTempEffect DEF AloneIsInStep, UnderWay
<1>4. ASSUME NEW c \in Callers, WriteTemp(c) PROVE AloneIsInStep'
  BY <1>4, BlocklistAssumption
  DEF WriteTemp, Over, AloneIsInStep, New, UnderWay, TypeOK, Op, Content,
      Configuration, Loaded, Loads
<1>5. ASSUME NEW c \in Callers, WriteFails(c) PROVE AloneIsInStep'
  BY <1>5, BlocklistAssumption
  DEF WriteFails, Abandon, Idle, AloneIsInStep, New, UnderWay, TypeOK, Op,
      Content, Configuration, Loaded, Loads
<1>6. ASSUME NEW c \in Callers, Rename(c) PROVE AloneIsInStep'
  <2>1. op[c].pc = "rename" /\ UNCHANGED <<memory, attached>>
    BY <1>6 DEF Rename
  <2>2. \A d \in Callers \ {c} : ~(UnderWay(d) /\ op[d].alone)
    BY <2>1 DEF AloneIsInStep, UnderWay
  <2>3. op[c].alone => /\ \A d \in Callers : UnderWay(d) => d = c
                       /\ op[c].bt = memory /\ op[c].attached = attached
                       /\ temp = New(c)
    BY <2>1 DEF AloneIsInStep, UnderWay
  <2>4. op[c].alone => Loads(file') /\ Loaded(file').bt = op[c].bt
    <3>1. New(c) \in Configuration
      BY DEF New, TypeOK, Op, Configuration
    <3>. QED
      BY <1>6, <2>3, <3>1, RenameEffect, BlocklistAssumption
      DEF Loads, Loaded, New
  <2>. QED
    BY <1>6, <2>1, <2>2, <2>3, <2>4, RenameEffect
    DEF AloneIsInStep, UnderWay, Loads, Loaded
<1>7. ASSUME NEW c \in Callers, RenameFails(c) PROVE AloneIsInStep'
  <2>4. op'[c] = Idle
    <3>1. CASE op' = [op EXCEPT ![c] = Idle]
      BY <3>1 DEF TypeOK
    <3>2. CASE op' = [d \in Callers |->
                        IF d = c THEN Idle
                        ELSE [op[d] EXCEPT !.handle =
                                IF @ = "temp" THEN "replaced" ELSE @]]
      BY <3>2
    <3>. QED
      BY <1>7, <3>1, <3>2 DEF RenameFails
  <2>1. op'[c].pc = "idle"
    BY <2>4 DEF Idle
  <2>2. \A d \in Callers \ {c} :
           op'[d].pc = op[d].pc /\ op'[d].alone = op[d].alone
    BY <1>7 DEF RenameFails, TypeOK, Op
  <2>3. \A d \in Callers \ {c} : ~(UnderWay(d) /\ op[d].alone)
    BY <1>7 DEF RenameFails, AloneIsInStep, UnderWay
  <2>. QED
    BY <2>1, <2>2, <2>3 DEF AloneIsInStep, UnderWay
<1>8. ASSUME NEW c \in Callers, SetBlockConfig(c) PROVE AloneIsInStep'
  BY <1>8, BlocklistAssumption
  DEF SetBlockConfig, Succeed, Idle, AloneIsInStep, New, UnderWay, TypeOK, Op,
      Content, Configuration, Loaded, Loads
<1>9. ASSUME NEW c \in Callers, BeginReload(c) PROVE AloneIsInStep'
  <2>1. /\ op'[c].pc = "reload" /\ op'[c].bt = Loaded(file).bt
        /\ op'[c].alone = Quiet /\ Loads(file) /\ file' = file
    BY <1>9 DEF BeginReload, Among, Idle, TypeOK
  <2>2. \A d \in Callers \ {c} : op'[d].pc = op[d].pc /\ ~op'[d].alone
    BY <1>9 DEF BeginReload, Among, TypeOK, Op
  <2>3. op'[c].alone => \A d \in Callers \ {c} : op'[d].pc = "idle"
    BY <2>1, <2>2 DEF Quiet, UnderWay
  <2>. QED
    BY <2>1, <2>2, <2>3 DEF AloneIsInStep, UnderWay, Loads, Loaded
<1>10. ASSUME NEW c \in Callers, ApplyConfig(c) PROVE AloneIsInStep'
  <2>1. UNCHANGED <<attached, file>> /\ op[c].pc = "reload"
    BY <1>10 DEF ApplyConfig
  <2>2. \/ op'[c].pc = "idle"
        \/ /\ op'[c].pc = "set" /\ op'[c].alone = op[c].alone
           /\ op'[c].bt = op[c].bt /\ op'[c].attached = attached
           /\ memory' = op[c].bt
    BY <1>10, ApplyConfigEffect
  <2>3. \A d \in Callers \ {c} : ~(UnderWay(d) /\ op[d].alone)
    BY <2>1 DEF AloneIsInStep, UnderWay
  <2>. QED
    BY <1>10, <2>1, <2>2, <2>3, ApplyConfigEffect
    DEF AloneIsInStep, UnderWay, Loads, Loaded
<1>11. ASSUME AttachEngine PROVE AloneIsInStep'
  BY <1>11, BlocklistAssumption
  DEF AttachEngine, AloneIsInStep, New, UnderWay, TypeOK, Op, Content,
      Configuration, Loaded, Loads
<1>12. ASSUME NEW rules \in SUBSET Rules, Edit(rules) PROVE AloneIsInStep'
  <2>1. \A d \in Callers :
           /\ op'[d].pc = op[d].pc /\ op'[d].bt = op[d].bt
           /\ op'[d].other = op[d].other /\ op'[d].attached = op[d].attached
           /\ op[d].handle = "temp" => op'[d].handle = "temp"
           /\ ~op'[d].alone
           /\ ~mixed /\ op[d].pc \in {"open", "write", "rename"} => op'[d].stale
    BY <1>12 DEF Edit, TypeOK, Op
  <2>. QED
    BY <2>1 DEF AloneIsInStep
<1>13. ASSUME Restart PROVE AloneIsInStep'
  BY <1>13, BlocklistAssumption
  DEF Restart, Idle, AloneIsInStep, New, UnderWay, TypeOK, Op, Content,
      Configuration, Loaded, Loads
<1>14. CASE UNCHANGED vars
  BY <1>14
  DEF vars, AloneIsInStep, New, UnderWay, TypeOK, Op, Content, Configuration,
      Loaded, Loads
<1>. QED
  BY <1>1, <1>2, <1>3, <1>4, <1>5, <1>6, <1>7, <1>8, <1>9, <1>10, <1>11,
     <1>12, <1>13, <1>14
  DEF Next

\* Only a request alone makes the lists agree again.
LEMMA SettledStep ==
  ASSUME TypeOK, AloneIsInStep, SettledHolds, [Next]_vars
  PROVE  SettledHolds'
<1>1. ASSUME NEW c \in Callers, NEW r \in Rules, AddBlock(c, r) PROVE SettledHolds'
  BY <1>1, BlocklistAssumption
  DEF AddBlock, Among, Idle, SettledHolds, SettledAgree, AloneIsInStep, New,
      UnderWay, TypeOK, Op, Content, Configuration, Loaded, Loads
<1>2. ASSUME NEW c \in Callers, Load(c) PROVE SettledHolds'
  BY <1>2, BlocklistAssumption
  DEF Load, Abandon, Idle, SettledHolds, SettledAgree, AloneIsInStep, New,
      UnderWay, TypeOK, Op, Content, Configuration, Loaded, Loads
<1>3. ASSUME NEW c \in Callers, OpenTemp(c) PROVE SettledHolds'
  BY <1>3, BlocklistAssumption
  DEF OpenTemp, Abandon, Idle, SettledHolds, SettledAgree, AloneIsInStep, New,
      UnderWay, TypeOK, Op, Content, Configuration, Loaded, Loads
<1>4. ASSUME NEW c \in Callers, WriteTemp(c) PROVE SettledHolds'
  BY <1>4, BlocklistAssumption
  DEF WriteTemp, Over, SettledHolds, SettledAgree, AloneIsInStep, New,
      UnderWay, TypeOK, Op, Content, Configuration, Loaded, Loads
<1>5. ASSUME NEW c \in Callers, WriteFails(c) PROVE SettledHolds'
  BY <1>5, BlocklistAssumption
  DEF WriteFails, Abandon, Idle, SettledHolds, SettledAgree, AloneIsInStep,
      New, UnderWay, TypeOK, Op, Content, Configuration, Loaded, Loads
<1>6. ASSUME NEW c \in Callers, Rename(c) PROVE SettledHolds'
  BY <1>6, BlocklistAssumption
  DEF Rename, MovedHandle, SettledHolds, SettledAgree, AloneIsInStep, New,
      UnderWay, TypeOK, Op, Content, Configuration, Loaded, Loads
<1>7. ASSUME NEW c \in Callers, RenameFails(c) PROVE SettledHolds'
  BY <1>7, BlocklistAssumption
  DEF RenameFails, Idle, SettledHolds, SettledAgree, AloneIsInStep, New,
      UnderWay, TypeOK, Op, Content, Configuration, Loaded, Loads
<1>8. ASSUME NEW c \in Callers, SetBlockConfig(c) PROVE SettledHolds'
  BY <1>8, BlocklistAssumption
  DEF SetBlockConfig, Succeed, Idle, SettledHolds, SettledAgree,
      AloneIsInStep, New, UnderWay, TypeOK, Op, Content, Configuration,
      Loaded, Loads
<1>9. ASSUME NEW c \in Callers, BeginReload(c) PROVE SettledHolds'
  BY <1>9, BlocklistAssumption
  DEF BeginReload, Among, Idle, SettledHolds, SettledAgree, AloneIsInStep,
      New, UnderWay, TypeOK, Op, Content, Configuration, Loaded, Loads
<1>10. ASSUME NEW c \in Callers, ApplyConfig(c) PROVE SettledHolds'
  <2>1. UNCHANGED <<attached, engine, file, settled>> /\ op[c].pc = "reload"
    BY <1>10 DEF ApplyConfig, Abandon
  <2>2. \/ op'[c].pc = "idle" /\ memory' = memory
        \/ /\ op'[c].pc = "set" /\ op'[c].bt = op[c].bt
           /\ memory' = op[c].bt
    BY <1>10, ApplyConfigEffect
  <2>3. settled => memory' = memory
    BY <2>1, <2>2 DEF SettledHolds, UnderWay
  <2>. QED
    BY <1>10, <2>1, <2>2, <2>3, ApplyConfigEffect
    DEF SettledHolds, SettledAgree, UnderWay, Loads, Loaded
<1>11. ASSUME AttachEngine PROVE SettledHolds'
  <2>1. \A d \in Callers : op'[d].pc = op[d].pc /\ op'[d].bt = op[d].bt
    BY <1>11 DEF AttachEngine, TypeOK, Op
  <2>2. settled' => settled /\ (engine' = memory.rules \/ UNCHANGED <<attached, engine>>)
    BY <1>11 DEF AttachEngine, TypeOK
  <2>. QED
    BY <1>11, <2>1, <2>2
    DEF AttachEngine, SettledHolds, SettledAgree, UnderWay, Loads, Loaded
<1>12. ASSUME NEW rules \in SUBSET Rules, Edit(rules) PROVE SettledHolds'
  BY <1>12, BlocklistAssumption
  DEF Edit, SettledHolds, SettledAgree, AloneIsInStep, New, UnderWay, TypeOK,
      Op, Content, Configuration, Loaded, Loads
<1>13. ASSUME Restart PROVE SettledHolds'
  BY <1>13, BlocklistAssumption
  DEF Restart, Idle, SettledHolds, SettledAgree, AloneIsInStep, New, UnderWay,
      TypeOK, Op, Content, Configuration, Loaded, Loads
<1>14. CASE UNCHANGED vars
  BY <1>14
  DEF vars, SettledHolds, SettledAgree, AloneIsInStep, New, UnderWay, TypeOK,
      Op, Content, Configuration, Loaded, Loads
<1>. QED
  BY <1>1, <1>2, <1>3, <1>4, <1>5, <1>6, <1>7, <1>8, <1>9, <1>10, <1>11,
     <1>12, <1>13, <1>14
  DEF Next

\* The invariant holds at the start and is inductive.
LEMMA InitInv == Init => IInv
  <1>. SUFFICES ASSUME Init PROVE IInv
    OBVIOUS
  <1>1. /\ file \in Configuration /\ file.other = 1
        /\ file.bt \in Section /\ file.bt.rules \subseteq Rules
    BY BlocklistAssumption DEF Init, Configuration, Section
  <1>2. TypeOK
    <2>1. op \in [Callers -> Op]
      BY IdleIsOp DEF Init
    <2>2. edits \in 0..MaxEdits /\ memory \in Section /\ startup \subseteq Rules
      BY <1>1, BlocklistAssumption DEF Init
    <2>. QED
      BY <1>1, <2>1, <2>2 DEF Init, TypeOK, Content
  <1>3. OneWriter
    BY <1>1 DEF Init, OneWriter, Writing, Idle
  <1>4. EditKept
    BY <1>1 DEF Init, EditKept, Idle
  <1>5. AloneIsInStep
    BY DEF Init, AloneIsInStep, UnderWay, Idle
  <1>6. SettledHolds
    BY <1>1, BlocklistAssumption
    DEF Init, SettledHolds, SettledAgree, UnderWay, Idle, Loads, Loaded
  <1>. QED
    BY <1>2, <1>3, <1>4, <1>5, <1>6 DEF IInv

THEOREM Invariance == Spec => []IInv
  <1>1. IInv /\ [Next]_vars => IInv'
    BY TypeStep, OneWriterStep, EditKeptStep, AloneStep, SettledStep DEF IInv
  <1>. QED
    BY InitInv, <1>1, PTL DEF Spec

\* The state of the blocklist keeps its types.
THEOREM TypeCorrect == Spec => []TypeOK
  BY Invariance, PTL DEF IInv

\* The configuration file is whole at every moment, crashes included, unless
\* two requests have written the temporary file at once (config.go Save).
THEOREM WholeFile == Spec => []FileIsWhole
  <1>1. IInv => FileIsWhole
    BY DEF IInv, OneWriter, FileIsWhole
  <1>. QED
    BY Invariance, <1>1, PTL

\* After a request that nothing overlapped the bt section in memory is that of the
\* file, and its list that of the engine (service.go AddBlock, ApplyConfig).
THEOREM ListsAgree == Spec => []SettledAgree
  <1>1. IInv => SettledAgree
    BY DEF IInv, SettledHolds
  <1>. QED
    BY Invariance, <1>1, PTL

\* AddBlock keeps what the operator last wrote in the sections other than bt,
\* unless the edit falls between its Load and its Rename.
THEOREM OthersKept == Spec => []OtherSectionsKept
  <1>1. IInv => OtherSectionsKept
    BY DEF IInv, EditKept, OtherSectionsKept
  <1>. QED
    BY Invariance, <1>1, PTL
=============================================================================
