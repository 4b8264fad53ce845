--------------------------- MODULE TorrentsProofs ---------------------------
(***************************************************************************)
(* For every set of requests and torrents, and any bounds: an entry of the *)
(* table is a torrent of the daemon unless that was taken away, a request  *)
(* that is alone returns what is so, and calls are given up only after a   *)
(* restart.                                                                *)
(***************************************************************************)
EXTENDS Torrents, FiniteSetTheorems, TLAPS

----------------------------------------------------------------------------
\* What becomes of the record of a request.

Steps == {"idle", "hello", "hello again", "settings", "load", "add", "undo",
          "set", "get", "find", "files", "look", "link", "list", "drop", "remove"}
Results == {"none", "ok", "conflict", "not found", "unavailable"}
Kinds == {"none", "connect", "add", "list", "get", "delete", "control",
          "files", "peers", "magnet"}
Nets == {"none", "send", "sent", "refused", "reply"}
Tries == 0..2
Numbers == 0..MaxId
Tokens == 0..(MaxEvents + 1)

\* What a record of a request has.
LEMMA OpFields ==
  Op = [kind : Kinds, step : Steps, net : Nets, id : Numbers,
        hash : Hashes \cup {NoHash}, held : BOOLEAN, tries : Tries, token : Tokens,
        got : [Hashes -> Numbers], found : BOOLEAN, duplicate : BOOLEAN,
        result : Results]
  BY DEF Op, Kinds, Steps, Nets, Numbers, Tries, Tokens, Results

\* The step of a request fits its kind and how far its call has come; only a
\* reply brings torrents to enter.
Placed(o) ==
  /\ o.step \in {"idle", "drop"} <=> o.net = "none"
  /\ o.step \in {"add", "undo"} => o.kind = "add"
  /\ o.kind = "add" => o.hash \in Hashes
  /\ o.step \in {"drop", "remove"} => o.kind = "delete"
  /\ o.net # "reply" => o.got = None
  /\ o.net \in {"none", "reply"} => o.tries = 0

\* A request between calls: it has not sent the next one, if there is one.
Between(o) ==
  /\ o \in Op /\ Placed(o)
  /\ o.net \in {"none", "send"} /\ o.tries = 0 /\ o.step # "add"

\* No torrents to enter.
LEMMA NoneTyped == None \in [Hashes -> 0..MaxId] /\ \A h \in Hashes : None[h] = 0
  BY TorrentsAssumption DEF None

\* A caller that does nothing.
LEMMA IdleTyped ==
  /\ Between(Idle) /\ Idle.kind = "none" /\ Idle.step = "idle" /\ Idle.net = "none"
  /\ Idle.got = None
  BY NoneTyped, TorrentsAssumption DEF Idle, Op, Between, Placed

\* The next call of a request.
LEMMA AskTyped ==
  ASSUME NEW o \in Op, NEW s \in Steps \ {"idle", "drop"}
  PROVE  /\ Ask(o, s) \in Op
         /\ Ask(o, s).step = s /\ Ask(o, s).net = "send" /\ Ask(o, s).tries = 0
         /\ Ask(o, s).got = None /\ Ask(o, s).found = FALSE
         /\ Ask(o, s).kind = o.kind /\ Ask(o, s).hash = o.hash /\ Ask(o, s).id = o.id
         /\ Placed(o) /\ s \notin {"add", "undo", "remove"} => Between(Ask(o, s))
  <1>1. 0 \in 0..2 /\ 0 \in 0..(MaxEvents + 1) /\ None \in [Hashes -> 0..MaxId]
    BY NoneTyped, TorrentsAssumption
  <1>2. Ask(o, s) \in Op
    <2> DEFINE n == None
    <2>1. n \in [Hashes -> 0..MaxId]
      BY <1>1
    <2> HIDE DEF n
    <2>2. s \in Steps /\ "send" \in Nets /\ 0 \in Tries /\ 0 \in Tokens
          /\ n \in [Hashes -> Numbers]
      BY <1>1, <2>1 DEF Nets, Tries, Tokens, Numbers
    <2>3. [o EXCEPT !.step = s, !.net = "send", !.tries = 0, !.token = 0, !.got = n,
                    !.found = FALSE] \in Op
      BY <2>2, OpFields
    <2> QED
      BY <2>3 DEF Ask, n
  <1>3. /\ Ask(o, s).step = s /\ Ask(o, s).net = "send" /\ Ask(o, s).tries = 0
        /\ Ask(o, s).got = None /\ Ask(o, s).found = FALSE
        /\ Ask(o, s).kind = o.kind /\ Ask(o, s).hash = o.hash /\ Ask(o, s).id = o.id
    BY DEF Ask, Op
  <1>4. Placed(o) /\ s \notin {"add", "undo", "remove"} => Between(Ask(o, s))
    BY <1>2, <1>3 DEF Between, Placed
  <1> QED
    BY <1>2, <1>3, <1>4

\* The end of a request.
LEMMA ReturnTyped ==
  ASSUME NEW o \in Op, Placed(o), NEW r \in Results
  PROVE  /\ Between(Return(o, r))
         /\ Return(o, r).step = "idle" /\ Return(o, r).net = "none"
         /\ Return(o, r).got = None /\ Return(o, r).found = FALSE
         /\ alone # Nobody =>
              /\ Return(o, r).kind = o.kind /\ Return(o, r).hash = o.hash
              /\ Return(o, r).result = r
         /\ alone = Nobody => Return(o, r).kind = "none"
  <1>1. CASE alone = Nobody
    BY <1>1, IdleTyped DEF Return, Idle
  <1>2. CASE alone # Nobody
    <2> DEFINE x == [Idle EXCEPT !.kind = o.kind, !.hash = o.hash, !.result = r]
    <2>1. x \in Op
      <3> DEFINE i == Idle
      <3>1. i \in Op
        BY IdleTyped DEF Between
      <3> HIDE DEF i
      <3>2. [i EXCEPT !.kind = o.kind, !.hash = o.hash, !.result = r] \in Op
        BY <3>1, OpFields
      <3> QED
        BY <3>2 DEF i
    <2>2. /\ x.step = "idle" /\ x.net = "none" /\ x.got = None /\ x.found = FALSE
          /\ x.tries = 0 /\ x.kind = o.kind /\ x.hash = o.hash /\ x.result = r
      BY DEF Idle
    <2>3. Between(x)
      BY <2>1, <2>2 DEF Between, Placed
    <2> QED
      BY <1>2, <2>2, <2>3 DEF Return
  <1> QED
    BY <1>1, <1>2

\* After a call on a task.
LEMMA AfterUseTyped ==
  ASSUME NEW o \in Op, Placed(o)
  PROVE  Between(AfterUse(o))
  <1>1. Between(Ask(o, "get")) /\ Ask(o, "get") \in Op
    BY AskTyped DEF Steps
  <1>2. Between([Ask(o, "get") EXCEPT !.held = FALSE])
    <2> DEFINE a == Ask(o, "get")
               x == [a EXCEPT !.held = FALSE]
    <2>1. a \in Op /\ Between(a)
      BY <1>1
    <2> HIDE DEF a
    <2>2. x \in Op /\ x.step = a.step /\ x.net = a.net /\ x.tries = a.tries
          /\ x.kind = a.kind /\ x.got = a.got
      BY <2>1 DEF Op
    <2>3. Between(x)
      BY <2>1, <2>2 DEF Between, Placed
    <2> QED
      BY <2>3 DEF a
  <1> QED
    BY <1>2, ReturnTyped DEF AfterUse, Results

\* After a call that failed.
LEMMA AfterErrorTyped ==
  ASSUME NEW o \in Op, Placed(o)
  PROVE  Between(AfterError(o))
  <1>1. Between(Ask(o, "hello again"))
    BY AskTyped DEF Steps
  <1> QED
    BY <1>1, AfterUseTyped, ReturnTyped DEF AfterError, Results

\* A call on a task that has been found.
LEMMA UseTyped ==
  ASSUME NEW o \in Op, Placed(o)
  PROVE  Between(Use(o))
  BY AskTyped DEF Use, Steps

\* After a reply that is entered.
LEMMA FinishedTyped ==
  ASSUME NEW o \in Op, Placed(o), Enters(o), o.got = None
  PROVE  Between(Finished(o))
  <1>1. Between(Ask(o, "look"))
    BY AskTyped DEF Steps
  <1>2. o.kind = "delete" => Between([o EXCEPT !.step = "drop", !.net = "none"])
    BY DEF Op, Placed, Between, Enters
  <1> QED
    BY <1>1, <1>2, UseTyped, ReturnTyped DEF Finished, Results, Enters

\* The reply to a call that brings torrents.
LEMMA RepliedTyped ==
  ASSUME NEW o \in Op, Placed(o), o.net = "sent",
         NEW g \in [Hashes -> Numbers], NEW d \in BOOLEAN
  PROVE  /\ Replied(o, g, d) \in Op /\ Placed(Replied(o, g, d))
         /\ Replied(o, g, d) = [o EXCEPT !.net = "reply", !.tries = 0, !.token = 0,
                                         !.got = g, !.duplicate = d]
  <1>1. "reply" \in Nets /\ 0 \in Tries /\ 0 \in Tokens
    BY TorrentsAssumption DEF Nets, Tries, Tokens
  <1>2. Replied(o, g, d) \in Op
    BY <1>1, OpFields DEF Replied
  <1>3. /\ Replied(o, g, d).step = o.step /\ Replied(o, g, d).kind = o.kind
        /\ Replied(o, g, d).hash = o.hash
        /\ Replied(o, g, d).net = "reply" /\ Replied(o, g, d).tries = 0
    BY OpFields DEF Replied
  <1> QED
    BY <1>2, <1>3 DEF Replied, Placed

----------------------------------------------------------------------------
\* The types, and the numbers there are.

\* The calls to torrent-add under way.
Calling == {c \in Callers : op[c].step = "add" /\ op[c].net # "reply"}

\* A torrent has a number given before, which no other has; there is a number
\* left for each call that may need one.
Numbered ==
  /\ \A h \in Hashes : torrents[h] < nextId
  /\ \A g, h \in Hashes : torrents[g] = torrents[h] /\ torrents[g] # 0 => g = h
  /\ nextId + Cardinality(Calling) <= MaxId + 1
  /\ boot <= events + 1

Typed == TypeOK /\ Numbered /\ \A c \in Callers : Placed(op[c])

\* The callers are the requests and the watch.
LEMMA FiniteCallers == IsFiniteSet(Callers)
  BY TorrentsAssumption, FS_AddElement DEF Callers

\* One record of a request is replaced.
LEMMA Moved ==
  ASSUME op \in [Callers -> Op], NEW c \in Callers, NEW x \in Op,
         op' = [op EXCEPT ![c] = x]
  PROVE  /\ op' \in [Callers -> Op] /\ op'[c] = x
         /\ \A d \in Callers \ {c} : op'[d] = op[d]
  OBVIOUS

\* What a step of c leaves of another request.
Same(d) ==
  /\ op'[d].kind = op[d].kind /\ op'[d].step = op[d].step /\ op'[d].net = op[d].net
  /\ op'[d].hash = op[d].hash /\ op'[d].tries = op[d].tries
  /\ op'[d].token = op[d].token /\ op'[d].got = op[d].got
  /\ op'[d].found = op[d].found /\ op'[d].duplicate = op[d].duplicate
  /\ op'[d].result = op[d].result

Others(c) == \A d \in Callers \ {c} : Same(d)

\* A step that begins no call to torrent-add takes no more numbers, and leaves
\* one more when it ends such a call.
LEMMA CallsEnd ==
  ASSUME NEW c \in Callers, Others(c), c \in Calling' => c \in Calling
  PROVE  /\ Cardinality(Calling) \in Nat /\ Cardinality(Calling') \in Nat
         /\ Cardinality(Calling') <= Cardinality(Calling)
         /\ c \in Calling \ Calling' => Cardinality(Calling') + 1 <= Cardinality(Calling)
  <1>1. Calling' \subseteq Calling
    BY DEF Calling, Others, Same
  <1>2. IsFiniteSet(Calling)
    BY FiniteCallers, FS_Subset DEF Calling
  <1>3. IsFiniteSet(Calling') /\ Cardinality(Calling') <= Cardinality(Calling)
        /\ (Cardinality(Calling') = Cardinality(Calling) => Calling' = Calling)
    BY <1>1, <1>2, FS_Subset
  <1>4. Cardinality(Calling) \in Nat /\ Cardinality(Calling') \in Nat
    BY <1>2, <1>3, FS_CardinalityType
  <1> QED
    BY <1>3, <1>4

\* While a call to torrent-add is under way there is a number for it.
LEMMA NumberLeft ==
  ASSUME Typed, NEW c \in Calling
  PROVE  nextId \in 1..MaxId
  <1>1. IsFiniteSet(Calling) /\ Calling # {}
    BY FiniteCallers, FS_Subset DEF Calling
  <1>2. Cardinality(Calling) \in Nat /\ Cardinality(Calling) # 0
    BY <1>1, FS_EmptySet, FS_CardinalityType
  <1> QED
    BY <1>2, TorrentsAssumption DEF Typed, TypeOK, Numbered

----------------------------------------------------------------------------
\* What each step makes of the requests.

\* A request before its first call.
LEMMA RequestTyped ==
  ASSUME NEW k \in Kinds, NEW h \in Hashes \cup {NoHash}, NEW i \in Numbers,
         k = "add" => h \in Hashes
  PROVE  /\ Request(k, h, i) \in Op /\ Placed(Request(k, h, i))
         /\ Request(k, h, i).kind = k /\ Request(k, h, i).hash = h
         /\ Request(k, h, i).id = i
  <1> DEFINE o == Idle
  <1>1. /\ o \in Op /\ o.step = "idle" /\ o.net = "none" /\ o.got = None /\ o.tries = 0
    BY IdleTyped DEF Between, Placed
  <1> HIDE DEF o
  <1>2. [o EXCEPT !.kind = k, !.hash = h, !.id = i] \in Op
    BY <1>1, OpFields
  <1> DEFINE r == [o EXCEPT !.kind = k, !.hash = h, !.id = i]
  <1>3. /\ r.step = "idle" /\ r.net = "none" /\ r.got = None /\ r.tries = 0
        /\ r.kind = k /\ r.hash = h /\ r.id = i
    BY <1>1, OpFields
  <1>4. Placed(r)
    BY <1>3 DEF Placed
  <1> QED
    BY <1>2, <1>3, <1>4 DEF Request, o

\* The first call of a request.
FirstCall(o) ==
  /\ o \in Op /\ Placed(o) /\ o.net = "send" /\ o.got = None /\ o.tries = 0
  /\ o.step \notin {"idle", "undo", "drop", "remove"}
  /\ o.kind = "add" => o.step = "add"
  /\ o.kind = "delete" => o.step = "get" /\ o.id \in Ids /\ ~o.found

\* A request or a listing begins with a first call, with a torrent-add only when
\* there is room for another torrent.
LEMMA FirstCalls ==
  ASSUME NEW c \in Callers, BeginRequest(c) \/ ListTasks(c)
  PROVE  \E o \in Op : FirstCall(o) /\ Begins(c, o) /\ (o.step = "add" => Room)
  <1>1. 0 \in Numbers /\ Ids \subseteq Numbers
    BY TorrentsAssumption DEF Numbers, Ids
  <1>2. ASSUME NEW o \in Op, Placed(o), NEW s \in Steps \ {"idle", "drop", "undo", "remove"},
               s = "add" => o.kind = "add",
               o.kind = "add" => s = "add",
               o.kind = "delete" => s = "get" /\ o.id \in Ids
        PROVE  /\ FirstCall(Ask(o, s)) /\ Ask(o, s) \in Op
               /\ Ask(o, s).step = s /\ Ask(o, s).kind = o.kind
    BY <1>2, AskTyped DEF Placed, FirstCall
  <1>3. ASSUME NEW h \in Hashes, Add(c, h)
        PROVE  \E o \in Op : FirstCall(o) /\ Begins(c, o) /\ (o.step = "add" => Room)
    <2> DEFINE o == Request("add", h, 0)
    <2>1. o \in Op /\ Placed(o) /\ o.kind = "add"
      BY <1>1, RequestTyped DEF Kinds
    <2> HIDE DEF o
    <2>2. FirstCall(Ask(o, "add")) /\ Ask(o, "add") \in Op
      BY <1>2, <2>1 DEF Steps
    <2> QED
      BY <1>3, <2>2 DEF Add, o
  <1>4. ASSUME ListTasks(c)
        PROVE  \E o \in Op : FirstCall(o) /\ Begins(c, o) /\ (o.step = "add" => Room)
    <2> DEFINE o == Request("list", NoHash, 0)
    <2>1. o \in Op /\ Placed(o) /\ o.kind = "list"
      BY <1>1, RequestTyped DEF Kinds
    <2> HIDE DEF o
    <2>2. /\ FirstCall(Ask(o, "list")) /\ Ask(o, "list") \in Op
          /\ Ask(o, "list").step = "list"
      BY <1>2, <2>1 DEF Steps
    <2> QED
      BY <1>4, <2>2 DEF ListTasks, o
  <1>5. ASSUME NEW i \in Ids, NEW k \in {"get", "delete", "magnet", "control", "files", "peers"},
               NEW s \in {"get", "link", "find", "files", "set"}, k = "delete" => s = "get",
               Begins(c, Ask(Request(k, NoHash, i), s))
        PROVE  \E o \in Op : FirstCall(o) /\ Begins(c, o) /\ (o.step = "add" => Room)
    <2> DEFINE o == Request(k, NoHash, i)
    <2>1. o \in Op /\ Placed(o) /\ o.kind = k /\ o.id = i
      <3>1. k \in Kinds /\ k # "add" /\ i \in Numbers
        BY <1>1 DEF Kinds
      <3> QED
        BY <3>1, RequestTyped
    <2> HIDE DEF o
    <2>2. FirstCall(Ask(o, s)) /\ Ask(o, s) \in Op /\ Ask(o, s).step = s
      BY <1>2, <1>5, <2>1 DEF Steps
    <2> QED
      BY <1>5, <2>2 DEF o
  <1>6. ASSUME NEW i \in Ids, Control(c, i) \/ UpdateFiles(c, i) \/ Peers(c, i)
        PROVE  \E o \in Op : FirstCall(o) /\ Begins(c, o) /\ (o.step = "add" => Room)
    <2>1. PICK k \in {"control", "files", "peers"} : UseTask(c, k, i)
      BY <1>6 DEF Control, UpdateFiles, Peers
    <2>2. PICK s \in {"find", "files", "set"} : Begins(c, Ask(Request(k, NoHash, i), s))
      BY <2>1 DEF UseTask, Use
    <2> QED
      BY <1>5, <2>2
  <1>7. ASSUME NEW i \in Ids, GetTask(c, i) \/ Delete(c, i) \/ MagnetLink(c, i)
        PROVE  \E o \in Op : FirstCall(o) /\ Begins(c, o) /\ (o.step = "add" => Room)
    BY <1>5, <1>7 DEF GetTask, Delete, MagnetLink
  <1> QED
    BY <1>3, <1>4, <1>6, <1>7 DEF BeginRequest

\* A request begins, or is turned away.
LEMMA BeginMoves ==
  ASSUME TypeOK, NEW c \in Callers, Placed(op[c]), NEW o \in Op, FirstCall(o), Begins(c, o)
  PROVE  /\ op' \in [Callers -> Op] /\ Others(c) /\ Placed(op'[c])
         /\ op'[c] = IF attached THEN o ELSE Return(o, "unavailable")
         /\ ~attached => Between(op'[c])
  <1>1. Between(Return(o, "unavailable"))
    BY ReturnTyped DEF FirstCall, Results
  <1>2. (IF attached THEN o ELSE Return(o, "unavailable")) \in Op
    BY <1>1 DEF Between
  <1>3. /\ op' \in [Callers -> Op]
        /\ op'[c] = IF attached THEN o ELSE Return(o, "unavailable")
        /\ \A d \in Callers \ {c} : op'[d] = op[d]
    BY <1>2, Moved DEF Begins, TypeOK
  <1> QED
    BY <1>1, <1>3 DEF Others, Same, FirstCall, Between

\* A call is sent, refused or sent again: it is as far as before in all else.
Resent(c) ==
  /\ op[c].net \in {"send", "sent", "refused"} /\ op'[c].net \in {"send", "sent", "refused"}
  /\ op'[c].kind = op[c].kind /\ op'[c].step = op[c].step /\ op'[c].hash = op[c].hash
  /\ op'[c].id = op[c].id /\ op'[c].got = op[c].got /\ op'[c].found = op[c].found
  /\ op'[c].result = op[c].result

\* A call that is sent, refused or repeated moves its caller only.
LEMMA CallMoves ==
  ASSUME TypeOK, NEW c \in Callers, Placed(op[c]),
         Send(c) \/ Refuse(c) \/ (Retry(c) /\ op[c].tries # 2)
  PROVE  /\ op' \in [Callers -> Op] /\ Others(c) /\ Placed(op'[c]) /\ Resent(c)
         /\ op'[c].token \in {op[c].token, sessionID, boot, 0}
  <1> DEFINE o == op[c]
  <1>1. o \in Op /\ op \in [Callers -> Op]
    BY DEF TypeOK
  <1>2. /\ 0 \in Tokens /\ sessionID \in Tokens /\ boot \in Tokens
        /\ {"send", "sent", "refused"} \subseteq Nets
    BY TorrentsAssumption DEF TypeOK, Tokens, Nets
  <1>3. PICK n \in {"send", "sent", "refused"}, t \in Tries, k \in Tokens :
          /\ op' = [op EXCEPT ![c] = [@ EXCEPT !.net = n, !.tries = t, !.token = k]]
          /\ k \in {sessionID, boot, 0}
    <2>1. o.tries \in Tries /\ (o.tries # 2 => o.tries + 1 \in Tries)
      BY <1>1, OpFields DEF Tries
    <2>2. CASE Send(c) \/ Refuse(c)
      <3>1. PICK n \in {"sent", "refused"}, k \in {sessionID, boot} :
              op' = [op EXCEPT ![c] = [@ EXCEPT !.net = n, !.token = k]]
        BY <2>2 DEF Send, Refuse
      <3>2. [o EXCEPT !.net = n, !.token = k]
              = [o EXCEPT !.net = n, !.tries = o.tries, !.token = k]
        BY <1>1, OpFields
      <3> QED
        BY <1>1, <1>2, <2>1, <3>1, <3>2
    <2>3. CASE Retry(c) /\ o.tries # 2
      <3>1. op' = [op EXCEPT ![c] = [o EXCEPT !.net = "send", !.tries = o.tries + 1,
                                              !.token = 0]]
        <4>1. op' = [op EXCEPT ![c] = IF o.tries = 2 THEN AfterError(o)
                       ELSE [o EXCEPT !.net = "send", !.tries = o.tries + 1, !.token = 0]]
          BY <2>3 DEF Retry
        <4> QED
          BY <2>3, <4>1
      <3> QED
        BY <1>2, <2>1, <2>3, <3>1
    <2> QED
      BY <2>2, <2>3
  <1> DEFINE x == [o EXCEPT !.net = n, !.tries = t, !.token = k]
  <1>4. /\ x \in Op /\ x.kind = o.kind /\ x.step = o.step /\ x.hash = o.hash
        /\ x.id = o.id /\ x.got = o.got /\ x.found = o.found /\ x.result = o.result
        /\ x.net = n /\ x.token = k
    BY <1>1, <1>2, <1>3, OpFields
  <1>5. /\ op' \in [Callers -> Op] /\ op'[c] = x
        /\ \A d \in Callers \ {c} : op'[d] = op[d]
    BY <1>1, <1>3, <1>4, Moved
  <1>6. o.net \in {"send", "sent", "refused"}
    BY DEF Send, Refuse, Retry
  <1>7. Placed(x)
    BY <1>4, <1>6 DEF Placed
  <1> QED
    BY <1>3, <1>4, <1>5, <1>6, <1>7 DEF Resent, Others, Same

\* What the daemon does for a call, if anything.
LEMMA Executes ==
  ASSUME Typed, NEW c \in Callers, op[c].net = "sent", Execute(c)
  PROVE  /\ boot' = boot
         /\ \/ /\ op[c].step = "add" /\ op[c].hash \in Hashes /\ torrents[op[c].hash] = 0
               /\ nextId \in 1..MaxId /\ nextId' = nextId + 1 /\ excused' = excused
               /\ torrents' = [torrents EXCEPT ![op[c].hash] = nextId]
            \/ /\ op[c].step \in {"undo", "remove"} /\ nextId' = nextId
               /\ torrents' = [h \in Hashes |-> IF torrents[h] = op[c].id THEN 0 ELSE torrents[h]]
               /\ excused' = IF alone = c THEN excused
                             ELSE excused \cup {h \in Hashes : torrents[h] = op[c].id}
            \/ /\ UNCHANGED <<torrents, nextId, excused>>
               /\ op[c].step \notin {"undo", "remove"}
               /\ op[c].step = "add" => torrents[op[c].hash] # 0
  <1>1. Placed(op[c])
    BY DEF Typed
  <1>2. CASE op[c].step = "add" /\ torrents[op[c].hash] = 0
    <2>1. c \in Calling
      BY <1>2 DEF Calling
    <2> QED
      BY <1>1, <1>2, <2>1, NumberLeft DEF Execute, Placed
  <1>3. CASE op[c].step \in {"undo", "remove"}
    <2>1. [h \in Hashes |-> IF h \in {g \in Hashes : torrents[g] = op[c].id} THEN 0
                            ELSE torrents[h]]
            = [h \in Hashes |-> IF torrents[h] = op[c].id THEN 0 ELSE torrents[h]]
      OBVIOUS
    <2> QED
      BY <1>3, <2>1 DEF Execute, daemon
  <1>4. CASE op[c].step \notin {"undo", "remove"}
             /\ ~(op[c].step = "add" /\ torrents[op[c].hash] = 0)
    BY <1>4 DEF Execute, daemon
  <1> QED
    BY <1>2, <1>3, <1>4

\* The reply to a call that is to be entered tells of torrents what is so.
Brings(c) ==
  /\ op[c].net = "sent" /\ op'[c].net = "reply"
  /\ op'[c].kind = op[c].kind /\ op'[c].step = op[c].step /\ op'[c].hash = op[c].hash
  /\ op'[c].id = op[c].id /\ op'[c].found = op[c].found /\ op'[c].result = op[c].result
  /\ \A h \in Hashes : op'[c].got[h] \in {0, torrents'[h]}
  /\ op[c].step = "add" =>
       op'[c].got[op[c].hash] = torrents'[op[c].hash] /\ torrents'[op[c].hash] # 0
  /\ op[c].step = "get" => \A h \in Hashes : op'[c].got[h] \in {0, op[c].id}

Bringing == {"add", "get", "find", "files", "list", "load"}

\* A call is answered.
LEMMA AnswerMoves ==
  ASSUME Typed, NEW c \in Callers, Answer(c)
  PROVE  /\ op' \in [Callers -> Op] /\ Others(c) /\ Placed(op'[c])
         /\ op'[c] = Answered(op[c])
         /\ IF op[c].step \in Bringing THEN Brings(c) ELSE Between(op'[c])
  <1> DEFINE o == op[c]
  <1>1. /\ op \in [Callers -> Op] /\ o \in Op /\ Placed(o) /\ o.net = "sent"
        /\ torrents \in [Hashes -> Numbers] /\ TypeOK
    BY DEF Typed, TypeOK, Answer, Numbers
  <1>2. o.step \in Steps
    BY <1>1, OpFields
  <1>3. ASSUME Answered(o) \in Op, Placed(Answered(o))
        PROVE  /\ op' \in [Callers -> Op] /\ Others(c) /\ op'[c] = Answered(o)
    <2>1. op' = [op EXCEPT ![c] = Answered(o)]
      BY DEF Answer
    <2> HIDE DEF o
    <2>2. op' \in [Callers -> Op] /\ op'[c] = Answered(o)
          /\ \A d \in Callers \ {c} : op'[d] = op[d]
      BY <1>1, <1>3, <2>1, Moved
    <2> QED
      BY <2>2 DEF Others, Same
  <1>4. ASSUME NEW g \in [Hashes -> Numbers], NEW d \in BOOLEAN,
               Answered(o) = Replied(o, g, d),
               \A h \in Hashes : g[h] \in {0, torrents'[h]},
               o.step = "add" => g[o.hash] = torrents'[o.hash] /\ torrents'[o.hash] # 0,
               o.step = "get" => \A h \in Hashes : g[h] \in {0, o.id}
        PROVE  /\ op' \in [Callers -> Op] /\ Others(c) /\ Placed(op'[c])
               /\ op'[c] = Answered(op[c]) /\ Brings(c)
    <2> DEFINE x == [o EXCEPT !.net = "reply", !.tries = 0, !.token = 0,
                              !.got = g, !.duplicate = d]
    <2>1. Answered(o) \in Op /\ Placed(Answered(o)) /\ Answered(o) = x
      <3>1. o \in Op /\ Placed(o) /\ o.net = "sent"
        BY <1>1
      <3>2. g \in [Hashes -> Numbers] /\ d \in BOOLEAN
        BY <1>4
      <3> HIDE DEF o
      <3>3. Replied(o, g, d) \in Op /\ Placed(Replied(o, g, d))
        BY <3>1, <3>2, RepliedTyped, Zenon
      <3>4. Replied(o, g, d) = x
        BY DEF Replied
      <3> QED
        BY <1>4, <3>3, <3>4
    <2>2. /\ x.kind = o.kind /\ x.step = o.step /\ x.hash = o.hash
          /\ x.id = o.id /\ x.got = g /\ x.found = o.found /\ x.result = o.result
          /\ x.net = "reply"
      BY <1>1, OpFields
    <2>3. op' \in [Callers -> Op] /\ Others(c) /\ op'[c] = x
      BY <1>3, <2>1
    <2> HIDE DEF x
    <2> QED
      BY <1>1, <1>4, <2>1, <2>2, <2>3 DEF Brings
  <1>5. Execute(c)
    BY DEF Answer
  <1>6. CASE o.step = "add"
    <2>1. o.hash \in Hashes
      BY <1>1, <1>6 DEF Placed
    <2>2. CASE torrents[o.hash] = 0
      <3> DEFINE g == [None EXCEPT ![o.hash] = nextId]
      <3>1. /\ nextId \in Numbers /\ nextId # 0
            /\ torrents' = [torrents EXCEPT ![o.hash] = nextId]
        BY <1>1, <1>5, <1>6, <2>2, Executes DEF Numbers
      <3>2. /\ g \in [Hashes -> Numbers] /\ g[o.hash] = nextId
            /\ \A h \in Hashes : g[h] \in {0, torrents'[h]}
        BY <1>1, <2>1, <3>1, NoneTyped DEF Numbers
      <3>3. Answered(o) = Replied(o, g, FALSE)
        BY <1>6, <2>2 DEF Answered
      <3> HIDE DEF g
      <3> QED
        BY <1>1, <1>4, <1>6, <2>1, <3>1, <3>2, <3>3 DEF Bringing
    <2>3. CASE torrents[o.hash] # 0
      <3> DEFINE g == [None EXCEPT ![o.hash] = torrents[o.hash]]
      <3>1. torrents' = torrents
        BY <1>1, <1>5, <1>6, <2>3, Executes
      <3>2. /\ g \in [Hashes -> Numbers] /\ g[o.hash] = torrents[o.hash]
            /\ \A h \in Hashes : g[h] \in {0, torrents[h]}
        BY <1>1, <2>1, NoneTyped DEF Numbers
      <3>3. Answered(o) = Replied(o, g, TRUE)
        BY <1>6, <2>3 DEF Answered
      <3> HIDE DEF g
      <3> QED
        BY <1>4, <1>6, <2>3, <3>1, <3>2, <3>3 DEF Bringing
    <2> QED
      BY <2>2, <2>3
  <1>7. CASE o.step \in {"get", "find", "files"}
    <2> DEFINE g == [h \in Hashes |-> IF torrents[h] = o.id THEN o.id ELSE 0]
    <2>1. torrents' = torrents
      BY <1>1, <1>5, <1>7, Executes
    <2>2. o.id \in Numbers /\ 0 \in Numbers
      BY <1>1, OpFields, TorrentsAssumption DEF Numbers
    <2>3. /\ g \in [Hashes -> Numbers]
          /\ \A h \in Hashes : g[h] \in {0, torrents[h]} /\ g[h] \in {0, o.id}
      BY <2>2
    <2>4. Answered(o) = Replied(o, g, FALSE)
      BY <1>7 DEF Answered
    <2> HIDE DEF g
    <2> QED
      BY <1>4, <1>7, <2>1, <2>3, <2>4 DEF Bringing
  <1>8. CASE o.step \in {"list", "load"}
    <2>1. torrents' = torrents
      BY <1>1, <1>5, <1>8, Executes
    <2>2. Answered(o) = Replied(o, torrents, FALSE)
      BY <1>8 DEF Answered
    <2> QED
      BY <1>1, <1>4, <1>8, <2>1, <2>2 DEF Bringing
  <1>9. CASE o.step \notin Bringing
    <2>1. /\ Between(Return(o, "conflict")) /\ Between(Return(o, "ok"))
          /\ Between(Return(o, "not found")) /\ Between(AfterUse(o))
          /\ Between(Ask(o, "set")) /\ Between(Ask(o, "load"))
          /\ Between(Ask(o, "settings"))
      BY <1>1, ReturnTyped, AskTyped, AfterUseTyped DEF Results, Steps
    <2>2. Between(Looked(o))
      BY <2>1 DEF Looked
    <2>3. Between(Answered(o))
      BY <1>9, <2>1, <2>2 DEF Answered, Bringing
    <2> QED
      BY <1>3, <1>9, <2>3 DEF Between
  <1> QED
    BY <1>6, <1>7, <1>8, <1>9 DEF Bringing

\* The steps after which a request is at its next call, or has ended.
GoesOn(c) ==
  \/ Break(c) \/ Decline(c) \/ (Retry(c) /\ op[c].tries = 2)
  \/ LoadTable(c) \/ Register(c) \/ UnnamedDuplicate(c) \/ Finish(c) \/ Drop(c)

\* Where they bring it.
LEMMA GoesOnTo ==
  ASSUME TypeOK, NEW c \in Callers, Placed(op[c]), GoesOn(c)
  PROVE  /\ op' \in [Callers -> Op] /\ Others(c) /\ Between(op'[c])
         /\ Break(c) \/ Retry(c) => op'[c] = AfterError(op[c])
         /\ Decline(c) => op'[c] = Return(op[c], "ok")
         /\ LoadTable(c) => op'[c] = Return(op[c], "ok")
         /\ UnnamedDuplicate(c) => op'[c] = Return(op[c], "conflict")
         /\ Finish(c) => op'[c] = Finished(op[c])
         /\ Drop(c) => op'[c] = Ask(op[c], "remove")
  <1> DEFINE o == op[c]
  <1>1. op \in [Callers -> Op] /\ o \in Op /\ Placed(o)
    BY DEF TypeOK
  <1>2. ASSUME NEW x, Between(x), op' = [op EXCEPT ![c] = x]
        PROVE  op' \in [Callers -> Op] /\ Others(c) /\ op'[c] = x
    BY <1>1, <1>2, Moved DEF Between, Others, Same
  <1>0. /\ Break(c) \/ (Retry(c) /\ o.tries = 2) => op'[c] = AfterError(o)
        /\ Decline(c) => op'[c] = Return(o, "ok")
    BY <1>1 DEF Break, Retry, Decline
  <1>3. CASE Break(c) \/ (Retry(c) /\ o.tries = 2)
    <2>1. op' = [op EXCEPT ![c] = AfterError(o)]
      BY <1>3 DEF Break, Retry
    <2>2. Between(AfterError(o))
      BY <1>1, AfterErrorTyped
    <2>3. ~LoadTable(c) /\ ~UnnamedDuplicate(c) /\ ~Finish(c) /\ ~Drop(c)
      BY <1>1, <1>3
         DEF Break, Retry, LoadTable, UnnamedDuplicate, Finish, Drop, Enters, Placed
    <2> HIDE DEF o
    <2>4. op' \in [Callers -> Op] /\ Others(c) /\ op'[c] = AfterError(o)
      BY <1>2, <2>1, <2>2
    <2> QED
      BY <1>0, <2>2, <2>3, <2>4 DEF o
  <1>6. CASE Decline(c)
    <2>1. op' = [op EXCEPT ![c] = Return(o, "ok")]
      BY <1>6 DEF Decline
    <2>2. Between(Return(o, "ok"))
      BY <1>1, ReturnTyped DEF Results
    <2>3. /\ ~LoadTable(c) /\ ~UnnamedDuplicate(c) /\ ~Finish(c) /\ ~Drop(c) /\ ~Retry(c)
      BY <1>1, <1>6
         DEF Decline, Retry, LoadTable, UnnamedDuplicate, Finish, Drop, Enters, Placed
    <2> HIDE DEF o
    <2>4. op' \in [Callers -> Op] /\ Others(c) /\ op'[c] = Return(o, "ok")
      BY <1>2, <2>1, <2>2
    <2> QED
      BY <1>0, <2>2, <2>3, <2>4 DEF o
  <1>4. CASE LoadTable(c) \/ UnnamedDuplicate(c) \/ Finish(c) \/ Register(c)
    <2>1. o.net = "reply" /\ ~Break(c) /\ ~Decline(c) /\ ~Retry(c) /\ ~Drop(c)
      BY <1>1, <1>4
         DEF Break, Decline, Retry, LoadTable, UnnamedDuplicate, Finish, Register, Drop, Enters, Placed
    <2>2. CASE LoadTable(c)
      <3>1. op' = [op EXCEPT ![c] = Return(o, "ok")] /\ Between(Return(o, "ok"))
        BY <1>1, <2>2, ReturnTyped DEF LoadTable, Results
      <3>2. ~UnnamedDuplicate(c) /\ ~Finish(c)
        BY <2>2 DEF LoadTable, UnnamedDuplicate, Finish, Enters
      <3> HIDE DEF o
      <3>3. op' \in [Callers -> Op] /\ Others(c) /\ op'[c] = Return(o, "ok")
        BY <1>2, <3>1
      <3> QED
        BY <2>1, <3>1, <3>2, <3>3 DEF o
    <2>3. CASE UnnamedDuplicate(c)
      <3>1. /\ op' = [op EXCEPT ![c] = Return(o, "conflict")]
            /\ Between(Return(o, "conflict"))
        BY <1>1, <2>3, ReturnTyped DEF UnnamedDuplicate, Results
      <3>2. ~LoadTable(c) /\ (Finish(c) => Finished(o) = Return(o, "conflict"))
        BY <2>3 DEF LoadTable, UnnamedDuplicate, Finish, Finished
      <3> HIDE DEF o
      <3>3. op' \in [Callers -> Op] /\ Others(c) /\ op'[c] = Return(o, "conflict")
        BY <1>2, <3>1
      <3> QED
        BY <2>1, <3>1, <3>2, <3>3 DEF o
    <2>4. CASE Finish(c) /\ ~UnnamedDuplicate(c)
      <3>1. op' = [op EXCEPT ![c] = Finished(o)] /\ Between(Finished(o))
        BY <1>1, <2>4, FinishedTyped DEF Finish
      <3>2. ~LoadTable(c)
        BY <2>4 DEF LoadTable, Finish, Enters
      <3> HIDE DEF o
      <3>3. op' \in [Callers -> Op] /\ Others(c) /\ op'[c] = Finished(o)
        BY <1>2, <3>1
      <3> QED
        BY <2>1, <2>4, <3>1, <3>2, <3>3 DEF o
    <2>5. CASE Register(c)
      <3> DEFINE i == o.got[o.hash]
      <3>1. o.hash \in Hashes /\ o.kind = "add" /\ i \in Numbers
        BY <1>1, <2>5, OpFields DEF Register, Placed
      <3>2. ~LoadTable(c) /\ ~UnnamedDuplicate(c) /\ ~Finish(c)
        BY <2>5 DEF LoadTable, UnnamedDuplicate, Finish, Register, Enters
      <3>3. Between(Return(o, "conflict"))
        BY <1>1, ReturnTyped DEF Results
      <3>4. ASSUME NEW b \in BOOLEAN, NEW s \in {"set", "undo"}
            PROVE  /\ Between(Ask([o EXCEPT !.id = i, !.held = b], s))
                   /\ Between(Ask([o EXCEPT !.id = i], s))
        <4> DEFINE x == [o EXCEPT !.id = i, !.held = b]
                   y == [o EXCEPT !.id = i]
        <4>1. /\ x \in Op /\ y \in Op
              /\ x.kind = "add" /\ x.hash = o.hash /\ y.kind = "add" /\ y.hash = o.hash
          BY <1>1, <3>1, OpFields
        <4> HIDE DEF x, y
        <4>2. s \in Steps \ {"idle", "drop"}
          BY DEF Steps
        <4>3. /\ Ask(x, s) \in Op /\ Ask(y, s) \in Op
              /\ Ask(x, s).step = s /\ Ask(y, s).step = s
              /\ Ask(x, s).net = "send" /\ Ask(y, s).net = "send"
              /\ Ask(x, s).tries = 0 /\ Ask(y, s).tries = 0
              /\ Ask(x, s).got = None /\ Ask(y, s).got = None
              /\ Ask(x, s).kind = "add" /\ Ask(y, s).kind = "add"
              /\ Ask(x, s).hash \in Hashes /\ Ask(y, s).hash \in Hashes
          BY <3>1, <4>1, <4>2, AskTyped
        <4>4. Between(Ask(x, s)) /\ Between(Ask(y, s))
          BY <4>3 DEF Between, Placed
        <4> QED
          BY <4>4 DEF x, y
      <3>5. PICK x : op' = [op EXCEPT ![c] = x] /\ Between(x)
        <4>1. \/ op' = [op EXCEPT ![c] = Ask([o EXCEPT !.id = i, !.held = TRUE], "set")]
              \/ op' = [op EXCEPT ![c] = Return(o, "conflict")]
              \/ op' = [op EXCEPT ![c] = Ask([o EXCEPT !.id = i], "undo")]
          BY <2>5 DEF Register
        <4> QED
          BY <3>3, <3>4, <4>1
      <3>6. op' \in [Callers -> Op] /\ Others(c) /\ op'[c] = x
        BY <1>2, <3>5
      <3> QED
        BY <2>1, <3>2, <3>5, <3>6
    <2> QED
      BY <1>4, <2>2, <2>3, <2>4, <2>5
  <1>5. CASE Drop(c)
    <2>1. Between(Ask(o, "remove")) /\ Ask(o, "remove") \in Op
      BY <1>1, <1>5, AskTyped DEF Drop, Between, Placed, Steps
    <2>2. /\ op' \in [Callers -> Op] /\ op'[c] = Ask(o, "remove")
          /\ \A d \in Callers \ {c} : op'[d] = op[d] \/ op'[d] = [op[d] EXCEPT !.held = FALSE]
      <3>1. \A d \in Callers : op[d] \in Op /\ [op[d] EXCEPT !.held = FALSE] \in Op
        BY <1>1, OpFields
      <3>2. CASE op' = [op EXCEPT ![c] = Ask(o, "remove")]
        BY <1>1, <2>1, <3>2, Moved
      <3>3. CASE \E h \in Hashes : op' = [d \in Callers |->
                      IF d = c THEN Ask(op[c], "remove")
                      ELSE IF op[d].hash = h THEN [op[d] EXCEPT !.held = FALSE]
                      ELSE op[d]]
        BY <2>1, <3>1, <3>3
      <3> QED
        BY <1>5, <3>2, <3>3 DEF Drop, TaskByID
    <2>3. Others(c)
      <3>1. \A d \in Callers : op[d] \in Op
        BY <1>1
      <3> QED
        BY <2>2, <3>1, OpFields DEF Others, Same
    <2>4. o.net = "none"
      BY <1>1, <1>5 DEF Drop, Placed
    <2>5. /\ ~Break(c) /\ ~Decline(c) /\ ~Retry(c) /\ ~LoadTable(c) /\ ~UnnamedDuplicate(c)
          /\ ~Finish(c)
      BY <2>4 DEF Break, Decline, Retry, LoadTable, UnnamedDuplicate, Finish, Enters
    <2> QED
      BY <2>1, <2>2, <2>3, <2>5
  <1> QED
    BY <1>3, <1>4, <1>5, <1>6 DEF GoesOn

\* One torrent of a reply is entered.
LEMMA EnsureMoves ==
  ASSUME TypeOK, NEW c \in Callers, Placed(op[c]), NEW h \in Hashes, EnsureTask(c, h)
  PROVE  /\ op' \in [Callers -> Op] /\ Others(c) /\ Placed(op'[c])
         /\ op[c].net = "reply" /\ op'[c].net = "reply"
         /\ op'[c].kind = op[c].kind /\ op'[c].step = op[c].step
         /\ op'[c].id = op[c].id /\ op'[c].tries = op[c].tries
         /\ op'[c].duplicate = op[c].duplicate /\ op'[c].result = op[c].result
         /\ op'[c].found = TRUE /\ op'[c].got = [op[c].got EXCEPT ![h] = 0]
         /\ op'[c].hash = IF op[c].kind = "delete" THEN h ELSE op[c].hash
         /\ tasks' = [tasks EXCEPT ![h] = op[c].got[h]] /\ op[c].got[h] \in Ids
  <1> DEFINE o == op[c]
             i == o.got[h]
             k == IF o.kind = "delete" THEN h ELSE o.hash
             g == [o.got EXCEPT ![h] = 0]
             x == [o EXCEPT !.got = g, !.found = TRUE, !.hash = k]
  <1>1. op \in [Callers -> Op] /\ o \in Op /\ Placed(o)
    BY DEF TypeOK
  <1>2. i \in Numbers /\ i # 0 /\ o.got \in [Hashes -> Numbers] /\ 0 \in Numbers
        /\ o.net = "reply" /\ tasks' = [tasks EXCEPT ![h] = i]
    BY <1>1, OpFields, TorrentsAssumption DEF EnsureTask, Enters, Numbers
  <1>3. /\ x \in Op /\ x.kind = o.kind /\ x.step = o.step /\ x.id = o.id
        /\ x.tries = o.tries /\ x.duplicate = o.duplicate /\ x.result = o.result
        /\ x.found = TRUE /\ x.got = g /\ x.hash = k /\ x.net = o.net
    <2>1. k \in Hashes \cup {NoHash} /\ g \in [Hashes -> Numbers]
      BY <1>1, <1>2, OpFields
    <2> HIDE DEF k, g
    <2> QED
      BY <1>1, <2>1, OpFields
  <1>4. \A d \in Callers : op[d] \in Op /\ [op[d] EXCEPT !.id = i] \in Op
    BY <1>1, <1>2, OpFields
  <1>5. op' = [d \in Callers |-> IF d = c THEN x
                 ELSE IF op[d].held /\ op[d].hash = h THEN [op[d] EXCEPT !.id = i]
                 ELSE op[d]]
    <2>1. op' = Entered(c, h, i)
      BY DEF EnsureTask
    <2>2. [op[c] EXCEPT !.got[h] = 0, !.found = TRUE,
                      !.hash = IF op[c].kind = "delete" THEN h ELSE @] = x
      BY <1>1, <1>2, OpFields
    <2> QED
      BY <2>1, <2>2 DEF Entered
  <1> HIDE DEF x
  <1>6. op' \in [Callers -> Op] /\ op'[c] = x
        /\ \A d \in Callers \ {c} : op'[d] = op[d] \/ op'[d] = [op[d] EXCEPT !.id = i]
    BY <1>3, <1>4, <1>5
  <1>7. Others(c)
    <2>1. \A d \in Callers : op[d] \in Op
      BY <1>1
    <2> QED
      BY <1>6, <2>1, OpFields DEF Others, Same
  <1>8. Placed(x)
    BY <1>1, <1>2, <1>3 DEF Placed
  <1> QED
    BY <1>2, <1>3, <1>6, <1>7, <1>8, TorrentsAssumption DEF Ids, Numbers

----------------------------------------------------------------------------
\* Every step keeps the types and the numbers.

\* A step of one caller leaves the others where they were.
LEMMA PlacedStep ==
  ASSUME Typed, NEW c \in Callers, Others(c), Placed(op'[c])
  PROVE  \A d \in Callers : Placed(op'[d])
  BY DEF Typed, Others, Same, Placed

\* The daemon restarts no more often than anything happens.
LEMMA BootFits ==
  ASSUME Typed, boot' = boot, events' \in {events, events + 1}
  PROVE  boot' <= events' + 1
  <1>1. boot \in Nat /\ events \in Nat /\ boot <= events + 1
    BY TorrentsAssumption DEF Typed, TypeOK, Numbered
  <1>2. CASE events' = events
    BY <1>1, <1>2
  <1>3. CASE events' = events + 1
    BY <1>1, <1>3
  <1> QED
    BY <1>2, <1>3

\* What the daemon does for a call keeps its numbers.
LEMMA ExecuteNumbers ==
  ASSUME Typed, NEW c \in Callers, op[c].net = "sent", Execute(c), events' \in {events, events + 1},
         Others(c), c \notin Calling'
  PROVE  Numbered' /\ torrents' \in [Hashes -> 0..MaxId] /\ nextId' \in 1..(MaxId + 1)
         /\ boot' = boot /\ excused' \subseteq Hashes
  <1>1. /\ torrents \in [Hashes -> 0..MaxId] /\ nextId \in 1..(MaxId + 1) /\ excused \subseteq Hashes
        /\ MaxId \in Nat /\ boot \in Nat /\ events \in Nat /\ boot <= events + 1
        /\ \A h \in Hashes : torrents[h] < nextId /\ torrents[h] \in Nat
        /\ \A g, h \in Hashes : torrents[g] = torrents[h] /\ torrents[g] # 0 => g = h
        /\ nextId + Cardinality(Calling) <= MaxId + 1
    BY TorrentsAssumption DEF Typed, TypeOK, Numbered
  <1>2. /\ Cardinality(Calling) \in Nat /\ Cardinality(Calling') \in Nat
        /\ Cardinality(Calling') <= Cardinality(Calling)
        /\ c \in Calling => Cardinality(Calling') + 1 <= Cardinality(Calling)
    BY CallsEnd
  <1>3. boot' = boot
    BY Executes
  <1>4. boot' <= events' + 1
    BY <1>3, BootFits
  <1>5. CASE /\ op[c].step = "add" /\ op[c].hash \in Hashes /\ torrents[op[c].hash] = 0
             /\ nextId \in 1..MaxId /\ nextId' = nextId + 1 /\ excused' = excused
             /\ torrents' = [torrents EXCEPT ![op[c].hash] = nextId]
    <2>1. c \in Calling
      BY <1>5 DEF Calling
    <2>2. nextId' + Cardinality(Calling') <= MaxId + 1
      BY <1>1, <1>2, <1>5, <2>1
    <2>3. torrents' \in [Hashes -> 0..MaxId] /\ nextId' \in 1..(MaxId + 1)
      BY <1>1, <1>5
    <2>4. /\ \A h \in Hashes : torrents'[h] < nextId'
          /\ \A g, h \in Hashes : torrents'[g] = torrents'[h] /\ torrents'[g] # 0 => g = h
      BY <1>1, <1>5
    <2> QED
      BY <1>1, <1>3, <1>4, <1>5, <2>2, <2>3, <2>4 DEF Numbered
  <1>6. CASE /\ nextId' = nextId
             /\ torrents' = [h \in Hashes |-> IF torrents[h] = op[c].id THEN 0 ELSE torrents[h]]
             /\ excused' = IF alone = c THEN excused
                           ELSE excused \cup {h \in Hashes : torrents[h] = op[c].id}
    <2>1. \A h \in Hashes : torrents'[h] \in {0, torrents[h]}
      BY <1>1, <1>6
    <2>2. torrents' \in [Hashes -> 0..MaxId]
      BY <1>1, <1>6
    <2>3. /\ \A h \in Hashes : torrents'[h] < nextId'
          /\ \A g, h \in Hashes : torrents'[g] = torrents'[h] /\ torrents'[g] # 0 => g = h
      BY <1>1, <1>6, <2>1
    <2> QED
      BY <1>1, <1>2, <1>3, <1>4, <1>6, <2>2, <2>3 DEF Numbered
  <1>7. CASE UNCHANGED <<torrents, nextId, excused>>
    <2>1. nextId' + Cardinality(Calling') <= MaxId + 1
      BY <1>1, <1>2, <1>7
    <2> QED
      BY <1>1, <1>3, <1>4, <1>7, <2>1 DEF Numbered
  <1> QED
    BY <1>5, <1>6, <1>7, Executes

\* A step of a request.
LEMMA StepTyped ==
  ASSUME Typed, NEW c \in Callers, Step(c)
  PROVE  Typed'
  <1>1. TypeOK /\ Numbered /\ Placed(op[c])
    BY DEF Typed
  <1>2. ASSUME Others(c), op' \in [Callers -> Op], Placed(op'[c]), c \in Calling' => c \in Calling,
               UNCHANGED <<boot, torrents, nextId, excused, alone, limited>>, declined' \in BOOLEAN,
               sessionID' \in {sessionID, op[c].token}, attached' \in BOOLEAN,
               tasks' \in [Hashes -> 0..MaxId], events' \in {events, events + 1},
               events' \in 0..MaxEvents
        PROVE  Typed'
    <2>1. \A d \in Callers : Placed(op'[d])
      BY <1>2, PlacedStep
    <2>2. op[c].token \in 0..(MaxEvents + 1)
      BY <1>1, OpFields DEF TypeOK, Tokens
    <2>3. TypeOK'
      BY <1>1, <1>2, <2>2 DEF TypeOK
    <2>4. /\ Cardinality(Calling) \in Nat /\ Cardinality(Calling') \in Nat
          /\ Cardinality(Calling') <= Cardinality(Calling)
      BY <1>2, CallsEnd
    <2>5. Numbered'
      <3>1. nextId' + Cardinality(Calling') <= MaxId + 1
        BY <1>1, <1>2, <2>4, TorrentsAssumption DEF Numbered, TypeOK
      <3>2. boot' <= events' + 1
        BY <1>2, BootFits
      <3> QED
        BY <1>1, <1>2, <3>1, <3>2 DEF Numbered
    <2> QED
      BY <2>1, <2>3, <2>5 DEF Typed
  <1>3. CASE Send(c) \/ Refuse(c) \/ (Retry(c) /\ op[c].tries # 2)
    <2>1. Others(c) /\ op' \in [Callers -> Op] /\ Placed(op'[c]) /\ Resent(c)
      BY <1>1, <1>3, CallMoves
    <2>2. /\ UNCHANGED <<boot, torrents, nextId, excused, alone, tasks, attached, events,
                       limited, declined>>
          /\ sessionID' \in {sessionID, op[c].token}
      BY <1>3 DEF Send, Refuse, Retry, daemon, table
    <2>3. c \in Calling' => c \in Calling
      BY <2>1 DEF Calling, Resent
    <2> QED
      BY <1>1, <1>2, <2>1, <2>2, <2>3 DEF TypeOK
  <1>4. ASSUME op[c].net = "sent", Execute(c), events' \in {events, events + 1},
               events' \in 0..MaxEvents, UNCHANGED <<sessionID, table, limited, alone, declined>>,
               Others(c), op' \in [Callers -> Op], Placed(op'[c]), c \notin Calling'
        PROVE  Typed'
    <2>1. Numbered' /\ torrents' \in [Hashes -> 0..MaxId] /\ nextId' \in 1..(MaxId + 1)
          /\ boot' = boot /\ excused' \subseteq Hashes
      BY <1>4, ExecuteNumbers
    <2>2. \A d \in Callers : Placed(op'[d])
      BY <1>4, PlacedStep
    <2> QED
      BY <1>1, <1>4, <2>1, <2>2 DEF Typed, TypeOK, table
  <1>5. CASE Answer(c)
    <2>1. Others(c) /\ op' \in [Callers -> Op] /\ Placed(op'[c])
          /\ IF op[c].step \in Bringing THEN Brings(c) ELSE Between(op'[c])
      BY <1>5, AnswerMoves
    <2>2. c \notin Calling'
      BY <2>1 DEF Calling, Brings, Between
    <2> QED
      BY <1>1, <1>4, <1>5, <2>1, <2>2 DEF Answer, TypeOK
  <1>6. CASE GoesOn(c)
    <2>1. Others(c) /\ op' \in [Callers -> Op] /\ Between(op'[c]) /\ Placed(op'[c])
      BY <1>1, <1>6, GoesOnTo DEF Between
    <2>2. c \notin Calling'
      BY <2>1 DEF Calling, Between
    <2>3. CASE Break(c)
      <3>1. events' = events + 1 /\ events' \in 0..MaxEvents
        BY <1>1, <2>3, TorrentsAssumption DEF Break, Happens, TypeOK
      <3>2. CASE Execute(c)
        BY <1>4, <2>1, <2>2, <2>3, <3>1, <3>2 DEF Break
      <3>3. CASE UNCHANGED <<daemon, excused>>
        BY <1>1, <1>2, <2>1, <2>2, <2>3, <3>1, <3>3 DEF Break, daemon, table, TypeOK
      <3> QED
        BY <2>3, <3>2, <3>3 DEF Break
    <2>5. CASE Decline(c)
      <3>1. events' = events + 1 /\ events' \in 0..MaxEvents
        BY <1>1, <2>5, TorrentsAssumption DEF Decline, Happens, TypeOK
      <3> QED
        BY <1>1, <1>2, <2>1, <2>2, <2>5, <3>1 DEF Decline, daemon, table, TypeOK
    <2>4. CASE ~Break(c) /\ ~Decline(c)
      <3>1. op[c].got \in [Hashes -> 0..MaxId]
        BY <1>1, OpFields DEF TypeOK, Numbers
      <3>2. /\ UNCHANGED <<boot, torrents, nextId, excused, alone, events, limited, declined>>
            /\ sessionID' \in {sessionID, op[c].token}
        BY <1>6, <2>4
           DEF GoesOn, Retry, LoadTable, Register, UnnamedDuplicate, Finish, Drop, daemon
      <3>3. attached' \in {attached, TRUE}
        BY <1>6, <2>4
           DEF GoesOn, Retry, LoadTable, Register, UnnamedDuplicate, Finish, Drop, table
      <3>4. tasks' \in [Hashes -> 0..MaxId]
        <4>1. CASE LoadTable(c)
          BY <3>1, <4>1 DEF LoadTable
        <4>2. CASE Register(c)
          <5>1. op[c].hash \in Hashes
            BY <1>1, <4>2 DEF Register, Placed
          <5> QED
            BY <1>1, <3>1, <4>2, <5>1 DEF Register, TypeOK
        <4>3. CASE Drop(c)
          BY <1>1, <4>3, TorrentsAssumption DEF Drop, TypeOK, TaskByID
        <4>4. CASE Retry(c) \/ UnnamedDuplicate(c) \/ Finish(c)
          BY <1>1, <4>4 DEF Retry, UnnamedDuplicate, Finish, TypeOK, table
        <4> QED
          BY <1>6, <2>4, <4>1, <4>2, <4>3, <4>4 DEF GoesOn
      <3> QED
        BY <1>1, <1>2, <2>1, <2>2, <3>2, <3>3, <3>4 DEF TypeOK
    <2> QED
      BY <2>3, <2>4, <2>5
  <1>7. ASSUME NEW h \in Hashes, EnsureTask(c, h)
        PROVE  Typed'
    <2>1. /\ Others(c) /\ op' \in [Callers -> Op] /\ Placed(op'[c]) /\ op'[c].net = "reply"
          /\ tasks' = [tasks EXCEPT ![h] = op[c].got[h]] /\ op[c].got[h] \in Ids
      BY <1>1, <1>7, EnsureMoves
    <2>2. c \notin Calling'
      BY <2>1 DEF Calling
    <2>3. tasks' \in [Hashes -> 0..MaxId]
      BY <1>1, <2>1, TorrentsAssumption DEF TypeOK, Ids
    <2> QED
      BY <1>1, <1>2, <1>7, <2>1, <2>2, <2>3 DEF EnsureTask, daemon, TypeOK
  <1> QED
    BY <1>3, <1>5, <1>6, <1>7 DEF Step, GoesOn

\* A request begins: one that may need a number has room for it.
LEMMA BeginTyped ==
  ASSUME Typed, NEW c \in Callers, NEW o \in Op, FirstCall(o), Begins(c, o), o.step = "add" => Room
  PROVE  Typed'
  <1>1. TypeOK /\ Numbered /\ Placed(op[c])
    BY DEF Typed
  <1>2. /\ op' \in [Callers -> Op] /\ Others(c) /\ Placed(op'[c])
        /\ op'[c] = IF attached THEN o ELSE Return(o, "unavailable")
        /\ ~attached => Between(op'[c])
    BY <1>1, BeginMoves
  <1>3. /\ UNCHANGED <<boot, torrents, nextId, sessionID, tasks, attached, events, excused,
                     limited>>
        /\ declined' = FALSE
    BY DEF Begins, daemon, table
  <1>4. alone' \in Callers \cup {Nobody}
    BY DEF Begins
  <1>5. \A d \in Callers : Placed(op'[d])
    BY <1>2, PlacedStep
  <1>6. nextId + Cardinality(Calling') <= MaxId + 1
    <2>1. CASE c \notin Calling'
      BY <1>1, <1>2, <2>1, CallsEnd, TorrentsAssumption DEF Numbered, TypeOK
    <2>2. CASE c \in Calling'
      <3>1. o.step = "add"
        BY <1>2, <2>2 DEF Calling, Between
      <3>2. nextId + Cardinality(Calling) <= MaxId
        BY <3>1 DEF Room, Calling
      <3>3. Calling' \subseteq Calling \cup {c}
        BY <1>2 DEF Calling, Others, Same
      <3>4. IsFiniteSet(Calling) /\ Cardinality(Calling) \in Nat
        BY FiniteCallers, FS_Subset, FS_CardinalityType DEF Calling
      <3>5. /\ IsFiniteSet(Calling \cup {c})
            /\ Cardinality(Calling \cup {c}) \in Nat
            /\ Cardinality(Calling \cup {c}) <= Cardinality(Calling) + 1
        BY <3>4, FS_AddElement
      <3>6. /\ Cardinality(Calling') <= Cardinality(Calling \cup {c})
            /\ Cardinality(Calling') \in Nat
        BY <3>3, <3>5, FS_Subset, FS_CardinalityType
      <3> QED
        BY <1>1, <3>2, <3>4, <3>5, <3>6, TorrentsAssumption DEF TypeOK
    <2> QED
      BY <2>1, <2>2
  <1> QED
    BY <1>1, <1>2, <1>3, <1>4, <1>5, <1>6 DEF Typed, TypeOK, Numbered

\* The daemon has no more torrents than numbers given.
LEMMA FewTorrents ==
  ASSUME Typed
  PROVE  /\ Cardinality({h \in Hashes : torrents[h] # 0}) \in Nat
         /\ Cardinality({h \in Hashes : torrents[h] # 0}) + 1 <= nextId
  <1> DEFINE there == {h \in Hashes : torrents[h] # 0}
             number == [h \in there |-> torrents[h]]
             given == 1..(nextId - 1)
  <1>1. /\ nextId \in Nat /\ nextId >= 1 /\ torrents \in [Hashes -> Nat]
        /\ \A h \in Hashes : torrents[h] < nextId
        /\ \A g, h \in Hashes : torrents[g] = torrents[h] /\ torrents[g] # 0 => g = h
    BY TorrentsAssumption DEF Typed, TypeOK, Numbered
  <1>2. \A h \in there : number[h] \in given
    BY <1>1
  <1>3. \A g, h \in there : number[g] = number[h] => g = h
    BY <1>1
  <1>4. number \in Injection(there, given)
    BY <1>2, <1>3 DEF Injection, IsInjective
  <1>5. IsFiniteSet(given) /\ Cardinality(given) = nextId - 1
    BY <1>1, FS_Interval
  <1>6. Cardinality(there) <= Cardinality(given) /\ IsFiniteSet(there)
    BY <1>4, <1>5, FS_Injection
  <1>7. Cardinality(there) \in Nat
    BY <1>6, FS_CardinalityType
  <1> QED
    BY <1>1, <1>5, <1>6, <1>7

\* A step of the world.
LEMMA WorldTyped ==
  ASSUME Typed, World
  PROVE  Typed'
  <1>1. /\ TypeOK /\ Numbered /\ \A c \in Callers : Placed(op[c])
        /\ MaxId \in Nat /\ MaxEvents \in Nat
    BY TorrentsAssumption DEF Typed
  <1>2. /\ op' = op /\ Calling' = Calling /\ alone' = Nobody
        /\ UNCHANGED <<sessionID, tasks, attached, limited, declined>>
        /\ events' = events + 1 /\ events' \in 0..MaxEvents
    BY <1>1 DEF World, AddElsewhere, RemoveElsewhere, Restart, Happens, Calling, table, TypeOK
  <1>3. Cardinality(Calling) \in Nat
    BY FiniteCallers, FS_Subset, FS_CardinalityType DEF Calling
  <1>4. ASSUME torrents' \in [Hashes -> 0..MaxId], nextId' \in 1..(MaxId + 1),
               nextId' + Cardinality(Calling) <= MaxId + 1, boot' \in 1..(MaxEvents + 1),
               boot' <= events' + 1, excused' \subseteq Hashes,
               \A h \in Hashes : torrents'[h] < nextId',
               \A g, h \in Hashes : torrents'[g] = torrents'[h] /\ torrents'[g] # 0 => g = h
        PROVE  Typed'
    BY <1>1, <1>2, <1>4 DEF Typed, TypeOK, Numbered
  <1>5. ASSUME UNCHANGED boot
        PROVE  boot' <= events' + 1 /\ boot' \in 1..(MaxEvents + 1)
    BY <1>1, <1>2, <1>5, BootFits DEF TypeOK
  <1>6. ASSUME NEW h \in Hashes, AddElsewhere(h)
        PROVE  Typed'
    <2>1. /\ nextId + Cardinality(Calling) <= MaxId /\ nextId' = nextId + 1
          /\ torrents' = [torrents EXCEPT ![h] = nextId] /\ UNCHANGED <<boot, excused>>
      BY <1>6 DEF AddElsewhere, Room, Calling
    <2>2. nextId \in 1..MaxId /\ nextId' \in 1..(MaxId + 1)
          /\ nextId' + Cardinality(Calling) <= MaxId + 1
      BY <1>1, <1>3, <2>1 DEF TypeOK
    <2>3. /\ torrents' \in [Hashes -> 0..MaxId]
          /\ \A g \in Hashes : torrents'[g] < nextId'
          /\ \A g, k \in Hashes : torrents'[g] = torrents'[k] /\ torrents'[g] # 0 => g = k
      BY <1>1, <2>1, <2>2 DEF TypeOK, Numbered
    <2> QED
      BY <1>1, <1>4, <1>5, <2>1, <2>2, <2>3 DEF TypeOK
  <1>7. ASSUME NEW h \in Hashes, RemoveElsewhere(h)
        PROVE  Typed'
    <2>1. /\ torrents' = [torrents EXCEPT ![h] = 0] /\ UNCHANGED <<boot, nextId>>
          /\ excused' = excused \cup {h}
      BY <1>7 DEF RemoveElsewhere
    <2>2. /\ torrents' \in [Hashes -> 0..MaxId]
          /\ \A g \in Hashes : torrents'[g] < nextId'
          /\ \A g, k \in Hashes : torrents'[g] = torrents'[k] /\ torrents'[g] # 0 => g = k
      BY <1>1, <2>1 DEF TypeOK, Numbered
    <2>3. nextId' + Cardinality(Calling) <= MaxId + 1 /\ nextId' \in 1..(MaxId + 1)
          /\ excused' \subseteq Hashes
      BY <1>1, <2>1 DEF TypeOK, Numbered
    <2> QED
      BY <1>4, <1>5, <2>1, <2>2, <2>3
  <1>8. CASE Restart
    <2> DEFINE there == {h \in Hashes : torrents[h] # 0}
               n == Cardinality(there)
    <2>1. n \in Nat /\ n + 1 <= nextId
      BY FewTorrents
    <2>2. /\ boot' = boot + 1 /\ torrents' \in [Hashes -> 0..n]
          /\ \A h \in Hashes : torrents'[h] = 0 <=> h \notin there
          /\ \A g, h \in there : torrents'[g] = torrents'[h] => g = h
          /\ nextId' = n + 1 /\ excused' = Hashes
      BY <1>8 DEF Restart
    <2> HIDE DEF n
    <2>3. /\ nextId' \in 1..(MaxId + 1) /\ n <= MaxId
          /\ nextId' + Cardinality(Calling) <= MaxId + 1
      BY <1>1, <1>3, <2>1, <2>2 DEF TypeOK, Numbered
    <2>4. torrents' \in [Hashes -> 0..MaxId] /\ \A h \in Hashes : torrents'[h] < nextId'
      BY <1>1, <2>1, <2>2, <2>3
    <2>5. \A g, h \in Hashes : torrents'[g] = torrents'[h] /\ torrents'[g] # 0 => g = h
      BY <2>2
    <2>6. boot' <= events' + 1 /\ boot' \in 1..(MaxEvents + 1)
      <3>1. boot \in 1..(MaxEvents + 1) /\ boot <= events + 1 /\ events \in 0..MaxEvents
        BY <1>1 DEF TypeOK, Numbered
      <3> QED
        BY <1>1, <1>2, <2>2, <3>1
    <2> QED
      BY <1>4, <2>2, <2>3, <2>4, <2>5, <2>6
  <1> QED
    BY <1>6, <1>7, <1>8 DEF World

\* The first state.
LEMMA InitTyped ==
  ASSUME Init
  PROVE  Typed
  <1>1. MaxId \in Nat /\ MaxEvents \in Nat /\ None \in [Hashes -> 0..MaxId]
    BY NoneTyped, TorrentsAssumption
  <1>2. Between(Idle) /\ Placed(Idle) /\ Idle \in Op /\ Idle.step = "idle"
    BY IdleTyped DEF Between
  <1>3. Placed(Connect) /\ Connect \in Op /\ Connect.step = "hello"
    <2> DEFINE i == Idle
               o == [i EXCEPT !.kind = "connect"]
    <2>1. i \in Op /\ i.net = "none" /\ i.step = "idle" /\ i.got = None /\ i.tries = 0
      BY <1>2, IdleTyped DEF Placed
    <2>2. "connect" \in Kinds
      BY DEF Kinds
    <2> HIDE DEF i
    <2>3. o \in Op /\ o.net = "none" /\ o.step = "idle" /\ o.got = None /\ o.tries = 0
          /\ o.kind = "connect"
      BY <2>1, <2>2, OpFields
    <2> HIDE DEF o
    <2>4. Placed(o)
      BY <2>3 DEF Placed
    <2>5. Between(Ask(o, "hello")) /\ Ask(o, "hello") \in Op /\ Ask(o, "hello").step = "hello"
      BY <2>3, <2>4, AskTyped DEF Steps
    <2> QED
      BY <2>5 DEF Between, Connect, o, i
  <1>4. op \in [Callers -> Op] /\ (\A c \in Callers : Placed(op[c])) /\ Calling = {}
    BY <1>2, <1>3 DEF Init, Calling
  <1>5. Cardinality(Calling) = 0
    BY <1>4, FS_EmptySet
  <1>6. PICK S \in SUBSET Hashes :
          /\ Cardinality(S) <= MaxId
          /\ torrents \in [Hashes -> 0..Cardinality(S)]
          /\ \A h \in Hashes : torrents[h] = 0 <=> h \notin S
          /\ \A g, h \in S : torrents[g] = torrents[h] => g = h
          /\ nextId = Cardinality(S) + 1
    BY DEF Init
  <1>7. Cardinality(S) \in Nat
    BY TorrentsAssumption, FS_Subset, FS_CardinalityType
  <1>8. torrents \in [Hashes -> 0..MaxId] /\ nextId \in 1..(MaxId + 1)
    BY <1>1, <1>6, <1>7
  <1>9. /\ \A h \in Hashes : torrents[h] < nextId
        /\ \A g, h \in Hashes : torrents[g] = torrents[h] /\ torrents[g] # 0 => g = h
        /\ nextId + Cardinality(Calling) <= MaxId + 1
    BY <1>1, <1>5, <1>6, <1>7
  <1>10. boot = 1 /\ sessionID = 0 /\ tasks = None /\ attached = FALSE /\ events = 0
         /\ alone = Watch /\ excused = {} /\ limited \in BOOLEAN /\ declined = FALSE
    BY DEF Init
  <1>11. boot <= events + 1 /\ boot \in 1..(MaxEvents + 1) /\ sessionID \in 0..(MaxEvents + 1)
         /\ events \in 0..MaxEvents
    BY <1>1, <1>10
  <1>12. alone \in Callers \cup {Nobody}
    BY <1>10 DEF Callers
  <1> QED
    BY <1>1, <1>4, <1>8, <1>9, <1>10, <1>11, <1>12 DEF Typed, TypeOK, Numbered

\* Every step keeps the types and the numbers.
LEMMA TypedStep ==
  ASSUME Typed, [Next]_vars
  PROVE  Typed'
  <1>1. Watch \in Callers /\ Requests \subseteq Callers
    BY DEF Callers
  <1>2. CASE UNCHANGED vars
    <2>1. Calling' = Calling /\ op' = op
      BY <1>2 DEF vars, Calling
    <2>2. Numbered'
      BY <1>2, <2>1 DEF vars, Typed, Numbered
    <2> QED
      BY <1>2, <2>1, <2>2 DEF vars, Typed, TypeOK
  <1>4. CASE SetLimit
    <2>1. Calling' = Calling /\ op' = op
      BY <1>4 DEF SetLimit, Calling
    <2>2. Numbered'
      BY <1>4, <2>1 DEF SetLimit, daemon, Typed, Numbered
    <2>3. TypeOK'
      BY <1>4 DEF SetLimit, daemon, table, Typed, TypeOK
    <2> QED
      BY <2>1, <2>2, <2>3 DEF Typed
  <1>3. ASSUME NEW c \in Callers, BeginRequest(c) \/ ListTasks(c)
        PROVE  Typed'
    BY <1>3, FirstCalls, BeginTyped
  <1> QED
    BY <1>1, <1>2, <1>3, <1>4, StepTyped, WorldTyped DEF Next, WatchLists

\* The types of the state, and that no more numbers are given than there are.
THEOREM TypesCorrect == Spec => []TypeOK
  <1>1. Init => Typed
    BY InitTyped
  <1>2. Typed /\ [Next]_vars => Typed'
    BY TypedStep
  <1>3. Typed => TypeOK
    BY DEF Typed
  <1> QED
    BY <1>1, <1>2, <1>3, PTL DEF Spec

----------------------------------------------------------------------------
\* Calls are given up only after a restart.

\* Before the daemon has restarted there is one session id: a call that was
\* refused has learned it, and it is sent with the next attempt.
Knows(o) ==
  /\ o.tries # 0 => sessionID = 1
  /\ o.net = "sent" /\ o.tries # 0 => o.token = 1
  /\ o.net = "refused" => o.tries = 0 /\ o.token = 1

Known == boot = 1 => sessionID \in {0, 1} /\ \A c \in Callers : Knows(op[c])

\* A step that neither learns a session id nor leaves its caller with a call on
\* its way.
LEMMA KnownElsewhere ==
  ASSUME Known, NEW c \in Callers, Others(c), UNCHANGED <<boot, sessionID>>,
         op'[c].net \notin {"sent", "refused"}, op'[c].tries = 0
  PROVE  Known'
  BY DEF Known, Knows, Others, Same

\* A call on its way: a refusal counts only after a restart the caller has not
\* heard of.
LEMMA KnownCall ==
  ASSUME Typed, Known, NEW c \in Callers,
         Send(c) \/ Refuse(c) \/ (Retry(c) /\ op[c].tries # 2)
  PROVE  Known'
  <1> DEFINE o == op[c]
             p == op'[c]
  <1>1. op \in [Callers -> Op] /\ o \in Op /\ Others(c)
    BY CallMoves DEF Typed, TypeOK
  <1>2. SUFFICES ASSUME boot' = 1 PROVE Known'
    BY DEF Known
  <1>3. boot = 1 /\ sessionID \in {0, 1} /\ \A d \in Callers : Knows(op[d])
    BY <1>2 DEF Send, Refuse, Retry, daemon, Known
  <1>4. Knows(o)
    BY <1>3
  <1>5. CASE Send(c)
    <2>1. p = [o EXCEPT !.net = "sent", !.token = sessionID] /\ UNCHANGED sessionID
      BY <1>1, <1>5 DEF Send
    <2>2. p.net = "sent" /\ p.token = sessionID /\ p.tries = o.tries
      BY <1>1, <2>1, OpFields
    <2>3. Knows(op[c])'
      BY <1>4, <2>1, <2>2 DEF Knows
    <2> QED
      BY <1>1, <1>3, <2>1, <2>3 DEF Known, Knows, Others, Same
  <1>6. CASE Refuse(c)
    <2>1. /\ p = [o EXCEPT !.net = "refused", !.token = boot] /\ UNCHANGED sessionID
          /\ o.net = "sent" /\ o.token # 1
      BY <1>1, <1>3, <1>6 DEF Refuse
    <2>2. p.net = "refused" /\ p.token = 1 /\ p.tries = o.tries
      BY <1>1, <1>3, <2>1, OpFields
    <2>3. Knows(op[c])'
      BY <1>4, <2>1, <2>2 DEF Knows
    <2>4. \A d \in Callers \ {c} : Knows(op[d])'
      BY <1>1, <1>3, <2>1 DEF Knows, Others, Same
    <2> QED
      BY <1>3, <2>1, <2>3, <2>4 DEF Known
  <1>7. CASE Retry(c) /\ o.tries # 2
    <2>1. /\ op' = [op EXCEPT ![c] = IF o.tries = 2 THEN AfterError(o)
                      ELSE [o EXCEPT !.net = "send", !.tries = o.tries + 1, !.token = 0]]
          /\ o.net = "refused" /\ sessionID' = o.token
      BY <1>7 DEF Retry
    <2>2. p = [o EXCEPT !.net = "send", !.tries = o.tries + 1, !.token = 0]
      BY <1>1, <1>7, <2>1
    <2>3. p.net = "send" /\ sessionID' = 1
      BY <1>1, <1>4, <2>1, <2>2, OpFields DEF Knows
    <2>4. Knows(op[c])'
      BY <2>3 DEF Knows
    <2> QED
      BY <1>1, <1>3, <2>3, <2>4 DEF Known, Knows, Others, Same
  <1> QED
    BY <1>5, <1>6, <1>7

\* Every step keeps it.
LEMMA KnownStep ==
  ASSUME Typed, Known, [Next]_vars
  PROVE  Known'
  <1>1. TypeOK /\ Watch \in Callers /\ Requests \subseteq Callers
        /\ \A c \in Callers : Placed(op[c])
    BY DEF Typed, Callers
  <1>2. CASE UNCHANGED vars \/ SetLimit
    BY <1>2 DEF vars, SetLimit, daemon, Known, Knows
  <1>3. ASSUME NEW c \in Callers, BeginRequest(c) \/ ListTasks(c)
        PROVE  Known'
    <2>1. PICK o \in Op : FirstCall(o) /\ Begins(c, o)
      BY <1>3, FirstCalls
    <2>2. Others(c) /\ op'[c].net \notin {"sent", "refused"} /\ op'[c].tries = 0
      BY <1>1, <2>1, BeginMoves DEF FirstCall, Between
    <2> QED
      BY <2>1, <2>2, KnownElsewhere DEF Begins, daemon
  <1>4. ASSUME NEW c \in Callers, Answer(c)
        PROVE  Known'
    <2>1. Others(c) /\ Placed(op'[c])
          /\ IF op[c].step \in Bringing THEN Brings(c) ELSE Between(op'[c])
      BY <1>4, AnswerMoves
    <2>2. op'[c].net \notin {"sent", "refused"} /\ op'[c].tries = 0
      BY <2>1 DEF Placed, Brings, Between
    <2>3. boot' = boot
      BY <1>4, Executes DEF Answer
    <2> QED
      BY <1>4, <2>1, <2>2, <2>3, KnownElsewhere DEF Answer
  <1>5. ASSUME NEW c \in Callers, GoesOn(c)
        PROVE  Known'
    <2>1. Others(c) /\ op'[c].net \notin {"sent", "refused"} /\ op'[c].tries = 0
      BY <1>1, <1>5, GoesOnTo DEF Between
    <2>2. boot' = boot
      BY <1>5, Executes
         DEF GoesOn, Break, Decline, Retry, LoadTable, Register, UnnamedDuplicate, Finish, Drop,
             daemon
    <2>3. CASE UNCHANGED sessionID
      BY <2>1, <2>2, <2>3, KnownElsewhere
    <2>4. CASE Retry(c) /\ op[c].tries = 2
      BY <1>5, <2>1, <2>2, <2>4 DEF Retry, Known, Knows
    <2> QED
      BY <1>5, <2>3, <2>4
         DEF GoesOn, Break, Decline, Retry, LoadTable, Register, UnnamedDuplicate, Finish, Drop
  <1>6. ASSUME NEW c \in Callers, NEW h \in Hashes, EnsureTask(c, h)
        PROVE  Known'
    <2>1. Others(c) /\ op'[c].net = "reply" /\ Placed(op'[c])
      BY <1>1, <1>6, EnsureMoves
    <2> QED
      BY <1>6, <2>1, KnownElsewhere DEF EnsureTask, daemon, Placed
  <1>7. CASE World
    <2>1. op' = op /\ UNCHANGED sessionID
      BY <1>7 DEF World, AddElsewhere, RemoveElsewhere, Restart, table
    <2>2. boot' # boot => boot' # 1
      BY <1>1, <1>7, TorrentsAssumption
         DEF World, AddElsewhere, RemoveElsewhere, Restart, TypeOK
    <2> QED
      BY <2>1, <2>2 DEF Known, Knows
  <1> QED
    BY <1>1, <1>2, <1>3, <1>4, <1>5, <1>6, <1>7, KnownCall
       DEF Next, WatchLists, Step, GoesOn

\* A call is given up after three refusals only if the daemon has restarted,
\* whichever calls overwrite the session id in between (callResult).
THEOREM GivesUpLate == Spec => []GivesUpOnlyAfterRestart
  <1>1. Init => Typed /\ Known
    <2> SUFFICES ASSUME Init PROVE Typed /\ Known
      OBVIOUS
    <2>1. Typed /\ sessionID = 0
      BY InitTyped DEF Init
    <2>2. \A c \in Callers : op[c].net \notin {"sent", "refused"} /\ op[c].tries = 0
      BY NoneTyped DEF Init, Connect, Ask, Idle
    <2> QED
      BY <2>1, <2>2 DEF Known, Knows
  <1>2. Typed /\ Known /\ [Next]_vars => (Typed /\ Known)'
    BY TypedStep, KnownStep
  <1>3. Typed /\ Known => GivesUpOnlyAfterRestart
    <2> SUFFICES ASSUME Typed, Known, NEW c \in Callers, op[c].net = "refused", op[c].tries = 2
                 PROVE  boot > 1
      BY DEF GivesUpOnlyAfterRestart
    <2>1. boot \in Nat /\ boot >= 1
      BY TorrentsAssumption DEF Typed, TypeOK
    <2>2. boot # 1
      BY DEF Known, Knows
    <2> QED
      BY <2>1, <2>2
  <1> QED
    BY <1>1, <1>2, <1>3, PTL DEF Spec

----------------------------------------------------------------------------
\* What the entries and the replies say of the torrents.

\* What the table has of a torrent, and what a reply yet to be entered brings,
\* is the torrent's number or nothing, unless the torrent is excused.
Current ==
  \A h \in Hashes \ excused :
    /\ tasks[h] \in {0, torrents[h]}
    /\ \A c \in Callers : op[c].got[h] \in {0, torrents[h]}

Refers(h, i) == torrents[h] = i \/ tasks[h] = i \/ \E c \in Callers : op[c].got[h] = i

\* Before a restart no number stands for two torrents, whichever of them are
\* still there, nor for one to come.
Unshared ==
  excused # Hashes =>
    \A h \in Hashes, i \in Ids : Refers(h, i) =>
      i < nextId /\ \A g \in Hashes : Refers(g, i) => g = h

\* Entries come from replies, and replies from the daemon.
Draws ==
  /\ excused \subseteq excused'
  /\ \A h \in Hashes : \/ tasks'[h] = 0 \/ tasks'[h] = tasks[h]
                       \/ \E c \in Callers : tasks'[h] = op[c].got[h]
  /\ \A h \in Hashes, c \in Callers : op'[c].got[h] \in {0, op[c].got[h], torrents'[h]}

\* Then no two torrents come to share a number.
LEMMA UnsharedStep ==
  ASSUME Typed, Typed', Unshared, Draws, nextId' \in {nextId, nextId + 1},
         \A h \in Hashes : torrents'[h] \in {0, torrents[h], nextId}
  PROVE  Unshared'
  <1> SUFFICES ASSUME excused' # Hashes, NEW h \in Hashes, NEW i \in Ids, Refers(h, i)'
               PROVE  i < nextId' /\ \A g \in Hashes : Refers(g, i)' => g = h
    BY DEF Unshared
  <1>1. excused # Hashes
    BY DEF Draws, Typed, TypeOK
  <1>2. /\ nextId \in Nat /\ nextId' \in Nat /\ i \in Nat /\ i # 0
        /\ \A k \in Hashes : torrents'[k] < nextId'
        /\ \A g, k \in Hashes : torrents'[g] = torrents'[k] /\ torrents'[g] # 0 => g = k
    BY TorrentsAssumption DEF Typed, TypeOK, Numbered, Ids
  <1>3. ASSUME NEW g \in Hashes, Refers(g, i)'
        PROVE  Refers(g, i) \/ (i = nextId /\ torrents'[g] = nextId)
    <2>1. torrents'[g] = i => Refers(g, i) \/ (i = nextId /\ torrents'[g] = nextId)
      BY <1>2 DEF Refers
    <2>2. tasks'[g] = i => Refers(g, i)
      BY <1>2 DEF Draws, Refers
    <2>3. (\E c \in Callers : op'[c].got[g] = i) => Refers(g, i) \/ torrents'[g] = i
      BY <1>2 DEF Draws, Refers
    <2> QED
      BY <1>3, <2>1, <2>2, <2>3 DEF Refers
  <1>4. \A g \in Hashes : Refers(g, i) =>
          i < nextId /\ \A k \in Hashes : Refers(k, i) => k = g
    BY <1>1 DEF Unshared
  <1>5. i < nextId'
    <2>1. CASE Refers(h, i)
      BY <1>2, <1>4, <2>1
    <2>2. CASE i = nextId /\ torrents'[h] = nextId
      BY <1>2, <2>2
    <2> QED
      BY <1>3, <2>1, <2>2
  <1>6. ASSUME NEW g \in Hashes, Refers(g, i)'
        PROVE  g = h
    <2>1. CASE i = nextId
      <3>1. ~Refers(g, i) /\ ~Refers(h, i)
        BY <1>2, <1>4, <2>1
      <3> QED
        BY <1>2, <1>3, <1>6, <2>1, <3>1
    <2>2. CASE i # nextId
      BY <1>3, <1>4, <1>6, <2>2
    <2> QED
      BY <2>1, <2>2
  <1> QED
    BY <1>5, <1>6

\* And entries and replies stay current, unless a torrent goes that they know.
LEMMA CurrentStep ==
  ASSUME Current, Draws,
         \A h \in Hashes \ excused' :
           \/ torrents'[h] = torrents[h] \/ torrents[h] = 0
           \/ tasks[h] = 0 /\ \A c \in Callers : op[c].got[h] = 0
  PROVE  Current'
  <1> SUFFICES ASSUME NEW h \in Hashes \ excused'
               PROVE  /\ tasks'[h] \in {0, torrents'[h]}
                      /\ \A c \in Callers : op'[c].got[h] \in {0, torrents'[h]}
    BY DEF Current
  <1>1. /\ tasks[h] \in {0, torrents[h]}
        /\ \A c \in Callers : op[c].got[h] \in {0, torrents[h]}
    BY DEF Current, Draws
  <1>2. CASE torrents'[h] = torrents[h]
    BY <1>1, <1>2 DEF Draws
  <1>3. CASE tasks[h] = 0 /\ \A c \in Callers : op[c].got[h] = 0
    BY <1>3 DEF Draws
  <1> QED
    BY <1>1, <1>2, <1>3

----------------------------------------------------------------------------
\* What a request that is alone has done.

\* Nobody else is at work, its reply is what the daemon has, and the number it
\* removes is of no torrent that the table still has.
Undisturbed(c) ==
  /\ \A d \in Callers \ {c} : op[d].step = "idle"
  /\ \A h \in Hashes : op[c].got[h] \in {0, torrents[h]}
  /\ \A h \in Hashes \ excused : torrents[h] = op[c].id =>
       op[c].step # "undo" /\ (op[c].step = "remove" => tasks[h] = 0)

\* An add has its torrent, then the entry, or meets the entry of one that was
\* removed by others.
AddHonest(o) ==
  o.kind = "add" =>
    /\ o.step \in {"idle", "add", "set", "get", "undo"}
    /\ o.step = "add" /\ o.net = "reply" =>
         torrents[o.hash] # 0 /\ (~o.duplicate => o.got[o.hash] = torrents[o.hash])
    /\ o.step \in {"set", "get"} \/ (o.step = "idle" /\ o.result = "ok") =>
         torrents[o.hash] # 0 /\ tasks[o.hash] = torrents[o.hash]
    /\ o.step = "undo" => o.hash \in excused
    /\ o.step = "idle" /\ o.result = "conflict" =>
         torrents[o.hash] # 0 \/ o.hash \in excused

\* A Delete has found the torrent, and then its entry is gone; the torrent goes
\* unless the daemon declines.
DeleteHonest(o) ==
  o.kind = "delete" =>
    /\ o.step \in {"idle", "get", "drop", "remove"}
    /\ o.step # "idle" => o.id \in Ids
    /\ \A h \in Hashes : o.got[h] \in {0, o.id}
    /\ o.found \/ o.step = "drop" =>
         o.hash \in Hashes /\ tasks[o.hash] = o.id /\ torrents[o.hash] = o.id
    /\ o.step = "remove" =>
         /\ o.hash \in Hashes /\ torrents[o.hash] = o.id
         /\ tasks[o.hash] = 0 \/ o.hash \in excused
    /\ o.step = "idle" /\ o.result = "ok" =>
         /\ o.hash \in Hashes /\ (torrents[o.hash] = 0 \/ declined)
         /\ tasks[o.hash] = 0 \/ o.hash \in excused

Lone == \A c \in Callers : alone = c =>
          Undisturbed(c) /\ AddHonest(op[c]) /\ DeleteHonest(op[c])

Truthful == Typed /\ Current /\ Unshared /\ Lone

\* A request that is alone is the one that makes a step.
LEMMA LoneSteps ==
  ASSUME Truthful, NEW c \in Callers, Step(c)
  PROVE  alone' = alone /\ alone \in {c, Nobody}
  <1>1. op[c].step # "idle"
    BY DEF Truthful, Typed, Placed, Step, Send, Refuse, Retry, Answer, Break, Decline,
           LoadTable, Register, UnnamedDuplicate, EnsureTask, Finish, Enters, Drop
  <1>2. alone' = alone
    BY DEF Step, Send, Refuse, Retry, Answer, Break, Decline, LoadTable, Register,
           UnnamedDuplicate, EnsureTask, Finish, Drop
  <1> QED
    BY <1>1, <1>2 DEF Truthful, Typed, TypeOK, Lone, Undisturbed

\* A step of c keeps what others that are alone have done, for there are none.
LEMMA LoneStep ==
  ASSUME Truthful, NEW c \in Callers, Step(c),
         alone = c => /\ Undisturbed(c)' /\ AddHonest(op[c])' /\ DeleteHonest(op[c])'
  PROVE  Lone'
  BY LoneSteps, TorrentsAssumption DEF Lone

----------------------------------------------------------------------------
\* Where a request that is alone lands.

\* What a call makes of the kind and the torrent of the request, and that it is
\* none of the calls that take a torrent away.
Follows(o, x) ==
  /\ x.kind = o.kind /\ x.hash = o.hash /\ x.got = None
  /\ x.step \notin {"undo", "remove", "add"}

\* Of the three ways on: another call,
LEMMA AskFollows ==
  ASSUME NEW o \in Op, NEW s \in Steps \ {"idle", "drop", "undo", "remove", "add"}
  PROVE  Follows(o, Ask(o, s)) /\ Ask(o, s).step = s /\ Ask(o, s).id = o.id /\ ~Ask(o, s).found
  BY AskTyped DEF Follows

\* the answer to the browser,
LEMMA ReturnFollows ==
  ASSUME NEW o \in Op, Placed(o), NEW r \in Results, alone # Nobody
  PROVE  /\ Follows(o, Return(o, r)) /\ Return(o, r).step = "idle"
         /\ Return(o, r).result = r /\ ~Return(o, r).found
  BY ReturnTyped DEF Follows

\* and what follows the use of a task.
LEMMA AfterUseFollows ==
  ASSUME NEW o \in Op, Placed(o), alone # Nobody
  PROVE  /\ Follows(o, AfterUse(o)) /\ ~AfterUse(o).found
         /\ AfterUse(o).step \in {"idle", "get"} /\ AfterUse(o).id = IF o.kind = "peers" THEN 0 ELSE o.id
         /\ o.kind # "peers" => AfterUse(o).step = "get"
  <1> DEFINE a == Ask(o, "get")
             x == [a EXCEPT !.held = FALSE]
  <1>1. Follows(o, a) /\ a \in Op /\ a.step = "get" /\ a.id = o.id /\ ~a.found
    BY AskFollows, AskTyped DEF Steps
  <1> HIDE DEF a
  <1>2. /\ x.step = "get" /\ x.kind = a.kind /\ x.hash = a.hash /\ x.got = a.got
        /\ x.id = a.id /\ x.found = a.found
    BY <1>1, OpFields
  <1>3. Follows(o, x) /\ x.step = "get" /\ x.id = o.id /\ ~x.found
    BY <1>1, <1>2 DEF Follows
  <1>4. CASE o.kind = "peers"
    BY <1>4, ReturnFollows DEF AfterUse, Results, Return, Idle
  <1>5. CASE o.kind # "peers"
    BY <1>3, <1>5 DEF AfterUse, a
  <1> QED
    BY <1>4, <1>5

\* After a call that failed.
LEMMA ErrorFollows ==
  ASSUME NEW o \in Op, Placed(o), alone # Nobody
  PROVE  LET x == AfterError(o) IN
         /\ Follows(o, x) /\ x.step # "drop" /\ ~x.found
         /\ x.step = "get" => o.step = "set"
         /\ o.step \in {"add", "get", "undo", "remove", "drop"} \/ (o.step = "set" /\ o.kind = "add") =>
              \/ o.step = "set" /\ x.step = "get"
              \/ o.step = "undo" /\ x.step = "idle" /\ x.result = "conflict"
              \/ x.step = "idle" /\ x.result = "unavailable"
  <1> DEFINE x == AfterError(o)
  <1>1. CASE o.step = "hello"
    <2>1. x = Ask(o, "hello again")
      BY <1>1 DEF AfterError
    <2>2. "hello again" \in Steps \ {"idle", "drop", "undo", "remove", "add"}
      BY DEF Steps
    <2> HIDE DEF x
    <2>3. Follows(o, x) /\ x.step = "hello again" /\ ~x.found
      BY <2>1, <2>2, AskFollows
    <2> QED
      BY <1>1, <2>3 DEF x
  <1>2. CASE o.step = "undo"
    <2>1. x = Return(o, "conflict")
      BY <1>2 DEF AfterError
    <2>2. Follows(o, x) /\ x.step = "idle" /\ x.result = "conflict" /\ ~x.found
      BY <2>1, ReturnFollows DEF Results
    <2> QED
      BY <1>2, <2>2
  <1>3. CASE o.step = "set" /\ o.kind # "files"
    <2>1. x = AfterUse(o)
      BY <1>3 DEF AfterError
    <2> QED
      BY <1>3, <2>1, AfterUseFollows
  <1>4. CASE o.step \notin {"hello", "undo"} /\ ~(o.step = "set" /\ o.kind # "files")
    <2>1. x = Return(o, "unavailable")
      BY <1>4 DEF AfterError
    <2>2. Follows(o, x) /\ x.step = "idle" /\ x.result = "unavailable" /\ ~x.found
      BY <2>1, ReturnFollows DEF Results
    <2> QED
      BY <1>4, <2>2
  <1> QED
    BY <1>1, <1>2, <1>3, <1>4

\* After a call that was answered, if nothing is to be entered.
LEMMA AnswerFollows ==
  ASSUME NEW o \in Op, Placed(o), alone # Nobody, o.step \notin Bringing
  PROVE  LET x == Answered(o) IN
         /\ Follows(o, x) /\ x.step # "drop" /\ ~x.found
         /\ x.step = "get" => o.step = "set"
         /\ o.step = "set" /\ o.kind = "add" => x.step = "get"
         /\ o.step = "undo" => x.step = "idle" /\ x.result = "conflict"
         /\ o.step = "remove" => x.step = "idle" /\ x.result = "ok"
  <1> DEFINE x == Answered(o)
  <1>1. CASE o.step = "undo"
    <2>1. x = Return(o, "conflict")
      BY <1>1 DEF Answered
    <2>2. Follows(o, x) /\ x.step = "idle" /\ x.result = "conflict" /\ ~x.found
      BY <2>1, ReturnFollows DEF Results
    <2> QED
      BY <1>1, <2>2
  <1>2. CASE o.step = "remove"
    <2>1. x = Return(o, "ok")
      BY <1>2 DEF Answered
    <2>2. Follows(o, x) /\ x.step = "idle" /\ x.result = "ok" /\ ~x.found
      BY <2>1, ReturnFollows DEF Results
    <2> QED
      BY <1>2, <2>2
  <1>3. CASE o.step = "set"
    <2>1. x = AfterUse(o)
      BY <1>3 DEF Answered
    <2> QED
      BY <1>3, <2>1, AfterUseFollows
  <1>4. CASE o.step \notin {"undo", "remove", "set"}
    <2>1. \/ \E r \in {"not found", "ok"} : x = Return(o, r)
          \/ \E s \in {"set", "load", "settings"} : x = Ask(o, s)
      BY <1>4 DEF Answered, Looked, Bringing
    <2>2. Follows(o, x) /\ ~x.found /\ x.step \in {"idle", "set", "load", "settings"}
      <3>1. CASE \E r \in {"not found", "ok"} : x = Return(o, r)
        BY <3>1, ReturnFollows DEF Results
      <3>2. CASE \E s \in {"set", "load", "settings"} : x = Ask(o, s)
        <4>1. PICK s \in {"set", "load", "settings"} : x = Ask(o, s)
          BY <3>2
        <4>2. s \in Steps \ {"idle", "drop", "undo", "remove", "add"}
          BY DEF Steps
        <4> QED
          BY <4>1, <4>2, AskFollows
      <3> QED
        BY <2>1, <3>1, <3>2
    <2> QED
      BY <1>4, <2>2
  <1> QED
    BY <1>1, <1>2, <1>3, <1>4

\* After a reply that is entered.
LEMMA FinishFollows ==
  ASSUME NEW o \in Op, Placed(o), alone # Nobody, Enters(o), o.got = None
  PROVE  LET x == Finished(o) IN
         /\ Follows(o, x) /\ x.step # "get" /\ (x.found => x.step = "drop")
         /\ o.step = "add" => x.step = "idle" /\ x.result = "conflict"
         /\ o.step = "get" /\ o.kind = "add" => x.step = "idle" /\ x.result \in {"ok", "not found"}
         /\ o.step = "get" /\ o.kind = "delete" =>
              \/ x.step = "idle" /\ x.result = "not found"
              \/ x.step = "drop" /\ o.found /\ x.id = o.id
         /\ x.step = "drop" => o.kind = "delete"
  <1> DEFINE x == Finished(o)
  <1>1. ASSUME NEW r \in Results, x = Return(o, r)
        PROVE  Follows(o, x) /\ x.step = "idle" /\ x.result = r /\ ~x.found
    BY <1>1, ReturnFollows
  <1>2. CASE o.step = "add"
    <2>1. x = Return(o, "conflict")
      BY <1>2 DEF Finished
    <2>2. Follows(o, x) /\ x.step = "idle" /\ x.result = "conflict" /\ ~x.found
      BY <1>1, <2>1 DEF Results
    <2> QED
      BY <1>2, <2>2
  <1>3. CASE o.step = "list" \/ (o.step # "add" /\ ~o.found)
    <2>1. PICK r \in {"ok", "not found"} : x = Return(o, r) /\ (o.step # "list" => r = "not found")
      BY <1>3 DEF Finished
    <2>2. Follows(o, x) /\ x.step = "idle" /\ x.result = r /\ ~x.found
      BY <1>1, <2>1 DEF Results
    <2> QED
      BY <1>3, <2>1, <2>2
  <1>4. CASE o.step \in {"find", "files"} /\ o.found
    <2>1. \/ \E r \in {"unavailable"} : x = Return(o, r)
          \/ \E s \in {"files", "set", "look"} : x = Ask(o, s)
      BY <1>4 DEF Finished, Use
    <2>2. Follows(o, x) /\ ~x.found /\ x.step \in {"idle", "files", "set", "look"}
      <3>1. CASE \E r \in {"unavailable"} : x = Return(o, r)
        BY <3>1, ReturnFollows DEF Results
      <3>2. CASE \E s \in {"files", "set", "look"} : x = Ask(o, s)
        <4>1. PICK s \in {"files", "set", "look"} : x = Ask(o, s)
          BY <3>2
        <4>2. s \in Steps \ {"idle", "drop", "undo", "remove", "add"}
          BY DEF Steps
        <4> QED
          BY <4>1, <4>2, AskFollows
      <3> QED
        BY <2>1, <3>1, <3>2
    <2> QED
      BY <1>4, <2>2
  <1>5. CASE o.step = "get" /\ o.found /\ o.kind = "delete"
    <2>1. x = [o EXCEPT !.step = "drop", !.net = "none"]
      BY <1>5 DEF Finished
    <2>2. /\ x.step = "drop" /\ x.kind = o.kind /\ x.hash = o.hash /\ x.got = o.got
          /\ x.id = o.id
      BY <2>1, OpFields
    <2> QED
      BY <1>5, <2>2 DEF Follows
  <1>6. CASE o.step = "get" /\ o.found /\ o.kind # "delete"
    <2>1. x = Return(o, "ok")
      BY <1>6 DEF Finished
    <2>2. Follows(o, x) /\ x.step = "idle" /\ x.result = "ok" /\ ~x.found
      BY <1>1, <2>1 DEF Results
    <2> QED
      BY <1>6, <2>2
  <1> QED
    BY <1>2, <1>3, <1>4, <1>5, <1>6 DEF Enters

----------------------------------------------------------------------------
\* Every step keeps it all.

\* What the daemon does for a call takes no torrent that the table or a reply
\* has, unless it is excused then.
LEMMA ExecuteTakes ==
  ASSUME Truthful, NEW c \in Callers, op[c].net = "sent", Execute(c), alone \in {c, Nobody}
  PROVE  /\ excused \subseteq excused' /\ nextId' \in {nextId, nextId + 1}
         /\ \A h \in Hashes : torrents'[h] \in {0, torrents[h], nextId}
         /\ \A h \in Hashes \ excused' :
              \/ torrents'[h] = torrents[h] \/ torrents[h] = 0
              \/ tasks[h] = 0 /\ \A d \in Callers : op[d].got[h] = 0
  <1>1. /\ Typed /\ torrents \in [Hashes -> 0..MaxId] /\ op[c].got = None
        /\ \A d \in Callers : Placed(op[d])
    BY DEF Truthful, Typed, TypeOK, Placed
  <1>2. CASE /\ op[c].step = "add" /\ op[c].hash \in Hashes /\ torrents[op[c].hash] = 0
             /\ nextId \in 1..MaxId /\ nextId' = nextId + 1 /\ excused' = excused
             /\ torrents' = [torrents EXCEPT ![op[c].hash] = nextId]
    BY <1>1, <1>2
  <1>3. CASE /\ op[c].step \in {"undo", "remove"} /\ nextId' = nextId
             /\ torrents' = [h \in Hashes |-> IF torrents[h] = op[c].id THEN 0 ELSE torrents[h]]
             /\ excused' = IF alone = c THEN excused
                           ELSE excused \cup {h \in Hashes : torrents[h] = op[c].id}
    <2>1. /\ excused \subseteq excused' /\ nextId' \in {nextId, nextId + 1}
          /\ \A h \in Hashes : torrents'[h] \in {0, torrents[h], nextId}
      BY <1>1, <1>3
    <2>2. ASSUME NEW h \in Hashes \ excused', torrents'[h] # torrents[h]
          PROVE  tasks[h] = 0 /\ \A d \in Callers : op[d].got[h] = 0
      <3>1. alone = c /\ torrents[h] = op[c].id /\ h \notin excused
        BY <1>3, <2>2
      <3>2. Undisturbed(c)
        BY <3>1 DEF Truthful, Lone
      <3>3. tasks[h] = 0
        BY <1>3, <3>1, <3>2 DEF Undisturbed
      <3>4. \A d \in Callers : op[d].got = None
        BY <1>1, <3>2 DEF Undisturbed, Placed
      <3> QED
        BY <3>3, <3>4, NoneTyped
    <2> QED
      BY <2>1, <2>2
  <1>4. CASE UNCHANGED <<torrents, nextId, excused>>
    BY <1>4
  <1> QED
    BY <1>1, <1>2, <1>3, <1>4, Executes

\* A step of c that the table and the replies come from.
LEMMA RefsKept ==
  ASSUME Truthful, NEW c \in Callers, Step(c), Others(c),
         /\ excused \subseteq excused' /\ nextId' \in {nextId, nextId + 1}
         /\ \A h \in Hashes : torrents'[h] \in {0, torrents[h], nextId}
         /\ \A h \in Hashes \ excused' :
              \/ torrents'[h] = torrents[h] \/ torrents[h] = 0
              \/ tasks[h] = 0 /\ \A d \in Callers : op[d].got[h] = 0,
         \A h \in Hashes : tasks'[h] \in {0, tasks[h], op[c].got[h]},
         \A h \in Hashes : op'[c].got[h] \in {0, op[c].got[h], torrents'[h]}
  PROVE  Typed' /\ Current' /\ Unshared'
  <1>1. Draws
    BY DEF Draws, Others, Same
  <1>2. Typed'
    BY StepTyped DEF Truthful
  <1>3. Current'
    BY <1>1, CurrentStep DEF Truthful
  <1>4. Unshared'
    BY <1>1, <1>2, UnsharedStep DEF Truthful
  <1> QED
    BY <1>2, <1>3, <1>4

\* Before it is entered a reply is what a request that is alone has heard.
LEMMA OthersIdle ==
  ASSUME Truthful, NEW c \in Callers, alone = c, Others(c)
  PROVE  \A d \in Callers \ {c} : op'[d].step = "idle"
  BY DEF Truthful, Lone, Undisturbed, Others, Same

\* A call sent, refused or sent again.
LEMMA TruthfulCall ==
  ASSUME Truthful, NEW c \in Callers,
         Send(c) \/ Refuse(c) \/ (Retry(c) /\ op[c].tries # 2)
  PROVE  Truthful'
  <1>1. Typed /\ TypeOK /\ Placed(op[c]) /\ Step(c)
    BY DEF Truthful, Typed, Step
  <1>2. Others(c) /\ Resent(c) /\ Placed(op'[c])
    BY <1>1, CallMoves
  <1>3. UNCHANGED <<torrents, nextId, tasks, declined, excused>>
    BY DEF Send, Refuse, Retry, daemon, table
  <1>4. Typed' /\ Current' /\ Unshared'
    BY <1>1, <1>2, <1>3, RefsKept DEF Resent
  <1>5. ASSUME alone = c
        PROVE  Undisturbed(c)' /\ AddHonest(op[c])' /\ DeleteHonest(op[c])'
    <2>1. Undisturbed(c) /\ AddHonest(op[c]) /\ DeleteHonest(op[c])
      BY <1>5 DEF Truthful, Lone
    <2>2. Undisturbed(c)'
      BY <1>2, <1>3, <1>5, <2>1, OthersIdle DEF Undisturbed, Resent
    <2>3. AddHonest(op[c])'
      BY <1>2, <1>3, <2>1 DEF AddHonest, Resent
    <2>4. DeleteHonest(op[c])'
      BY <1>2, <1>3, <2>1 DEF DeleteHonest, Resent
    <2> QED
      BY <2>2, <2>3, <2>4
  <1> QED
    BY <1>1, <1>4, <1>5, LoneStep DEF Truthful

\* A reply that is to be entered.
LEMMA TruthfulReply ==
  ASSUME Truthful, NEW c \in Callers, Answer(c), op[c].step \in Bringing
  PROVE  Truthful'
  <1>1. Typed /\ TypeOK /\ Placed(op[c]) /\ Step(c)
    BY DEF Truthful, Typed, Step
  <1>2. Others(c) /\ Brings(c) /\ Placed(op'[c])
    BY <1>1, AnswerMoves
  <1>3. /\ tasks' = tasks /\ alone \in {c, Nobody} /\ op[c].net = "sent" /\ Execute(c)
    BY <1>1, LoneSteps DEF Answer, table
  <1>4. Typed' /\ Current' /\ Unshared'
    BY <1>1, <1>2, <1>3, ExecuteTakes, RefsKept DEF Brings
  <1>5. ASSUME alone = c
        PROVE  Undisturbed(c)' /\ AddHonest(op[c])' /\ DeleteHonest(op[c])'
    <2>1. Undisturbed(c) /\ AddHonest(op[c]) /\ DeleteHonest(op[c])
      BY <1>5 DEF Truthful, Lone
    <2>2. Undisturbed(c)'
      BY <1>2, <1>5, OthersIdle DEF Undisturbed, Brings, Bringing
    <2>3. op[c].step # "add" => torrents' = torrents /\ excused' = excused
      BY <1>1, <1>3, Executes DEF Bringing
    <2>4. AddHonest(op[c])'
      <3>1. CASE op[c].step = "add"
        BY <1>2, <3>1 DEF AddHonest, Brings
      <3>2. CASE op[c].step # "add"
        BY <1>2, <1>3, <2>1, <2>3, <3>2 DEF AddHonest, Brings, Bringing
      <3> QED
        BY <3>1, <3>2
    <2>5. DeleteHonest(op[c])'
      <3> SUFFICES ASSUME op[c].kind = "delete" PROVE DeleteHonest(op[c])'
        BY <1>2 DEF DeleteHonest, Brings
      <3>1. op[c].step = "get"
        BY <2>1 DEF DeleteHonest, Bringing
      <3> QED
        BY <1>2, <1>3, <2>1, <2>3, <3>1 DEF DeleteHonest, Brings
    <2> QED
      BY <2>2, <2>4, <2>5
  <1> QED
    BY <1>1, <1>4, <1>5, LoneStep DEF Truthful

\* What a call has done to the torrent of a request that is alone.
LEMMA LoneExecute ==
  ASSUME Truthful, NEW c \in Callers, alone = c, op[c].net = "sent", Execute(c)
  PROVE  /\ excused' = excused
         /\ op[c].step \notin {"add", "undo", "remove"} => torrents' = torrents
         /\ op[c].step = "remove" => \A h \in Hashes : torrents[h] = op[c].id => torrents'[h] = 0
  BY Executes DEF Truthful

\* A call that was answered and brings nothing to enter.
LEMMA TruthfulAnswer ==
  ASSUME Truthful, NEW c \in Callers, Answer(c), op[c].step \notin Bringing
  PROVE  Truthful'
  <1>1. /\ Typed /\ TypeOK /\ op[c] \in Op /\ Placed(op[c]) /\ Step(c)
        /\ op[c].step \notin {"idle", "drop"}
    BY DEF Truthful, Typed, TypeOK, Step, Answer, Placed
  <1>2. Others(c) /\ Between(op'[c]) /\ op'[c] = Answered(op[c])
    BY <1>1, AnswerMoves
  <1>3. /\ tasks' = tasks /\ alone \in {c, Nobody} /\ op[c].net = "sent" /\ Execute(c)
    BY <1>1, LoneSteps DEF Answer, table
  <1>4. op'[c].got = None
    BY <1>2 DEF Between, Placed
  <1>5. Typed' /\ Current' /\ Unshared'
    BY <1>1, <1>2, <1>3, <1>4, NoneTyped, ExecuteTakes, RefsKept
  <1>6. ASSUME alone = c
        PROVE  Undisturbed(c)' /\ AddHonest(op[c])' /\ DeleteHonest(op[c])'
    <2> DEFINE o == op[c]
               p == op'[c]
    <2>1. Undisturbed(c) /\ AddHonest(o) /\ DeleteHonest(o)
      BY <1>6 DEF Truthful, Lone
    <2>2. /\ Follows(o, p) /\ p.step # "drop" /\ ~p.found
          /\ p.step = "get" => o.step = "set"
          /\ o.step = "set" /\ o.kind = "add" => p.step = "get"
          /\ o.step = "undo" => p.step = "idle" /\ p.result = "conflict"
          /\ o.step = "remove" => p.step = "idle" /\ p.result = "ok"
      BY <1>1, <1>2, <1>6, AnswerFollows, TorrentsAssumption
    <2>3. /\ excused' = excused
          /\ o.step \notin {"add", "undo", "remove"} => torrents' = torrents
          /\ o.step = "remove" => \A h \in Hashes : torrents[h] = o.id => torrents'[h] = 0
      BY <1>3, <1>6, LoneExecute
    <2>4. Undisturbed(c)'
      BY <1>2, <1>4, <1>6, <2>2, NoneTyped, OthersIdle DEF Undisturbed, Follows
    <2>5. AddHonest(op[c])'
      <3> SUFFICES ASSUME o.kind = "add" PROVE AddHonest(op[c])'
        BY <2>2 DEF AddHonest, Follows
      <3>1. o.step \in {"set", "undo"} /\ p.hash = o.hash /\ p.kind = "add"
        BY <1>1, <2>1, <2>2 DEF AddHonest, Bringing, Follows
      <3>2. CASE o.step = "set"
        BY <1>3, <2>1, <2>2, <2>3, <3>1, <3>2 DEF AddHonest
      <3>3. CASE o.step = "undo"
        BY <2>1, <2>2, <2>3, <3>1, <3>3 DEF AddHonest
      <3> QED
        BY <3>1, <3>2, <3>3
    <2>6. DeleteHonest(op[c])'
      <3> SUFFICES ASSUME o.kind = "delete" PROVE DeleteHonest(op[c])'
        BY <2>2 DEF DeleteHonest, Follows
      <3>1. o.step = "remove" /\ p.hash = o.hash /\ p.got = None
        BY <1>1, <2>1, <2>2 DEF DeleteHonest, Bringing, Follows
      <3>2. p.step = "idle" /\ ~p.found
        BY <2>2, <3>1
      <3>3. o.hash \in Hashes /\ torrents'[o.hash] = 0 /\ (tasks'[o.hash] = 0 \/ o.hash \in excused')
        BY <1>3, <2>1, <2>3, <3>1 DEF DeleteHonest
      <3> QED
        BY <3>1, <3>2, <3>3, NoneTyped DEF DeleteHonest
    <2> QED
      BY <2>4, <2>5, <2>6
  <1> QED
    BY <1>1, <1>5, <1>6, LoneStep DEF Truthful

\* A call that failed, with or without its effect, or was given up.
LEMMA TruthfulError ==
  ASSUME Truthful, NEW c \in Callers, Break(c) \/ (Retry(c) /\ op[c].tries = 2)
  PROVE  Truthful'
  <1>1. /\ Typed /\ TypeOK /\ op[c] \in Op /\ Placed(op[c]) /\ Step(c) /\ GoesOn(c)
        /\ op[c].step \notin {"idle", "drop"}
    BY DEF Truthful, Typed, TypeOK, Step, GoesOn, Break, Retry, Placed
  <1>2. Others(c) /\ Between(op'[c]) /\ op'[c] = AfterError(op[c])
    BY <1>1, GoesOnTo
  <1>3. /\ tasks' = tasks /\ alone \in {c, Nobody}
        /\ \/ op[c].net = "sent" /\ Execute(c)
           \/ UNCHANGED <<torrents, nextId, excused>>
    BY <1>1, LoneSteps DEF Break, Retry, table, daemon
  <1>4. op'[c].got = None
    BY <1>2 DEF Between, Placed
  <1>5. Typed' /\ Current' /\ Unshared'
    <2>1. CASE op[c].net = "sent" /\ Execute(c)
      BY <1>1, <1>2, <1>3, <1>4, <2>1, NoneTyped, ExecuteTakes, RefsKept
    <2>2. CASE UNCHANGED <<torrents, nextId, excused>>
      BY <1>1, <1>2, <1>3, <1>4, <2>2, NoneTyped, RefsKept
    <2> QED
      BY <1>3, <2>1, <2>2
  <1>6. ASSUME alone = c
        PROVE  Undisturbed(c)' /\ AddHonest(op[c])' /\ DeleteHonest(op[c])'
    <2> DEFINE o == op[c]
               p == op'[c]
    <2>1. Undisturbed(c) /\ AddHonest(o) /\ DeleteHonest(o)
      BY <1>6 DEF Truthful, Lone
    <2>2. /\ Follows(o, p) /\ p.step # "drop" /\ ~p.found
          /\ p.step = "get" => o.step = "set"
          /\ o.step \in {"add", "get", "undo", "remove", "drop"} \/ (o.step = "set" /\ o.kind = "add") =>
               \/ o.step = "set" /\ p.step = "get"
               \/ o.step = "undo" /\ p.step = "idle" /\ p.result = "conflict"
               \/ p.step = "idle" /\ p.result = "unavailable"
      BY <1>1, <1>2, <1>6, ErrorFollows, TorrentsAssumption
    <2>3. /\ excused' = excused
          /\ o.step \notin {"add", "undo", "remove"} => torrents' = torrents
      BY <1>3, <1>6, LoneExecute
    <2>4. Undisturbed(c)'
      BY <1>2, <1>4, <1>6, <2>2, NoneTyped, OthersIdle DEF Undisturbed, Follows
    <2>5. AddHonest(op[c])'
      <3> SUFFICES ASSUME o.kind = "add" PROVE AddHonest(op[c])'
        BY <2>2 DEF AddHonest, Follows
      <3>1. o.step \in {"add", "set", "get", "undo"} /\ p.hash = o.hash /\ p.kind = "add"
        BY <1>1, <2>1, <2>2 DEF AddHonest, Follows
      <3>2. CASE o.step = "set" /\ p.step = "get"
        BY <1>3, <2>1, <2>2, <2>3, <3>1, <3>2 DEF AddHonest
      <3>3. CASE o.step = "undo" /\ p.step = "idle" /\ p.result = "conflict"
        BY <2>1, <2>2, <2>3, <3>1, <3>3 DEF AddHonest
      <3>4. CASE p.step = "idle" /\ p.result = "unavailable"
        BY <3>1, <3>4 DEF AddHonest
      <3> QED
        BY <2>2, <3>1, <3>2, <3>3, <3>4
    <2>6. DeleteHonest(op[c])'
      <3> SUFFICES ASSUME o.kind = "delete" PROVE DeleteHonest(op[c])'
        BY <2>2 DEF DeleteHonest, Follows
      <3>1. o.step \in {"get", "drop", "remove"} /\ p.got = None
        BY <1>1, <2>1, <2>2 DEF DeleteHonest, Follows
      <3>2. p.step = "idle" /\ p.result = "unavailable" /\ ~p.found
        BY <2>2, <3>1
      <3> QED
        BY <3>1, <3>2, NoneTyped DEF DeleteHonest
    <2> QED
      BY <2>4, <2>5, <2>6
  <1> QED
    BY <1>1, <1>5, <1>6, LoneStep DEF Truthful

\* The daemon declines to remove a torrent, whose entry is gone.
LEMMA TruthfulDecline ==
  ASSUME Truthful, NEW c \in Callers, Decline(c)
  PROVE  Truthful'
  <1> DEFINE o == op[c]
             p == op'[c]
  <1>1. /\ Typed /\ TypeOK /\ o \in Op /\ Placed(o) /\ Step(c) /\ GoesOn(c)
        /\ o.step = "remove" /\ o.kind = "delete"
    BY DEF Truthful, Typed, TypeOK, Step, GoesOn, Decline, Placed
  <1>2. Others(c) /\ Between(p) /\ p = Return(o, "ok")
    BY <1>1, GoesOnTo
  <1>3. /\ UNCHANGED <<torrents, nextId, tasks, excused>> /\ declined' = TRUE
        /\ alone \in {c, Nobody} /\ p.got = None
    BY <1>1, <1>2, LoneSteps DEF Decline, daemon, table, Between, Placed
  <1>4. Typed' /\ Current' /\ Unshared'
    BY <1>1, <1>2, <1>3, NoneTyped, RefsKept
  <1>5. ASSUME alone = c
        PROVE  Undisturbed(c)' /\ AddHonest(op[c])' /\ DeleteHonest(op[c])'
    <2>1. Undisturbed(c) /\ DeleteHonest(o) /\ alone # Nobody
      BY <1>5, TorrentsAssumption DEF Truthful, Lone
    <2>2. Follows(o, p) /\ p.step = "idle" /\ p.result = "ok" /\ ~p.found
      BY <1>1, <1>2, <2>1, ReturnFollows DEF Results
    <2>3. Undisturbed(c)'
      BY <1>2, <1>3, <1>5, <2>2, NoneTyped, OthersIdle DEF Undisturbed
    <2>4. AddHonest(op[c])'
      BY <1>1, <2>2 DEF AddHonest, Follows
    <2>5. DeleteHonest(op[c])'
      BY <1>1, <1>3, <2>1, <2>2, NoneTyped DEF DeleteHonest, Follows
    <2> QED
      BY <2>3, <2>4, <2>5
  <1> QED
    BY <1>1, <1>4, <1>5, LoneStep DEF Truthful

\* The table of a new engine, a duplicate without a name, the end of a reply.
LEMMA TruthfulEnd ==
  ASSUME Truthful, NEW c \in Callers, LoadTable(c) \/ UnnamedDuplicate(c) \/ Finish(c)
  PROVE  Truthful'
  <1> DEFINE o == op[c]
             p == op'[c]
  <1>1. Typed /\ TypeOK /\ o \in Op /\ Placed(o) /\ Step(c) /\ GoesOn(c) /\ o.net = "reply"
    BY DEF Truthful, Typed, TypeOK, Step, GoesOn, LoadTable, UnnamedDuplicate, Finish, Enters
  <1>2. /\ Others(c) /\ Between(p)
        /\ LoadTable(c) => p = Return(o, "ok")
        /\ UnnamedDuplicate(c) => p = Return(o, "conflict")
        /\ Finish(c) => p = Finished(o)
    BY <1>1, GoesOnTo
  <1>3. UNCHANGED <<torrents, nextId, excused>> /\ alone \in {c, Nobody} /\ p.got = None
    BY <1>1, <1>2, LoneSteps
       DEF LoadTable, UnnamedDuplicate, Finish, daemon, Between, Placed
  <1>4. \A h \in Hashes : tasks'[h] \in {0, tasks[h], o.got[h]}
    BY DEF LoadTable, UnnamedDuplicate, Finish, table
  <1>5. Typed' /\ Current' /\ Unshared'
    BY <1>1, <1>2, <1>3, <1>4, NoneTyped, RefsKept
  <1>6. ASSUME alone = c
        PROVE  Undisturbed(c)' /\ AddHonest(op[c])' /\ DeleteHonest(op[c])'
    <2>1. Undisturbed(c) /\ AddHonest(o) /\ DeleteHonest(o) /\ alone # Nobody
      BY <1>6, TorrentsAssumption DEF Truthful, Lone
    <2>2. CASE LoadTable(c)
      <3>1. Follows(o, p) /\ p.step = "idle" /\ p.result = "ok"
        BY <1>1, <1>2, <2>1, <2>2, ReturnFollows DEF Results
      <3>2. o.step = "load"
        BY <2>2 DEF LoadTable
      <3>3. p.kind \notin {"add", "delete"}
        BY <2>1, <3>1, <3>2 DEF AddHonest, DeleteHonest, Follows
      <3>4. Undisturbed(c)'
        BY <1>2, <1>3, <1>6, <3>1, NoneTyped, OthersIdle DEF Undisturbed
      <3> QED
        BY <3>3, <3>4 DEF AddHonest, DeleteHonest
    <2>3. CASE UnnamedDuplicate(c)
      <3>1. /\ Follows(o, p) /\ p.step = "idle" /\ p.result = "conflict"
            /\ o.step = "add" /\ o.kind = "add"
        BY <1>1, <1>2, <2>1, <2>3, ReturnFollows DEF Results, UnnamedDuplicate, Placed
      <3>2. torrents'[p.hash] # 0
        BY <1>1, <1>3, <2>1, <3>1 DEF AddHonest, Follows
      <3>3. Undisturbed(c)'
        BY <1>2, <1>3, <1>6, <3>1, NoneTyped, OthersIdle DEF Undisturbed
      <3> QED
        BY <3>1, <3>2, <3>3 DEF AddHonest, DeleteHonest, Follows
    <2>4. CASE Finish(c)
      <3>1. /\ Follows(o, p) /\ p.step # "get" /\ (p.found => p.step = "drop")
            /\ o.step = "add" => p.step = "idle" /\ p.result = "conflict"
            /\ o.step = "get" /\ o.kind = "add" => p.step = "idle" /\ p.result \in {"ok", "not found"}
            /\ o.step = "get" /\ o.kind = "delete" =>
                 \/ p.step = "idle" /\ p.result = "not found"
                 \/ p.step = "drop" /\ o.found /\ p.id = o.id
        BY <1>1, <1>2, <2>1, <2>4, FinishFollows DEF Finish
      <3>2. tasks' = tasks /\ o.step \in {"add", "get", "find", "files", "list"}
        BY <2>4 DEF Finish, Enters, table
      <3>3. Undisturbed(c)'
        BY <1>2, <1>3, <1>6, <3>1, NoneTyped, OthersIdle DEF Undisturbed, Follows
      <3>4. AddHonest(op[c])'
        <4> SUFFICES ASSUME o.kind = "add" PROVE AddHonest(op[c])'
          BY <3>1 DEF AddHonest, Follows
        <4>1. /\ o.step \in {"add", "get"} /\ p.step = "idle" /\ p.hash = o.hash
              /\ o.step = "add" => p.result = "conflict"
              /\ o.step = "get" => p.result \in {"ok", "not found"}
          BY <2>1, <3>1, <3>2 DEF AddHonest, Follows
        <4> QED
          BY <1>1, <1>3, <2>1, <3>2, <4>1 DEF AddHonest
      <3>5. DeleteHonest(op[c])'
        <4> SUFFICES ASSUME o.kind = "delete" PROVE DeleteHonest(op[c])'
          BY <3>1 DEF DeleteHonest, Follows
        <4>1. o.step = "get" /\ p.hash = o.hash /\ p.got = None /\ o.id \in Ids
          BY <2>1, <3>1, <3>2 DEF DeleteHonest, Follows
        <4>2. CASE p.step = "idle" /\ p.result = "not found"
          BY <3>1, <4>1, <4>2, NoneTyped DEF DeleteHonest
        <4>3. CASE p.step = "drop" /\ o.found /\ p.id = o.id
          BY <1>3, <2>1, <3>2, <4>1, <4>3, NoneTyped DEF DeleteHonest
        <4> QED
          BY <3>1, <4>1, <4>2, <4>3
      <3> QED
        BY <3>3, <3>4, <3>5
    <2> QED
      BY <2>2, <2>3, <2>4
  <1> QED
    BY <1>1, <1>5, <1>6, LoneStep DEF Truthful

\* A new torrent is entered, or meets an entry.
LEMMA TruthfulRegister ==
  ASSUME Truthful, NEW c \in Callers, Register(c)
  PROVE  Truthful'
  <1> DEFINE o == op[c]
             p == op'[c]
             h == o.hash
             i == o.got[h]
  <1>1. /\ Typed /\ TypeOK /\ op \in [Callers -> Op] /\ o \in Op /\ Placed(o) /\ Step(c) /\ GoesOn(c)
        /\ o.step = "add" /\ o.net = "reply" /\ ~o.duplicate /\ o.kind = "add" /\ h \in Hashes
    BY DEF Truthful, Typed, TypeOK, Step, GoesOn, Register, Placed
  <1>2. Others(c) /\ Between(p)
    BY <1>1, GoesOnTo
  <1>3. UNCHANGED <<torrents, nextId, excused>> /\ alone \in {c, Nobody} /\ p.got = None
    BY <1>1, <1>2, LoneSteps DEF Register, daemon, Between, Placed
  <1>4. tasks \in [Hashes -> 0..MaxId] /\ i \in Numbers
    BY <1>1, OpFields DEF TypeOK
  <1>5. \A g \in Hashes : tasks'[g] \in {0, tasks[g], o.got[g]}
    BY <1>4 DEF Register
  <1>6. Typed' /\ Current' /\ Unshared'
    BY <1>1, <1>2, <1>3, <1>5, NoneTyped, RefsKept
  <1>7. ASSUME alone = c
        PROVE  Undisturbed(c)' /\ AddHonest(op[c])' /\ DeleteHonest(op[c])'
    <2>1. /\ Undisturbed(c) /\ AddHonest(o) /\ DeleteHonest(o) /\ alone # Nobody
          /\ torrents[h] # 0 /\ i = torrents[h]
      BY <1>1, <1>7, TorrentsAssumption DEF Truthful, Lone, AddHonest
    <2>2. \A d \in Callers \ {c} : op'[d].step = "idle"
      BY <1>2, <1>7, OthersIdle
    <2>3. CASE tasks[h] = 0
      <3> DEFINE x == [o EXCEPT !.id = i, !.held = TRUE]
      <3>1. p = Ask(x, "set") /\ tasks' = [tasks EXCEPT ![h] = i]
        BY <1>1, <2>3 DEF Register
      <3>2. x \in Op /\ x.kind = "add" /\ x.hash = h
        BY <1>1, <1>4, OpFields
      <3> HIDE DEF x
      <3>3. "set" \in Steps \ {"idle", "drop", "undo", "remove", "add"}
        BY DEF Steps
      <3>4. p.step = "set" /\ p.kind = "add" /\ p.hash = h
        BY <3>1, <3>2, <3>3, AskFollows DEF Follows
      <3>5. torrents'[h] # 0 /\ tasks'[h] = torrents'[h]
        BY <1>1, <1>3, <1>4, <2>1, <3>1
      <3>6. Undisturbed(c)'
        BY <1>3, <2>2, <3>4, NoneTyped DEF Undisturbed
      <3>7. AddHonest(op[c])' /\ DeleteHonest(op[c])'
        BY <3>4, <3>5 DEF AddHonest, DeleteHonest
      <3> QED
        BY <3>6, <3>7
    <2>4. CASE tasks[h] = i /\ tasks[h] # 0
      <3>1. p = Return(o, "conflict") /\ tasks' = tasks
        BY <1>1, <2>4 DEF Register
      <3>2. p.step = "idle" /\ p.result = "conflict" /\ p.kind = "add" /\ p.hash = h
        BY <1>1, <2>1, <3>1, ReturnFollows DEF Results, Follows
      <3>3. Undisturbed(c)'
        BY <1>3, <2>2, <3>2, NoneTyped DEF Undisturbed
      <3>4. AddHonest(op[c])' /\ DeleteHonest(op[c])'
        BY <1>3, <2>1, <3>2 DEF AddHonest, DeleteHonest
      <3> QED
        BY <3>3, <3>4
    <2>5. CASE tasks[h] # i /\ tasks[h] # 0
      <3> DEFINE x == [o EXCEPT !.id = i]
      <3>1. p = Ask(x, "undo") /\ tasks' = tasks
        BY <1>1, <2>5 DEF Register
      <3>2. x \in Op /\ x.kind = "add" /\ x.hash = h /\ x.id = i
        BY <1>1, <1>4, OpFields
      <3> HIDE DEF x
      <3>3. "undo" \in Steps \ {"idle", "drop"}
        BY DEF Steps
      <3>4. p.step = "undo" /\ p.kind = "add" /\ p.hash = h /\ p.id = i
        <4>1. /\ Ask(x, "undo").step = "undo" /\ Ask(x, "undo").kind = x.kind
              /\ Ask(x, "undo").hash = x.hash /\ Ask(x, "undo").id = x.id
          BY <3>2, <3>3, AskTyped
        <4> QED
          BY <3>1, <3>2, <4>1
      <3>5. h \in excused
        BY <1>1, <2>1, <2>5 DEF Truthful, Current
      <3>6. \A g \in Hashes \ excused : torrents[g] # i
        BY <1>1, <2>1, <3>5 DEF Typed, Numbered
      <3>7. Undisturbed(c)'
        BY <1>3, <2>2, <3>4, <3>6, NoneTyped DEF Undisturbed
      <3>8. AddHonest(op[c])' /\ DeleteHonest(op[c])'
        BY <1>3, <3>4, <3>5 DEF AddHonest, DeleteHonest
      <3> QED
        BY <3>7, <3>8
    <2> QED
      BY <2>3, <2>4, <2>5
  <1> QED
    BY <1>1, <1>6, <1>7, LoneStep DEF Truthful

\* One torrent of a reply is entered.
LEMMA TruthfulEnsure ==
  ASSUME Truthful, NEW c \in Callers, NEW h \in Hashes, EnsureTask(c, h)
  PROVE  Truthful'
  <1> DEFINE o == op[c]
             p == op'[c]
             i == o.got[h]
  <1>1. Typed /\ TypeOK /\ o \in Op /\ Placed(o) /\ Step(c) /\ Enters(o)
    BY DEF Truthful, Typed, TypeOK, Step, EnsureTask
  <1>2. /\ Others(c) /\ Placed(p) /\ o.net = "reply" /\ p.net = "reply"
        /\ p.kind = o.kind /\ p.step = o.step /\ p.id = o.id
        /\ p.duplicate = o.duplicate /\ p.result = o.result
        /\ p.found = TRUE /\ p.got = [o.got EXCEPT ![h] = 0]
        /\ p.hash = IF o.kind = "delete" THEN h ELSE o.hash
        /\ tasks' = [tasks EXCEPT ![h] = i] /\ i \in Ids
    BY <1>1, EnsureMoves
  <1>3. UNCHANGED <<torrents, nextId, excused>> /\ alone \in {c, Nobody}
    BY <1>1, LoneSteps DEF EnsureTask, daemon
  <1>4. tasks \in [Hashes -> 0..MaxId] /\ o.got \in [Hashes -> Numbers] /\ i # 0
    BY <1>1, <1>2, OpFields DEF TypeOK, Ids
  <1>5. /\ \A g \in Hashes : tasks'[g] = IF g = h THEN i ELSE tasks[g]
        /\ \A g \in Hashes : p.got[g] = IF g = h THEN 0 ELSE o.got[g]
    BY <1>2, <1>4
  <1>6. Typed' /\ Current' /\ Unshared'
    BY <1>1, <1>2, <1>3, <1>5, RefsKept
  <1>7. ASSUME alone = c
        PROVE  Undisturbed(c)' /\ AddHonest(op[c])' /\ DeleteHonest(op[c])'
    <2>1. /\ Undisturbed(c) /\ AddHonest(o) /\ DeleteHonest(o) /\ i = torrents[h]
          /\ o.step \in {"add", "get", "find", "files", "list"}
          /\ o.step = "add" => o.duplicate
      BY <1>1, <1>4, <1>7 DEF Truthful, Lone, Undisturbed, Enters
    <2>2. Undisturbed(c)'
      BY <1>2, <1>3, <1>5, <1>7, <2>1, OthersIdle DEF Undisturbed
    <2>3. AddHonest(op[c])'
      <3> SUFFICES ASSUME o.kind = "add" PROVE AddHonest(op[c])'
        BY <1>2 DEF AddHonest
      <3>1. o.step \in {"add", "get"} /\ p.hash = o.hash /\ o.hash \in Hashes
        BY <1>1, <1>2, <2>1 DEF AddHonest, Placed
      <3>2. /\ torrents[o.hash] # 0
            /\ o.step = "get" => tasks[o.hash] = torrents[o.hash]
        BY <1>2, <2>1, <3>1 DEF AddHonest
      <3>3. o.step = "get" => tasks'[o.hash] = torrents[o.hash]
        BY <1>5, <2>1, <3>1, <3>2
      <3> QED
        BY <1>2, <1>3, <2>1, <3>1, <3>2, <3>3 DEF AddHonest
    <2>4. DeleteHonest(op[c])'
      <3> SUFFICES ASSUME o.kind = "delete" PROVE DeleteHonest(op[c])'
        BY <1>2 DEF DeleteHonest
      <3>1. o.step = "get" /\ p.hash = h /\ o.id \in Ids /\ i = o.id
        BY <1>2, <1>4, <2>1 DEF DeleteHonest
      <3>2. tasks'[h] = o.id /\ torrents'[h] = o.id
        BY <1>3, <1>5, <2>1, <3>1
      <3>3. \A g \in Hashes : p.got[g] \in {0, p.id}
        BY <1>2, <1>5, <2>1 DEF DeleteHonest
      <3> QED
        BY <1>2, <3>1, <3>2, <3>3 DEF DeleteHonest
    <2> QED
      BY <2>2, <2>3, <2>4
  <1> QED
    BY <1>1, <1>6, <1>7, LoneStep DEF Truthful

\* RemoveByID: of the entries with the number one goes, and when the torrent is
\* not excused there is no other.
LEMMA TruthfulDrop ==
  ASSUME Truthful, NEW c \in Callers, Drop(c)
  PROVE  Truthful'
  <1> DEFINE o == op[c]
             p == op'[c]
  <1>1. /\ Typed /\ TypeOK /\ o \in Op /\ Placed(o) /\ Step(c) /\ GoesOn(c)
        /\ o.step = "drop" /\ o.kind = "delete"
    BY DEF Truthful, Typed, TypeOK, Step, GoesOn, Drop, Placed
  <1>2. Others(c) /\ Between(p) /\ p = Ask(o, "remove")
    BY <1>1, GoesOnTo
  <1>3. UNCHANGED <<torrents, nextId, excused>> /\ alone \in {c, Nobody} /\ p.got = None
    BY <1>1, <1>2, LoneSteps DEF Drop, daemon, Between, Placed
  <1>4. tasks \in [Hashes -> 0..MaxId]
    BY <1>1 DEF TypeOK
  <1>5. /\ \A g \in Hashes : tasks'[g] \in {0, tasks[g]}
        /\ TaskByID(o.id) # {} => \E g \in TaskByID(o.id) : tasks'[g] = 0
    <2>1. CASE \E g \in TaskByID(o.id) : tasks' = [tasks EXCEPT ![g] = 0]
      BY <1>4, <2>1 DEF TaskByID
    <2>2. CASE TaskByID(o.id) = {} /\ tasks' = tasks
      BY <2>2
    <2> QED
      BY <2>1, <2>2 DEF Drop
  <1>6. Typed' /\ Current' /\ Unshared'
    BY <1>1, <1>2, <1>3, <1>5, NoneTyped, RefsKept
  <1>7. ASSUME alone = c
        PROVE  Undisturbed(c)' /\ AddHonest(op[c])' /\ DeleteHonest(op[c])'
    <2>1. /\ Undisturbed(c) /\ DeleteHonest(o)
          /\ o.hash \in Hashes /\ torrents[o.hash] = o.id /\ o.id \in Ids
      BY <1>1, <1>7 DEF Truthful, Lone, DeleteHonest
    <2>2. p.step = "remove" /\ p.kind = "delete" /\ p.hash = o.hash /\ p.id = o.id /\ ~p.found
      <3>1. "remove" \in Steps \ {"idle", "drop"}
        BY DEF Steps
      <3>2. /\ Ask(o, "remove").step = "remove" /\ Ask(o, "remove").kind = o.kind
            /\ Ask(o, "remove").hash = o.hash /\ Ask(o, "remove").id = o.id
            /\ Ask(o, "remove").found = FALSE
        BY <1>1, <3>1, AskTyped
      <3> QED
        BY <1>1, <1>2, <3>2
    <2>3. ASSUME NEW g \in Hashes \ excused, torrents[g] = o.id
          PROVE  tasks'[g] = 0
      <3>1. CASE tasks[g] = o.id
        <4>1. g \in TaskByID(o.id)
          BY <3>1 DEF TaskByID
        <4>2. PICK k \in TaskByID(o.id) : tasks'[k] = 0
          BY <1>5, <4>1
        <4>3. Refers(g, o.id) /\ Refers(k, o.id) /\ k \in Hashes
          BY <3>1, <4>2 DEF Refers, TaskByID
        <4>4. k = g
          BY <2>1, <2>3, <4>3 DEF Truthful, Unshared
        <4> QED
          BY <4>2, <4>4
      <3>2. CASE tasks[g] # o.id
        BY <1>5, <2>3, <3>2 DEF Truthful, Current
      <3> QED
        BY <3>1, <3>2
    <2>4. Undisturbed(c)'
      BY <1>2, <1>3, <1>7, <2>2, <2>3, NoneTyped, OthersIdle DEF Undisturbed
    <2>5. AddHonest(op[c])'
      BY <2>2 DEF AddHonest
    <2>6. DeleteHonest(op[c])'
      BY <1>3, <2>1, <2>2, <2>3, NoneTyped DEF DeleteHonest
    <2> QED
      BY <2>4, <2>5, <2>6
  <1> QED
    BY <1>1, <1>6, <1>7, LoneStep DEF Truthful

\* A request begins.
LEMMA TruthfulBegin ==
  ASSUME Truthful, Typed', NEW c \in Callers, NEW o \in Op, FirstCall(o), Begins(c, o)
  PROVE  Truthful'
  <1> DEFINE p == op'[c]
  <1>1. Typed /\ TypeOK /\ Placed(op[c]) /\ Placed(o)
    BY DEF Truthful, Typed, FirstCall
  <1>2. /\ Others(c) /\ p = IF attached THEN o ELSE Return(o, "unavailable")
    BY <1>1, BeginMoves
  <1>3. /\ UNCHANGED <<torrents, nextId, tasks, excused>>
        /\ alone' = IF \E d \in Callers \ {c} : Busy(d) THEN Nobody ELSE c
    BY DEF Begins, daemon, table
  <1>4. /\ p.got = None /\ p.step \notin {"undo", "drop", "remove"} /\ ~(p.step = "add" /\ p.net = "reply")
        /\ p.step = "idle" => p.kind = "none" \/ p.result = "unavailable"
        /\ p.step = "idle" => ~p.found
        /\ p.step # "idle" => p = o
    <2>1. CASE attached
      BY <1>2, <2>1 DEF FirstCall
    <2>2. CASE ~attached
      <3>1. "unavailable" \in Results
        BY DEF Results
      <3> DEFINE r == Return(o, "unavailable")
      <3>2. /\ r.step = "idle" /\ r.net = "none" /\ r.got = None /\ r.found = FALSE
            /\ alone # Nobody => r.result = "unavailable"
            /\ alone = Nobody => r.kind = "none"
        BY <1>1, <3>1, ReturnTyped
      <3>3. p = r
        BY <1>2, <2>2
      <3> HIDE DEF p, r
      <3> QED
        BY <3>2, <3>3
    <2> QED
      BY <2>1, <2>2
  <1>5. Draws
    BY <1>2, <1>3, <1>4, NoneTyped DEF Draws, Others, Same
  <1>6. Current'
    BY <1>3, <1>5, CurrentStep DEF Truthful
  <1>7. Unshared'
    BY <1>1, <1>3, <1>5, UnsharedStep DEF Truthful
  <1>8. ASSUME alone' = c
        PROVE  Undisturbed(c)' /\ AddHonest(op[c])' /\ DeleteHonest(op[c])'
    <2>1. \A d \in Callers \ {c} : op'[d].step = "idle"
      BY <1>2, <1>3, <1>8, TorrentsAssumption DEF Busy, Others, Same
    <2>2. Undisturbed(c)'
      BY <1>4, <2>1, NoneTyped DEF Undisturbed
    <2>3. AddHonest(op[c])'
      BY <1>4 DEF AddHonest, FirstCall
    <2>4. DeleteHonest(op[c])'
      BY <1>4, NoneTyped DEF DeleteHonest, FirstCall
    <2> QED
      BY <2>2, <2>3, <2>4
  <1>9. Lone'
    BY <1>3, <1>8, TorrentsAssumption DEF Lone
  <1> QED
    BY <1>6, <1>7, <1>9 DEF Truthful

\* The world does something: what it takes away is excused.
LEMMA TruthfulWorld ==
  ASSUME Truthful, Typed', World
  PROVE  Truthful'
  <1>1. /\ op' = op /\ tasks' = tasks /\ alone' = Nobody
        /\ Typed /\ nextId \in Nat
    BY TorrentsAssumption
       DEF World, AddElsewhere, RemoveElsewhere, Restart, table, Truthful, Typed, TypeOK
  <1>2. Lone'
    BY <1>1, TorrentsAssumption DEF Lone
  <1>3. CASE Restart
    BY <1>2, <1>3 DEF Restart, Truthful, Current, Unshared
  <1>4. ASSUME NEW h \in Hashes, AddElsewhere(h) \/ RemoveElsewhere(h)
        PROVE  Truthful'
    <2>1. /\ excused \subseteq excused' /\ nextId' \in {nextId, nextId + 1}
          /\ \A g \in Hashes : torrents'[g] \in {0, torrents[g], nextId}
          /\ \A g \in Hashes \ excused' : torrents'[g] = torrents[g] \/ torrents[g] = 0
      BY <1>1, <1>4 DEF AddElsewhere, RemoveElsewhere, Typed, TypeOK
    <2>2. Draws
      BY <1>1, <2>1 DEF Draws
    <2>3. Current' /\ Unshared'
      BY <1>1, <2>1, <2>2, CurrentStep, UnsharedStep DEF Truthful
    <2> QED
      BY <1>2, <2>3 DEF Truthful
  <1> QED
    BY <1>3, <1>4 DEF World

\* Every step keeps it.
LEMMA TruthfulStep ==
  ASSUME Truthful, [Next]_vars
  PROVE  Truthful'
  <1>1. Watch \in Callers /\ Requests \subseteq Callers /\ Typed'
    BY TypedStep DEF Callers, Truthful
  <1>2. CASE UNCHANGED vars \/ SetLimit
    <2>1. UNCHANGED <<torrents, nextId, tasks, op, alone, declined, excused>>
      BY <1>2 DEF vars, SetLimit, daemon, table
    <2> QED
      BY <1>1, <2>1 DEF Truthful, Current, Unshared, Refers, Lone, Undisturbed, AddHonest,
                        DeleteHonest
  <1>3. ASSUME NEW c \in Callers, BeginRequest(c) \/ ListTasks(c)
        PROVE  Truthful'
    BY <1>1, <1>3, FirstCalls, TruthfulBegin
  <1>4. ASSUME NEW c \in Callers, Step(c)
        PROVE  Truthful'
    BY <1>4, TruthfulCall, TruthfulReply, TruthfulAnswer, TruthfulError, TruthfulDecline, TruthfulEnd,
       TruthfulRegister, TruthfulEnsure, TruthfulDrop DEF Step
  <1> QED
    BY <1>1, <1>2, <1>3, <1>4, TruthfulWorld DEF Next, WatchLists

\* The first state: an empty table, and the engine about to be connected.
LEMMA InitTruthful ==
  ASSUME Init
  PROVE  Truthful
  <1>1. Typed
    BY InitTyped
  <1>2. /\ tasks = None /\ alone = Watch /\ Watch \in Callers
        /\ \A c \in Callers : op[c].got = None
        /\ \A c \in Callers \ {Watch} : op[c].step = "idle"
        /\ op[Watch].step = "hello" /\ op[Watch].kind = "connect"
    BY DEF Init, Connect, Ask, Idle, Callers
  <1>3. Current /\ Lone
    BY <1>2, NoneTyped DEF Current, Lone, Undisturbed, AddHonest, DeleteHonest
  <1>4. Unshared
    <2>1. \A h \in Hashes, i \in Ids : Refers(h, i) => torrents[h] = i
      BY <1>2, NoneTyped, TorrentsAssumption DEF Refers, Ids
    <2> QED
      BY <1>1, <2>1, TorrentsAssumption DEF Unshared, Typed, Numbered, Ids
  <1> QED
    BY <1>1, <1>3, <1>4 DEF Truthful

\* What requests, replies and the table know of the torrents is so throughout.
THEOREM Truth == Spec => []Truthful
  <1>1. Init => Truthful
    BY InitTruthful
  <1>2. Truthful /\ [Next]_vars => Truthful'
    BY TruthfulStep
  <1> QED
    BY <1>1, <1>2, PTL DEF Spec

\* An entry is a torrent of the daemon under its number, unless the torrent was
\* removed by others or the daemon has restarted (add, ensureTask, RemoveByID).
THEOREM EntriesAreThere == Spec => []EntriesAreTorrents
  <1>1. Truthful => EntriesAreTorrents
    BY DEF Truthful, Current, EntriesAreTorrents
  <1> QED
    BY <1>1, Truth, PTL

\* A request that nothing else happened beside has returned what is so: an add
\* its torrent and the entry, a conflict a torrent or an entry to conflict with,
\* a Delete neither torrent nor entry, but for a torrent whose removal the daemon
\* declined (add, Delete, RemoveByID).
THEOREM AnswersAreHonest == Spec => []LoneCallsAreHonest
  <1>1. Truthful => LoneCallsAreHonest
    BY DEF Truthful, Lone, AddHonest, DeleteHonest, LoneCallsAreHonest, Busy
  <1> QED
    BY <1>1, Truth, PTL
=============================================================================
