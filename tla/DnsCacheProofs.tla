--------------------------- MODULE DnsCacheProofs ---------------------------
(***************************************************************************)
(* For every set of requests, accounts and configurations: what the DNS    *)
(* service remembers is of the configuration in force, and its copy of the *)
(* records mirrors the zone, as long as nothing has raced.                 *)
(***************************************************************************)
EXTENDS DnsCache, FiniteSetTheorems, TLAPS

----------------------------------------------------------------------------
\* Sequences made of some elements of another, or of the elements of a set.

\* How many places of S there are up to n.
Rank(S, n) == Cardinality({m \in S : m <= n})

\* The places of S are ranked from 1 to their number.
LEMMA Ranked ==
  ASSUME NEW N \in Nat, NEW S \in SUBSET (1..N)
  PROVE  /\ IsFiniteSet(S) /\ Cardinality(S) \in Nat
         /\ \A n \in S : Rank(S, n) \in 1..Cardinality(S)
         /\ \A n, k \in S : Rank(S, n) = Rank(S, k) => n = k
         /\ \A k \in 1..Cardinality(S) : \E n \in S : Rank(S, n) = k
  <1> DEFINE Upto(n) == {m \in S : m <= n}
             rank    == [n \in S |-> Rank(S, n)]
             Ranks   == 1..Cardinality(S)
  <1>1. IsFiniteSet(1..N) /\ \A n \in S : n \in Nat
    BY FS_Interval
  <1>2. IsFiniteSet(S) /\ Cardinality(S) \in Nat
    BY <1>1, FS_Subset, FS_CardinalityType
  <1>3. \A n \in S : /\ IsFiniteSet(Upto(n))
                     /\ Rank(S, n) \in Ranks /\ Rank(S, n) \in Nat
    <2> TAKE n \in S
    <2>1. IsFiniteSet(Upto(n)) /\ Cardinality(Upto(n)) <= Cardinality(S)
      BY <1>2, FS_Subset, Zenon
    <2>2. Upto(n) # {}
      OBVIOUS
    <2> QED
      BY <1>2, <2>1, <2>2, FS_EmptySet, FS_CardinalityType DEF Rank
  <1>4. \A n, k \in S : n < k => Rank(S, n) < Rank(S, k)
    <2> TAKE n, k \in S
    <2> HAVE n < k
    <2>1. n \in Nat /\ k \in Nat /\ \A m \in S : m \in Nat /\ (m <= n => m <= k)
      BY <1>1
    <2>2. Upto(n) \subseteq Upto(k)
      BY <2>1
    <2>3. k \in Upto(k) /\ k \notin Upto(n)
      BY <2>1
    <2>4. Cardinality(Upto(n)) <= Cardinality(Upto(k))
          /\ Cardinality(Upto(n)) # Cardinality(Upto(k))
      BY <1>3, <2>2, <2>3, FS_Subset
    <2>5. Rank(S, n) \in Nat /\ Rank(S, k) \in Nat
      BY <1>3
    <2> QED
      BY <2>4, <2>5 DEF Rank
  <1>5. \A n, k \in S : Rank(S, n) = Rank(S, k) => n = k
    <2> TAKE n, k \in S
    <2>1. Rank(S, n) \in Nat /\ Rank(S, k) \in Nat /\ n \in Nat /\ k \in Nat
      BY <1>1, <1>3
    <2> QED
      BY <1>4, <2>1
  <1>6. rank \in Injection(S, Ranks)
    BY <1>3, <1>5 DEF Injection, IsInjective
  <1>7. IsFiniteSet(Ranks) /\ Cardinality(Ranks) = Cardinality(S)
    BY <1>2, FS_Interval
  <1>8. rank \in Surjection(S, Ranks)
    BY <1>6, <1>7, FS_Injection, Zenon
  <1> QED
    BY <1>2, <1>3, <1>5, <1>8 DEF Surjection

\* The k-th element of SubSeqAt(s, S) is that at the place of S whose rank is k.
LEMMA ChosenPlaces ==
  ASSUME NEW T, NEW s \in Seq(T), NEW S \in SUBSET DOMAIN s
  PROVE  /\ SubSeqAt(s, S) \in Seq(T)
         /\ \A k \in DOMAIN SubSeqAt(s, S) :
              \E n \in S : Rank(S, n) = k /\ SubSeqAt(s, S)[k] = s[n]
         /\ \A n \in S : /\ Rank(S, n) \in DOMAIN SubSeqAt(s, S)
                         /\ SubSeqAt(s, S)[Rank(S, n)] = s[n]
  <1> DEFINE Place(k) == CHOOSE n \in S : Rank(S, n) = k
             Ranks    == 1..Cardinality(S)
  <1>1. Len(s) \in Nat /\ DOMAIN s = 1..Len(s)
    OBVIOUS
  <1>2. /\ Cardinality(S) \in Nat
        /\ \A n \in S : Rank(S, n) \in Ranks
        /\ \A n, k \in S : Rank(S, n) = Rank(S, k) => n = k
        /\ \A k \in Ranks : \E n \in S : Rank(S, n) = k
    BY <1>1, Ranked
  <1>3. \A k \in Ranks : Place(k) \in S /\ Rank(S, Place(k)) = k
    BY <1>2
  <1>4. SubSeqAt(s, S) = [k \in Ranks |-> s[Place(k)]]
    BY DEF SubSeqAt, Rank
  <1> HIDE DEF Place
  <1>5. \A k \in Ranks : s[Place(k)] \in T
    BY <1>1, <1>3
  <1>6. SubSeqAt(s, S) \in Seq(T) /\ DOMAIN SubSeqAt(s, S) = Ranks
    BY <1>2, <1>4, <1>5
  <1>7. \A n \in S : Place(Rank(S, n)) = n
    BY <1>2, <1>3
  <1>8. \A k \in Ranks : SubSeqAt(s, S)[k] = s[Place(k)]
    BY <1>4
  <1> HIDE DEF Ranks
  <1> QED
    BY <1>2, <1>3, <1>6, <1>7, <1>8

\* SetToSeq lists the elements of a finite set, each once.
LEMMA SetToSeqProperties ==
  ASSUME NEW S, IsFiniteSet(S)
  PROVE  /\ SetToSeq(S) \in Seq(S)
         /\ ToSet(SetToSeq(S)) = S
         /\ IsInjective(SetToSeq(S))
  <1> DEFINE N == Cardinality(S)
             f == SetToSeq(S)
  <1>1. N \in Nat /\ ExistsBijection(1..N, S)
    BY FS_CardinalityType
  <1>2. \E g \in [1..N -> S] : IsInjective(g)
    BY <1>1 DEF ExistsBijection, Bijection, Injection
  <1>3. f \in [1..N -> S] /\ IsInjective(f)
    BY <1>2 DEF SetToSeq
  <1>4. IsFiniteSet(1..N) /\ Cardinality(1..N) = N
    BY <1>1, FS_Interval
  <1> HIDE DEF f
  <1>5. f \in Injection(1..N, S)
    BY <1>3 DEF Injection
  <1>6. f \in Surjection(1..N, S)
    BY <1>4, <1>5, FS_Injection
  <1>7. ToSet(f) = S
    BY <1>3, <1>6 DEF ToSet, Surjection
  <1>8. f \in Seq(S)
    BY <1>1, <1>3
  <1> QED
    BY <1>3, <1>7, <1>8 DEF f

\* Of one element it is the sequence of that.
LEMMA SetToSeqOne ==
  ASSUME NEW r
  PROVE  SetToSeq({r}) = <<r>>
  <1>1. IsFiniteSet({r}) /\ Cardinality({r}) = 1
    BY FS_Singleton
  <1>2. \E g \in [1..1 -> {r}] : IsInjective(g)
    <2> WITNESS <<r>> \in [1..1 -> {r}]
    <2> QED
      BY DEF IsInjective
  <1>3. SetToSeq({r}) \in [1..1 -> {r}]
    BY <1>1, <1>2 DEF SetToSeq
  <1> QED
    BY <1>3

\* There are finitely many records within the bounds.
LEMMA FiniteRecord == IsFiniteSet(Record)
  <1> DEFINE Pairs == Ids \X (0..MaxWrites)
             make  == [p \in Pairs |-> [id |-> p[1], rev |-> p[2]]]
  <1>1. IsFiniteSet(Ids) /\ IsFiniteSet(0..MaxWrites)
    BY FS_Interval, DnsAssumption DEF Ids
  <1>2. IsFiniteSet(Pairs)
    BY <1>1, FS_Product
  <1>3. \A r \in Record : <<r.id, r.rev>> \in Pairs /\ make[<<r.id, r.rev>>] = r
    BY DEF Record
  <1>4. make \in [Pairs -> Record]
    BY DEF Record
  <1> HIDE DEF Pairs, make
  <1>5. make \in Surjection(Pairs, Record)
    BY <1>3, <1>4 DEF Surjection
  <1> QED
    BY <1>2, <1>5, FS_Surjection

\* The identifiers of the copy are all different.
Distinct == \A m, n \in DOMAIN records : records[m].id = records[n].id => m = n

\* What a write does to the copy: the records with its identifier go, those of
\* the reply come, and no identifier is there twice.
Brought(i, o) ==
  /\ RecordsAfter(o) \in Seq(Record)
  /\ ToSet(RecordsAfter(o)) = {x \in ToSet(records) : x.id # i} \cup o.reply
  /\ \A m, n \in DOMAIN RecordsAfter(o) :
       RecordsAfter(o)[m].id = RecordsAfter(o)[n].id => m = n

\* A deletion leaves a sequence of records.
LEMMA DroppingTyped ==
  ASSUME records \in Seq(Record), NEW i
  PROVE  Dropping(i) \in Seq(Record)
  <1>1. DOMAIN records \ Matching(i) \subseteq DOMAIN records
    OBVIOUS
  <1> QED
    BY <1>1, ChosenPlaces DEF Dropping

\* A deletion.
LEMMA DeleteBrought ==
  ASSUME records \in Seq(Record), Distinct, NEW o, o.kind = "delete", o.reply = {}
  PROVE  Brought(o.id, o)
  <1> DEFINE kept == DOMAIN records \ Matching(o.id)
             seq  == Dropping(o.id)
  <1>1. RecordsAfter(o) = seq /\ seq \in Seq(Record)
    BY DroppingTyped DEF RecordsAfter
  <1>2. /\ \A k \in DOMAIN seq : \E n \in kept : Rank(kept, n) = k /\ seq[k] = records[n]
        /\ \A n \in kept : Rank(kept, n) \in DOMAIN seq /\ seq[Rank(kept, n)] = records[n]
    <2>1. kept \in SUBSET DOMAIN records /\ seq = SubSeqAt(records, kept)
      BY DEF Dropping
    <2> HIDE DEF kept, seq
    <2> QED
      BY <2>1, ChosenPlaces
  <1>3. \A n \in DOMAIN records : n \in kept <=> records[n].id # o.id
    BY DEF Matching
  <1> HIDE DEF kept, seq
  <1>4. \A n \in kept : n \in DOMAIN records
    BY DEF kept
  <1>5. ToSet(seq) = {x \in ToSet(records) : x.id # o.id}
    <2>1. ToSet(seq) \subseteq {x \in ToSet(records) : x.id # o.id}
      BY <1>2, <1>3, <1>4 DEF ToSet
    <2>2. ASSUME NEW n \in DOMAIN records, records[n].id # o.id
          PROVE  records[n] \in ToSet(seq)
      <3>1. Rank(kept, n) \in DOMAIN seq /\ seq[Rank(kept, n)] = records[n]
        BY <1>2, <1>3, <2>2
      <3> QED
        BY <3>1 DEF ToSet
    <2>3. {x \in ToSet(records) : x.id # o.id} \subseteq ToSet(seq)
      BY <2>2 DEF ToSet
    <2> QED
      BY <2>1, <2>3
  <1>6. \A m, n \in DOMAIN seq : seq[m].id = seq[n].id => m = n
    BY <1>2, <1>4 DEF Distinct
  <1> QED
    BY <1>1, <1>5, <1>6 DEF Brought

\* A record that is added, with an identifier the copy does not have.
LEMMA AppendBrought ==
  ASSUME records \in Seq(Record), Distinct, NEW o, NEW r \in Record, o.reply = {r},
         RecordsAfter(o) = records \o SetToSeq(o.reply), Matching(r.id) = {}
  PROVE  Brought(r.id, o)
  <1> DEFINE seq == RecordsAfter(o)
  <1>1. seq = records \o <<r>>
    BY SetToSeqOne
  <1>2. /\ seq \in Seq(Record) /\ DOMAIN seq = DOMAIN records \cup {Len(records) + 1}
        /\ \A n \in DOMAIN records : seq[n] = records[n] /\ n # Len(records) + 1
        /\ seq[Len(records) + 1] = r
    <2> HIDE DEF seq
    <2>1. <<r>> \in Seq(Record) /\ Len(<<r>>) = 1 /\ <<r>>[1] = r
      OBVIOUS
    <2>2. Len(records) \in Nat /\ DOMAIN records = 1..Len(records)
      OBVIOUS
    <2>3. /\ seq \in Seq(Record) /\ Len(seq) = Len(records) + 1
          /\ \A n \in 1..Len(records) : seq[n] = records[n]
          /\ seq[Len(records) + 1] = r
      BY <1>1, <2>1, <2>2
    <2>4. DOMAIN seq = 1..(Len(records) + 1)
      BY <2>3
    <2> QED
      BY <2>2, <2>3, <2>4
  <1>3. \A n \in DOMAIN records : records[n].id # r.id
    BY DEF Matching
  <1> HIDE DEF seq
  <1>4. ToSet(seq) = {x \in ToSet(records) : x.id # r.id} \cup {r}
    BY <1>2, <1>3 DEF ToSet
  <1>5. \A m, n \in DOMAIN seq : seq[m].id = seq[n].id => m = n
    BY <1>2, <1>3 DEF Distinct
  <1> QED
    BY <1>2, <1>4, <1>5 DEF Brought, seq

\* An update of a record the copy has.
LEMMA UpdateBrought ==
  ASSUME records \in Seq(Record), Distinct, NEW o, NEW r \in Record, o.reply = {r},
         r.id = o.id, o.kind = "update", Matching(o.id) # {}
  PROVE  Brought(o.id, o)
  <1> DEFINE old == Matching(o.id)
             at  == CHOOSE n \in old : \A m \in old : n <= m
             seq == RecordsAfter(o)
  <1>1. PICK n \in DOMAIN records : records[n].id = o.id
    BY DEF Matching
  <1>2. old = {n} /\ n \in Nat
    BY <1>1 DEF Matching, Distinct
  <1>3. at = n
    BY <1>2
  <1>4. seq = [records EXCEPT ![n] = r]
    BY <1>2, <1>3 DEF RecordsAfter
  <1>5. /\ seq \in Seq(Record) /\ DOMAIN seq = DOMAIN records /\ seq[n] = r
        /\ \A m \in DOMAIN records \ {n} : seq[m] = records[m] /\ records[m].id # o.id
    BY <1>1, <1>4 DEF Distinct
  <1> HIDE DEF seq
  <1>6. ToSet(seq) = {x \in ToSet(records) : x.id # o.id} \cup {r}
    BY <1>1, <1>5 DEF ToSet
  <1>7. \A k, m \in DOMAIN seq : seq[k].id = seq[m].id => k = m
    BY <1>5 DEF Distinct
  <1> QED
    BY <1>5, <1>6, <1>7 DEF Brought, seq

----------------------------------------------------------------------------
\* Types.

\* TypeOK, and what it needs to be kept: a request under way has a token.
Typed ==
  /\ TypeOK
  /\ \A c \in Callers : UnderWay(c) => op[c].token \in Accounts

\* What a caller without a request looks like.
LEMMA IdleTyped ==
  /\ Idle \in Op /\ Idle.pc = "idle" /\ Idle.kind = "zones" /\ Idle.id = 0
  /\ Idle.reply = {} /\ Idle.clean = FALSE
  BY DnsAssumption DEF Idle, Op, Kinds, Ids

\* A step of the request of one caller: the others' stay as they are.
LEMMA OneMoves ==
  ASSUME TypeOK, NEW c \in Callers, NEW o, op' = [op EXCEPT ![c] = o]
  PROVE  op'[c] = o /\ \A d \in Callers \ {c} : op'[d] = op[d]
  BY DEF TypeOK

\* A request that ends.
LEMMA FinishMoves ==
  ASSUME TypeOK, NEW c \in Callers, Finish(c)
  PROVE  op'[c] = Idle /\ \A d \in Callers \ {c} : op'[d] = op[d]
  BY DEF Finish, TypeOK

\* Types of op from those of the request that moves.
LEMMA OpTyped ==
  ASSUME Typed, NEW c \in Callers, NEW o \in Op, op' = [op EXCEPT ![c] = o],
         o.pc # "idle" => o.token \in Accounts,
         o.pc \in {"call", "store"} => o.zone \in Accounts
  PROVE  /\ op' \in [Callers -> Op]
         /\ \A d \in Callers : op'[d].pc \in {"call", "store"} => op'[d].zone \in Accounts
         /\ \A d \in Callers : UnderWay(d)' => op'[d].token \in Accounts
  BY OneMoves DEF Typed, TypeOK, UnderWay

\* Its end keeps the types.
LEMMA FinishTyped ==
  ASSUME Typed, NEW c \in Callers, Finish(c)
  PROVE  /\ op' \in [Callers -> Op]
         /\ \A d \in Callers : op'[d].pc \in {"call", "store"} => op'[d].zone \in Accounts
         /\ \A d \in Callers : UnderWay(d)' => op'[d].token \in Accounts
  BY IdleTyped, OpTyped DEF Finish

\* The initial states have the types.
LEMMA InitTyped == Init => Typed
  <1> SUFFICES ASSUME Init
               PROVE  Typed
    OBVIOUS
  <1>1. config \in Configs /\ op = [c \in Callers |-> Idle]
    BY DEF Init
  <1>2. \A a \in Accounts : remote[a] \in SUBSET Record
    BY DnsAssumption DEF Init, Record, Ids
  <1>3. remote \in [Accounts -> SUBSET Record] /\ op \in [Callers -> Op]
    BY <1>1, <1>2, IdleTyped DEF Init
  <1>4. /\ zone = NoAccount /\ cached = FALSE /\ records = <<>> /\ writes = 0
        /\ fetched = FALSE /\ raced = FALSE /\ crossed = FALSE
    BY DEF Init
  <1>5. TypeOK
    <2>1. records \in Seq(Record) /\ writes \in 0..MaxWrites
      BY <1>4, DnsAssumption
    <2>2. zone \in Accounts \cup {NoAccount} /\ cached \in BOOLEAN
          /\ fetched \in BOOLEAN /\ raced \in BOOLEAN /\ crossed \in BOOLEAN
      BY <1>4
    <2>3. \A c \in Callers : op[c].pc \notin {"call", "store"}
      BY <1>1, IdleTyped
    <2> QED
      BY <1>1, <1>3, <2>1, <2>2, <2>3 DEF TypeOK
  <1> QED
    BY <1>1, <1>5, IdleTyped DEF Typed, UnderWay

\* A reload keeps the types.
LEMMA ReplaceTyped ==
  ASSUME Typed, NEW cfg \in Configs, Replace(cfg)
  PROVE  Typed'
  <1>1. \A c \in Callers :
          /\ op'[c] = [op[c] EXCEPT !.clean = FALSE] /\ op[c] \in Op
          /\ op'[c] \in Op /\ op'[c].pc = op[c].pc /\ op'[c].zone = op[c].zone
          /\ op'[c].token = op[c].token
    BY DEF Typed, TypeOK, Replace, Op
  <1>2. op' \in [Callers -> Op]
    BY <1>1 DEF Replace
  <1>3. crossed' \in BOOLEAN /\ raced' \in BOOLEAN
    BY DEF Replace
  <1>4. /\ config' = cfg /\ zone' = NoAccount /\ cached' = FALSE /\ records' = <<>>
        /\ fetched' = FALSE /\ remote' = remote /\ writes' = writes
    BY DEF Replace
  <1>5. TypeOK'
    <2>1. records' \in Seq(Record) /\ writes' \in 0..MaxWrites
          /\ remote' \in [Accounts -> SUBSET Record]
      BY <1>4 DEF Typed, TypeOK
    <2>2. config' \in Configs /\ zone' \in Accounts \cup {NoAccount}
          /\ cached' \in BOOLEAN /\ fetched' \in BOOLEAN
      BY <1>4
    <2>3. \A c \in Callers : op'[c].pc \in {"call", "store"} => op'[c].zone \in Accounts
      BY <1>1 DEF Typed, TypeOK
    <2> QED
      BY <1>2, <1>3, <2>1, <2>2, <2>3 DEF TypeOK
  <1> QED
    BY <1>1, <1>5 DEF Typed, UnderWay

\* Where Begin leaves each request.
LEMMA BeginMoves ==
  ASSUME Typed, NEW c \in Callers, NEW k \in Kinds, NEW i \in Ids, Begin(c, k, i)
  PROVE  /\ op' \in [Callers -> Op] /\ ~UnderWay(c)
         /\ op'[c].kind = k /\ op'[c].id = i /\ op'[c].pc = "lookup"
         /\ op'[c].token = config.account /\ op'[c].token \in Accounts
         /\ op'[c].reply = {}
         /\ op'[c].clean <=> \A d \in Callers \ {c} :
              ~(UnderWay(d) /\ Conflict(op[d], k, i))
         /\ raced' <=> (raced \/ ~op'[c].clean)
         /\ \A d \in Callers \ {c} :
              /\ op'[d].kind = op[d].kind /\ op'[d].id = op[d].id
              /\ op'[d].pc = op[d].pc /\ op'[d].token = op[d].token
              /\ op'[d].zone = op[d].zone /\ op'[d].reply = op[d].reply
              /\ op'[d].clean <=>
                   op[d].clean /\ ~(UnderWay(d) /\ Conflict(op[d], k, i))
  <1> DEFINE rivals == {d \in Callers \ {c} : UnderWay(d) /\ Conflict(op[d], k, i)}
             alone  == rivals = {}
  <1>1. /\ ~UnderWay(c) /\ config.account # NoAccount
        /\ raced' = (raced \/ ~alone)
        /\ op' = [d \in Callers |->
                    CASE d = c -> [Idle EXCEPT !.kind = k, !.id = i, !.pc = "lookup",
                                     !.token = config.account, !.clean = alone]
                      [] d \in rivals -> [op[d] EXCEPT !.clean = FALSE]
                      [] OTHER -> op[d]]
    BY DEF Begin
  <1>2. config.account \in Accounts /\ alone \in BOOLEAN /\ raced \in BOOLEAN
    BY <1>1, DnsAssumption DEF Typed, TypeOK, Config
  <1>3. alone <=> \A d \in Callers \ {c} : ~(UnderWay(d) /\ Conflict(op[d], k, i))
    OBVIOUS
  <1>4. op'[c] = [Idle EXCEPT !.kind = k, !.id = i, !.pc = "lookup",
                    !.token = config.account, !.clean = alone]
    BY <1>1
  <1>5. \A d \in Callers \ {c} :
          op'[d] = IF d \in rivals THEN [op[d] EXCEPT !.clean = FALSE] ELSE op[d]
    BY <1>1
  <1>6. \A d \in rivals : UnderWay(d) /\ Conflict(op[d], k, i)
    OBVIOUS
  <1>7. \A d \in Callers \ {c} : d \in rivals <=> (UnderWay(d) /\ Conflict(op[d], k, i))
    OBVIOUS
  <1>8. op \in [Callers -> Op]
    BY DEF Typed, TypeOK
  <1>9. DOMAIN op' = Callers /\ op' = [d \in Callers |-> op'[d]]
    BY <1>1
  <1> HIDE DEF rivals, alone
  <1>10. /\ op'[c] \in Op /\ op'[c].kind = k /\ op'[c].id = i /\ op'[c].pc = "lookup"
         /\ op'[c].token = config.account /\ op'[c].reply = {}
         /\ op'[c].clean = alone
    BY <1>2, <1>4, IdleTyped DEF Idle, Op
  <1>11. ASSUME NEW d \in Callers \ {c}
         PROVE  /\ op'[d] \in Op
                /\ op'[d].kind = op[d].kind /\ op'[d].id = op[d].id
                /\ op'[d].pc = op[d].pc /\ op'[d].token = op[d].token
                /\ op'[d].zone = op[d].zone /\ op'[d].reply = op[d].reply
                /\ op'[d].clean <=> op[d].clean /\ d \notin rivals
    <2>1. op[d] \in Op
      BY <1>8
    <2>2. CASE d \in rivals
      BY <1>5, <2>1, <2>2 DEF Op
    <2>3. CASE d \notin rivals
      BY <1>5, <2>1, <2>3
    <2> QED
      BY <2>2, <2>3
  <1>12. \A d \in Callers : op'[d] \in Op
    BY <1>10, <1>11
  <1>13. op' \in [Callers -> Op]
    BY <1>9, <1>12
  <1>14. raced' <=> (raced \/ ~op'[c].clean)
    BY <1>1, <1>2, <1>10
  <1> QED
    BY <1>1, <1>2, <1>3, <1>7, <1>10, <1>11, <1>13, <1>14

\* The beginning of a request keeps the types.
LEMMA BeginTyped ==
  ASSUME Typed, NEW c \in Callers, NEW k \in Kinds, NEW i \in Ids, Begin(c, k, i)
  PROVE  Typed'
  <1>1. raced' \in BOOLEAN
    BY DEF Begin, Typed, TypeOK
  <1>2. \A d \in Callers : op'[d].pc \in {"call", "store"} => op'[d].zone \in Accounts
    BY BeginMoves DEF Typed, TypeOK
  <1>3. \A d \in Callers : UnderWay(d)' => op'[d].token \in Accounts
    BY BeginMoves DEF Typed, UnderWay
  <1>4. op' \in [Callers -> Op] /\ UNCHANGED <<config, zone, cached, records, remote,
                                               writes, fetched, crossed>>
    BY BeginMoves DEF Begin
  <1> QED
    BY <1>1, <1>2, <1>3, <1>4 DEF Typed, TypeOK

\* What does not change of the request of c while it is under way.
Same(c) ==
  /\ op'[c].kind = op[c].kind /\ op'[c].id = op[c].id
  /\ op'[c].token = op[c].token /\ op'[c].clean = op[c].clean

\* The step of c leaves the others' requests alone, and the types as they are.
Alone(c) ==
  /\ \A d \in Callers \ {c} : op'[d] = op[d]
  /\ op' \in [Callers -> Op]
  /\ \A d \in Callers : op'[d].pc \in {"call", "store"} => op'[d].zone \in Accounts
  /\ \A d \in Callers : UnderWay(d)' => op'[d].token \in Accounts

\* A request that goes on to something of its type.
LEMMA MovesAlone ==
  ASSUME Typed, NEW c \in Callers, NEW o \in Op, op' = [op EXCEPT ![c] = o],
         o.pc # "idle" => o.token \in Accounts,
         o.pc \in {"call", "store"} => o.zone \in Accounts
  PROVE  Alone(c) /\ op'[c] = o
  BY OpTyped, OneMoves DEF Alone, Typed

\* A request that ends.
LEMMA FinishAlone ==
  ASSUME Typed, NEW c \in Callers, Finish(c)
  PROVE  Alone(c) /\ op'[c] = Idle
  BY FinishMoves, FinishTyped DEF Alone, Typed

\* Where ensureZone, under the lock, leaves the request.
LEMMA LookupMoves ==
  ASSUME Typed, NEW c \in Callers, Lookup(c)
  PROVE  /\ Alone(c) /\ op[c].pc = "lookup"
         /\ \/ /\ Same(c) /\ op'[c].reply = op[c].reply
               /\ \/ op'[c].pc = "call" /\ zone # NoAccount /\ op'[c].zone = zone
                  \/ op'[c].pc = "find" /\ config.listed
            \/ op'[c] = Idle
  <1>1. op[c] \in Op /\ op[c].pc = "lookup" /\ op[c].token \in Accounts
    BY DEF Typed, TypeOK, Lookup, UnderWay
  <1>2. CASE zone # NoAccount /\ op' = [op EXCEPT ![c] = [@ EXCEPT !.pc = "call",
                                                           !.zone = zone]]
    <2> DEFINE o == [op[c] EXCEPT !.pc = "call", !.zone = zone]
    <2>1. zone \in Accounts
      BY <1>2 DEF Typed, TypeOK
    <2>2. /\ o \in Op /\ o.pc = "call" /\ o.zone = zone /\ o.kind = op[c].kind
          /\ o.id = op[c].id /\ o.token = op[c].token /\ o.clean = op[c].clean
          /\ o.reply = op[c].reply
      BY <1>1, <2>1 DEF Op
    <2>3. op' = [op EXCEPT ![c] = o]
      BY <1>2
    <2> HIDE DEF o
    <2>4. Alone(c) /\ op'[c] = o
      BY <1>1, <1>2, <2>1, <2>2, <2>3, MovesAlone
    <2> QED
      BY <1>1, <1>2, <2>1, <2>2, <2>3, <2>4 DEF Same
  <1>3. CASE config.listed /\ op' = [op EXCEPT ![c].pc = "find"]
    <2> DEFINE o == [op[c] EXCEPT !.pc = "find"]
    <2>1. /\ o \in Op /\ o.pc = "find" /\ o.kind = op[c].kind
          /\ o.id = op[c].id /\ o.token = op[c].token /\ o.clean = op[c].clean
          /\ o.reply = op[c].reply
      BY <1>1 DEF Op
    <2>2. op' = [op EXCEPT ![c] = o]
      BY <1>3
    <2> HIDE DEF o
    <2>3. Alone(c) /\ op'[c] = o
      BY <1>1, <1>3, <2>1, <2>2, MovesAlone
    <2> QED
      BY <1>1, <1>3, <2>1, <2>2, <2>3 DEF Same
  <1>4. CASE Finish(c)
    BY <1>1, <1>4, FinishAlone
  <1> QED
    BY <1>2, <1>3, <1>4 DEF Lookup

\* Where FindZone leaves it.
LEMMA FindZoneMoves ==
  ASSUME Typed, NEW c \in Callers, FindZone(c)
  PROVE  /\ Alone(c) /\ op[c].pc = "find" /\ op[c].token \in Accounts
         /\ Same(c) /\ op'[c].reply = op[c].reply
         /\ op'[c].pc = "call" /\ op'[c].zone = op[c].token
  <1> DEFINE o == [op[c] EXCEPT !.pc = "call", !.zone = op[c].token]
  <1>1. op[c] \in Op /\ op[c].pc = "find" /\ op[c].token \in Accounts
    BY DEF Typed, TypeOK, FindZone, UnderWay
  <1>2. /\ o \in Op /\ o.pc = "call" /\ o.zone = op[c].token /\ o.kind = op[c].kind
        /\ o.id = op[c].id /\ o.token = op[c].token /\ o.clean = op[c].clean
        /\ o.reply = op[c].reply
    BY <1>1 DEF Op
  <1>3. op' = [op EXCEPT ![c] = o]
    BY DEF FindZone
  <1> HIDE DEF o
  <1>4. Alone(c) /\ op'[c] = o
    BY <1>1, <1>2, <1>3, MovesAlone
  <1> QED
    BY <1>1, <1>2, <1>3, <1>4 DEF Same

\* A reply has come in.
LEMMA ReplyMoves ==
  ASSUME Typed, NEW c \in Callers, op[c].pc = "call", NEW reply \in SUBSET Record,
         op' = [op EXCEPT ![c] = [@ EXCEPT !.pc = "store", !.reply = reply]]
  PROVE  /\ Alone(c) /\ Same(c) /\ op'[c].zone = op[c].zone
         /\ op'[c].pc = "store" /\ op'[c].reply = reply
  <1> DEFINE o == [op[c] EXCEPT !.pc = "store", !.reply = reply]
  <1>1. op[c] \in Op /\ op[c].zone \in Accounts /\ op[c].token \in Accounts
    BY DEF Typed, TypeOK, UnderWay
  <1>2. /\ o \in Op /\ o.pc = "store" /\ o.zone = op[c].zone /\ o.kind = op[c].kind
        /\ o.id = op[c].id /\ o.token = op[c].token /\ o.clean = op[c].clean
        /\ o.reply = reply
    BY <1>1 DEF Op
  <1>3. op' = [op EXCEPT ![c] = o]
    OBVIOUS
  <1> HIDE DEF o
  <1>4. Alone(c) /\ op'[c] = o
    BY <1>1, <1>2, <1>3, MovesAlone
  <1> QED
    BY <1>1, <1>2, <1>3, <1>4 DEF Same

\* The record a creation or an update makes.
Made(o) == [id |-> IF o.kind = "create" THEN writes + 1 ELSE o.id, rev |-> writes + 1]

\* What Cloudflare makes of an accepted write.
LEMMA WrittenIs ==
  ASSUME Typed, NEW c \in Callers, op[c].pc = "call", IsWrite(op[c].kind),
         Accepted(op[c])
  PROVE  LET o == op[c]  old == remote[op[c].zone] IN
         /\ o.kind = "delete" =>
              /\ Written(o).after = {r \in old : r.id # o.id}
              /\ Written(o).reply = {}
         /\ o.kind # "delete" =>
              /\ Made(o) \in Record /\ writes + 1 <= MaxWrites
              /\ Written(o).after = {r \in old : r.id # Made(o).id} \cup {Made(o)}
              /\ Written(o).reply = {Made(o)}
         /\ Written(o).after \subseteq Record /\ Written(o).reply \subseteq Record
         /\ o.zone \in Accounts /\ o.zone = o.token /\ old \subseteq Record
         /\ o.kind \in {"create", "update", "delete"}
  <1> DEFINE o == op[c]
  <1>1. o \in Op /\ o.zone \in Accounts /\ writes \in 0..MaxWrites
    BY DEF Typed, TypeOK
  <1>2. remote[o.zone] \subseteq Record /\ o.kind \in {"create", "update", "delete"}
    BY <1>1 DEF Typed, TypeOK, IsWrite
  <1>3. o.zone = o.token
    BY DEF Accepted
  <1>4. CASE o.kind = "delete"
    BY <1>1, <1>2, <1>3, <1>4 DEF Written
  <1>5. CASE o.kind # "delete"
    <2>1. writes < MaxWrites
      BY <1>2, <1>5 DEF Accepted
    <2>2. Made(o) \in Record /\ writes + 1 <= MaxWrites
      BY <1>1, <2>1, DnsAssumption DEF Made, Record, Ids, Op
    <2>3. /\ Written(o).after =
               {r \in remote[o.zone] : r.id # Made(o).id} \cup {Made(o)}
          /\ Written(o).reply = {Made(o)}
      BY <1>5 DEF Written, Made
    <2> QED
      BY <1>1, <1>2, <1>3, <1>5, <2>2, <2>3
  <1> QED
    BY <1>4, <1>5

\* Where a write leaves the request: with its reply, or ended if that is lost.
LEMMA CallWriteMoves ==
  ASSUME Typed, NEW c \in Callers, CallWrite(c)
  PROVE  /\ Alone(c)
         /\ \/ /\ Same(c) /\ op'[c].zone = op[c].zone /\ op'[c].pc = "store"
               /\ op'[c].reply = Written(op[c]).reply /\ raced' = raced
            \/ op'[c] = Idle /\ raced' = TRUE
  <1>1. Written(op[c]).reply \in SUBSET Record /\ op[c].pc = "call"
    BY WrittenIs DEF CallWrite
  <1>2. CASE op' = [op EXCEPT ![c] = [@ EXCEPT !.pc = "store",
                                               !.reply = Written(op[c]).reply]]
             /\ raced' = raced
    BY <1>1, <1>2, ReplyMoves
  <1>3. CASE Finish(c) /\ raced' = TRUE
    BY <1>3, FinishAlone
  <1> QED
    BY <1>2, <1>3 DEF CallWrite

\* Where the list of the records leaves it.
LEMMA CallListMoves ==
  ASSUME Typed, NEW c \in Callers, CallList(c)
  PROVE  /\ Alone(c) /\ Same(c) /\ op'[c].zone = op[c].zone
         /\ op'[c].pc = "store" /\ op'[c].reply = remote[op[c].zone]
         /\ op[c].zone = op[c].token /\ op[c].pc = "call" /\ op[c].kind = "refresh"
  <1>1. op[c].pc = "call" /\ op[c].kind = "refresh" /\ op[c].zone = op[c].token
    BY DEF CallList, Accepted
  <1>2. remote[op[c].zone] \in SUBSET Record
    BY <1>1 DEF Typed, TypeOK
  <1>3. op' = [op EXCEPT ![c] = [@ EXCEPT !.pc = "store", !.reply = remote[op[c].zone]]]
    BY DEF CallList
  <1> QED
    BY <1>1, <1>2, <1>3, ReplyMoves

\* A step of one request keeps the types if it keeps those of the rest.
LEMMA AloneTyped ==
  ASSUME Typed, NEW c \in Callers, Alone(c), UNCHANGED <<config, crossed>>,
         zone' \in Accounts \cup {NoAccount}, cached' \in BOOLEAN,
         records' \in Seq(Record), remote' \in [Accounts -> SUBSET Record],
         writes' \in 0..MaxWrites, fetched' \in BOOLEAN, raced' \in BOOLEAN
  PROVE  Typed'
  BY DEF Typed, TypeOK, Alone

\* A write under way that Cloudflare has made and the copy does not have yet.
Pending(c) == op[c].pc = "store" /\ IsWrite(op[c].kind)

\* The reply is that of the call: the record a creation or an update has made, or
\* nothing; and only calls on the zone of the token's account are answered.
Replied(c) ==
  /\ op[c].pc # "store" => op[c].reply = {}
  /\ op[c].pc = "store" => op[c].zone = op[c].token /\ op[c].kind # "zones"
  /\ Pending(c) /\ op[c].kind = "delete" => op[c].reply = {}
  /\ Pending(c) /\ op[c].kind # "delete" =>
       \E r \in Record : /\ op[c].reply = {r}
                         /\ op[c].kind = "update" => r.id = op[c].id

TypedInv == Typed /\ \A c \in Callers : Replied(c)

\* What a write makes of the copy has the type of it.
LEMMA StoreWriteTyped ==
  ASSUME TypedInv, NEW c \in Callers, StoreWrite(c)
  PROVE  RecordsAfter(op[c]) \in Seq(Record)
  <1> DEFINE o  == op[c]
             at == CHOOSE n \in Matching(o.id) : \A m \in Matching(o.id) : n <= m
  <1>1. o \in Op /\ records \in Seq(Record)
    BY DEF TypedInv, Typed, TypeOK
  <1>2. SetToSeq(o.reply) \in Seq(Record)
    <2>1. o.reply \in SUBSET Record
      BY <1>1 DEF Op
    <2>2. IsFiniteSet(o.reply)
      BY <2>1, FiniteRecord, FS_Subset
    <2>3. SetToSeq(o.reply) \in Seq(o.reply)
      BY <2>2, SetToSeqProperties
    <2> HIDE DEF o
    <2> QED
      BY <2>1, <2>3
  <1>3. records \o SetToSeq(o.reply) \in Seq(Record)
    BY <1>1, <1>2
  <1>4. CASE o.kind = "update"
    <2>1. (CHOOSE r \in o.reply : TRUE) \in Record
      BY <1>4 DEF TypedInv, Replied, Pending, StoreWrite
    <2>2. ASSUME NEW r \in Record
          PROVE  [records EXCEPT ![at] = r] \in Seq(Record)
      <3>1. Len(records) \in Nat /\ records \in [1..Len(records) -> Record]
        BY <1>1
      <3> HIDE DEF at
      <3>2. [records EXCEPT ![at] = r] \in [1..Len(records) -> Record]
        BY <3>1
      <3> QED
        BY <3>1, <3>2
    <2> QED
      BY <1>3, <1>4, <2>1, <2>2 DEF RecordsAfter
  <1>5. CASE o.kind # "update"
    BY <1>3, <1>5, DroppingTyped, <1>1 DEF RecordsAfter
  <1> QED
    BY <1>4, <1>5

\* Every step keeps the types.
LEMMA TypedStep ==
  ASSUME TypedInv, [Next]_vars
  PROVE  Typed'
  <1> SUFFICES ASSUME Typed, Next
               PROVE  Typed'
    BY DEF TypedInv, Typed, TypeOK, UnderWay, vars
  <1>1. /\ config \in Configs /\ zone \in Accounts \cup {NoAccount}
        /\ cached \in BOOLEAN /\ records \in Seq(Record)
        /\ remote \in [Accounts -> SUBSET Record] /\ writes \in 0..MaxWrites
        /\ fetched \in BOOLEAN /\ raced \in BOOLEAN /\ MaxWrites \in Nat
        /\ op \in [Callers -> Op]
    BY DnsAssumption DEF Typed, TypeOK
  <1>2. ASSUME NEW cfg \in Configs, Replace(cfg)
        PROVE  Typed'
    BY <1>2, ReplaceTyped
  <1>3. ASSUME NEW c \in Callers, NEW k \in {"zones", "refresh", "create"}, Begin(c, k, 0)
        PROVE  Typed'
    BY <1>3, BeginTyped, DnsAssumption DEF Kinds, Ids
  <1>4. ASSUME NEW c \in Callers, NEW k \in {"update", "delete"}, NEW i \in 0..writes,
               Begin(c, k, i)
        PROVE  Typed'
    BY <1>1, <1>4, BeginTyped DEF Kinds, Ids
  <1>5. ASSUME NEW c \in Callers, Lookup(c)
        PROVE  Typed'
    BY <1>1, <1>5, LookupMoves, AloneTyped DEF Lookup
  <1>6. ASSUME NEW c \in Callers, FindZone(c)
        PROVE  Typed'
    BY <1>1, <1>6, FindZoneMoves, AloneTyped DEF FindZone
  <1>7. ASSUME NEW c \in Callers, CallWrite(c)
        PROVE  Typed'
    <2>1. Alone(c) /\ raced' \in BOOLEAN
      BY <1>1, <1>7, CallWriteMoves
    <2>2. /\ UNCHANGED <<config, zone, cached, records, fetched, crossed>>
          /\ op[c].pc = "call" /\ IsWrite(op[c].kind) /\ Accepted(op[c])
          /\ remote' = [remote EXCEPT ![op[c].zone] = Written(op[c]).after]
          /\ writes' = IF op[c].kind = "delete" THEN writes ELSE writes + 1
      BY <1>7 DEF CallWrite
    <2>3. /\ Written(op[c]).after \subseteq Record
          /\ op[c].kind # "delete" => writes + 1 <= MaxWrites
      BY <2>2, WrittenIs
    <2>4. remote' \in [Accounts -> SUBSET Record]
      BY <1>1, <2>2, <2>3
    <2>5. writes' \in 0..MaxWrites
      <3>1. writes \in Nat /\ writes <= MaxWrites
        BY <1>1
      <3> QED
        BY <1>1, <2>2, <2>3, <3>1
    <2> QED
      BY <1>1, <2>1, <2>2, <2>4, <2>5, AloneTyped
  <1>8. ASSUME NEW c \in Callers, CallList(c)
        PROVE  Typed'
    BY <1>1, <1>8, CallListMoves, AloneTyped DEF CallList
  <1>9. ASSUME NEW c \in Callers, EndCall(c)
        PROVE  Typed'
    BY <1>1, <1>9, FinishAlone, AloneTyped DEF EndCall
  <1>10. ASSUME NEW c \in Callers, StoreList(c)
        PROVE  Typed'
    <2>1. op[c] \in Op /\ op[c].reply \in SUBSET Record /\ op[c].zone \in Accounts
      BY <1>1, <1>10 DEF Typed, TypeOK, StoreList, Op
    <2>2. SetToSeq(op[c].reply) \in Seq(op[c].reply)
      BY <2>1, FiniteRecord, FS_Subset, SetToSeqProperties
    <2>3. SetToSeq(op[c].reply) \in Seq(Record)
      BY <2>1, <2>2
    <2>4. Alone(c)
      BY <1>10, FinishAlone DEF StoreList
    <2> QED
      BY <1>1, <1>10, <2>1, <2>3, <2>4, AloneTyped DEF StoreList
  <1>11. ASSUME NEW c \in Callers, StoreWrite(c)
         PROVE  Typed'
    <2>1. Alone(c)
      BY <1>11, FinishAlone DEF StoreWrite
    <2> QED
      BY <1>1, <1>11, <2>1, StoreWriteTyped, AloneTyped DEF StoreWrite
  <1> QED
    BY <1>2, <1>3, <1>4, <1>5, <1>6, <1>7, <1>8, <1>9, <1>10, <1>11 DEF Next

\* Every step keeps the replies those of the calls.
LEMMA RepliedStep ==
  ASSUME TypedInv, [Next]_vars
  PROVE  \A c \in Callers : Replied(c)'
  <1> SUFFICES ASSUME Typed, \A c \in Callers : Replied(c), Next
               PROVE  \A c \in Callers : Replied(c)'
    BY DEF TypedInv, Replied, Pending, vars
  <1> USE DEF Replied, Pending
  <1>1. /\ Idle.pc = "idle" /\ Idle.reply = {}
        /\ \A c \in Callers : Alone(c) /\ op'[c] = Idle => \A d \in Callers : Replied(d)'
        /\ \A c \in Callers : Alone(c) /\ Replied(c)' => \A d \in Callers : Replied(d)'
    BY IdleTyped DEF Alone
  <1>2. ASSUME NEW cfg \in Configs, Replace(cfg)
        PROVE  \A c \in Callers : Replied(c)'
    <2>1. \A c \in Callers :
            /\ op'[c].pc = op[c].pc /\ op'[c].zone = op[c].zone
            /\ op'[c].token = op[c].token /\ op'[c].kind = op[c].kind
            /\ op'[c].id = op[c].id /\ op'[c].reply = op[c].reply
      BY <1>2 DEF Typed, TypeOK, Replace, Op
    <2> QED
      BY <2>1
  <1>3. ASSUME NEW c \in Callers, NEW k \in Kinds, NEW i \in Ids, Begin(c, k, i)
        PROVE  \A d \in Callers : Replied(d)'
    BY <1>3, BeginMoves
  <1>4. ASSUME NEW c \in Callers, Lookup(c)
        PROVE  \A d \in Callers : Replied(d)'
    BY <1>1, <1>4, LookupMoves
  <1>5. ASSUME NEW c \in Callers, FindZone(c)
        PROVE  \A d \in Callers : Replied(d)'
    BY <1>1, <1>5, FindZoneMoves
  <1>6. ASSUME NEW c \in Callers, CallWrite(c)
        PROVE  \A d \in Callers : Replied(d)'
    <2>1. CASE op'[c] = Idle
      BY <1>1, <1>6, <2>1, CallWriteMoves
    <2>2. CASE op'[c] # Idle
      <3>1. /\ Alone(c) /\ Same(c) /\ op'[c].zone = op[c].zone /\ op'[c].pc = "store"
            /\ op'[c].reply = Written(op[c]).reply
        BY <1>6, <2>2, CallWriteMoves
      <3>2. op[c].pc = "call" /\ IsWrite(op[c].kind) /\ Accepted(op[c])
        BY <1>6 DEF CallWrite
      <3>3. /\ op[c].zone = op[c].token /\ op[c].kind \in {"create", "update", "delete"}
            /\ op[c].kind = "delete" => Written(op[c]).reply = {}
            /\ op[c].kind # "delete" =>
                 Written(op[c]).reply = {Made(op[c])} /\ Made(op[c]) \in Record
        BY <3>2, WrittenIs
      <3>4. op[c].kind = "update" => Made(op[c]).id = op[c].id
        BY DEF Made
      <3>5. Replied(c)'
        BY <3>1, <3>3, <3>4 DEF Same
      <3> QED
        BY <1>1, <3>1, <3>5
    <2> QED
      BY <2>1, <2>2
  <1>7. ASSUME NEW c \in Callers, CallList(c)
        PROVE  \A d \in Callers : Replied(d)'
    <2>1. Replied(c)'
      BY <1>7, CallListMoves DEF Same, IsWrite
    <2> QED
      BY <1>1, <1>7, <2>1, CallListMoves
  <1>8. ASSUME NEW c \in Callers, EndCall(c) \/ StoreList(c) \/ StoreWrite(c)
        PROVE  \A d \in Callers : Replied(d)'
    BY <1>1, <1>8, FinishAlone DEF EndCall, StoreList, StoreWrite
  <1>9. ASSUME NEW i \in 0..writes
        PROVE  i \in Ids
    BY DnsAssumption DEF Typed, TypeOK, Ids
  <1>10. 0 \in Ids /\ {"zones", "refresh", "create"} \subseteq Kinds
        /\ {"update", "delete"} \subseteq Kinds
    BY DnsAssumption DEF Ids, Kinds
  <1> QED
    BY <1>2, <1>3, <1>4, <1>5, <1>6, <1>7, <1>8, <1>9, <1>10 DEF Next

\* The types of the state (Service).
THEOREM TypesCorrect == Spec => []TypeOK
  <1>1. Init => TypedInv
    BY InitTyped, IdleTyped DEF Init, TypedInv, Replied, Pending
  <1>2. TypedInv /\ [Next]_vars => TypedInv'
    BY TypedStep, RepliedStep DEF TypedInv
  <1>3. TypedInv => TypeOK
    BY DEF TypedInv, Typed
  <1> QED
    BY <1>1, <1>2, <1>3, PTL DEF Spec

----------------------------------------------------------------------------
\* What the service remembers.

\* A request that no reload has come upon has the token in force, and goes on
\* only with a zone that is listed, to end with that of its token.
Faithful(c) ==
  UnderWay(c) =>
    /\ op[c].token = config.account
    /\ op[c].pc \in {"find", "call", "store"} => config.listed
    /\ op[c].pc \in {"call", "store"} => op[c].zone = config.account

Remembered == RemembersConfiguredZone /\ (~crossed => \A c \in Callers : Faithful(c))

\* Every step keeps it.
LEMMA RememberedStep ==
  ASSUME TypedInv, Remembered, [Next]_vars
  PROVE  Remembered'
  <1> USE DEF Remembered, RemembersConfiguredZone, Faithful
  <1>1. Typed /\ Idle.pc = "idle"
    BY IdleTyped DEF TypedInv
  <1>2. ASSUME NEW cfg \in Configs, Replace(cfg)
        PROVE  Remembered'
    <2>1. \A c \in Callers : UnderWay(c)' <=> UnderWay(c)
      BY <1>1, <1>2 DEF Typed, TypeOK, Replace, Op, UnderWay
    <2> QED
      BY <1>2, <2>1 DEF Replace
  <1>3. ASSUME NEW c \in Callers, NEW k \in Kinds, NEW i \in Ids, Begin(c, k, i)
        PROVE  Remembered'
    <2>1. UNCHANGED <<config, zone, cached, crossed>>
      BY <1>3 DEF Begin
    <2>2. /\ op'[c].pc = "lookup" /\ op'[c].token = config.account
          /\ \A d \in Callers \ {c} : /\ op'[d].pc = op[d].pc
                                      /\ op'[d].token = op[d].token
                                      /\ op'[d].zone = op[d].zone
      BY <1>1, <1>3, BeginMoves
    <2> QED
      BY <2>1, <2>2 DEF UnderWay
  <1>4. ASSUME NEW c \in Callers, Lookup(c)
        PROVE  Remembered'
    <2>1. UNCHANGED <<config, zone, cached, crossed>> /\ UnderWay(c)
      BY <1>4 DEF Lookup, UnderWay
    <2> QED
      BY <1>1, <1>4, <2>1, LookupMoves DEF Alone, Same, UnderWay
  <1>5. ASSUME NEW c \in Callers, FindZone(c)
        PROVE  Remembered'
    <2>1. UNCHANGED <<config, cached, crossed>> /\ UnderWay(c) /\ zone' = op[c].token
      BY <1>5 DEF FindZone, UnderWay
    <2> QED
      BY <1>1, <1>5, <2>1, FindZoneMoves DEF Alone, Same, UnderWay
  <1>6. ASSUME NEW c \in Callers, CallWrite(c)
        PROVE  Remembered'
    <2>1. UNCHANGED <<config, zone, cached, crossed>> /\ op[c].pc = "call"
      BY <1>6 DEF CallWrite
    <2>2. /\ \A d \in Callers \ {c} : op'[d] = op[d]
          /\ \/ op'[c].token = op[c].token /\ op'[c].zone = op[c].zone
             \/ op'[c].pc = "idle"
      BY <1>1, <1>6, CallWriteMoves DEF Alone, Same
    <2>3. \A d \in Callers : Faithful(d) => Faithful(d)'
      BY <2>1, <2>2 DEF UnderWay
    <2> QED
      BY <2>1, <2>3
  <1>7. ASSUME NEW c \in Callers, CallList(c)
        PROVE  Remembered'
    <2>1. UNCHANGED <<config, zone, cached, crossed>> /\ op[c].pc = "call"
      BY <1>7 DEF CallList
    <2> QED
      BY <1>1, <1>7, <2>1, CallListMoves DEF Alone, Same, UnderWay
  <1>8. ASSUME NEW c \in Callers, EndCall(c) \/ StoreWrite(c) \/ StoreList(c)
        PROVE  Remembered'
    <2>1. Alone(c) /\ op'[c] = Idle /\ UNCHANGED <<config, crossed>>
      BY <1>1, <1>8, FinishAlone DEF EndCall, StoreList, StoreWrite
    <2>2. \/ UNCHANGED <<zone, cached>>
          \/ op[c].pc = "store" /\ zone' \in {zone, op[c].zone}
      BY <1>8 DEF EndCall, StoreList, StoreWrite
    <2> QED
      BY <1>1, <2>1, <2>2 DEF Alone, UnderWay
  <1>9. ASSUME NEW i \in 0..writes
        PROVE  i \in Ids
    BY <1>1, DnsAssumption DEF Typed, TypeOK, Ids
  <1>10. 0 \in Ids /\ {"zones", "refresh", "create"} \subseteq Kinds
        /\ {"update", "delete"} \subseteq Kinds
    BY DnsAssumption DEF Ids, Kinds
  <1>11. CASE UNCHANGED vars
    BY <1>11 DEF vars, UnderWay
  <1> QED
    BY <1>2, <1>3, <1>4, <1>5, <1>6, <1>7, <1>8, <1>9, <1>10, <1>11 DEF Next

\* The types, and what they rest on, hold at first.
LEMMA InitTypedInv == Init => TypedInv
  BY InitTyped, IdleTyped DEF Init, TypedInv, Replied, Pending

\* Every step keeps them.
LEMMA NextTypedInv == TypedInv /\ [Next]_vars => TypedInv'
  BY TypedStep, RepliedStep DEF TypedInv

\* Whatever requests are under way, the zone and the copy that are kept belong to
\* the configuration in force, unless one of them was under way when that was
\* loaded (Replace forgets, ensureZone and RefreshZone write without looking).
THEOREM ConfiguredZoneKept == Spec => []RemembersConfiguredZone
  <1>1. Init => Remembered
    BY IdleTyped DEF Init, Remembered, RemembersConfiguredZone, Faithful, UnderWay
  <1>2. TypedInv /\ Remembered /\ [Next]_vars => Remembered'
    BY RememberedStep
  <1>3. Remembered => RemembersConfiguredZone
    BY DEF Remembered
  <1> QED
    BY <1>1, <1>2, <1>3, InitTypedInv, NextTypedInv, PTL DEF Spec

----------------------------------------------------------------------------
\* The copy.

\* The write of c, which Cloudflare has made, is of the record i.
Touches(c, i) ==
  IF op[c].kind = "create" THEN \E r \in op[c].reply : r.id = i ELSE op[c].id = i

\* Cloudflare's records have one identifier each, of a write there has been, and
\* requests and replies have no other.
Numbered ==
  /\ \A a \in Accounts : \A r \in remote[a] : r.id <= writes
  /\ \A a \in Accounts : \A r, q \in remote[a] : r.id = q.id => r = q
  /\ \A c \in Callers : op[c].id <= writes /\ \A r \in op[c].reply : r.id <= writes

\* A refresh that nothing has come between is alone with other lists, and has
\* the records of the zone as they are.
Undisturbed(c) ==
  UnderWay(c) /\ op[c].kind = "refresh" /\ op[c].clean =>
    /\ op[c].token = config.account
    /\ \A d \in Callers : UnderWay(d) => ~IsWrite(op[d].kind)
    /\ op[c].pc = "store" => op[c].reply = remote[config.account]

\* Unless something has raced, the writes under way are of the account in force
\* and no two requests conflict.
Apart ==
  ~raced =>
    /\ \A c \in Callers : UnderWay(c) /\ IsWrite(op[c].kind) =>
         op[c].token = config.account
    /\ \A c, d \in Callers : c # d /\ UnderWay(c) /\ UnderWay(d) =>
         ~Conflict(op[d], op[c].kind, op[c].id)

\* What Cloudflare has of the record of a write that is still to be brought in is
\* its reply, and no other such write is of that record.
Fresh(c, i) ==
  /\ {x \in remote[config.account] : x.id = i} = op[c].reply
  /\ op[c].kind = "create" => Matching(i) = {}
  /\ \A d \in Callers : Pending(d) /\ Touches(d, i) => d = c

\* The copy has the zone's records, each once, but for those that writes still to
\* be brought in have touched.
Mirrors ==
  fetched /\ ~raced =>
    /\ config.account \in Accounts
    /\ Distinct
    /\ \A c \in Callers, i \in Ids : Pending(c) /\ Touches(c, i) => Fresh(c, i)
    /\ \A x \in Record : (\A c \in Callers : Pending(c) => ~Touches(c, x.id)) =>
         (x \in remote[config.account] <=> x \in ToSet(records))

CopyInv ==
  TypedInv /\ Numbered /\ (\A c \in Callers : Undisturbed(c)) /\ Apart /\ Mirrors

\* Every step keeps the identifiers apart: a creation takes a new one.
LEMMA NumberedStep ==
  ASSUME CopyInv, [Next]_vars
  PROVE  Numbered'
  <1>1. /\ Typed /\ Numbered /\ Idle.id = 0 /\ Idle.reply = {}
        /\ writes \in Nat /\ \A i \in Ids : i \in Nat
        /\ \A c \in Callers : op[c].id \in Nat
        /\ \A a \in Accounts : \A r \in remote[a] : r.id \in Nat
        /\ \A c \in Callers : \A r \in op[c].reply : r.id \in Nat
    <2>1. Typed /\ Numbered
      BY DEF CopyInv, TypedInv
    <2>2. writes \in Nat /\ \A i \in Ids : i \in Nat
      BY <2>1, DnsAssumption DEF Typed, TypeOK, Ids
    <2>3. \A c \in Callers : op[c].id \in Ids /\ op[c].reply \subseteq Record
      BY <2>1 DEF Typed, TypeOK, Op
    <2>4. \A a \in Accounts : remote[a] \subseteq Record
      BY <2>1 DEF Typed, TypeOK
    <2>5. \A r \in Record : r.id \in Nat
      BY <2>2 DEF Record
    <2> QED
      BY <2>1, <2>2, <2>3, <2>4, <2>5, IdleTyped
  <1>2. ASSUME UNCHANGED <<remote, writes>>,
               \A c \in Callers : /\ op'[c].id \in {0, op[c].id} \cup 0..writes
                                  /\ \/ op'[c].reply \in {{}, op[c].reply}
                                     \/ \E a \in Accounts : op'[c].reply = remote[a]
        PROVE  Numbered'
    BY <1>1, <1>2 DEF Numbered
  <1>3. ASSUME NEW cfg \in Configs, Replace(cfg)
        PROVE  Numbered'
    <2>1. \A c \in Callers : op'[c].id = op[c].id /\ op'[c].reply = op[c].reply
      BY <1>1, <1>3 DEF Typed, TypeOK, Replace, Op
    <2> QED
      BY <1>2, <1>3, <2>1 DEF Replace
  <1>4. ASSUME NEW c \in Callers, NEW k \in Kinds, NEW i \in Ids, Begin(c, k, i), i <= writes
        PROVE  Numbered'
    <2>1. \A d \in Callers : op'[d].id \in {i, op[d].id} /\ op'[d].reply \in {{}, op[d].reply}
      BY <1>1, <1>4, BeginMoves
    <2>2. i \in 0..writes
      BY <1>1, <1>4
    <2> QED
      BY <1>2, <1>4, <2>1, <2>2 DEF Begin
  <1>5. ASSUME NEW c \in Callers, Lookup(c) \/ FindZone(c)
        PROVE  Numbered'
    <2>1. \A d \in Callers : op'[d].id \in {0, op[d].id} /\ op'[d].reply \in {{}, op[d].reply}
      BY <1>1, <1>5, LookupMoves, FindZoneMoves DEF Alone, Same
    <2> QED
      BY <1>2, <1>5, <2>1 DEF Lookup, FindZone
  <1>6. ASSUME NEW c \in Callers, CallList(c)
        PROVE  Numbered'
    <2>1. op[c].zone \in Accounts
      BY <1>1, <1>6 DEF Typed, TypeOK, CallList
    <2>2. \A d \in Callers : /\ op'[d].id = op[d].id
                             /\ \/ op'[d].reply = op[d].reply
                                \/ op'[d].reply = remote[op[c].zone]
      BY <1>1, <1>6, CallListMoves DEF Alone, Same
    <2> QED
      BY <1>2, <1>6, <2>1, <2>2 DEF CallList
  <1>7. ASSUME NEW c \in Callers, EndCall(c) \/ StoreList(c) \/ StoreWrite(c)
        PROVE  Numbered'
    <2>1. \A d \in Callers : op'[d].id \in {0, op[d].id} /\ op'[d].reply \in {{}, op[d].reply}
      BY <1>1, <1>7, FinishAlone DEF Alone, EndCall, StoreList, StoreWrite
    <2> QED
      BY <1>2, <1>7, <2>1 DEF EndCall, StoreList, StoreWrite
  <1>8. ASSUME NEW c \in Callers, CallWrite(c)
        PROVE  Numbered'
    <2> DEFINE o == op[c]  z == op[c].zone
    <2>1. o.pc = "call" /\ IsWrite(o.kind) /\ Accepted(o)
          /\ remote' = [remote EXCEPT ![z] = Written(o).after]
          /\ writes' = IF o.kind = "delete" THEN writes ELSE writes + 1
      BY <1>8 DEF CallWrite
    <2>2. /\ o.kind = "delete" => /\ Written(o).after = {r \in remote[z] : r.id # o.id}
                                  /\ Written(o).reply = {}
          /\ o.kind # "delete" =>
               /\ Written(o).after = {r \in remote[z] : r.id # Made(o).id} \cup {Made(o)}
               /\ Written(o).reply = {Made(o)}
          /\ z \in Accounts
      BY <1>1, <2>1, WrittenIs
    <2>3. Made(o).id \in Nat /\ Made(o).id <= writes + 1
      BY <1>1 DEF Made, Numbered
    <2>4. \A a \in Accounts : remote'[a] = IF a = z THEN Written(o).after ELSE remote[a]
      BY <1>1, <2>1 DEF Typed, TypeOK
    <2>5. \A d \in Callers : /\ op'[d].id \in {0, op[d].id}
                             /\ op'[d].reply \in {{}, op[d].reply, Written(o).reply}
      BY <1>1, <1>8, CallWriteMoves DEF Alone, Same
    <2> HIDE DEF o, z
    <2>6. writes <= writes' /\ writes' \in Nat /\ (o.kind # "delete" => writes' = writes + 1)
      BY <1>1, <2>1
    <2>7. \A a \in Accounts : \A r \in remote'[a] : r.id <= writes'
      BY <1>1, <2>2, <2>3, <2>4, <2>6 DEF Numbered
    <2>8. \A a \in Accounts : \A r, q \in remote'[a] : r.id = q.id => r = q
      BY <1>1, <2>2, <2>4 DEF Numbered
    <2>9. \A d \in Callers : op'[d].id <= writes' /\ \A r \in op'[d].reply : r.id <= writes'
      BY <1>1, <2>2, <2>3, <2>5, <2>6 DEF Numbered
    <2> QED
      BY <2>7, <2>8, <2>9 DEF Numbered
  <1>9. ASSUME NEW i \in 0..writes
        PROVE  i \in Ids /\ i <= writes
    BY <1>1, DnsAssumption DEF Typed, TypeOK, Ids
  <1>10. /\ 0 \in Ids /\ 0 <= writes /\ {"zones", "refresh", "create"} \subseteq Kinds
        /\ {"update", "delete"} \subseteq Kinds
    BY <1>1, DnsAssumption DEF Ids, Kinds
  <1>11. CASE UNCHANGED vars
    BY <1>1, <1>11 DEF vars, Numbered
  <1> QED
    BY <1>3, <1>4, <1>5, <1>6, <1>7, <1>8, <1>9, <1>10, <1>11 DEF Next

\* Every step keeps an undisturbed refresh so, or marks it.
LEMMA UndisturbedStep ==
  ASSUME CopyInv, [Next]_vars
  PROVE  \A d \in Callers : Undisturbed(d)'
  <1> SUFFICES ASSUME Next, NEW d \in Callers, UnderWay(d)', op'[d].kind = "refresh",
                      op'[d].clean
               PROVE  /\ op'[d].token = config'.account
                      /\ \A e \in Callers : UnderWay(e)' => ~IsWrite(op'[e].kind)
                      /\ op'[d].pc = "store" => op'[d].reply = remote'[config'.account]
    BY DEF CopyInv, Undisturbed, UnderWay, IsWrite, vars
  <1> USE DEF UnderWay, IsWrite
  <1>1. /\ Typed /\ \A c \in Callers : Undisturbed(c)
        /\ Idle.pc = "idle" /\ Idle.kind = "zones" /\ op \in [Callers -> Op]
    BY IdleTyped DEF CopyInv, TypedInv, Typed, TypeOK
  <1>2. ASSUME NEW cfg \in Configs, Replace(cfg)
        PROVE  FALSE
    <2>1. op'[d] = [op[d] EXCEPT !.clean = FALSE] /\ op[d] \in Op
      BY <1>1, <1>2 DEF Replace
    <2>2. op'[d].clean = FALSE
      BY <2>1 DEF Op
    <2> QED
      BY <2>2
  <1>3. ASSUME NEW c \in Callers, NEW k \in Kinds, NEW i \in Ids, Begin(c, k, i)
        PROVE  /\ op'[d].token = config'.account
               /\ \A e \in Callers : UnderWay(e)' => ~IsWrite(op'[e].kind)
               /\ op'[d].pc = "store" => op'[d].reply = remote'[config'.account]
    <2>1. /\ UNCHANGED <<config, remote>>
          /\ op'[c].kind = k /\ op'[c].pc = "lookup" /\ op'[c].token = config.account
          /\ op'[c].clean <=> \A e \in Callers \ {c} :
               ~(UnderWay(e) /\ Conflict(op[e], k, i))
          /\ \A e \in Callers \ {c} :
               /\ op'[e].kind = op[e].kind /\ op'[e].pc = op[e].pc
               /\ op'[e].token = op[e].token /\ op'[e].reply = op[e].reply
               /\ op'[e].clean <=> op[e].clean /\ ~(UnderWay(e) /\ Conflict(op[e], k, i))
      <3>1. UNCHANGED <<config, remote>>
        BY <1>3 DEF Begin
      <3> QED
        BY <1>1, <1>3, <3>1, BeginMoves
    <2>2. CASE d = c
      BY <2>1, <2>2 DEF Conflict
    <2>3. CASE d # c
      <3>1. op[d].clean /\ ~Conflict(op[d], k, i) /\ op[d].kind = "refresh"
        BY <2>1, <2>3
      <3>2. ~IsWrite(k)
        BY <3>1 DEF Conflict
      <3>3. Undisturbed(d)
        BY <1>1
      <3> QED
        BY <2>1, <2>3, <3>1, <3>2, <3>3 DEF Undisturbed
    <2> QED
      BY <2>2, <2>3
  <1>4. ASSUME NEW c \in Callers, UNCHANGED <<config, remote>>,
               \A e \in Callers \ {c} : op'[e] = op[e],
               op'[c] = Idle \/ (Same(c) /\ UnderWay(c) /\ op'[c].pc # "store")
        PROVE  /\ op'[d].token = config'.account
               /\ \A e \in Callers : UnderWay(e)' => ~IsWrite(op'[e].kind)
               /\ op'[d].pc = "store" => op'[d].reply = remote'[config'.account]
    <2>1. Undisturbed(d) /\ \A e \in Callers :
            UnderWay(e)' => UnderWay(e) /\ Same(e) /\ (op'[e].pc = "store" => op'[e] = op[e])
      BY <1>1, <1>4 DEF Same
    <2> QED
      BY <1>4, <2>1 DEF Undisturbed, Same
  <1>5. ASSUME NEW c \in Callers, Lookup(c) \/ FindZone(c)
        PROVE  /\ op'[d].token = config'.account
               /\ \A e \in Callers : UnderWay(e)' => ~IsWrite(op'[e].kind)
               /\ op'[d].pc = "store" => op'[d].reply = remote'[config'.account]
    <2>1. UNCHANGED <<config, remote>> /\ \A e \in Callers \ {c} : op'[e] = op[e]
      BY <1>1, <1>5, LookupMoves, FindZoneMoves DEF Lookup, FindZone, Alone
    <2>2. op'[c] = Idle \/ (Same(c) /\ UnderWay(c) /\ op'[c].pc # "store")
      BY <1>1, <1>5, LookupMoves, FindZoneMoves
    <2> QED
      BY <1>4, <2>1, <2>2
  <1>6. ASSUME NEW c \in Callers, EndCall(c) \/ StoreList(c) \/ StoreWrite(c)
        PROVE  /\ op'[d].token = config'.account
               /\ \A e \in Callers : UnderWay(e)' => ~IsWrite(op'[e].kind)
               /\ op'[d].pc = "store" => op'[d].reply = remote'[config'.account]
    <2>1. /\ UNCHANGED <<config, remote>> /\ op'[c] = Idle
          /\ \A e \in Callers \ {c} : op'[e] = op[e]
      BY <1>1, <1>6, FinishAlone DEF EndCall, StoreList, StoreWrite, Alone
    <2> QED
      BY <1>4, <2>1
  <1>7. ASSUME NEW c \in Callers, CallList(c)
        PROVE  /\ op'[d].token = config'.account
               /\ \A e \in Callers : UnderWay(e)' => ~IsWrite(op'[e].kind)
               /\ op'[d].pc = "store" => op'[d].reply = remote'[config'.account]
    <2>1. UNCHANGED <<config, remote>>
      BY <1>7 DEF CallList
    <2>2. /\ Same(c) /\ UnderWay(c) /\ op'[c].reply = remote[op[c].token]
          /\ \A e \in Callers \ {c} : op'[e] = op[e]
      BY <1>1, <1>7, CallListMoves DEF Alone
    <2>3. Undisturbed(d) /\ \A e \in Callers :
            UnderWay(e)' => UnderWay(e) /\ Same(e)
      BY <1>1, <2>2 DEF Same
    <2>4. UnderWay(d) /\ op[d].kind = "refresh" /\ op[d].clean /\ op[d].token = op'[d].token
      BY <2>3 DEF Same
    <2> QED
      BY <2>1, <2>2, <2>3, <2>4 DEF Undisturbed, Same
  <1>8. ASSUME NEW c \in Callers, CallWrite(c)
        PROVE  FALSE
    <2>1. UnderWay(c) /\ IsWrite(op[c].kind)
      BY <1>8 DEF CallWrite
    <2>2. \A e \in Callers \ {c} : op'[e] = op[e]
      BY <1>1, <1>8, CallWriteMoves DEF Alone
    <2>3. d # c
      BY <1>1, <1>8, <2>1, CallWriteMoves DEF Same
    <2> QED
      BY <1>1, <2>1, <2>2, <2>3 DEF Undisturbed
  <1>9. ASSUME NEW i \in 0..writes
        PROVE  i \in Ids
    BY <1>1, DnsAssumption DEF Typed, TypeOK, Ids
  <1>10. 0 \in Ids /\ {"zones", "refresh", "create"} \subseteq Kinds
        /\ {"update", "delete"} \subseteq Kinds
    BY DnsAssumption DEF Ids, Kinds
  <1> QED
    BY <1>2, <1>3, <1>5, <1>6, <1>7, <1>8, <1>9, <1>10 DEF Next

\* When a request is in the way of another (see Conflict).
LEMMA ConflictMeans ==
  ASSUME NEW o, NEW k, NEW i
  PROVE  Conflict(o, k, i) <=>
           \/ k = "refresh" /\ IsWrite(o.kind)
           \/ IsWrite(k) /\ o.kind = "refresh"
           \/ /\ \/ k = "update" /\ o.kind \in {"update", "delete"}
                 \/ k = "delete" /\ o.kind = "update"
              /\ i = o.id
           \/ /\ k \in {"update", "delete"}
              /\ o.kind = "create" /\ \E r \in o.reply : r.id = i
  <1>1. {k, o.kind} \in {{"update"}, {"update", "delete"}} <=>
          \/ k = "update" /\ o.kind \in {"update", "delete"}
          \/ k = "delete" /\ o.kind = "update"
    OBVIOUS
  <1> QED
    BY <1>1 DEF Conflict

\* Every step keeps requests apart, or tells that something has raced.
LEMMA ApartStep ==
  ASSUME CopyInv, [Next]_vars
  PROVE  Apart'
  <1> SUFFICES ASSUME Next, ~raced'
               PROVE  /\ \A c \in Callers : UnderWay(c)' /\ IsWrite(op'[c].kind) =>
                           op'[c].token = config'.account
                      /\ \A c, d \in Callers : c # d /\ UnderWay(c)' /\ UnderWay(d)' =>
                           ~Conflict(op'[d], op'[c].kind, op'[c].id)
    <2>1. CASE UNCHANGED vars
      <3>1. op' = op /\ raced' = raced /\ config' = config
        BY <2>1 DEF vars
      <3> QED
        BY <3>1 DEF CopyInv, Apart, UnderWay, IsWrite, Conflict
    <2> QED
      BY <2>1 DEF Apart
  <1> USE DEF UnderWay
  <1> DEFINE Good == /\ \A c \in Callers : UnderWay(c)' /\ IsWrite(op'[c].kind) =>
                          op'[c].token = config'.account
                     /\ \A c, d \in Callers : c # d /\ UnderWay(c)' /\ UnderWay(d)' =>
                          ~Conflict(op'[d], op'[c].kind, op'[c].id)
  <1>1. /\ Typed /\ \A c \in Callers : Undisturbed(c)
        /\ Idle.pc = "idle" /\ Idle.kind = "zones" /\ op \in [Callers -> Op]
        /\ Apart
    BY IdleTyped DEF CopyInv, TypedInv, Typed, TypeOK
  <1>2. ASSUME NEW cfg \in Configs, Replace(cfg)
        PROVE  Good
    <2>1. \A c \in Callers : ~UnderWay(c)'
      BY <1>1, <1>2 DEF Replace, Op
    <2> QED
      BY <2>1
  <1>3. ASSUME NEW c \in Callers, NEW k \in Kinds, NEW i \in Ids, Begin(c, k, i)
        PROVE  Good
    <2>1. /\ UNCHANGED config
          /\ op'[c].kind = k /\ op'[c].id = i /\ op'[c].reply = {}
          /\ op'[c].token = config.account
          /\ ~raced /\ \A e \in Callers \ {c} :
               ~(UnderWay(e) /\ Conflict(op[e], k, i))
          /\ \A e \in Callers \ {c} :
               /\ op'[e].kind = op[e].kind /\ op'[e].pc = op[e].pc
               /\ op'[e].id = op[e].id
               /\ op'[e].token = op[e].token /\ op'[e].reply = op[e].reply
      <3>1. UNCHANGED config
        BY <1>3 DEF Begin
      <3> QED
        BY <1>1, <1>3, <3>1, BeginMoves
    <2>2. ASSUME NEW e \in Callers \ {c}, UnderWay(e)'
          PROVE  /\ ~Conflict(op'[e], op'[c].kind, op'[c].id)
                 /\ ~Conflict(op'[c], op'[e].kind, op'[e].id)
      BY <2>1, <2>2, ConflictMeans DEF IsWrite
    <2>3. ASSUME NEW e \in Callers \ {c}, NEW f \in Callers \ {c}, e # f,
                 UnderWay(e)', UnderWay(f)'
          PROVE  ~Conflict(op'[e], op'[f].kind, op'[f].id)
      BY <1>1, <2>1, <2>3, ConflictMeans DEF Apart
    <2>4. \A e \in Callers : UnderWay(e)' /\ IsWrite(op'[e].kind) =>
            op'[e].token = config'.account
      BY <1>1, <2>1 DEF Apart
    <2> QED
      BY <2>2, <2>3, <2>4
  <1>4. ASSUME UNCHANGED config, ~raced,
               \A e \in Callers : UnderWay(e)' =>
                 UnderWay(e) /\ Same(e) /\ (op[e].kind = "create" => op'[e].reply = op[e].reply)
        PROVE  Good
    <2>1. \A e, f \in Callers : e # f /\ UnderWay(e)' /\ UnderWay(f)' =>
            ~Conflict(op'[f], op'[e].kind, op'[e].id)
      BY <1>1, <1>4, ConflictMeans DEF Apart, Same
    <2> QED
      BY <1>1, <1>4, <2>1 DEF Apart, Same
  <1>5. ASSUME NEW c \in Callers, Lookup(c) \/ FindZone(c)
        PROVE  Good
    <2>1. /\ UNCHANGED <<config, raced>> /\ \A e \in Callers \ {c} : op'[e] = op[e]
          /\ UnderWay(c)
      BY <1>1, <1>5, LookupMoves, FindZoneMoves DEF Lookup, FindZone, Alone
    <2>2. op'[c] = Idle \/ (Same(c) /\ op'[c].reply = op[c].reply)
      BY <1>1, <1>5, LookupMoves, FindZoneMoves
    <2>3. \A e \in Callers : UnderWay(e)' =>
            UnderWay(e) /\ Same(e) /\ op'[e].reply = op[e].reply
      BY <1>1, <2>1, <2>2 DEF Same
    <2> QED
      BY <1>4, <2>1, <2>3
  <1>6. ASSUME NEW c \in Callers, EndCall(c) \/ StoreWrite(c)
        PROVE  Good
    <2>1. /\ UNCHANGED <<config, raced>> /\ op'[c] = Idle
          /\ \A e \in Callers \ {c} : op'[e] = op[e]
      BY <1>1, <1>6, FinishAlone DEF EndCall, StoreWrite, Alone
    <2>2. \A e \in Callers : UnderWay(e)' =>
            UnderWay(e) /\ Same(e) /\ op'[e].reply = op[e].reply
      BY <1>1, <2>1 DEF Same
    <2> QED
      BY <1>4, <2>1, <2>2
  <1>7. ASSUME NEW c \in Callers, CallList(c)
        PROVE  Good
    <2>1. /\ UNCHANGED <<config, raced>> /\ Same(c) /\ UnderWay(c)
          /\ op[c].kind = "refresh"
          /\ \A e \in Callers \ {c} : op'[e] = op[e]
      BY <1>1, <1>7, CallListMoves DEF CallList, Alone
    <2>2. \A e \in Callers : UnderWay(e)' =>
            UnderWay(e) /\ Same(e) /\ (op[e].kind = "create" => op'[e].reply = op[e].reply)
      BY <1>1, <2>1 DEF Same
    <2> QED
      BY <1>4, <2>1, <2>2
  <1>8. ASSUME NEW c \in Callers, StoreList(c)
        PROVE  Good
    <2>1. /\ op[c].clean /\ op[c].kind = "refresh" /\ UnderWay(c) /\ op'[c] = Idle
          /\ \A e \in Callers \ {c} : op'[e] = op[e]
      BY <1>1, <1>8, FinishAlone DEF StoreList, Alone
    <2>2. \A e \in Callers : UnderWay(e)' => ~IsWrite(op'[e].kind)
      BY <1>1, <2>1 DEF Undisturbed
    <2> QED
      BY <2>2, ConflictMeans DEF IsWrite
  <1>9. ASSUME NEW c \in Callers, CallWrite(c)
        PROVE  Good
    <2>1. /\ op[c].pc = "call" /\ IsWrite(op[c].kind) /\ Accepted(op[c])
          /\ UNCHANGED config
      BY <1>9 DEF CallWrite
    <2>2. /\ Same(c) /\ ~raced /\ op'[c].reply = Written(op[c]).reply
          /\ \A e \in Callers \ {c} : op'[e] = op[e]
      BY <1>1, <1>9, CallWriteMoves DEF Alone
    <2>3. op[c].kind = "create" => op'[c].reply = {Made(op[c])} /\ Made(op[c]).id = writes + 1
      BY <1>1, <2>1, <2>2, WrittenIs DEF Made
    <2>4. \A e \in Callers : op[e].id \in Nat /\ op[e].id <= writes /\ writes \in Nat
      BY <1>1, DnsAssumption DEF CopyInv, Numbered, Typed, TypeOK, Op, Ids
    <2>5. ASSUME NEW e \in Callers \ {c}, UnderWay(e)
          PROVE  /\ ~Conflict(op'[e], op'[c].kind, op'[c].id)
                 /\ ~Conflict(op'[c], op'[e].kind, op'[e].id)
      <3>1. /\ ~Conflict(op[e], op[c].kind, op[c].id)
            /\ ~Conflict(op[c], op[e].kind, op[e].id)
        BY <1>1, <2>1, <2>2, <2>5 DEF Apart
      <3>2. op'[e] = op[e] /\ op'[c].kind = op[c].kind /\ op'[c].id = op[c].id
        BY <2>2 DEF Same
      <3>3. ~Conflict(op'[e], op'[c].kind, op'[c].id)
        BY <3>1, <3>2
      <3>4. op[c].kind = "create" => ~\E r \in op'[c].reply : r.id = op[e].id
        BY <2>3, <2>4
      <3>5. ~Conflict(op'[c], op'[e].kind, op'[e].id)
        BY <3>1, <3>2, <3>4, ConflictMeans
      <3> QED
        BY <3>3, <3>5
    <2>6. ASSUME NEW e \in Callers \ {c}, NEW f \in Callers \ {c}, e # f,
                 UnderWay(e)', UnderWay(f)'
          PROVE  ~Conflict(op'[e], op'[f].kind, op'[f].id)
      BY <1>1, <2>2, <2>6 DEF Apart
    <2>7. \A e \in Callers : UnderWay(e)' /\ IsWrite(op'[e].kind) =>
            op'[e].token = config'.account
      BY <1>1, <2>1, <2>2 DEF Apart, Same
    <2>8. \A e \in Callers \ {c} : UnderWay(e)' => UnderWay(e)
      BY <2>2
    <2> QED
      BY <2>5, <2>6, <2>7, <2>8
  <1>10. ASSUME NEW i \in 0..writes
        PROVE  i \in Ids
    BY <1>1, DnsAssumption DEF Typed, TypeOK, Ids
  <1>11. 0 \in Ids /\ {"zones", "refresh", "create"} \subseteq Kinds
         /\ {"update", "delete"} \subseteq Kinds
    BY DnsAssumption DEF Ids, Kinds
  <1> HIDE DEF Good
  <1>12. Good
    BY <1>2, <1>3, <1>5, <1>6, <1>7, <1>8, <1>9, <1>10, <1>11 DEF Next
  <1> QED
    BY <1>12 DEF Good

\* The write of c has the record i, and its reply has no other.
Of(c, i) ==
  /\ i \in Ids /\ Touches(c, i)
  /\ \A j \in Ids : Touches(c, j) => j = i
  /\ \A r \in op[c].reply : r \in Record /\ r.id = i

\* A write that is to be brought in is of one record.
LEMMA PendingIsOf ==
  ASSUME TypedInv, NEW c \in Callers, Pending(c)
  PROVE  \E i \in Ids : Of(c, i)
  <1>1. op[c].id \in Ids /\ op[c].kind \in {"create", "update", "delete"} /\ Replied(c)
    BY DEF TypedInv, Typed, TypeOK, Op, Pending, IsWrite
  <1>2. \A r \in Record : r.id \in Ids
    BY DEF Record
  <1>3. CASE op[c].kind = "delete"
    BY <1>1, <1>3 DEF Of, Touches, Replied
  <1>4. CASE op[c].kind # "delete"
    <2>1. PICK r \in Record : op[c].reply = {r} /\ (op[c].kind = "update" => r.id = op[c].id)
      BY <1>1, <1>4 DEF Replied
    <2>2. Of(c, r.id)
      BY <1>1, <1>2, <1>4, <2>1 DEF Of, Touches
    <2> QED
      BY <1>2, <2>2
  <1> QED
    BY <1>3, <1>4

\* Bringing a write in does to the copy what Cloudflare has done to the zone.
LEMMA WriteBrought ==
  ASSUME TypedInv, NEW c \in Callers, Pending(c), NEW i \in Ids, Of(c, i), Distinct,
         Fresh(c, i)
  PROVE  Brought(i, op[c])
  <1>1. /\ records \in Seq(Record) /\ Replied(c)
        /\ op[c].kind \in {"create", "update", "delete"}
    BY DEF TypedInv, Typed, TypeOK, Pending, IsWrite
  <1>2. CASE op[c].kind = "delete"
    <2>1. op[c].reply = {} /\ op[c].id = i
      BY <1>1, <1>2 DEF Replied, Of, Touches
    <2> QED
      BY <1>1, <1>2, <2>1, DeleteBrought
  <1>3. CASE op[c].kind # "delete"
    <2>1. PICK r \in Record : op[c].reply = {r}
      BY <1>1, <1>3 DEF Replied
    <2>2. r.id = i
      BY <2>1 DEF Of
    <2>3. CASE Matching(i) = {}
      <3>1. RecordsAfter(op[c]) = records \o SetToSeq(op[c].reply)
        BY <1>1, <1>3, <2>3 DEF RecordsAfter, Of, Touches
      <3> QED
        BY <1>1, <2>1, <2>2, <2>3, <3>1, AppendBrought
    <2>4. CASE Matching(i) # {}
      <3>1. op[c].kind = "update" /\ op[c].id = i
        BY <1>1, <1>3, <2>4 DEF Fresh, Of, Touches
      <3> QED
        BY <1>1, <2>1, <2>2, <2>4, <3>1, UpdateBrought
    <2> QED
      BY <2>3, <2>4
  <1> QED
    BY <1>2, <1>3

\* What there is to show of the copy after a step.
Mirrored ==
  /\ config.account \in Accounts
  /\ Distinct
  /\ \A c \in Callers, i \in Ids : Pending(c) /\ Touches(c, i) => Fresh(c, i)
  /\ \A x \in Record : (\A c \in Callers : Pending(c) => ~Touches(c, x.id)) =>
       (x \in remote[config.account] <=> x \in ToSet(records))

\* A step that changes neither the copy nor the zone, nor what is to be brought in.
LEMMA MirroredKept ==
  ASSUME Mirrored, UNCHANGED <<config, records, remote>>,
         \A d \in Callers : /\ Pending(d)' <=> Pending(d)
                            /\ Pending(d) => /\ op'[d].kind = op[d].kind
                                             /\ op'[d].id = op[d].id
                                             /\ op'[d].reply = op[d].reply
  PROVE  Mirrored'
  <1>1. Distinct' /\ config'.account \in Accounts
    BY DEF Mirrored, Distinct
  <1>2. \A d \in Callers : \A i : Pending(d) => (Touches(d, i)' <=> Touches(d, i))
    BY DEF Touches
  <1>3. \A i : Matching(i)' = Matching(i)
    BY DEF Matching
  <1>4. ASSUME NEW c \in Callers, NEW i \in Ids, Pending(c)', Touches(c, i)'
        PROVE  Fresh(c, i)'
    <2>1. Pending(c) /\ Touches(c, i)
      BY <1>2, <1>4
    <2>2. Fresh(c, i)
      BY <2>1 DEF Mirrored
    <2> QED
      BY <1>2, <1>3, <2>1, <2>2 DEF Fresh
  <1>5. \A x \in Record : (\A c \in Callers : Pending(c)' => ~Touches(c, x.id)') =>
          (x \in remote'[config'.account] <=> x \in ToSet(records)')
    BY <1>2 DEF Mirrored, ToSet
  <1> QED
    BY <1>1, <1>4, <1>5 DEF Mirrored

\* Bringing in a write: its record is now as Cloudflare has it.
LEMMA StoreWriteMirrors ==
  ASSUME TypedInv, Mirrored, NEW c \in Callers, StoreWrite(c)
  PROVE  Mirrored'
  <1>1. /\ Pending(c) /\ UNCHANGED <<config, remote>>
        /\ records' = RecordsAfter(op[c])
    BY DEF StoreWrite, Pending
  <1>2. op'[c] = Idle /\ \A d \in Callers \ {c} : op'[d] = op[d]
    BY FinishAlone DEF StoreWrite, Alone, TypedInv
  <1>3. PICK i \in Ids : Of(c, i)
    BY <1>1, PendingIsOf
  <1>4. Fresh(c, i) /\ Distinct
    BY <1>1, <1>3 DEF Of, Mirrored
  <1>5. /\ ToSet(records)' = {x \in ToSet(records) : x.id # i} \cup op[c].reply
        /\ Distinct'
    <2>1. Brought(i, op[c])
      BY <1>1, <1>3, <1>4, WriteBrought
    <2>2. ToSet(records)' = ToSet(RecordsAfter(op[c]))
      BY <1>1 DEF ToSet
    <2> QED
      BY <1>1, <2>1, <2>2 DEF Brought, Distinct
  <1>6. /\ ~Pending(c)'
        /\ \A d \in Callers \ {c} : Pending(d)' <=> Pending(d)
        /\ \A d \in Callers \ {c} : \A j : Touches(d, j)' <=> Touches(d, j)
    BY <1>2, IdleTyped DEF Pending, Touches, IsWrite
  <1>7. ASSUME NEW d \in Callers, NEW j \in Ids, Pending(d)', Touches(d, j)'
        PROVE  Fresh(d, j)'
    <2>1. d # c /\ Pending(d) /\ Touches(d, j) /\ op'[d] = op[d]
      BY <1>2, <1>6, <1>7
    <2>2. Fresh(d, j)
      BY <2>1 DEF Mirrored
    <2>3. j # i
      BY <1>1, <1>3, <2>1, <2>2 DEF Fresh, Of
    <2>4. ASSUME op[d].kind = "create"
          PROVE  Matching(j)' = {}
      <3>1. \A x \in ToSet(records) : x.id # j
        BY <2>2, <2>4 DEF Fresh, Matching, ToSet
      <3>2. \A x \in ToSet(records)' : x.id # j
        BY <1>3, <1>5, <2>3, <3>1 DEF Of
      <3> QED
        BY <3>2 DEF Matching, ToSet
    <2>5. \A e \in Callers : Pending(e)' /\ Touches(e, j)' => e = d
      BY <1>6, <2>2 DEF Fresh
    <2> QED
      BY <1>1, <2>1, <2>2, <2>4, <2>5 DEF Fresh
  <1>8. ASSUME NEW x \in Record, \A d \in Callers : Pending(d)' => ~Touches(d, x.id)'
        PROVE  x \in remote'[config'.account] <=> x \in ToSet(records)'
    <2>1. x.id \in Ids
      BY DEF Record
    <2>2. CASE x.id = i
      <3>1. x \in remote[config.account] <=> x \in op[c].reply
        BY <1>4, <2>2 DEF Fresh
      <3> QED
        BY <1>1, <1>5, <2>2, <3>1
    <2>3. CASE x.id # i
      <3>1. \A d \in Callers : Pending(d) => ~Touches(d, x.id)
        BY <1>3, <1>6, <1>8, <2>1, <2>3 DEF Of
      <3>2. x \in remote[config.account] <=> x \in ToSet(records)
        BY <3>1 DEF Mirrored
      <3>3. x \notin op[c].reply
        BY <1>3, <2>3 DEF Of
      <3> QED
        BY <1>1, <1>5, <2>3, <3>2, <3>3
    <2> QED
      BY <2>2, <2>3
  <1> QED
    BY <1>1, <1>5, <1>7, <1>8 DEF Mirrored

\* A write at Cloudflare: its record is still to be brought in.
LEMMA CallWriteMirrors ==
  ASSUME TypedInv, Numbered, Apart, ~raced, ~raced', Mirrored,
         NEW c \in Callers, CallWrite(c)
  PROVE  Mirrored'
  <1> DEFINE o == op[c]
             z == config.account
  <1>1. /\ o.pc = "call" /\ IsWrite(o.kind) /\ Accepted(o)
        /\ UNCHANGED <<config, records>>
        /\ remote' = [remote EXCEPT ![o.zone] = Written(o).after]
    BY DEF CallWrite
  <1>2. /\ Same(c) /\ op'[c].pc = "store" /\ op'[c].reply = Written(o).reply
        /\ \A d \in Callers \ {c} : op'[d] = op[d]
    BY CallWriteMoves DEF Alone, TypedInv
  <1>3. /\ o.kind = "delete" => /\ Written(o).after = {r \in remote[z] : r.id # o.id}
                                /\ Written(o).reply = {}
        /\ o.kind # "delete" =>
             /\ Made(o) \in Record
             /\ Written(o).after = {r \in remote[z] : r.id # Made(o).id} \cup {Made(o)}
             /\ Written(o).reply = {Made(o)}
        /\ o.zone = z /\ z \in Accounts /\ o.kind \in {"create", "update", "delete"}
    <2>1. o.zone = o.token /\ o.token = z
      BY <1>1, WrittenIs DEF TypedInv, Apart, UnderWay
    <2> QED
      BY <1>1, <2>1, WrittenIs DEF TypedInv
  <1>4. /\ writes \in Nat /\ o.id \in Ids /\ \A r \in Record : r.id \in Ids
        /\ \A j \in Ids : j \in Nat
        /\ \A d \in Callers : op[d].id \in Ids /\ op[d].reply \subseteq Record
        /\ remote[z] \subseteq Record /\ remote \in [Accounts -> SUBSET Record]
    BY <1>3, DnsAssumption DEF TypedInv, Typed, TypeOK, Op, Record, Ids
  <1> DEFINE i == IF o.kind = "delete" THEN o.id ELSE Made(o).id
  <1>5. i \in Ids
    BY <1>3, <1>4
  <1>6. /\ remote'[z] = {x \in remote[z] : x.id # i} \cup op'[c].reply
        /\ \A r \in op'[c].reply : r \in Record /\ r.id = i
    BY <1>1, <1>2, <1>3, <1>4
  <1>7. /\ Pending(c)' /\ ~Pending(c)
        /\ \A d \in Callers \ {c} : Pending(d)' <=> Pending(d)
        /\ \A d \in Callers \ {c} : \A j : Touches(d, j)' <=> Touches(d, j)
    BY <1>1, <1>2 DEF Pending, Touches, Same
  <1>8. \A j \in Ids : Touches(c, j)' <=> j = i
    BY <1>2, <1>3 DEF Touches, Same, Made
  <1>9. i = IF o.kind = "create" THEN writes + 1 ELSE o.id
    BY <1>3 DEF Made
  <1> HIDE DEF o, z, i
  <1>10. \A x \in remote[z] : x.id <= writes
    BY <1>3 DEF Numbered
  <1>11. ASSUME NEW d \in Callers, Pending(d), Touches(d, i)
         PROVE  FALSE
    <2>1. d # c /\ UnderWay(d) /\ UnderWay(c) /\ op[d].kind \in {"create", "update", "delete"}
      BY <1>1, <1>11, <1>7 DEF Pending, UnderWay, o, IsWrite, TypedInv, Typed, TypeOK
    <2>2. CASE o.kind = "create"
      <3>1. writes + 1 = op[d].id \/ \E r \in op[d].reply : r.id = writes + 1
        BY <1>9, <1>11, <2>2 DEF Touches
      <3> QED
        BY <1>4, <3>1 DEF Numbered
    <2>3. CASE o.kind # "create" /\ ~(o.kind = "delete" /\ op[d].kind = "delete")
      <3>1. ~Conflict(op[d], o.kind, o.id)
        BY <2>1 DEF Apart, o
      <3>2. Touches(d, o.id)
        BY <1>9, <1>11, <2>3
      <3> QED
        BY <1>3, <2>1, <2>3, <3>1, <3>2, ConflictMeans DEF Touches
    <2>4. CASE o.kind = "delete" /\ op[d].kind = "delete"
      <3>1. \E r \in remote[z] : r.id = i
        BY <1>1, <1>3, <1>9, <2>4 DEF Accepted
      <3>2. Fresh(d, i) /\ op[d].reply = {}
        BY <1>5, <1>11, <2>4 DEF Mirrored, TypedInv, Replied
      <3> QED
        BY <3>1, <3>2 DEF Fresh, z
    <2> QED
      BY <2>2, <2>3, <2>4
  <1>12. ASSUME o.kind = "create"
         PROVE  Matching(i) = {}
    <2> SUFFICES ASSUME NEW n \in DOMAIN records, records[n].id = i
                 PROVE  FALSE
      BY DEF Matching
    <2>1. records[n] \in Record /\ records[n] \in ToSet(records)
      BY DEF TypedInv, Typed, TypeOK, ToSet
    <2>2. records[n] \in remote[z]
      BY <1>11, <2>1 DEF Mirrored, z
    <2> QED
      BY <1>4, <1>9, <1>10, <1>12, <2>2
  <1>13. ASSUME NEW d \in Callers, NEW j \in Ids, Pending(d)', Touches(d, j)'
         PROVE  Fresh(d, j)'
    <2>1. Matching(j)' = Matching(j) /\ config' = config
      BY <1>1 DEF Matching
    <2>2. CASE d = c
      <3>1. j = i
        BY <1>8, <1>13, <2>2
      <3>2. {x \in remote'[z] : x.id = j} = op'[d].reply
        BY <1>6, <2>2, <3>1
      <3>3. op'[d].kind = "create" => Matching(j)' = {}
        BY <1>2, <1>12, <2>1, <2>2, <3>1 DEF Same, o
      <3>4. \A e \in Callers : Pending(e)' /\ Touches(e, j)' => e = d
        BY <1>7, <1>11, <2>2, <3>1
      <3> QED
        BY <2>1, <3>2, <3>3, <3>4 DEF Fresh, z
    <2>3. CASE d # c
      <3>1. Pending(d) /\ Touches(d, j) /\ op'[d] = op[d]
        BY <1>2, <1>7, <1>13, <2>3
      <3>2. Fresh(d, j) /\ j # i
        BY <1>11, <3>1 DEF Mirrored
      <3>3. {x \in remote'[z] : x.id = j} = {x \in remote[z] : x.id = j}
        BY <1>6, <3>2
      <3>4. \A e \in Callers : Pending(e)' /\ Touches(e, j)' => e = d
        BY <1>7, <1>8, <3>2 DEF Fresh
      <3> QED
        BY <2>1, <3>1, <3>2, <3>3, <3>4 DEF Fresh, z
    <2> QED
      BY <2>2, <2>3
  <1>14. ASSUME NEW x \in Record, \A d \in Callers : Pending(d)' => ~Touches(d, x.id)'
         PROVE  x \in remote'[z] <=> x \in ToSet(records)'
    <2>1. x.id # i
      BY <1>5, <1>7, <1>8, <1>14
    <2>2. \A d \in Callers : Pending(d) => ~Touches(d, x.id)
      BY <1>7, <1>14
    <2>3. x \in remote[z] <=> x \in ToSet(records)
      BY <2>2 DEF Mirrored, z
    <2>4. x \in remote'[z] <=> x \in remote[z]
      BY <1>6, <2>1
    <2> QED
      BY <1>1, <2>3, <2>4 DEF ToSet
  <1>15. Distinct' /\ config'.account \in Accounts /\ config'.account = z
    BY <1>1, <1>3 DEF Mirrored, Distinct, z
  <1> QED
    BY <1>13, <1>14, <1>15 DEF Mirrored

\* The list of a refresh that nothing has come between is the zone.
LEMMA StoreListMirrors ==
  ASSUME TypedInv, Numbered, NEW c \in Callers, Undisturbed(c), op[c].clean, StoreList(c)
  PROVE  Mirrored'
  <1> DEFINE rem == remote[config.account]
  <1>1. /\ UnderWay(c) /\ op[c].kind = "refresh" /\ op[c].pc = "store"
        /\ records' = SetToSeq(op[c].reply) /\ UNCHANGED <<config, remote>>
    BY DEF StoreList, UnderWay
  <1>2. /\ op[c].token = config.account /\ op[c].reply = rem
        /\ \A d \in Callers : UnderWay(d) => ~IsWrite(op[d].kind)
    BY <1>1 DEF Undisturbed
  <1>3. config.account \in Accounts /\ rem \in SUBSET Record
    BY <1>1, <1>2 DEF TypedInv, Typed, TypeOK
  <1>4. IsFiniteSet(rem)
    BY <1>3, FiniteRecord, FS_Subset
  <1>5. /\ records' \in Seq(rem) /\ ToSet(records)' = rem
        /\ IsInjective(records')
    <2>1. records' = SetToSeq(rem) /\ ToSet(records)' = ToSet(SetToSeq(rem))
      BY <1>1, <1>2 DEF ToSet
    <2> QED
      BY <1>4, <2>1, SetToSeqProperties
  <1>6. Distinct'
    <2>1. \A m, n \in DOMAIN records' : /\ records'[m] \in rem /\ records'[n] \in rem
                                        /\ records'[m] = records'[n] => m = n
      BY <1>5 DEF IsInjective
    <2>2. \A r, q \in rem : r.id = q.id => r = q
      BY <1>3 DEF Numbered
    <2> QED
      BY <2>1, <2>2 DEF Distinct
  <1>7. \A d \in Callers : ~Pending(d)'
    <2>1. op'[c] = Idle /\ \A d \in Callers \ {c} : op'[d] = op[d]
      BY FinishAlone DEF StoreList, Alone, TypedInv
    <2> QED
      BY <1>2, <2>1, IdleTyped DEF Pending, UnderWay, IsWrite
  <1> QED
    BY <1>1, <1>3, <1>5, <1>6, <1>7 DEF Mirrored

\* Every step keeps the copy like the zone.
LEMMA MirrorsStep ==
  ASSUME CopyInv, [Next]_vars
  PROVE  Mirrors'
  <1>1. /\ TypedInv /\ Typed /\ Numbered /\ Apart /\ \A c \in Callers : Undisturbed(c)
        /\ fetched /\ ~raced => Mirrored
        /\ Idle.pc = "idle" /\ Idle.kind = "zones"
    BY IdleTyped DEF CopyInv, TypedInv, Mirrors, Mirrored
  <1> SUFFICES ASSUME Next, fetched', ~raced'
               PROVE  Mirrored'
    <2>1. CASE UNCHANGED vars
      <3>1. /\ op' = op /\ raced' = raced /\ fetched' = fetched
            /\ UNCHANGED <<config, records, remote>>
        BY <2>1 DEF vars
      <3>2. fetched' /\ ~raced' => Mirrored'
        BY <1>1, <3>1, MirroredKept DEF Pending
      <3> QED
        BY <3>2 DEF Mirrors, Mirrored
    <2> QED
      BY <2>1 DEF Mirrors, Mirrored
  <1>2. ASSUME NEW cfg \in Configs, Replace(cfg)
        PROVE  FALSE
    BY <1>2 DEF Replace
  <1>3. ASSUME NEW c \in Callers, NEW k \in Kinds, NEW i \in Ids, Begin(c, k, i)
        PROVE  Mirrored'
    <2>1. UNCHANGED <<config, records, remote, fetched>>
      BY <1>3 DEF Begin
    <2>2. /\ ~raced /\ op'[c].pc = "lookup" /\ ~UnderWay(c)
          /\ \A d \in Callers \ {c} :
               /\ op'[d].kind = op[d].kind /\ op'[d].pc = op[d].pc
               /\ op'[d].id = op[d].id /\ op'[d].reply = op[d].reply
      BY <1>1, <1>3, BeginMoves
    <2> QED
      BY <1>1, <2>1, <2>2, MirroredKept DEF Pending, UnderWay
  <1>4. ASSUME NEW c \in Callers, Lookup(c) \/ FindZone(c) \/ EndCall(c) \/ CallList(c)
        PROVE  Mirrored'
    <2>1. UNCHANGED <<config, records, remote, fetched, raced>>
      BY <1>4 DEF Lookup, FindZone, EndCall, CallList
    <2>2. \A d \in Callers \ {c} : op'[d] = op[d]
      BY <1>1, <1>4, LookupMoves, FindZoneMoves, CallListMoves, FinishAlone
         DEF Alone, EndCall
    <2>3. ~Pending(c) /\ ~Pending(c)'
      <3>1. op[c].pc # "store"
        BY <1>4 DEF Lookup, FindZone, EndCall, CallList
      <3>2. \/ op'[c].pc # "store"
            \/ op'[c].kind = "refresh"
        BY <1>1, <1>4, LookupMoves, FindZoneMoves, CallListMoves, FinishAlone
           DEF Same, EndCall
      <3> QED
        BY <3>1, <3>2 DEF Pending, IsWrite
    <2> QED
      BY <1>1, <2>1, <2>2, <2>3, MirroredKept DEF Pending
  <1>5. ASSUME NEW c \in Callers, CallWrite(c)
        PROVE  Mirrored'
    <2>1. fetched /\ ~raced
      <3>1. fetched' = fetched
        BY <1>5 DEF CallWrite
      <3>2. raced' = raced \/ raced' = TRUE
        BY <1>1, <1>5, CallWriteMoves
      <3> QED
        BY <3>1, <3>2
    <2> QED
      BY <1>1, <1>5, <2>1, CallWriteMirrors
  <1>6. ASSUME NEW c \in Callers, StoreList(c)
        PROVE  Mirrored'
    <2>1. op[c].clean
      BY <1>6 DEF StoreList
    <2> QED
      BY <1>1, <1>6, <2>1, StoreListMirrors
  <1>7. ASSUME NEW c \in Callers, StoreWrite(c)
        PROVE  Mirrored'
    <2>1. fetched /\ ~raced
      BY <1>7 DEF StoreWrite
    <2> QED
      BY <1>1, <1>7, <2>1, StoreWriteMirrors
  <1>8. ASSUME NEW i \in 0..writes
        PROVE  i \in Ids
    BY <1>1, DnsAssumption DEF Typed, TypeOK, Ids
  <1>9. 0 \in Ids /\ {"zones", "refresh", "create"} \subseteq Kinds
        /\ {"update", "delete"} \subseteq Kinds
    BY DnsAssumption DEF Ids, Kinds
  <1> QED
    BY <1>2, <1>3, <1>4, <1>5, <1>6, <1>7, <1>8, <1>9 DEF Next

\* The invariant of the copy holds at first.
LEMMA InitCopyInv == Init => CopyInv
  <1> SUFFICES ASSUME Init
               PROVE  CopyInv
    OBVIOUS
  <1>1. /\ \A c \in Callers : op[c] = Idle
        /\ writes = 0 /\ fetched = FALSE /\ raced = FALSE
        /\ \A a \in Accounts : remote[a] = {[id |-> 0, rev |-> 0]}
    BY DEF Init
  <1>2. TypedInv
    BY InitTypedInv
  <1>3. Numbered
    BY <1>1, IdleTyped DEF Numbered
  <1>4. /\ \A c \in Callers : Undisturbed(c)
        /\ Apart /\ Mirrors
    BY <1>1, IdleTyped DEF Undisturbed, Apart, Mirrors, UnderWay
  <1> QED
    BY <1>2, <1>3, <1>4 DEF CopyInv

\* With no write to be brought in, the copy is the zone.
LEMMA MirrorsMeans == CopyInv => CopyMirrorsZone
  <1> SUFFICES ASSUME CopyInv, fetched, ~raced,
                      \A c \in Callers : op[c].pc = "store" => ~IsWrite(op[c].kind)
               PROVE  /\ ToSet(records) = remote[config.account]
                      /\ IsInjective(records)
    BY DEF CopyMirrorsZone
  <1>1. \A c \in Callers : ~Pending(c)
    BY DEF Pending
  <1>2. /\ config.account \in Accounts /\ Distinct
        /\ \A x \in Record : x \in remote[config.account] <=> x \in ToSet(records)
    BY <1>1 DEF CopyInv, Mirrors
  <1>3. remote[config.account] \subseteq Record /\ ToSet(records) \subseteq Record
    BY <1>2 DEF CopyInv, TypedInv, Typed, TypeOK, ToSet
  <1>4. ToSet(records) = remote[config.account]
    BY <1>2, <1>3
  <1>5. IsInjective(records)
    BY <1>2 DEF Distinct, IsInjective
  <1> QED
    BY <1>4, <1>5

\* Once the whole zone has been fetched, and as long as nothing has raced, the
\* copy is the zone, each record once: however writes of different records
\* overlap, and whatever a refresh that nothing comes between finds (CreateRecord,
\* UpdateRecord, DeleteRecord and RefreshZone each change the copy after letting
\* go of the lock).
THEOREM CopyIsTheZone == Spec => []CopyMirrorsZone
  <1>1. CopyInv /\ [Next]_vars => CopyInv'
    BY NextTypedInv, NumberedStep, UndisturbedStep, ApartStep, MirrorsStep DEF CopyInv
  <1> QED
    BY <1>1, InitCopyInv, MirrorsMeans, PTL DEF Spec
=============================================================================
