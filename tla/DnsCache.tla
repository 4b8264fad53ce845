------------------------------ MODULE DnsCache ------------------------------
(***************************************************************************)
(* The DNS service (internal/dns/service.go): Cloudflare holds the records *)
(* of a zone, the service keeps the zone's identity and a copy of its      *)
(* records in memory.  A request takes the lock, reads the token, looks    *)
(* the zone up, lets go of the lock to talk to Cloudflare and takes it     *)
(* again to bring the copy up to date, so requests interleave with each    *)
(* other and with a reload of the configuration.                           *)
(*                                                                         *)
(* One zone name is followed.  A token stands for a Cloudflare account;    *)
(* every account has a zone of that name, with records of its own.  A      *)
(* record is its identifier and the number of the write that made it what  *)
(* it is; the type, the content and the rest of it are left out.           *)
(***************************************************************************)
EXTENDS Naturals, Sequences, SequencesExt, Subsequences

CONSTANTS
  Callers,   \* the requests that may be under way together
  Accounts,  \* the Cloudflare accounts a token may belong to
  NoAccount, \* the empty token, and a zone that is not known
  Configs,   \* the configurations that may be loaded
  MaxWrites  \* bound: how many creations and updates reach Cloudflare

\* A configuration that lists the zone has a token.
Config == {c \in [account : Accounts \cup {NoAccount}, listed : BOOLEAN] :
             c.listed => c.account # NoAccount}

ASSUME DnsAssumption ==
  /\ Configs \subseteq Config
  /\ NoAccount \notin Accounts
  /\ MaxWrites \in Nat

VARIABLES
  config,   \* s.token (as an account) and whether s.zoneNames has the zone
  zone,     \* s.zones[zone]: the account whose zone it is, or NoAccount
  cached,   \* s.records has the zone
  records,  \* s.records[zone]
  remote,   \* the records of the zone at Cloudflare, per account
  writes,   \* the creations and updates Cloudflare has made
  op,       \* the request of each caller
  fetched,  \* history: a full list has been stored since the last Replace
  raced,    \* history: the copy may differ from the zone (see Conflict)
  crossed   \* history: a request was under way at the last Replace

vars == <<config, zone, cached, records, remote, writes, op, fetched, raced,
          crossed>>

Ids    == 0..MaxWrites
Record == [id : Ids, rev : 0..MaxWrites]
Kinds  == {"zones", "refresh", "create", "update", "delete"}

\* reply is what Cloudflare answered; clean is a history field: nothing has
\* come between this request and the copy so far.
Op == [kind : Kinds, id : Ids, pc : {"idle", "lookup", "find", "call", "store"},
       token : Accounts \cup {NoAccount}, zone : Accounts \cup {NoAccount},
       reply : SUBSET Record, clean : BOOLEAN]

Idle == [kind |-> "zones", id |-> 0, pc |-> "idle", token |-> NoAccount,
         zone |-> NoAccount, reply |-> {}, clean |-> FALSE]

UnderWay(c) == op[c].pc # "idle"
IsWrite(k)  == k \in {"create", "update", "delete"}

\* A request under way and one that begins, of which one may undo in the copy
\* what the other put there: a full list and a write, or two writes of one
\* record that are not both deletions.
Conflict(o, k, i) ==
  \/ k = "refresh" /\ IsWrite(o.kind)
  \/ IsWrite(k) /\ o.kind = "refresh"
  \/ /\ {k, o.kind} \in {{"update"}, {"update", "delete"}}
     /\ i = o.id
  \/ /\ k \in {"update", "delete"}
     /\ o.kind = "create" /\ \E r \in o.reply : r.id = i

Matching(i) == {n \in DOMAIN records : records[n].id = i}
Dropping(i) == SubSeqAt(records, DOMAIN records \ Matching(i))

----------------------------------------------------------------------------
Init ==
  /\ config \in Configs
  /\ zone = NoAccount
  /\ cached = FALSE
  /\ records = <<>>
  /\ remote = [a \in Accounts |-> {[id |-> 0, rev |-> 0]}]
  /\ writes = 0
  /\ op = [c \in Callers |-> Idle]
  /\ fetched = FALSE
  /\ raced = FALSE
  /\ crossed = FALSE

\* Mutant: the records survive a reload.
ReplaceKeepsRecords(cfg) ==
  /\ config' = cfg
  /\ zone' = NoAccount
  /\ fetched' = FALSE
  /\ crossed' = \E c \in Callers : UnderWay(c)
  /\ raced' = \E c \in Callers : UnderWay(c)
  /\ op' = [c \in Callers |-> [op[c] EXCEPT !.clean = FALSE]]
  /\ UNCHANGED <<cached, records, remote, writes>>

\* A new configuration: nothing that was learnt under the old one is kept.
Replace(cfg) ==
  /\ config' = cfg
  /\ zone' = NoAccount
  /\ cached' = FALSE
  /\ records' = <<>>
  /\ fetched' = FALSE
  /\ crossed' = \E c \in Callers : UnderWay(c)
  /\ raced' = \E c \in Callers : UnderWay(c)
  /\ op' = [c \in Callers |-> [op[c] EXCEPT !.clean = FALSE]]
  /\ UNCHANGED <<remote, writes>>

\* A request begins and reads the token; without one it is refused.  A list
\* of the records is a refresh when there is no copy, and only reads it when
\* there is one.
Begin(c, k, i) ==
  LET rivals == {d \in Callers \ {c} : UnderWay(d) /\ Conflict(op[d], k, i)}
  IN  /\ ~UnderWay(c)
      /\ config.account # NoAccount
      /\ raced' = (raced \/ rivals # {})
      /\ op' = [d \in Callers |->
                  CASE d = c -> [Idle EXCEPT !.kind = k, !.id = i,
                                   !.pc = "lookup", !.token = config.account,
                                   !.clean = (rivals = {})]
                    [] d \in rivals -> [op[d] EXCEPT !.clean = FALSE]
                    [] OTHER -> op[d]]
      /\ UNCHANGED <<config, zone, cached, records, remote, writes, fetched,
                     crossed>>

Finish(c) == op' = [op EXCEPT ![c] = Idle]

\* ensureZone, under the lock: the zone is known, or configured and still to
\* be found, or refused.
Lookup(c) ==
  /\ op[c].pc = "lookup"
  /\ \/ /\ zone # NoAccount
        /\ op' = [op EXCEPT ![c] = [@ EXCEPT !.pc = "call", !.zone = zone]]
     \/ /\ zone = NoAccount
        /\ config.listed
        /\ op' = [op EXCEPT ![c].pc = "find"]
     \/ /\ zone = NoAccount
        /\ ~config.listed
        /\ Finish(c)
  /\ UNCHANGED <<config, zone, cached, records, remote, writes, fetched, raced,
                 crossed>>

\* FindZone with the token the request has read, and the lock again to keep
\* the answer.
FindZone(c) ==
  /\ op[c].pc = "find"
  /\ zone' = op[c].token
  /\ op' = [op EXCEPT ![c] = [@ EXCEPT !.pc = "call", !.zone = op[c].token]]
  /\ UNCHANGED <<config, cached, records, remote, writes, fetched, raced,
                 crossed>>

\* What Cloudflare makes of a write: the records after it and the reply.
Written(o) ==
  LET old == remote[o.zone]
      n   == writes + 1
      new == [id |-> IF o.kind = "create" THEN n ELSE o.id, rev |-> n]
  IN  IF o.kind = "delete"
        THEN [after |-> {r \in old : r.id # o.id}, reply |-> {}]
        ELSE [after |-> {r \in old : r.id # new.id} \cup {new}, reply |-> {new}]

Accepted(o) ==
  /\ o.token = o.zone
  /\ o.kind \in {"update", "delete"} => \E r \in remote[o.zone] : r.id = o.id
  /\ o.kind \in {"create", "update"} => writes < MaxWrites

\* The call to Cloudflare takes effect there.  Its reply may be lost: then the
\* request ends with an error and the copy is left as it is.
CallWrite(c) ==
  /\ op[c].pc = "call"
  /\ IsWrite(op[c].kind)
  /\ Accepted(op[c])
  /\ remote' = [remote EXCEPT ![op[c].zone] = Written(op[c]).after]
  /\ writes' = IF op[c].kind = "delete" THEN writes ELSE writes + 1
  /\ \/ /\ op' = [op EXCEPT ![c] = [@ EXCEPT !.pc = "store",
                                             !.reply = Written(op[c]).reply]]
        /\ UNCHANGED raced
     \/ /\ Finish(c)
        /\ raced' = TRUE
  /\ UNCHANGED <<config, zone, cached, records, fetched, crossed>>

\* The full list of the records.
CallList(c) ==
  /\ op[c].pc = "call"
  /\ op[c].kind = "refresh"
  /\ Accepted(op[c])
  /\ op' = [op EXCEPT ![c] = [@ EXCEPT !.pc = "store",
                                       !.reply = remote[op[c].zone]]]
  /\ UNCHANGED <<config, zone, cached, records, remote, writes, fetched, raced,
                 crossed>>

\* ListZones has what it needs; or a call fails and changes nothing.
EndCall(c) ==
  /\ op[c].pc \in {"find", "call"}
  /\ Finish(c)
  /\ UNCHANGED <<config, zone, cached, records, remote, writes, fetched, raced,
                 crossed>>

\* RefreshZone puts the list, and the zone it came from, in place.
StoreList(c) ==
  /\ op[c].pc = "store"
  /\ op[c].kind = "refresh"
  /\ zone' = op[c].zone
  /\ cached' = TRUE
  /\ records' = SetToSeq(op[c].reply)
  /\ fetched' = TRUE
  /\ raced' = ~op[c].clean
  /\ Finish(c)
  /\ UNCHANGED <<config, remote, writes, crossed>>

\* Mutant: an update adds its record and leaves the old one.
RecordsAfterAppending(o) ==
  IF o.kind = "delete" THEN Dropping(o.id) ELSE records \o SetToSeq(o.reply)

\* A creation adds its record, an update replaces the first with its
\* identifier or adds it, a deletion drops all with its identifier.
RecordsAfter(o) ==
  LET old == Matching(o.id)
      at  == CHOOSE n \in old : \A m \in old : n <= m
  IN  CASE o.kind = "delete" -> Dropping(o.id)
        [] o.kind = "update" /\ old # {} ->
             [records EXCEPT ![at] = CHOOSE r \in o.reply : TRUE]
        [] OTHER -> records \o SetToSeq(o.reply)

\* A write is brought into the copy, which comes to be if there was none.
StoreWrite(c) ==
  /\ op[c].pc = "store"
  /\ IsWrite(op[c].kind)
  /\ cached' = TRUE
  /\ records' = RecordsAfter(op[c])
  /\ Finish(c)
  /\ UNCHANGED <<config, zone, remote, writes, fetched, raced, crossed>>

Next ==
  \/ \E cfg \in Configs : Replace(cfg)
  \/ \E c \in Callers :
       \/ \E k \in {"zones", "refresh", "create"} : Begin(c, k, 0)
       \/ \E k \in {"update", "delete"}, i \in 0..writes : Begin(c, k, i)
       \/ Lookup(c) \/ FindZone(c)
       \/ CallWrite(c) \/ CallList(c) \/ EndCall(c)
       \/ StoreList(c) \/ StoreWrite(c)

Spec == Init /\ [][Next]_vars

----------------------------------------------------------------------------
\* Types, and a request that talks to Cloudflare knows which zone it means.
TypeOK ==
  /\ config \in Configs
  /\ zone \in Accounts \cup {NoAccount}
  /\ cached \in BOOLEAN
  /\ records \in Seq(Record)
  /\ remote \in [Accounts -> SUBSET Record]
  /\ writes \in 0..MaxWrites
  /\ op \in [Callers -> Op]
  /\ \A c \in Callers : op[c].pc \in {"call", "store"} => op[c].zone \in Accounts
  /\ fetched \in BOOLEAN /\ raced \in BOOLEAN /\ crossed \in BOOLEAN

\* Once the whole zone has been fetched, and while no two requests conflict,
\* no reply is lost and no reload comes between, the copy holds the records of
\* the zone, each of them once.  Writes of different records may overlap; and a
\* refresh that nothing comes between mends the copy whatever came before.  A
\* write that comes before the first fetch makes a copy with nothing else in it,
\* and every list is answered from that one.
CopyMirrorsZone ==
  ( /\ fetched /\ ~raced
    /\ \A c \in Callers : op[c].pc = "store" => ~IsWrite(op[c].kind) ) =>
  /\ ToSet(records) = remote[config.account]
  /\ IsInjective(records)

\* What the service remembers belongs to the configuration in force, unless a
\* request was under way when that configuration was loaded.
RemembersConfiguredZone ==
  ~crossed =>
    /\ zone # NoAccount => zone = config.account /\ config.listed
    /\ cached => config.listed
=============================================================================
