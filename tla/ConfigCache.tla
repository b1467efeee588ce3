---------------------------- MODULE ConfigCache ----------------------------
(***************************************************************************)
(* The gateway's configuration read cache (internal/store/cache.go) with   *)
(* the store writers that maintain it (extkey.go, upstream.go, alias.go).  *)
(*                                                                         *)
(* Gateway requests look rows up through loadThrough: a read-through cache *)
(* with one flight per key and a guarded fill.  Administrative writes run  *)
(* one at a time in the db.Writer goroutine: the database commit first,    *)
(* the maintenance of the cache after it, and requests run in between.     *)
(*                                                                         *)
(* A lookup is a pair <<namespace, name>>.  An ext key is looked up by its *)
(* key string, which is random and never reused, so the key's identifier   *)
(* stands for it.  Upstreams and aliases are looked up by a name that an   *)
(* administrator may change and that rows may share over time.             *)
(***************************************************************************)
EXTENDS Naturals

CONSTANTS
  KeyIds,       \* identifiers of ext_keys rows
  UpIds,        \* identifiers of upstreams rows, ordered
  AliasIds,     \* identifiers of model_aliases rows
  Names,        \* names of upstreams and aliases
  Asked,        \* the lookups that requests make
  Requests,     \* gateway requests that may be looking something up at once
  NoName,       \* the empty name handed to evictUpstream by DeleteUpstream
  NoRequest,    \* no flight is in progress
  MaxWrites,    \* bound: administrative writes in a behaviour
  MaxExpiries,  \* bound: entries whose TTL runs out in a behaviour
  MaxErrors     \* bound: database errors met by readers in a behaviour

ASSUME UpIdsAssumption == UpIds \subseteq Nat
ASSUME NamesAssumption == NoName \notin Names
ASSUME AskedAssumption ==
  Asked \subseteq ({"keys"} \X KeyIds) \union ({"ups", "aliases"} \X Names)
ASSUME RequestsAssumption == NoRequest \notin Requests
ASSUME BoundsAssumption ==
  MaxWrites \in Nat /\ MaxExpiries \in Nat /\ MaxErrors \in Nat

VARIABLES
  extKeys, ups, als,   \* the database: one row per identifier
  writes,              \* administrative writes so far: the version of new rows
  maint,               \* cache maintenance the writer still owes to its commit
  entries,             \* cfgCache.<ns>.entries
  gen,                 \* cfgCache.<ns>Gen
  inflight,            \* cfgCache.<ns>.inflight: the leading request, if any
  clock,               \* the last loadedAt handed out
  pc, slot,            \* per request: where it is, and what it looks up
  base, baseGen,       \* per leader: entry and generation before the query
  aid,                 \* per leader: alias identifier read by the first query
  out, val,            \* per request: outcome and value of the lookup
  on,                  \* per waiter: the leader whose flight it joined
  expiries, errors     \* how much of the bounds is used

dbVars    == <<extKeys, ups, als, writes>>
cacheVars == <<entries, gen, inflight, clock>>
reqVars   == <<pc, slot, base, baseGen, aid, out, val, on>>
bounds    == <<expiries, errors>>
vars      == <<dbVars, maint, cacheVars, reqVars, bounds>>

-----------------------------------------------------------------------------
(* Rows, lookups and cache entries. *)

Spaces  == {"keys", "ups", "aliases"}
Lookups == ({"keys"} \X KeyIds) \union ({"ups", "aliases"} \X Names)

Status   == {"none", "live", "deleted"}   \* not inserted, is_active, soft-deleted
KeyRow   == [id: KeyIds, st: Status, ver: Nat]
UpRow    == [id: UpIds, st: Status, name: Names \union {NoName}, enabled: BOOLEAN, ver: Nat]
AliasRow == [id: AliasIds, st: Status, name: Names \union {NoName}, binds: SUBSET UpIds]

\* What resolveAliasCandidates returns: the alias and the bound upstream rows.
AliasVal == [id: AliasIds, cands: SUBSET UpRow]
NoVal    == [none |-> TRUE]
Value    == KeyRow \union UpRow \union AliasVal \union {NoVal}

Entry   == [has: BOOLEAN, val: Value, stamp: Nat, expired: BOOLEAN]
NoEntry == [has |-> FALSE, val |-> NoVal, stamp |-> 0, expired |-> FALSE]

MaintOps == {"none", "putKey", "refreshKey", "evictKey", "evictUp", "aliasId", "aliasName"}
NoMaint  == [op |-> "none", id |-> NoName, name |-> NoName]

NoLookup == <<"none", NoName>>

PCs == {"idle", "probe", "contend", "wait", "read", "bind", "fill", "close", "done"}

-----------------------------------------------------------------------------
(* What the database answers now. *)

LiveKeys        == {k \in KeyIds : extKeys[k].st = "live"}
UpsNamed(n)     == {i \in UpIds : ups[i].st = "live" /\ ups[i].name = n}
AliasesNamed(n) == {a \in AliasIds : als[a].st = "live" /\ als[a].name = n}

\* ORDER BY enabled DESC, id
Ahead(i, j) == \/ ups[i].enabled /\ ~ups[j].enabled
               \/ ups[i].enabled = ups[j].enabled /\ i <= j
CurrentUp(n) ==
  {ups[i] : i \in {h \in UpsNamed(n) : \A j \in UpsNamed(n) : Ahead(h, j)}}

\* The second query of resolveAliasCandidates: bindings joined with upstreams.
Candidates(a) ==
  {ups[u] : u \in {b \in als[a].binds : ups[b].st = "live" /\ ups[b].enabled}}
CurrentAlias(n) == {[id |-> a, cands |-> Candidates(a)] : a \in AliasesNamed(n)}

\* The values a query for lookup s may return if it runs now: none if no row.
Current(s) ==
  IF s[1] = "keys" THEN {extKeys[k] : k \in {j \in LiveKeys : j = s[2]}}
  ELSE IF s[1] = "ups" THEN CurrentUp(s[2])
  ELSE IF s[1] = "aliases" THEN CurrentAlias(s[2])
  ELSE {}

-----------------------------------------------------------------------------
(* Administrative writes: the commit, and the maintenance it will be        *)
(* followed by.  One closure of db.Writer runs at a time.                   *)

NameFree(n, i) ==
  ~\E j \in UpIds \ {i} : ups[j].st = "live" /\ ups[j].enabled /\ ups[j].name = n

Commit(op, id, name) ==
  /\ maint.op = "none"
  /\ writes < MaxWrites
  /\ writes' = writes + 1
  /\ maint' = [op |-> op, id |-> id, name |-> name]
  /\ UNCHANGED <<cacheVars, reqVars, bounds>>

CreateExtKey(k) ==
  /\ extKeys[k].st = "none"
  /\ extKeys' = [extKeys EXCEPT ![k] = [id |-> k, st |-> "live", ver |-> writes]]
  /\ UNCHANGED <<ups, als>>
  /\ Commit("putKey", k, NoName)

UpdateExtKey(k) ==
  /\ extKeys[k].st = "live"
  /\ extKeys' = [extKeys EXCEPT ![k].ver = writes]
  /\ UNCHANGED <<ups, als>>
  /\ Commit("refreshKey", k, NoName)

DeleteExtKey(k) ==
  /\ extKeys[k].st = "live"
  /\ extKeys' = [extKeys EXCEPT ![k].st = "deleted"]
  /\ UNCHANGED <<ups, als>>
  /\ Commit("evictKey", k, NoName)

CreateUpstream(i, n, enabled) ==
  /\ ups[i].st = "none"
  /\ enabled => NameFree(n, i)
  /\ ups' = [ups EXCEPT ![i] =
               [id |-> i, st |-> "live", name |-> n, enabled |-> enabled, ver |-> writes]]
  /\ UNCHANGED <<extKeys, als>>
  /\ Commit("evictUp", i, n)

UpdateUpstream(i, n, enabled) ==
  /\ ups[i].st = "live"
  /\ enabled /\ (n # ups[i].name \/ ~ups[i].enabled) => NameFree(n, i)
  /\ ups' = [ups EXCEPT ![i] =
               [id |-> i, st |-> "live", name |-> n, enabled |-> enabled, ver |-> writes]]
  /\ UNCHANGED <<extKeys, als>>
  /\ Commit("evictUp", i, n)

\* The transaction takes the upstream's bindings with it.
DeleteUpstream(i) ==
  /\ ups[i].st = "live"
  /\ ups' = [ups EXCEPT ![i].st = "deleted"]
  /\ als' = [a \in AliasIds |-> [als[a] EXCEPT !.binds = @ \ {i}]]
  /\ UNCHANGED extKeys
  /\ Commit("evictUp", i, NoName)

\* model_aliases has a unique index on the names of active rows.
CreateAlias(a, n, B) ==
  /\ als[a].st = "none"
  /\ AliasesNamed(n) = {}
  /\ als' = [als EXCEPT ![a] = [id |-> a, st |-> "live", name |-> n, binds |-> B]]
  /\ UNCHANGED <<extKeys, ups>>
  /\ Commit("aliasName", a, n)

UpdateAlias(a, n, B) ==
  /\ als[a].st = "live"
  /\ AliasesNamed(n) \subseteq {a}
  /\ als' = [als EXCEPT ![a] = [id |-> a, st |-> "live", name |-> n, binds |-> B]]
  /\ UNCHANGED <<extKeys, ups>>
  /\ Commit("aliasId", a, n)

DeleteAlias(a) ==
  /\ als[a].st = "live"
  /\ als' = [als EXCEPT ![a].st = "deleted", ![a].binds = {}]
  /\ UNCHANGED <<extKeys, ups>>
  /\ Commit("aliasId", a, NoName)

-----------------------------------------------------------------------------
(* Cache maintenance: one critical section of cfgCache per step. *)

Evict(Hit(_)) == entries' = [s \in Lookups |-> IF Hit(s) THEN NoEntry ELSE entries[s]]

Store(s, v) == [has |-> TRUE, val |-> v, stamp |-> clock + 1, expired |-> FALSE]

\* putExtKey; refreshExtKey when the row was read back (what it evicts by
\* identifier is the entry it then replaces)
StoreKey ==
  LET s == <<"keys", maint.id>> IN
  /\ maint.op \in {"putKey", "refreshKey"}
  /\ entries' = [entries EXCEPT ![s] = Store(s, extKeys[maint.id])]
  /\ clock' = clock + 1
  /\ gen' = [gen EXCEPT !["keys"] = @ + 1]
  /\ maint' = NoMaint
  /\ UNCHANGED <<dbVars, inflight, reqVars, bounds>>

\* evictExtKeyByID; refreshExtKey when the row could not be read back
EvictKey ==
  /\ \/ maint.op = "evictKey" /\ UNCHANGED errors
     \/ maint.op = "refreshKey" /\ errors < MaxErrors /\ errors' = errors + 1
  /\ Evict(LAMBDA s : s[1] = "keys" /\ entries[s].has /\ entries[s].val.id = maint.id)
  /\ gen' = [gen EXCEPT !["keys"] = @ + 1]
  /\ maint' = NoMaint
  /\ UNCHANGED <<dbVars, inflight, clock, reqVars, expiries>>

\* The entries an upstream's write makes void: it may have been looked up by its
\* old name, its new one, or through any alias.
\* Mutants: by identifier only, and by name only.
VoidByID(s)   == \/ s[1] = "aliases"
                 \/ s[1] = "ups" /\ entries[s].has /\ entries[s].val.id = maint.id
VoidByName(s) == s[1] = "aliases" \/ (s[1] = "ups" /\ s[2] = maint.name)
VoidUpEntry(s) ==
  \/ s[1] = "aliases"
  \/ s[1] = "ups" /\ s[2] = maint.name
  \/ s[1] = "ups" /\ entries[s].has /\ entries[s].val.id = maint.id

\* evictUpstream: the alias table is replaced, its flights included
EvictUpstream ==
  /\ maint.op = "evictUp"
  /\ Evict(VoidUpEntry)
  /\ inflight' = [s \in Lookups |-> IF s[1] = "aliases" THEN NoRequest ELSE inflight[s]]
  /\ gen' = [gen EXCEPT !["ups"] = @ + 1, !["aliases"] = @ + 1]
  /\ maint' = NoMaint
  /\ UNCHANGED <<dbVars, clock, reqVars, bounds>>

\* evictAliasByID; UpdateAlias goes on to evict the new name as well
EvictAliasByID ==
  /\ maint.op = "aliasId"
  /\ Evict(LAMBDA s : s[1] = "aliases" /\ entries[s].has /\ entries[s].val.id = maint.id)
  /\ gen' = [gen EXCEPT !["aliases"] = @ + 1]
  /\ maint' = IF maint.name = NoName THEN NoMaint ELSE [maint EXCEPT !.op = "aliasName"]
  /\ UNCHANGED <<dbVars, inflight, clock, reqVars, bounds>>

EvictAliasByName ==
  /\ maint.op = "aliasName"
  /\ Evict(LAMBDA s : s[1] = "aliases" /\ s[2] = maint.name)
  /\ gen' = [gen EXCEPT !["aliases"] = @ + 1]
  /\ maint' = NoMaint
  /\ UNCHANGED <<dbVars, inflight, clock, reqVars, bounds>>

\* configCacheTTL runs out for an entry.
Expire(s) ==
  /\ expiries < MaxExpiries
  /\ entries[s].has /\ ~entries[s].expired
  /\ entries' = [entries EXCEPT ![s].expired = TRUE]
  /\ expiries' = expiries + 1
  /\ UNCHANGED <<dbVars, maint, gen, inflight, clock, reqVars, errors>>

-----------------------------------------------------------------------------
(* loadThrough, one critical section or one query per step. *)

Fresh(s) == entries[s].has /\ ~entries[s].expired
Leads(r) == pc[r] \in {"read", "bind", "fill", "close"}

\* A request takes a copy of the entry and returns.
Hit(r) ==
  /\ out' = [out EXCEPT ![r] = "row"]
  /\ val' = [val EXCEPT ![r] = entries[slot[r]].val]
  /\ pc'  = [pc EXCEPT ![r] = "done"]
  /\ UNCHANGED <<dbVars, maint, cacheVars, slot, base, baseGen, aid, on, bounds>>

Start(r, s) ==
  /\ pc[r] \in {"idle", "done"}
  /\ pc'   = [pc EXCEPT ![r] = "probe"]
  /\ slot' = [slot EXCEPT ![r] = s]
  /\ out'  = [out EXCEPT ![r] = "none"]
  /\ val'  = [val EXCEPT ![r] = NoVal]
  /\ UNCHANGED <<dbVars, maint, cacheVars, base, baseGen, aid, on, bounds>>

\* Under the read lock.
ProbeHit(r) == pc[r] = "probe" /\ Fresh(slot[r]) /\ Hit(r)

ProbeMiss(r) ==
  /\ pc[r] = "probe"
  /\ ~Fresh(slot[r])
  /\ pc' = [pc EXCEPT ![r] = "contend"]
  /\ UNCHANGED <<dbVars, maint, cacheVars, slot, base, baseGen, aid, out, val, on, bounds>>

\* Under the lock: someone filled the entry meanwhile, ...
ContendHit(r) == pc[r] = "contend" /\ Fresh(slot[r]) /\ Hit(r)

\* ... or a flight is in progress, and the request waits for it, ...
Join(r) ==
  /\ pc[r] = "contend"
  /\ ~Fresh(slot[r])
  /\ inflight[slot[r]] # NoRequest
  /\ on' = [on EXCEPT ![r] = inflight[slot[r]]]
  /\ pc' = [pc EXCEPT ![r] = "wait"]
  /\ UNCHANGED <<dbVars, maint, cacheVars, slot, base, baseGen, aid, out, val, bounds>>

\* Nobody queries yet: the request leads, with what it has seen of the cache.
Lead(r) ==
  /\ pc[r] = "contend"
  /\ ~Fresh(slot[r])
  /\ inflight[slot[r]] = NoRequest
  /\ inflight' = [inflight EXCEPT ![slot[r]] = r]
  /\ base'     = [base EXCEPT ![r] = entries[slot[r]]]
  /\ baseGen'  = [baseGen EXCEPT ![r] = gen[slot[r][1]]]
  /\ pc'       = [pc EXCEPT ![r] = "read"]
  /\ UNCHANGED <<dbVars, maint, entries, gen, clock, slot, aid, out, val, on, bounds>>

\* GetExtKey, GetUpstreamByName
ReadRow(r) ==
  /\ pc[r] = "read"
  /\ slot[r][1] # "aliases"
  /\ \E v \in Current(slot[r]) :
       /\ val' = [val EXCEPT ![r] = v]
       /\ out' = [out EXCEPT ![r] = "row"]
  /\ pc' = [pc EXCEPT ![r] = "fill"]
  /\ UNCHANGED <<dbVars, maint, cacheVars, slot, base, baseGen, aid, on, bounds>>

\* The first query of resolveAliasCandidates: the identifier of the alias.
ReadAlias(r) ==
  /\ pc[r] = "read"
  /\ slot[r][1] = "aliases"
  /\ \E a \in AliasesNamed(slot[r][2]) : aid' = [aid EXCEPT ![r] = a]
  /\ pc' = [pc EXCEPT ![r] = "bind"]
  /\ UNCHANGED <<dbVars, maint, cacheVars, slot, base, baseGen, out, val, on, bounds>>

\* Its second query, outside any transaction: the candidates.
ReadBindings(r) ==
  /\ pc[r] = "bind"
  /\ val' = [val EXCEPT ![r] = [id |-> aid[r], cands |-> Candidates(aid[r])]]
  /\ out' = [out EXCEPT ![r] = "row"]
  /\ pc'  = [pc EXCEPT ![r] = "fill"]
  /\ UNCHANGED <<dbVars, maint, cacheVars, slot, base, baseGen, aid, on, bounds>>

ReadNothing(r) ==
  /\ pc[r] = "read"
  /\ Current(slot[r]) = {}
  /\ out' = [out EXCEPT ![r] = "absent"]
  /\ pc'  = [pc EXCEPT ![r] = "close"]
  /\ UNCHANGED <<dbVars, maint, cacheVars, slot, base, baseGen, aid, val, on, bounds>>

\* A query fails, or resolve panics.
ReadFails(r) ==
  /\ pc[r] \in {"read", "bind"}
  /\ errors < MaxErrors
  /\ errors' = errors + 1
  /\ out' = [out EXCEPT ![r] = "error"]
  /\ pc'  = [pc EXCEPT ![r] = "close"]
  /\ UNCHANGED <<dbVars, maint, cacheVars, slot, base, baseGen, aid, val, on, expiries>>

\* Mutant: the guard of the fill as it would be without generations.
MayFillByEntry(r) ==
  /\ entries[slot[r]].has = base[r].has
  /\ entries[slot[r]].stamp = base[r].stamp

\* The fill is guarded by the generation and the entry seen before the query.
MayFill(r) ==
  /\ gen[slot[r][1]] = baseGen[r]
  /\ entries[slot[r]].has = base[r].has
  /\ entries[slot[r]].stamp = base[r].stamp

Fill(r) ==
  /\ pc[r] = "fill"
  /\ IF MayFill(r)
       THEN /\ entries' = [entries EXCEPT ![slot[r]] = Store(slot[r], val[r])]
            /\ clock' = clock + 1
       ELSE UNCHANGED <<entries, clock>>
  /\ pc' = [pc EXCEPT ![r] = "close"]
  /\ UNCHANGED <<dbVars, maint, gen, inflight, slot, base, baseGen, aid, out, val, on, bounds>>

\* The flight's err: a row that is not there is sql.ErrNoRows for keys and
\* upstreams, but (nil, nil) for aliases.
Failed(r) == out[r] = "error" \/ (out[r] = "absent" /\ slot[r][1] # "aliases")

\* Mutants: no waiter is woken if the leader fails; a leader withdraws whatever
\* flight is registered.
WokenIfGood(r) == {w \in Requests : pc[w] = "wait" /\ on[w] = r /\ ~Failed(r)}
WithdrawAny(r) == inflight' = [inflight EXCEPT ![slot[r]] = NoRequest]

Woken(r)    == {w \in Requests : pc[w] = "wait" /\ on[w] = r}
Withdraw(r) == inflight' = [inflight EXCEPT ![slot[r]] = IF @ = r THEN NoRequest ELSE @]

\* The leader withdraws its flight and wakes the waiters: they take its result,
\* or start over if it failed.
Close(r) ==
  /\ pc[r] = "close"
  /\ Withdraw(r)
  /\ pc' = [q \in Requests |->
              IF q = r THEN "done"
              ELSE IF q \in Woken(r)
                   THEN IF Failed(r) THEN "probe" ELSE "done"
                   ELSE pc[q]]
  /\ IF Failed(r)
       THEN UNCHANGED <<out, val>>
       ELSE /\ out' = [q \in Requests |-> IF q \in Woken(r) THEN out[r] ELSE out[q]]
            /\ val' = [q \in Requests |-> IF q \in Woken(r) THEN val[r] ELSE val[q]]
  /\ base'    = [base EXCEPT ![r] = NoEntry]
  /\ baseGen' = [baseGen EXCEPT ![r] = 0]
  /\ aid'     = [aid EXCEPT ![r] = NoName]
  /\ on'      = [q \in Requests |-> IF q \in Woken(r) THEN q ELSE on[q]]
  /\ UNCHANGED <<dbVars, maint, entries, gen, clock, slot, bounds>>

-----------------------------------------------------------------------------
(* The database may hold anything the writers may have left in it; the      *)
(* cache is empty and no request is running.                                *)

InitKeys ==
  \E L \in SUBSET KeyIds :
    extKeys = [k \in KeyIds |->
                 [id |-> k, st |-> IF k \in L THEN "live" ELSE "none", ver |-> 0]]

InitUps ==
  /\ \E L \in SUBSET UpIds : \E name \in [L -> Names], E \in SUBSET L :
       ups = [i \in UpIds |->
                IF i \in L
                THEN [id |-> i, st |-> "live", name |-> name[i], enabled |-> i \in E, ver |-> 0]
                ELSE [id |-> i, st |-> "none", name |-> NoName, enabled |-> FALSE, ver |-> 0]]
  /\ \A i \in UpIds : ups[i].enabled => NameFree(ups[i].name, i)

InitAliases ==
  /\ \E L \in SUBSET AliasIds : \E name \in [L -> Names], B \in [L -> SUBSET UpIds] :
       als = [a \in AliasIds |->
                IF a \in L
                THEN [id |-> a, st |-> "live", name |-> name[a], binds |-> B[a]]
                ELSE [id |-> a, st |-> "none", name |-> NoName, binds |-> {}]]
  /\ \A a, b \in AliasIds :
       als[a].st = "live" /\ als[b].st = "live" /\ als[a].name = als[b].name => a = b
  /\ \A a \in AliasIds : \A u \in als[a].binds : ups[u].st = "live"

Init ==
  /\ InitKeys /\ InitUps /\ InitAliases
  /\ writes = 0
  /\ maint = NoMaint
  /\ entries = [s \in Lookups |-> NoEntry]
  /\ gen = [n \in Spaces |-> 0]
  /\ inflight = [s \in Lookups |-> NoRequest]
  /\ clock = 0
  /\ pc = [r \in Requests |-> "idle"]
  /\ slot = [r \in Requests |-> NoLookup]
  /\ base = [r \in Requests |-> NoEntry]
  /\ baseGen = [r \in Requests |-> 0]
  /\ aid = [r \in Requests |-> NoName]
  /\ out = [r \in Requests |-> "none"]
  /\ val = [r \in Requests |-> NoVal]
  /\ on = [r \in Requests |-> r]
  /\ expiries = 0
  /\ errors = 0

Write ==
  \/ \E k \in KeyIds : CreateExtKey(k) \/ UpdateExtKey(k) \/ DeleteExtKey(k)
  \/ \E i \in UpIds, n \in Names, e \in BOOLEAN :
       CreateUpstream(i, n, e) \/ UpdateUpstream(i, n, e)
  \/ \E i \in UpIds : DeleteUpstream(i)
  \/ \E a \in AliasIds, n \in Names, B \in SUBSET UpIds :
       CreateAlias(a, n, B) \/ UpdateAlias(a, n, B)
  \/ \E a \in AliasIds : DeleteAlias(a)

Maintain ==
  StoreKey \/ EvictKey \/ EvictUpstream \/ EvictAliasByID \/ EvictAliasByName

\* What a request does once it has started: it needs no one but itself.
Proceed(r) ==
  \/ ProbeHit(r) \/ ProbeMiss(r) \/ ContendHit(r) \/ Join(r) \/ Lead(r)
  \/ ReadRow(r) \/ ReadAlias(r) \/ ReadBindings(r) \/ ReadNothing(r) \/ ReadFails(r)
  \/ Fill(r) \/ Close(r)

Next ==
  \/ Write
  \/ Maintain
  \/ \E s \in Lookups : Expire(s)
  \/ \E r \in Requests, s \in Asked : Start(r, s)
  \/ \E r \in Requests : Proceed(r)

Spec == Init /\ [][Next]_vars

\* The goroutines of the requests are scheduled, and so is the writer's between
\* a commit and the maintenance it owes.
FairSpec ==
  /\ Spec
  /\ WF_vars(Maintain)
  /\ \A r \in Requests : WF_vars(Proceed(r))

-----------------------------------------------------------------------------
(* Properties. *)

TypeOK ==
  /\ extKeys \in [KeyIds -> KeyRow] /\ \A k \in KeyIds : extKeys[k].id = k
  /\ ups \in [UpIds -> UpRow] /\ \A i \in UpIds : ups[i].id = i
  /\ als \in [AliasIds -> AliasRow] /\ \A a \in AliasIds : als[a].id = a
  /\ writes \in Nat
  /\ maint \in [op: MaintOps, id: KeyIds \union UpIds \union AliasIds \union {NoName},
                name: Names \union {NoName}]
  /\ entries \in [Lookups -> Entry]
  /\ \A s \in Lookups : entries[s].has => entries[s].val # NoVal
  /\ gen \in [Spaces -> Nat]
  /\ inflight \in [Lookups -> Requests \union {NoRequest}]
  /\ clock \in Nat
  /\ pc \in [Requests -> PCs]
  /\ slot \in [Requests -> Lookups \union {NoLookup}]
  /\ \A r \in Requests : pc[r] # "idle" => slot[r] \in Lookups
  /\ base \in [Requests -> Entry]
  /\ baseGen \in [Requests -> Nat]
  /\ aid \in [Requests -> AliasIds \union {NoName}]
  /\ \A r \in Requests : pc[r] = "bind" => aid[r] \in AliasIds
  /\ out \in [Requests -> {"none", "row", "absent", "error"}]
  /\ val \in [Requests -> Value]
  /\ on \in [Requests -> Requests]
  /\ expiries \in Nat /\ errors \in Nat

\* The rows of a cache entry are the rows of the database whenever no write is
\* between its commit and its maintenance, whatever lookups, fills, renames and
\* deletions have interleaved: the claim cache.go makes for its guarded fill.
Coherent ==
  maint.op = "none" => \A s \in Lookups : entries[s].has => entries[s].val \in Current(s)

\* A flight is withdrawn by its own leader only: whatever is registered under a
\* lookup is led by a request at work on that lookup, so that nobody joins a
\* flight that no one will close, every leader is registered unless the alias
\* table was written under it, and every waiter's leader is still at work.
FlightsAreLed ==
  /\ \A s \in Lookups :
       inflight[s] # NoRequest => Leads(inflight[s]) /\ slot[inflight[s]] = s
  /\ \A r \in Requests :
       Leads(r) /\ (slot[r][1] = "aliases" => baseGen[r] = gen["aliases"]) =>
         inflight[slot[r]] = r
  /\ \A r \in Requests : pc[r] = "wait" => Leads(on[r]) /\ slot[on[r]] = slot[r]

\* A lookup that starts comes to an end, whether its leader fails, its flight is
\* replaced or the result is not stored: no wakeup is lost.  Only a request for a
\* key or an upstream that has no row may be kept waiting, by an endless supply of
\* other requests for it that get to lead first and fail.
LookupsEnd ==
  \A r \in Requests :
    pc[r] = "probe" ~> \/ pc[r] = "done"
                       \/ slot[r][1] # "aliases" /\ Current(slot[r]) = {}

=============================================================================
