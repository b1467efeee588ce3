------------------------- MODULE ConfigCache_proofs -------------------------
(***************************************************************************)
(* Proofs about ConfigCache, for any number of keys, upstreams, aliases,   *)
(* names and requests, and with no bound on writes, expiries and errors    *)
(* other than that they are natural numbers.                               *)
(***************************************************************************)
EXTENDS MCConfigCache, TLAPS

\* What TypeOK needs besides itself: the key whose maintenance is pending exists
\* and is live (the writer runs one closure at a time), and a leader about to
\* fill has a row in hand.
MaintOK ==
  /\ maint.op \in {"putKey", "refreshKey"} =>
       maint.id \in KeyIds /\ extKeys[maint.id].st = "live"
  /\ \A r \in Requests : pc[r] = "fill" => val[r] # NoVal
  /\ \A r \in Requests : pc[r] = "bind" => slot[r][1] = "aliases"

TInv == TypeOK /\ MaintOK

\* Rows are not mistaken for the absence of a row.
LEMMA RowsAreValues ==
  /\ NoVal \notin KeyRow
  /\ NoVal \notin UpRow
  /\ NoVal \notin AliasVal
  <1>1. ASSUME NEW v \in KeyRow PROVE v # NoVal
    <2>1. "id" \in DOMAIN v /\ "id" \notin DOMAIN NoVal
      BY <1>1 DEF KeyRow, NoVal
    <2> QED BY <2>1
  <1>2. ASSUME NEW v \in UpRow PROVE v # NoVal
    <2>1. "id" \in DOMAIN v /\ "id" \notin DOMAIN NoVal
      BY <1>2 DEF UpRow, NoVal
    <2> QED BY <2>1
  <1>3. ASSUME NEW v \in AliasVal PROVE v # NoVal
    <2>1. "id" \in DOMAIN v /\ "id" \notin DOMAIN NoVal
      BY <1>3 DEF AliasVal, NoVal
    <2> QED BY <2>1
  <1> QED BY <1>1, <1>2, <1>3

\* Whatever a query returns is a row of the right kind.
LEMMA CurrentType ==
  ASSUME TypeOK, NEW s \in Lookups, NEW v \in Current(s)
  PROVE  v \in Value /\ v # NoVal
  <1>1. CASE s[1] = "keys"
    BY <1>1, RowsAreValues DEF Current, LiveKeys, TypeOK, Value
  <1>2. CASE s[1] = "ups"
    BY <1>2, RowsAreValues DEF Current, CurrentUp, UpsNamed, TypeOK, Value
  <1>3. CASE s[1] = "aliases"
    <2>1. PICK a \in AliasIds : v = [id |-> a, cands |-> Candidates(a)]
      BY <1>3 DEF Current, CurrentAlias, AliasesNamed
    <2>2. Candidates(a) \subseteq UpRow
      BY DEF Candidates, TypeOK, AliasRow
    <2>3. v \in AliasVal
      BY <2>1, <2>2 DEF AliasVal
    <2> QED BY <2>3, RowsAreValues DEF Value
  <1> QED BY <1>1, <1>2, <1>3 DEF Lookups

USE UpIdsAssumption, NamesAssumption, AskedAssumption, RequestsAssumption, BoundsAssumption

LEMMA TypeInit == Init => TInv
  <1> SUFFICES ASSUME Init PROVE TInv
    OBVIOUS
  <1>1. extKeys \in [KeyIds -> KeyRow] /\ \A k \in KeyIds : extKeys[k].id = k
    BY DEF Init, InitKeys, KeyRow, Status
  <1>2. ups \in [UpIds -> UpRow] /\ \A i \in UpIds : ups[i].id = i
    BY DEF Init, InitUps, UpRow, Status
  <1>3. als \in [AliasIds -> AliasRow] /\ \A a \in AliasIds : als[a].id = a
    BY DEF Init, InitAliases, AliasRow, Status
  <1>4. NoEntry \in Entry
    BY DEF NoEntry, Entry, Value
  <1> QED
    BY <1>1, <1>2, <1>3, <1>4
    DEF Init, TInv, TypeOK, MaintOK, NoMaint, MaintOps, NoEntry, Value, PCs

\* A commit touches the rows and leaves the cache and the requests alone.
LEMMA TypeWrite == TInv /\ Write => TInv'
  <1> SUFFICES ASSUME TInv, Write PROVE TInv'
    OBVIOUS
  <1>0. ASSUME NEW row \in AliasRow, NEW i
       PROVE  /\ [row EXCEPT !.binds = @ \ {i}] \in AliasRow
              /\ [row EXCEPT !.binds = @ \ {i}].id = row.id
    BY DEF AliasRow
  <1> USE DEF TInv, TypeOK, MaintOK, Commit, cacheVars, reqVars, bounds, MaintOps
  <1>1. ASSUME NEW k \in KeyIds, CreateExtKey(k)
       PROVE  TInv'
    BY <1>1 DEF CreateExtKey, KeyRow, Status
  <1>2. ASSUME NEW k \in KeyIds, UpdateExtKey(k)
       PROVE  TInv'
    <2>1. extKeys'[k] \in KeyRow /\ extKeys'[k].id = k /\ extKeys'[k].st = "live"
      BY <1>2 DEF UpdateExtKey, KeyRow
    <2>2. \A j \in KeyIds : j # k => extKeys'[j] = extKeys[j]
      BY <1>2 DEF UpdateExtKey
    <2> QED BY <1>2, <2>1, <2>2 DEF UpdateExtKey
  <1>3. ASSUME NEW k \in KeyIds, DeleteExtKey(k)
       PROVE  TInv'
    <2>1. extKeys'[k] \in KeyRow /\ extKeys'[k].id = k
      BY <1>3 DEF DeleteExtKey, KeyRow, Status
    <2>2. \A j \in KeyIds : j # k => extKeys'[j] = extKeys[j]
      BY <1>3 DEF DeleteExtKey
    <2> QED BY <1>3, <2>1, <2>2 DEF DeleteExtKey
  <1>4. ASSUME NEW i \in UpIds, NEW n \in Names, NEW e \in BOOLEAN, CreateUpstream(i, n, e)
       PROVE  TInv'
    BY <1>4 DEF CreateUpstream, UpRow, AliasRow, Status
  <1>5. ASSUME NEW i \in UpIds, NEW n \in Names, NEW e \in BOOLEAN, UpdateUpstream(i, n, e)
       PROVE  TInv'
    BY <1>5 DEF UpdateUpstream, UpRow, AliasRow, Status
  <1>6. ASSUME NEW i \in UpIds, DeleteUpstream(i)
       PROVE  TInv'
    <2>0. ups'[i] = [ups[i] EXCEPT !.st = "deleted"] /\ ups[i] \in UpRow
      BY <1>6 DEF DeleteUpstream
    <2>1. ups'[i] \in UpRow /\ ups'[i].id = i
      BY <2>0 DEF UpRow, Status
    <2>2. \A j \in UpIds : j # i => ups'[j] = ups[j]
      BY <1>6 DEF DeleteUpstream
    <2>3. ASSUME NEW a \in AliasIds PROVE als'[a] \in AliasRow /\ als'[a].id = a
      <3>1. /\ als'[a] = [als[a] EXCEPT !.binds = @ \ {i}]
            /\ als[a] \in AliasRow /\ als[a].id = a
        BY <1>6 DEF DeleteUpstream
      <3> QED BY ONLY <1>0, <3>1
    <2> QED BY <1>6, <2>1, <2>2, <2>3 DEF DeleteUpstream
  <1>7. ASSUME NEW a \in AliasIds, NEW n \in Names, NEW B \in SUBSET UpIds, CreateAlias(a, n, B)
       PROVE  TInv'
    BY <1>7 DEF CreateAlias, AliasRow, Status
  <1>8. ASSUME NEW a \in AliasIds, NEW n \in Names, NEW B \in SUBSET UpIds, UpdateAlias(a, n, B)
       PROVE  TInv'
    BY <1>8 DEF UpdateAlias, AliasRow, Status
  <1>9. ASSUME NEW a \in AliasIds, DeleteAlias(a)
       PROVE  TInv'
    <2>0. /\ als'[a] = [als[a] EXCEPT !.st = "deleted", !.binds = {}]
          /\ als[a] \in AliasRow
      BY <1>9 DEF DeleteAlias
    <2>1. als'[a] \in AliasRow /\ als'[a].id = a
      BY <2>0 DEF AliasRow, Status
    <2>2. \A b \in AliasIds : b # a => als'[b] = als[b]
      BY <1>9 DEF DeleteAlias
    <2> QED BY <1>9, <2>1, <2>2 DEF DeleteAlias
  <1> QED BY <1>1, <1>2, <1>3, <1>4, <1>5, <1>6, <1>7, <1>8, <1>9 DEF Write

LEMMA TypeMaintain == TInv /\ Maintain => TInv'
  <1> SUFFICES ASSUME TInv, Maintain PROVE TInv'
    OBVIOUS
  <1> USE DEF TInv, TypeOK, MaintOK, dbVars, cacheVars, reqVars, bounds, MaintOps
  <1>0. NoEntry \in Entry /\ ~NoEntry.has
    BY DEF NoEntry, Entry, Value
  <1>1. CASE StoreKey
    BY <1>1, RowsAreValues DEF StoreKey, Store, NoMaint, Entry, Lookups, Value, Spaces
  <1>2. CASE EvictKey
    BY <1>0, <1>2 DEF EvictKey, Evict, NoMaint, Spaces
  <1>3. CASE EvictUpstream
    BY <1>0, <1>3 DEF EvictUpstream, Evict, NoMaint, Spaces
  <1>4. CASE EvictAliasByID
    BY <1>0, <1>4 DEF EvictAliasByID, Evict, NoMaint, Spaces
  <1>5. CASE EvictAliasByName
    BY <1>0, <1>5 DEF EvictAliasByName, Evict, NoMaint, Spaces
  <1> QED BY <1>1, <1>2, <1>3, <1>4, <1>5 DEF Maintain

LEMMA TypeRequest ==
  ASSUME TInv, NEW r \in Requests,
         Proceed(r) \/ \E s \in Asked : Start(r, s)
  PROVE  TInv'
  <1> USE DEF TInv, TypeOK, MaintOK, dbVars, cacheVars, reqVars, bounds, PCs
  <1>1. ASSUME NEW s \in Asked, Start(r, s) PROVE TInv'
    BY <1>1 DEF Start, Lookups, Value
  <1>2. CASE ProbeHit(r)
    <2>1. entries[slot[r]] \in Entry
      BY <1>2 DEF ProbeHit
    <2>2. entries[slot[r]].val \in Value
      BY <2>1 DEF Entry
    <2> QED BY <1>2, <2>2 DEF ProbeHit, Hit
  <1>3. CASE ProbeMiss(r)
    BY <1>3 DEF ProbeMiss
  <1>4. CASE ContendHit(r)
    BY <1>4 DEF ContendHit, Hit, Fresh, Entry
  <1>5. CASE Join(r)
    BY <1>5 DEF Join
  <1>6. CASE Lead(r)
    BY <1>6 DEF Lead, Lookups, Spaces
  <1>7. CASE ReadRow(r)
    BY <1>7, CurrentType DEF ReadRow
  <1>8. CASE ReadAlias(r)
    BY <1>8 DEF ReadAlias, AliasesNamed
  <1>9. CASE ReadBindings(r)
    <2>1. [id |-> aid[r], cands |-> Candidates(aid[r])] \in AliasVal
      BY <1>9 DEF ReadBindings, Candidates, AliasRow, AliasVal
    <2> QED BY <1>9, <2>1, RowsAreValues DEF ReadBindings, Value
  <1>10. CASE ReadNothing(r)
    BY <1>10 DEF ReadNothing
  <1>11. CASE ReadFails(r)
    BY <1>11 DEF ReadFails
  <1>12. CASE Fill(r)
    <2>1. Store(slot[r], val[r]) \in Entry /\ Store(slot[r], val[r]).val # NoVal
      BY <1>12 DEF Fill, Store, Entry
    <2>2. entries' \in [Lookups -> Entry]
      BY <1>12, <2>1 DEF Fill
    <2>4. clock' \in Nat
      BY <1>12 DEF Fill
    <2>3. \A s \in Lookups : entries'[s].has => entries'[s].val # NoVal
      BY <1>12, <2>1 DEF Fill
    <2> QED BY <1>12, <2>2, <2>3, <2>4 DEF Fill
  <1>13. CASE Close(r)
    <2>1. NoEntry \in Entry
      BY DEF NoEntry, Entry, Value
    <2>2. inflight' \in [Lookups -> Requests \union {NoRequest}]
      BY <1>13 DEF Close, Withdraw
    <2>3. /\ pc' \in [Requests -> PCs]
          /\ \A q \in Requests : pc'[q] = pc[q] \/ q = r \/ pc[q] = "wait"
          /\ pc[r] = "close"
          /\ \A q \in Requests : pc'[q] # "bind" \/ pc'[q] = pc[q]
      BY <1>13 DEF Close, Woken
    <2>4. /\ out' \in [Requests -> {"none", "row", "absent", "error"}]
          /\ val' \in [Requests -> Value]
      BY <1>13 DEF Close
    <2>5. /\ base' \in [Requests -> Entry] /\ baseGen' \in [Requests -> Nat]
          /\ aid' = [aid EXCEPT ![r] = NoName] /\ on' \in [Requests -> Requests]
      BY <1>13, <2>1 DEF Close
    <2>6. UNCHANGED <<dbVars, maint, entries, gen, clock, slot, bounds>>
      BY <1>13 DEF Close
    <2>7. \A q \in Requests : pc'[q] # "idle" => pc[q] # "idle"
      BY <2>3
    <2>8. /\ aid' \in [Requests -> AliasIds \union {NoName}]
          /\ \A q \in Requests : pc'[q] = "bind" => aid'[q] \in AliasIds
      BY <2>3, <2>5
    <2>9. TypeOK'
      <3>1. \A q \in Requests : pc'[q] # "idle" => slot'[q] \in Lookups
        BY <2>6, <2>7
      <3>2. pc' \in [Requests -> PCs]
        BY <2>3
      <3> HIDE DEF PCs
      <3> QED BY <2>2, <2>4, <2>5, <2>6, <2>8, <3>1, <3>2
    <2>10. MaintOK'
      <3>1. \A q \in Requests : pc'[q] \notin {"fill", "bind"} \/ (pc'[q] = pc[q] /\ val'[q] = val[q])
        BY <1>13 DEF Close, Woken
      <3> QED BY <2>6, <3>1
    <2> HIDE DEF TypeOK, MaintOK
    <2> QED BY <2>9, <2>10
  <1> QED BY <1>1, <1>2, <1>3, <1>4, <1>5, <1>6, <1>7, <1>8, <1>9, <1>10, <1>11, <1>12, <1>13
         DEF Proceed

LEMMA TypeNext == TInv /\ [Next]_vars => TInv'
  <1> SUFFICES ASSUME TInv, [Next]_vars PROVE TInv'
    OBVIOUS
  <1>1. ASSUME NEW s \in Lookups, Expire(s) PROVE TInv'
    <2>0. /\ entries'[s] = [entries[s] EXCEPT !.expired = TRUE]
          /\ entries[s] \in Entry /\ entries[s].has
      BY <1>1 DEF Expire, TInv, TypeOK
    <2>1. entries'[s] \in Entry /\ entries'[s].val = entries[s].val /\ entries[s].has
      BY <2>0 DEF Entry
    <2>2. \A t \in Lookups : t # s => entries'[t] = entries[t]
      BY <1>1 DEF Expire, TInv, TypeOK
    <2>3. entries' \in [Lookups -> Entry]
      BY <1>1, <2>1, <2>2 DEF Expire, TInv, TypeOK
    <2>4. \A t \in Lookups : entries'[t].has => entries'[t].val # NoVal
      BY <2>1, <2>2 DEF TInv, TypeOK
    <2> QED BY <1>1, <2>3, <2>4 DEF Expire, TInv, TypeOK, MaintOK, dbVars, reqVars
  <1>2. CASE UNCHANGED vars
    BY <1>2 DEF vars, TInv, TypeOK, MaintOK, dbVars, cacheVars, reqVars, bounds
  <1> QED BY <1>1, <1>2, TypeWrite, TypeMaintain, TypeRequest DEF Next

\* Every variable of the cache, of the writer and of the requests keeps its type,
\* and the cache never holds "there is no such row".
THEOREM TypeCorrect == Spec => []TypeOK
  <1>1. TInv => TypeOK
    BY DEF TInv
  <1> QED BY <1>1, TypeInit, TypeNext, PTL DEF Spec


-----------------------------------------------------------------------------
(* Coherence.  Coherent is not inductive: between a commit and its           *)
(* maintenance an entry may be out of date, and so may the row that a leader *)
(* has read and not stored yet.  The invariant says that every such row is    *)
(* doomed: the maintenance still owed will evict the entry, or has to raise  *)
(* the generation that the leader's fill is guarded by.                      *)

\* The maintenance still owed evicts what lookup s holds with row identifier id.
Doomed(s, id) ==
  \/ maint.op \in {"putKey", "refreshKey", "evictKey"} /\ s[1] = "keys" /\ id = maint.id
  \/ maint.op = "evictUp" /\ s[1] = "aliases"
  \/ maint.op = "evictUp" /\ s[1] = "ups" /\ (s[2] = maint.name \/ id = maint.id)
  \/ maint.op = "aliasId" /\ s[1] = "aliases" /\ (s[2] = maint.name \/ id = maint.id)
  \/ maint.op = "aliasName" /\ s[1] = "aliases" /\ s[2] = maint.name

\* A row v held for lookup s is right, or doomed.
Sound(s, v) == /\ v \in Current(s) \/ Doomed(s, v.id)
               /\ s[1] = "keys" => v.id = s[2]

EntriesInv == \A s \in Lookups : entries[s].has => Sound(s, entries[s].val)

\* A leader whose generation still is the current one.
OnTime(r) == baseGen[r] = gen[slot[r][1]]

FillInv == \A r \in Requests : pc[r] = "fill" /\ OnTime(r) => Sound(slot[r], val[r])

\* Between the two queries of an alias.
BindInv == \A r \in Requests : pc[r] = "bind" /\ OnTime(r) =>
             aid[r] \in AliasesNamed(slot[r][2]) \/ Doomed(slot[r], aid[r])

\* Generations only grow: a leader that has fallen behind stays behind.
GenInv == \A r \in Requests : Leads(r) => baseGen[r] <= gen[slot[r][1]]

IInv == TInv /\ EntriesInv /\ FillInv /\ BindInv /\ GenInv

LEMMA CoherentFromIInv == IInv => Coherent
  BY DEF IInv, EntriesInv, Sound, Doomed, Coherent

LEMMA IInvInit == Init => IInv
  BY TypeInit DEF Init, IInv, EntriesInv, FillInv, BindInv, GenInv, NoEntry, Leads

\* What a commit does to what the database answers: an answer stays right, or the
\* maintenance owed from now on dooms it.  This is where it matters which
\* entries each writer evicts.
CommitSafe ==
  /\ maint.op = "none"
  /\ UNCHANGED <<cacheVars, reqVars>>
  /\ \A s \in Lookups : \A v \in Current(s) : v \in Current(s)' \/ Doomed(s, v.id)'
  /\ \A n \in Names : \A a \in AliasesNamed(n) :
       a \in AliasesNamed(n)' \/ Doomed(<<"aliases", n>>, a)'

LEMMA CommitSafeIsSafe == IInv /\ TInv' /\ CommitSafe => IInv'
  <1> SUFFICES ASSUME IInv, TInv', CommitSafe PROVE IInv'
    OBVIOUS
  <1>1. EntriesInv'
    <2> SUFFICES ASSUME NEW s \in Lookups, entries[s].has
                 PROVE  Sound(s, entries[s].val)'
      BY DEF EntriesInv, CommitSafe, cacheVars
    <2>1. entries[s].val \in Current(s) /\ (s[1] = "keys" => entries[s].val.id = s[2])
      BY DEF IInv, EntriesInv, Sound, Doomed, CommitSafe
    <2> QED BY <2>1 DEF CommitSafe, cacheVars, Sound
  <1>2. FillInv'
    <2> SUFFICES ASSUME NEW r \in Requests, pc[r] = "fill", OnTime(r)
                 PROVE  Sound(slot[r], val[r])'
      BY DEF FillInv, CommitSafe, cacheVars, reqVars, OnTime
    <2>1. /\ val[r] \in Current(slot[r])
          /\ slot[r][1] = "keys" => val[r].id = slot[r][2]
          /\ slot[r] \in Lookups
      BY DEF IInv, FillInv, Sound, Doomed, CommitSafe, TInv, TypeOK
    <2> QED BY <2>1 DEF CommitSafe, reqVars, Sound
  <1>3. BindInv'
    <2> SUFFICES ASSUME NEW r \in Requests, pc[r] = "bind", OnTime(r)
                 PROVE  (aid[r] \in AliasesNamed(slot[r][2]) \/ Doomed(slot[r], aid[r]))'
      BY DEF BindInv, CommitSafe, cacheVars, reqVars, OnTime
    <2>1. aid[r] \in AliasesNamed(slot[r][2])
      BY DEF IInv, BindInv, Doomed, CommitSafe
    <2>2. slot[r] \in Lookups /\ slot[r][1] = "aliases"
      BY DEF IInv, TInv, TypeOK, MaintOK
    <2>3. slot[r] = <<"aliases", slot[r][2]>> /\ slot[r][2] \in Names
      BY <2>2 DEF Lookups
    <2> QED BY <2>1, <2>3 DEF CommitSafe, reqVars
  <1>4. GenInv'
    BY DEF IInv, GenInv, CommitSafe, cacheVars, reqVars, Leads
  <1> QED BY <1>1, <1>2, <1>3, <1>4 DEF IInv


\* A write to the ext keys dooms what is held under that key.
LEMMA KeyWrite ==
  ASSUME TInv, NEW k \in KeyIds, maint.op = "none",
         CreateExtKey(k) \/ UpdateExtKey(k) \/ DeleteExtKey(k)
  PROVE  CommitSafe
  <1>1. /\ UNCHANGED <<ups, als, cacheVars, reqVars>>
        /\ maint'.op \in {"putKey", "refreshKey", "evictKey"} /\ maint'.id = k
        /\ \A j \in KeyIds : j # k => extKeys'[j] = extKeys[j]
    BY DEF CreateExtKey, UpdateExtKey, DeleteExtKey, Commit, TInv, TypeOK
  <1>2. ASSUME NEW s \in Lookups, NEW v \in Current(s)
        PROVE  v \in Current(s)' \/ Doomed(s, v.id)'
    <2>1. CASE s[1] = "keys"
      <3>1. PICK j \in LiveKeys : v = extKeys[j] /\ j = s[2]
        BY <2>1 DEF Current
      <3>2. v.id = j
        BY <3>1 DEF LiveKeys, TInv, TypeOK
      <3> QED BY <1>1, <2>1, <3>1, <3>2 DEF Current, LiveKeys, Doomed
    <2>2. CASE s[1] = "ups"
      BY <1>1, <2>2 DEF Current, CurrentUp, UpsNamed, Ahead
    <2>3. CASE s[1] = "aliases"
      BY <1>1, <2>3 DEF Current, CurrentAlias, AliasesNamed, Candidates
    <2> QED BY <2>1, <2>2, <2>3 DEF Lookups
  <1>3. \A n : AliasesNamed(n)' = AliasesNamed(n)
    BY <1>1 DEF AliasesNamed
  <1> QED BY <1>1, <1>2, <1>3 DEF CommitSafe

\* A write to upstream i dooms every alias, and the upstreams looked up by its
\* identifier or by its new name: any other row that was first in its name still is.
LEMMA UpWrite ==
  ASSUME TInv, NEW i \in UpIds, maint.op = "none",
         UNCHANGED <<extKeys, cacheVars, reqVars>>,
         maint'.op = "evictUp", maint'.id = i,
         \A j \in UpIds : j # i => ups'[j] = ups[j],
         ups'[i].st # "live" \/ ups'[i].name = maint'.name,
         \A n : AliasesNamed(n)' = AliasesNamed(n)
  PROVE  CommitSafe
  <1>1. ASSUME NEW s \in Lookups, NEW v \in Current(s)
        PROVE  v \in Current(s)' \/ Doomed(s, v.id)'
    <2>1. CASE s[1] = "keys"
      BY <2>1 DEF Current, LiveKeys
    <2>2. CASE s[1] = "ups" /\ s[2] # maint'.name
      <3>1. PICK h \in UpsNamed(s[2]) :
              v = ups[h] /\ \A j \in UpsNamed(s[2]) : Ahead(h, j)
        BY <2>2 DEF Current, CurrentUp
      <3>2. v.id = h /\ h \in UpIds
        BY <3>1 DEF UpsNamed, TInv, TypeOK
      <3>3. CASE h = i
        BY <2>2, <3>2, <3>3 DEF Doomed
      <3>4. CASE h # i
        <4>1. i \notin UpsNamed(s[2])'
          BY <2>2 DEF UpsNamed
        <4>2. UpsNamed(s[2])' = UpsNamed(s[2]) \ {i}
          BY <4>1 DEF UpsNamed
        <4>3. \A j \in UpsNamed(s[2])' : Ahead(h, j)'
          BY <3>1, <3>2, <3>4, <4>2 DEF Ahead, UpsNamed
        <4>4. h \in UpsNamed(s[2])' /\ v = ups'[h]
          BY <3>1, <3>2, <3>4, <4>2
        <4> QED BY <2>2, <4>3, <4>4 DEF Current, CurrentUp
      <3> QED BY <3>3, <3>4
    <2>3. CASE s[1] = "aliases" \/ (s[1] = "ups" /\ s[2] = maint'.name)
      BY <2>3 DEF Doomed
    <2> QED BY <2>1, <2>2, <2>3 DEF Lookups
  <1> QED BY <1>1 DEF CommitSafe

\* A write to alias a dooms the aliases looked up by its identifier, if it was
\* there before, or by its new name.
LEMMA AliasWrite ==
  ASSUME TInv, NEW a \in AliasIds, maint.op = "none",
         UNCHANGED <<extKeys, ups, cacheVars, reqVars>>,
         \A b \in AliasIds : b # a => als'[b] = als[b],
         \/ maint'.op = "aliasId" /\ maint'.id = a
         \/ maint'.op = "aliasName" /\ als[a].st = "none"
  PROVE  CommitSafe
  <1>1. ASSUME NEW n \in Names, NEW b \in AliasesNamed(n)
        PROVE  \/ b \in AliasesNamed(n)' /\ als'[b] = als[b]
               \/ Doomed(<<"aliases", n>>, b)'
    BY <1>1 DEF AliasesNamed, Doomed
  <1>2. ASSUME NEW s \in Lookups, NEW v \in Current(s)
        PROVE  v \in Current(s)' \/ Doomed(s, v.id)'
    <2>1. CASE s[1] = "keys"
      BY <2>1 DEF Current, LiveKeys
    <2>2. CASE s[1] = "ups"
      BY <2>2 DEF Current, CurrentUp, UpsNamed, Ahead
    <2>3. CASE s[1] = "aliases"
      <3>1. PICK b \in AliasesNamed(s[2]) : v = [id |-> b, cands |-> Candidates(b)]
        BY <2>3 DEF Current, CurrentAlias
      <3>2. s[2] \in Names /\ s = <<"aliases", s[2]>> /\ v.id = b
        BY <2>3, <3>1 DEF Lookups
      <3>3. CASE Doomed(s, b)'
        BY <3>2, <3>3
      <3>4. CASE b \in AliasesNamed(s[2])' /\ als'[b] = als[b]
        <4>1. Candidates(b)' = Candidates(b)
          BY <3>4 DEF Candidates
        <4> QED BY <2>3, <3>1, <3>4, <4>1 DEF Current, CurrentAlias
      <3> QED BY <1>1, <3>1, <3>2, <3>3, <3>4
    <2> QED BY <2>1, <2>2, <2>3 DEF Lookups
  <1> QED BY <1>1, <1>2 DEF CommitSafe

LEMMA WriteSafe == TInv /\ Write => CommitSafe
  <1> SUFFICES ASSUME TInv, Write PROVE CommitSafe
    OBVIOUS
  <1> USE DEF TInv, TypeOK, Commit
  <1>1. ASSUME NEW k \in KeyIds, CreateExtKey(k) \/ UpdateExtKey(k) \/ DeleteExtKey(k)
        PROVE  CommitSafe
    <2>1. maint.op = "none"
      BY <1>1 DEF CreateExtKey, UpdateExtKey, DeleteExtKey
    <2> QED BY <1>1, <2>1, KeyWrite
  <1>2. ASSUME NEW i \in UpIds, NEW n \in Names, NEW e \in BOOLEAN,
               CreateUpstream(i, n, e) \/ UpdateUpstream(i, n, e)
        PROVE  CommitSafe
    <2>1. /\ maint.op = "none" /\ UNCHANGED <<extKeys, als, cacheVars, reqVars>>
          /\ maint'.op = "evictUp" /\ maint'.id = i /\ maint'.name = n
          /\ \A j \in UpIds : j # i => ups'[j] = ups[j]
          /\ ups'[i].name = n
      BY <1>2 DEF CreateUpstream, UpdateUpstream
    <2>2. \A m : AliasesNamed(m)' = AliasesNamed(m)
      BY <2>1 DEF AliasesNamed
    <2> QED BY <2>1, <2>2, UpWrite
  <1>3. ASSUME NEW i \in UpIds, DeleteUpstream(i) PROVE CommitSafe
    <2>1. /\ maint.op = "none" /\ UNCHANGED <<extKeys, cacheVars, reqVars>>
          /\ maint'.op = "evictUp" /\ maint'.id = i
          /\ \A j \in UpIds : j # i => ups'[j] = ups[j]
      BY <1>3 DEF DeleteUpstream
    <2>2. ups'[i] = [ups[i] EXCEPT !.st = "deleted"] /\ ups[i] \in UpRow
      BY <1>3 DEF DeleteUpstream
    <2>3. ups'[i].st # "live"
      BY <2>2 DEF UpRow
    <2>4. ASSUME NEW a \in AliasIds
          PROVE  als'[a].st = als[a].st /\ als'[a].name = als[a].name
      <3>1. als'[a] = [als[a] EXCEPT !.binds = @ \ {i}] /\ als[a] \in AliasRow
        BY <1>3 DEF DeleteUpstream
      <3> QED BY <3>1 DEF AliasRow
    <2>5. \A n : AliasesNamed(n)' = AliasesNamed(n)
      BY <2>4 DEF AliasesNamed
    <2> QED BY <2>1, <2>3, <2>5, UpWrite
  <1>4. ASSUME NEW a \in AliasIds, NEW n \in Names, NEW B \in SUBSET UpIds,
               CreateAlias(a, n, B) \/ UpdateAlias(a, n, B)
        PROVE  CommitSafe
    <2>1. /\ maint.op = "none" /\ UNCHANGED <<extKeys, ups, cacheVars, reqVars>>
          /\ \A b \in AliasIds : b # a => als'[b] = als[b]
          /\ \/ maint'.op = "aliasId" /\ maint'.id = a
             \/ maint'.op = "aliasName" /\ als[a].st = "none"
      BY <1>4 DEF CreateAlias, UpdateAlias
    <2> QED BY <2>1, AliasWrite
  <1>5. ASSUME NEW a \in AliasIds, DeleteAlias(a) PROVE CommitSafe
    <2>1. /\ maint.op = "none" /\ UNCHANGED <<extKeys, ups, cacheVars, reqVars>>
          /\ \A b \in AliasIds : b # a => als'[b] = als[b]
          /\ maint'.op = "aliasId" /\ maint'.id = a
      BY <1>5 DEF DeleteAlias
    <2> QED BY <2>1, AliasWrite
  <1> HIDE DEF TInv, TypeOK, Commit
  <1> QED BY <1>1, <1>2, <1>3, <1>4, <1>5 DEF Write


\* Maintenance: what it leaves in the cache is right, and the leaders it may have
\* overtaken find their generation gone.
LEMMA MaintainSafe == IInv /\ TInv' /\ Maintain => IInv'
  <1> SUFFICES ASSUME IInv, TInv', Maintain PROVE IInv'
    OBVIOUS
  <1>0. /\ UNCHANGED <<dbVars, reqVars>>
        /\ \A s : Current(s)' = Current(s)
        /\ \A n : AliasesNamed(n)' = AliasesNamed(n)
    <2>1. UNCHANGED <<dbVars, reqVars>>
      BY DEF Maintain, StoreKey, EvictKey, EvictUpstream, EvictAliasByID, EvictAliasByName
    <2> QED BY <2>1 DEF dbVars, Current, LiveKeys, CurrentUp, UpsNamed, Ahead,
                        CurrentAlias, AliasesNamed, Candidates
  \* The generation of the namespaces that the maintenance is about has grown.
  <1>1. /\ \A n \in Spaces : gen[n] <= gen'[n]
        /\ StoreKey \/ EvictKey => gen'["keys"] = gen["keys"] + 1
        /\ EvictUpstream => gen'["ups"] = gen["ups"] + 1 /\ gen'["aliases"] = gen["aliases"] + 1
        /\ EvictAliasByID \/ EvictAliasByName => gen'["aliases"] = gen["aliases"] + 1
    <2>1. gen \in [Spaces -> Nat]
      BY DEF IInv, TInv, TypeOK
    <2>2. CASE StoreKey \/ EvictKey
      <3>1. gen' = [gen EXCEPT !["keys"] = @ + 1]
        BY <2>2 DEF StoreKey, EvictKey
      <3>2. ~EvictUpstream /\ ~EvictAliasByID /\ ~EvictAliasByName
        BY <2>2 DEF StoreKey, EvictKey, EvictUpstream, EvictAliasByID, EvictAliasByName
      <3> QED BY <2>1, <3>1, <3>2 DEF Spaces
    <2>3. CASE EvictUpstream
      <3>1. gen' = [gen EXCEPT !["ups"] = @ + 1, !["aliases"] = @ + 1]
        BY <2>3 DEF EvictUpstream
      <3>2. ~StoreKey /\ ~EvictKey
        BY <2>3 DEF StoreKey, EvictKey, EvictUpstream
      <3> QED BY <2>1, <3>1, <3>2 DEF Spaces
    <2>4. CASE EvictAliasByID \/ EvictAliasByName
      <3>1. gen' = [gen EXCEPT !["aliases"] = @ + 1]
        BY <2>4 DEF EvictAliasByID, EvictAliasByName
      <3>2. ~StoreKey /\ ~EvictKey /\ ~EvictUpstream
        BY <2>4 DEF StoreKey, EvictKey, EvictUpstream, EvictAliasByID, EvictAliasByName
      <3> QED BY <2>1, <3>1, <3>2 DEF Spaces
    <2> QED BY <2>2, <2>3, <2>4 DEF Maintain
  \* What was doomed in a namespace that was left alone is doomed no more, for
  \* nothing was.
  <1>2. ASSUME NEW s \in Lookups, NEW id, Doomed(s, id)
        PROVE  \/ gen'[s[1]] = gen[s[1]] + 1
    BY <1>1, <1>2 DEF Doomed, Maintain, StoreKey, EvictKey, EvictUpstream,
                      EvictAliasByID, EvictAliasByName
  <1>3. GenInv'
    <2> SUFFICES ASSUME NEW r \in Requests, Leads(r)
                 PROVE  baseGen[r] <= gen'[slot[r][1]]
      BY <1>0 DEF GenInv, reqVars, Leads
    <2>1. slot[r] \in Lookups /\ slot[r][1] \in Spaces
      BY DEF IInv, TInv, TypeOK, Leads, Lookups, Spaces
    <2>2. baseGen[r] <= gen[slot[r][1]]
      BY DEF IInv, GenInv
    <2> QED BY <1>1, <2>1, <2>2 DEF IInv, TInv, TypeOK
  \* A leader that still is on time leads in a namespace that was left alone.
  <1>4. ASSUME NEW r \in Requests, Leads(r), OnTime(r)', NEW id
        PROVE  OnTime(r) /\ ~Doomed(slot[r], id)
    <2>1. slot[r] \in Lookups /\ slot[r][1] \in Spaces
      BY <1>4 DEF IInv, TInv, TypeOK, Leads, Lookups, Spaces
    <2>2. baseGen[r] <= gen[slot[r][1]] /\ baseGen[r] = gen'[slot[r][1]]
      BY <1>0, <1>4 DEF IInv, GenInv, OnTime, reqVars
    <2>3. gen[slot[r][1]] = gen'[slot[r][1]] /\ gen[slot[r][1]] \in Nat
      <3>1. /\ gen[slot[r][1]] \in Nat /\ gen'[slot[r][1]] \in Nat
            /\ gen[slot[r][1]] <= gen'[slot[r][1]]
        BY <1>1, <2>1 DEF IInv, TInv, TypeOK
      <3> QED BY <2>2, <3>1
    <2> QED BY <1>2, <2>1, <2>2, <2>3 DEF OnTime
  <1>5. FillInv'
    <2> SUFFICES ASSUME NEW r \in Requests, pc[r] = "fill", OnTime(r)'
                 PROVE  Sound(slot[r], val[r])'
      BY <1>0 DEF FillInv, reqVars
    <2>1. OnTime(r) /\ ~Doomed(slot[r], val[r].id)
      BY <1>4 DEF Leads
    <2> QED BY <1>0, <2>1 DEF IInv, FillInv, Sound, reqVars
  <1>6. BindInv'
    <2> SUFFICES ASSUME NEW r \in Requests, pc[r] = "bind", OnTime(r)'
                 PROVE  aid[r] \in AliasesNamed(slot[r][2])
      BY <1>0 DEF BindInv, reqVars
    <2>1. OnTime(r) /\ ~Doomed(slot[r], aid[r])
      BY <1>4 DEF Leads
    <2> QED BY <2>1 DEF IInv, BindInv
  \* An entry that the maintenance leaves was right, or still is doomed.
  <1>7. EntriesInv'
    <2> SUFFICES ASSUME NEW s \in Lookups, entries'[s].has
                 PROVE  Sound(s, entries[s].val)'
      BY <1>0 DEF EntriesInv
    <2>0. ~NoEntry.has
      BY DEF NoEntry
    <2>1. entries[s].has => Sound(s, entries[s].val)
      BY DEF IInv, EntriesInv
    <2>2. CASE StoreKey
      <3>1. maint.id \in KeyIds /\ extKeys[maint.id].st = "live" /\ extKeys[maint.id].id = maint.id
        BY <2>2 DEF StoreKey, IInv, TInv, MaintOK, TypeOK
      <3>2. CASE s = <<"keys", maint.id>>
        <4>1. entries'[s].val = extKeys[maint.id]
          BY <2>2, <3>2 DEF StoreKey, Store, IInv, TInv, TypeOK
        <4>2. maint.id \in LiveKeys /\ s[1] = "keys" /\ s[2] = maint.id
          BY <3>1, <3>2 DEF LiveKeys
        <4>3. extKeys[maint.id] \in Current(s)
          BY <4>2 DEF Current
        <4>4. entries'[s].val \in Current(s)' /\ entries'[s].val.id = s[2]
          BY <1>0, <3>1, <4>1, <4>2, <4>3
        <4> QED BY <4>4 DEF Sound
      <3>3. CASE s # <<"keys", maint.id>>
        <4>1. entries'[s] = entries[s]
          BY <2>2, <3>3 DEF StoreKey, IInv, TInv, TypeOK
        <4>2. ~Doomed(s, entries[s].val.id)
          <5> SUFFICES ASSUME Doomed(s, entries[s].val.id) PROVE FALSE
            OBVIOUS
          <5>1. s[1] = "keys" /\ entries[s].val.id = maint.id
            BY <2>2 DEF Doomed, StoreKey
          <5>2. s = <<"keys", s[2]>> /\ s[2] = maint.id
            BY <2>1, <4>1, <5>1 DEF Sound, Lookups
          <5> QED BY <3>3, <5>2
        <4> QED BY <1>0, <2>1, <4>1, <4>2 DEF Sound
      <3> QED BY <3>2, <3>3
    <2>3. CASE ~StoreKey
      <3>1. entries'[s] = entries[s]
        BY <2>0, <2>3 DEF Maintain, EvictKey, EvictUpstream, EvictAliasByID, EvictAliasByName, Evict
      <3>2. Doomed(s, entries[s].val.id) => Doomed(s, entries[s].val.id)'
        <4>1. CASE EvictKey
          BY <2>0, <3>1, <4>1 DEF EvictKey, Evict, Doomed
        <4>2. CASE EvictUpstream
          BY <2>0, <3>1, <4>2 DEF EvictUpstream, Evict, VoidUpEntry, Doomed
        <4>3. CASE EvictAliasByID
          BY <2>0, <3>1, <4>3, NamesAssumption
          DEF EvictAliasByID, Evict, Doomed, Lookups, IInv, TInv, TypeOK
        <4>4. CASE EvictAliasByName
          BY <2>0, <3>1, <4>4 DEF EvictAliasByName, Evict, Doomed
        <4> QED BY <2>3, <4>1, <4>2, <4>3, <4>4 DEF Maintain
      <3> QED BY <1>0, <2>1, <3>1, <3>2 DEF Sound
    <2> QED BY <2>2, <2>3
  <1> QED BY <1>3, <1>5, <1>6, <1>7 DEF IInv

\* A request changes neither the database nor the generations: what is right or
\* doomed stays so, and what a leader adds is what the database answers, or is
\* doomed, or is not stored.
LEMMA RequestSafe ==
  ASSUME IInv, TInv', NEW r \in Requests,
         Proceed(r) \/ \E s \in Asked : Start(r, s)
  PROVE  IInv'
  <1>1. UNCHANGED <<dbVars, maint, gen>>
    BY DEF Proceed, Start, ProbeHit, Hit, ProbeMiss, ContendHit, Join, Lead, ReadRow, ReadAlias,
           ReadBindings, ReadNothing, ReadFails, Fill, Close, cacheVars
  <1>2. /\ \A s : Current(s)' = Current(s)
        /\ \A n : AliasesNamed(n)' = AliasesNamed(n)
        /\ \A s, id : Doomed(s, id)' = Doomed(s, id)
        /\ \A a : Candidates(a)' = Candidates(a)
    BY <1>1 DEF dbVars, Current, LiveKeys, CurrentUp, UpsNamed, Ahead,
                CurrentAlias, AliasesNamed, Candidates, Doomed
  <1>3. \A s, v : Sound(s, v) => Sound(s, v)'
    BY <1>2 DEF Sound
  \* The other leaders are where they were.
  <1>4. ASSUME NEW q \in Requests, q # r, Leads(q)'
        PROVE  /\ pc'[q] = pc[q] /\ slot'[q] = slot[q] /\ baseGen'[q] = baseGen[q]
               /\ aid'[q] = aid[q] /\ val'[q] = val[q] /\ Leads(q)
    <2> USE <1>4 DEF IInv, TInv, TypeOK, Leads
    <2>1. CASE Close(r)
      <3>1. q \notin Woken(r)
        BY <2>1 DEF Close, Woken
      <3> QED BY <2>1, <3>1 DEF Close
    <2>2. CASE \E s \in Asked : Start(r, s)
      BY <2>2 DEF Start
    <2>3. CASE ProbeHit(r) \/ ContendHit(r) \/ ProbeMiss(r) \/ Join(r) \/ Lead(r)
      BY <2>3 DEF ProbeHit, Hit, ProbeMiss, ContendHit, Join, Lead
    <2>4. CASE ReadRow(r) \/ ReadAlias(r) \/ ReadBindings(r) \/ ReadNothing(r) \/ ReadFails(r)
      BY <2>4 DEF ReadRow, ReadAlias, ReadBindings, ReadNothing, ReadFails
    <2>5. CASE Fill(r)
      BY <2>5 DEF Fill
    <2> QED BY <2>1, <2>2, <2>3, <2>4, <2>5 DEF Proceed
  <1>5. GenInv'
    <2> SUFFICES ASSUME NEW q \in Requests, Leads(q)'
                 PROVE  baseGen'[q] <= gen[slot'[q][1]]
      BY <1>1 DEF GenInv
    <2>1. CASE q # r
      BY <1>4, <2>1 DEF IInv, GenInv
    <2>2. CASE q = r /\ Lead(r)
      <3>1. baseGen'[r] = gen[slot[r][1]] /\ slot' = slot
        BY <2>2 DEF Lead, IInv, TInv, TypeOK
      <3>2. gen[slot[r][1]] \in Nat
        BY <2>2 DEF Lead, IInv, TInv, TypeOK, Lookups, Spaces
      <3> QED BY <2>2, <3>1, <3>2
    <2>3. CASE q = r /\ ~Lead(r)
      <3>1. Leads(r) /\ slot'[r] = slot[r] /\ baseGen'[r] = baseGen[r]
        <4> USE <2>3 DEF IInv, TInv, TypeOK, Leads
        <4>1. ~Close(r) /\ ~Join(r) /\ ~ProbeMiss(r) /\ ~ProbeHit(r) /\ ~ContendHit(r)
          BY DEF Close, Join, ProbeMiss, ProbeHit, ContendHit, Hit
        <4>2. ~\E s \in Asked : Start(r, s)
          BY DEF Start
        <4> QED BY <4>1, <4>2
            DEF Proceed, ReadRow, ReadAlias, ReadBindings, ReadNothing, ReadFails, Fill
      <3> QED BY <2>3, <3>1 DEF IInv, GenInv
    <2> QED BY <2>1, <2>2, <2>3
  <1>6. FillInv'
    <2> SUFFICES ASSUME NEW q \in Requests, pc'[q] = "fill", OnTime(q)'
                 PROVE  Sound(slot[q], val[q])'
      BY DEF FillInv
    <2>1. CASE q # r
      <3>1. /\ pc[q] = "fill" /\ slot'[q] = slot[q] /\ val'[q] = val[q]
            /\ baseGen'[q] = baseGen[q]
        BY <1>4, <2>1 DEF Leads
      <3>2. OnTime(q)
        BY <1>1, <3>1 DEF OnTime
      <3> QED BY <1>2, <3>1, <3>2 DEF IInv, FillInv, Sound
    <2>2. CASE q = r
      <3>1. ReadRow(r) \/ ReadBindings(r)
        BY <2>2 DEF IInv, TInv, TypeOK, Proceed, Start, ProbeHit, Hit, ProbeMiss, ContendHit,
                    Join, Lead, ReadAlias, ReadNothing, ReadFails, Fill, Close
      <3>2. CASE ReadRow(r)
        <4>1. slot' = slot /\ val'[r] \in Current(slot[r]) /\ slot[r] \in Lookups
          BY <3>2 DEF ReadRow, IInv, TInv, TypeOK
        <4>2. slot[r][1] = "keys" => val'[r].id = slot[r][2]
          BY <4>1 DEF Current, LiveKeys, IInv, TInv, TypeOK
        <4> QED BY <1>2, <2>2, <4>1, <4>2 DEF Sound
      <3>3. CASE ReadBindings(r)
        <4>1. /\ slot' = slot /\ baseGen' = baseGen /\ pc[r] = "bind"
              /\ val'[r] = [id |-> aid[r], cands |-> Candidates(aid[r])]
          BY <3>3 DEF ReadBindings, IInv, TInv, TypeOK
        <4>2. OnTime(r) /\ slot[r][1] = "aliases"
          BY <1>1, <2>2, <4>1 DEF OnTime, IInv, TInv, MaintOK
        <4>3. aid[r] \in AliasesNamed(slot[r][2]) \/ Doomed(slot[r], aid[r])
          BY <4>1, <4>2 DEF IInv, BindInv
        <4>4. val'[r] \in Current(slot[r]) \/ Doomed(slot[r], val'[r].id)
          BY <4>1, <4>2, <4>3 DEF Current, CurrentAlias
        <4> QED BY <1>2, <2>2, <4>1, <4>2, <4>4 DEF Sound
      <3> QED BY <3>1, <3>2, <3>3
    <2> QED BY <2>1, <2>2
  <1>7. BindInv'
    <2> SUFFICES ASSUME NEW q \in Requests, pc'[q] = "bind", OnTime(q)'
                 PROVE  aid'[q] \in AliasesNamed(slot'[q][2]) \/ Doomed(slot'[q], aid'[q])
      BY <1>2 DEF BindInv
    <2>1. CASE q # r
      <3>1. /\ pc[q] = "bind" /\ slot'[q] = slot[q] /\ aid'[q] = aid[q]
            /\ baseGen'[q] = baseGen[q]
        BY <1>4, <2>1 DEF Leads
      <3>2. OnTime(q)
        BY <1>1, <3>1 DEF OnTime
      <3> QED BY <3>1, <3>2 DEF IInv, BindInv
    <2>2. CASE q = r
      <3>1. ReadAlias(r)
        BY <2>2 DEF IInv, TInv, TypeOK, Proceed, Start, ProbeHit, Hit, ProbeMiss, ContendHit,
                    Join, Lead, ReadRow, ReadBindings, ReadNothing, ReadFails, Fill, Close
      <3> QED BY <2>2, <3>1 DEF ReadAlias, IInv, TInv, TypeOK
    <2> QED BY <2>1, <2>2
  <1>8. EntriesInv'
    <2>1. CASE Fill(r) /\ MayFill(r)
      <3>1. /\ entries' = [entries EXCEPT ![slot[r]] = Store(slot[r], val[r])]
            /\ slot[r] \in Lookups
        BY <2>1 DEF Fill, IInv, TInv, TypeOK
      <3>2. Sound(slot[r], val[r])
        BY <2>1 DEF Fill, MayFill, OnTime, IInv, FillInv
      <3>3. ASSUME NEW s \in Lookups, entries'[s].has PROVE Sound(s, entries'[s].val)
        <4>1. CASE s = slot[r]
          BY <3>1, <3>2, <4>1 DEF Store, IInv, TInv, TypeOK
        <4>2. CASE s # slot[r]
          BY <3>1, <3>3, <4>2 DEF IInv, TInv, TypeOK, EntriesInv
        <4> QED BY <4>1, <4>2
      <3> QED BY <1>3, <3>3 DEF EntriesInv
    <2>2. CASE ~(Fill(r) /\ MayFill(r))
      <3>1. entries' = entries
        BY <2>2 DEF Proceed, Start, ProbeHit, Hit, ProbeMiss, ContendHit, Join, Lead, ReadRow,
                    ReadAlias, ReadBindings, ReadNothing, ReadFails, Fill, Close, cacheVars
      <3> QED BY <1>3, <3>1 DEF IInv, EntriesInv
    <2> QED BY <2>1, <2>2
  <1> QED BY <1>5, <1>6, <1>7, <1>8 DEF IInv

\* An entry that expires keeps its row.
LEMMA ExpireSafe == ASSUME IInv, TInv', NEW s \in Lookups, Expire(s) PROVE IInv'
  <1>1. UNCHANGED <<dbVars, maint, gen, reqVars>>
    BY DEF Expire
  <1>2. \A t, v : Sound(t, v) => Sound(t, v)'
    BY <1>1 DEF dbVars, Sound, Current, LiveKeys, CurrentUp, UpsNamed, Ahead,
                CurrentAlias, AliasesNamed, Candidates, Doomed
  <1>3. entries'[s] = [entries[s] EXCEPT !.expired = TRUE] /\ entries[s] \in Entry
    BY DEF Expire, IInv, TInv, TypeOK
  <1>4. \A t \in Lookups : entries'[t].has = entries[t].has /\ entries'[t].val = entries[t].val
    BY <1>3 DEF Expire, Entry, IInv, TInv, TypeOK
  <1>5. EntriesInv'
    BY <1>2, <1>4 DEF IInv, EntriesInv
  <1>6. FillInv' /\ GenInv'
    BY <1>1, <1>2 DEF IInv, FillInv, GenInv, OnTime, Leads, reqVars
  <1>7. BindInv'
    BY <1>1 DEF IInv, BindInv, OnTime, AliasesNamed, Doomed, reqVars, dbVars
  <1> QED BY <1>5, <1>6, <1>7 DEF IInv

LEMMA IInvNext == IInv /\ [Next]_vars => IInv'
  <1> SUFFICES ASSUME IInv, [Next]_vars PROVE IInv'
    OBVIOUS
  <1>1. TInv /\ TInv'
    BY TypeNext DEF IInv
  <1>2. CASE Write
    BY <1>1, <1>2, WriteSafe, CommitSafeIsSafe
  <1>3. CASE Maintain
    BY <1>1, <1>3, MaintainSafe
  <1>4. ASSUME NEW s \in Lookups, Expire(s) PROVE IInv'
    BY <1>1, <1>4, ExpireSafe
  <1>5. ASSUME NEW r \in Requests, Proceed(r) \/ \E s \in Asked : Start(r, s) PROVE IInv'
    BY <1>1, <1>5, RequestSafe
  <1>6. CASE UNCHANGED vars
    <2>1. UNCHANGED <<dbVars, maint, cacheVars, reqVars>>
      BY <1>6 DEF vars
    <2>2. \A t, v : Sound(t, v) => Sound(t, v)'
      BY <2>1 DEF dbVars, Sound, Current, LiveKeys, CurrentUp, UpsNamed, Ahead,
                  CurrentAlias, AliasesNamed, Candidates, Doomed
    <2>3. EntriesInv' /\ FillInv' /\ GenInv'
      BY <2>1, <2>2 DEF IInv, EntriesInv, FillInv, GenInv, OnTime, Leads, cacheVars, reqVars
    <2>4. BindInv'
      BY <2>1 DEF IInv, BindInv, OnTime, AliasesNamed, Doomed, cacheVars, reqVars, dbVars
    <2> QED BY <1>1, <2>3, <2>4 DEF IInv
  <1> QED BY <1>2, <1>3, <1>4, <1>5, <1>6 DEF Next

\* Whenever no write is between its commit and its maintenance, every entry of the
\* cache is a row the database answers with, for any interleaving of any number of
\* requests and writes: the guarded fill of loadThrough never stores a stale row.
THEOREM Coherence == Spec => []Coherent
  BY IInvInit, IInvNext, CoherentFromIInv, PTL DEF Spec


-----------------------------------------------------------------------------
(* Answers, with the history variables of MCConfigCache.  OwnAnswersRight is  *)
(* about finished lookups only; the invariant says what a lookup in progress  *)
(* may still be given, by the cache, by a leader about to fill, or by itself. *)

\* What a lookup of r that began between writes may be given: every row that a
\* cache entry, or the fill of any leader on time, holds for it has been right
\* since it began.
RightNow(r) ==
  pc[r] # "done" =>
    /\ Answers(slot[r]) \subseteq right[r]
    /\ entries[slot[r]].has => entries[slot[r]].val \in right[r]
    /\ \A q \in Requests :
         pc[q] = "fill" /\ OnTime(q) /\ slot[q] = slot[r] => val[q] \in right[r]

Unanswered == {"probe", "contend", "wait", "read"}

\* What r itself holds.
RightVal(r) ==
  /\ pc[r] \in Unanswered => val[r] = NoVal
  /\ pc[r] = "fill" => val[r] \in right[r]
  /\ pc[r] = "close" /\ out[r] # "error" => val[r] \in right[r]
  /\ pc[r] = "done" /\ ~joined[r] /\ out[r] # "error" => val[r] \in right[r]

RightInv ==
  \A r \in Requests :
    /\ pc[r] = "wait" => joined[r]
    /\ right[r] # {} =>
         pc[r] # "idle" /\ slot[r][1] # "aliases" /\ RightNow(r) /\ RightVal(r)

HInv == IInv /\ RightInv

\* Where a step takes what it stores from: what was there, a fill that was on time,
\* or what the database answers.
Kept(s) == entries[s].has /\ entries'[s].val = entries[s].val
FromFill(s) ==
  \E q \in Requests : /\ pc[q] = "fill" /\ OnTime(q) /\ slot[q] = s
                      /\ entries'[s].val = val[q]
KeepsFill(q) == pc[q] = "fill" /\ OnTime(q) /\ slot'[q] = slot[q] /\ val'[q] = val[q]

Provenance ==
  /\ \A s \in Lookups :
       entries'[s].has => Kept(s) \/ FromFill(s) \/ entries'[s].val \in Current(s)'
  /\ \A q \in Requests :
       pc'[q] = "fill" /\ OnTime(q)' /\ slot'[q][1] # "aliases" =>
         KeepsFill(q) \/ val'[q] \in Current(slot[q])'

\* A step of the writer or of the clock leaves the requests alone.
LEMMA BesideRequests ==
  ASSUME IInv, UNCHANGED reqVars,
         \A s \in Spaces : gen[s] \in Nat /\ gen'[s] \in Nat /\ gen[s] <= gen'[s],
         \A s \in Lookups : entries'[s].has => Kept(s) \/ entries'[s].val \in Current(s)'
  PROVE  Provenance
<1> SUFFICES ASSUME NEW q \in Requests, pc[q] = "fill", OnTime(q)' PROVE OnTime(q)
  BY DEF Provenance, KeepsFill, reqVars
<1>1. slot[q] \in Lookups /\ slot[q][1] \in Spaces
  BY DEF IInv, TInv, TypeOK, Lookups, Spaces
<1>2. baseGen[q] <= gen[slot[q][1]] /\ baseGen[q] \in Nat
  BY DEF IInv, GenInv, Leads, TInv, TypeOK
<1>3. baseGen[q] = gen'[slot[q][1]]
  BY DEF OnTime, reqVars
<1> QED BY <1>1, <1>2, <1>3 DEF OnTime

LEMMA WriteProvenance == ASSUME IInv, Write PROVE Provenance /\ UNCHANGED reqVars
<1>1. CommitSafe
  BY WriteSafe DEF IInv
<1>2. \A s \in Spaces : gen[s] \in Nat
  BY DEF IInv, TInv, TypeOK
<1> QED BY <1>1, <1>2, BesideRequests DEF CommitSafe, cacheVars, reqVars, Kept

LEMMA ExpireProvenance ==
  ASSUME IInv, NEW t \in Lookups, Expire(t) PROVE Provenance /\ UNCHANGED reqVars
<1>1. entries[t] \in Entry /\ \A s \in Spaces : gen[s] \in Nat
  BY DEF IInv, TInv, TypeOK
<1>2. \A s \in Lookups : entries'[s].has => Kept(s)
  BY <1>1 DEF Expire, Kept, Entry, IInv, TInv, TypeOK
<1> QED BY <1>1, <1>2, BesideRequests DEF Expire, reqVars

LEMMA MaintainProvenance ==
  ASSUME IInv, Maintain PROVE Provenance /\ UNCHANGED reqVars
<1> USE DEF IInv, TInv, TypeOK
<1>1. UNCHANGED <<dbVars, reqVars>>
  BY DEF Maintain, StoreKey, EvictKey, EvictUpstream, EvictAliasByID, EvictAliasByName
<1>2. \A s \in Spaces : gen[s] \in Nat /\ gen'[s] \in Nat /\ gen[s] <= gen'[s]
  BY DEF Maintain, StoreKey, EvictKey, EvictUpstream, EvictAliasByID, EvictAliasByName, Spaces
<1>3. ASSUME NEW s \in Lookups, entries'[s].has
      PROVE  Kept(s) \/ entries'[s].val \in Current(s)'
  <2>1. CASE StoreKey
    <3> DEFINE t == <<"keys", maint.id>>
    <3>1. maint.id \in KeyIds /\ extKeys[maint.id].st = "live" /\ t \in Lookups
      BY <2>1 DEF StoreKey, MaintOK, Lookups
    <3>2. CASE s = t
      <4>1. entries'[s].val = extKeys[maint.id]
        BY <2>1, <3>1, <3>2 DEF StoreKey, Store
      <4>2. extKeys'[maint.id] = extKeys[maint.id]
        BY <1>1 DEF dbVars
      <4> QED BY <3>1, <3>2, <4>1, <4>2 DEF Current, LiveKeys
    <3>3. CASE s # t
      <4>1. entries'[s] = entries[s]
        BY <2>1, <3>1, <3>3 DEF StoreKey
      <4> QED BY <1>3, <4>1 DEF Kept
    <3> QED BY <3>2, <3>3
  <2>2. CASE EvictKey \/ EvictUpstream \/ EvictAliasByID \/ EvictAliasByName
    <3>1. entries'[s] = entries[s] \/ entries'[s] = NoEntry
      BY <2>2 DEF EvictKey, EvictUpstream, EvictAliasByID, EvictAliasByName, Evict
    <3> QED BY <1>3, <3>1 DEF Kept, NoEntry
  <2> QED BY <2>1, <2>2 DEF Maintain
<1> QED BY <1>1, <1>2, <1>3, BesideRequests DEF reqVars

\* A request changes neither the database nor the generations.
LEMMA RequestProvenance ==
  ASSUME IInv, NEW r \in Requests, Proceed(r) \/ \E s \in Asked : Start(r, s)
  PROVE  Provenance
<1> USE DEF IInv, TInv, TypeOK
<1>1. UNCHANGED <<dbVars, maint, gen>>
  BY DEF Proceed, Start, ProbeHit, Hit, ProbeMiss, ContendHit, Join, Lead, ReadRow, ReadAlias,
         ReadBindings, ReadNothing, ReadFails, Fill, Close, cacheVars
<1>2. \A s : Current(s)' = Current(s)
  BY <1>1 DEF dbVars, Current, LiveKeys, CurrentUp, UpsNamed, Ahead,
              CurrentAlias, AliasesNamed, Candidates
<1>3. ASSUME NEW s \in Lookups, entries'[s].has PROVE Kept(s) \/ FromFill(s)
  <2>1. CASE Fill(r) /\ MayFill(r)
    <3>1. /\ entries' = [entries EXCEPT ![slot[r]] = Store(slot[r], val[r])]
          /\ pc[r] = "fill" /\ OnTime(r) /\ slot[r] \in Lookups
      BY <2>1 DEF Fill, MayFill, OnTime
    <3> QED BY <1>3, <3>1 DEF Kept, FromFill, Store
  <2>2. CASE ~(Fill(r) /\ MayFill(r))
    BY <1>3, <2>2 DEF Proceed, Start, ProbeHit, Hit, ProbeMiss, ContendHit, Join, Lead, ReadRow,
                ReadAlias, ReadBindings, ReadNothing, ReadFails, Fill, Close, cacheVars, Kept
  <2> QED BY <2>1, <2>2
<1>4. ASSUME NEW q \in Requests, pc'[q] = "fill", OnTime(q)', slot'[q][1] # "aliases"
      PROVE  KeepsFill(q) \/ val'[q] \in Current(slot[q])'
  <2>1. CASE ReadRow(r) /\ q = r
    <3>1. val'[r] \in Current(slot[r]) /\ slot' = slot
      BY <2>1 DEF ReadRow
    <3> QED BY <1>2, <2>1, <3>1
  <2>2. CASE ReadBindings(r) /\ q = r
    BY <1>4, <2>2 DEF ReadBindings, MaintOK
  <2>3. CASE ~(ReadRow(r) /\ q = r) /\ ~(ReadBindings(r) /\ q = r)
    <3>1. pc[q] = "fill" /\ slot'[q] = slot[q] /\ val'[q] = val[q] /\ baseGen'[q] = baseGen[q]
      <4>1. CASE q # r
        <5>1. CASE Close(r)
          BY <1>4, <4>1, <5>1 DEF Close, Woken
        <5>2. CASE ~Close(r)
          BY <1>4, <4>1, <5>2 DEF Proceed, Start, ProbeHit, Hit, ProbeMiss, ContendHit, Join,
               Lead, ReadRow, ReadAlias, ReadBindings, ReadNothing, ReadFails, Fill
        <5> QED BY <5>1, <5>2
      <4>2. CASE q = r
        BY <1>4, <2>3, <4>2 DEF Proceed, Start, ProbeHit, Hit, ProbeMiss, ContendHit, Join,
             Lead, ReadRow, ReadAlias, ReadBindings, ReadNothing, ReadFails, Fill, Close
      <4> QED BY <4>1, <4>2
    <3> QED BY <1>1, <1>4, <3>1 DEF KeepsFill, OnTime
  <2> QED BY <2>1, <2>2, <2>3
<1> QED BY <1>3, <1>4 DEF Provenance

\* A lookup that starts between writes: everything held for it is right.
LEMMA RightFromSound ==
  ASSUME IInv, maint.op = "none", NEW s \in Lookups
  PROVE  /\ entries[s].has => entries[s].val \in Answers(s)
         /\ \A q \in Requests :
              pc[q] = "fill" /\ OnTime(q) /\ slot[q] = s => val[q] \in Answers(s)
  BY DEF IInv, EntriesInv, FillInv, Sound, Doomed, Answers

\* A lookup in progress: what a step adds is what the database answers now.
LEMMA RightNowSafe ==
  ASSUME HInv, IInv', Provenance, NEW r \in Requests, right[r] # {}, pc[r] # "done",
         slot'[r] = slot[r], right'[r] = right[r] \union Answers(slot[r])'
  PROVE  RightNow(r)'
<1>1. slot[r] \in Lookups /\ RightNow(r) /\ slot[r][1] # "aliases"
  BY DEF HInv, RightInv, IInv, TInv, TypeOK
<1>3. \A v : v \in Current(slot[r])' => v \in right'[r]
  BY DEF Answers
<1>4. entries'[slot[r]].has => entries'[slot[r]].val \in right'[r]
  BY <1>1, <1>3 DEF Provenance, RightNow, Kept, FromFill
<1>5. ASSUME NEW q \in Requests, pc'[q] = "fill", OnTime(q)', slot'[q] = slot[r]
      PROVE  val'[q] \in right'[r]
  <2>1. KeepsFill(q) \/ val'[q] \in Current(slot[q])'
    BY <1>1, <1>5 DEF Provenance
  <2>2. Current(slot[q])' = Current(slot[r])'
    BY <1>5
  <2> QED BY <1>1, <1>3, <1>5, <2>1, <2>2 DEF RightNow, KeepsFill
<1> QED BY <1>1, <1>4, <1>5 DEF RightNow, Answers

\* What a step does to a request: nothing, its own next step, or its leader wakes it.
Untouched(r) == pc'[r] = pc[r] /\ slot'[r] = slot[r] /\ val'[r] = val[r] /\ out'[r] = out[r]
WokenUp(r) == /\ pc[r] = "wait" /\ slot'[r] = slot[r]
              /\ pc'[r] = "done" \/ (pc'[r] = "probe" /\ val'[r] = val[r])

LEMMA RequestEffect ==
  ASSUME IInv, NEW q \in Requests, Proceed(q) \/ \E s \in Asked : Start(q, s),
         NEW r \in Requests, r # q
  PROVE  Untouched(r) \/ WokenUp(r)
<1> USE DEF IInv, TInv, TypeOK, Untouched, WokenUp
<1>1. CASE Close(q)
  <2>1. CASE r \in Woken(q)
    BY <1>1, <2>1 DEF Close, Woken
  <2>2. CASE r \notin Woken(q)
    BY <1>1, <2>2 DEF Close
  <2> QED BY <2>1, <2>2
<1>2. CASE ~Close(q)
  BY <1>2 DEF Proceed, Start, ProbeHit, Hit, ProbeMiss, ContendHit, Join, Lead, ReadRow,
     ReadAlias, ReadBindings, ReadNothing, ReadFails, Fill
<1> QED BY <1>1, <1>2

\* A lookup in progress: what r holds after a step is right.
LEMMA RightValSafe ==
  ASSUME HInv, NEW r \in Requests, right[r] # {}, pc[r] # "done", slot'[r] = slot[r],
         Untouched(r) \/ WokenUp(r) \/ Proceed(r),
         UNCHANGED <<dbVars, maint>> \/ Untouched(r),
         right'[r] = right[r] \union Answers(slot[r])',
         pc'[r] = "done" /\ pc[r] = "wait" => joined'[r]
  PROVE  RightVal(r)'
<1> USE DEF RightVal, Unanswered
<1>1. RightVal(r) /\ RightNow(r) /\ pc[r] # "idle" /\ slot[r][1] # "aliases"
  BY DEF HInv, RightInv
<1>2. \A v \in right[r] : v \in right'[r]
  OBVIOUS
<1>3. CASE Untouched(r)
  BY <1>1, <1>2, <1>3 DEF Untouched
<1>4. CASE WokenUp(r)
  BY <1>1, <1>4 DEF WokenUp
<1>5. CASE Proceed(r) /\ ~Untouched(r)
  <2> USE DEF HInv, IInv, TInv, TypeOK
  <2>0. UNCHANGED dbVars
    BY <1>5
  <2>1. CASE ProbeHit(r) \/ ContendHit(r)
    <3>1. entries[slot[r]].has /\ pc'[r] = "done" /\ val'[r] = entries[slot[r]].val
      BY <2>1 DEF ProbeHit, ContendHit, Hit, Fresh
    <3> QED BY <1>1, <1>2, <3>1 DEF RightNow
  <2>2. CASE ProbeMiss(r) \/ Join(r) \/ Lead(r)
    BY <1>1, <2>2 DEF ProbeMiss, Join, Lead
  <2>3. CASE ReadRow(r)
    <3>1. pc'[r] = "fill" /\ val'[r] \in Current(slot[r])
      BY <2>3 DEF ReadRow
    <3>2. val'[r] \in Answers(slot[r])
      BY <3>1 DEF Answers
    <3> QED BY <1>1, <1>2, <3>1, <3>2 DEF RightNow
  <2>4. CASE ReadAlias(r) \/ ReadBindings(r)
    BY <1>1, <2>4 DEF ReadAlias, ReadBindings, MaintOK
  <2>5. CASE ReadNothing(r)
    <3>1. pc'[r] = "close" /\ val'[r] = NoVal /\ Current(slot[r]) = {}
      BY <1>1, <2>5 DEF ReadNothing
    <3> QED BY <1>1, <1>2, <3>1 DEF RightNow, Answers
  <2>6. CASE ReadFails(r)
    BY <2>6 DEF ReadFails
  <2>7. CASE Fill(r)
    BY <1>1, <1>2, <2>7 DEF Fill
  <2>8. CASE Close(r)
    <3>1. r \notin Woken(r)
      BY <2>8 DEF Close, Woken
    <3>2. pc[r] = "close" /\ pc'[r] = "done" /\ val'[r] = val[r] /\ out'[r] = out[r]
      BY <2>8, <3>1 DEF Close
    <3> QED BY <1>1, <1>2, <3>2
  <2> QED BY <1>5, <2>1, <2>2, <2>3, <2>4, <2>5, <2>6, <2>7, <2>8 DEF Proceed
<1> QED BY <1>3, <1>4, <1>5

\* A step of a request, or one that leaves the requests alone.
LEMMA RightStep ==
  ASSUME HInv, IInv', Provenance, Track, NEW r \in Requests,
         Untouched(r) \/ WokenUp(r) \/ Proceed(r) \/ \E s \in Asked : Start(r, s),
         UNCHANGED <<dbVars, maint>> \/ Untouched(r)
  PROVE  /\ pc'[r] = "wait" => joined'[r]
         /\ right'[r] # {} =>
              pc'[r] # "idle" /\ slot'[r][1] # "aliases" /\ RightNow(r)' /\ RightVal(r)'
<1> USE DEF HInv, IInv, TInv, TypeOK
<1>1. pc'[r] = "wait" => joined'[r]
  BY DEF Track
<1>2. ASSUME right'[r] # {}, pc[r] \in {"idle", "done"}
      PROVE  pc'[r] # "idle" /\ slot'[r][1] # "aliases" /\ RightNow(r)' /\ RightVal(r)'
  <2>1. pc'[r] = "probe"
    BY <1>2 DEF Track
  <2>2. ~Untouched(r) /\ ~WokenUp(r) /\ ~Proceed(r)
    BY <1>2, <2>1 DEF Untouched, WokenUp, Proceed, ProbeHit, ProbeMiss, ContendHit, Join, Lead,
       ReadRow, ReadAlias, ReadBindings, ReadNothing, ReadFails, Fill, Close
  <2>3. PICK s \in Asked : Start(r, s)
    BY <2>2
  <2>4. slot'[r] = s /\ val'[r] = NoVal /\ maint' = maint
    BY <2>3 DEF Start
  <2>5. maint'.op = "none" /\ slot'[r][1] # "aliases" /\ right'[r] = Answers(slot[r])'
    <3>1. right'[r] = IF Tracked(slot'[r]) THEN Answers(slot'[r]) ELSE {}
      BY <1>2, <2>1 DEF Track
    <3>2. UNCHANGED dbVars
      BY <2>3 DEF Start
    <3>3. Answers(s)' = Answers(s)
      BY <3>2 DEF dbVars, Answers, Current, LiveKeys, CurrentUp, UpsNamed, Ahead,
                  CurrentAlias, AliasesNamed, Candidates
    <3>4. Answers(slot[r])' = Answers(s)'
      BY <2>4
    <3> QED BY <1>2, <2>4, <3>1, <3>3, <3>4 DEF Tracked
  <2>6. slot'[r] \in Lookups
    BY <2>1
  <2>7. RightNow(r)'
    <3>1. \A t \in Lookups :
            /\ entries'[t].has => entries'[t].val \in Answers(t)'
            /\ \A q \in Requests : pc'[q] = "fill" /\ OnTime(q)' /\ slot'[q] = t => val'[q] \in Answers(t)'
      BY <2>5 DEF EntriesInv, FillInv, Sound, Doomed, Answers
    <3>2. \A v : v \in Answers(slot[r])' => v \in right'[r]
      BY <2>5
    <3>3. \A q \in Requests : pc'[q] = "fill" /\ OnTime(q)' /\ slot'[q] = slot'[r] => val'[q] \in Answers(slot[r])'
      BY <2>6, <3>1
    <3>4. entries'[slot'[r]].has => entries'[slot'[r]].val \in Answers(slot[r])'
      BY <2>6, <3>1
    <3> QED BY <3>2, <3>3, <3>4 DEF RightNow
  <2> QED BY <2>1, <2>4, <2>5, <2>7 DEF RightVal, Unanswered
<1>3. ASSUME right'[r] # {}, pc[r] \notin {"idle", "done"}
      PROVE  pc'[r] # "idle" /\ slot'[r][1] # "aliases" /\ RightNow(r)' /\ RightVal(r)'
  <2>1. ~\E s \in Asked : Start(r, s)
    BY <1>3 DEF Start
  <2>2. slot'[r] = slot[r]
    BY <2>1 DEF Untouched, WokenUp, Proceed, ProbeHit, Hit, ProbeMiss, ContendHit, Join, Lead,
       ReadRow, ReadAlias, ReadBindings, ReadNothing, ReadFails, Fill, Close
  <2>3. right[r] # {} /\ right'[r] = right[r] \union Answers(slot[r])'
    BY <1>3 DEF Track
  <2>4. pc'[r] = "done" /\ pc[r] = "wait" => joined'[r]
    BY DEF Track, RightInv
  <2>5. pc'[r] # "idle"
    BY <1>3, <2>1 DEF Untouched, WokenUp, Proceed, ProbeHit, Hit, ProbeMiss, ContendHit, Join,
       Lead, ReadRow, ReadAlias, ReadBindings, ReadNothing, ReadFails, Fill, Close
  <2>6. RightNow(r)'
    BY <1>3, <2>2, <2>3, RightNowSafe
  <2>7. RightVal(r)'
    BY <1>3, <2>1, <2>2, <2>3, <2>4, RightValSafe
  <2> QED BY <2>2, <2>3, <2>5, <2>6, <2>7 DEF RightInv
<1> QED BY <1>1, <1>2, <1>3

LEMMA RightNext == ASSUME HInv, [MCNext]_mcVars PROVE HInv'
<1>1. IInv' /\ ((Next /\ Track) \/ UNCHANGED mcVars)
  <2>1. (Next /\ Track) \/ UNCHANGED mcVars
    BY DEF MCNext, Finished, Next, Write, Maintain, Proceed
  <2> QED BY <2>1, IInvNext DEF HInv, mcVars
<1>2. CASE UNCHANGED mcVars
  <2>1. RightInv'
    BY <1>2 DEF HInv, mcVars, vars, dbVars, cacheVars, reqVars, RightInv, RightNow, RightVal,
       OnTime, Unanswered, Answers, Current, LiveKeys, CurrentUp, UpsNamed, Ahead,
       CurrentAlias, AliasesNamed, Candidates
  <2> QED BY <1>1, <2>1 DEF HInv
<1>3. CASE Next /\ Track
  <2>1. ASSUME Provenance, UNCHANGED reqVars PROVE RightInv'
    <3>1. \A r \in Requests : Untouched(r)
      BY <2>1 DEF reqVars, Untouched
    <3> QED BY <1>1, <1>3, <2>1, <3>1, RightStep DEF RightInv
  <2>2. ASSUME NEW q \in Requests, Proceed(q) \/ \E s \in Asked : Start(q, s) PROVE RightInv'
    <3>1. Provenance /\ UNCHANGED <<dbVars, maint>>
      <4>1. UNCHANGED <<dbVars, maint>>
        BY <2>2 DEF Proceed, Start, ProbeHit, Hit, ProbeMiss, ContendHit, Join, Lead, ReadRow,
           ReadAlias, ReadBindings, ReadNothing, ReadFails, Fill, Close
      <4> QED BY <2>2, <4>1, RequestProvenance DEF HInv
    <3>2. \A r \in Requests : \/ Untouched(r) \/ WokenUp(r) \/ Proceed(r)
                              \/ \E s \in Asked : Start(r, s)
      BY <2>2, RequestEffect DEF HInv
    <3> QED BY <1>1, <1>3, <3>1, <3>2, RightStep DEF RightInv
  <2> QED BY <1>1, <1>3, <2>1, <2>2, WriteProvenance, ExpireProvenance, MaintainProvenance
          DEF Next, HInv
<1> QED BY <1>1, <1>2, <1>3

LEMMA RightInit == MCInit => HInv
<1> SUFFICES ASSUME MCInit PROVE HInv
  OBVIOUS
<1>1. IInv
  BY IInvInit DEF MCInit
<1>2. RightInv
  BY DEF MCInit, Init, RightInv
<1> QED BY <1>1, <1>2 DEF HInv

\* A request that hits the cache or asks the database itself gets an answer the
\* database gave at some moment of its lookup, whatever writes, fills and flights
\* interleave with it: loadThrough never brings back a row that a finished write
\* has replaced, deleted or renamed.
THEOREM OwnAnswersRightAlways == MCSpec => []OwnAnswersRight
<1>1. HInv => OwnAnswersRight
  <2> SUFFICES ASSUME HInv, NEW r \in Requests, ~joined[r] PROVE AnswerRight(r)
    BY DEF OwnAnswersRight
  <2> QED BY DEF HInv, RightInv, RightVal, AnswerRight
<1> QED BY <1>1, RightInit, RightNext, PTL DEF MCSpec

-----------------------------------------------------------------------------
(* Flights *)

Leading == {"read", "bind", "fill", "close"}

\* A leader's generation is never ahead, so that one that has fallen behind stays so.
NotAhead == \A r \in Requests : pc[r] \in Leading => baseGen[r] <= gen[slot[r][1]]
FInv == TInv /\ FlightsAreLed /\ NotAhead

USE DEF Leads, Leading

\* What a step of a request that neither leads nor waits leaves alone.
LEMMA BystanderSafe ==
  ASSUME FInv, TInv', NEW r \in Requests, ~(pc[r] \in Leading), ~(pc'[r] \in Leading), pc'[r] # "wait",
         UNCHANGED <<gen, inflight, base, baseGen, on>>,
         \A q \in Requests : q # r => pc'[q] = pc[q] /\ slot'[q] = slot[q]
  PROVE  FInv'
<1>1. \A q \in Requests : pc'[q] \in Leading => q # r /\ pc[q] \in Leading
  OBVIOUS
<1>2. \A q \in Requests : pc[q] \in Leading => q # r /\ pc'[q] \in Leading
  OBVIOUS
<1>3. NotAhead'
  BY <1>1 DEF FInv, NotAhead
<1>4. ASSUME NEW s \in Lookups, inflight[s] # NoRequest PROVE pc'[inflight[s]] \in Leading /\ slot'[inflight[s]] = s
  <2>1. inflight[s] \in Requests /\ pc[inflight[s]] \in Leading /\ slot[inflight[s]] = s
    BY <1>4 DEF FInv, FlightsAreLed, TInv, TypeOK
  <2> QED BY <1>2, <2>1
<1>5. ASSUME NEW q \in Requests, pc'[q] \in Leading, slot'[q][1] = "aliases" => baseGen[q] = gen["aliases"]
      PROVE  inflight[slot'[q]] = q
  BY <1>1, <1>5 DEF FInv, FlightsAreLed
<1>6. ASSUME NEW q \in Requests, pc'[q] = "wait" PROVE pc'[on[q]] \in Leading /\ slot'[on[q]] = slot'[q]
  <2>1. q # r /\ pc[on[q]] \in Leading /\ slot[on[q]] = slot[q] /\ on[q] \in Requests
    BY <1>6 DEF FInv, FlightsAreLed, TInv, TypeOK
  <2> QED BY <1>2, <2>1
<1> QED BY <1>3, <1>4, <1>5, <1>6 DEF FInv, FlightsAreLed

\* A leader that stays one.
LEMMA LeaderSafe ==
  ASSUME FInv, TInv', NEW r \in Requests, pc[r] \in Leading, pc'[r] \in Leading,
         UNCHANGED <<gen, inflight, slot, base, baseGen, on>>,
         \A q \in Requests : q # r => pc'[q] = pc[q]
  PROVE  FInv'
<1>1. \A q \in Requests : pc'[q] \in Leading <=> pc[q] \in Leading
  OBVIOUS
<1>2. \A q \in Requests : pc'[q] = "wait" <=> pc[q] = "wait"
  OBVIOUS
<1>3. \A q \in Requests : on[q] \in Requests
  BY DEF FInv, TInv, TypeOK
<1>4. \A s \in Lookups : inflight[s] # NoRequest => inflight[s] \in Requests
  BY DEF FInv, TInv, TypeOK
<1> QED BY <1>1, <1>2, <1>3, <1>4 DEF FInv, FlightsAreLed, NotAhead

LEMMA FlightInit == Init => FInv
<1> SUFFICES ASSUME Init PROVE FInv
  OBVIOUS
<1>1. TInv
  BY TypeInit
<1> QED BY <1>1 DEF Init, FInv, FlightsAreLed, NotAhead

LEMMA FlightRequest ==
  ASSUME FInv, TInv', NEW r \in Requests, Proceed(r) \/ \E s \in Asked : Start(r, s)
  PROVE  FInv'
<1> USE DEF cacheVars
<1>0. pc \in [Requests -> PCs] /\ slot \in [Requests -> Lookups \union {NoLookup}]
  BY DEF FInv, TInv, TypeOK
<1>1. CASE \E s \in Asked : Start(r, s)
  <2>1. /\ ~(pc[r] \in Leading) /\ ~(pc'[r] \in Leading) /\ pc'[r] # "wait" /\ UNCHANGED <<gen, inflight, base, baseGen, on>>
        /\ \A q \in Requests : q # r => pc'[q] = pc[q] /\ slot'[q] = slot[q]
    BY <1>0, <1>1 DEF Start
  <2> QED BY <2>1, BystanderSafe
<1>2. CASE ProbeHit(r) \/ ProbeMiss(r) \/ ContendHit(r)
  <2>1. /\ ~(pc[r] \in Leading) /\ ~(pc'[r] \in Leading) /\ pc'[r] # "wait" /\ UNCHANGED <<gen, inflight, base, baseGen, on>>
        /\ \A q \in Requests : q # r => pc'[q] = pc[q] /\ slot'[q] = slot[q]
    BY <1>0, <1>2 DEF ProbeHit, ProbeMiss, ContendHit, Hit
  <2> QED BY <2>1, BystanderSafe
<1>3. CASE ReadRow(r) \/ ReadAlias(r) \/ ReadBindings(r) \/ ReadNothing(r) \/ ReadFails(r) \/ Fill(r)
  <2>1. /\ pc[r] \in Leading /\ pc'[r] \in Leading /\ UNCHANGED <<gen, inflight, slot, base, baseGen, on>>
        /\ \A q \in Requests : q # r => pc'[q] = pc[q]
    BY <1>0, <1>3 DEF ReadRow, ReadAlias, ReadBindings, ReadNothing, ReadFails, Fill
  <2> QED BY <2>1, LeaderSafe
<1>4. CASE Join(r)
  <2>1. /\ pc[r] = "contend" /\ inflight[slot[r]] # NoRequest /\ on' = [on EXCEPT ![r] = inflight[slot[r]]]
        /\ pc' = [pc EXCEPT ![r] = "wait"] /\ UNCHANGED <<gen, inflight, slot, base, baseGen>>
    BY <1>4 DEF Join
  <2>2. slot[r] \in Lookups /\ inflight[slot[r]] \in Requests
    BY <2>1 DEF FInv, TInv, TypeOK
  <2>3. \A q \in Requests : pc'[q] \in Leading <=> pc[q] \in Leading
    BY <1>0, <2>1
  <2>4. ASSUME NEW q \in Requests, pc'[q] = "wait" PROVE pc'[on'[q]] \in Leading /\ slot[on'[q]] = slot[q]
    <3>1. CASE q = r
      <4>1. on'[q] = inflight[slot[r]]
        BY <2>1, <3>1 DEF FInv, TInv, TypeOK
      <4> QED BY <2>1, <2>2, <2>3, <3>1, <4>1 DEF FInv, FlightsAreLed
    <3>2. CASE q # r
      <4>1. on'[q] = on[q] /\ pc[q] = "wait" /\ on[q] \in Requests
        BY <1>0, <2>1, <2>4, <3>2 DEF FInv, TInv, TypeOK
      <4> QED BY <2>3, <4>1 DEF FInv, FlightsAreLed
    <3> QED BY <3>1, <3>2
  <2>5. \A s \in Lookups : inflight[s] # NoRequest => inflight[s] \in Requests
    BY DEF FInv, TInv, TypeOK
  <2>6. FlightsAreLed'
    BY <2>1, <2>3, <2>4, <2>5 DEF FInv, FlightsAreLed
  <2> QED BY <2>1, <2>3, <2>6 DEF FInv, NotAhead
<1>5. CASE Lead(r)
  <2>1. /\ pc[r] = "contend" /\ inflight[slot[r]] = NoRequest /\ inflight' = [inflight EXCEPT ![slot[r]] = r]
        /\ baseGen' = [baseGen EXCEPT ![r] = gen[slot[r][1]]]
        /\ pc' = [pc EXCEPT ![r] = "read"] /\ UNCHANGED <<gen, slot, on>>
    BY <1>5 DEF Lead
  <2>2. slot[r] \in Lookups /\ ~(pc[r] \in Leading) /\ pc'[r] = "read" /\ pc'[r] \in Leading
    BY <1>0, <2>1 DEF FInv, TInv, TypeOK
  <2>3. \A q \in Requests : q # r => (pc'[q] \in Leading <=> pc[q] \in Leading) /\ baseGen'[q] = baseGen[q] /\ pc'[q] = pc[q]
    BY <1>0, <2>1 DEF Leads, FInv, TInv, TypeOK
  <2>4. inflight'[slot[r]] = r /\ \A s \in Lookups : s # slot[r] => inflight'[s] = inflight[s]
    BY <2>1, <2>2 DEF FInv, TInv, TypeOK
  <2>5. baseGen'[r] = gen[slot[r][1]] /\ gen[slot[r][1]] \in Nat
    BY <2>1, <2>2 DEF FInv, TInv, TypeOK, Lookups, Spaces
  <2>6. ASSUME NEW s \in Lookups, inflight'[s] # NoRequest
        PROVE  pc'[inflight'[s]] \in Leading /\ slot'[inflight'[s]] = s
    <3>1. CASE s = slot[r]
      BY <2>1, <2>2, <2>4, <3>1
    <3>2. CASE s # slot[r]
      <4>1. inflight'[s] = inflight[s] /\ inflight[s] \in Requests /\ pc[inflight[s]] \in Leading /\ slot[inflight[s]] = s
        BY <2>4, <2>6, <3>2 DEF FInv, FlightsAreLed, TInv, TypeOK
      <4> QED BY <2>1, <2>2, <2>3, <4>1
    <3> QED BY <3>1, <3>2
  <2>7. ASSUME NEW q \in Requests, pc'[q] \in Leading, slot'[q][1] = "aliases" => baseGen'[q] = gen'["aliases"]
        PROVE  inflight'[slot'[q]] = q
    <3>1. CASE q = r
      BY <2>1, <2>4, <3>1
    <3>2. CASE q # r
      <4>1. pc[q] \in Leading /\ inflight[slot[q]] = q
        BY <2>1, <2>3, <2>7, <3>2 DEF FInv, FlightsAreLed
      <4>2. slot[q] # slot[r] /\ slot[q] \in Lookups
        BY <2>1, <4>1 DEF FInv, TInv, TypeOK
      <4> QED BY <2>1, <2>4, <4>1, <4>2
    <3> QED BY <3>1, <3>2
  <2>8. ASSUME NEW q \in Requests, pc'[q] = "wait" PROVE pc'[on'[q]] \in Leading /\ slot'[on'[q]] = slot'[q]
    <3>1. q # r /\ pc[on[q]] \in Leading /\ slot[on[q]] = slot[q] /\ on[q] \in Requests
      BY <2>2, <2>3, <2>8 DEF FInv, FlightsAreLed, TInv, TypeOK
    <3> QED BY <2>1, <2>2, <2>3, <3>1
  <2>9. NotAhead'
    BY <2>1, <2>2, <2>3, <2>5 DEF FInv, NotAhead
  <2> QED BY <2>6, <2>7, <2>8, <2>9 DEF FInv, FlightsAreLed
<1>6. CASE Close(r)
  <2>1. /\ pc[r] = "close" /\ pc[r] \in Leading
        /\ inflight' = [inflight EXCEPT ![slot[r]] = IF @ = r THEN NoRequest ELSE @]
        /\ baseGen' = [baseGen EXCEPT ![r] = 0] /\ UNCHANGED <<gen, slot>>
    BY <1>6 DEF Close, Withdraw
  <2>2. slot[r] \in Lookups
    BY <2>1 DEF FInv, TInv, TypeOK
  <2>3. ASSUME NEW q \in Requests
        PROVE  /\ pc'[q] \in Leading => q # r /\ pc[q] \in Leading /\ baseGen'[q] = baseGen[q]
               /\ pc[q] \in Leading /\ q # r => pc'[q] \in Leading
               /\ pc'[q] = "wait" => pc[q] = "wait" /\ on[q] # r /\ on'[q] = on[q]
    BY <1>0, <1>6, <2>1 DEF Close, Woken, FInv, TInv, TypeOK
  <2>4. ASSUME NEW s \in Lookups PROVE inflight'[s] = IF s = slot[r] /\ inflight[s] = r THEN NoRequest ELSE inflight[s]
    BY <2>1, <2>2 DEF FInv, TInv, TypeOK
  <2>5. ASSUME NEW s \in Lookups, inflight'[s] # NoRequest
        PROVE  pc'[inflight'[s]] \in Leading /\ slot'[inflight'[s]] = s
    <3>1. inflight'[s] = inflight[s] /\ inflight[s] \in Requests /\ pc[inflight[s]] \in Leading /\ slot[inflight[s]] = s
      BY <2>4, <2>5 DEF FInv, FlightsAreLed, TInv, TypeOK
    <3>2. inflight[s] # r
      BY <2>4, <2>5, <3>1
    <3> QED BY <2>1, <2>3, <3>1, <3>2
  <2>6. ASSUME NEW q \in Requests, pc'[q] \in Leading, slot'[q][1] = "aliases" => baseGen'[q] = gen'["aliases"]
        PROVE  inflight'[slot'[q]] = q
    <3>1. q # r /\ pc[q] \in Leading /\ inflight[slot[q]] = q
      BY <2>1, <2>3, <2>6 DEF FInv, FlightsAreLed
    <3>2. slot[q] \in Lookups
      BY <3>1 DEF FInv, TInv, TypeOK
    <3> QED BY <2>1, <2>4, <3>1, <3>2
  <2>7. ASSUME NEW q \in Requests, pc'[q] = "wait" PROVE pc'[on'[q]] \in Leading /\ slot'[on'[q]] = slot'[q]
    <3>1. on'[q] = on[q] /\ on[q] # r /\ pc[on[q]] \in Leading /\ slot[on[q]] = slot[q] /\ on[q] \in Requests
      BY <2>3, <2>7 DEF FInv, FlightsAreLed, TInv, TypeOK
    <3> QED BY <2>1, <2>3, <3>1
  <2>8. NotAhead'
    BY <2>1, <2>3 DEF FInv, NotAhead
  <2> QED BY <2>5, <2>6, <2>7, <2>8 DEF FInv, FlightsAreLed
<1> QED BY <1>1, <1>2, <1>3, <1>4, <1>5, <1>6 DEF Proceed

\* Maintenance raises generations, and clears the flights of aliases with one.
LEMMA FlightMaintain == ASSUME FInv, TInv', Maintain PROVE FInv'
<1> USE DEF reqVars
<1>1. UNCHANGED <<pc, slot, baseGen, on>>
  BY DEF Maintain, StoreKey, EvictKey, EvictUpstream, EvictAliasByID, EvictAliasByName
<1>2. \A q \in Requests : pc'[q] \in Leading <=> pc[q] \in Leading
  BY <1>1
<1>3. gen \in [Spaces -> Nat]
  BY DEF FInv, TInv, TypeOK
<1>4. \A n \in Spaces : gen[n] <= gen'[n]
  BY <1>3 DEF Maintain, StoreKey, EvictKey, EvictUpstream, EvictAliasByID, EvictAliasByName
<1>5. \A q \in Requests : pc[q] \in Leading => slot[q] \in Lookups /\ slot[q][1] \in Spaces
  BY DEF FInv, TInv, TypeOK, Lookups, Spaces
<1>6. NotAhead'
  <2> SUFFICES ASSUME NEW q \in Requests, pc[q] \in Leading PROVE baseGen[q] <= gen'[slot[q][1]]
    BY <1>1, <1>2 DEF NotAhead
  <2>1. baseGen[q] <= gen[slot[q][1]] /\ gen[slot[q][1]] <= gen'[slot[q][1]]
    BY <1>4, <1>5 DEF FInv, NotAhead
  <2>2. baseGen[q] \in Nat /\ gen[slot[q][1]] \in Nat /\ gen'[slot[q][1]] \in Nat
    BY <1>3, <1>5 DEF FInv, TInv, TypeOK
  <2> QED BY <2>1, <2>2
<1>7. \A s \in Lookups : inflight'[s] = inflight[s] \/ (s[1] = "aliases" /\ inflight'[s] = NoRequest /\ gen'["aliases"] = gen["aliases"] + 1)
  BY <1>3 DEF Maintain, StoreKey, EvictKey, EvictUpstream, EvictAliasByID, EvictAliasByName, Spaces
<1>8. ASSUME NEW s \in Lookups, inflight'[s] # NoRequest
      PROVE  pc'[inflight'[s]] \in Leading /\ slot'[inflight'[s]] = s
  <2>1. inflight'[s] = inflight[s] /\ inflight[s] \in Requests /\ pc[inflight[s]] \in Leading /\ slot[inflight[s]] = s
    BY <1>7, <1>8 DEF FInv, FlightsAreLed, TInv, TypeOK
  <2> QED BY <1>1, <1>2, <2>1
<1>9. ASSUME NEW q \in Requests, pc[q] \in Leading, slot[q][1] = "aliases" => baseGen[q] = gen'["aliases"]
      PROVE  inflight'[slot[q]] = q
  <2>1. slot[q] \in Lookups
    BY <1>5, <1>9
  <2>2. CASE slot[q][1] # "aliases"
    BY <1>7, <1>9, <2>1, <2>2 DEF FInv, FlightsAreLed
  <2>3. CASE slot[q][1] = "aliases"
    <3>1. baseGen[q] <= gen["aliases"] /\ gen["aliases"] <= gen'["aliases"] /\ baseGen[q] = gen'["aliases"]
      BY <1>4, <1>9, <2>3 DEF FInv, NotAhead, Spaces
    <3>2. gen["aliases"] \in Nat /\ gen'["aliases"] \in Nat
      BY <1>3 DEF TInv, TypeOK, Spaces
    <3>3. baseGen[q] = gen["aliases"] /\ gen'["aliases"] # gen["aliases"] + 1
      BY <3>1, <3>2
    <3> QED BY <1>7, <1>9, <2>1, <3>3 DEF FInv, FlightsAreLed
  <2> QED BY <2>2, <2>3
<1>10. ASSUME NEW q \in Requests, pc'[q] = "wait" PROVE pc'[on'[q]] \in Leading /\ slot'[on'[q]] = slot'[q]
  <2>1. on[q] \in Requests
    BY DEF FInv, TInv, TypeOK
  <2> QED BY <1>1, <1>2, <1>10, <2>1 DEF FInv, FlightsAreLed
<1> QED BY <1>1, <1>2, <1>6, <1>8, <1>9, <1>10 DEF FInv, FlightsAreLed

LEMMA FlightNext == FInv /\ [Next]_vars => FInv'
<1> SUFFICES ASSUME FInv, [Next]_vars PROVE FInv'
  OBVIOUS
<1>1. TInv'
  BY TypeNext DEF FInv
<1>2. ASSUME UNCHANGED <<gen, inflight, pc, slot, baseGen, on>> PROVE FInv'
  <2>1. \A q \in Requests : pc'[q] \in Leading <=> pc[q] \in Leading
    BY <1>2
  <2>2. \A q \in Requests : on[q] \in Requests
    BY DEF FInv, TInv, TypeOK
  <2>3. \A s \in Lookups : inflight[s] # NoRequest => inflight[s] \in Requests
    BY DEF FInv, TInv, TypeOK
  <2> QED BY <1>1, <1>2, <2>1, <2>2, <2>3 DEF FInv, FlightsAreLed, NotAhead
<1>3. CASE Write
  <2>1. ASSUME NEW k \in KeyIds, CreateExtKey(k) \/ UpdateExtKey(k) \/ DeleteExtKey(k) PROVE FInv'
    BY <1>2, <2>1 DEF CreateExtKey, UpdateExtKey, DeleteExtKey, Commit, cacheVars, reqVars
  <2>2. ASSUME NEW i \in UpIds, NEW n \in Names, NEW e \in BOOLEAN, CreateUpstream(i, n, e) \/ UpdateUpstream(i, n, e)
        PROVE  FInv'
    BY <1>2, <2>2 DEF CreateUpstream, UpdateUpstream, Commit, cacheVars, reqVars
  <2>3. ASSUME NEW i \in UpIds, DeleteUpstream(i) PROVE FInv'
    BY <1>2, <2>3 DEF DeleteUpstream, Commit, cacheVars, reqVars
  <2>4. ASSUME NEW a \in AliasIds, NEW n \in Names, NEW B \in SUBSET UpIds, CreateAlias(a, n, B) \/ UpdateAlias(a, n, B)
        PROVE  FInv'
    BY <1>2, <2>4 DEF CreateAlias, UpdateAlias, Commit, cacheVars, reqVars
  <2>5. ASSUME NEW a \in AliasIds, DeleteAlias(a) PROVE FInv'
    BY <1>2, <2>5 DEF DeleteAlias, Commit, cacheVars, reqVars
  <2> QED BY <1>3, <2>1, <2>2, <2>3, <2>4, <2>5 DEF Write
<1>4. CASE \E s \in Lookups : Expire(s)
  BY <1>2, <1>4 DEF Expire, reqVars
<1>5. CASE UNCHANGED vars
  BY <1>2, <1>5 DEF vars, cacheVars, reqVars
<1> QED BY <1>1, <1>3, <1>4, <1>5, FlightMaintain, FlightRequest DEF Next

\* Every flight that can be joined is led by a request at work on its lookup, and every
\* waiter's leader is still at work: nobody waits for a flight that no one will close.
THEOREM FlightsAreLedAlways == Spec => []FlightsAreLed
<1>1. FInv => FlightsAreLed
  BY DEF FInv
<1> QED BY <1>1, FlightInit, FlightNext, PTL DEF Spec
=============================================================================
