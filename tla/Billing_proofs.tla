--------------------------- MODULE Billing_proofs ---------------------------
(***************************************************************************)
(* Proofs about Billing, for any processes, actors, upstreams, vendors,    *)
(* currencies and bounds: the ledger grows in the order of the vendor's    *)
(* answers, each snapshot has the bills it owes, nothing is billed twice,  *)
(* and the database is closed when no write is under way.                  *)
(***************************************************************************)
EXTENDS Billing, FiniteSetTheorems, Sums, TLAPS

-----------------------------------------------------------------------------
(* What the helpers yield *)

LEMMA HomeIn == ASSUME NEW a \in Actors PROVE Home(a) \in Procs
BY BillingAssumption DEF Home

\* A finite set of rows has one with the highest id: the later rows of a row that has
\* as few of them as can be are none.
LEMMA NewestIs ==
  ASSUME NEW E, IsFiniteSet(E), E # {}, \A o \in E : o.id \in Nat
  PROVE  Newest(E) \in E /\ \A x \in E : x.id <= Newest(E).id
<1> DEFINE Higher(x) == {y \in E : x.id < y.id}
           T == {Higher(x) : x \in E}
<1>1. T \subseteq FiniteSubsetsOf(E)
  <2>1. T \subseteq SUBSET E
    OBVIOUS
  <2>2. FiniteSubsetsOf(E) = SUBSET E
    BY FS_FiniteSubsetsOfFinite
  <2> QED BY <2>1, <2>2
<1>2. T # {}
  OBVIOUS
<1>3. IsWellFoundedOn(StrictSubsetOrdering(E), FiniteSubsetsOf(E))
  BY FS_StrictSubsetOrderingWellFounded
<1>4. PICK L \in T : \A K \in T : ~(<<K, L>> \in StrictSubsetOrdering(E))
  <2> HIDE DEF T
  <2> QED BY <1>1, <1>2, <1>3, WFMin
<1>5. PICK m \in E : L = Higher(m)
  OBVIOUS
<1>6. \A x \in E : x.id <= m.id
  <2> SUFFICES ASSUME NEW x \in E, m.id < x.id PROVE FALSE
    OBVIOUS
  <2>1. Higher(x) \in T /\ Higher(x) \subseteq Higher(m)
    OBVIOUS
  <2>2. x \in Higher(m) /\ x \notin Higher(x)
    OBVIOUS
  <2>3. <<Higher(x), Higher(m)>> \in StrictSubsetOrdering(E)
    <3> HIDE DEF T
    <3>1. Higher(x) \in SUBSET E /\ Higher(m) \in SUBSET E /\ Higher(x) # Higher(m)
      BY <2>2
    <3> HIDE DEF Higher
    <3> QED BY <3>1, <2>1 DEF StrictSubsetOrdering
  <2> QED BY <1>4, <1>5, <2>1, <2>3
<1> HIDE DEF T, Higher
<1> QED BY <1>6 DEF Newest

\* The snapshot before is one of those there are.
LEMMA BaselineIs ==
  ASSUME NEW S, IsFiniteSet(S), S \subseteq Snapshots, NEW s, Earlier(S, s) # {}
  PROVE  Baseline(S, s) \in S
<1>1. IsFiniteSet(Earlier(S, s)) /\ Earlier(S, s) \subseteq S
  BY FS_Subset DEF Earlier
<1>2. \A o \in Earlier(S, s) : o.id \in Nat
  BY <1>1 DEF Snapshots
<1> QED BY <1>1, <1>2, NewestIs DEF Baseline

\* What is billed depends on the earlier snapshots of the upstream alone.
LEMMA SameBills ==
  ASSUME NEW S, NEW R, NEW s, Earlier(S, s) = Earlier(R, s)
  PROVE  recordBillFromBalanceDelta(S, s) = recordBillFromBalanceDelta(R, s)
<1>1. Baseline(S, s) = Baseline(R, s)
  BY DEF Baseline
<1> QED BY <1>1 DEF recordBillFromBalanceDelta

\* A snapshot of another upstream, or a later one, changes nothing of what one bills.
LEMMA OthersBillsSame ==
  ASSUME NEW S, NEW n, NEW s, n.up # s.up \/ ~(n.id < s.id)
  PROVE  recordBillFromBalanceDelta(S \union {n}, s) = recordBillFromBalanceDelta(S, s)
<1>1. Earlier(S \union {n}, s) = Earlier(S, s)
  BY DEF Earlier
<1> QED BY <1>1, SameBills

\* The bills are rows of their table, numbered with the snapshot.
LEMMA BillsAreRows ==
  ASSUME NEW S, IsFiniteSet(S), S \subseteq Snapshots, NEW s \in Snapshots
  PROVE  /\ recordBillFromBalanceDelta(S, s) \subseteq BillRows
         /\ \A b \in recordBillFromBalanceDelta(S, s) : b.snap = s.id
<1> DEFINE o == Baseline(S, s)
<1>1. CASE Earlier(S, s) = {} \/ ~Comparable(o, s)
  BY <1>1 DEF recordBillFromBalanceDelta
<1>2. CASE Earlier(S, s) # {} /\ Comparable(o, s)
  <2>1. o \in Snapshots
    BY <1>2, BaselineIs
  <2> HIDE DEF o
  <2>2. ASSUME NEW c \in Fallen(o, s)
        PROVE  BillFor(o, s, c) \in BillRows /\ BillFor(o, s, c).snap = s.id
    <3>1. c \in Currencies /\ o.totals[c] \in Nat /\ s.totals[c] \in Nat /\ o.totals[c] > s.totals[c]
      BY <2>1, <2>2 DEF Fallen, Amount, Snapshots, Amounts
    <3>2. o.totals[c] - s.totals[c] \in Nat \ {0}
      BY <3>1
    <3>3. s.id \in Nat /\ s.up \in Upstreams /\ s.vendor \in Vendors
      BY DEF Snapshots
    <3> QED BY <3>1, <3>2, <3>3 DEF BillFor, BillRows, Amount
  <2>3. recordBillFromBalanceDelta(S, s) = {BillFor(o, s, c) : c \in Fallen(o, s)}
    BY <1>2 DEF recordBillFromBalanceDelta, o
  <2> QED BY <2>2, <2>3
<1> QED BY <1>1, <1>2

-----------------------------------------------------------------------------
(* Types *)

Places == {"idle", "ended", "next", "lock", "fetch", "send", "queued", "write", "unlock"}
TxRows == [snap : Snapshots, bills : SUBSET BillRows, actor : Actors]

\* TypeOK with what it needs to be inductive: the variables are functions on their
\* domains, a transaction is of an actor of its process, the snapshots are finitely
\* many, and the ids of all of them, of open transactions too, have been given out.
WorldTyped ==
  /\ dialect \in {"sqlite", "shared"}
  /\ phase \in [Procs -> {"up", "stopping", "draining", "closed", "down"}]
  /\ rows \in [Upstreams -> [vendor : Vendors \union {Nothing}, on : BOOLEAN]]
  /\ wallet \in [Vendors -> [Currencies -> Nat]] /\ spent \in [Vendors -> [Currencies -> Nat]]
  /\ clock \in [Vendors -> Nat]
RefreshTyped ==
  /\ mutex \in [Procs -> [Upstreams -> Actors \union {Nothing}]]
  /\ lock \in [Upstreams -> Actors \union {Nothing}]
  /\ pc \in [Actors -> Places]
  /\ todo \in [Actors -> SUBSET RowsRead]
  /\ at \in [Actors -> RowsRead \union {NoRow}]
  /\ reading \in [Actors -> Readings \union {Nothing}]
LedgerTyped ==
  /\ tx \in [Procs -> TxRows \union {NoTx}]
  /\ snaps \subseteq Snapshots /\ bills \subseteq BillRows /\ nextId \in Nat
  /\ IsFiniteSet(snaps)
Held ==
  \A a \in Actors : HasMutex(a) => at[a] \in RowsRead /\ mutex[Home(a)][at[a].up] = a
Answered ==
  \A a \in Actors : pc[a] \in {"send", "queued", "write"} => reading[a] \in Readings
Opened ==
  /\ \A a \in Actors : pc[a] = "write" <=> tx[Home(a)].actor = a
  /\ \A p \in Procs : tx[p] # NoTx => Home(tx[p].actor) = p
Numbered ==
  /\ \A s \in snaps : s.id < nextId
  /\ \A p \in Procs : tx[p] # NoTx => tx[p].snap.id < nextId
Typed == WorldTyped /\ RefreshTyped /\ LedgerTyped /\ Held /\ Answered /\ Opened /\ Numbered

LEMMA TypedIsTypeOK == Typed => TypeOK
BY DEF Typed, WorldTyped, RefreshTyped, LedgerTyped, Held, Answered, Opened, Numbered, TypeOK, Places

\* A transaction that is open has a snapshot and an actor.
LEMMA OpenTx ==
  ASSUME LedgerTyped, NEW p \in Procs, tx[p] # NoTx
  PROVE  /\ tx[p] \in TxRows /\ tx[p].actor \in Actors
         /\ tx[p].snap \in Snapshots /\ tx[p].bills \subseteq BillRows
BY DEF LedgerTyped, TxRows

LEMMA NoActorInNoTx == NoTx.actor \notin Actors /\ NoTx \notin TxRows
BY BillingAssumption DEF NoTx, TxRows

LEMMA TypedInit == Init => Typed
<1> SUFFICES ASSUME Init PROVE Typed
  OBVIOUS
<1>1. WorldTyped
  BY BillingAssumption DEF Init, WorldTyped, Vendors
<1>2. RefreshTyped
  BY DEF Init, RefreshTyped, Places
<1>3. LedgerTyped
  BY FS_EmptySet DEF Init, LedgerTyped
<1>4. Held /\ Answered
  BY DEF Init, Held, Answered, HasMutex
<1>5. Opened
  BY HomeIn, NoActorInNoTx DEF Init, Opened
<1>6. Numbered
  BY DEF Init, Numbered
<1> QED BY <1>1, <1>2, <1>3, <1>4, <1>5, <1>6 DEF Typed

\* What the world does changes nothing of the refreshes.
LEMMA TypedWorld ==
  ASSUME Typed,
         \/ \E v \in Wallets, c \in Currencies : Spend(v, c) \/ TopUp(v, c)
         \/ \E u \in Upstreams, v \in Vendors \union {Nothing} : Repoint(u, v)
         \/ \E u \in Upstreams : Switch(u) \/ LoseSession(u)
         \/ \E p \in Procs : StopPoller(p) \/ StopWriter(p) \/ CloseDB(p) \/ Boot(p)
         \/ UNCHANGED vars
  PROVE  Typed'
<1> USE DEF Typed, world, refresh, ledger, Event, Use
<1>1. ASSUME UNCHANGED <<refresh, tx, ledger>> 
      PROVE  (RefreshTyped /\ LedgerTyped /\ Held /\ Answered /\ Opened /\ Numbered)'
  BY <1>1 DEF RefreshTyped, LedgerTyped, Held, HasMutex, Answered, Opened, Numbered
<1>2. ASSUME NEW v \in Wallets, NEW c \in Currencies, Spend(v, c) \/ TopUp(v, c) PROVE Typed'
  <2>1. v \in Vendors
    BY DEF Vendors
  <2>2. UNCHANGED <<refresh, tx, ledger, dialect, phase, rows>>
    BY <1>2 DEF Spend, TopUp
  <2>3. wallet' \in [Vendors -> [Currencies -> Nat]] /\ spent' \in [Vendors -> [Currencies -> Nat]]
    <3>1. CASE Spend(v, c)
      <4>1. wallet[v][c] - 1 \in Nat /\ spent[v][c] + 1 \in Nat
        BY <2>1, <3>1 DEF WorldTyped, Spend
      <4>2. wallet' \in [Vendors -> [Currencies -> Nat]]
        BY <2>1, <3>1, <4>1 DEF WorldTyped, Spend
      <4>3. spent' \in [Vendors -> [Currencies -> Nat]]
        BY <2>1, <3>1, <4>1 DEF WorldTyped, Spend
      <4> QED BY <4>2, <4>3
    <3>2. CASE TopUp(v, c)
      BY <2>1, <3>2 DEF WorldTyped, TopUp
    <3> QED BY <1>2, <3>1, <3>2
  <2>4. clock' \in [Vendors -> Nat]
    BY <1>2, <2>1 DEF WorldTyped, Spend, TopUp, Tick
  <2>5. WorldTyped'
    BY <2>2, <2>3, <2>4 DEF WorldTyped
  <2> QED BY <1>1, <2>2, <2>5
<1>3. ASSUME NEW u \in Upstreams, NEW v \in Vendors \union {Nothing}, Repoint(u, v) PROVE Typed'
  <2>1. WorldTyped'
    BY <1>3 DEF WorldTyped, Repoint
  <2> QED BY <1>1, <1>3, <2>1 DEF Repoint
<1>4. ASSUME NEW u \in Upstreams, Switch(u) PROVE Typed'
  <2>1. WorldTyped'
    BY <1>4 DEF WorldTyped, Switch
  <2> QED BY <1>1, <1>4, <2>1 DEF Switch
<1>5. ASSUME NEW u \in Upstreams, LoseSession(u) PROVE Typed'
  <2>1. WorldTyped' /\ RefreshTyped'
    BY <1>5 DEF WorldTyped, RefreshTyped, LoseSession
  <2>2. (LedgerTyped /\ Held /\ Answered /\ Opened /\ Numbered)'
    BY <1>5 DEF LoseSession, LedgerTyped, Held, HasMutex, Answered, Opened, Numbered
  <2> QED BY <2>1, <2>2
<1>6. ASSUME NEW p \in Procs, StopPoller(p) \/ StopWriter(p) \/ CloseDB(p) \/ Boot(p) PROVE Typed'
  <2>1. WorldTyped'
    BY <1>6 DEF WorldTyped, StopPoller, StopWriter, CloseDB, Boot
  <2> QED BY <1>1, <1>6, <2>1 DEF StopPoller, StopWriter, CloseDB, Boot
<1>7. CASE UNCHANGED vars
  <2>1. WorldTyped'
    BY <1>7 DEF WorldTyped, vars
  <2> QED BY <1>1, <1>7, <2>1 DEF vars
<1> QED BY <1>2, <1>3, <1>4, <1>5, <1>6, <1>7

\* The steps of a refresh before its transaction.
LEMMA TypedRefresh ==
  ASSUME Typed, NEW a \in Actors,
         \/ BeginPoll(a) \/ \E u \in Upstreams : BeginRefresh(a, u)
         \/ EndPoll(a) \/ TakeMutex(a) \/ AcquireBalanceLock(a) \/ LockFails(a)
         \/ FetchBalance(a) \/ FetchFails(a) \/ Submit(a) \/ Unlock(a)
  PROVE  Typed'
<1> USE DEF Typed, world, ledger, Move
<1>1. Home(a) \in Procs
  BY HomeIn
<1>2. UNCHANGED <<dialect, phase, world, tx, ledger>>
  BY DEF BeginPoll, BeginRefresh, EndPoll, TakeMutex, AcquireBalanceLock, LockFails, FetchBalance, FetchFails, Submit, Unlock
<1>3. WorldTyped' /\ LedgerTyped' /\ Numbered'
  BY <1>2 DEF WorldTyped, LedgerTyped, Numbered
<1>4. pc[a] # "write" /\ \E place \in Places \ {"write"} : pc' = [pc EXCEPT ![a] = place]
  BY DEF BeginPoll, BeginRefresh, EndPoll, TakeMutex, AcquireBalanceLock, LockFails, FetchBalance, FetchFails, Submit, Unlock, Places
<1>5. Opened'
  BY <1>2, <1>4 DEF Opened, RefreshTyped
<1>6. pc' \in [Actors -> Places]
  BY <1>4 DEF RefreshTyped
<1>7. ASSUME RefreshTyped', Held', Answered' PROVE Typed'
  BY <1>3, <1>5, <1>7
<1>8. CASE BeginPoll(a) \/ \E u \in Upstreams : BeginRefresh(a, u)
  <2>1. todo' \in [Actors -> SUBSET RowsRead] /\ pc' = [pc EXCEPT ![a] = "next"]
    <3>1. \A u \in Listed : [up |-> u, vendor |-> rows[u].vendor, on |-> TRUE] \in RowsRead
      BY DEF WorldTyped, Listed, RowsRead
    <3>2. ASSUME NEW u \in Upstreams
          PROVE  [up |-> u, vendor |-> rows[u].vendor, on |-> rows[u].on] \in RowsRead
      BY DEF WorldTyped, RowsRead
    <3> QED BY <1>8, <3>1, <3>2 DEF BeginPoll, BeginRefresh, RefreshTyped
  <2>2. UNCHANGED <<mutex, lock, at, reading>>
    BY <1>8 DEF BeginPoll, BeginRefresh
  <2>3. RefreshTyped'
    BY <1>6, <2>1, <2>2 DEF RefreshTyped
  <2>4. Held' /\ Answered'
    BY <2>1, <2>2 DEF RefreshTyped, Held, HasMutex, Answered
  <2> QED BY <1>7, <2>3, <2>4
<1>9. CASE EndPoll(a)
  <2>1. RefreshTyped'
    BY <1>6, <1>9 DEF RefreshTyped, EndPoll
  <2>2. Held' /\ Answered'
    BY <1>9 DEF RefreshTyped, Held, HasMutex, Answered, EndPoll
  <2> QED BY <1>7, <2>1, <2>2
<1>10. CASE TakeMutex(a)
  <2>1. PICK row \in todo[a] :
          /\ mutex[Home(a)][row.up] = Nothing
          /\ mutex' = [mutex EXCEPT ![Home(a)][row.up] = a]
          /\ at' = [at EXCEPT ![a] = row]
          /\ todo' = [todo EXCEPT ![a] = @ \ {row}]
    BY <1>10 DEF TakeMutex
  <2>2. row \in RowsRead /\ row.up \in Upstreams
    BY <2>1 DEF RefreshTyped, RowsRead
  <2>3. UNCHANGED <<lock, reading>> /\ pc' = [pc EXCEPT ![a] = "lock"]
    BY <1>10 DEF TakeMutex
  <2>4. RefreshTyped'
    BY <1>1, <1>6, <2>1, <2>2, <2>3 DEF RefreshTyped
  <2>5. Held'
    <3> SUFFICES ASSUME NEW b \in Actors, HasMutex(b)'
                 PROVE  at'[b] \in RowsRead /\ mutex'[Home(b)][at'[b].up] = b
      BY DEF Held
    <3>1. CASE b = a
      BY <1>1, <2>1, <2>2, <3>1 DEF RefreshTyped
    <3>2. CASE b # a
      <4>1. HasMutex(b) /\ at'[b] = at[b]
        BY <2>1, <2>3, <3>2 DEF HasMutex, RefreshTyped
      <4>2. at[b] \in RowsRead /\ mutex[Home(b)][at[b].up] = b
        BY <4>1 DEF Held
      <4>3. ~(Home(b) = Home(a) /\ at[b].up = row.up)
        BY <2>1, <4>2, BillingAssumption
      <4>4. Home(b) \in Procs /\ at[b].up \in Upstreams
        BY <4>2, HomeIn DEF RowsRead
      <4> QED BY <2>1, <4>1, <4>2, <4>3, <4>4 DEF RefreshTyped
    <3> QED BY <3>1, <3>2
  <2>6. Answered'
    BY <2>3 DEF Answered, RefreshTyped
  <2> QED BY <1>7, <2>4, <2>5, <2>6
<1>11. CASE AcquireBalanceLock(a) \/ FetchFails(a) \/ Submit(a)
  <2>1. UNCHANGED <<mutex, todo, at, reading>>
    BY <1>11 DEF AcquireBalanceLock, FetchFails, Submit
  <2>2. lock' \in [Upstreams -> Actors \union {Nothing}]
    BY <1>11 DEF AcquireBalanceLock, FetchFails, Submit, RefreshTyped
  <2>3. RefreshTyped'
    BY <1>6, <2>1, <2>2 DEF RefreshTyped
  <2>4. \A b \in Actors : HasMutex(b)' => HasMutex(b)
    BY <1>11 DEF HasMutex, AcquireBalanceLock, FetchFails, Submit, RefreshTyped
  <2>5. Held'
    BY <2>1, <2>4 DEF Held
  <2>6. \A b \in Actors : pc'[b] \in {"send", "queued", "write"} => pc[b] \in {"send", "queued", "write"}
    BY <1>11 DEF AcquireBalanceLock, FetchFails, Submit, RefreshTyped
  <2>7. Answered'
    BY <2>1, <2>6 DEF Answered
  <2> QED BY <1>7, <2>3, <2>5, <2>7
<1>12. CASE LockFails(a) \/ Unlock(a)
  <2>1. /\ mutex' = [mutex EXCEPT ![Home(a)][at[a].up] = Nothing]
        /\ at' = [at EXCEPT ![a] = NoRow] /\ reading' = [reading EXCEPT ![a] = Nothing]
        /\ pc' = [pc EXCEPT ![a] = "next"] /\ todo' = todo
        /\ HasMutex(a)
    BY <1>12 DEF LockFails, Unlock, FreeMutex, Forget, HasMutex
  <2>2. lock' \in [Upstreams -> Actors \union {Nothing}]
    BY <1>12 DEF LockFails, Unlock, FreeLock, RefreshTyped
  <2>3. RefreshTyped'
    BY <1>6, <2>1, <2>2 DEF RefreshTyped
  <2>4. Held'
    <3> SUFFICES ASSUME NEW b \in Actors, HasMutex(b)'
                 PROVE  at'[b] \in RowsRead /\ mutex'[Home(b)][at'[b].up] = b
      BY DEF Held
    <3>1. b # a
      BY <2>1 DEF HasMutex, RefreshTyped
    <3>2. HasMutex(b) /\ at'[b] = at[b]
      BY <2>1, <3>1 DEF HasMutex, RefreshTyped
    <3>3. at[b] \in RowsRead /\ mutex[Home(b)][at[b].up] = b /\ mutex[Home(a)][at[a].up] = a
      BY <2>1, <3>2 DEF Held
    <3>4. Home(b) \in Procs /\ at[b].up \in Upstreams
      BY <3>3, HomeIn DEF RowsRead
    <3> QED BY <2>1, <3>1, <3>2, <3>3, <3>4 DEF RefreshTyped
  <2>5. Answered'
    BY <2>1 DEF Answered, RefreshTyped
  <2> QED BY <1>7, <2>3, <2>4, <2>5
<1>13. CASE FetchBalance(a)
  <2>1. PICK unread \in SUBSET Currencies :
          reading' = [reading EXCEPT ![a] = Normalized(at[a].vendor, unread)]
    BY <1>13 DEF FetchBalance
  <2>2. UNCHANGED <<mutex, lock, todo, at>> /\ pc' = [pc EXCEPT ![a] = "send"] /\ HasMutex(a)
    BY <1>13 DEF FetchBalance, HasMutex
  <2>3. at[a].vendor \in Vendors
    BY <1>13, <2>2 DEF Held, FetchBalance, Supported, RowsRead
  <2>4. Normalized(at[a].vendor, unread) \in Readings
    <3> DEFINE v == at[a].vendor
    <3> HIDE DEF v
    <3>1. [c \in Currencies |-> IF v \in QuotaVendors \/ c \in unread THEN Bad ELSE wallet[v][c]] \in [Currencies -> Amounts]
      BY <2>3 DEF v, WorldTyped, Amounts
    <3>2. clock[v] \in Nat /\ v \in Vendors
      BY <2>3 DEF v, WorldTyped
    <3>3. Normalized(v, unread) \in Readings
      BY <3>1, <3>2 DEF Normalized, Readings
    <3> QED BY <3>3 DEF v
  <2>5. RefreshTyped'
    BY <1>6, <2>1, <2>2, <2>4 DEF RefreshTyped
  <2>6. Held'
    BY <2>2 DEF Held, HasMutex, RefreshTyped
  <2>7. Answered'
    BY <2>1, <2>2, <2>4 DEF Answered, RefreshTyped
  <2> QED BY <1>7, <2>5, <2>6, <2>7
<1> QED BY <1>8, <1>9, <1>10, <1>11, <1>12, <1>13

\* The transaction of a refresh.
LEMMA TypedRecord ==
  ASSUME Typed, NEW a \in Actors, RecordBalanceSnapshot(a)
  PROVE  Typed'
<1> USE DEF Typed, world
<1> DEFINE p == Home(a)
           s == [id |-> nextId, up |-> at[a].up, kind |-> reading[a].kind,
                 vendor |-> reading[a].vendor, totals |-> reading[a].totals, age |-> reading[a].age]
           t == [snap |-> s, bills |-> recordBillFromBalanceDelta(snaps, s), actor |-> a]
<1>1. /\ pc[a] = "queued" /\ tx[p] = NoTx /\ tx' = [tx EXCEPT ![p] = t]
      /\ nextId' = nextId + 1 /\ pc' = [pc EXCEPT ![a] = "write"]
      /\ UNCHANGED <<dialect, phase, rows, wallet, spent, clock, mutex, lock, todo, at, reading, snaps, bills>>
  BY DEF RecordBalanceSnapshot, Move
<1>2. p \in Procs
  BY HomeIn
<1>3. at[a] \in RowsRead /\ reading[a] \in Readings
  BY <1>1 DEF Held, Answered, HasMutex
<1>4. s \in Snapshots /\ s.id = nextId
  BY <1>3 DEF RowsRead, Readings, Snapshots, LedgerTyped
<1>5. t \in TxRows /\ t.actor = a /\ t.snap.id = nextId
  <2>1. recordBillFromBalanceDelta(snaps, s) \subseteq BillRows
    BY <1>4, BillsAreRows DEF LedgerTyped
  <2> HIDE DEF s
  <2> QED BY <1>4, <2>1 DEF TxRows
<1> HIDE DEF s, t, p
<1>6. WorldTyped'
  BY <1>1 DEF WorldTyped
<1>7. RefreshTyped'
  BY <1>1 DEF RefreshTyped, Places
<1>8. LedgerTyped'
  BY <1>1, <1>2, <1>5 DEF LedgerTyped
<1>9. Held' /\ Answered'
  BY <1>1 DEF RefreshTyped, Held, Answered, HasMutex
<1>10. Opened'
  <2>1. ASSUME NEW b \in Actors PROVE pc'[b] = "write" <=> tx'[Home(b)].actor = b
    <3>1. Home(b) \in Procs
      BY HomeIn
    <3>2. pc[b] = "write" <=> tx[Home(b)].actor = b
      BY DEF Opened
    <3>3. CASE b = a
      BY <1>1, <1>2, <1>5, <3>3 DEF RefreshTyped, LedgerTyped, p
    <3>4. CASE b # a /\ Home(b) = p
      <4>1. pc[b] # "write"
        BY <1>1, <3>2, <3>4, NoActorInNoTx
      <4> QED BY <1>1, <1>2, <1>5, <3>4, <4>1 DEF RefreshTyped, LedgerTyped
    <3>5. CASE b # a /\ Home(b) # p
      BY <1>1, <3>1, <3>2, <3>5 DEF RefreshTyped, LedgerTyped
    <3> QED BY <3>3, <3>4, <3>5
  <2>2. ASSUME NEW q \in Procs, tx'[q] # NoTx PROVE Home(tx'[q].actor) = q
    BY <1>1, <1>5, <2>2 DEF LedgerTyped, Opened, p
  <2> QED BY <2>1, <2>2 DEF Opened
<1>11. Numbered'
  <2>1. nextId \in Nat /\ \A x \in snaps : x.id \in Nat
    BY DEF LedgerTyped, Snapshots
  <2>2. \A x \in snaps' : x.id < nextId'
    BY <1>1, <2>1 DEF Numbered
  <2>3. ASSUME NEW q \in Procs, tx'[q] # NoTx PROVE tx'[q].snap.id < nextId'
    <3>1. CASE q = p
      BY <1>1, <1>5, <2>1, <3>1 DEF LedgerTyped
    <3>2. CASE q # p
      <4>1. tx'[q] = tx[q] /\ tx[q] # NoTx
        BY <1>1, <2>3, <3>2 DEF LedgerTyped
      <4>2. tx[q].snap.id \in Nat
        BY <4>1, OpenTx DEF Snapshots
      <4> QED BY <1>1, <2>1, <4>1, <4>2 DEF Numbered
    <3> QED BY <3>1, <3>2
  <2> QED BY <2>2, <2>3 DEF Numbered
<1> QED BY <1>6, <1>7, <1>8, <1>9, <1>10, <1>11

\* Whoever writes has the transaction of its process open.
LEMMA WriterHasTx ==
  ASSUME Typed, NEW a \in Actors, pc[a] = "write"
  PROVE  /\ Home(a) \in Procs /\ tx[Home(a)] # NoTx
         /\ tx[Home(a)].actor = a /\ tx[Home(a)].snap \in Snapshots /\ tx[Home(a)].bills \subseteq BillRows
<1>1. Home(a) \in Procs /\ tx[Home(a)].actor = a
  BY HomeIn DEF Typed, Opened
<1>2. tx[Home(a)] # NoTx
  BY <1>1, NoActorInNoTx
<1> QED BY <1>1, <1>2, OpenTx DEF Typed

\* What a transaction leaves in the ledger, if anything.
LEMMA LedgerKept ==
  ASSUME Typed, NEW p \in Procs, tx[p] # NoTx, Kept(tx[p])
  PROVE  /\ snaps' \subseteq Snapshots /\ bills' \subseteq BillRows /\ IsFiniteSet(snaps')
         /\ \A x \in snaps' : x.id < nextId
<1>1. tx[p].snap \in Snapshots /\ tx[p].bills \subseteq BillRows /\ tx[p].snap.id < nextId
  BY OpenTx DEF Typed, Numbered
<1>2. IsFiniteSet(snaps \union {tx[p].snap})
  BY FS_AddElement DEF Typed, LedgerTyped
<1> QED BY <1>1, <1>2 DEF Typed, LedgerTyped, Numbered, Kept

LEMMA TypedEnd ==
  ASSUME Typed, NEW a \in Actors, Commit(a) \/ Rollback(a)
  PROVE  Typed'
<1> USE DEF Typed, world
<1> DEFINE p == Home(a)
<1>1. /\ pc[a] = "write" /\ tx' = [tx EXCEPT ![p] = NoTx] /\ pc' = [pc EXCEPT ![a] = "unlock"]
      /\ UNCHANGED <<dialect, phase, rows, wallet, spent, clock, mutex, lock, todo, at, reading, nextId>>
  BY DEF Commit, Rollback, Move, ledger
<1>2. p \in Procs /\ tx[p] # NoTx /\ tx[p].actor = a
  BY <1>1, WriterHasTx
<1>3. /\ snaps' \subseteq Snapshots /\ bills' \subseteq BillRows /\ IsFiniteSet(snaps')
      /\ \A x \in snaps' : x.id < nextId
  <2>1. CASE Commit(a)
    BY <1>2, <2>1, LedgerKept DEF Commit
  <2>2. CASE Rollback(a)
    BY <2>2 DEF Rollback, ledger, LedgerTyped, Numbered
  <2> QED BY <2>1, <2>2
<1> HIDE DEF p
<1>4. WorldTyped'
  BY <1>1 DEF WorldTyped
<1>5. RefreshTyped'
  BY <1>1 DEF RefreshTyped, Places
<1>6. LedgerTyped'
  BY <1>1, <1>2, <1>3 DEF LedgerTyped
<1>7. Held' /\ Answered'
  BY <1>1 DEF RefreshTyped, Held, Answered, HasMutex
<1>8. Opened'
  <2>1. ASSUME NEW b \in Actors PROVE pc'[b] = "write" <=> tx'[Home(b)].actor = b
    <3>1. Home(b) \in Procs /\ (pc[b] = "write" <=> tx[Home(b)].actor = b)
      BY HomeIn DEF Opened
    <3>2. CASE Home(b) = p
      BY <1>1, <1>2, <3>1, <3>2, NoActorInNoTx DEF RefreshTyped, LedgerTyped
    <3>3. CASE Home(b) # p
      <4>1. b # a
        BY <3>3 DEF p
      <4> QED BY <1>1, <3>1, <3>3, <4>1 DEF RefreshTyped, LedgerTyped
    <3> QED BY <3>2, <3>3
  <2>2. ASSUME NEW q \in Procs, tx'[q] # NoTx PROVE Home(tx'[q].actor) = q
    BY <1>1, <2>2 DEF LedgerTyped, Opened
  <2> QED BY <2>1, <2>2 DEF Opened
<1>9. Numbered'
  BY <1>1, <1>3 DEF Numbered, LedgerTyped
<1> QED BY <1>4, <1>5, <1>6, <1>7, <1>8, <1>9

\* The end of a process, with or without its transaction.
LEMMA TypedVanish ==
  ASSUME Typed, NEW p \in Procs, Vanish(p), UNCHANGED <<dialect, world, nextId>>,
         UNCHANGED <<snaps, bills>> \/ (tx[p] # NoTx /\ Kept(tx[p]))
  PROVE  Typed'
<1> USE DEF Typed, world
<1>1. /\ snaps' \subseteq Snapshots /\ bills' \subseteq BillRows /\ IsFiniteSet(snaps')
      /\ \A x \in snaps' : x.id < nextId
  BY LedgerKept DEF LedgerTyped, Numbered
<1>2. \A b \in Actors : b \in Of(p) <=> Home(b) = p
  BY DEF Of
<1>3. WorldTyped'
  BY DEF WorldTyped, Vanish
<1>4. RefreshTyped'
  <2>1. mutex' \in [Procs -> [Upstreams -> Actors \union {Nothing}]] /\ lock' \in [Upstreams -> Actors \union {Nothing}]
    BY DEF RefreshTyped, Vanish
  <2>2. pc' \in [Actors -> Places] /\ todo' \in [Actors -> SUBSET RowsRead]
    BY DEF RefreshTyped, Vanish, Places
  <2>3. at' \in [Actors -> RowsRead \union {NoRow}] /\ reading' \in [Actors -> Readings \union {Nothing}]
    BY DEF RefreshTyped, Vanish
  <2> QED BY <2>1, <2>2, <2>3 DEF RefreshTyped
<1>5. LedgerTyped'
  BY <1>1 DEF LedgerTyped, Vanish
<1>6. ASSUME NEW b \in Actors
      PROVE  /\ Home(b) = p => pc'[b] = "idle"
             /\ Home(b) # p => pc'[b] = pc[b] /\ at'[b] = at[b] /\ reading'[b] = reading[b]
  BY <1>2 DEF Vanish
<1>7. Held'
  <2> SUFFICES ASSUME NEW b \in Actors, HasMutex(b)'
               PROVE  at'[b] \in RowsRead /\ mutex'[Home(b)][at'[b].up] = b
    BY DEF Held
  <2>1. Home(b) # p /\ HasMutex(b)
    BY <1>6 DEF HasMutex
  <2>2. at[b] \in RowsRead /\ mutex[Home(b)][at[b].up] = b /\ at'[b] = at[b]
    BY <1>6, <2>1 DEF Held
  <2>3. Home(b) \in Procs /\ at[b].up \in Upstreams
    BY <2>2, HomeIn DEF RowsRead
  <2>4. mutex'[Home(b)][at[b].up] = mutex[Home(b)][at[b].up]
    BY <2>1, <2>3 DEF Vanish
  <2> QED BY <2>2, <2>4
<1>8. Answered'
  BY <1>6 DEF Answered
<1>9. Opened'
  <2>1. tx' = [tx EXCEPT ![p] = NoTx]
    BY DEF Vanish
  <2>2. ASSUME NEW b \in Actors PROVE pc'[b] = "write" <=> tx'[Home(b)].actor = b
    <3>1. Home(b) \in Procs /\ (pc[b] = "write" <=> tx[Home(b)].actor = b)
      BY HomeIn DEF Opened
    <3>2. CASE Home(b) = p
      BY <1>6, <2>1, <3>1, <3>2, NoActorInNoTx DEF LedgerTyped
    <3>3. CASE Home(b) # p
      BY <1>6, <2>1, <3>1, <3>3 DEF LedgerTyped
    <3> QED BY <3>2, <3>3
  <2>3. ASSUME NEW q \in Procs, tx'[q] # NoTx PROVE Home(tx'[q].actor) = q
    BY <2>1, <2>3 DEF LedgerTyped, Opened
  <2> QED BY <2>2, <2>3 DEF Opened
<1>10. Numbered'
  BY <1>1 DEF Numbered, LedgerTyped, Vanish
<1> QED BY <1>3, <1>4, <1>5, <1>7, <1>8, <1>9, <1>10

LEMMA ExitIsVanish ==
  ASSUME NEW p \in Procs, Exit(p) \/ Crash(p)
  PROVE  /\ Vanish(p) /\ UNCHANGED <<dialect, world, nextId>>
         /\ UNCHANGED <<snaps, bills>> \/ (tx[p] # NoTx /\ Kept(tx[p]))
BY DEF Exit, Crash, ledger

LEMMA TypedNext == Typed /\ [Next]_vars => Typed'
<1> SUFFICES ASSUME Typed, [Next]_vars PROVE Typed'
  OBVIOUS
<1>1. ASSUME NEW p \in Procs, Exit(p) \/ Crash(p) PROVE Typed'
  BY <1>1, ExitIsVanish, TypedVanish
<1> QED BY <1>1, TypedWorld, TypedRefresh, TypedRecord, TypedEnd DEF Next

\* The variables keep their types; who is past the mutex holds it, and who writes has
\* the transaction of its process.
THEOREM TypeCorrect == Spec => []TypeOK
<1>1. Init => Typed
  BY TypedInit
<1>2. Typed /\ [Next]_vars => Typed'
  BY TypedNext
<1>3. Typed => TypeOK
  BY TypedIsTypeOK
<1> QED BY <1>1, <1>2, <1>3, PTL DEF Spec

-----------------------------------------------------------------------------
(* The database is closed quietly *)

\* A step of an actor leaves the other actors where they are, and the processes.
LEMMA OneMoves ==
  ASSUME NEW a \in Actors, Step(a) \/ BeginPoll(a) \/ \E u \in Upstreams : BeginRefresh(a, u)
  PROVE  /\ UNCHANGED <<phase, dialect, world>>
         /\ \E place : pc' = [pc EXCEPT ![a] = place]
BY DEF Step, BeginPoll, BeginRefresh, EndPoll, TakeMutex, AcquireBalanceLock, LockFails, FetchBalance, FetchFails,
       Submit, RecordBalanceSnapshot, Commit, Rollback, Unlock, Move

LEMMA QuietActor ==
  ASSUME Typed, ClosedQuietly, NEW a \in Actors,
         Step(a) \/ BeginPoll(a) \/ \E u \in Upstreams : BeginRefresh(a, u)
  PROVE  ClosedQuietly'
<1>1. PICK place : pc' = [pc EXCEPT ![a] = place]
  BY OneMoves
<1>2. pc \in [Actors -> Places] /\ phase' = phase
  BY OneMoves DEF Typed, RefreshTyped
<1>3. pc'[a] \in {"queued", "write"} => phase[Home(a)] # "closed"
  <2>1. pc[a] \in {"queued", "write"} => phase[Home(a)] # "closed"
    BY HomeIn DEF ClosedQuietly, Of
  <2>2. CASE Submit(a)
    BY <1>2, <2>2 DEF Submit, Move
  <2>3. CASE RecordBalanceSnapshot(a)
    BY <2>1, <2>3 DEF RecordBalanceSnapshot
  <2>4. CASE ~Submit(a) /\ ~RecordBalanceSnapshot(a)
    BY <1>2, <2>4 DEF Step, BeginPoll, BeginRefresh, EndPoll, TakeMutex, AcquireBalanceLock, LockFails,
                      FetchBalance, FetchFails, Commit, Rollback, Unlock, Move
  <2> QED BY <2>2, <2>3, <2>4
<1> QED BY <1>1, <1>2, <1>3 DEF ClosedQuietly, Of

LEMMA QuietNext == Typed /\ ClosedQuietly /\ [Next]_vars => ClosedQuietly'
<1> SUFFICES ASSUME Typed, ClosedQuietly, [Next]_vars PROVE ClosedQuietly'
  OBVIOUS
<1> USE DEF Typed, WorldTyped
<1>1. ASSUME UNCHANGED <<phase, pc>> PROVE ClosedQuietly'
  BY <1>1 DEF ClosedQuietly
<1>2. ASSUME NEW p \in Procs, StopPoller(p) \/ StopWriter(p) \/ Boot(p) PROVE ClosedQuietly'
  BY <1>2 DEF StopPoller, StopWriter, Boot, ClosedQuietly, refresh
<1>3. ASSUME NEW p \in Procs, CloseDB(p) PROVE ClosedQuietly'
  BY <1>3 DEF CloseDB, ClosedQuietly, refresh
<1>4. ASSUME NEW p \in Procs, Vanish(p) PROVE ClosedQuietly'
  BY <1>4 DEF Vanish, ClosedQuietly, Of
<1>5. ASSUME NEW a \in Actors, Step(a) \/ BeginPoll(a) \/ \E u \in Upstreams : BeginRefresh(a, u)
      PROVE  ClosedQuietly'
  BY <1>5, QuietActor
<1>6. ASSUME \/ \E v \in Wallets, c \in Currencies : Spend(v, c) \/ TopUp(v, c)
             \/ \E u \in Upstreams, v \in Vendors \union {Nothing} : Repoint(u, v)
             \/ \E u \in Upstreams : Switch(u) \/ LoseSession(u)
             \/ UNCHANGED vars
      PROVE  UNCHANGED <<phase, pc>>
  BY <1>6 DEF Spend, TopUp, Repoint, Switch, LoseSession, vars, refresh
<1> QED BY <1>1, <1>2, <1>3, <1>4, <1>5, <1>6, ExitIsVanish DEF Next, Step

\* When the database of a process is closed no write is queued or running, whatever
\* polls and requests go on.
THEOREM ClosesQuietly == Spec => []ClosedQuietly
<1>1. Init => Typed /\ ClosedQuietly
  BY TypedInit DEF Init, ClosedQuietly
<1>2. Typed /\ ClosedQuietly /\ [Next]_vars => Typed' /\ ClosedQuietly'
  BY TypedNext, QuietNext
<1> QED BY <1>1, <1>2, PTL DEF Spec

-----------------------------------------------------------------------------
(* One refresh at a time, from before the fetch until the record *)

Fetching == {"fetch", "send", "queued", "write"}

\* A process that is down has no refreshes, and one that uses SQLite has no other
\* beside it; who fetches or records has the session lock of its upstream, if there
\* are session locks and none was lost.
Alive == \A a \in Actors : pc[a] # "idle" => phase[Home(a)] # "down"
Alone == dialect = "sqlite" => \A p, q \in Procs : phase[p] # "down" /\ phase[q] # "down" => p = q
Locked ==
  NoLoss /\ dialect = "shared" => \A a \in Actors : pc[a] \in Fetching => lock[at[a].up] = a
Guarded == Alive /\ Alone /\ Locked

\* So two actors that fetch or record for one upstream are one.
LEMMA Exclusive ==
  ASSUME Typed, Guarded, NoLoss, NEW a \in Actors, NEW b \in Actors,
         pc[a] \in Fetching, pc[b] \in Fetching, at[a].up = at[b].up
  PROVE  a = b
<1>1. CASE dialect = "shared"
  BY <1>1 DEF Guarded, Locked
<1>2. CASE dialect = "sqlite"
  <2>1. Home(a) = Home(b)
    BY <1>2, HomeIn DEF Guarded, Alive, Alone, Fetching
  <2>2. mutex[Home(a)][at[a].up] = a /\ mutex[Home(b)][at[b].up] = b
    BY DEF Typed, Held, HasMutex, Fetching
  <2> QED BY <2>1, <2>2
<1> QED BY <1>1, <1>2 DEF Typed, WorldTyped

LEMMA GuardedInit == Init => Guarded
<1> SUFFICES ASSUME Init
             PROVE  Guarded
  OBVIOUS
<1>1. \A a \in Actors : pc[a] = "idle"
  BY DEF Init
<1>2. Alive /\ Locked
  BY <1>1 DEF Alive, Locked, Fetching
<1>3. Alone
  <2> SUFFICES ASSUME dialect = "sqlite", NEW p \in Procs, NEW q \in Procs,
                      phase[p] # "down", phase[q] # "down"
               PROVE  p = q
    BY DEF Alone
  <2>1. phase \in [Procs -> {"up", "down"}]
    BY DEF Init
  <2>2. phase[p] = "up" /\ phase[q] = "up"
    BY <2>1
  <2>3. PICK r \in Procs : \A o \in Procs \ {r} : (phase[o] = "up") = (dialect = "shared")
    BY DEF Init
  <2>4. \A o \in Procs \ {r} : phase[o] # "up"
    BY <2>3
  <2> QED BY <2>2, <2>4
<1> QED BY <1>2, <1>3 DEF Guarded

LEMMA GuardedActor ==
  ASSUME Typed, Guarded, NEW a \in Actors,
         Step(a) \/ BeginPoll(a) \/ \E u \in Upstreams : BeginRefresh(a, u)
  PROVE  Guarded'
<1>0. UNCHANGED <<phase, dialect, lost>> /\ pc \in [Actors -> Places] /\ Home(a) \in Procs
  BY OneMoves, HomeIn DEF world, Typed, RefreshTyped
<1>1. PICK place : pc' = [pc EXCEPT ![a] = place]
  BY OneMoves
<1>2. Alive'
  <2>1. phase[Home(a)] # "down"
    <3>1. CASE Step(a)
      BY <3>1 DEF Guarded, Alive, Step, EndPoll, TakeMutex, AcquireBalanceLock, LockFails, FetchBalance, FetchFails,
                  Submit, RecordBalanceSnapshot, Commit, Rollback, Unlock
    <3>2. CASE BeginPoll(a) \/ \E u \in Upstreams : BeginRefresh(a, u)
      BY <3>2 DEF BeginPoll, BeginRefresh
    <3> QED BY <3>1, <3>2
  <2> QED BY <1>0, <1>1, <2>1 DEF Guarded, Alive
<1>3. Alone'
  BY <1>0 DEF Guarded, Alone
<1>4. Locked'
  <2> SUFFICES ASSUME NoLoss, dialect = "shared", NEW b \in Actors, pc'[b] \in Fetching
               PROVE  lock'[at'[b].up] = b
    BY <1>0 DEF Locked, NoLoss
  <2>1. \A c \in Actors : pc[c] \in Fetching => lock[at[c].up] = c /\ at[c].up \in Upstreams
    BY DEF Guarded, Locked, Typed, Held, HasMutex, Fetching, RowsRead
  <2>2. CASE AcquireBalanceLock(a)
    <3>1. /\ lock[at[a].up] = Nothing /\ lock' = [lock EXCEPT ![at[a].up] = a] /\ at' = at
          /\ pc' = [pc EXCEPT ![a] = "fetch"] /\ at[a].up \in Upstreams
      BY <2>2 DEF AcquireBalanceLock, Move, Typed, Held, HasMutex, RowsRead
    <3> QED BY <1>0, <2>1, <3>1, BillingAssumption DEF Typed, RefreshTyped
  <2>3. CASE Unlock(a)
    <3>1. /\ lock' = [u \in Upstreams |-> IF lock[u] = a THEN Nothing ELSE lock[u]]
          /\ at' = [at EXCEPT ![a] = NoRow] /\ pc' = [pc EXCEPT ![a] = "next"]
      BY <2>3 DEF Unlock, FreeLock, Forget, Move
    <3>2. b # a /\ pc[b] \in Fetching
      BY <1>0, <3>1 DEF Fetching
    <3> QED BY <2>1, <3>1, <3>2 DEF Typed, RefreshTyped
  <2>4. CASE LockFails(a) \/ TakeMutex(a)
    <3>1. lock' = lock /\ \E place2 \in {"next", "lock"} : pc' = [pc EXCEPT ![a] = place2]
      BY <2>4 DEF LockFails, TakeMutex, Move
    <3>2. b # a /\ pc[b] \in Fetching
      BY <1>0, <3>1 DEF Fetching
    <3>3. at'[b] = at[b]
      BY <2>4, <3>2 DEF LockFails, TakeMutex, Forget, Typed, RefreshTyped
    <3> QED BY <2>1, <3>1, <3>2, <3>3
  <2>5. CASE ~AcquireBalanceLock(a) /\ ~Unlock(a) /\ ~LockFails(a) /\ ~TakeMutex(a)
    <3>1. UNCHANGED <<lock, at>>
      BY <2>5 DEF Step, BeginPoll, BeginRefresh, EndPoll, FetchBalance, FetchFails, Submit, RecordBalanceSnapshot, Commit, Rollback
    <3>2. pc[b] \in Fetching
      BY <1>0, <2>5 DEF Fetching, Step, BeginPoll, BeginRefresh, EndPoll, FetchBalance, FetchFails, Submit,
                         RecordBalanceSnapshot, Commit, Rollback, Move
    <3> QED BY <2>1, <3>1, <3>2
  <2> QED BY <2>2, <2>3, <2>4, <2>5
<1> QED BY <1>2, <1>3, <1>4 DEF Guarded

LEMMA GuardedNext == Typed /\ Guarded /\ [Next]_vars => Guarded'
<1> SUFFICES ASSUME Typed, Guarded, [Next]_vars PROVE Guarded'
  OBVIOUS
<1> USE DEF Guarded, Alive, Alone, Locked, NoLoss
<1>1. ASSUME UNCHANGED <<dialect, phase, pc, at, lock, lost>> PROVE Guarded'
  BY <1>1
<1>2. ASSUME NEW p \in Procs, StopPoller(p) \/ StopWriter(p) \/ CloseDB(p) PROVE Guarded'
  <2>1. UNCHANGED <<dialect, pc, at, lock, lost>>
    BY <1>2 DEF StopPoller, StopWriter, CloseDB, refresh, world
  <2>2. \A q \in Procs : phase'[q] # "down" <=> phase[q] # "down"
    BY <1>2 DEF StopPoller, StopWriter, CloseDB, Typed, WorldTyped
  <2> QED BY <2>1, <2>2, HomeIn
<1>3. ASSUME NEW p \in Procs, Boot(p) PROVE Guarded'
  <2>1. UNCHANGED <<dialect, pc, at, lock, lost>> /\ phase' = [phase EXCEPT ![p] = "up"]
    BY <1>3 DEF Boot, refresh, world
  <2>2. Alive'
    BY <2>1, HomeIn DEF Typed, WorldTyped
  <2>3. Alone'
    BY <1>3, <2>1 DEF Boot, Typed, WorldTyped
  <2> QED BY <2>1, <2>2, <2>3
<1>4. ASSUME NEW p \in Procs, Vanish(p), UNCHANGED <<dialect, world>> PROVE Guarded'
  <2>1. \A b \in Actors : b \in Of(p) <=> Home(b) = p
    BY DEF Of
  <2>2. phase' = [phase EXCEPT ![p] = "down"]
    BY <1>4 DEF Vanish
  <2>3. ASSUME NEW b \in Actors
        PROVE  /\ Home(b) = p => pc'[b] = "idle"
               /\ Home(b) # p => pc'[b] = pc[b] /\ at'[b] = at[b]
    BY <1>4, <2>1 DEF Vanish
  <2>4. Alive'
    BY <2>2, <2>3, HomeIn DEF Typed, WorldTyped
  <2>5. Alone'
    BY <1>4, <2>2 DEF Typed, WorldTyped
  <2>6. Locked'
    <3> SUFFICES ASSUME ~lost, dialect = "shared", NEW b \in Actors, pc'[b] \in Fetching
                 PROVE  lock'[at'[b].up] = b
      BY <1>4 DEF world
    <3>1. Home(b) # p /\ pc[b] \in Fetching /\ at'[b] = at[b]
      BY <2>3 DEF Fetching
    <3>2. lock[at[b].up] = b /\ at[b].up \in Upstreams
      BY <3>1 DEF Typed, Held, HasMutex, Fetching, RowsRead
    <3> QED BY <1>4, <2>1, <3>1, <3>2 DEF Vanish
  <2> QED BY <2>4, <2>5, <2>6
<1>5. ASSUME NEW a \in Actors, Step(a) \/ BeginPoll(a) \/ \E u \in Upstreams : BeginRefresh(a, u)
      PROVE  Guarded'
  BY <1>5, GuardedActor
<1>6. ASSUME NEW u \in Upstreams, LoseSession(u) PROVE Guarded'
  BY <1>6 DEF LoseSession
<1>7. ASSUME \/ \E v \in Wallets, c \in Currencies : Spend(v, c) \/ TopUp(v, c)
             \/ \E u \in Upstreams, v \in Vendors \union {Nothing} : Repoint(u, v)
             \/ \E u \in Upstreams : Switch(u)
             \/ UNCHANGED vars
      PROVE  UNCHANGED <<dialect, phase, pc, at, lock, lost>>
  BY <1>7 DEF Spend, TopUp, Repoint, Switch, vars, refresh, world
<1> QED BY <1>1, <1>2, <1>3, <1>4, <1>5, <1>6, <1>7, ExitIsVanish DEF Next, Step

-----------------------------------------------------------------------------
(* The ledger *)

\* What the transaction of a process writes is what its actor has read, about the
\* upstream it is at.
Faithful ==
  \A a \in Actors : pc[a] = "write" =>
    LET s == tx[Home(a)].snap IN
    /\ s.up = at[a].up /\ s.vendor = reading[a].vendor
    /\ s.age = reading[a].age /\ s.totals = reading[a].totals

\* Ids are given out once.
Distinct ==
  /\ \A s, t \in snaps : s.id = t.id => s = t
  /\ \A s \in snaps, p \in Procs : tx[p] # NoTx => s.id # tx[p].snap.id
  /\ \A p, q \in Procs : tx[p] # NoTx /\ tx[q] # NoTx /\ tx[p].snap.id = tx[q].snap.id => p = q

\* No bill is there before its snapshot, and those of a transaction are of its snapshot.
Billed ==
  /\ \A b \in bills : b.snap < nextId
  /\ \A b \in bills, p \in Procs : tx[p] # NoTx => b.snap # tx[p].snap.id
  /\ \A p \in Procs : tx[p] # NoTx => \A b \in tx[p].bills : b.snap = tx[p].snap.id

\* No answer is from the future.
Answering == {"send", "queued", "write"}
Aged ==
  /\ \A s \in snaps : s.age <= clock[s.vendor]
  /\ \A a \in Actors : pc[a] \in Answering => reading[a].age <= clock[reading[a].vendor]

\* Who has an answer has one that is not older than what is recorded ...
Fresh ==
  NoLoss => \A a \in Actors : pc[a] \in Answering =>
    \A s \in snaps : s.up = at[a].up /\ s.vendor = reading[a].vendor => s.age <= reading[a].age

\* ... and who records it does so behind all there is of the upstream, with the bills
\* the ledger asks for.
Last ==
  NoLoss => \A a \in Actors : pc[a] = "write" =>
    LET s == tx[Home(a)].snap IN
    /\ \A x \in snaps : x.up = at[a].up => x.id < s.id
    /\ tx[Home(a)].bills = recordBillFromBalanceDelta(snaps, s)

Numbers == Faithful /\ Distinct /\ Billed /\ Aged
InOrder == Fresh /\ Last /\ InFetchOrder /\ NoGap
Ledger == Typed /\ Guarded /\ Numbers /\ InOrder

LEMMA LedgerInit == Init => Ledger
<1>1. Init => Typed /\ Guarded
  BY TypedInit, GuardedInit
<1>2. Init => Numbers
  BY DEF Init, Numbers, Faithful, Distinct, Billed, Aged, Answering
<1>3. Init => InOrder
  BY DEF Init, InOrder, Fresh, Last, InFetchOrder, NoGap, Answering
<1> QED BY <1>1, <1>2, <1>3 DEF Ledger

\* Whoever has an answer after a step had it before: no step but the fetch gives one.
Steady ==
  \A b \in Actors : pc'[b] \in Answering =>
    /\ pc[b] \in Answering /\ at'[b] = at[b] /\ reading'[b] = reading[b]
    /\ pc'[b] = "write" => pc[b] = "write"
Later == /\ \A v \in Vendors : clock[v] <= clock'[v]
         /\ lost => lost'

\* A step that records nothing and begins no transaction, but may end some, or see
\* wallets change or a session die.
LEMMA CalmStep ==
  ASSUME Ledger, Typed', UNCHANGED <<snaps, bills, nextId>>, Steady, Later,
         \A p \in Procs : tx'[p] \in {tx[p], NoTx}
  PROVE  Numbers' /\ InOrder'
<1> USE DEF Ledger, Numbers, InOrder, Answering
<1>1. ASSUME NEW p \in Procs, tx'[p] # NoTx PROVE tx'[p] = tx[p] /\ tx[p] # NoTx
  BY <1>1
<1>2. ASSUME NEW b \in Actors, pc'[b] = "write"
      PROVE  /\ pc[b] = "write" /\ tx'[Home(b)] = tx[Home(b)]
             /\ at'[b] = at[b] /\ reading'[b] = reading[b]
  <2>1. Home(b) \in Procs /\ tx'[Home(b)] # NoTx
    BY <1>2, HomeIn, NoActorInNoTx DEF Typed, Opened
  <2> QED BY <1>1, <1>2, <2>1 DEF Steady
<1>3. Faithful'
  BY <1>2 DEF Faithful
<1>4. Distinct' /\ Billed'
  BY <1>1 DEF Distinct, Billed
<1>5. Aged'
  <2>1. ASSUME NEW v \in Vendors PROVE clock[v] \in Nat /\ clock'[v] \in Nat /\ clock[v] <= clock'[v]
    BY DEF Later, Typed, WorldTyped
  <2>2. ASSUME NEW x \in snaps PROVE x.age <= clock'[x.vendor]
    <3>1. x.vendor \in Vendors /\ x.age \in Nat /\ x.age <= clock[x.vendor]
      BY DEF Aged, Typed, LedgerTyped, Snapshots
    <3> QED BY <2>1, <3>1
  <2>3. ASSUME NEW b \in Actors, pc'[b] \in Answering PROVE reading'[b].age <= clock'[reading'[b].vendor]
    <3>1. pc[b] \in Answering /\ reading'[b] = reading[b]
      BY <2>3 DEF Steady
    <3>2. reading[b].vendor \in Vendors /\ reading[b].age \in Nat
      BY <3>1 DEF Typed, Answered, Readings
    <3>3. reading[b].age <= clock[reading[b].vendor]
      BY <3>1 DEF Aged
    <3> QED BY <2>1, <3>1, <3>2, <3>3
  <2> QED BY <2>2, <2>3 DEF Aged
<1>6. Fresh' /\ Last'
  BY <1>2 DEF Fresh, Last, Steady, Later, NoLoss
<1>7. InFetchOrder' /\ NoGap'
  BY DEF InFetchOrder, NoGap, Later, NoLoss
<1> QED BY <1>3, <1>4, <1>5, <1>6, <1>7

\* A new answer is as old as the wallet is now.
LEMMA FetchStep ==
  ASSUME Ledger, Typed', NEW a \in Actors, FetchBalance(a)
  PROVE  Numbers' /\ InOrder'
<1> USE DEF Ledger, Numbers, InOrder, Answering
<1>1. PICK unread \in SUBSET Currencies :
        reading' = [reading EXCEPT ![a] = Normalized(at[a].vendor, unread)]
  BY DEF FetchBalance
<1>2. /\ pc[a] = "fetch" /\ pc' = [pc EXCEPT ![a] = "send"]
      /\ UNCHANGED <<at, tx, snaps, bills, nextId, clock, lost>>
  BY DEF FetchBalance, Move, world, ledger
<1>3. pc'[a] = "send" /\ reading'[a].vendor = at[a].vendor /\ reading'[a].age = clock[at[a].vendor]
  BY <1>1, <1>2 DEF Typed, RefreshTyped, Normalized
<1>4. \A b \in Actors : b # a => pc'[b] = pc[b] /\ reading'[b] = reading[b]
  BY <1>1, <1>2 DEF Typed, RefreshTyped
<1>5. Faithful'
  BY <1>2, <1>3, <1>4 DEF Faithful
<1>6. Distinct' /\ Billed'
  BY <1>2 DEF Distinct, Billed
<1>7. reading'[a].vendor \in Vendors
  BY <1>3 DEF Typed, Answered, Readings
<1>8. Aged'
  <2>1. reading'[a].age <= clock'[reading'[a].vendor]
    BY <1>2, <1>3, <1>7 DEF Typed, WorldTyped
  <2> QED BY <1>2, <1>4, <2>1 DEF Aged
<1>9. Fresh'
  BY <1>2, <1>3, <1>4 DEF Fresh, Aged, NoLoss
<1>10. Last'
  BY <1>2, <1>3, <1>4 DEF Last, NoLoss
<1>11. InFetchOrder' /\ NoGap'
  BY <1>2 DEF InFetchOrder, NoGap, NoLoss
<1> QED BY <1>5, <1>6, <1>8, <1>9, <1>10, <1>11

\* A transaction gets the next id, and bills what is there.
LEMMA RecordStep ==
  ASSUME Ledger, Typed', NEW a \in Actors, RecordBalanceSnapshot(a)
  PROVE  Numbers' /\ InOrder'
<1> USE DEF Ledger, Numbers, InOrder, Answering
<1> DEFINE p == Home(a)
           s == [id |-> nextId, up |-> at[a].up, kind |-> reading[a].kind,
                 vendor |-> reading[a].vendor, totals |-> reading[a].totals, age |-> reading[a].age]
           t == [snap |-> s, bills |-> recordBillFromBalanceDelta(snaps, s), actor |-> a]
<1>1. /\ pc[a] = "queued" /\ tx[p] = NoTx /\ tx' = [tx EXCEPT ![p] = t]
      /\ nextId' = nextId + 1 /\ pc' = [pc EXCEPT ![a] = "write"]
      /\ UNCHANGED <<clock, lost, at, reading, snaps, bills>>
  BY DEF RecordBalanceSnapshot, Move, world
<1>2. p \in Procs
  BY HomeIn
<1>3. tx'[p] = t /\ \A q \in Procs : q # p => tx'[q] = tx[q]
  BY <1>1, <1>2 DEF Typed, LedgerTyped
<1>4. /\ t.snap.id = nextId /\ t.snap.up = at[a].up
      /\ t.snap.vendor = reading[a].vendor /\ t.snap.age = reading[a].age
      /\ t.snap.totals = reading[a].totals
  OBVIOUS
<1>5. t.bills = recordBillFromBalanceDelta(snaps, t.snap)
  OBVIOUS
<1>6. t \in TxRows
  BY <1>1, <1>2, <1>3, OpenTx, NoActorInNoTx DEF Typed, LedgerTyped, Opened, RefreshTyped
<1>7. \A b \in t.bills : b.snap = nextId
  BY <1>4, <1>5, <1>6, BillsAreRows DEF Typed, LedgerTyped, TxRows
<1> HIDE DEF s, t, p
<1>8. \A b \in Actors : b # a => pc'[b] = pc[b]
  BY <1>1 DEF Typed, RefreshTyped
<1>9. ASSUME NEW b \in Actors, pc'[b] = "write", b # a PROVE Home(b) \in Procs /\ tx'[Home(b)] = tx[Home(b)]
  <2>1. pc[b] = "write" /\ tx[Home(b)].actor = b
    BY <1>8, <1>9 DEF Typed, Opened
  <2>2. Home(b) \in Procs /\ Home(b) # p
    BY <1>1, <2>1, HomeIn, NoActorInNoTx
  <2> QED BY <1>3, <2>2
<1>10. Faithful'
  BY <1>1, <1>3, <1>4, <1>8, <1>9 DEF Faithful, p
<1>11. nextId \in Nat /\ \A x \in snaps : x.id \in Nat /\ x.id < nextId
  BY DEF Typed, LedgerTyped, Numbered, Snapshots
<1>12. \A q \in Procs : q # p /\ tx'[q] # NoTx => tx'[q] = tx[q] /\ tx[q] # NoTx /\ tx[q].snap.id \in Nat /\ tx[q].snap.id < nextId
  BY <1>3, OpenTx DEF Typed, Numbered, Snapshots
<1>13. Distinct'
  BY <1>1, <1>3, <1>4, <1>11, <1>12 DEF Distinct
<1>14. Billed'
  <2>1. \A b \in bills : b.snap \in Nat /\ b.snap < nextId
    BY DEF Billed, Typed, LedgerTyped, BillRows
  <2> QED BY <1>1, <1>3, <1>4, <1>7, <1>11, <1>12, <2>1 DEF Billed
<1>15. Aged'
  BY <1>1, <1>8 DEF Aged
<1>16. Fresh'
  BY <1>1, <1>8 DEF Fresh, NoLoss
<1>17. Last'
  <2> SUFFICES ASSUME NoLoss, NEW b \in Actors, pc'[b] = "write"
               PROVE  /\ \A x \in snaps : x.up = at[b].up => x.id < tx'[Home(b)].snap.id
                      /\ tx'[Home(b)].bills = recordBillFromBalanceDelta(snaps, tx'[Home(b)].snap)
    BY <1>1 DEF Last, NoLoss
  <2>1. CASE b = a
    BY <1>3, <1>4, <1>5, <1>11, <2>1 DEF p
  <2>2. CASE b # a
    BY <1>8, <1>9, <2>2 DEF Last
  <2> QED BY <2>1, <2>2
<1>18. InFetchOrder' /\ NoGap'
  BY <1>1 DEF InFetchOrder, NoGap, NoLoss
<1> QED BY <1>10, <1>13, <1>14, <1>15, <1>16, <1>17, <1>18

\* A transaction that is kept, by a commit or by a crash after it.
LEMMA KeepStep ==
  ASSUME Ledger, Typed', NEW p \in Procs, tx[p] # NoTx, Kept(tx[p]), tx' = [tx EXCEPT ![p] = NoTx],
         UNCHANGED <<nextId, clock, lost>>, Steady, pc'[tx[p].actor] \notin Answering
  PROVE  Numbers' /\ InOrder'
<1> USE DEF Ledger, Numbers, InOrder, Answering
<1> DEFINE a == tx[p].actor
           n == tx[p].snap
<1>1. /\ a \in Actors /\ Home(a) = p /\ pc[a] = "write"
      /\ n \in Snapshots /\ n.id < nextId /\ tx[p].bills \subseteq BillRows
  BY OpenTx DEF Typed, Opened, Numbered
<1>2. /\ snaps' = snaps \union {n} /\ bills' = bills \union tx[p].bills
      /\ tx'[p] = NoTx /\ \A q \in Procs : q # p => tx'[q] = tx[q]
  BY DEF Kept, Typed, LedgerTyped
<1>3. n.up = at[a].up /\ n.vendor = reading[a].vendor /\ n.age = reading[a].age
  BY <1>1 DEF Faithful
<1> HIDE DEF a, n
<1>4. ASSUME NEW b \in Actors, pc'[b] \in Answering
      PROVE  b # a /\ pc[b] \in Answering /\ at'[b] = at[b] /\ reading'[b] = reading[b]
  BY <1>4 DEF Steady, a
<1>5. ASSUME NEW b \in Actors, pc'[b] = "write"
      PROVE  pc[b] = "write" /\ Home(b) \in Procs /\ tx'[Home(b)] = tx[Home(b)]
  <2>1. Home(b) \in Procs /\ tx'[Home(b)] # NoTx
    BY <1>5, HomeIn, NoActorInNoTx DEF Typed, Opened
  <2> QED BY <1>2, <1>5, <2>1 DEF Steady
<1>6. ASSUME NoLoss, NEW b \in Actors, pc'[b] \in Answering PROVE at[b].up # n.up
  BY <1>1, <1>3, <1>4, <1>6, Exclusive DEF Fetching
<1>7. Faithful'
  BY <1>4, <1>5 DEF Faithful
<1>8. \A x \in snaps : x.id # n.id
  BY DEF Distinct, n
<1>9. Distinct'
  <2>1. \A q \in Procs : tx'[q] # NoTx => q # p /\ tx'[q] = tx[q]
    BY <1>2
  <2> QED BY <1>2, <1>8, <2>1 DEF Distinct, n
<1>10. \A b \in bills : b.snap # n.id
  BY DEF Billed, n
<1>11. \A b \in tx[p].bills : b.snap = n.id
  BY DEF Billed, n
<1>12. Billed'
  <2>1. \A q \in Procs : tx'[q] # NoTx => q # p /\ tx'[q] = tx[q] /\ tx[q].snap.id # n.id
    BY <1>2 DEF Distinct, n
  <2> QED BY <1>1, <1>2, <1>11, <2>1 DEF Billed
<1>13. Aged'
  <2>1. n.age <= clock[n.vendor]
    BY <1>1, <1>3 DEF Aged
  <2> QED BY <1>2, <1>4, <2>1 DEF Aged
<1>14. Fresh'
  BY <1>2, <1>4, <1>6 DEF Fresh, NoLoss
<1>15. Last'
  <2> SUFFICES ASSUME NoLoss, NEW b \in Actors, pc'[b] = "write"
               PROVE  /\ \A x \in snaps' : x.up = at'[b].up => x.id < tx'[Home(b)].snap.id
                      /\ tx'[Home(b)].bills = recordBillFromBalanceDelta(snaps', tx'[Home(b)].snap)
    BY DEF Last, NoLoss
  <2>1. /\ pc[b] = "write" /\ at'[b] = at[b] /\ tx'[Home(b)] = tx[Home(b)] /\ at[b].up # n.up
        /\ tx[Home(b)].snap.up = at[b].up
    BY <1>4, <1>5, <1>6 DEF Faithful
  <2>2. recordBillFromBalanceDelta(snaps \union {n}, tx[Home(b)].snap) = recordBillFromBalanceDelta(snaps, tx[Home(b)].snap)
    BY <2>1, OthersBillsSame
  <2> QED BY <1>2, <2>1, <2>2 DEF Last
<1>16. ASSUME NoLoss PROVE (\A x \in snaps : x.up = n.up => x.id < n.id) /\ tx[p].bills = recordBillFromBalanceDelta(snaps, n)
  BY <1>1, <1>3, <1>16 DEF Last, n
<1>17. InFetchOrder'
  <2> SUFFICES ASSUME NoLoss, NEW x \in snaps', NEW y \in snaps', x.up = y.up, x.vendor = y.vendor, x.id < y.id
               PROVE  x.age <= y.age
    BY DEF InFetchOrder, NoLoss
  <2>1. CASE x \in snaps /\ y \in snaps
    BY <2>1 DEF InFetchOrder
  <2>2. CASE x = n /\ y = n
    BY <1>1, <2>2 DEF Snapshots
  <2>3. CASE x = n /\ y \in snaps
    <3>1. y.id < n.id /\ y.id \in Nat /\ n.id \in Nat
      BY <1>1, <1>16, <2>3 DEF Typed, LedgerTyped, Snapshots
    <3> QED BY <2>3, <3>1
  <2>4. CASE x \in snaps /\ y = n
    BY <1>1, <1>3, <2>4 DEF Fresh
  <2> QED BY <1>2, <2>1, <2>2, <2>3, <2>4
<1>18. NoGap'
  <2> SUFFICES ASSUME NoLoss, NEW x \in snaps'
               PROVE  {b \in bills' : b.snap = x.id} = recordBillFromBalanceDelta(snaps', x)
    BY DEF NoGap, NoLoss
  <2>1. n.id \in Nat /\ ~(n.id < n.id)
    BY <1>1 DEF Snapshots
  <2>2. CASE x \in snaps
    <3>1. {b \in bills' : b.snap = x.id} = {b \in bills : b.snap = x.id}
      BY <1>2, <1>8, <1>11, <2>2
    <3>2. x.id \in Nat /\ (n.up # x.up \/ ~(n.id < x.id))
      BY <1>16, <2>1, <2>2 DEF Typed, LedgerTyped, Snapshots
    <3>3. recordBillFromBalanceDelta(snaps \union {n}, x) = recordBillFromBalanceDelta(snaps, x)
      BY <3>2, OthersBillsSame
    <3> QED BY <1>2, <2>2, <3>1, <3>3 DEF NoGap
  <2>3. CASE x = n
    <3>1. {b \in bills' : b.snap = n.id} = tx[p].bills
      BY <1>2, <1>10, <1>11
    <3>2. recordBillFromBalanceDelta(snaps \union {n}, n) = recordBillFromBalanceDelta(snaps, n)
      BY <2>1, OthersBillsSame
    <3> QED BY <1>2, <1>16, <2>3, <3>1, <3>2
  <2> QED BY <1>2, <2>2, <2>3
<1> QED BY <1>7, <1>9, <1>12, <1>13, <1>14, <1>15, <1>17, <1>18

\* Actors that do not answer, and the clocks, stand still.
LEMMA CalmWorld ==
  ASSUME Ledger, Typed',
         \/ \E v \in Wallets, c \in Currencies : Spend(v, c) \/ TopUp(v, c)
         \/ \E u \in Upstreams, v \in Vendors \union {Nothing} : Repoint(u, v)
         \/ \E u \in Upstreams : Switch(u) \/ LoseSession(u)
         \/ \E p \in Procs : StopPoller(p) \/ StopWriter(p) \/ CloseDB(p) \/ Boot(p)
         \/ UNCHANGED vars
  PROVE  Numbers' /\ InOrder'
<1>1. UNCHANGED <<pc, at, reading, tx, snaps, bills, nextId>>
  BY DEF Spend, TopUp, Repoint, Switch, LoseSession, StopPoller, StopWriter, CloseDB, Boot, vars, refresh, ledger
<1>2. Steady /\ \A p \in Procs : tx'[p] \in {tx[p], NoTx}
  BY <1>1 DEF Steady
<1>3. \A v \in Vendors : clock[v] \in Nat
  BY DEF Ledger, Typed, WorldTyped
<1>4. Later
  <2>1. ASSUME NEW v \in Wallets, NEW c \in Currencies, Spend(v, c) \/ TopUp(v, c) PROVE Later
    <3>1. lost' = lost /\ clock' = [clock EXCEPT ![v] = @ + 1] /\ clock \in [Vendors -> Nat]
      BY <2>1 DEF Spend, TopUp, Tick, Ledger, Typed, WorldTyped
    <3> QED BY <1>3, <3>1 DEF Later
  <2>2. ASSUME NEW u \in Upstreams, LoseSession(u) PROVE Later
    BY <1>3, <2>2 DEF LoseSession, Later
  <2>3. ASSUME UNCHANGED <<clock, lost>> PROVE Later
    BY <1>3, <2>3 DEF Later
  <2> QED BY <2>1, <2>2, <2>3 DEF Repoint, Switch, StopPoller, StopWriter, CloseDB, Boot, vars, world
<1> QED BY <1>1, <1>2, <1>4, CalmStep

LEMMA CalmRefresh ==
  ASSUME Ledger, Typed', NEW a \in Actors,
         \/ BeginPoll(a) \/ \E u \in Upstreams : BeginRefresh(a, u)
         \/ EndPoll(a) \/ TakeMutex(a) \/ AcquireBalanceLock(a) \/ LockFails(a)
         \/ FetchFails(a) \/ Submit(a) \/ Rollback(a) \/ Unlock(a)
  PROVE  Numbers' /\ InOrder'
<1> USE DEF Ledger
<1>1. UNCHANGED <<clock, lost, snaps, bills, nextId>>
  BY DEF BeginPoll, BeginRefresh, EndPoll, TakeMutex, AcquireBalanceLock, LockFails, FetchFails, Submit, Rollback, Unlock, world, ledger
<1>2. Later
  BY <1>1 DEF Later, Typed, WorldTyped
<1>3. \A p \in Procs : tx'[p] \in {tx[p], NoTx}
  BY DEF BeginPoll, BeginRefresh, EndPoll, TakeMutex, AcquireBalanceLock, LockFails, FetchFails, Submit, Rollback, Unlock,
         Typed, LedgerTyped
<1>4. \A b \in Actors : b # a => pc'[b] = pc[b] /\ at'[b] = at[b] /\ reading'[b] = reading[b]
  BY DEF BeginPoll, BeginRefresh, EndPoll, TakeMutex, AcquireBalanceLock, LockFails, FetchFails, Submit, Rollback, Unlock,
         Move, Forget, Typed, RefreshTyped
<1>5. pc'[a] \in Answering => pc[a] = "send" /\ pc'[a] = "queued" /\ at'[a] = at[a] /\ reading'[a] = reading[a]
  <2>1. CASE Submit(a)
    BY <2>1 DEF Submit, Move, Answering, Typed, RefreshTyped
  <2>2. CASE ~Submit(a)
    BY <2>2 DEF BeginPoll, BeginRefresh, EndPoll, TakeMutex, AcquireBalanceLock, LockFails, FetchFails, Rollback, Unlock,
                Move, Answering, Typed, RefreshTyped
  <2> QED BY <2>1, <2>2
<1>6. Steady
  BY <1>4, <1>5 DEF Steady, Answering
<1> QED BY <1>1, <1>2, <1>3, <1>6, CalmStep

LEMMA KeepCommit ==
  ASSUME Ledger, Typed', NEW a \in Actors, Commit(a)
  PROVE  Numbers' /\ InOrder'
<1>1. /\ Home(a) \in Procs /\ tx[Home(a)] # NoTx /\ tx[Home(a)].actor = a
      /\ pc \in [Actors -> Places]
  BY WriterHasTx DEF Ledger, Commit, Typed, RefreshTyped
<1>2. /\ Kept(tx[Home(a)]) /\ tx' = [tx EXCEPT ![Home(a)] = NoTx] /\ pc' = [pc EXCEPT ![a] = "unlock"]
      /\ UNCHANGED <<nextId, clock, lost, at, reading>>
  BY DEF Commit, Move, world
<1>3. Steady /\ pc'[a] \notin Answering
  BY <1>1, <1>2 DEF Steady, Answering
<1> QED BY <1>1, <1>2, <1>3, KeepStep

LEMMA KeepVanish ==
  ASSUME Ledger, Typed', NEW p \in Procs, Exit(p) \/ Crash(p)
  PROVE  Numbers' /\ InOrder'
<1>1. /\ Vanish(p) /\ UNCHANGED <<clock, lost, nextId>>
      /\ UNCHANGED <<snaps, bills>> \/ (tx[p] # NoTx /\ Kept(tx[p]))
  BY ExitIsVanish DEF world
<1>2. ASSUME NEW b \in Actors
      PROVE  /\ Home(b) = p => pc'[b] = "idle"
             /\ Home(b) # p => pc'[b] = pc[b] /\ at'[b] = at[b] /\ reading'[b] = reading[b]
  BY <1>1 DEF Vanish, Of
<1>3. Steady
  BY <1>2 DEF Steady, Answering
<1>4. tx' = [tx EXCEPT ![p] = NoTx]
  BY <1>1 DEF Vanish
<1>5. CASE UNCHANGED <<snaps, bills>>
  <2>1. \A q \in Procs : tx'[q] \in {tx[q], NoTx}
    BY <1>4 DEF Ledger, Typed, LedgerTyped
  <2>2. Later
    BY <1>1 DEF Later, Ledger, Typed, WorldTyped
  <2> QED BY <1>1, <1>3, <1>5, <2>1, <2>2, CalmStep
<1>6. CASE tx[p] # NoTx /\ Kept(tx[p])
  <2>1. tx[p].actor \in Actors /\ Home(tx[p].actor) = p
    BY <1>6, OpenTx DEF Ledger, Typed, Opened
  <2>2. pc'[tx[p].actor] \notin Answering
    BY <1>2, <2>1 DEF Answering
  <2> QED BY <1>1, <1>3, <1>4, <1>6, <2>2, KeepStep
<1> QED BY <1>1, <1>5, <1>6

LEMMA LedgerNext == Ledger /\ [Next]_vars => Ledger'
<1> SUFFICES ASSUME Ledger, [Next]_vars PROVE Ledger'
  OBVIOUS
<1>1. Typed' /\ Guarded'
  BY TypedNext, GuardedNext DEF Ledger
<1>2. Numbers' /\ InOrder'
  BY <1>1, CalmWorld, CalmRefresh, FetchStep, RecordStep, KeepCommit, KeepVanish DEF Next
<1> QED BY <1>1, <1>2 DEF Ledger

\* As long as no session lock is lost, the order of the vendor's answers is the order of
\* the snapshots, whichever goroutines of whichever processes ask, crash and restart.
THEOREM RecordsInFetchOrder == Spec => []InFetchOrder
<1>1. Ledger => InFetchOrder
  BY DEF Ledger, InOrder
<1> QED BY <1>1, LedgerInit, LedgerNext, PTL DEF Spec

\* As long as no session lock is lost, each snapshot has exactly the bills it owes to the
\* one before it, wherever a process dies.
THEOREM NothingFallsIntoAGap == Spec => []NoGap
<1>1. Ledger => NoGap
  BY DEF Ledger, InOrder
<1> QED BY <1>1, LedgerInit, LedgerNext, PTL DEF Spec

-----------------------------------------------------------------------------
(* Money *)

\* Total is a sum as Sums has it.
LEMMA TotalSum == ASSUME NEW B PROVE Total(B) = SumOf([b \in B |-> b.amount], B)
<1> DEFINE f == [b \in B |-> b.amount]
           Step1(g) == [S \in SUBSET B |-> IF S = {} THEN 0
                          ELSE (CHOOSE b \in S : TRUE).amount + g[S \ {CHOOSE b \in S : TRUE}]]
           h == CHOOSE g : g = Step1(g)
           k == CHOOSE g : AddsUp(f, SUBSET B, g)
<1>1. Total(B) = h[B]
  BY DEF Total
<1>2. ASSUME NEW g PROVE AddsUp(f, SUBSET B, g) <=> g = Step1(g)
  <2>1. ASSUME NEW S \in SUBSET B, S # {} PROVE f[Some(S)] = (CHOOSE b \in S : TRUE).amount
    BY <2>1 DEF Some
  <2> HIDE DEF f
  <2> QED BY <2>1 DEF AddsUp, Term, Some
<1>3. h = k
  <2> HIDE DEF f, Step1
  <2> QED BY <1>2
<1>4. SumOf(f, B) = k[B]
  <2> HIDE DEF f
  <2> QED BY DEF SumOf
<1> HIDE DEF h, k
<1> QED BY <1>1, <1>3, <1>4

\* The total of some bills, of none, and of one more.
LEMMA TotalNat ==
  ASSUME NEW B, IsFiniteSet(B), B \subseteq BillRows
  PROVE  Total(B) \in Nat
<1> DEFINE f == [b \in B |-> b.amount]
<1>1. \A b \in B : f[b] \in Nat
  BY DEF BillRows
<1> HIDE DEF f
<1>2. SumOf(f, B) \in Nat
  BY <1>1, SumNat
<1> QED BY <1>2, TotalSum DEF f

LEMMA TotalNone == Total({}) = 0
BY TotalSum, SumEmpty

LEMMA TotalMore ==
  ASSUME NEW B, IsFiniteSet(B), B \subseteq BillRows, NEW b \in BillRows, b \notin B
  PROVE  IsFiniteSet(B \union {b}) /\ Total(B \union {b}) = Total(B) + b.amount
<1> DEFINE C == B \union {b}
           f == [x \in C |-> x.amount]
           e == [x \in B |-> x.amount]
<1>1. \A x \in B : f[x] \in Nat /\ f[x] = e[x]
  BY DEF BillRows
<1>2. f[b] = b.amount /\ f[b] \in Nat
  BY DEF BillRows
<1>3. Total(C) = SumOf(f, C) /\ Total(B) = SumOf(e, B)
  BY TotalSum
<1> HIDE DEF f, e
<1>4. SumOf(f, C) = SumOf(f, B) + f[b]
  <2>1. \A x \in B : f[x] \in Nat
    BY <1>1
  <2> QED BY <1>2, <2>1, SumAdd
<1>5. SumOf(f, B) = SumOf(e, B)
  BY <1>1, SumCongruent
<1>6. IsFiniteSet(C)
  BY FS_AddElement
<1> QED BY <1>2, <1>3, <1>4, <1>5, <1>6

Owed(u, v, c) == Total(BilledOf(u, v, c))

\* All the money a wallet ever held.
Worth(v, c) == spent[v][c] + wallet[v][c]

\* The snapshot the next one of its upstream is compared with.
Latest(n) == n \in snaps /\ \A x \in snaps : x.up = n.up => x.id <= n.id
Counts(n, u, v, c) == Latest(n) /\ n.up = u /\ n.vendor = v /\ n.totals[c] # Bad

\* An answer for the wallet that may still be recorded for u.
Answers(a, u, v, c) ==
  pc[a] \in Answering /\ at[a].up = u /\ reading[a].vendor = v /\ reading[a].totals[c] # Bad

\* No more is billed than was spent; nor would it be if the wallet were read now, or
\* when what was read is recorded.
Covered(u, v, c) ==
  /\ Owed(u, v, c) <= spent[v][c]
  /\ \A n \in snaps : Counts(n, u, v, c) => Owed(u, v, c) + n.totals[c] <= Worth(v, c)
Billable(a, u, v, c) ==
  LET m == reading[a].totals[c] IN
  /\ Owed(u, v, c) + m <= Worth(v, c)
  /\ \A n \in snaps : Counts(n, u, v, c) => Owed(u, v, c) + n.totals[c] <= spent[v][c] + m
Money ==
  NoLoss => \A u \in Upstreams, v \in Wallets, c \in Currencies :
    /\ IsFiniteSet(BilledOf(u, v, c))
    /\ Covered(u, v, c)
    /\ \A a \in Actors : Answers(a, u, v, c) => Billable(a, u, v, c)

\* The amounts are numbers.
LEMMA Numeric ==
  ASSUME Typed, NEW u \in Upstreams, NEW v \in Wallets, NEW c \in Currencies
  PROVE  /\ spent[v][c] \in Nat /\ wallet[v][c] \in Nat
         /\ IsFiniteSet(BilledOf(u, v, c)) => Owed(u, v, c) \in Nat
         /\ \A n \in snaps : n.totals[c] # Bad => n.totals[c] \in Nat
         /\ \A a \in Actors : Answers(a, u, v, c) => reading[a].totals[c] \in Nat
<1>1. v \in Vendors
  BY DEF Vendors
<1>2. spent[v][c] \in Nat /\ wallet[v][c] \in Nat
  BY <1>1 DEF Typed, WorldTyped
<1>3. IsFiniteSet(BilledOf(u, v, c)) => Owed(u, v, c) \in Nat
  <2>1. BilledOf(u, v, c) \subseteq BillRows
    BY DEF BilledOf, Typed, LedgerTyped
  <2> QED BY <2>1, TotalNat DEF Owed
<1>4. \A n \in snaps : n.totals[c] # Bad => n.totals[c] \in Nat
  BY DEF Typed, LedgerTyped, Snapshots, Amounts
<1>5. \A a \in Actors : Answers(a, u, v, c) => reading[a].totals[c] \in Nat
  BY DEF Typed, Answered, Answers, Answering, Readings, Amounts
<1> QED BY <1>2, <1>3, <1>4, <1>5

LEMMA MoneyInit == Init => Money
<1> SUFFICES ASSUME Init, NEW u \in Upstreams, NEW v \in Wallets, NEW c \in Currencies
             PROVE  /\ IsFiniteSet(BilledOf(u, v, c)) /\ Covered(u, v, c)
                    /\ \A a \in Actors : ~Answers(a, u, v, c)
  BY DEF Money
<1>1. BilledOf(u, v, c) = {} /\ snaps = {} /\ spent[v][c] = 0
  BY DEF Init, BilledOf, Vendors
<1>2. Covered(u, v, c)
  BY <1>1, TotalNone DEF Covered, Owed
<1>3. \A a \in Actors : ~Answers(a, u, v, c)
  BY DEF Init, Answers, Answering
<1> QED BY <1>1, <1>2, <1>3, FS_EmptySet

\* No step takes money out of a wallet that is not spent.
Solvent ==
  \A v \in Wallets, c \in Currencies :
    spent[v][c] <= spent'[v][c] /\ spent[v][c] + wallet[v][c] <= spent'[v][c] + wallet'[v][c]

\* A step that records nothing.
LEMMA MoneyCalm ==
  ASSUME Typed, Typed', Money, UNCHANGED <<snaps, bills>>, lost => lost', Solvent,
         \A b \in Actors : pc'[b] \in Answering =>
           pc[b] \in Answering /\ at'[b] = at[b] /\ reading'[b] = reading[b]
  PROVE  Money'
<1> SUFFICES ASSUME NoLoss, NEW u \in Upstreams, NEW v \in Wallets, NEW c \in Currencies
             PROVE  /\ IsFiniteSet(BilledOf(u, v, c))' /\ Covered(u, v, c)'
                    /\ \A a \in Actors : Answers(a, u, v, c)' => Billable(a, u, v, c)'
  BY DEF Money, NoLoss
<1>1. IsFiniteSet(BilledOf(u, v, c)) /\ Covered(u, v, c)
  BY DEF Money
<1>2. BilledOf(u, v, c)' = BilledOf(u, v, c) /\ Owed(u, v, c)' = Owed(u, v, c)
  BY DEF BilledOf, Owed
<1>3. \A n : Counts(n, u, v, c)' <=> Counts(n, u, v, c)
  BY DEF Counts, Latest
<1>4. /\ Owed(u, v, c) \in Nat
      /\ spent[v][c] \in Nat /\ wallet[v][c] \in Nat /\ spent'[v][c] \in Nat /\ wallet'[v][c] \in Nat
      /\ \A n \in snaps : Counts(n, u, v, c) => n.totals[c] \in Nat
  <2>1. spent'[v][c] \in Nat /\ wallet'[v][c] \in Nat
    BY DEF Typed, WorldTyped, Vendors
  <2> QED BY <1>1, <2>1, Numeric DEF Counts
<1>5. spent[v][c] <= spent'[v][c] /\ spent[v][c] + wallet[v][c] <= spent'[v][c] + wallet'[v][c]
  BY DEF Solvent
<1>6. Covered(u, v, c)'
  <2>1. Owed(u, v, c) <= spent'[v][c]
    BY <1>1, <1>4, <1>5 DEF Covered
  <2>2. ASSUME NEW n \in snaps, Counts(n, u, v, c) PROVE Owed(u, v, c) + n.totals[c] <= spent'[v][c] + wallet'[v][c]
    BY <1>1, <1>4, <1>5, <2>2 DEF Covered, Worth
  <2> QED BY <1>2, <1>3, <2>1, <2>2 DEF Covered, Worth
<1>7. ASSUME NEW a \in Actors, Answers(a, u, v, c)' PROVE Billable(a, u, v, c)'
  <2>1. Answers(a, u, v, c) /\ reading'[a] = reading[a]
    BY <1>7 DEF Answers
  <2> DEFINE m == reading[a].totals[c]
  <2>2. m \in Nat
    BY <2>1, Numeric
  <2>3. Billable(a, u, v, c)
    BY <2>1 DEF Money
  <2>4. Owed(u, v, c) + m <= spent'[v][c] + wallet'[v][c]
    BY <1>4, <1>5, <2>2, <2>3 DEF Billable, Worth
  <2>5. ASSUME NEW n \in snaps, Counts(n, u, v, c) PROVE Owed(u, v, c) + n.totals[c] <= spent'[v][c] + m
    BY <1>4, <1>5, <2>2, <2>3, <2>5 DEF Billable
  <2> QED BY <1>2, <1>3, <2>1, <2>4, <2>5 DEF Billable, Worth
<1> QED BY <1>1, <1>2, <1>6, <1>7

\* What a wallet shows when it is read.
LEMMA MoneyFetch ==
  ASSUME Typed, Typed', Money, NEW a \in Actors, FetchBalance(a)
  PROVE  Money'
<1>1. PICK unread \in SUBSET Currencies :
        reading' = [reading EXCEPT ![a] = Normalized(at[a].vendor, unread)]
  BY DEF FetchBalance
<1>2. pc[a] = "fetch" /\ pc' = [pc EXCEPT ![a] = "send"] /\ UNCHANGED <<at, snaps, bills, spent, wallet, lost>>
  BY DEF FetchBalance, Move, world, ledger
<1>3. reading'[a] = Normalized(at[a].vendor, unread)
      /\ \A b \in Actors : b # a => pc'[b] = pc[b] /\ reading'[b] = reading[b]
  BY <1>1, <1>2 DEF Typed, RefreshTyped
<1> SUFFICES ASSUME NoLoss, NEW u \in Upstreams, NEW v \in Wallets, NEW c \in Currencies
             PROVE  /\ IsFiniteSet(BilledOf(u, v, c))' /\ Covered(u, v, c)'
                    /\ \A b \in Actors : Answers(b, u, v, c)' => Billable(b, u, v, c)'
  BY <1>2 DEF Money, NoLoss
<1>4. BilledOf(u, v, c)' = BilledOf(u, v, c) /\ Owed(u, v, c)' = Owed(u, v, c) /\ Worth(v, c)' = Worth(v, c)
  BY <1>2 DEF BilledOf, Owed, Worth
<1>5. \A n : Counts(n, u, v, c)' <=> Counts(n, u, v, c)
  BY <1>2 DEF Counts, Latest
<1>6. IsFiniteSet(BilledOf(u, v, c)) /\ Covered(u, v, c)
  BY DEF Money
<1>7. Covered(u, v, c)'
  BY <1>2, <1>4, <1>5, <1>6 DEF Covered
<1>8. ASSUME NEW b \in Actors, Answers(b, u, v, c)' PROVE Billable(b, u, v, c)'
  <2>1. CASE b = a
    <3>1. reading'[a].totals[c] = wallet[v][c]
      BY <1>3, <1>8, <2>1 DEF Answers, Normalized
    <3>2. Owed(u, v, c) + wallet[v][c] <= Worth(v, c)
      BY <1>6, Numeric DEF Covered, Worth
    <3> QED BY <1>2, <1>4, <1>5, <1>6, <2>1, <3>1, <3>2 DEF Billable, Covered, Worth
  <2>2. CASE b # a
    <3>1. Answers(b, u, v, c) /\ reading'[b] = reading[b]
      BY <1>2, <1>3, <1>8, <2>2 DEF Answers
    <3>2. Billable(b, u, v, c)
      BY <3>1 DEF Money
    <3> QED BY <1>2, <1>4, <1>5, <3>1, <3>2 DEF Billable
  <2> QED BY <2>1, <2>2
<1> QED BY <1>4, <1>6, <1>7, <1>8

\* What a snapshot bills in a currency is one bill, for what the one it is compared with
\* had more.
LEMMA OneBill ==
  ASSUME Typed, NEW n \in Snapshots, NEW b \in recordBillFromBalanceDelta(snaps, n),
         \A x \in snaps : x.up = n.up => x.id < n.id
  PROVE  \E o \in snaps :
           /\ Counts(o, n.up, n.vendor, b.currency) /\ n.totals[b.currency] # Bad
           /\ b = BillFor(o, n, b.currency) /\ o = Baseline(snaps, n)
           /\ b.up = n.up /\ b.vendor = n.vendor
           /\ b.amount = o.totals[b.currency] - n.totals[b.currency]
<1> DEFINE o == Baseline(snaps, n)
           E == Earlier(snaps, n)
<1>1. E # {} /\ Comparable(o, n) /\ \E c \in Fallen(o, n) : b = BillFor(o, n, c)
  BY DEF recordBillFromBalanceDelta
<1>2. IsFiniteSet(E) /\ \A x \in E : x.id \in Nat /\ x \in snaps
  BY FS_Subset DEF Typed, LedgerTyped, Earlier, Snapshots
<1>3. o \in E /\ \A x \in E : x.id <= o.id
  <2> HIDE DEF E
  <2>1. Newest(E) \in E /\ \A x \in E : x.id <= Newest(E).id
    BY <1>1, <1>2, NewestIs
  <2> QED BY <2>1 DEF Baseline, E
<1>4. o \in snaps /\ o.up = n.up /\ \A x \in snaps : x.up = o.up => x.id <= o.id
  BY <1>3 DEF Earlier
<1>5. PICK c \in Fallen(o, n) : b = BillFor(o, n, c)
  BY <1>1
<1> HIDE DEF o, E
<1>6. /\ b.up = n.up /\ b.vendor = n.vendor /\ b.currency = c
      /\ b.amount = o.totals[c] - n.totals[c]
  BY <1>5 DEF BillFor, Amount
<1>7. o.totals[c] # Bad /\ n.totals[c] # Bad /\ o.vendor = n.vendor
  BY <1>1, <1>5 DEF Fallen, Amount, Comparable
<1> QED BY <1>4, <1>5, <1>6, <1>7 DEF Counts, Latest, o

\* A transaction that is kept.
LEMMA MoneyKeep ==
  ASSUME Ledger, Money, Typed', NEW p \in Procs, tx[p] # NoTx, Kept(tx[p]),
         UNCHANGED <<lost, spent, wallet>>, pc'[tx[p].actor] \notin Answering,
         \A b \in Actors : pc'[b] \in Answering =>
           pc[b] \in Answering /\ at'[b] = at[b] /\ reading'[b] = reading[b]
  PROVE  Money'
<1> SUFFICES ASSUME NoLoss, NEW u \in Upstreams, NEW v \in Wallets, NEW c \in Currencies
             PROVE  /\ IsFiniteSet(BilledOf(u, v, c))' /\ Covered(u, v, c)'
                    /\ \A b \in Actors : Answers(b, u, v, c)' => Billable(b, u, v, c)'
  BY DEF Money, NoLoss
<1> USE DEF Ledger, Numbers, InOrder
<1> DEFINE a == tx[p].actor
           n == tx[p].snap
           D == tx[p].bills
           old == BilledOf(u, v, c)
           new == {b \in D : b.up = u /\ b.vendor = v /\ b.currency = c}
<1>1. /\ a \in Actors /\ Home(a) = p /\ pc[a] = "write" /\ pc'[a] \notin Answering
      /\ n \in Snapshots /\ D \subseteq BillRows
  BY OpenTx DEF Typed, Opened
<1>2. snaps' = snaps \union {n} /\ bills' = bills \union D
  BY DEF Kept
<1>3. n.up = at[a].up /\ n.vendor = reading[a].vendor /\ n.totals = reading[a].totals
  BY <1>1 DEF Faithful
<1>4. (\A x \in snaps : x.up = n.up => x.id < n.id) /\ D = recordBillFromBalanceDelta(snaps, n)
  BY <1>1, <1>3 DEF Last
<1>5. \A b \in D : b.up = n.up /\ b.snap = n.id
  <2>1. \A b \in D : b.snap = n.id
    BY DEF Billed
  <2> HIDE DEF n, D
  <2>2. \A b \in D : b.up = n.up
    BY <1>1, <1>4, OneBill
  <2> QED BY <2>1, <2>2
<1>6. \A b \in D : b \notin bills
  <2>1. \A b \in bills : b.snap # n.id
    BY DEF Billed
  <2> QED BY <1>5, <2>1
<1>7. BilledOf(u, v, c)' = old \union new
  BY <1>2 DEF BilledOf
<1>8. /\ IsFiniteSet(old) /\ Covered(u, v, c) /\ old \subseteq BillRows
      /\ Owed(u, v, c) = Total(old) /\ Owed(u, v, c)' = Total(old \union new)
  <2>1. IsFiniteSet(old) /\ Covered(u, v, c)
    BY DEF Money
  <2>2. old \subseteq BillRows
    BY DEF BilledOf, Typed, LedgerTyped
  <2>3. Owed(u, v, c) = Total(old) /\ Owed(u, v, c)' = Total(old \union new)
    BY <1>7 DEF Owed
  <2> QED BY <2>1, <2>2, <2>3
<1>9. Worth(v, c)' = Worth(v, c)
  BY DEF Worth
<1> HIDE DEF a, n, D, old
<1>10. CASE u # n.up
  <2>1. new = {}
    BY <1>5, <1>10
  <2>2. Owed(u, v, c)' = Owed(u, v, c) /\ IsFiniteSet(BilledOf(u, v, c))'
    BY <1>7, <1>8, <2>1
  <2>3. \A x \in snaps' : Counts(x, u, v, c)' => x \in snaps /\ Counts(x, u, v, c)
    BY <1>2, <1>10 DEF Counts, Latest
  <2>4. Covered(u, v, c)'
    BY <1>8, <1>9, <2>2, <2>3 DEF Covered
  <2>5. ASSUME NEW b \in Actors, Answers(b, u, v, c)' PROVE Billable(b, u, v, c)'
    <3>1. Answers(b, u, v, c) /\ reading'[b] = reading[b]
      BY <2>5 DEF Answers
    <3>2. Billable(b, u, v, c)
      BY <3>1 DEF Money
    <3> QED BY <1>9, <2>2, <2>3, <3>1, <3>2 DEF Billable
  <2> QED BY <2>2, <2>4, <2>5
<1>11. CASE u = n.up
  <2>1. ASSUME NEW b \in Actors PROVE ~Answers(b, u, v, c)'
    <3> SUFFICES ASSUME Answers(b, u, v, c)' PROVE FALSE
      OBVIOUS
    <3>1. pc'[b] \in Answering /\ pc[b] \in Answering /\ at[b].up = u
      BY DEF Answers
    <3>2. b = a
      BY <1>1, <1>3, <1>11, <3>1, Exclusive DEF Fetching, Answering
    <3> QED BY <1>1, <3>1, <3>2
  <2>2. ASSUME NEW x \in snaps', Counts(x, u, v, c)' PROVE x = n /\ n.vendor = v /\ n.totals[c] # Bad
    <3>1. x.up = u /\ x.vendor = v /\ x.totals[c] # Bad /\ n.id <= x.id
      BY <1>2, <1>11, <2>2 DEF Counts, Latest
    <3>2. x \notin snaps
      <4> SUFFICES ASSUME x \in snaps PROVE FALSE
        OBVIOUS
      <4>1. x.id < n.id /\ x.id \in Nat /\ n.id \in Nat
        BY <1>1, <1>4, <1>11, <3>1 DEF Typed, LedgerTyped, Snapshots
      <4> QED BY <3>1, <4>1
    <3> QED BY <1>2, <3>1, <3>2
  <2>3. n.vendor = v /\ n.totals[c] # Bad => Answers(a, u, v, c) /\ Billable(a, u, v, c) /\ n.totals[c] \in Nat
    <3>1. n.vendor = v /\ n.totals[c] # Bad => Answers(a, u, v, c)
      BY <1>1, <1>3, <1>11 DEF Answers, Answering
    <3> QED BY <1>1, <1>3, <3>1, Numeric DEF Money
  <2>4. CASE new = {}
    <3>1. Owed(u, v, c)' = Owed(u, v, c) /\ IsFiniteSet(BilledOf(u, v, c))'
      BY <1>7, <1>8, <2>4
    <3>2. ASSUME NEW x \in snaps', Counts(x, u, v, c)' PROVE Owed(u, v, c) + x.totals[c] <= Worth(v, c)
      BY <1>3, <2>2, <2>3, <3>2 DEF Billable
    <3> QED BY <1>8, <1>9, <2>1, <3>1, <3>2 DEF Covered
  <2>5. ASSUME NEW b \in new PROVE IsFiniteSet(BilledOf(u, v, c))' /\ Covered(u, v, c)'
    <3>1. b \in D /\ b.vendor = v /\ b.currency = c
      OBVIOUS
    <3>2. PICK o \in snaps :
            /\ Counts(o, n.up, n.vendor, c) /\ n.totals[c] # Bad
            /\ b = BillFor(o, n, c) /\ o = Baseline(snaps, n) /\ b.vendor = n.vendor
            /\ b.amount = o.totals[c] - n.totals[c]
      BY <1>1, <1>4, <3>1, OneBill
    <3>3. new = {b}
      <4>1. ASSUME NEW d \in new PROVE d = BillFor(Baseline(snaps, n), n, c)
        BY <1>1, <1>4, OneBill
      <4> QED BY <3>2, <4>1
    <3>4. b \notin old /\ b \in BillRows
      BY <1>1, <1>6, <3>1 DEF BilledOf, old
    <3>5. IsFiniteSet(old \union {b}) /\ Total(old \union {b}) = Total(old) + b.amount
      BY <1>8, <3>4, TotalMore
    <3> DEFINE w == Owed(u, v, c)
    <3>6. Owed(u, v, c)' = w + (o.totals[c] - n.totals[c])
      BY <1>8, <3>2, <3>3, <3>5
    <3>7. /\ w \in Nat /\ o.totals[c] \in Nat /\ n.totals[c] \in Nat
          /\ spent[v][c] \in Nat /\ wallet[v][c] \in Nat
      <4>1. n.vendor = v /\ o.totals[c] # Bad
        BY <3>1, <3>2 DEF Counts
      <4>2. Typed
        OBVIOUS
      <4>3. spent[v][c] \in Nat /\ wallet[v][c] \in Nat
        BY <4>2, Numeric
      <4>4. w \in Nat
        BY <1>8, <4>2, TotalNat
      <4>5. o.totals[c] \in Nat
        BY <4>1, <4>2, Numeric
      <4> QED BY <2>3, <3>2, <4>1, <4>3, <4>4, <4>5
    <3>8. w + o.totals[c] <= spent[v][c] + n.totals[c] /\ w + o.totals[c] <= Worth(v, c)
      BY <1>3, <1>8, <1>11, <2>3, <3>1, <3>2 DEF Billable, Covered
    <3> HIDE DEF w, new
    <3>9. Owed(u, v, c)' <= spent[v][c] /\ Owed(u, v, c)' + n.totals[c] <= Worth(v, c)
      BY <3>6, <3>7, <3>8 DEF Worth
    <3> QED BY <1>7, <1>9, <2>2, <3>3, <3>5, <3>9 DEF Covered
  <2> QED BY <2>1, <2>4, <2>5
<1> QED BY <1>10, <1>11

LEMMA MoneyNext == Ledger /\ Ledger' /\ Money /\ [Next]_vars => Money'
<1> SUFFICES ASSUME Ledger, Ledger', Money, [Next]_vars PROVE Money'
  OBVIOUS
<1> USE DEF Ledger
<1>1. \A v \in Wallets, c \in Currencies : spent[v][c] \in Nat /\ wallet[v][c] \in Nat
  BY DEF Typed, WorldTyped, Vendors
<1>2. ASSUME UNCHANGED <<spent, wallet>> PROVE Solvent
  BY <1>1, <1>2 DEF Solvent
<1>3. ASSUME NEW v \in Wallets, NEW c \in Currencies, Spend(v, c) \/ TopUp(v, c) PROVE Money'
  <2>1. UNCHANGED <<snaps, bills, lost, pc, at, reading>>
    BY <1>3 DEF Spend, TopUp, refresh, ledger
  <2>2. ASSUME NEW x \in Wallets, NEW d \in Currencies
        PROVE  /\ spent[x][d] <= spent'[x][d]
               /\ spent[x][d] + wallet[x][d] <= spent'[x][d] + wallet'[x][d]
    <3>1. CASE Spend(v, c)
      <4>1. wallet[v][c] > 0 /\ wallet' = [wallet EXCEPT ![v][c] = @ - 1] /\ spent' = [spent EXCEPT ![v][c] = @ + 1]
        BY <3>1 DEF Spend
      <4>2. CASE x = v /\ d = c
        <5>1. spent'[x][d] = spent[x][d] + 1 /\ wallet'[x][d] = wallet[x][d] - 1
          BY <4>1, <4>2 DEF Typed, WorldTyped, Vendors
        <5> QED BY <1>1, <5>1
      <4>3. CASE ~(x = v /\ d = c)
        <5>1. spent'[x][d] = spent[x][d] /\ wallet'[x][d] = wallet[x][d]
          BY <4>1, <4>3 DEF Typed, WorldTyped, Vendors
        <5> QED BY <1>1, <5>1
      <4> QED BY <4>2, <4>3
    <3>2. CASE TopUp(v, c)
      <4>1. wallet' = [wallet EXCEPT ![v][c] = @ + 1] /\ spent' = spent
        BY <3>2 DEF TopUp
      <4>2. wallet'[x][d] \in {wallet[x][d], wallet[x][d] + 1}
        BY <4>1 DEF Typed, WorldTyped, Vendors
      <4> QED BY <1>1, <4>1, <4>2
    <3> QED BY <1>3, <3>1, <3>2
  <2>3. Solvent
    BY <2>2 DEF Solvent
  <2> QED BY <2>1, <2>3, MoneyCalm
<1>4. CASE \/ \E u \in Upstreams, v \in Vendors \union {Nothing} : Repoint(u, v)
           \/ \E u \in Upstreams : Switch(u) \/ LoseSession(u)
           \/ \E p \in Procs : StopPoller(p) \/ StopWriter(p) \/ CloseDB(p) \/ Boot(p)
           \/ UNCHANGED vars
  <2>1. UNCHANGED <<snaps, bills, pc, at, reading, spent, wallet>> /\ (lost => lost')
    BY <1>4 DEF Repoint, Switch, LoseSession, StopPoller, StopWriter, CloseDB, Boot, vars, refresh, ledger, world
  <2> QED BY <1>2, <2>1, MoneyCalm
<1>5. ASSUME NEW a \in Actors,
             \/ BeginPoll(a) \/ \E u \in Upstreams : BeginRefresh(a, u)
             \/ EndPoll(a) \/ TakeMutex(a) \/ AcquireBalanceLock(a) \/ LockFails(a)
             \/ FetchFails(a) \/ Submit(a) \/ RecordBalanceSnapshot(a) \/ Rollback(a) \/ Unlock(a)
      PROVE  Money'
  <2>1. UNCHANGED <<snaps, bills, lost, spent, wallet>>
    BY <1>5 DEF BeginPoll, BeginRefresh, EndPoll, TakeMutex, AcquireBalanceLock, LockFails, FetchFails, Submit,
                RecordBalanceSnapshot, Rollback, Unlock, world, ledger
  <2>2. \A b \in Actors : b # a => pc'[b] = pc[b] /\ at'[b] = at[b] /\ reading'[b] = reading[b]
    BY <1>5 DEF BeginPoll, BeginRefresh, EndPoll, TakeMutex, AcquireBalanceLock, LockFails, FetchFails, Submit,
                RecordBalanceSnapshot, Rollback, Unlock, Move, Forget, Typed, RefreshTyped
  <2>3. pc'[a] \in Answering => pc[a] \in Answering /\ at'[a] = at[a] /\ reading'[a] = reading[a]
    <3>1. CASE Submit(a) \/ RecordBalanceSnapshot(a)
      BY <3>1 DEF Submit, RecordBalanceSnapshot, Answering
    <3>2. CASE ~(Submit(a) \/ RecordBalanceSnapshot(a))
      BY <1>5, <3>2 DEF BeginPoll, BeginRefresh, EndPoll, TakeMutex, AcquireBalanceLock, LockFails, FetchFails,
                        Rollback, Unlock, Move, Answering, Typed, RefreshTyped
    <3> QED BY <3>1, <3>2
  <2>4. \A b \in Actors : pc'[b] \in Answering =>
          pc[b] \in Answering /\ at'[b] = at[b] /\ reading'[b] = reading[b]
    BY <2>2, <2>3
  <2> QED BY <1>2, <2>1, <2>4, MoneyCalm
<1>6. ASSUME NEW a \in Actors, FetchBalance(a) PROVE Money'
  BY <1>6, MoneyFetch
<1>7. ASSUME NEW a \in Actors, Commit(a) PROVE Money'
  <2>1. Home(a) \in Procs /\ tx[Home(a)] # NoTx /\ tx[Home(a)].actor = a
    BY <1>7, WriterHasTx DEF Commit
  <2>2. /\ Kept(tx[Home(a)]) /\ pc' = [pc EXCEPT ![a] = "unlock"]
        /\ UNCHANGED <<lost, spent, wallet, at, reading>>
    BY <1>7 DEF Commit, Move, world
  <2>3. pc'[a] \notin Answering /\ \A b \in Actors : pc'[b] \in Answering => pc[b] \in Answering
    BY <2>2 DEF Answering, Typed, RefreshTyped
  <2> QED BY <2>1, <2>2, <2>3, MoneyKeep
<1>8. ASSUME NEW p \in Procs, Exit(p) \/ Crash(p) PROVE Money'
  <2>1. /\ Vanish(p) /\ UNCHANGED <<lost, spent, wallet>>
        /\ UNCHANGED <<snaps, bills>> \/ (tx[p] # NoTx /\ Kept(tx[p]))
    BY <1>8, ExitIsVanish DEF world
  <2>2. ASSUME NEW b \in Actors
        PROVE  /\ Home(b) = p => pc'[b] = "idle"
               /\ Home(b) # p => pc'[b] = pc[b] /\ at'[b] = at[b] /\ reading'[b] = reading[b]
    BY <2>1 DEF Vanish, Of
  <2>3. \A b \in Actors : pc'[b] \in Answering =>
          pc[b] \in Answering /\ at'[b] = at[b] /\ reading'[b] = reading[b]
    BY <2>2 DEF Answering
  <2>4. CASE UNCHANGED <<snaps, bills>>
    BY <1>2, <2>1, <2>3, <2>4, MoneyCalm
  <2>5. CASE tx[p] # NoTx /\ Kept(tx[p])
    <3>1. tx[p].actor \in Actors /\ Home(tx[p].actor) = p
      BY <2>5, OpenTx DEF Typed, Opened
    <3>2. pc'[tx[p].actor] \notin Answering
      BY <2>2, <3>1 DEF Answering
    <3> QED BY <2>1, <2>3, <2>5, <3>2, MoneyKeep
  <2> QED BY <2>1, <2>4, <2>5
<1> QED BY <1>3, <1>4, <1>5, <1>6, <1>7, <1>8 DEF Next

\* As long as no session lock is lost, the bills of an upstream never exceed what was
\* spent from its wallet, with top-ups, changes of vendor, refreshes that crash, fail or
\* commit with an error, and rows that were stale when the vendor was asked.
THEOREM NothingIsBilledTwice == Spec => []NeverOverbilled
<1>1. Init => Ledger /\ Money
  BY LedgerInit, MoneyInit
<1>2. Ledger /\ Money /\ [Next]_vars => Ledger' /\ Money'
  BY LedgerNext, MoneyNext
<1>3. Money => NeverOverbilled
  BY DEF Money, Covered, Owed, NeverOverbilled
<1> QED BY <1>1, <1>2, <1>3, PTL DEF Spec
=============================================================================
