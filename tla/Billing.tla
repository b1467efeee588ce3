------------------------------- MODULE Billing -------------------------------
(***************************************************************************)
(* Balance billing: pollers and administrators of several processes ask a  *)
(* vendor for the balance of an upstream's wallet, archive the answer as a *)
(* snapshot and bill what the wallet has lost since the snapshot before.   *)
(* The ledger is the shared database; a refresh holds a mutex of its       *)
(* process and a session lock of the database from before the fetch until  *)
(* its snapshot is recorded.  Processes crash, shut down and start again,  *)
(* fetches and commits fail, and the session that holds a lock may die.    *)
(***************************************************************************)
EXTENDS Naturals, FiniteSets

CONSTANTS
  Procs,        \* processes that share the database
  Actors,       \* pairs of a process and a role: its poll loop, its poll at boot, an administrator
  Upstreams,
  Wallets,      \* vendors that report a balance: one wallet for each
  QuotaVendors, \* vendors that report a quota, which is not money
  Currencies,
  Nothing,      \* no holder, no transaction, no vendor
  Bad,          \* an amount that does not parse
  FirstVendor,  \* where every upstream points at first
  FirstTotal,   \* what every wallet holds at first
  MaxRefreshes, \* bound: refreshes, polls included
  MaxEvents     \* bound: changes of wallets and rows, stops, crashes, lost sessions

Roles   == {"loop", "boot", "admin"}
Vendors == Wallets \union QuotaVendors

ASSUME BillingAssumption ==
  /\ Actors \subseteq Procs \X Roles
  /\ FirstVendor \in Vendors /\ {FirstTotal, MaxRefreshes, MaxEvents} \subseteq Nat
  /\ Bad \notin Nat /\ Nothing \notin Actors \union Vendors

Home(a) == a[1]
Role(a) == a[2]

VARIABLES
  dialect,  \* "sqlite" (one process, no session locks) or "shared" (PG, MySQL)
  phase,    \* per process: "up", "stopping" (the poller), "draining" (the writer), "closed", "down"
  rows,     \* per upstream: the vendor its URL points at (Nothing: unsupported) and whether it is enabled
  wallet,   \* per vendor and currency: what is in it now
  mutex,    \* per process and upstream: who holds the process's mutex
  lock,     \* per upstream: whose session holds the database's lock
  pc,       \* per actor: where its refresh is
  todo,     \* per actor: upstreams still to be polled, with the rows read at its beginning
  at,       \* per actor: the upstream it is refreshing, with that row
  reading,  \* per actor: what the vendor answered
  tx,       \* per process: the transaction its writer runs
  snaps,    \* balance_snapshots: the committed rows
  bills,    \* bills: the committed rows of kind auto (what is deleted by hand is not derived again)
  nextId,   \* the next id of a snapshot
  spent,    \* history: per wallet and currency, what was spent
  clock,    \* history: per vendor, how often its wallet has changed
  lost,     \* history: a session that held a lock has died
  used      \* how much of each bound is used
ledger == <<snaps, bills, nextId>>
world  == <<rows, wallet, spent, clock, lost>>
refresh == <<mutex, lock, pc, todo, at, reading>>
vars == <<dialect, phase, world, refresh, tx, ledger, used>>

Use(bound, max) == used[bound] < max /\ used' = [used EXCEPT ![bound] = @ + 1]
Event == Use("events", MaxEvents)

NoRow == [up |-> Nothing, vendor |-> Nothing, on |-> FALSE]
NoTx  == [snap |-> Nothing, bills |-> {}, actor |-> Nothing]

-----------------------------------------------------------------------------
(* What a snapshot bills *)

Amount(s, c) == s.totals[c]

\* Mutant: no check of the vendor.
ComparableKinds(old, new) == old.kind = "balance" /\ new.kind = "balance"

\* Both snapshots are of the same wallet: a change of vendor is a change of account,
\* and quotas are no money.
Comparable(old, new) == old.kind = "balance" /\ new.kind = "balance" /\ old.vendor = new.vendor

\* Per currency what is missing since the snapshot before.  An amount that does not
\* parse costs only its currency; a balance that has risen bills nothing.
Fallen(old, new) ==
  {c \in Currencies : Amount(old, c) # Bad /\ Amount(new, c) # Bad /\ Amount(old, c) > Amount(new, c)}

BillFor(old, new, c) ==
  [snap |-> new.id, up |-> new.up, vendor |-> new.vendor, currency |-> c,
   amount |-> Amount(old, c) - Amount(new, c)]

Newest(S)     == CHOOSE o \in S : \A x \in S : x.id <= o.id
Earlier(S, s) == {o \in S : o.up = s.up /\ o.id < s.id}
Baseline(S, s) == Newest(Earlier(S, s))

\* The bills a snapshot derives from the rows visible to its transaction.
recordBillFromBalanceDelta(S, s) ==
  IF Earlier(S, s) = {} \/ ~Comparable(Baseline(S, s), s) THEN {}
  ELSE {BillFor(Baseline(S, s), s, c) : c \in Fallen(Baseline(S, s), s)}

-----------------------------------------------------------------------------
(* A refresh *)

Supported(row) == row.vendor # Nothing

\* Upstreams a poll visits: those enabled and not expired, as its list was read.
Listed == {u \in Upstreams : rows[u].on}

Move(a, place) == pc' = [pc EXCEPT ![a] = place]

\* The tick of a loop (whose select may prefer it to the closed stopCh), or the poll at
\* boot.  The rows are read here, before any lock.
BeginPoll(a) ==
  /\ pc[a] = "idle"
  /\ \/ Role(a) = "loop" /\ phase[Home(a)] \in {"up", "stopping"}
     \/ Role(a) = "boot" /\ phase[Home(a)] = "up"
  /\ Use("refreshes", MaxRefreshes)
  /\ todo' = [todo EXCEPT ![a] = {[up |-> u, vendor |-> rows[u].vendor, on |-> TRUE] : u \in Listed}]
  /\ Move(a, "next")
  /\ UNCHANGED <<dialect, phase, world, mutex, lock, at, reading, tx, ledger>>

\* An administrator's request for one upstream, or one goroutine of a refresh of all.
BeginRefresh(a, u) ==
  /\ pc[a] = "idle" /\ Role(a) = "admin" /\ phase[Home(a)] = "up"
  /\ Supported(rows[u])
  /\ Use("refreshes", MaxRefreshes)
  /\ todo' = [todo EXCEPT ![a] = {[up |-> u, vendor |-> rows[u].vendor, on |-> rows[u].on]}]
  /\ Move(a, "next")
  /\ UNCHANGED <<dialect, phase, world, mutex, lock, at, reading, tx, ledger>>

\* The poll at boot happens once for each start of the process.
EndPoll(a) ==
  /\ pc[a] = "next" /\ todo[a] = {}
  /\ Move(a, IF Role(a) = "boot" THEN "ended" ELSE "idle")
  /\ UNCHANGED <<dialect, phase, world, mutex, lock, todo, at, reading, tx, ledger, used>>

\* mu.Lock(): the mutex of this process, waited for without a limit.
TakeMutex(a) ==
  /\ pc[a] = "next"
  /\ \E row \in todo[a] :
       /\ mutex[Home(a)][row.up] = Nothing
       /\ mutex' = [mutex EXCEPT ![Home(a)][row.up] = a]
       /\ at' = [at EXCEPT ![a] = row]
       /\ todo' = [todo EXCEPT ![a] = @ \ {row}]
  /\ Move(a, "lock")
  /\ UNCHANGED <<dialect, phase, world, lock, reading, tx, ledger, used>>

\* Mutant: the session lock is not taken.
AcquireNothing(a) ==
  /\ pc[a] = "lock"
  /\ Move(a, "fetch")
  /\ UNCHANGED <<dialect, phase, world, mutex, lock, todo, at, reading, tx, ledger, used>>

\* pg_advisory_lock or GET_LOCK on a connection of its own; nothing for SQLite.
AcquireBalanceLock(a) ==
  /\ pc[a] = "lock"
  /\ \/ dialect = "sqlite" /\ UNCHANGED lock
     \/ /\ dialect = "shared" /\ lock[at[a].up] = Nothing
        /\ lock' = [lock EXCEPT ![at[a].up] = a]
  /\ Move(a, "fetch")
  /\ UNCHANGED <<dialect, phase, world, mutex, todo, at, reading, tx, ledger, used>>

FreeMutex(a) == mutex' = [mutex EXCEPT ![Home(a)][at[a].up] = Nothing]
FreeLock(a)  == lock' = [u \in Upstreams |-> IF lock[u] = a THEN Nothing ELSE lock[u]]
Forget(a)    == at' = [at EXCEPT ![a] = NoRow] /\ reading' = [reading EXCEPT ![a] = Nothing]

\* Mutant: the error returns with the mutex held.
LockFailsHolding(a) ==
  /\ pc[a] = "lock" /\ dialect = "shared"
  /\ Forget(a)
  /\ Move(a, "next")
  /\ UNCHANGED <<dialect, phase, world, mutex, lock, todo, tx, ledger, used>>

\* The wait of 15 seconds runs out or the request is gone: the mutex is given back.
LockFails(a) ==
  /\ pc[a] = "lock" /\ dialect = "shared"
  /\ FreeMutex(a) /\ Forget(a)
  /\ Move(a, "next")
  /\ UNCHANGED <<dialect, phase, world, lock, todo, tx, ledger, used>>

\* The vendor's answer, normalized.  Some amounts may be in a format that does not parse.
Normalized(v, unread) ==
  [kind   |-> IF v \in Wallets THEN "balance" ELSE "quota",
   vendor |-> v,
   totals |-> [c \in Currencies |-> IF v \in QuotaVendors \/ c \in unread THEN Bad ELSE wallet[v][c]],
   age    |-> clock[v]]

\* The vendor is that of the row read at the beginning.
FetchBalance(a) ==
  /\ pc[a] = "fetch" /\ Supported(at[a])
  /\ \E unread \in SUBSET Currencies :
       /\ at[a].vendor \in QuotaVendors => unread = {}
       /\ reading' = [reading EXCEPT ![a] = Normalized(at[a].vendor, unread)]
  /\ Move(a, "send")
  /\ UNCHANGED <<dialect, phase, world, mutex, lock, todo, at, tx, ledger, used>>

\* Unsupported, unreachable, an error status, a body that does not decode, or timed out.
FetchFails(a) ==
  /\ pc[a] = "fetch"
  /\ Move(a, "unlock")
  /\ UNCHANGED <<dialect, phase, world, mutex, lock, todo, at, reading, tx, ledger, used>>

\* DoSync: accepted, or refused because the writer has been stopped.
Submit(a) ==
  /\ pc[a] = "send"
  /\ Move(a, IF phase[Home(a)] \in {"up", "stopping"} THEN "queued" ELSE "unlock")
  /\ UNCHANGED <<dialect, phase, world, mutex, lock, todo, at, reading, tx, ledger, used>>

\* The writer runs the closure: in one transaction the snapshot is inserted, the one
\* before it is read, and the bills are inserted.
RecordBalanceSnapshot(a) ==
  /\ pc[a] = "queued" /\ tx[Home(a)] = NoTx
  /\ LET s == [id |-> nextId, up |-> at[a].up, kind |-> reading[a].kind,
               vendor |-> reading[a].vendor, totals |-> reading[a].totals, age |-> reading[a].age]
     IN tx' = [tx EXCEPT ![Home(a)] =
                 [snap |-> s, bills |-> recordBillFromBalanceDelta(snaps, s), actor |-> a]]
  /\ nextId' = nextId + 1
  /\ Move(a, "write")
  /\ UNCHANGED <<dialect, phase, world, mutex, lock, todo, at, reading, snaps, bills, used>>

Kept(t) ==
  /\ snaps' = snaps \union {t.snap}
  /\ bills' = bills \union t.bills

\* Mutant: the snapshot stays when its bills fail.
RollbackBills(a) ==
  /\ pc[a] = "write"
  /\ snaps' = snaps \union {tx[Home(a)].snap}
  /\ tx' = [tx EXCEPT ![Home(a)] = NoTx]
  /\ Move(a, "unlock")
  /\ UNCHANGED <<dialect, phase, world, mutex, lock, todo, at, reading, bills, nextId, used>>

\* The transaction commits (the caller may be told of an error all the same), or an
\* insert fails and everything is rolled back.
Commit(a) ==
  /\ pc[a] = "write"
  /\ Kept(tx[Home(a)])
  /\ tx' = [tx EXCEPT ![Home(a)] = NoTx]
  /\ Move(a, "unlock")
  /\ UNCHANGED <<dialect, phase, world, mutex, lock, todo, at, reading, nextId, used>>

Rollback(a) ==
  /\ pc[a] = "write"
  /\ tx' = [tx EXCEPT ![Home(a)] = NoTx]
  /\ Move(a, "unlock")
  /\ UNCHANGED <<dialect, phase, world, mutex, lock, todo, at, reading, ledger, used>>

\* The session lock goes first (explicitly or with its discarded connection), the
\* mutex in any case.
Unlock(a) ==
  /\ pc[a] = "unlock"
  /\ FreeLock(a) /\ FreeMutex(a) /\ Forget(a)
  /\ Move(a, "next")
  /\ UNCHANGED <<dialect, phase, world, todo, tx, ledger, used>>

Step(a) ==
  \/ EndPoll(a) \/ TakeMutex(a) \/ AcquireBalanceLock(a) \/ LockFails(a) \/ FetchBalance(a) \/ FetchFails(a)
  \/ Submit(a) \/ RecordBalanceSnapshot(a) \/ Commit(a) \/ Rollback(a) \/ Unlock(a)

-----------------------------------------------------------------------------
(* Processes *)

Of(p) == {a \in Actors : Home(a) = p}

\* poller.Stop closes stopCh and waits for the loop; the poll at boot is not waited for.
StopPoller(p) ==
  /\ phase[p] = "up" /\ Event
  /\ phase' = [phase EXCEPT ![p] = "stopping"]
  /\ UNCHANGED <<dialect, world, refresh, tx, ledger>>

\* writer.Stop, once the loop has returned: closed is set, what was accepted is run.
StopWriter(p) ==
  /\ phase[p] = "stopping"
  /\ \A a \in Of(p) : Role(a) = "loop" => pc[a] = "idle"
  /\ phase' = [phase EXCEPT ![p] = "draining"]
  /\ UNCHANGED <<dialect, world, refresh, tx, ledger, used>>

\* Mutant: the writer is not drained before the database is closed.
CloseDBAtOnce(p) ==
  /\ phase[p] = "draining"
  /\ phase' = [phase EXCEPT ![p] = "closed"]
  /\ UNCHANGED <<dialect, world, refresh, tx, ledger, used>>

CloseDB(p) ==
  /\ phase[p] = "draining"
  /\ \A a \in Of(p) : pc[a] \notin {"queued", "write"}
  /\ phase' = [phase EXCEPT ![p] = "closed"]
  /\ UNCHANGED <<dialect, world, refresh, tx, ledger, used>>

\* The goroutines, mutexes and sessions of a process end with it.
Vanish(p) ==
  /\ phase' = [phase EXCEPT ![p] = "down"]
  /\ mutex' = [mutex EXCEPT ![p] = [u \in Upstreams |-> Nothing]]
  /\ lock' = [u \in Upstreams |-> IF lock[u] \in Of(p) THEN Nothing ELSE lock[u]]
  /\ pc' = [a \in Actors |-> IF a \in Of(p) THEN "idle" ELSE pc[a]]
  /\ todo' = [a \in Actors |-> IF a \in Of(p) THEN {} ELSE todo[a]]
  /\ at' = [a \in Actors |-> IF a \in Of(p) THEN NoRow ELSE at[a]]
  /\ reading' = [a \in Actors |-> IF a \in Of(p) THEN Nothing ELSE reading[a]]
  /\ tx' = [tx EXCEPT ![p] = NoTx]

Exit(p) ==
  /\ phase[p] = "closed"
  /\ Vanish(p)
  /\ UNCHANGED <<dialect, world, ledger, used>>

\* A crash: an open transaction has reached the database whole, or not at all.
Crash(p) ==
  /\ phase[p] \notin {"closed", "down"} /\ Event
  /\ Vanish(p)
  /\ \/ UNCHANGED ledger
     \/ tx[p] # NoTx /\ Kept(tx[p]) /\ UNCHANGED nextId
  /\ UNCHANGED <<dialect, world>>

Boot(p) ==
  /\ phase[p] = "down" /\ (dialect = "sqlite" => \A q \in Procs : phase[q] = "down")
  /\ phase' = [phase EXCEPT ![p] = "up"]
  /\ UNCHANGED <<dialect, world, refresh, tx, ledger, used>>

\* The connection that holds a session lock breaks: the server frees the lock, and its
\* holder does not notice.
LoseSession(u) ==
  /\ lock[u] # Nothing /\ Event
  /\ lost' = TRUE
  /\ lock' = [lock EXCEPT ![u] = Nothing]
  /\ UNCHANGED <<dialect, phase, rows, wallet, spent, clock, mutex, pc, todo, at, reading, tx, ledger>>

-----------------------------------------------------------------------------
(* The world *)

Tick(v) == clock' = [clock EXCEPT ![v] = @ + 1]

Spend(v, c) ==
  /\ wallet[v][c] > 0 /\ Event
  /\ wallet' = [wallet EXCEPT ![v][c] = @ - 1]
  /\ spent' = [spent EXCEPT ![v][c] = @ + 1]
  /\ Tick(v)
  /\ UNCHANGED <<dialect, phase, rows, lost, refresh, tx, ledger>>

TopUp(v, c) ==
  /\ Event
  /\ wallet' = [wallet EXCEPT ![v][c] = @ + 1]
  /\ Tick(v)
  /\ UNCHANGED <<dialect, phase, rows, spent, lost, refresh, tx, ledger>>

\* An administrator points the upstream at another vendor, or switches it on or off.
Repoint(u, v) ==
  /\ Event /\ v # rows[u].vendor
  /\ rows' = [rows EXCEPT ![u].vendor = v]
  /\ UNCHANGED <<dialect, phase, wallet, spent, clock, lost, refresh, tx, ledger>>

Switch(u) ==
  /\ Event
  /\ rows' = [rows EXCEPT ![u].on = ~@]
  /\ UNCHANGED <<dialect, phase, wallet, spent, clock, lost, refresh, tx, ledger>>

-----------------------------------------------------------------------------
Init ==
  /\ dialect \in {"sqlite", "shared"}
  /\ phase \in [Procs -> {"up", "down"}]
  /\ \E p \in Procs : phase[p] = "up" /\ \A r \in Procs \ {p} : (phase[r] = "up") = (dialect = "shared")
  /\ rows = [u \in Upstreams |-> [vendor |-> FirstVendor, on |-> TRUE]]
  /\ wallet = [v \in Vendors |-> [c \in Currencies |-> FirstTotal]]
  /\ mutex = [p \in Procs |-> [u \in Upstreams |-> Nothing]]
  /\ lock = [u \in Upstreams |-> Nothing]
  /\ pc = [a \in Actors |-> "idle"]
  /\ todo = [a \in Actors |-> {}]
  /\ at = [a \in Actors |-> NoRow]
  /\ reading = [a \in Actors |-> Nothing]
  /\ tx = [p \in Procs |-> NoTx]
  /\ snaps = {} /\ bills = {} /\ nextId = 1
  /\ spent = [v \in Vendors |-> [c \in Currencies |-> 0]]
  /\ clock = [v \in Vendors |-> 0]
  /\ lost = FALSE /\ used = [b \in {"refreshes", "events"} |-> 0]

Next ==
  \/ \E a \in Actors :
       \/ BeginPoll(a)
       \/ \E u \in Upstreams : BeginRefresh(a, u)
       \/ EndPoll(a)
       \/ TakeMutex(a)
       \/ AcquireBalanceLock(a)
       \/ LockFails(a)
       \/ FetchBalance(a)
       \/ FetchFails(a)
       \/ Submit(a)
       \/ RecordBalanceSnapshot(a)
       \/ Commit(a)
       \/ Rollback(a)
       \/ Unlock(a)
  \/ \E p \in Procs :
       \/ StopPoller(p)
       \/ StopWriter(p)
       \/ CloseDB(p)
       \/ Exit(p)
       \/ Crash(p)
       \/ Boot(p)
  \/ \E u \in Upstreams : LoseSession(u)
  \/ \E v \in Wallets, c \in Currencies : Spend(v, c)
  \/ \E v \in Wallets, c \in Currencies : TopUp(v, c)
  \/ \E u \in Upstreams, v \in Vendors \union {Nothing} : Repoint(u, v)
  \/ \E u \in Upstreams : Switch(u)

\* Goroutines run; the vendor's client, the wait for the lock and the database answer
\* in bounded time, and a stop goes on.
Fairness ==
  /\ \A a \in Actors : WF_vars(Step(a))
  /\ \A p \in Procs : WF_vars(StopWriter(p) \/ CloseDB(p) \/ Exit(p))
Spec == Init /\ [][Next]_vars /\ Fairness

-----------------------------------------------------------------------------
(* Properties *)

Amounts == Nat \union {Bad}
Snapshots ==
  [id : Nat, up : Upstreams, kind : {"balance", "quota"}, vendor : Vendors,
   totals : [Currencies -> Amounts], age : Nat]
Readings ==
  [kind : {"balance", "quota"}, vendor : Vendors, totals : [Currencies -> Amounts], age : Nat]
BillRows ==
  [snap : Nat, up : Upstreams, vendor : Vendors, currency : Currencies, amount : Nat \ {0}]
RowsRead == [up : Upstreams, vendor : Vendors \union {Nothing}, on : BOOLEAN]

\* Who is past the mutex of the upstream it is at.
HasMutex(a) == pc[a] \in {"lock", "fetch", "send", "queued", "write", "unlock"}

\* The variables have their types; an actor past mu.Lock() holds the mutex of its
\* upstream, and one that writes is the one whose transaction its process has open.
TypeOK ==
  /\ dialect \in {"sqlite", "shared"}
  /\ phase \in [Procs -> {"up", "stopping", "draining", "closed", "down"}]
  /\ rows \in [Upstreams -> [vendor : Vendors \union {Nothing}, on : BOOLEAN]]
  /\ wallet \in [Vendors -> [Currencies -> Nat]] /\ spent \in [Vendors -> [Currencies -> Nat]]
  /\ clock \in [Vendors -> Nat]
  /\ mutex \in [Procs -> [Upstreams -> Actors \union {Nothing}]]
  /\ lock \in [Upstreams -> Actors \union {Nothing}]
  /\ pc \in [Actors -> {"idle", "ended", "next", "lock", "fetch", "send", "queued", "write", "unlock"}]
  /\ \A a \in Actors :
       /\ todo[a] \subseteq RowsRead
       /\ at[a] \in RowsRead \union {NoRow} /\ reading[a] \in Readings \union {Nothing}
       /\ HasMutex(a) => at[a] \in RowsRead /\ mutex[Home(a)][at[a].up] = a
       /\ pc[a] \in {"send", "queued", "write"} => reading[a] \in Readings
       /\ pc[a] = "write" <=> tx[Home(a)].actor = a
  /\ snaps \subseteq Snapshots /\ bills \subseteq BillRows
  /\ nextId \in Nat /\ \A s \in snaps : s.id < nextId

\* No session that held a lock has died.
NoLoss == ~lost

\* bill.go:529-531: as long as no lock is lost, the order of the vendor's answers is the
\* order of the snapshots, whoever asked, in whichever process.
InFetchOrder ==
  NoLoss => \A s, t \in snaps :
    s.up = t.up /\ s.vendor = t.vendor /\ s.id < t.id => s.age <= t.age

\* What was billed for a wallet through one upstream.
BilledOf(u, v, c) == {b \in bills : b.up = u /\ b.vendor = v /\ b.currency = c}

\* Sum of the amounts of a set of bills of one wallet (each is of another snapshot).
Total(B) == LET sum[S \in SUBSET B] ==
              IF S = {} THEN 0 ELSE LET b == CHOOSE b \in S : TRUE IN b.amount + sum[S \ {b}]
            IN sum[B]

\* Nothing is billed twice: as long as no lock is lost, the bills of an upstream never
\* exceed what was spent, with top-ups, changes of vendor, refreshes that crash, fail
\* or commit with an error, and rows that were stale when the vendor was asked.
NeverOverbilled ==
  NoLoss => \A u \in Upstreams, v \in Wallets, c \in Currencies : Total(BilledOf(u, v, c)) <= spent[v][c]

\* bill.go:524-527: a snapshot is committed with the bills it owes to the one before it
\* in the ledger, or neither is: no consumption between two snapshots falls into a gap.
NoGap ==
  NoLoss => \A t \in snaps : {b \in bills : b.snap = t.id} = recordBillFromBalanceDelta(snaps, t)

\* main.go:89-90: the database is closed when no write is queued or running, although
\* the poll at boot and administrators' requests may still be under way.
ClosedQuietly ==
  \A p \in Procs : phase[p] = "closed" => \A a \in Of(p) : pc[a] \notin {"queued", "write"}

\* A refresh ends: no failure leaves a mutex or a session lock behind that the others
\* of the process or of other processes wait for.
RefreshesEnd == \A a \in Actors : pc[a] = "next" ~> pc[a] \in {"idle", "ended"}
=============================================================================
