# any-llm in TLA+

any-llm is a gateway for language models, written in Go: clients call it in one of three protocols, it picks an upstream,
translates, forwards, records usage, and has an administrative API. This directory holds
TLA+ modules of the parts whose correctness depends on how goroutines, callers, writes and failures interleave, the TLC
configurations that check them, and proofs checked by TLAPS.

## 1. The system

| component | state it keeps | operations | talks to |
|---|---|---|---|
| configuration read cache (`store/cache.go` with `extkey.go`, `upstream.go`, `alias.go`) | three maps of entries, a generation for each, the flights in progress; the rows in the database | lookups of keys, upstreams, aliases; create/update/delete of each, followed by maintenance of the cache | called by request handlers (lookups) and by closures in the writer (writes) |
| database writer (`db/writer.go`) | a bounded channel, `closed`, `stopCh`, a wait group | `DoSync`, `DoAsync`, `Stop`, the loop | everything that writes |
| request dispatch (`gateway/handler_openai.go`, `concurrency.go`, `failure_cache.go`) | per request: chain, position, slot, header, call; per upstream a semaphore; per candidate a cooldown | try, skip, fail over, stream, refuse | cache (chain, limits), client (calls), writer (usage) |
| upstream client (`upstream/client.go`) | a body being read, a decoder, a channel of events, the result | `Call`, `streamLoop` | dispatch (channel, result), translation |
| response sessions (`gateway/session.go`) | one row per response id: its history and the time of its last use | get, put, touch, delete of what has expired, sweep | writer, dispatch |
| request admission (`gateway/router.go`, `store/usage.go`) | usage rows | authenticate, whitelist, route, check quotas, record usage, daily statistics | cache, writer, the server's time zone |
| balance billing (`upstream/balance*.go`, `db/balance_lock.go`, `adminapi/balances.go`, `store/bill.go`) | snapshots, bills, a mutex per upstream and process, a session lock per upstream in the database | poll, refresh, record with the bills it implies, bill by hand | writer, vendors, other processes |
| conversation archive (`gateway/conversation.go`, `convid.go`, `streamrecorder.go`, `store/conversation*.go`) | records of calls and rows of conversations in monthly tables, a registry of the tables of each kind | record a call, find the row of its conversation, merge the turn, list by pages | writer |
| administrative API (`adminapi/`, `store/upstream.go`, `alias.go`, `extkey.go`) | the tables of upstreams, models, aliases with bindings, keys | create, patch, delete, fetch the models of an upstream, export, import | writer, cache, upstreams |
| admin login (`auth/auth.go`) | signed cookies | log in, renew, check | - |
| protocol translation (`translate/`) | decoders and encoders with open blocks and index maps | decode, encode, stream | client, dispatch |
| startup and shutdown (`cmd/any-llm`) | - | start, drain, stop | all |
| schema and migrations (`db/db.go`, `migrations.go`, `schema.go`) | the tables of the database, with the constraints and indexes that releases left | open: bring the schema up to date, statement by statement | the start of every process |
| configuration, logging, web console | - | - | - |

What is hard in each part, and what makes it correct:

- **Cache.** A lookup reads the database outside any lock and stores the result later; a write commits first and maintains
  the cache afterwards; rows are renamed, so an entry can be void under a name the write does not mention. Correct: what is
  cached is what the database would answer, except between a commit and its maintenance; one query per key; no waiter lost.
- **Writer.** `Stop` runs under live callers, `DoAsync` sends outside the lock, `DoSync` may block on a full channel. Correct:
  accepted writes run once, in order; who waits is told the truth; shutdown neither hangs nor drops what somebody waits for.
- **Dispatch.** Slots, cooldowns and limits are read at one moment and used at a later one; a client may leave at any step.
  Correct: a slot is held exactly while it is needed; limits hold; each call is recorded once; refusals are honest;
  a request whose client is gone ends.
- **Client and relay.** End of body, error, cancellation and disconnection race over one channel. Correct: a stream that broke is
  never reported, saved or billed as complete.
- **Sessions.** Touch, put, expired delete and sweep are queued by different requests, may be dropped, run in queue order and long after
  they were queued. Correct: a session lasts for its time to live from its last use, with the whole conversation.
- **Admission.** Quotas are check-then-act on what the writer has got to record: requests in flight overshoot them. Days have 23 to 25 hours, and some no midnight.
  Correct: quotas are overrun by no more than is in flight; who is refused or let through for a quota is so for a reason that was true; windows are local days.
- **Billing.** Several goroutines in several processes fetch a wallet's balance and record it; locks time out, database sessions die, processes
  stop or crash at any point. Correct: the order of the answers is the order of the records, nothing is billed twice, snapshot and bills are one.
- **Archive.** Turns come with the whole history or with what is new, are retried, fail, are dropped, and meet their row by a header or by the
  response they follow, over the end of a month. Correct: one row per conversation, with each message once; pages that neither repeat nor skip.
- **Admin.** Rows are matched by name, enabled and disabled ones, live and retired ones; handlers read before the writer and write inside it; an import
  is many writes. Correct: names and labels stay unique, an export can be imported, an import can be repeated, a fetch loses nothing configured.
- **Migrations.** A start finds what any release has left, what an interrupted start has left, and other processes that start too; each dialect has statements the others lack.
  Correct: who comes up has the current schema, nothing is lost on the way, and no start leaves a database that none can open.
- **Translation.** Encoders bracket blocks. Correct: every block opened is closed, one terminal frame.

`PROJECT.json` lists the hazards one by one with their lines and the properties that cover them.

## 2. Modules

| module | what it is | lines proved about it |
|---|---|---|
| `ConfigCache` | the cache and the writes that maintain it | `ConfigCache_proofs` |
| `MCConfigCache` | instances, a history of committed values, fair and unfair specifications | `ConfigCache_proofs` |
| `WriteOrder` | what a single writer promises, without channels or locks | |
| `Writer` | the writer as it is; refines `WriteOrder` | `Lifetime_proofs` |
| `Dispatch` | requests over chains of candidates, semaphores, cooldowns, disconnects | `Gateway_proofs` |
| `MCDispatch` | instances, a history of cooldowns | `Gateway_proofs` |
| `StreamEvents` | the events of a streamed answer | `Gateway_proofs` |
| `StreamDecode` | the three stream decoders, and a complete answer unfolded into events | `Gateway_proofs` |
| `StreamEncode` | the three stream encoders, `Flush`, `streamRecorder` | `Gateway_proofs` |
| `Relay` | one streamed answer from upstream to client: `streamLoop`, the channel, `pump` | `Gateway_proofs` |
| `Billing` | refreshes of balances by several goroutines of several processes, and the bills they derive | `Billing_proofs` |
| `MCBilling` | the instance | |
| `ConvStore` | the store of the archive: monthly tables, registries, merge of turns, paging, as operators | `Conversations_proofs` |
| `Archive` | one client's conversation: requests, the closures that archive them, months, faults | `Conversations_proofs` |
| `Sessions` | the session store behind the writer's queue, and the requests that chain on it | `Conversations_proofs` |
| `AdminStore` | the writes of upstreams, models, aliases and keys, as operators from a database to a database | |
| `AdminConfig` | the export and the import, in the same way | |
| `Admin` | the handlers: what they read, what they check, what they hand the writer, an import in its parts | `Admin_proofs` |
| `Usage` | windows, sums and daily statistics of the usage table, over days of any length, as operators | |
| `Admission` | requests from the key to the quotas, usage records by way of the writer | `Admission_proofs` |
| `MCAdmission` | zones, rows, a history of which quotas had room | `Admission_proofs` |
| `Migrations` | the statements of a start in the three dialects, and processes that run them | `Lifetime_proofs` |
| `Lifetime` | a process from its start over its writer to its end: `Migrations` and `Writer` together | `Lifetime_proofs` |
| `MCLifetime` | tables, and the databases releases have left | |
| `MCAdmin` | instances: starting configurations with the operations and files tried on them | |
| `Sums` | least numbers of sets, sums over finite sets, and sequences put together, for the proofs | itself |

### ConfigCache

`extKeys`, `ups`, `als` are the tables: one row per identifier, soft-deleted as in the code; a version stands for the columns
that are not names or states. `entries`, `gen`, `inflight` are `cfgCache`; a flight is identified by the request that leads it.
A closure of the writer is two kinds of step: a commit (`CreateExtKey` ... `DeleteAlias`), which leaves in
`maint` the maintenance it owes, and that maintenance (`StoreKey`, `EvictKey`, `EvictUpstream`, `EvictAliasByID`, `EvictAliasByName`), one
critical section each; no other closure starts in between. A lookup is `loadThrough` cut at its locks and queries: `Start`,
`ProbeHit`/`ProbeMiss` (read lock), `ContendHit`/`Join`/`Lead` (lock), `ReadRow`, or `ReadAlias` and
`ReadBindings` (two queries, no transaction), `ReadNothing`, `ReadFails`, `Fill` (lock, guarded by entry and generation), `Close`
(withdraw the flight, wake the waiters). Replacing the alias table replaces its flights too, as `evictUpstream` does.

Abstracted: key strings (random, unique) are the identifiers of their rows; clones are values; the time
to live is the step `Expire`. A write either commits and maintains, or nothing happens.

### Writer

`sent` is every closure sent so far, `taken` and `ran` how far the loop has come. The channel and the senders blocked on it are one
sequence, as Go channels are first come first served: the first `Cap` of the pending ones are in the buffer.
`AsyncCheck` and `AsyncSend` are apart because the code sends after unlocking. `SyncCheck` counts the call in `inflight` under the lock. `Take`, `Run`,
`SeeStop`, `EndDrain` are the loop, with the select between two ready channels left open; `StopMark`, `StopClose`, `StopReturn` are `Stop`.

### Dispatch

One request is one goroutine with `pc`: `check` (cooldown of the candidate), `pick` and `try` (the two halves of `tryAcquire`, in and
after the lock), `head` (response header of a stream), `call`, `wait`, `settle`, `pump`. The loop of `dispatch` and the two loops of the streaming path
(`acquireCandidate`, then `firstPhase` from the candidate held) make the same decisions in the same order, so that they are
one set of actions, told apart by `kind` and `flushed`: a stream takes a fresh "now" after the header (`late` forgets), keeps its
slot after a good call, and does not stop when a cancelled call comes back as an error (`Fail`). `SeeGone` is the select in `callWithKeepalive` that prefers a
gone client; the abandoned call ends by itself later. A semaphore is a record with a number: `SemFor` replaces it
when a request brings another limit, and slots of a replaced one are given back to it. Cooldown times are abstracted to
cooling / run out, with `late` for requests whose "now" is older. `seen` is the limit in the upstream row a
request has resolved; rows come from the cache, and reading an older one is the same as having started earlier.

Abstracted: bodies and protocols; a 4xx that is the request's own is `reject`, what cools a candidate is `fault`, a cancelled context `cancelled`. What `pump`
does with the answer is `Relay`, which starts where `Dispatch` is at `pump`; of it `Dispatch` needs only that it ends, well or not.

### StreamEvents, StreamDecode, StreamEncode

Decoders and encoders are pure operators from a state and a payload, or an event, to a state and the events, or frames, that come of it: the
functions of `translate/` have no state but their receivers. A frame has the shape of the event it stands for, so that `Relay` can compare
what two protocols say (`response.completed` is a `message_stop`, with the items and the usage it carries). Content is numbered in the order the upstream
sent it, tool calls are numbered too, usage is the set of its parts {"in", "out"}: what can go wrong is loss, repetition, order and attribution, not text.
Kept: every index map, the lazily opened and implicitly closed blocks of the OpenAI decoder, arguments that come with the start of a call, late or twice, the
deferred `message_delta`, made-up signatures, `started`, `completed` and the idempotent `Flush`.

Assumed of payloads: each OpenAI chunk names its model and the first one an id, so that the message starts at once and signatures can be made up; a chunk with several parts is decoded as
several; signature deltas of Anthropic upstreams, pings and the pass-through of raw objects between equal formats are left out. `opaque` stands for the kinds of block no
other protocol knows (redacted thinking, hosted tools), which arrive whole in their start.

### Relay

`format` is the pair of protocols, and whether the upstream streams at all: if it answers a streaming request with a complete body,
`ExpandFullResponse` does all. Else `reader` is `streamLoop`: `Scan` takes one payload that the upstream may send next (`OpenAISends`, `AnthropicSends`, `ResponsesSends` are the
environment: any interleaving of blocks their protocols allow; the Anthropic one may also leave out the start of a text or thinking block, as the code expects of some),
decodes it into `pending`; each send is a select between `SendEvent` and `Abandon`; the body ends in order (`BodyEnds`) or not (`ReadFails`) at any time, and the two set
`result.err` or do not. `pump` is `Forward` for each event (archive first, then the made-up start, then the event), `UpstreamError`,
`StreamOver` and `SeesClientGone` for the three ways out of the loop, and `Settle` for all that follows: flush, session, usage record. The select takes any of its ready cases: that is two enabled actions.
`Leave` ends the context that reader, pump and upstream call share; the return of the handler ends it too.
`wire`, `saves`, `records`, `rec` are what the client, the session store, the usage table and the archive get.

### Billing

`pc[a]` is one actor: the poll loop of a process, its poll at boot, an administrator's request. `BeginPoll` and `BeginRefresh` read the rows (before any lock);
`TakeMutex`, `AcquireBalanceLock` or `LockFails`, `FetchBalance` or `FetchFails`, `Submit` (`DoSync`), `RecordBalanceSnapshot`, `Commit` or `Rollback`, `Unlock` are one refresh, the
same in the poller and in both handlers. `phase` is the process: `up`, `stopping` (the poller is told), `draining` (the writer is stopped), `closed` (the database too), `down`. With
SQLite there is one process and only its mutex; else two, with a lock that belongs to a database session and dies with it (`LoseSession`: its holder does not notice).
A wallet is a number per currency that is spent and topped up; `age` counts its changes, so that answers can be ordered; amounts that do not parse are `Bad`.

Abstracted: decimal parsing (a number or `Bad`), the exchange with the vendor (an answer or none), the interval of the ticker. A transaction whose commit is reported as an error is a `Commit`: nobody looks at the answer.
A crash leaves the open transaction whole or not at all. Mutexes are assumed to be fair, as Go's are under contention.

### ConvStore and Archive

`archive` holds the tables that exist and those the registry knows, for records (`rec`) and for conversations (`sess`), their rows, and the next identifiers; `Base` is
the table of a release without monthly tables. A row of a conversation has its messages, its count of messages and turns, its last response id.
`Finish` is the closure of one call: `InsertConversation` (with the table made if it is missing) and `UpsertSessionTurn`, each of which may fail without the other, or neither runs because the queue is full.
`Merge` is `mergeSessionMessages`: the marker of a compaction, the part of a full history that is new, the cap. Lists are the rows of each table, newest table first; `PageWindows` cuts a page out of them.
Clients chain on response ids (any earlier one), or send a header that names the session, or the whole history with or without such a header; they retry and compact.
Two variables are history: `log` lists the turns merged, in order, with whether the row they went into is still kept (a dropped table takes its rows with it), and `merged` has, for each session, the turns whose answers make up its row.

Abstracted: messages are numbered, sizes are counted in messages (`Cap`), tokens and raw bodies are left out. Queueing a closure and running it are one step, since the order is that of the queue. Registries of other processes are not modelled.

### Sessions

One record per request in `turns`, with the response it follows, its step and its history; `sessions` are the rows, `queue` the writer's channel with `put`, `touch`, `delete`, `sweep`.
`Get` reads directly, and queues a touch if there is room; `Refuse` is the 400, and queues the delete of what has expired; `Save`/`RunPut`/`RunPutFails` is the synchronous `Put`, `Sweep` queues the sweep after it.
`Tick` is time, in units of the time to live; the writer's closures take the time when they run, as the code does.

### AdminStore, AdminConfig, Admin

The tables are sequences of rows, a row's place its identifier; rows are retired, not deleted. `AdminStore` has one operator for each write of `store/`, with what it looks up
in its transaction, its error and the soft-deleted rows it revives; `AdminConfig` has the file, its validation, the choice of a target row for each entry
(`Targets`, among enabled and disabled rows of a name) and the parts of the import. In `Admin` a handler that reads before it writes is two
actions (`BeginUpdateKey`/`EndUpdateKey`, `BeginFetch`/`EndFetch`, the three reads of an export), one that does all in the writer is one. An import holds the writer from `BeginImport` to its last
`ImportStep`, but each part commits for itself, and readers see it: `ImportFails` may end it after any of them.

Abstracted: columns that are only stored (remarks, tags, limits, expiry, keys of upstreams); `len` stands for a model's two lengths, `format` and `extra` for its endpoints.

### Usage, Admission

A moment is a number of hours in UTC, `Wall` what a clock on the server's wall shows. `Date` is Go's `time.Date`, which looks the offset up as if the clock showed UTC and once more at the moment this gives: it matters for times the clock skips.
`TokenWindows`, `SumTokens`, `LastDays`, `Span`, `DayCount`, `UsageDailyStats` are those of `usage.go`; the databases keep and compare wall clocks. `Admission` is one goroutine per
request: `Arrive` (key, whitelist, alias or upstream, expiry), and for the key and each upstream `TakeClock`, `CheckDay`, `CheckMonth`, each a query of its own, `CheckFails` for the 500; then `Answer` hands a usage
record to the writer, if there is room, and `Insert` dates it when the writer gets to it.

Abstracted: rows do not change while requests run (their lookups are those of `ConfigCache`); what dispatch does is `Answer` or `NoAnswer`; malformed requests and failing lookups, which change nothing; months have the same number of days.

### Migrations, Lifetime

The plan of a start is a sequence of statements, built by operators with the names of the code's functions (`createTableStmts`, `migrateExtraCols`, `migrateSoftDelete`, ...)
in the order of `migrateAll`. Each statement is a transaction of its own: with `IF (NOT) EXISTS` it is one step (`Exec`), where a query looks first it is two (`Look`, `Exec`), and
what happens between them is another process's. SQLite rebuilds its tables in one transaction (`Begin`, `RebuildStep`, `Commit`), which others, and a crash, see not at all or whole.
`Abort` is an error that goes up to `main`: the process ends and whatever runs it starts it again. `Fault` is a statement that fails by itself or a crash, `Tolerate` the same for the index of labels, which is allowed to fail.
`Lifetime` puts the writer behind the start, as `main.go` does, and is what TLC checks of both.

Abstracted: types and defaults of columns (a value is there or not); the ten tables are four that between them have a column of each age, an index of each kind, old constraints of each kind and a dialect
of their own; one SQLite file has one process; in PostgreSQL `IF NOT EXISTS` never fails for a race (if it does, it is a `Fault`).

## 3. Runs

| run | instance | shows |
|---|---|---|
| `config_keys` | 1 key, 2 requests that look up again and again, 2 writes, 1 expiry, 1 read error; fair | coherence, lookups end |
| `config_routes` | 2 upstreams and 1 alias sharing 2 names, 2 requests with one lookup each, 1 write; symmetric | coherence under renames and table replacement, flights led by who registered them, answers not older than the lookup allows |
| `lifetime` | 2 processes, 3 dialects, databases of three ages, one without a column it must have, new ones, with labels once and twice, 2 faults; then in one that made a new file 2 synchronous and 2 asynchronous calls, 2 callers of `Stop`, a buffer of 1; fair | who is up has the current schema, no row or value lost, starts succeed; refinement of `WriteOrder`, calls and `Stop` return |
| `dispatch` | 2 requests, chain of 3 candidates at 2 upstreams of limit 1, 1 cooldown running out; symmetric | slots, limits, ledger, honest refusals, cooldowns respected |
| `dispatch_ends` | 2 requests, 1 upstream, limits 0, 1, 2, changed twice; fair | a gone client's request ends |
| `relay` | all nine pairs of protocols, streamed or complete; 2 blocks, 2 pieces of content, a channel of 1; fair | index discipline, nothing lost, repeated or misattributed, one end frame or one error frame as the last, whole usage, the archive agrees with what is saved, the reader goroutine ends |
| `billing` | SQLite, and 2 processes with one database; 1 upstream, 2 wallets and a quota vendor, 1 currency, 2 refreshes, 2 events (spending, top-ups, edits, crashes, lost sessions, a stop); fair | order of records, nothing billed twice, snapshots with their bills, a quiet close, refreshes end |
| `archive` | 3 turns of a chaining and of a stateless client, 2 months, 1 fault, records of an older release | one row per conversation, chains stay together, content is the history, pages partition the lists |
| `sessions` | 3 requests, time 0 to 3 with a time to live of 1, a queue of 2, 1 fault | a session lasts |
| `admin` | 2 administrators; five starting configurations with the operations tried on each (upstreams and imports; exports; models; aliases; keys), 2 or 3 writes, 2 files, 1 failure of an import; symmetric | names and labels unique, export and import are inverse, imports converge, fetches keep what is configured |
| `quota` | two kinds of scenario. Quotas: 2 of 4 requests at a time, 1 key with and without a daily quota and a whitelist, an alias of 2 upstreams with a monthly quota and an expiry, a queue of 1, one midnight. Calendar: one request at a time over 3 days of 4 hours in months of 2 days; zones with offsets -2 to 2, set on or back by an hour at any hour, a skipped midnight excepted; symmetric | overrun bounded, refusals true, quotas and statistics count local days and months |
| `admin_sync` | 1 administrator, 1 upstream, 1 model | the finding below (expected violation) |

Why the bounds are enough: every property relates at most two requests, or a request and a write. The second request is the waiter, the
later leader or the competitor for a slot. Two writes give a lookup one write before and one after its query;
two upstreams with two names give every overlap of old and new name. A chain of three has a first, a middle (subject to cooldown after a failover) and a last candidate
(never subject to one), the third at the first's upstream.
Two blocks and two pieces give a second call at the index of the first, a block reopened after another, fragments that interleave and a block without content; the
safety properties have also been run with three pieces. A channel of one is full as soon as one event is ahead; the code's is larger, which adds
no state the reader or pump can tell apart.
Two processes are the one that looks and the one that is faster; two faults stop a start and the next one. The writer does not depend on the database it runs over, and is followed over one.
Two refreshes in two processes are the two answers whose order matters; two events are a spending and a fault, or a spending and a top-up, between them.
Three turns give a conversation a turn before, at and after a fault, a retry or the end of the month; two months are the table a row is in and the one it is not in.
Three requests are one that puts a session, one that uses it and one that finds it expired. Twins (a disabled row older than the enabled one of its name) are
the case where the matching of rows by name has to choose; three writes rename, delete and enable between two parts of an import.
Days of four hours have a first, a last and two inner hours, and a change of the clock falls before, at or after a midnight; offsets of both signs are the cases of `time.Date`. Two upstreams are one that is left out and one that remains.
Bounds are constants named `Max...` in guards, and the proofs are without them.
Deadlock is not checked in `lifetime`, `relay`, `billing`, `archive`, `sessions`, `admin` and `quota`, where all the requests there are come to an end; elsewhere, where everything may come to an end, the module says so (`Exit`, `Finished`).

### Fairness

`ConfigCache`: requests and the writer's maintenance are goroutines in Go code that never waits for a peer but through the flight: weak fairness for
each. `Writer`: the loop, calls that have passed their check, and `Stop` once begun; nobody has to call anything. That closures return is assumed. `Migrations`: a start goes on, and who runs the process starts it again. `Dispatch`: the goroutine of a request
(`Step`), and the end of a call only once its client is gone, when net/http cancels it. An upstream need not answer and a stream need not end:
`http.DefaultClient` has no timeouts. `Relay`: the goroutine (`SendEvent`, `Abandon`, and a read that the ended context cancels, `ContextDone /\ ReadFails`)
and `pump`, each as one process. Nothing is asked of the upstream, which may stop or hang at any point, nor of the client.
`Billing`: each actor, whose waits are bounded by the vendor client's and the lock's timeouts, and a shutdown once begun; no poll has to begin, no process has to start.

### Finding

- `admin_sync` - a model entered by hand, deleted, fetched, exported and imported ends up as two automatic rows of one name, of which a fetch retires and revives both: the unique index refuses it, for this and every
  later fetch (`store/upstream.go:573`), where 475-478 say that the import neither accumulates rows nor runs into that index.

Seen while modelling, without a run:

- Cache: a request that begins after a write has returned can join a flight that read before it (`cache.go:151`), where `cache.go:18-21` promises that the next request sees the change; nothing stale is stored.
  Waiters of a flight that found no row query again, one by one (`cache.go:154-155`), where `cache.go:24-27` says that they take its negative result.
- Writer: a `DoAsync` that passed its check before `Stop` may send after the drain (`writer.go:93`): the write is lost silently, where `main.go:89-90` says that queued writes are drained.
- Dispatch: a stream whose client disconnects may be failed over (`handler_openai.go:466`), where 148-149 and 424-425 say that it stops. Raising a limit admits more than the new limit, where `concurrency.go:11-13` names lowering it as the case.
- Relay: when the client leaves while the reader holds an event, the reader drops it without an error and closes the channel (`client.go:248`), and `pump` may see that before the context: the cut answer is flushed, saved and recorded as "ok". After a
  broken connection the record says "error", but `Flush` still writes `response.completed` (`handler_openai.go:666`), where 664-665 and 729-730 say that a failed stream must not look complete. Blocks without an item of
  their own take an output index (`responses/stream.go:342`), where 255-258 say that it is the place in `response.output`. A body that ends early but in order leaves OpenAI and Anthropic clients without an end frame, though the record says "ok".
- Sessions: the client has the response id before `Put` runs and is refused if it uses it at once (`session.go:108`). A delete queued by a request that found a session expired takes one that another request has touched meanwhile.
- Archive: a turn that would exceed the cap is left out and the text stays below it, so that the early return at `conversation_session.go:340`, which asks whether the text exceeds it, is never taken: a smaller turn that
  comes later is appended, and the archived conversation has a hole (`conversation_session.go:361`), where 362-363, 24-25 and `docs/superpowers/specs/2026-10-07-conversation-sessions.md:99-100` say that appending stops for good.
- Admission: where the clock skips a midnight (Havana, Santiago, the Azores; for the statistics Beirut and Cairo too), `time.Date` for 0:00 gives 23:00 of the day before or 01:00. West of UTC the windows of quotas run from 23:00 to 23:00
  (`usage.go:141`), so that the last hour of that day is free, where `usage.go:137-139` and `usage_window_test.go:19-21` say that none is. Statistics that begin on such a day have buckets off midnight, and the groups of the days that follow
  equal none of them (`usage.go:108`, against 83-84). The zones of `MCAdmission` leave such a midnight out. The zone of the image is Asia/Shanghai unless `TZ` says otherwise, which has no such days.
- Archive: a dropped table of conversations is found again only by a restart; closures of two turns may be queued in the opposite order, which splits a chain (`conversation_session.go:49-51` accepts it); the repetition of a request whose answer was lost counts as a compaction.
- Admin: an import that disables the one row of a name that has an older twin moves to the twin when repeated (`Turns`), where `config.go:33-34` says that a repeated import converges. Of two PATCHes of one key or alias one is lost. An alias may be bound to an upstream
  deleted meanwhile, its bindings written after its own deletion; a fetch in progress or `AddModel` gives a deleted upstream models. An export is several reads, and not of one moment.
- Billing: a change of account at the same vendor cannot be told from consumption, as `bill.go` says. The poll at boot may outlive the database it uses; it then fails, and has nothing queued.

## 4. Proofs

Everything below is for any values of the constants; no axiom beyond the named assumptions of the modules (names, identifiers and bounds are what they are called;
`Requests` is finite where sets of slots are counted; an `Admin` scenario starts with tables in order, and an imported file has lists where it must, as what JSON decodes to has).
And a recursive function is reasoned about through the least place at which it is not what it should be (`Sums`: `LeastNat`), since induction itself cannot be cited here.

- `ConfigCache_proofs`: `TypeCorrect`, and **`Coherence`** (`Spec => []Coherent`). `Coherent` is not inductive: a leader holds a row it has not stored yet. The invariant says that each row cached, and each row held by a
  leader whose generation is still current, is right *or doomed*: the maintenance still owed evicts it or
  raises the generation. The argument: a commit can make rows wrong only in the ways its own maintenance makes void (`CommitSafe`), and
  every maintenance operation raises the generation of each namespace it dooms.
- `Lifetime_proofs`, the writer: `TypeCorrect`, and **`Implementation`** (`Spec => WO!Spec`): the invariant relates `inflight`, the calls' places and the sequence (each call
  sends once; who waits is in it; the loop ends only after `stopCh`, which is closed only when nobody counted is left). Each step is then a step of `WriteOrder` or a stutter.
  `WriterOfProcess` carries this over to a process that starts first: its life takes no step of the writer that the writer alone has not.
- `Lifetime_proofs`, the start: **`NothingLostAlways`**, **`UpIsCurrentAlways`**, by way of `StartInvAlways`, for any schema, any number of processes and faults, and all three dialects. `StartInv` says of each process, wherever it is in its statements (`Place`),
  that what the statements before were for has come about (`Settled`). That stays so although others start, fail and die at the same time, because no statement takes away what the schema has, or brings back what is to go (`Evolves`, `Indexed`). A rebuild is one transaction:
  what it sees (`Seen`) is what its finished statements made of one sound database, so that nothing of it is there until all is, and the copy has every row (`Holds`) before the original goes. The statements are in an order (`InOrder`, with a rebuild in its brackets, `Whole`)
  in which a statement finds what it needs. The assumptions are those of the modules. `SchemaAssumption`: a schema names a table once and none `..._bak`, late columns are columns of their table, indexes are on columns, nothing is called like what is to go.
  `OriginsAssumption`: releases left databases whose tables have their columns and at most the constraints that are to go, with the indexes inline where it is MySQL.
- `Gateway_proofs`, the dispatch: `TypeCorrect`, `SlotsAreCovered`, **`LimitsHold`**, `CallsAreRecorded`, `RefusalsAreHonest`, **`CooldownsHold`**. One request's invariant (`RInv`) depends on its own variables (`Own`) and
  is kept by the others' steps because they leave those alone. The limit needs all requests: each semaphore never has more holders than places (a send into
  it is guarded, every other step gives back), and as long as no limit has changed all slots of an upstream are of one semaphore
  made for its limit. For `CooldownsHold`, with the history of `MCDispatch`: what has been cooling ever since a request took its time is cooling now, so a candidate that passed its check is not among it, and nothing comes back into it.
- `Gateway_proofs`, the relay: **`OneEndAlways`**, **`UsageReachesAlways`**, for any formats of the two sides, kinds of block, bounds and size of the channel. The invariant (`EndInv`) follows the end of an answer from the upstream to the client. A decoder puts it last, and only
  for the last payload (`DecodeIs`, `UpStep`). From then on it is the last event wherever it is, in what is decoded, in the channel or in what a complete answer was unfolded into, and nothing follows it (`PipeOk`); unless the stream is abandoned it is not lost on its way
  to the encoder (`OnItsWay`). The Responses encoder knows whether it has sent its end (`EncKnows`), so what `Flush` adds at the end of a stream is an end where there was none and nothing where there was one; the other two send one end for one end (`EncodeInner`, `EncodeStop`).
  A complete answer goes through the encoder in one step: its frames end in one end because its events do (`EncodeAllEnds`, by the least event that would break it). An error event is terminal as well: the pump returns behind it, saves nothing and records an error (`WireOk`, `Returned`).
  `UsageReaches` (`UseInv`, on top of `EndInv`): a decoder tells its usage in the start it makes and in a report, never more than the upstream has reported, and a report has all of it (`Tells`, `DecUse`; one lemma for each of the three, `OpenAIHears`, `AnthropicHears`, `ResponsesHears`).
  Once the upstream has finished, the report is on its way or has arrived, on both ways: to the client (`Covered`) and to the record (`Counted`), which the reader writes before it sends, so that of the events it still has only the later ones may bring it. What the client has been told is in the frames
  or, for the Responses protocol, in the encoder, which puts it into its end (`Told`, `EncodeGives`); a start there takes the place of what was known, and is harmless because it comes first (`StartFirst`). A complete answer is told to the end in one step (`EncodeAllTells`).
- `Admin_proofs`: **`EnabledUniqueAlways`**, **`LabelsUniqueAlways`**, `ModelsListedOnce`, **`SyncKeepsConfigAlways`**. The invariant is about one database (`Good`): its tables are sequences of rows with their columns, no two
  enabled upstreams share a name, no two keys a label. Each write of `AdminStore` keeps it, from the lookup the write makes in its own transaction and never
  from what the handler read before, so it holds whatever the handlers read and however old it is. An import is a sequence of such
  writes (`ApplyStepGood`), each of them good by itself: so it may stop anywhere. For the models the invariant (`InOrder`) adds that a name is at most once in the list of an upstream, and
  that the import in the writer is of a file that was accepted, so that no list in it has a name twice (`StepsAre`). It holds through every write that revives rows: for a list of any length, by its least name that breaks it
  (`ReplaceExactTable`, `SyncedTable`). With one row per name the snapshot of a fetch is the row's own (`FetchPreserves`).
- `ConfigCache_proofs` also has **`FlightsAreLedAlways`**: a flight is led by a request at work on its lookup. Maintenance may forget the flights of aliases, and a later
  request may lead another for the same alias: the invariant adds that a leader whose generation is current has not been forgotten (`NotAhead`: generations only grow, so
  one that has fallen behind never catches up). And **`OwnAnswersRightAlways`**, with the history variables of `MCConfigCache`. `OwnAnswersRight` is about finished lookups; the invariant (`RightInv`)
  says what a lookup in progress may still be given: for its slot, what the tables hold, what is cached, and what any leader on time is about to store have each been right since it began.
  It rests on `Provenance`: what a step stores was cached before, comes from a fill on time, or is what the tables hold.
- `Billing_proofs`: `TypeCorrect`, **`ClosesQuietly`**, **`RecordsInFetchOrder`**, **`NothingFallsIntoAGap`**, **`NothingIsBilledTwice`**. First, who is past the locks of an upstream is alone (`Exclusive`): by the mutex where
  there is one process, by the session lock where there are several, as long as no session was lost. Then the answers of the vendor that have
  been recorded are older than the one in hand (`Aged`, `Fresh`), so a new snapshot is the newest in both orders, and bills what its transaction finds as the one before.
  For `NothingIsBilledTwice` (`Money`): the bills of an upstream and the balance of its newest snapshot are together no more than the wallet ever held, and so are its bills and any answer that may still be recorded; a bill moves from one to the other what the two
  snapshots differ by (`OneBill`). A top-up or spending between reading and recording only makes the right side larger.
- `Conversations_proofs`, the sessions: `TypeCorrect`, **`SessionLastsAlways`**. A row is put once, by a handler that waits for it (`Queued`, `OnePut`), so whatever removes it has an argument that stays true:
  a sweep looks at the row when it runs; a delete was queued by who found the session expired, and what was put cannot become recent again (`Gone`).
- `Conversations_proofs`, the archive: **`OneRowAlways`**, **`ChainTogetherAlways`**, **`ContentIsHistoryAlways`**, on one invariant (`ArchiveInv`), for any number of turns that end in any order, any client, months, failed and dropped writes, dropped tables and crashes.
  `OneRow`: the unique index covers one monthly table, but a row lies in a table that exists and that the registry knows (`Rooted`), in memory or, after a restart, from the database; so a search that does not fail finds the row if there is one (`SearchFinds`), and a row is only added when there is none.
  `ChainTogether`: each row of a chain ends in the response of the last answered turn that went into it and is kept (`RowEnds`), and an answered turn is in the log once, since it is archived once (`Logged`); so no two rows end in one response, and the search by response finds the right one. A turn that failed leaves the last response as it is.
  `ContentIsHistory` (`Content`): as long as the turns of a row have gone on from one another, the row is what they said, put together. A turn of a chain adds what was sent and answered (`MergeAnswers`). Of a whole history `Merge` adds what comes after as many messages as the row has counted,
  and the row has counted exactly the conversation before (`MergeHistory`). What was said in a turn that was archived does not change any more (`Onwards`).
- `Admission_proofs`: **`QuotasCountWholeDays`**, **`OverrunIsBounded`**, **`LimitsAreHonest`** (and `RunsAreWatched`), **`DaysAreWhole`**. Their hypothesis is about zones: `Regular` says that the clock shows every midnight its date is read back from, and is never set back
  from one day to the day before. Clocks that are never set are regular (`FixedZonesAreRegular`), and so are those of the run; where the clock skips a midnight the properties are false (see the findings). From it, `windows` are the local days and months (`WindowsAreDays`), and midnights follow each other.
  `OverrunIsBounded` (`Held`): for each quota, either what is recorded in the present day is below it, or what is recorded together with the most that the waiting records and the *loose* requests can still add stays within the bound. A request is loose while it may use
  its key or upstream without looking at the records again: it has passed the check, or took its clock before midnight. At a midnight nothing of the new day is recorded. A request becomes loose only through a check that found room, and when it is recorded it is one less.
  `LimitsAreHonest` (`Recalled`): whatever a check finds reached was so while its windows were present, and if it finds nothing reached, there was room when it took the clock, since records only grow within a window.
  `DaysAreWhole` adds `Gentle`, a clock set by less than a day, so that no date is empty: the groups of the database are by local date, the buckets by midnights, and they agree because midnights are in the order of their dates (`MidnightsApart`), and
  the number of days between two midnights, rounded as the code rounds it, is the difference of their dates (`DaysCounted`).
- `Sums`: `LeastNat`; sums over finite sets as recursive functions exist, grow by what is added and agree where their terms agree; sequences put together one after another, of which the provers know nothing, exist, consist of their parts, and agree up to where the parts agree (`FlattensAgree`).

Only model-checked: liveness (`LookupsEnd`, `EveryoneReturns`, `StartsSucceed`, `GoneEnds`, `Released`, `RefreshesEnd`), which the prover cannot do; `BlockDiscipline`, `Delivered` and `ArchiveAgrees` of `Relay`, which compare the contents of whole sequences of events with one another, after each of three decoders and three encoders;
`PagesPartition`, `RoundTrip` and `RetryConverges`, which rest on sequences sorted out of sets (`SetToSortSeq`, `SortSeq`) and on folds with an operator as argument, of which the provers know nothing.

## 5. Plan

Done in this order: `ConfigCache`, `Writer` against `WriteOrder`, `Dispatch`, the stream modules and `Relay`; then `Billing`, `ConvStore` with `Archive`, `Sessions`, `AdminStore` with `AdminConfig` and `Admin`, `Usage` with `Admission`, `Migrations` with `Lifetime`. Next:

1. The other proofs about `Relay`: `BlockDiscipline`, with an invariant for each of the three encoders. The invariant of the channel between `streamLoop` and `pump` is there (`PipeOk`), and the one of what is on its way (`UseInv`).
2. An abstract specification of a refresh (read and record in one step), implemented by `Billing` as long as no lock is lost.

The number of runs is kept small: new modules share runs where one instance asks several questions, and the type invariants that are proved are not checked again by TLC.

Not modelled, and why: admin login (one signed cookie, no shared state); the rendering of column types and placeholders in three dialects (text), configuration and logging (parsing and formatting), the web
console (a client of the API), the field mapping of request and response bodies, bills entered by hand and the reports over bills, usage and conversations (single statements and queries), health endpoints and routing.
