------------------------------ MODULE Admission ------------------------------
(***************************************************************************)
(* Request admission (internal/gateway/router.go): the key, its list of    *)
(* models, the upstreams a model stands for, and the token quotas of the   *)
(* key and of each upstream, per local day and month.  Quotas are compared *)
(* with the usage recorded so far, which the writer records later than the *)
(* answers are given, while other requests are at any place of their way.  *)
(***************************************************************************)
EXTENDS Usage, Sequences

CONSTANTS
  Requests,     \* goroutines that serve requests
  Keys, Ups,    \* ext keys and upstreams
  Aliases,      \* names of aliases
  KeyRows,      \* the rows an ext key may have: enabled, models, daily, monthly
  UpRows,       \* the rows an upstream may have: enabled, expires, daily, monthly
  Bound,        \* per alias, its upstreams by priority
  Zones,        \* zones the server may be in
  NoSubject,
  Never,        \* an upstream that does not expire
  MaxTokens,    \* bound: tokens of an answer
  MaxRequests,  \* bound: requests in a behaviour
  QueueCap,     \* bound: usage records waiting in the writer's channel
  LastHour      \* bound: the last hour

Names == Aliases \union Ups   \* a direct model is told apart by its upstream alone

ASSUME AdmissionAssumption ==
  /\ {MaxTokens, MaxRequests, QueueCap, LastHour} \subseteq Nat
  /\ NoSubject \notin Keys \union Ups /\ Keys \intersect Ups = {} /\ Never \notin Int
  /\ Bound \in [Aliases -> Seq(Ups)] /\ IsFiniteSet(Requests)
  /\ \A row \in KeyRows \union UpRows : {row.daily, row.monthly} \subseteq Int
  /\ \A z \in Zones : {z.before, z.after, z.change} \subseteq Int

VARIABLES
  zone, keys, ups,  \* the server's zone, and the rows, which nobody changes here
  now,
  usage,            \* usage_records
  queue,            \* the writer's channel, the record it is at included
  pc,               \* per request: where it is
  key, chain,       \* its key, and the upstreams its model stands for
  subject,          \* the key or upstream being checked
  windows,          \* the windows of this check
  left, usable,     \* upstreams still to be checked, and those that may be called
  code,             \* the status it was told, 0 if none
  begun             \* requests so far
rows   == <<zone, keys, ups>>
checks == <<key, chain, subject, windows, left, usable>>
vars   == <<rows, now, usage, queue, pc, checks, code, begun>>

NoWindows == [none |-> TRUE]
Upstreams(s) == {s[i] : i \in DOMAIN s}

-----------------------------------------------------------------------------
(* Routing *)

\* Upstream.Expired
Expired(u) == ups[u].expires # Never /\ ups[u].expires <= now
Open(u) == ups[u].enabled /\ ~Expired(u)

\* Those of a list that are open, in their order.
OpenOnes(list) ==
  LET open[n \in 0 .. Len(list)] ==
        IF n = 0 THEN <<>> ELSE IF Open(list[n]) THEN Append(open[n - 1], list[n]) ELSE open[n - 1]
  IN open[Len(list)]

\* An alias of that name goes before an upstream; its bindings keep their order.
Targets(name) == OpenOnes(IF name \in Aliases THEN Bound[name] ELSE <<name>>)

AllowsModel(k, name) == keys[k].models = {} \/ name \in keys[k].models

Refusal(k, name) ==
  IF ~keys[k].enabled THEN 401
  ELSE IF ~AllowsModel(k, name) THEN 403
  ELSE IF Targets(name) = <<>> THEN 404
  ELSE 0

Move(r, place) == pc' = [pc EXCEPT ![r] = place]
End(r, status) == Move(r, "idle") /\ code' = [code EXCEPT ![r] = status]
Clear(r) ==
  /\ subject' = [subject EXCEPT ![r] = NoSubject]
  /\ windows' = [windows EXCEPT ![r] = NoWindows]
  /\ left' = [left EXCEPT ![r] = <<>>]

\* authenticate and handleCompletion, up to the quotas.  The touch of the key goes the
\* way of usage records and is one of the writes that fill the channel.
Arrive(r, k, name) ==
  /\ pc[r] = "idle" /\ begun < MaxRequests
  /\ begun' = begun + 1
  /\ key' = [key EXCEPT ![r] = k]
  /\ usable' = [usable EXCEPT ![r] = <<>>]
  /\ LET status == Refusal(k, name) IN
     IF status # 0
     THEN /\ End(r, status)
          /\ chain' = [chain EXCEPT ![r] = <<>>]
          /\ UNCHANGED <<subject, windows, left>>
     ELSE /\ Move(r, "clock")
          /\ code' = [code EXCEPT ![r] = 0]
          /\ chain' = [chain EXCEPT ![r] = Targets(name)]
          /\ subject' = [subject EXCEPT ![r] = k]
          /\ left' = [left EXCEPT ![r] = Targets(name)]
          /\ UNCHANGED windows
  /\ UNCHANGED <<rows, now, usage, queue>>

-----------------------------------------------------------------------------
(* Quotas: checkTokenLimits for the key, then for each upstream *)

Quota(s) == IF s \in Keys THEN keys[s] ELSE ups[s]

\* Mutant: the limit may be reached.
Beyond(limit, used) == limit > 0 /\ used > limit

\* A limit of 0 is none.
Exhausted(limit, used) == limit > 0 /\ used >= limit

TakeClock(r) ==
  /\ pc[r] = "clock"
  /\ windows' = [windows EXCEPT ![r] = TokenWindows(zone, now)]
  /\ Move(r, "day")
  /\ UNCHANGED <<rows, now, usage, queue, key, chain, subject, left, usable, code, begun>>

\* The check is over: the next upstream, or the end with those that may be called.
Continue(r, rest, good) ==
  /\ usable' = [usable EXCEPT ![r] = good]
  /\ IF rest # <<>>
     THEN /\ subject' = [subject EXCEPT ![r] = Head(rest)]
          /\ windows' = [windows EXCEPT ![r] = NoWindows]
          /\ left' = [left EXCEPT ![r] = Tail(rest)]
          /\ Move(r, "clock") /\ UNCHANGED code
     ELSE /\ Clear(r)
          /\ IF good = <<>> THEN End(r, 429) ELSE Move(r, "call") /\ UNCHANGED code

\* Mutant: one exhausted upstream refuses the request.
RefuseAtOnce(r) == Clear(r) /\ End(r, 429) /\ UNCHANGED usable

\* A key beyond its quota is refused, an upstream is left out.
Exceeds(r) ==
  IF subject[r] \in Keys
  THEN Clear(r) /\ End(r, 429) /\ UNCHANGED usable
  ELSE Continue(r, left[r], usable[r])

Passes(r) ==
  Continue(r, left[r], IF subject[r] \in Keys THEN <<>> ELSE Append(usable[r], subject[r]))

CheckDay(r) ==
  /\ pc[r] = "day"
  /\ IF Exhausted(Quota(subject[r]).daily, SumTokens(usage, zone, subject[r], windows[r].day))
     THEN Exceeds(r)
     ELSE Move(r, "month") /\ UNCHANGED <<subject, windows, left, usable, code>>
  /\ UNCHANGED <<rows, now, usage, queue, key, chain, begun>>

CheckMonth(r) ==
  /\ pc[r] = "month"
  /\ IF Exhausted(Quota(subject[r]).monthly, SumTokens(usage, zone, subject[r], windows[r].month))
     THEN Exceeds(r)
     ELSE Passes(r)
  /\ UNCHANGED <<rows, now, usage, queue, key, chain, begun>>

\* The query of a quota fails; without a quota there is none.
CheckFails(r) ==
  /\ \/ pc[r] = "day" /\ Quota(subject[r]).daily > 0
     \/ pc[r] = "month" /\ Quota(subject[r]).monthly > 0
  /\ Clear(r) /\ End(r, 500)
  /\ UNCHANGED <<rows, now, usage, queue, key, chain, usable, begun>>

-----------------------------------------------------------------------------
(* Usage *)

\* DoAsync: dropped when the channel is full, with records or with other writes.
Enqueue(rec) ==
  \/ Len(queue) <= QueueCap /\ queue' = Append(queue, rec)
  \/ UNCHANGED queue

\* dispatch: one of the upstreams answers, and the answer is recorded.  Calls that fail
\* are recorded with no tokens, which changes no sum.
Answer(r, u, n) ==
  /\ pc[r] = "call" /\ u \in Upstreams(usable[r])
  /\ Enqueue([key |-> key[r], up |-> u, tokens |-> n])
  /\ End(r, 200)
  /\ UNCHANGED <<rows, now, usage, checks, begun>>

\* All of them fail, cool or are full, or the client is gone.
NoAnswer(r) ==
  /\ pc[r] = "call"
  /\ End(r, 502)
  /\ UNCHANGED <<rows, now, usage, queue, checks, begun>>

\* The writer's loop runs a record's insert.
Insert ==
  /\ queue # <<>>
  /\ usage' = InsertUsage(usage, zone, now, Head(queue))
  /\ queue' = Tail(queue)
  /\ UNCHANGED <<rows, now, pc, checks, code, begun>>

Tick ==
  /\ now < LastHour
  /\ now' = now + 1
  /\ UNCHANGED <<rows, usage, queue, pc, checks, code, begun>>

-----------------------------------------------------------------------------
Init ==
  /\ zone \in Zones
  /\ keys \in [Keys -> KeyRows] /\ ups \in [Ups -> UpRows]
  /\ now = 0
  /\ usage = {} /\ queue = <<>>
  /\ pc = [r \in Requests |-> "idle"]
  /\ key = [r \in Requests |-> NoSubject] /\ chain = [r \in Requests |-> <<>>]
  /\ subject = [r \in Requests |-> NoSubject] /\ windows = [r \in Requests |-> NoWindows]
  /\ left = [r \in Requests |-> <<>>] /\ usable = [r \in Requests |-> <<>>]
  /\ code = [r \in Requests |-> 0]
  /\ begun = 0

Next ==
  \/ \E r \in Requests, k \in Keys, name \in Names : Arrive(r, k, name)
  \/ \E r \in Requests : TakeClock(r)
  \/ \E r \in Requests : CheckDay(r)
  \/ \E r \in Requests : CheckMonth(r)
  \/ \E r \in Requests : CheckFails(r)
  \/ \E r \in Requests, u \in Ups, n \in 1 .. MaxTokens : Answer(r, u, n)
  \/ \E r \in Requests : NoAnswer(r)
  \/ Insert
  \/ Tick

Spec == Init /\ [][Next]_vars
-----------------------------------------------------------------------------
(* Properties *)

Today == DayOf(Wall(zone, now))
ThisMonth == MonthOf(Wall(zone, now))

\* What is recorded for a key or an upstream on a date, or in a month, by the calendar.
UsedOn(s, day) == Tokens({row \in usage : Concerns(row, s) /\ DayOf(row.createdAt) = day})
UsedIn(s, month) == Tokens({row \in usage : Concerns(row, s) /\ MonthOf(row.createdAt) = month})

Subjects == Keys \union Ups

\* What may be recorded beyond a quota: the answers of the requests that were under
\* way, and the records that waited, when the last request found room.
InFlight == (Cardinality(Requests) + QueueCap + 1) * MaxTokens

\* Quotas are overrun by no more than this, however checks, answers, the writer and
\* midnights interleave, and although nobody reserves anything.
Overrun ==
  \A s \in Subjects :
    /\ Quota(s).daily > 0 =>
         \A day \in 0 .. Today : UsedOn(s, day) <= Quota(s).daily - 1 + InFlight
    /\ Quota(s).monthly > 0 =>
         \A month \in 0 .. ThisMonth : UsedIn(s, month) <= Quota(s).monthly - 1 + InFlight

\* The quotas count what was recorded on the local day and in the local month, all of it
\* and nothing else: no hour is free.
WindowsAreDays ==
  LET w == TokenWindows(zone, now) IN
  \A s \in Subjects : /\ SumTokens(usage, zone, s, w.day) = UsedOn(s, Today)
                      /\ SumTokens(usage, zone, s, w.month) = UsedIn(s, ThisMonth)

\* The statistics of a window of days have one bucket for each date of it, in order, with
\* exactly what was recorded on that date.
StatsOf(window, first, last) ==
  LET stats == UsageDailyStats(usage, zone, window)
      end   == Min({last, first + MaxUsageDailyDays - 1})
  IN /\ Len(stats) = end - first + 1
     /\ \A i \in 1 .. Len(stats) :
          /\ stats[i].day = first + i - 1
          /\ stats[i].tokens = Tokens({row \in usage : DayOf(row.createdAt) = first + i - 1})

StatsAreDays ==
  /\ \A n \in 1 .. MaxUsageDailyDays : StatsOf(LastDays(zone, now, n), Today - n + 1, Today)
  /\ \A from, to \in 0 .. Today :
       \/ from <= to /\ StatsOf(Span(zone, from, to), from, to)
       \/ from > to + 1 /\ StatsOf(Span(zone, from, to), to, from)
       \/ from = to + 1

\* usage.go:50-54 and 133-138, usage_window_test.go:21-23: on days of any length, quotas and
\* statistics count whole local days, every hour in exactly one.
WholeDays == WindowsAreDays /\ StatsAreDays
=============================================================================
