-------------------------------- MODULE Usage --------------------------------
(***************************************************************************)
(* The usage table (internal/store/usage.go): the windows of the token     *)
(* quotas, their sums, and the daily statistics.  A moment is a number of  *)
(* hours in UTC; what a clock on the server's wall shows is a number of    *)
(* hours too.  All three databases keep and compare what the wall clock    *)
(* shows (db.go:81, pgtime.go:13; SQLite as text), without its zone.       *)
(***************************************************************************)
EXTENDS Integers, FiniteSets, FiniteSetsExt, SequencesExt

CONSTANTS
  HoursPerDay,
  DaysPerMonth,       \* all months have as many, so that a month is a number of days
  MaxUsageDailyDays   \* maxUsageDailyDays

ASSUME CalendarAssumption == {HoursPerDay, DaysPerMonth, MaxUsageDailyDays} \subseteq Nat \ {0}

-----------------------------------------------------------------------------
(* Go's time package in a zone z with one change of its offset to UTC. *)

OffsetAt(z, t) == IF t < z.change THEN z.before ELSE z.after
Wall(z, t) == t + OffsetAt(z, t)

\* time.Date: the offset is looked up as if the clock showed UTC, and once more, at
\* the moment this gives, if it is not zero.
Date(z, w) ==
  LET first == OffsetAt(z, w)
  IN IF first = 0 THEN w ELSE w - OffsetAt(z, w - first)

DayOf(w) == w \div HoursPerDay
MonthOf(w) == DayOf(w) \div DaysPerMonth
Midnight(z, day) == Date(z, day * HoursPerDay)

\* Time.AddDate: the same time of day, n days on.
AddDays(z, t, n) == Date(z, Wall(z, t) + n * HoursPerDay)

-----------------------------------------------------------------------------
(* Quotas *)

\* Mutant: days of a fixed length.
FixedWindows(z, now) ==
  LET dayStart   == Midnight(z, DayOf(Wall(z, now)))
      monthStart == Midnight(z, MonthOf(Wall(z, now)) * DaysPerMonth)
  IN [day   |-> [from |-> dayStart, to |-> dayStart + HoursPerDay],
      month |-> [from |-> monthStart, to |-> AddDays(z, monthStart, DaysPerMonth)]]

\* The local day and the local month of a moment, each up to the next midnight.
TokenWindows(z, now) ==
  LET dayStart   == Midnight(z, DayOf(Wall(z, now)))
      monthStart == Midnight(z, MonthOf(Wall(z, now)) * DaysPerMonth)
  IN [day   |-> [from |-> dayStart, to |-> AddDays(z, dayStart, 1)],
      month |-> [from |-> monthStart, to |-> AddDays(z, monthStart, DaysPerMonth)]]

Tokens(rows) == MapThenSumSet(LAMBDA row : row.tokens, rows)
Concerns(row, s) == row.key = s \/ row.up = s

\* The tokens of a key or of an upstream in a half-open window.
SumTokens(usage, z, s, window) ==
  Tokens({row \in usage : /\ Wall(z, window.from) <= row.createdAt /\ row.createdAt < Wall(z, window.to)
                          /\ Concerns(row, s)})

\* A row is dated when the writer gets to it, not when the answer was given.
InsertUsage(usage, z, now, rec) ==
  usage \union {[id |-> Cardinality(usage), key |-> rec.key, up |-> rec.up, tokens |-> rec.tokens,
                 createdAt |-> Wall(z, now)]}

-----------------------------------------------------------------------------
(* Daily statistics *)

\* The window of the last n days, and the one from one day to another, given in either
\* order: from and to (not included).
LastDays(z, now, n) ==
  LET start == AddDays(z, Midnight(z, DayOf(Wall(z, now))), -(n - 1))
  IN [from |-> start, to |-> AddDays(z, start, n)]

Span(z, first, last) ==
  LET start == Midnight(z, first)
      end   == AddDays(z, Midnight(z, last), 1)
      turned == IF end < start
                THEN [from |-> AddDays(z, end, -1), to |-> AddDays(z, start, 1)]
                ELSE [from |-> start, to |-> end]
  IN IF turned.to - turned.from > MaxUsageDailyDays * HoursPerDay
     THEN [from |-> turned.from, to |-> AddDays(z, turned.from, MaxUsageDailyDays)]
     ELSE turned

\* Mutant: the number of days as a quotient of durations.
DayCountByHours(z, window) == Max({1, (window.to - window.from) \div HoursPerDay})

\* Days are counted one by one, each one day on from the one before.
DayCount(z, window) ==
  LET day[n \in Nat] == IF n = 0 THEN window.from ELSE AddDays(z, day[n - 1], 1)
  IN Max({1} \union {n + 1 : n \in {m \in 0 .. MaxUsageDailyDays : day[m] < window.to}})

\* UsageDailyStats: per bucket its start and its tokens.  The database groups by the
\* date on the wall clock; a group goes to the first bucket that starts at the midnight
\* this date is read as, and is dropped if there is none.
UsageDailyStats(usage, z, window) ==
  LET start(i) == AddDays(z, window.from, i - 1)
      buckets  == 1 .. DayCount(z, window)
      inside   == {row \in usage : Wall(z, window.from) <= row.createdAt /\ row.createdAt < Wall(z, window.to)}
      goesTo(row) == {i \in buckets : start(i) = Midnight(z, DayOf(row.createdAt))}
  IN [i \in buckets |->
        [day    |-> DayOf(Wall(z, start(i))),
         tokens |-> Tokens({row \in inside : goesTo(row) # {} /\ i = Min(goesTo(row))})]]
=============================================================================
