-------------------------- MODULE Admission_proofs --------------------------
(***************************************************************************)
(* Proofs about Admission, for any keys, upstreams, requests and bounds:   *)
(* the windows of the quotas are the local day and the local month, and    *)
(* quotas are overrun by no more than what was under way.                  *)
(***************************************************************************)
EXTENDS MCAdmission, FiniteSetTheorems, Sums, TLAPS

-----------------------------------------------------------------------------
(* Numbers *)

LEMMA TimesMonotone ==
  ASSUME NEW m \in Nat, NEW x \in Int, NEW y \in Int, x <= y
  PROVE  m * x \in Int /\ m * y \in Int /\ m * x <= m * y
<1>1. PICK d \in Nat : y = x + d
  BY y - x \in Nat
<1>2. m * (x + d) = m * x + m * d /\ m * d \in Nat
  OBVIOUS
<1> QED BY <1>1, <1>2

\* A quotient is the one number whose multiple is the last not beyond.
LEMMA Quotient ==
  ASSUME NEW a \in Int, NEW n \in Nat \ {0}
  PROVE  /\ a \div n \in Int
         /\ n * (a \div n) <= a /\ a < n * (a \div n + 1)
         /\ \A q \in Int : n * q <= a /\ a < n * (q + 1) <=> a \div n = q
         /\ \A q \in Int : n * q <= a <=> q <= a \div n
<1> DEFINE d == a \div n
<1>1. d \in Int /\ n * d <= a /\ a < n * (d + 1)
  <2>1. d \in Int /\ a = n * d + (a % n) /\ 0 <= a % n /\ a % n < n
    OBVIOUS
  <2>2. n * (d + 1) = n * d + n
    BY <2>1
  <2>3. n * d \in Int
    BY <2>1
  <2> QED BY <2>1, <2>2, <2>3
<1> HIDE DEF d
<1>2. ASSUME NEW q \in Int PROVE n * q <= a <=> q <= d
  <2>1. CASE q <= d
    <3>1. n * q <= n * d /\ n * q \in Int /\ n * d \in Int
      BY <1>1, <2>1, TimesMonotone
    <3> QED BY <1>1, <2>1, <3>1
  <2>2. CASE d + 1 <= q
    <3>1. n * (d + 1) <= n * q /\ n * q \in Int /\ n * (d + 1) \in Int
      BY <1>1, <2>2, TimesMonotone
    <3> QED BY <1>1, <2>2, <3>1
  <2> QED BY <1>1, <2>1, <2>2
<1>3. ASSUME NEW q \in Int PROVE n * q <= a /\ a < n * (q + 1) <=> d = q
  <2>1. (n * q <= a <=> q <= d) /\ (n * (q + 1) <= a <=> q + 1 <= d)
    BY <1>2
  <2>2. n * (q + 1) \in Int
    OBVIOUS
  <2> QED BY <1>1, <2>1, <2>2
<1> QED BY <1>1, <1>2, <1>3 DEF d

-----------------------------------------------------------------------------
(* The calendar *)

\* The clock of a zone shows every midnight once it is read back from its date, and it is
\* never set back from a day to the one before.  Clocks that are never set do this, and
\* those that are set at another time of day than around midnight.
KeepsMidnights(z) == \A day \in Int : Wall(z, Midnight(z, day)) = day * HoursPerDay
DaysGoOn(z) == \A t \in Int : DayOf(Wall(z, t)) <= DayOf(Wall(z, t + 1))
Regular(z) == KeepsMidnights(z) /\ DaysGoOn(z)

IsZone(z) == {z.before, z.after, z.change} \subseteq Int

LEMMA ZoneNumbers ==
  ASSUME NEW z, IsZone(z), NEW t \in Int
  PROVE  /\ Wall(z, t) \in Int /\ Date(z, t) \in Int
         /\ DayOf(t) \in Int /\ MonthOf(t) \in Int
<1>1. \A x \in Int : OffsetAt(z, x) \in Int
  BY DEF OffsetAt, IsZone
<1>2. Wall(z, t) \in Int
  BY <1>1 DEF Wall
<1>3. Date(z, t) \in Int
  <2>1. OffsetAt(z, t) \in Int /\ t - OffsetAt(z, t) \in Int
    BY <1>1
  <2>2. OffsetAt(z, t - OffsetAt(z, t)) \in Int
    BY <1>1, <2>1
  <2> QED BY <2>1, <2>2 DEF Date
<1>4. DayOf(t) \in Int
  BY CalendarAssumption, Quotient DEF DayOf
<1>5. MonthOf(t) \in Int
  BY <1>4, CalendarAssumption, Quotient DEF MonthOf
<1> QED BY <1>2, <1>3, <1>4, <1>5

\* A later hour on the wall is not on an earlier day or in an earlier month.
LEMMA MonthsFollowDays ==
  ASSUME NEW x \in Int, NEW y \in Int, DayOf(x) <= DayOf(y)
  PROVE  MonthOf(x) <= MonthOf(y)
<1> DEFINE a == DayOf(x)
           b == DayOf(y)
           n == DaysPerMonth
<1>1. a \in Int /\ b \in Int /\ n \in Nat \ {0}
  BY CalendarAssumption, Quotient DEF DayOf
<1> HIDE DEF a, b, n
<1>2. a \div n \in Int /\ n * (a \div n) <= a
  BY <1>1, Quotient
<1>3. n * (a \div n) \in Int /\ n * (a \div n) <= b
  BY <1>1, <1>2 DEF a, b
<1>4. a \div n <= b \div n
  BY <1>1, <1>2, <1>3, Quotient
<1> QED BY <1>4 DEF MonthOf, a, b, n

\* Zones whose clock is never set are regular.
LEMMA FixedZonesAreRegular ==
  ASSUME NEW z, IsZone(z), z.before = z.after
  PROVE  Regular(z)
<1>1. \A t : OffsetAt(z, t) = z.after
  BY DEF OffsetAt
<1>2. ASSUME NEW w \in Int PROVE Wall(z, Date(z, w)) = w
  BY <1>1 DEF Wall, Date, IsZone
<1>3. KeepsMidnights(z)
  <2>1. \A day \in Int : day * HoursPerDay \in Int
    BY CalendarAssumption
  <2> QED BY <1>2, <2>1 DEF KeepsMidnights, Midnight
<1>4. DaysGoOn(z)
  <2> SUFFICES ASSUME NEW t \in Int PROVE DayOf(Wall(z, t)) <= DayOf(Wall(z, t + 1))
    BY DEF DaysGoOn
  <2> DEFINE x == Wall(z, t)
             n == HoursPerDay
  <2>1. x \in Int /\ Wall(z, t + 1) = x + 1 /\ n \in Nat \ {0}
    BY <1>1, CalendarAssumption DEF Wall, IsZone
  <2> HIDE DEF x, n
  <2>2. x \div n \in Int /\ n * (x \div n) <= x
    BY <2>1, Quotient
  <2>3. n * (x \div n) \in Int /\ n * (x \div n) <= x + 1
    BY <2>1, <2>2
  <2>4. x \div n <= (x + 1) \div n
    BY <2>1, <2>2, <2>3, Quotient
  <2> QED BY <2>1, <2>4 DEF DayOf, x, n
<1> QED BY <1>3, <1>4 DEF Regular

\* Days later it is midnight again.
LEMMA DaysLater ==
  ASSUME NEW z, KeepsMidnights(z), NEW day \in Int, NEW n \in Int
  PROVE  AddDays(z, Midnight(z, day), n) = Midnight(z, day + n) /\ day + n \in Int
<1> DEFINE H == HoursPerDay
<1>1. AddDays(z, Midnight(z, day), n) = Date(z, day * H + n * H)
  BY DEF AddDays, KeepsMidnights
<1>2. day * H + n * H = (day + n) * H /\ day + n \in Int
  <2>1. H \in Int
    BY CalendarAssumption
  <2> HIDE DEF H
  <2> QED BY <2>1
<1> QED BY <1>1, <1>2 DEF Midnight

\* The windows of a moment are its day and its month, on the wall.
LEMMA WindowsOnTheWall ==
  ASSUME NEW z, IsZone(z), KeepsMidnights(z), NEW t \in Int
  PROVE  LET w == TokenWindows(z, t)
             D == DayOf(Wall(z, t))
             M == MonthOf(Wall(z, t))
         IN /\ Wall(z, w.day.from) = D * HoursPerDay
            /\ Wall(z, w.day.to) = (D + 1) * HoursPerDay
            /\ Wall(z, w.month.from) = (M * DaysPerMonth) * HoursPerDay
            /\ Wall(z, w.month.to) = ((M + 1) * DaysPerMonth) * HoursPerDay
<1> DEFINE D == DayOf(Wall(z, t))
           M == MonthOf(Wall(z, t))
           H == HoursPerDay
           N == DaysPerMonth
<1>1. D \in Int /\ M \in Int /\ H \in Nat \ {0} /\ N \in Nat \ {0}
  BY ZoneNumbers, CalendarAssumption
<1>2. \A day \in Int : Wall(z, Midnight(z, day)) = day * H
  BY DEF KeepsMidnights
<1>3. ASSUME NEW day \in Int, NEW n \in Int PROVE Wall(z, AddDays(z, Midnight(z, day), n)) = (day + n) * H
  BY <1>2, DaysLater
<1>4. M * N \in Int /\ M * N + N = (M + 1) * N
  <2> HIDE DEF M, N
  <2> QED BY <1>1
<1>5. /\ TokenWindows(z, t).day = [from |-> Midnight(z, D), to |-> AddDays(z, Midnight(z, D), 1)]
      /\ TokenWindows(z, t).month = [from |-> Midnight(z, M * N), to |-> AddDays(z, Midnight(z, M * N), N)]
  BY DEF TokenWindows
<1>6. /\ Wall(z, Midnight(z, D)) = D * H /\ Wall(z, AddDays(z, Midnight(z, D), 1)) = (D + 1) * H
      /\ Wall(z, Midnight(z, M * N)) = (M * N) * H
      /\ Wall(z, AddDays(z, Midnight(z, M * N), N)) = (M * N + N) * H
  <2> HIDE DEF D, M, H, N
  <2>1. Wall(z, Midnight(z, D)) = D * H /\ Wall(z, Midnight(z, M * N)) = (M * N) * H
    BY <1>1, <1>2, <1>4
  <2>2. Wall(z, AddDays(z, Midnight(z, D), 1)) = (D + 1) * H
    BY <1>1, <1>3
  <2>3. Wall(z, AddDays(z, Midnight(z, M * N), N)) = (M * N + N) * H
    BY <1>1, <1>3, <1>4
  <2> QED BY <2>1, <2>2, <2>3
<1> HIDE DEF D, M, H, N
<1>7. /\ Wall(z, TokenWindows(z, t).day.from) = D * H
      /\ Wall(z, TokenWindows(z, t).day.to) = (D + 1) * H
      /\ Wall(z, TokenWindows(z, t).month.from) = (M * N) * H
      /\ Wall(z, TokenWindows(z, t).month.to) = ((M + 1) * N) * H
  BY <1>4, <1>5, <1>6
<1> QED BY <1>7 DEF D, M, H, N

\* So a row is in a window if and only if it is of that day or month.
LEMMA InDay ==
  ASSUME NEW w \in Int, NEW D \in Int
  PROVE  D * HoursPerDay <= w /\ w < (D + 1) * HoursPerDay <=> DayOf(w) = D
<1> DEFINE H == HoursPerDay
<1>1. H \in Nat \ {0}
  BY CalendarAssumption
<1> HIDE DEF H
<1>2. D * H = H * D /\ (D + 1) * H = H * (D + 1)
  BY <1>1
<1> QED BY <1>1, <1>2, Quotient DEF DayOf, H

LEMMA InMonth ==
  ASSUME NEW w \in Int, NEW M \in Int
  PROVE  (M * DaysPerMonth) * HoursPerDay <= w /\ w < ((M + 1) * DaysPerMonth) * HoursPerDay
           <=> MonthOf(w) = M
<1> DEFINE H == HoursPerDay
           N == DaysPerMonth
           D == DayOf(w)
<1>1. H \in Nat \ {0} /\ N \in Nat \ {0}
  BY CalendarAssumption
<1>2. D = w \div H /\ MonthOf(w) = D \div N
  BY DEF DayOf, MonthOf
<1> HIDE DEF H, N, D
<1>3. D \in Int /\ \A q \in Int : H * q <= w <=> q <= D
  BY <1>1, <1>2, Quotient
<1>4. \A q \in Int : N * q <= D <=> q <= D \div N
  BY <1>1, <1>3, Quotient
<1>5. ASSUME NEW q \in Int PROVE (q * N) * H <= w <=> N * q <= D
  <2>1. q * N \in Int /\ (q * N) * H = H * (q * N) /\ q * N = N * q
    BY <1>1
  <2> QED BY <1>3, <2>1
<1>6. D \div N \in Int
  BY <1>1, <1>3, Quotient
<1>7. /\ (M * N) * H <= w <=> M <= D \div N
      /\ ((M + 1) * N) * H <= w <=> M + 1 <= D \div N
      /\ ((M + 1) * N) * H \in Int
  <2>1. M + 1 \in Int /\ ((M + 1) * N) * H \in Int
    BY <1>1
  <2> QED BY <1>4, <1>5, <2>1
<1> QED BY <1>2, <1>6, <1>7 DEF H, N

-----------------------------------------------------------------------------
(* Tokens *)

\* The tokens of some rows are a sum as Sums has it.
LEMMA TokensSum == ASSUME NEW B PROVE Tokens(B) = SumOf([row \in B |-> row.tokens], B)
<1> DEFINE f == [row \in B |-> row.tokens]
           Next1(g) == [S \in SUBSET B |-> IF S = {} THEN 0
                          ELSE (CHOOSE x \in S : TRUE).tokens + g[S \ {CHOOSE x \in S : TRUE}]]
           h == CHOOSE g : g = Next1(g)
           k == CHOOSE g : AddsUp(f, SUBSET B, g)
<1>1. Tokens(B) = h[B]
  BY DEF Tokens, MapThenSumSet, MapThenFoldSet
<1>2. ASSUME NEW g PROVE AddsUp(f, SUBSET B, g) <=> g = Next1(g)
  <2>1. ASSUME NEW S \in SUBSET B, S # {} PROVE f[Some(S)] = (CHOOSE x \in S : TRUE).tokens
    BY <2>1 DEF Some
  <2> HIDE DEF f
  <2> QED BY <2>1 DEF AddsUp, Term, Some
<1>3. h = k
  <2> HIDE DEF f, Next1
  <2> QED BY <1>2
<1>4. SumOf(f, B) = k[B]
  <2> HIDE DEF f
  <2> QED BY DEF SumOf
<1> HIDE DEF h, k
<1> QED BY <1>1, <1>3, <1>4

LEMMA TokensNat ==
  ASSUME NEW B, IsFiniteSet(B), \A row \in B : row.tokens \in Nat
  PROVE  Tokens(B) \in Nat
<1> DEFINE f == [row \in B |-> row.tokens]
<1>1. \A row \in B : f[row] \in Nat
  OBVIOUS
<1> HIDE DEF f
<1>2. SumOf(f, B) \in Nat
  BY <1>1, SumNat
<1> QED BY <1>2, TokensSum DEF f

LEMMA TokensNone == Tokens({}) = 0
BY TokensSum, SumEmpty

LEMMA TokensMore ==
  ASSUME NEW B, IsFiniteSet(B), \A row \in B : row.tokens \in Nat, NEW y, y \notin B, y.tokens \in Nat
  PROVE  Tokens(B \union {y}) = Tokens(B) + y.tokens
<1> DEFINE C == B \union {y}
           f == [x \in C |-> x.tokens]
           e == [x \in B |-> x.tokens]
<1>1. \A x \in B : f[x] \in Nat
  OBVIOUS
<1>2. \A x \in B : f[x] = e[x]
  OBVIOUS
<1>3. f[y] = y.tokens /\ f[y] \in Nat
  OBVIOUS
<1>4. Tokens(C) = SumOf(f, C) /\ Tokens(B) = SumOf(e, B)
  BY TokensSum
<1> HIDE DEF f, e
<1>5. SumOf(f, C) = SumOf(f, B) + f[y]
  BY <1>1, <1>3, SumAdd
<1>6. SumOf(f, B) = SumOf(e, B)
  BY <1>1, <1>2, SumCongruent
<1> QED BY <1>3, <1>4, <1>5, <1>6

-----------------------------------------------------------------------------
(* Types: what the quotas depend on.  What is left to be checked, and in which order, *)
(* makes no difference to them.                                                       *)

Recs == [key : Keys \union {NoSubject}, up : Ups, tokens : 1 .. MaxTokens]

Listing(s) == s \in Seq({s[i] : i \in DOMAIN s})

Server ==
  /\ zone \in Zones /\ now \in Nat
  /\ keys \in [Keys -> KeyRows] /\ ups \in [Ups -> UpRows]
RowsDated ==
  /\ IsFiniteSet(usage)
  /\ \A row \in usage :
       /\ row.tokens \in Nat /\ row.createdAt \in Int
       /\ row.id \in Nat /\ row.id < Cardinality(usage)
       /\ DayOf(row.createdAt) <= Today
Queued == queue \in Seq(Recs) /\ Len(queue) <= QueueCap + 1
Requested ==
  /\ DOMAIN pc = Requests /\ DOMAIN subject = Requests /\ DOMAIN windows = Requests
  /\ DOMAIN chain = Requests /\ DOMAIN left = Requests
  /\ key \in [Requests -> Keys \union {NoSubject}]
  /\ DOMAIN usable = Requests /\ \A r \in Requests : Listing(usable[r])
  /\ \A r \in Requests : pc[r] = "call" => subject[r] = NoSubject
Typed == Server /\ RowsDated /\ Queued /\ Requested

LEMMA TypedInit == Init => Typed
<1> SUFFICES ASSUME Init PROVE Typed
  OBVIOUS
<1>1. Server
  BY DEF Init, Server
<1>2. RowsDated
  BY FS_EmptySet DEF Init, RowsDated
<1>3. Queued
  BY AdmissionAssumption DEF Init, Queued
<1>4. Requested
  BY DEF Init, Requested, Listing
<1> QED BY <1>1, <1>2, <1>3, <1>4 DEF Typed

LEMMA ListingAppend ==
  ASSUME NEW s, Listing(s), NEW x
  PROVE  Listing(Append(s, x)) /\ Upstreams(Append(s, x)) = Upstreams(s) \union {x}
<1> DEFINE S == {s[i] : i \in DOMAIN s}
           T == S \union {x}
           t == Append(s, x)
<1>1. s \in Seq(S) /\ s \in Seq(T)
  BY DEF Listing
<1>2. /\ t \in Seq(T) /\ DOMAIN t = 1 .. Len(s) + 1 /\ Len(s) \in Nat /\ DOMAIN s = 1 .. Len(s)
      /\ t[Len(s) + 1] = x /\ \A i \in 1 .. Len(s) : t[i] = s[i]
  <2> HIDE DEF S, T
  <2> QED BY <1>1 DEF T
<1>3. {t[i] : i \in DOMAIN t} = T
  <2> HIDE DEF t
  <2> QED BY <1>2
<1> HIDE DEF t
<1> QED BY <1>2, <1>3 DEF Listing, Upstreams, t

\* The requests and the queue keep their types.
LEMMA RequestedNext ==
  ASSUME Typed, NEW r \in Requests,
         \/ \E k \in Keys, name \in Names : Arrive(r, k, name)
         \/ TakeClock(r) \/ CheckDay(r) \/ CheckMonth(r) \/ CheckFails(r) \/ NoAnswer(r)
         \/ \E u \in Ups, n \in 1 .. MaxTokens : Answer(r, u, n)
  PROVE  Typed'
<1> USE DEF Typed
<1>1. UNCHANGED <<rows, now, usage>>
  BY DEF Arrive, TakeClock, CheckDay, CheckMonth, CheckFails, NoAnswer, Answer
<1>2. Server' /\ RowsDated'
  BY <1>1 DEF Server, RowsDated, rows, Today
<1> SUFFICES Requested' /\ Queued'
  BY <1>2
<1>3. ASSUME NEW k \in Keys, NEW name \in Names, Arrive(r, k, name) PROVE Requested' /\ Queued'
  <2>1. /\ UNCHANGED <<windows, queue>> /\ key' = [key EXCEPT ![r] = k]
        /\ usable' = [usable EXCEPT ![r] = <<>>]
        /\ subject' = [subject EXCEPT ![r] = k] \/ subject' = subject
        /\ \E place \in {"idle", "clock"} : pc' = [pc EXCEPT ![r] = place]
    BY <1>3 DEF Arrive, End, Move
  <2>2. Listing(<<>>)
    BY DEF Listing
  <2> QED BY <1>3, <2>1, <2>2 DEF Requested, Queued, Arrive
<1>4. CASE TakeClock(r)
  <2>1. /\ UNCHANGED <<subject, key, usable, queue, left, chain>> /\ pc' = [pc EXCEPT ![r] = "day"]
        /\ windows' = [windows EXCEPT ![r] = TokenWindows(zone, now)]
    BY <1>4 DEF TakeClock, Move
  <2> QED BY <2>1 DEF Requested, Queued
<1>5. ASSUME NEW rest, NEW good, Continue(r, rest, good), Listing(good), UNCHANGED <<key, queue, chain>>
      PROVE  Requested' /\ Queued'
  <2>1. usable' = [usable EXCEPT ![r] = good]
    BY <1>5 DEF Continue
  <2>2. /\ DOMAIN pc' = Requests /\ DOMAIN subject' = Requests /\ DOMAIN windows' = Requests
        /\ DOMAIN left' = Requests
        /\ pc'[r] = "call" => subject'[r] = NoSubject
        /\ \A q \in Requests \ {r} : pc'[q] = pc[q] /\ subject'[q] = subject[q]
    BY <1>5 DEF Continue, Clear, End, Move, Requested
  <2> QED BY <1>5, <2>1, <2>2 DEF Requested, Queued
<1>6. ASSUME Clear(r), End(r, 429) \/ End(r, 500), UNCHANGED <<usable, key, queue, chain>>
      PROVE  Requested' /\ Queued'
  BY <1>6 DEF Clear, End, Move, Requested, Queued
<1>7. ASSUME Exceeds(r), UNCHANGED <<key, queue, chain>> PROVE Requested' /\ Queued'
  <2>1. CASE subject[r] \in Keys
    <3>1. Clear(r) /\ End(r, 429) /\ UNCHANGED <<usable, key, queue, chain>>
      BY <1>7, <2>1 DEF Exceeds
    <3> QED BY <1>6, <3>1
  <2>2. CASE subject[r] \notin Keys
    BY <1>5, <1>7, <2>2 DEF Exceeds, Requested
  <2> QED BY <2>1, <2>2
<1>8. CASE CheckDay(r)
  <2>1. CASE Exceeds(r)
    <3>1. UNCHANGED <<key, queue, chain>>
      BY <1>8 DEF CheckDay
    <3> QED BY <1>7, <2>1, <3>1
  <2>2. CASE Move(r, "month") /\ UNCHANGED <<subject, windows, left, usable, code>>
    BY <1>8, <2>2 DEF CheckDay, Move, Requested, Queued
  <2> QED BY <1>8, <2>1, <2>2 DEF CheckDay
<1>9. CASE CheckMonth(r)
  <2>1. CASE Exceeds(r)
    <3>1. UNCHANGED <<key, queue, chain>>
      BY <1>9 DEF CheckMonth
    <3> QED BY <1>7, <2>1, <3>1
  <2>2. CASE Passes(r)
    <3>1. UNCHANGED <<key, queue, chain>>
      BY <1>9 DEF CheckMonth
    <3>2. Listing(<<>>)
      BY DEF Listing
    <3>3. Listing(Append(usable[r], subject[r]))
      BY ListingAppend DEF Requested
    <3>4. CASE subject[r] \in Keys
      BY <1>5, <2>2, <3>1, <3>2, <3>4 DEF Passes
    <3>5. CASE subject[r] \notin Keys
      BY <1>5, <2>2, <3>1, <3>3, <3>5 DEF Passes
    <3> QED BY <3>4, <3>5
  <2> QED BY <1>9, <2>1, <2>2 DEF CheckMonth
<1>10. CASE CheckFails(r)
  BY <1>6, <1>10 DEF CheckFails
<1>11. CASE NoAnswer(r)
  BY <1>11 DEF NoAnswer, End, Move, checks, Requested, Queued
<1>12. ASSUME NEW u \in Ups, NEW n \in 1 .. MaxTokens, Answer(r, u, n) PROVE Requested' /\ Queued'
  <2>1. UNCHANGED checks /\ pc' = [pc EXCEPT ![r] = "idle"] /\ Enqueue([key |-> key[r], up |-> u, tokens |-> n])
    BY <1>12 DEF Answer, End, Move
  <2>2. Requested'
    BY <2>1 DEF checks, Requested
  <2> DEFINE rec == [key |-> key[r], up |-> u, tokens |-> n]
  <2>3. rec \in Recs
    BY DEF Requested, Recs
  <2> HIDE DEF rec
  <2>4. CASE Len(queue) <= QueueCap /\ queue' = Append(queue, rec)
    <3>1. queue' \in Seq(Recs) /\ Len(queue') = Len(queue) + 1 /\ Len(queue) \in Nat
      BY <2>3, <2>4 DEF Queued
    <3> QED BY <2>2, <2>4, <3>1, AdmissionAssumption DEF Queued
  <2>5. CASE UNCHANGED queue
    BY <2>2, <2>5 DEF Queued
  <2> QED BY <2>1, <2>4, <2>5 DEF Enqueue, rec
<1> QED BY <1>3, <1>4, <1>8, <1>9, <1>10, <1>11, <1>12

\* A record becomes a row of the present hour, numbered on.
LEMMA InsertTyped ==
  ASSUME Typed, Insert
  PROVE  /\ Typed'
         /\ LET rec == Head(queue)
                row == [id |-> Cardinality(usage), key |-> rec.key, up |-> rec.up, tokens |-> rec.tokens,
                        createdAt |-> Wall(zone, now)]
            IN /\ usage' = usage \union {row} /\ row \notin usage
               /\ rec \in Recs /\ row.createdAt \in Int
<1> USE DEF Typed
<1> DEFINE rec == Head(queue)
           row == [id |-> Cardinality(usage), key |-> rec.key, up |-> rec.up, tokens |-> rec.tokens,
                   createdAt |-> Wall(zone, now)]
<1>1. UNCHANGED <<rows, now, pc, checks>> /\ queue # <<>> /\ queue' = Tail(queue) /\ usage' = usage \union {row}
  BY DEF Insert, InsertUsage
<1>2. rec \in Recs /\ queue' \in Seq(Recs) /\ Len(queue') <= QueueCap + 1
  BY <1>1, AdmissionAssumption DEF Queued
<1>3. IsZone(zone) /\ now \in Int
  BY AdmissionAssumption DEF Server, IsZone
<1>4. row.createdAt \in Int /\ DayOf(row.createdAt) = Today /\ Today \in Int
  BY <1>3, ZoneNumbers DEF Today
<1>5. row.id = Cardinality(usage) /\ row.tokens = rec.tokens /\ rec.tokens \in Nat
  BY <1>2, AdmissionAssumption DEF Recs
<1> HIDE DEF row, rec
<1>6. row \notin usage
  BY <1>5 DEF RowsDated
<1>7. IsFiniteSet(usage') /\ Cardinality(usage') = Cardinality(usage) + 1 /\ Cardinality(usage) \in Nat
  BY <1>1, <1>6, FS_AddElement, FS_CardinalityType DEF RowsDated
<1>8. RowsDated'
  <2>1. Today' = Today
    BY <1>1 DEF Today, rows
  <2>2. ASSUME NEW x \in usage'
        PROVE  /\ x.tokens \in Nat /\ x.createdAt \in Int
               /\ x.id \in Nat /\ x.id < Cardinality(usage')
               /\ DayOf(x.createdAt) <= Today
    <3>1. CASE x \in usage
      BY <1>7, <3>1 DEF RowsDated
    <3>2. CASE x = row
      BY <1>4, <1>5, <1>7, <3>2
    <3> QED BY <1>1, <3>1, <3>2
  <2> QED BY <1>7, <2>1, <2>2 DEF RowsDated
<1>9. Server' /\ Requested' /\ Queued'
  BY <1>1, <1>2 DEF Server, Requested, Queued, rows, checks
<1> QED BY <1>1, <1>2, <1>4, <1>6, <1>8, <1>9 DEF row, rec

LEMMA TickTyped ==
  ASSUME Typed, \A z \in Zones : Regular(z), Tick
  PROVE  Typed' /\ Today <= Today' /\ ThisMonth <= ThisMonth'
<1> USE DEF Typed
<1>1. now' = now + 1 /\ UNCHANGED <<rows, usage, queue, pc, checks>>
  BY DEF Tick
<1>2. Server' /\ Queued' /\ Requested'
  BY <1>1 DEF Server, Queued, Requested, rows, checks
<1>3. IsZone(zone) /\ now \in Nat /\ DaysGoOn(zone) /\ zone' = zone
  BY <1>1, AdmissionAssumption DEF Server, IsZone, Regular, rows
<1>4. DayOf(Wall(zone, now)) <= DayOf(Wall(zone, now + 1))
  BY <1>3 DEF DaysGoOn
<1>5. Wall(zone, now) \in Int /\ Wall(zone, now + 1) \in Int
  BY <1>3, ZoneNumbers
<1>6. Today <= Today' /\ Today \in Int /\ Today' \in Int
  <2>1. DayOf(Wall(zone, now)) \in Int /\ DayOf(Wall(zone, now + 1)) \in Int
    BY <1>3, <1>5, ZoneNumbers
  <2> QED BY <1>1, <1>3, <1>4, <2>1 DEF Today
<1>7. ThisMonth <= ThisMonth'
  BY <1>1, <1>3, <1>4, <1>5, MonthsFollowDays DEF ThisMonth
<1>8. RowsDated'
  <2>1. \A row \in usage : DayOf(row.createdAt) \in Int
    BY <1>3, ZoneNumbers DEF RowsDated
  <2> QED BY <1>1, <1>6, <2>1 DEF RowsDated
<1> QED BY <1>2, <1>6, <1>7, <1>8

LEMMA TypedNext ==
  ASSUME \A z \in Zones : Regular(z)
  PROVE  Typed /\ [Next]_vars => Typed'
<1> SUFFICES ASSUME Typed, [Next]_vars PROVE Typed'
  OBVIOUS
<1>1. ASSUME UNCHANGED vars PROVE Typed'
  BY <1>1 DEF vars, Typed, Server, RowsDated, Queued, Requested, rows, checks, Today
<1> QED BY <1>1, RequestedNext, InsertTyped, TickTyped DEF Next

-----------------------------------------------------------------------------
(* What the checks count *)

Spans == {"day", "month"}

\* The day or the month a row is of, and the present one.
Period(w, t) == IF w = "day" THEN DayOf(t) ELSE MonthOf(t)
Present(w) == Period(w, Wall(zone, now))

\* What is recorded for a key or an upstream in a day or month.
RowsIn(s, w, q) == {row \in usage : Concerns(row, s) /\ Period(w, row.createdAt) = q}
Recorded(s, w, q) == Tokens(RowsIn(s, w, q))

LEMMA PresentIs == Present("day") = Today /\ Present("month") = ThisMonth
BY DEF Present, Period, Today, ThisMonth

LEMMA RecordedIs ==
  /\ \A s, q : Recorded(s, "day", q) = UsedOn(s, q)
  /\ \A s, q : Recorded(s, "month", q) = UsedIn(s, q)
BY DEF Recorded, RowsIn, Period, UsedOn, UsedIn

LEMMA RecordedNat ==
  ASSUME Typed, NEW s, NEW w \in Spans, NEW q
  PROVE  IsFiniteSet(RowsIn(s, w, q)) /\ Recorded(s, w, q) \in Nat
<1>1. RowsIn(s, w, q) \subseteq usage /\ IsFiniteSet(usage) /\ \A row \in usage : row.tokens \in Nat
  BY DEF Typed, RowsDated, RowsIn
<1>2. IsFiniteSet(RowsIn(s, w, q))
  BY <1>1, FS_Subset
<1> QED BY <1>1, <1>2, TokensNat DEF Recorded

LEMMA PresentNumber ==
  ASSUME Typed, NEW w \in Spans
  PROVE  /\ Present(w) \in Int
         /\ \A row \in usage : Period(w, row.createdAt) \in Int /\ Period(w, row.createdAt) <= Present(w)
<1>1. IsZone(zone) /\ now \in Int
  BY AdmissionAssumption DEF Typed, Server, IsZone
<1>2. Wall(zone, now) \in Int
  BY <1>1, ZoneNumbers
<1>3. Present(w) \in Int
  BY <1>1, <1>2, ZoneNumbers DEF Present, Period
<1>4. ASSUME NEW row \in usage PROVE Period(w, row.createdAt) \in Int /\ Period(w, row.createdAt) <= Present(w)
  <2>1. row.createdAt \in Int /\ DayOf(row.createdAt) <= DayOf(Wall(zone, now))
    BY DEF Typed, RowsDated, Today
  <2>2. MonthOf(row.createdAt) <= MonthOf(Wall(zone, now))
    BY <1>2, <2>1, MonthsFollowDays
  <2>3. DayOf(row.createdAt) \in Int /\ MonthOf(row.createdAt) \in Int
    BY <1>1, <2>1, ZoneNumbers
  <2> QED BY <2>1, <2>2, <2>3 DEF Period, Present
<1> QED BY <1>3, <1>4

\* The windows of two moments of the same day or month are the same.
LEMMA SamePeriod ==
  ASSUME NEW z, NEW t, NEW u, NEW w \in Spans, Period(w, Wall(z, t)) = Period(w, Wall(z, u))
  PROVE  TokenWindows(z, t)[w] = TokenWindows(z, u)[w]
<1>1. CASE w = "day"
  BY <1>1 DEF TokenWindows, Period
<1>2. CASE w = "month"
  BY <1>2 DEF TokenWindows, Period
<1> QED BY <1>1, <1>2 DEF Spans

\* The window of a moment has just the hours on the wall of its day or month.
LEMMA InWindow ==
  ASSUME NEW z, IsZone(z), KeepsMidnights(z), NEW t \in Int, NEW x \in Int, NEW w \in Spans
  PROVE  LET win == TokenWindows(z, t)[w] IN
         Wall(z, win.from) <= x /\ x < Wall(z, win.to) <=> Period(w, x) = Period(w, Wall(z, t))
<1> DEFINE from == Wall(z, TokenWindows(z, t)[w].from)
           to == Wall(z, TokenWindows(z, t)[w].to)
<1>1. DayOf(Wall(z, t)) \in Int /\ MonthOf(Wall(z, t)) \in Int
  <2>1. Wall(z, t) \in Int
    BY ZoneNumbers
  <2> QED BY <2>1, ZoneNumbers
<1>2. CASE w = "day"
  <2>1. from = DayOf(Wall(z, t)) * HoursPerDay /\ to = (DayOf(Wall(z, t)) + 1) * HoursPerDay
    BY <1>2, WindowsOnTheWall
  <2> HIDE DEF from, to
  <2>2. from <= x /\ x < to <=> Period(w, x) = Period(w, Wall(z, t))
    BY <1>1, <1>2, <2>1, InDay DEF Period
  <2> QED BY <2>2 DEF from, to
<1>3. CASE w = "month"
  <2>1. /\ from = (MonthOf(Wall(z, t)) * DaysPerMonth) * HoursPerDay
        /\ to = ((MonthOf(Wall(z, t)) + 1) * DaysPerMonth) * HoursPerDay
    BY <1>3, WindowsOnTheWall
  <2> HIDE DEF from, to
  <2>2. from <= x /\ x < to <=> Period(w, x) = Period(w, Wall(z, t))
    BY <1>1, <1>3, <2>1, InMonth DEF Period
  <2> QED BY <2>2 DEF from, to
<1> QED BY <1>2, <1>3 DEF Spans

\* A check that uses the windows of the present counts just that.
LEMMA ChecksCountThePresent ==
  ASSUME Typed, \A z \in Zones : Regular(z), NEW s, NEW w \in Spans
  PROVE  SumTokens(usage, zone, s, TokenWindows(zone, now)[w]) = Recorded(s, w, Present(w))
<1> DEFINE win == TokenWindows(zone, now)[w]
           from == Wall(zone, win.from)
           to == Wall(zone, win.to)
<1>1. IsZone(zone) /\ now \in Int /\ KeepsMidnights(zone)
  BY AdmissionAssumption DEF Typed, Server, IsZone, Regular
<1>2. \A row \in usage : from <= row.createdAt /\ row.createdAt < to <=> Period(w, row.createdAt) = Present(w)
  BY <1>1, InWindow DEF Present, Typed, RowsDated
<1>3. SumTokens(usage, zone, s, win)
        = Tokens({row \in usage : /\ from <= row.createdAt /\ row.createdAt < to /\ Concerns(row, s)})
  BY DEF SumTokens
<1> HIDE DEF from, to, win
<1>4. {row \in usage : /\ from <= row.createdAt /\ row.createdAt < to /\ Concerns(row, s)} = RowsIn(s, w, Present(w))
  BY <1>2 DEF RowsIn
<1> QED BY <1>3, <1>4 DEF Recorded, win

\* On days of any length the quotas count whole local days and months: all that was
\* recorded on the day and nothing else.
THEOREM QuotasCountWholeDays ==
  ASSUME \A z \in Zones : Regular(z)
  PROVE  Spec => []WindowsAreDays
<1>1. Typed => WindowsAreDays
  <2> SUFFICES ASSUME Typed, NEW s \in Subjects
               PROVE  LET w == TokenWindows(zone, now) IN
                      /\ SumTokens(usage, zone, s, w.day) = UsedOn(s, Today)
                      /\ SumTokens(usage, zone, s, w.month) = UsedIn(s, ThisMonth)
    BY DEF WindowsAreDays
  <2> HIDE DEF WindowsAreDays
  <2>1. \A w \in Spans : SumTokens(usage, zone, s, TokenWindows(zone, now)[w]) = Recorded(s, w, Present(w))
    BY ChecksCountThePresent
  <2> QED BY <2>1, PresentIs, RecordedIs DEF Spans
<1>2. Typed /\ [Next]_vars => Typed'
  BY TypedNext
<1> QED BY <1>1, <1>2, TypedInit, PTL DEF Spec

-----------------------------------------------------------------------------
(* How far a quota can be overrun *)

Limit(s, w) == IF w = "day" THEN Quota(s).daily ELSE Quota(s).monthly

\* A check that began before the day or the month did; one that has looked at the day.
Stale(r, w) == pc[r] \in {"day", "month"} /\ windows[r][w] # TokenWindows(zone, now)[w]
Seen(r, w) == w = "day" /\ pc[r] = "month"

\* The request may still use a key or an upstream without looking at what it used.
IsLoose(r, s, w) ==
  /\ pc[r] # "idle"
  /\ \/ key[r] = s /\ subject[r] # s
     \/ s \in Upstreams(usable[r])
     \/ subject[r] = s /\ (Stale(r, w) \/ Seen(r, w))
Loose(s, w) == {r \in Requests : IsLoose(r, s, w)}

\* The records of a key or an upstream that wait.
Waiting(s) == {i \in DOMAIN queue : Concerns(queue[i], s)}
Pending(s, w) == Cardinality(Waiting(s)) + Cardinality(Loose(s, w))

\* A quota that is reached by what is recorded is not exceeded further by what can still
\* come, and was not by more on any day or in any month that is over.
Room(s, w) == Limit(s, w) - 1 + InFlight
Below(s, w) == Recorded(s, w, Present(w)) < Limit(s, w)
Within(s, w) == Below(s, w) \/ Recorded(s, w, Present(w)) + MaxTokens * Pending(s, w) <= Room(s, w)
Over(s, w) == \A q \in Int : q < Present(w) => Recorded(s, w, q) <= Room(s, w)
Held == \A s \in Subjects, w \in Spans : Limit(s, w) > 0 => Within(s, w) /\ Over(s, w)

LEMMA LimitInt == ASSUME Typed, NEW s \in Subjects, NEW w PROVE Limit(s, w) \in Int
<1>1. Quota(s) \in KeyRows \union UpRows
  BY DEF Quota, Subjects, Typed, Server
<1> QED BY <1>1, AdmissionAssumption DEF Limit

LEMMA InFlightNat ==
  /\ Cardinality(Requests) \in Nat /\ InFlight \in Nat
  /\ InFlight = MaxTokens * (Cardinality(Requests) + QueueCap + 1)
<1>1. Cardinality(Requests) \in Nat
  BY AdmissionAssumption, FS_CardinalityType
<1>2. MaxTokens \in Nat /\ QueueCap \in Nat
  BY AdmissionAssumption
<1> DEFINE n == Cardinality(Requests)
<1> HIDE DEF n
<1>3. (n + QueueCap + 1) * MaxTokens \in Nat /\ (n + QueueCap + 1) * MaxTokens = MaxTokens * (n + QueueCap + 1)
  BY <1>1, <1>2 DEF n
<1> QED BY <1>1, <1>3 DEF n, InFlight

LEMMA PendingNat ==
  ASSUME Typed, NEW s, NEW w
  PROVE  /\ IsFiniteSet(Waiting(s)) /\ Cardinality(Waiting(s)) \in 0 .. QueueCap + 1
         /\ IsFiniteSet(Loose(s, w)) /\ Cardinality(Loose(s, w)) \in 0 .. Cardinality(Requests)
         /\ Pending(s, w) \in Nat /\ MaxTokens * Pending(s, w) \in Nat
         /\ MaxTokens * Pending(s, w) <= InFlight
<1>1. Len(queue) \in Nat /\ Len(queue) <= QueueCap + 1 /\ DOMAIN queue = 1 .. Len(queue)
  BY DEF Typed, Queued
<1>2. IsFiniteSet(1 .. Len(queue)) /\ Cardinality(1 .. Len(queue)) = Len(queue)
  <2> DEFINE n == Len(queue)
  <2> HIDE DEF n
  <2>1. n \in Nat
    BY <1>1 DEF n
  <2>2. IsFiniteSet(1 .. n) /\ Cardinality(1 .. n) = IF 1 > n THEN 0 ELSE n - 1 + 1
    BY <2>1, FS_Interval
  <2> QED BY <2>1, <2>2 DEF n
<1>3. Waiting(s) \in SUBSET (1 .. Len(queue))
  BY <1>1 DEF Waiting
<1>4. IsFiniteSet(Waiting(s)) /\ Cardinality(Waiting(s)) <= Len(queue)
  BY <1>2, <1>3, FS_Subset
<1>5. Loose(s, w) \in SUBSET Requests
  BY DEF Loose
<1>6. IsFiniteSet(Loose(s, w)) /\ Cardinality(Loose(s, w)) <= Cardinality(Requests)
  BY <1>5, AdmissionAssumption, FS_Subset
<1>7. Cardinality(Waiting(s)) \in Nat /\ Cardinality(Loose(s, w)) \in Nat /\ Cardinality(Requests) \in Nat
  BY <1>4, <1>6, AdmissionAssumption, FS_CardinalityType
<1>8. QueueCap \in Nat /\ MaxTokens \in Nat
  BY AdmissionAssumption
<1>9. Pending(s, w) \in Nat /\ Pending(s, w) <= Cardinality(Requests) + QueueCap + 1
  BY <1>1, <1>4, <1>6, <1>7, <1>8 DEF Pending
<1>10. MaxTokens * Pending(s, w) <= MaxTokens * (Cardinality(Requests) + QueueCap + 1)
  <2>1. Pending(s, w) \in Int /\ Cardinality(Requests) + QueueCap + 1 \in Int
    BY <1>7, <1>8, <1>9
  <2> QED BY <1>8, <1>9, <2>1, TimesMonotone
<1>11. MaxTokens * Pending(s, w) \in Nat
  <2> DEFINE p == Pending(s, w)
  <2> HIDE DEF p
  <2>1. MaxTokens * p \in Nat
    BY <1>8, <1>9 DEF p
  <2> QED BY <2>1 DEF p
<1>12. Cardinality(Waiting(s)) \in 0 .. QueueCap + 1 /\ Cardinality(Loose(s, w)) \in 0 .. Cardinality(Requests)
  BY <1>1, <1>4, <1>6, <1>7, <1>8
<1> QED BY <1>4, <1>6, <1>9, <1>10, <1>11, <1>12, InFlightNat

\* Numbers, now and after a step.
Numbers ==
  \A s \in Subjects, w \in Spans :
    /\ Pending(s, w) \in Nat /\ MaxTokens * Pending(s, w) \in Nat
    /\ MaxTokens * Pending(s, w) <= InFlight
    /\ IsFiniteSet(Waiting(s)) /\ Cardinality(Waiting(s)) \in Nat
    /\ IsFiniteSet(Loose(s, w)) /\ Cardinality(Loose(s, w)) \in Nat
    /\ Limit(s, w) \in Int /\ Present(w) \in Int
    /\ \A q : Recorded(s, w, q) \in Nat

LEMMA Counted == Typed => Numbers
<1> SUFFICES ASSUME Typed, NEW s \in Subjects, NEW w \in Spans
             PROVE  /\ Pending(s, w) \in Nat /\ MaxTokens * Pending(s, w) \in Nat
                    /\ MaxTokens * Pending(s, w) <= InFlight
                    /\ IsFiniteSet(Waiting(s)) /\ Cardinality(Waiting(s)) \in Nat
                    /\ IsFiniteSet(Loose(s, w)) /\ Cardinality(Loose(s, w)) \in Nat
                    /\ Limit(s, w) \in Int /\ Present(w) \in Int
                    /\ \A q : Recorded(s, w, q) \in Nat
  BY DEF Numbers
<1>1. Limit(s, w) \in Int /\ Present(w) \in Int
  BY LimitInt, PresentNumber
<1>2. \A q : Recorded(s, w, q) \in Nat
  BY RecordedNat
<1>3. /\ Pending(s, w) \in Nat /\ MaxTokens * Pending(s, w) \in Nat
      /\ MaxTokens * Pending(s, w) <= InFlight
      /\ IsFiniteSet(Waiting(s)) /\ IsFiniteSet(Loose(s, w))
  BY PendingNat
<1> QED BY <1>1, <1>2, <1>3, FS_CardinalityType

LEMMA CountedNext == Typed' => Numbers'
BY Counted, PTL

\* Less can come than could before.
LEMMA FewerPending ==
  ASSUME Typed, Typed', NEW s \in Subjects, NEW w \in Spans, Pending(s, w)' <= Pending(s, w)
  PROVE  MaxTokens * Pending(s, w)' <= MaxTokens * Pending(s, w)
<1>1. Pending(s, w) \in Int /\ Pending(s, w)' \in Int /\ MaxTokens \in Nat
  BY Counted, CountedNext, AdmissionAssumption DEF Numbers
<1> QED BY <1>1, TimesMonotone

LEMMA HeldInit == Init => Held
<1> SUFFICES ASSUME Init, NEW s \in Subjects, NEW w \in Spans, Limit(s, w) > 0
             PROVE  Within(s, w) /\ Over(s, w)
  BY DEF Held
<1>1. \A q : Recorded(s, w, q) = 0
  <2>1. \A q : RowsIn(s, w, q) = {}
    BY DEF RowsIn, Init
  <2> QED BY <2>1, TokensNone DEF Recorded
<1>2. Limit(s, w) \in Int /\ InFlight \in Nat
  BY TypedInit, LimitInt, InFlightNat
<1> QED BY <1>1, <1>2 DEF Within, Below, Over, Room

-----------------------------------------------------------------------------
(* What a request does to it *)

\* While no day or month ends and nothing more is recorded, no more can come than before
\* unless the quota is not reached.
LEMMA Quiet ==
  ASSUME Typed, Typed', UNCHANGED rows, NEW s \in Subjects, NEW w \in Spans,
         Limit(s, w) > 0, Within(s, w), Over(s, w),
         Present(w)' = Present(w), \A q : Recorded(s, w, q)' = Recorded(s, w, q),
         Pending(s, w)' <= Pending(s, w) \/ Below(s, w)
  PROVE  Within(s, w)' /\ Over(s, w)'
<1>1. Limit(s, w)' = Limit(s, w) /\ Room(s, w)' = Room(s, w)
  BY DEF Limit, Quota, rows, Room
<1>2. Over(s, w)'
  BY <1>1 DEF Over
<1>3. CASE Below(s, w)
  BY <1>1, <1>2, <1>3 DEF Within, Below
<1>4. CASE ~Below(s, w)
  <2>1. Recorded(s, w, Present(w)) + MaxTokens * Pending(s, w) <= Room(s, w)
    BY <1>4 DEF Within
  <2>2. MaxTokens * Pending(s, w)' <= MaxTokens * Pending(s, w)
    BY <1>4, FewerPending
  <2>3. /\ MaxTokens * Pending(s, w) \in Nat /\ MaxTokens * Pending(s, w)' \in Nat
        /\ Recorded(s, w, Present(w)) \in Nat /\ Limit(s, w) \in Int
    BY Counted, CountedNext DEF Numbers
  <2>4. Room(s, w) \in Int
    BY <2>3, InFlightNat DEF Room
  <2>5. Recorded(s, w, Present(w)) + MaxTokens * Pending(s, w)' <= Room(s, w)
    BY <2>1, <2>2, <2>3, <2>4
  <2> QED BY <1>1, <1>2, <2>5 DEF Within
<1> QED BY <1>3, <1>4

LEMMA Calm ==
  ASSUME Typed, Typed', UNCHANGED <<rows, now, usage, queue>>, NEW s \in Subjects, NEW w \in Spans,
         Limit(s, w) > 0, Within(s, w), Over(s, w),
         Loose(s, w)' \subseteq Loose(s, w) \/ Below(s, w)
  PROVE  Within(s, w)' /\ Over(s, w)'
<1>1. /\ Present(w)' = Present(w) /\ \A q : Recorded(s, w, q)' = Recorded(s, w, q)
      /\ Waiting(s)' = Waiting(s)
  BY DEF rows, Present, Recorded, RowsIn, Waiting
<1>2. ASSUME Loose(s, w)' \subseteq Loose(s, w) PROVE Pending(s, w)' <= Pending(s, w)
  <2>1. Loose(s, w)' \in SUBSET Loose(s, w) /\ IsFiniteSet(Loose(s, w))
    BY <1>2, Counted DEF Numbers
  <2>2. Cardinality(Loose(s, w)') <= Cardinality(Loose(s, w))
    BY <2>1, FS_Subset
  <2> QED BY <1>1, <2>2, Counted, CountedNext DEF Pending, Numbers
<1>3. UNCHANGED rows
  OBVIOUS
<1> QED BY <1>1, <1>2, <1>3, Quiet

\* A request's step leaves the others where they are.
Stays(q) ==
  /\ pc'[q] = pc[q] /\ key'[q] = key[q] /\ subject'[q] = subject[q]
  /\ windows'[q] = windows[q] /\ usable'[q] = usable[q]
  /\ left'[q] = left[q] /\ chain'[q] = chain[q]

LEMMA OneRequest ==
  ASSUME Typed, NEW r \in Requests,
         \/ \E k \in Keys, name \in Names : Arrive(r, k, name)
         \/ TakeClock(r) \/ CheckDay(r) \/ CheckMonth(r) \/ CheckFails(r) \/ NoAnswer(r)
         \/ \E u \in Ups, n \in 1 .. MaxTokens : Answer(r, u, n)
  PROVE  \A q \in Requests \ {r} : Stays(q)
<1>1. /\ DOMAIN pc = Requests /\ DOMAIN key = Requests /\ DOMAIN subject = Requests
      /\ DOMAIN windows = Requests /\ DOMAIN usable = Requests /\ DOMAIN left = Requests /\ DOMAIN chain = Requests
  BY DEF Typed, Requested
<1>2. ASSUME NEW rest, NEW good, Continue(r, rest, good), UNCHANGED <<key, chain>>
      PROVE  \A q \in Requests \ {r} : Stays(q)
  <2>1. usable' = [usable EXCEPT ![r] = good]
    BY <1>2 DEF Continue
  <2>2. \A q \in Requests \ {r} : pc'[q] = pc[q] /\ subject'[q] = subject[q] /\ windows'[q] = windows[q] /\ left'[q] = left[q]
    BY <1>1, <1>2 DEF Continue, Clear, End, Move
  <2> QED BY <1>1, <1>2, <2>1, <2>2 DEF Stays
<1>3. ASSUME Clear(r), End(r, 429) \/ End(r, 500), UNCHANGED <<usable, key, chain>>
      PROVE  \A q \in Requests \ {r} : Stays(q)
  BY <1>1, <1>3 DEF Clear, End, Move, Stays
<1>4. ASSUME Exceeds(r), UNCHANGED <<key, chain>> PROVE \A q \in Requests \ {r} : Stays(q)
  BY <1>2, <1>3, <1>4 DEF Exceeds
<1>5. ASSUME NEW k \in Keys, NEW name \in Names, Arrive(r, k, name)
      PROVE  \A q \in Requests \ {r} : Stays(q)
  <2>1. /\ UNCHANGED windows /\ key' = [key EXCEPT ![r] = k] /\ usable' = [usable EXCEPT ![r] = <<>>]
        /\ subject' = [subject EXCEPT ![r] = k] \/ subject' = subject
        /\ left' = left \/ \E list : left' = [left EXCEPT ![r] = list]
        /\ \E list : chain' = [chain EXCEPT ![r] = list]
        /\ \E place \in {"idle", "clock"} : pc' = [pc EXCEPT ![r] = place]
    BY <1>5 DEF Arrive, End, Move
  <2> QED BY <1>1, <2>1 DEF Stays
<1>6. CASE TakeClock(r)
  <2>1. UNCHANGED <<subject, key, usable, left, chain>>
    BY <1>6 DEF TakeClock
  <2>2. pc' = [pc EXCEPT ![r] = "day"] /\ windows' = [windows EXCEPT ![r] = TokenWindows(zone, now)]
    BY <1>6 DEF TakeClock, Move
  <2> QED BY <1>1, <2>1, <2>2 DEF Stays
<1>7. CASE CheckDay(r)
  <2>1. CASE Exceeds(r)
    BY <1>4, <1>7, <2>1 DEF CheckDay
  <2>2. CASE Move(r, "month") /\ UNCHANGED <<subject, windows, left, usable, code>>
    BY <1>1, <1>7, <2>2 DEF CheckDay, Move, Stays
  <2> QED BY <1>7, <2>1, <2>2 DEF CheckDay
<1>8. CASE CheckMonth(r)
  <2>1. CASE Exceeds(r)
    BY <1>4, <1>8, <2>1 DEF CheckMonth
  <2>2. CASE Passes(r)
    BY <1>2, <1>8, <2>2 DEF CheckMonth, Passes
  <2> QED BY <1>8, <2>1, <2>2 DEF CheckMonth
<1>9. CASE CheckFails(r)
  BY <1>3, <1>9 DEF CheckFails
<1>10. CASE NoAnswer(r)
  BY <1>1, <1>10 DEF NoAnswer, End, Move, checks, Stays
<1>11. ASSUME NEW u \in Ups, NEW n \in 1 .. MaxTokens, Answer(r, u, n)
       PROVE  \A q \in Requests \ {r} : Stays(q)
  BY <1>1, <1>11 DEF Answer, End, Move, checks, Stays
<1> QED BY <1>5, <1>6, <1>7, <1>8, <1>9, <1>10, <1>11

\* A check that passes at the present counted less than the limit.
LEMMA Passing ==
  ASSUME Typed, \A z \in Zones : Regular(z), NEW r \in Requests, NEW w \in Spans,
         pc[r] \in {"day", "month"}, subject[r] \in Subjects, Limit(subject[r], w) > 0,
         ~Exhausted(Limit(subject[r], w), SumTokens(usage, zone, subject[r], windows[r][w]))
  PROVE  Stale(r, w) \/ Below(subject[r], w)
<1> DEFINE s == subject[r]
<1> SUFFICES ASSUME windows[r][w] = TokenWindows(zone, now)[w] PROVE Below(s, w)
  BY DEF Stale
<1>1. SumTokens(usage, zone, s, TokenWindows(zone, now)[w]) = Recorded(s, w, Present(w))
  BY ChecksCountThePresent
<1>2. Limit(s, w) \in Int /\ Recorded(s, w, Present(w)) \in Nat
  BY Counted DEF Numbers
<1> QED BY <1>1, <1>2 DEF Exhausted, Below

LEMMA LooseStep ==
  ASSUME Typed, \A z \in Zones : Regular(z), NEW r \in Requests,
         \/ \E k \in Keys, name \in Names : Arrive(r, k, name)
         \/ TakeClock(r) \/ CheckDay(r) \/ CheckMonth(r) \/ CheckFails(r) \/ NoAnswer(r),
         NEW s \in Subjects, NEW w \in Spans, Limit(s, w) > 0
  PROVE  Loose(s, w)' \subseteq Loose(s, w) \/ Below(s, w)
<1>1. UNCHANGED <<rows, now>>
  BY DEF Arrive, TakeClock, CheckDay, CheckMonth, CheckFails, NoAnswer
<1>2. ASSUME NEW q \in Requests \ {r}, IsLoose(q, s, w)' PROVE IsLoose(q, s, w)
  <2>1. Stays(q)
    BY OneRequest
  <2> QED BY <1>1, <1>2, <2>1 DEF Stays, IsLoose, Stale, Seen, rows
<1> SUFFICES ASSUME ~Below(s, w), IsLoose(r, s, w)' PROVE IsLoose(r, s, w)
  BY <1>2 DEF Loose
<1> DEFINE checked == pc[r] \in {"day", "month"}
<1>3. /\ DOMAIN pc = Requests /\ DOMAIN subject = Requests /\ DOMAIN windows = Requests
      /\ DOMAIN usable = Requests /\ key \in [Requests -> Keys \union {NoSubject}] /\ Listing(usable[r])
  BY DEF Typed, Requested
<1>4. s # NoSubject /\ (s = key[r] => s \in Keys)
  BY <1>3, AdmissionAssumption DEF Subjects
<1>5. pc'[r] # "idle"
  BY DEF IsLoose
<1>6. ~End(r, 429) /\ ~End(r, 500) /\ ~End(r, 502)
  BY <1>3, <1>5 DEF End, Move
<1>7. Upstreams(<<>>) = {}
  BY DEF Upstreams
<1>8. ASSUME NEW rest, NEW good, Continue(r, rest, good), UNCHANGED key
      PROVE  key[r] = s \/ s \in Upstreams(good)
  <2>1. usable'[r] = good /\ pc'[r] \in {"clock", "call"}
    BY <1>3, <1>6, <1>8 DEF Continue, Move
  <2> QED BY <1>8, <2>1 DEF IsLoose, Stale, Seen
<1>9. ASSUME Exceeds(r), checked, UNCHANGED key PROVE IsLoose(r, s, w)
  <2>1. subject[r] \notin Keys /\ Continue(r, left[r], usable[r])
    BY <1>6, <1>9 DEF Exceeds
  <2>2. key[r] = s \/ s \in Upstreams(usable[r])
    BY <1>8, <1>9, <2>1
  <2> QED BY <1>4, <1>9, <2>1, <2>2 DEF IsLoose
<1>10. ASSUME NEW k \in Keys, NEW name \in Names, Arrive(r, k, name) PROVE FALSE
  <2>1. key'[r] = k /\ usable'[r] = <<>>
    BY <1>3, <1>10 DEF Arrive
  <2>2. pc'[r] = "idle" \/ (pc'[r] = "clock" /\ subject'[r] = k)
    BY <1>3, <1>10 DEF Arrive, End, Move
  <2> QED BY <1>5, <1>7, <2>1, <2>2 DEF IsLoose, Stale, Seen
<1>11. CASE TakeClock(r)
  <2>1. /\ pc[r] = "clock" /\ pc'[r] = "day" /\ windows'[r] = TokenWindows(zone, now)
        /\ UNCHANGED <<key, subject, usable>>
    BY <1>3, <1>11 DEF TakeClock, Move
  <2>2. ~Stale(r, w)' /\ ~Seen(r, w)'
    BY <1>1, <2>1 DEF Stale, Seen, rows
  <2> QED BY <2>1, <2>2 DEF IsLoose
<1>12. CASE CheckDay(r)
  <2>1. pc[r] = "day" /\ UNCHANGED key
    BY <1>12 DEF CheckDay
  <2>2. CASE Exceeds(r)
    BY <1>9, <2>1, <2>2
  <2>3. CASE ~Exceeds(r)
    <3>1. /\ ~Exhausted(Quota(subject[r]).daily, SumTokens(usage, zone, subject[r], windows[r].day))
          /\ Move(r, "month") /\ UNCHANGED <<subject, windows, usable>>
      BY <1>12, <2>3 DEF CheckDay
    <3>2. pc'[r] = "month" /\ (Stale(r, w)' => Stale(r, w))
      BY <1>1, <1>3, <2>1, <3>1 DEF Move, Stale, rows
    <3>3. CASE subject[r] = s /\ w = "day"
      <4>1. ~Exhausted(Limit(s, w), SumTokens(usage, zone, s, windows[r][w]))
        BY <3>1, <3>3 DEF Limit
      <4>2. Stale(r, w)
        BY <2>1, <3>3, <4>1, Passing
      <4> QED BY <2>1, <3>3, <4>2 DEF IsLoose
    <3>4. CASE subject[r] # s \/ w # "day"
      BY <2>1, <3>1, <3>2, <3>4 DEF IsLoose, Seen
    <3> QED BY <3>3, <3>4
  <2> QED BY <2>2, <2>3
<1>13. CASE CheckMonth(r)
  <2>1. pc[r] = "month" /\ UNCHANGED key
    BY <1>13 DEF CheckMonth
  <2>2. CASE Exceeds(r)
    BY <1>9, <2>1, <2>2
  <2>3. CASE ~Exceeds(r)
    <3>1. /\ ~Exhausted(Quota(subject[r]).monthly, SumTokens(usage, zone, subject[r], windows[r].month))
          /\ Passes(r)
      BY <1>13, <2>3 DEF CheckMonth
    <3>2. key[r] = s \/ s \in Upstreams(usable[r]) \/ s = subject[r]
      <4>1. CASE subject[r] \in Keys
        BY <1>7, <1>8, <2>1, <3>1, <4>1 DEF Passes
      <4>2. CASE subject[r] \notin Keys
        <5>1. key[r] = s \/ s \in Upstreams(Append(usable[r], subject[r]))
          BY <1>8, <2>1, <3>1, <4>2 DEF Passes
        <5> QED BY <1>3, <5>1, ListingAppend
      <4> QED BY <4>1, <4>2
    <3>3. CASE subject[r] = s /\ w = "day"
      BY <2>1, <3>3 DEF IsLoose, Seen
    <3>4. CASE subject[r] = s /\ w = "month"
      <4>1. ~Exhausted(Limit(s, w), SumTokens(usage, zone, s, windows[r][w]))
        BY <3>1, <3>4 DEF Limit
      <4>2. Stale(r, w)
        BY <2>1, <3>4, <4>1, Passing
      <4> QED BY <2>1, <3>4, <4>2 DEF IsLoose
    <3>5. CASE subject[r] # s
      BY <2>1, <3>2, <3>5 DEF IsLoose
    <3> QED BY <3>3, <3>4, <3>5 DEF Spans
  <2> QED BY <2>2, <2>3
<1>14. ~CheckFails(r) /\ ~NoAnswer(r)
  BY <1>6 DEF CheckFails, NoAnswer
<1> QED BY <1>10, <1>11, <1>12, <1>13, <1>14

-----------------------------------------------------------------------------
(* What answers, inserts and the clock do to it *)

\* The record of an answer takes the place of the request that could cause it.
LEMMA AnswerHeld ==
  ASSUME Typed, Typed', NEW r \in Requests, NEW u \in Ups, NEW n \in 1 .. MaxTokens, Answer(r, u, n),
         NEW s \in Subjects, NEW w \in Spans, Limit(s, w) > 0, Within(s, w), Over(s, w)
  PROVE  Within(s, w)' /\ Over(s, w)'
<1> DEFINE rec == [key |-> key[r], up |-> u, tokens |-> n]
<1>1. /\ UNCHANGED <<rows, now, usage, key, subject, windows, usable>>
      /\ pc[r] = "call" /\ u \in Upstreams(usable[r])
      /\ queue' = queue \/ (Len(queue) <= QueueCap /\ queue' = Append(queue, rec))
  BY DEF Answer, Enqueue, checks
<1>2. DOMAIN pc = Requests /\ subject[r] = NoSubject
  BY <1>1 DEF Typed, Requested
<1>3. pc'[r] = "idle" /\ \A q \in Requests \ {r} : pc'[q] = pc[q]
  BY <1>2 DEF Answer, End, Move
<1>4. Loose(s, w)' \subseteq Loose(s, w) \ {r}
  BY <1>1, <1>3 DEF Loose, IsLoose, Stale, Seen, rows
<1>5. CASE queue' = queue
  <2>1. UNCHANGED <<rows, now, usage, queue>>
    BY <1>1, <1>5
  <2> QED BY <1>4, <2>1, Calm
<1>6. CASE queue' = Append(queue, rec)
  <2> DEFINE L == Len(queue)
  <2>1. queue \in Seq(Recs) /\ rec.key = key[r] /\ rec.up = u
    BY DEF Typed, Queued
  <2> HIDE DEF rec
  <2>2. L \in Nat /\ DOMAIN queue = 1 .. L /\ DOMAIN queue' = 1 .. L + 1
    <3>1. queue \in Seq(Recs \union {rec}) /\ rec \in Recs \union {rec}
      BY <2>1
    <3> QED BY <1>6, <2>1, <3>1
  <2>3. queue'[L + 1] = rec /\ \A i \in 1 .. L : queue'[i] = queue[i]
    BY <1>6, <2>1
  <2> HIDE DEF L
  <2>4. Waiting(s)' = Waiting(s) \union {i \in {L + 1} : Concerns(rec, s)}
    <3>1. 1 .. L + 1 = (1 .. L) \union {L + 1}
      BY <2>2
    <3> QED BY <2>2, <2>3, <3>1 DEF Waiting
  <2>5. IsFiniteSet(Waiting(s)) /\ IsFiniteSet(Loose(s, w)) /\ Loose(s, w)' \in SUBSET (Loose(s, w) \ {r})
    BY <1>4, Counted DEF Numbers
  <2>6. IsFiniteSet(Loose(s, w) \ {r}) /\ Cardinality(Loose(s, w)') <= Cardinality(Loose(s, w) \ {r})
    BY <2>5, FS_RemoveElement, FS_Subset
  <2>7. Cardinality(Loose(s, w) \ {r}) = IF r \in Loose(s, w) THEN Cardinality(Loose(s, w)) - 1
                                         ELSE Cardinality(Loose(s, w))
    BY <2>5, FS_RemoveElement
  <2>8. Pending(s, w)' <= Pending(s, w)
    <3>1. CASE Concerns(rec, s)
      <4>1. r \in Loose(s, w)
        <5>1. key[r] = s \/ u = s
          BY <2>1, <3>1 DEF Concerns
        <5>2. subject[r] # s /\ pc[r] # "idle"
          BY <1>1, <1>2, AdmissionAssumption DEF Subjects
        <5> QED BY <1>1, <5>1, <5>2 DEF Loose, IsLoose
      <4>2. Cardinality(Waiting(s)') <= Cardinality(Waiting(s)) + 1
        <5>1. Waiting(s)' = Waiting(s) \union {L + 1}
          BY <2>4, <3>1
        <5>2. /\ IsFiniteSet(Waiting(s)) /\ Cardinality(Waiting(s)) \in Nat
              /\ Cardinality(Waiting(s) \union {L + 1}) = IF L + 1 \in Waiting(s) THEN Cardinality(Waiting(s))
                                                         ELSE Cardinality(Waiting(s)) + 1
          BY <2>5, FS_AddElement, FS_CardinalityType
        <5> QED BY <5>1, <5>2
      <4> QED BY <2>6, <2>7, <4>1, <4>2, Counted, CountedNext DEF Pending, Numbers
    <3>2. CASE ~Concerns(rec, s)
      <4>1. Waiting(s)' = Waiting(s)
        BY <2>4, <3>2
      <4> QED BY <2>6, <2>7, <4>1, Counted, CountedNext DEF Pending, Numbers
    <3> QED BY <3>1, <3>2
  <2>9. Present(w)' = Present(w) /\ \A q : Recorded(s, w, q)' = Recorded(s, w, q)
    BY <1>1 DEF rows, Present, Recorded, RowsIn
  <2>10. UNCHANGED rows
    BY <1>1
  <2> QED BY <2>8, <2>9, <2>10, Quiet
<1> QED BY <1>1, <1>5, <1>6

\* The records that wait move up by one.
LEMMA Shifted ==
  ASSUME Typed, Typed', queue # <<>>, queue' = Tail(queue), NEW s \in Subjects
  PROVE  /\ Cardinality(Waiting(s)') <= Cardinality(Waiting(s))
         /\ Concerns(Head(queue), s) => Cardinality(Waiting(s)') <= Cardinality(Waiting(s)) - 1
<1> DEFINE L == Len(queue)
           W == Waiting(s) \ {1}
           f == [i \in W |-> i - 1]
<1>1. /\ queue \in Seq(Recs) /\ L \in Nat \ {0} /\ DOMAIN queue = 1 .. L /\ DOMAIN queue' = 1 .. L - 1
      /\ \A i \in 1 .. L - 1 : queue'[i] = queue[i + 1]
      /\ queue[1] = Head(queue)
  BY DEF Typed, Queued
<1> HIDE DEF L
<1>2. Waiting(s)' = {i \in 1 .. L - 1 : Concerns(queue[i + 1], s)}
  BY <1>1 DEF Waiting
<1>3. W = {i \in 2 .. L : Concerns(queue[i], s)}
  BY <1>1 DEF Waiting
<1>4. f \in Surjection(W, Waiting(s)')
  <2>1. f \in [W -> Waiting(s)']
    BY <1>1, <1>2, <1>3
  <2>2. ASSUME NEW i \in Waiting(s)' PROVE \E j \in W : f[j] = i
    <3>1. i \in 1 .. L - 1 /\ i + 1 \in W /\ (i + 1) - 1 = i
      BY <1>1, <1>2, <1>3
    <3> QED BY <3>1
  <2> QED BY <2>1, <2>2 DEF Surjection
<1>5. "day" \in Spans
  BY DEF Spans
<1>6. IsFiniteSet(Waiting(s)) /\ Cardinality(Waiting(s)) \in Nat /\ Cardinality(Waiting(s)') \in Nat
  BY <1>5, Counted, CountedNext DEF Numbers
<1>7. /\ IsFiniteSet(W)
      /\ Cardinality(W) = IF 1 \in Waiting(s) THEN Cardinality(Waiting(s)) - 1 ELSE Cardinality(Waiting(s))
  BY <1>6, FS_RemoveElement
<1>8. Cardinality(Waiting(s)') <= Cardinality(W)
  <2> HIDE DEF f, W
  <2> QED BY <1>4, <1>7, FS_Surjection
<1>9. Concerns(Head(queue), s) => 1 \in Waiting(s)
  BY <1>1 DEF Waiting
<1> QED BY <1>6, <1>7, <1>8, <1>9

\* What waited is recorded.
LEMMA InsertHeld ==
  ASSUME Typed, Typed', Insert,
         NEW s \in Subjects, NEW w \in Spans, Limit(s, w) > 0, Within(s, w), Over(s, w)
  PROVE  Within(s, w)' /\ Over(s, w)'
<1> DEFINE rec == Head(queue)
           row == [id |-> Cardinality(usage), key |-> rec.key, up |-> rec.up, tokens |-> rec.tokens,
                   createdAt |-> Wall(zone, now)]
<1>0. PICK p : p = Present(w)
  OBVIOUS
<1>1. /\ UNCHANGED <<rows, now, pc, checks>> /\ queue # <<>> /\ queue' = Tail(queue)
  BY DEF Insert
<1>2. usage' = usage \union {row} /\ row \notin usage /\ rec \in Recs
  BY InsertTyped
<1>3. /\ row.key = rec.key /\ row.up = rec.up /\ row.tokens = rec.tokens /\ row.createdAt = Wall(zone, now)
      /\ rec.tokens \in 1 .. MaxTokens /\ rec.tokens \in Nat /\ rec.tokens <= MaxTokens /\ MaxTokens \in Nat
  BY <1>2, AdmissionAssumption DEF Recs
<1> HIDE DEF row
<1>4. Present(w)' = p /\ Loose(s, w)' = Loose(s, w) /\ Limit(s, w)' = Limit(s, w) /\ Room(s, w)' = Room(s, w)
  BY <1>1, <1>0 DEF rows, checks, Present, Loose, IsLoose, Stale, Seen, Limit, Quota, Room
<1>5. Concerns(row, s) <=> Concerns(rec, s)
  BY <1>3 DEF Concerns
<1>6. Period(w, row.createdAt) = p
  BY <1>3, <1>0 DEF Present
<1> HIDE DEF rec
<1>7. \A q : RowsIn(s, w, q)' = RowsIn(s, w, q) \union {x \in {row} : Concerns(rec, s) /\ q = p}
  BY <1>2, <1>5, <1>6 DEF RowsIn
<1>8. \A q : ~(Concerns(rec, s) /\ q = p) => Recorded(s, w, q)' = Recorded(s, w, q)
  BY <1>7 DEF Recorded
<1>9. /\ Cardinality(Waiting(s)') <= Cardinality(Waiting(s))
      /\ Concerns(rec, s) => Cardinality(Waiting(s)') <= Cardinality(Waiting(s)) - 1
  BY <1>1, Shifted DEF rec
<1>10. CASE ~Concerns(rec, s)
  <2>1. Pending(s, w)' <= Pending(s, w)
    BY <1>4, <1>9, Counted, CountedNext DEF Pending, Numbers
  <2>2. \A q : Recorded(s, w, q)' = Recorded(s, w, q)
    BY <1>8, <1>10
  <2>3. UNCHANGED rows
    BY <1>1
  <2> QED BY <1>4, <1>0, <2>1, <2>2, <2>3, Quiet
<1>11. CASE Concerns(rec, s)
  <2> DEFINE R == Recorded(s, w, p)
             M == MaxTokens
             P == Pending(s, w)
             Q == Pending(s, w)'
             most == Room(s, w)
             t == rec.tokens
  <2>1. Over(s, w)'
    <3> SUFFICES ASSUME NEW q \in Int, q < p PROVE Recorded(s, w, q)' <= Room(s, w)
      BY <1>4 DEF Over
    <3>1. q # p /\ Recorded(s, w, q) <= Room(s, w)
      BY <1>0, Counted DEF Over, Numbers
    <3> QED BY <1>8, <3>1
  <2>2. Recorded(s, w, p)' = R + t
    <3>1. RowsIn(s, w, p)' = RowsIn(s, w, p) \union {row}
      <4>1. {x \in {row} : Concerns(rec, s) /\ p = p} = {row}
        BY <1>11
      <4> QED BY <1>7, <4>1
    <3>2. row \notin RowsIn(s, w, p) /\ row.tokens \in Nat /\ \A x \in RowsIn(s, w, p) : x.tokens \in Nat
      BY <1>2, <1>3 DEF RowsIn, Typed, RowsDated
    <3>3. IsFiniteSet(RowsIn(s, w, p))
      BY RecordedNat
    <3>4. Tokens(RowsIn(s, w, p) \union {row}) = Tokens(RowsIn(s, w, p)) + row.tokens
      BY <3>2, <3>3, TokensMore
    <3> QED BY <1>3, <3>1, <3>4 DEF Recorded
  <2>3. Q <= P - 1
    BY <1>4, <1>9, <1>11, Counted, CountedNext DEF Pending, Numbers
  <2>4. /\ R \in Nat /\ P \in Nat /\ Q \in Nat /\ M * P \in Nat /\ M * Q \in Nat /\ M * P <= InFlight
        /\ Limit(s, w) \in Int /\ InFlight \in Nat
    BY Counted, CountedNext, InFlightNat DEF Numbers
  <2>5. M * Q + M <= M * P
    <3> HIDE DEF M, P, Q
    <3>1. Q \in Int /\ P - 1 \in Int /\ M \in Nat
      BY <1>3, <2>4 DEF M
    <3>2. M * Q <= M * (P - 1)
      BY <2>3, <3>1, TimesMonotone
    <3>3. M * (P - 1) = M * P - M
      BY <2>4, <3>1
    <3> QED BY <2>4, <3>1, <3>2, <3>3
  <2>6. R + M * P <= most \/ R <= Limit(s, w) - 1
    BY <1>0, <2>4 DEF Within, Below
  <2>7. R + t + M * Q <= most
    <3>1. most = Limit(s, w) - 1 + InFlight
      BY DEF Room
    <3> DEFINE mp == M * P
               mq == M * Q
               lim == Limit(s, w)
    <3> HIDE DEF most
    <3>2. /\ R \in Nat /\ mp \in Nat /\ mq \in Nat /\ t \in Nat /\ M \in Nat /\ lim \in Int /\ InFlight \in Nat
          /\ t <= M /\ mq + M <= mp /\ mp <= InFlight /\ (R + mp <= most \/ R <= lim - 1)
          /\ most = lim - 1 + InFlight
      BY <1>3, <2>4, <2>5, <2>6, <3>1
    <3> HIDE DEF mp, mq, R, M, t, most, lim
    <3>3. R + t + mq <= most
      BY <3>2
    <3> QED BY <3>3 DEF mq
  <2>8. Recorded(s, w, Present(w))' = Recorded(s, w, p)'
    BY <1>4
  <2>9. Recorded(s, w, Present(w))' + MaxTokens * Pending(s, w)' <= Room(s, w)'
    BY <1>4, <2>2, <2>7, <2>8
  <2> QED BY <2>1, <2>9 DEF Within
<1> QED BY <1>10, <1>11

\* A new day or month begins with nothing used.
LEMMA TickHeld ==
  ASSUME Typed, Typed', \A z \in Zones : Regular(z), Tick,
         NEW s \in Subjects, NEW w \in Spans, Limit(s, w) > 0, Within(s, w), Over(s, w)
  PROVE  Within(s, w)' /\ Over(s, w)'
<1>1. UNCHANGED <<rows, usage, queue, pc, checks>>
  BY DEF Tick
<1>2. /\ Limit(s, w)' = Limit(s, w) /\ Room(s, w)' = Room(s, w) /\ Waiting(s)' = Waiting(s)
      /\ \A q : RowsIn(s, w, q)' = RowsIn(s, w, q)
      /\ \A q : Recorded(s, w, q)' = Recorded(s, w, q)
  BY <1>1 DEF rows, Limit, Quota, Room, Waiting, Recorded, RowsIn
<1>3. Present(w) <= Present(w)' /\ Present(w) \in Int /\ Present(w)' \in Int
  <2>1. Today <= Today' /\ ThisMonth <= ThisMonth'
    BY TickTyped
  <2>2. Present(w) <= Present(w)'
    BY <2>1 DEF Spans, Present, Period, Today, ThisMonth
  <2> QED BY <2>2, Counted, CountedNext DEF Numbers
<1>4. CASE Present(w)' = Present(w)
  <2>1. zone' = zone /\ Period(w, Wall(zone, now')) = Period(w, Wall(zone, now))
    BY <1>1, <1>4 DEF rows, Present
  <2>2. Loose(s, w)' = Loose(s, w)
    <3>1. TokenWindows(zone, now')[w] = TokenWindows(zone, now)[w]
      BY <2>1, SamePeriod
    <3>2. \A r : Stale(r, w)' <=> Stale(r, w)
      BY <1>1, <2>1, <3>1 DEF Stale, checks
    <3> QED BY <1>1, <3>2 DEF Loose, IsLoose, Seen, checks
  <2>3. Pending(s, w)' <= Pending(s, w)
    BY <1>2, <2>2, Counted DEF Pending, Numbers
  <2>4. UNCHANGED rows
    BY <1>1
  <2> QED BY <1>2, <1>4, <2>3, <2>4, Quiet
<1>5. CASE Present(w) < Present(w)'
  <2>1. Recorded(s, w, Present(w)') = 0
    <3>1. RowsIn(s, w, Present(w)') = {}
      <4>1. \A row \in usage : Period(w, row.createdAt) # Present(w)'
        BY <1>3, <1>5, PresentNumber
      <4> QED BY <4>1 DEF RowsIn
    <3> QED BY <3>1, TokensNone DEF Recorded
  <2>2. Below(s, w)'
    BY <1>2, <2>1 DEF Below
  <2>3. /\ Limit(s, w) \in Int /\ InFlight \in Nat /\ Recorded(s, w, Present(w)) \in Nat
        /\ MaxTokens * Pending(s, w) \in Nat
    BY Counted, InFlightNat DEF Numbers
  <2>4. Recorded(s, w, Present(w)) <= Room(s, w)
    BY <2>3 DEF Within, Below, Room
  <2>5. Over(s, w)'
    <3> SUFFICES ASSUME NEW q \in Int, q < Present(w)' PROVE Recorded(s, w, q) <= Room(s, w)
      BY <1>2 DEF Over
    <3>1. CASE q < Present(w)
      BY <3>1 DEF Over
    <3>2. CASE q = Present(w)
      BY <2>4, <3>2
    <3>3. CASE q > Present(w)
      <4>1. RowsIn(s, w, q) = {}
        <5>1. \A row \in usage : Period(w, row.createdAt) # q
          BY <1>3, <3>3, PresentNumber
        <5> QED BY <5>1 DEF RowsIn
      <4>2. Recorded(s, w, q) = 0
        BY <4>1, TokensNone DEF Recorded
      <4> QED BY <2>3, <4>2 DEF Room
    <3> QED BY <1>3, <3>1, <3>2, <3>3
  <2> QED BY <2>2, <2>5 DEF Within
<1> QED BY <1>3, <1>4, <1>5

LEMMA HeldNext ==
  ASSUME \A z \in Zones : Regular(z), Typed, Typed', Held, [Next]_vars
  PROVE  Held'
<1> SUFFICES ASSUME NEW s \in Subjects, NEW w \in Spans, Limit(s, w)' > 0
             PROVE  Within(s, w)' /\ Over(s, w)'
  BY DEF Held
<1>1. UNCHANGED rows
  BY DEF Next, vars, Arrive, TakeClock, CheckDay, CheckMonth, CheckFails, NoAnswer, Answer, Insert, Tick
<1>2. Limit(s, w) > 0
  BY <1>1 DEF Limit, Quota, rows
<1>3. Within(s, w) /\ Over(s, w)
  BY <1>2 DEF Held
<1>4. ASSUME NEW r \in Requests,
             \/ \E k \in Keys, name \in Names : Arrive(r, k, name)
             \/ TakeClock(r) \/ CheckDay(r) \/ CheckMonth(r) \/ CheckFails(r) \/ NoAnswer(r)
      PROVE  Within(s, w)' /\ Over(s, w)'
  <2>1. Loose(s, w)' \subseteq Loose(s, w) \/ Below(s, w)
    BY <1>2, <1>4, LooseStep
  <2>2. UNCHANGED <<rows, now, usage, queue>>
    BY <1>4 DEF Arrive, TakeClock, CheckDay, CheckMonth, CheckFails, NoAnswer
  <2> QED BY <1>2, <1>3, <2>1, <2>2, Calm
<1>5. ASSUME NEW r \in Requests, NEW u \in Ups, NEW n \in 1 .. MaxTokens, Answer(r, u, n)
      PROVE  Within(s, w)' /\ Over(s, w)'
  BY <1>2, <1>3, <1>5, AnswerHeld
<1>6. CASE Insert
  BY <1>2, <1>3, <1>6, InsertHeld
<1>7. CASE Tick
  BY <1>2, <1>3, <1>7, TickHeld
<1>8. CASE UNCHANGED vars
  <2>1. UNCHANGED <<rows, now, usage, queue>> /\ Loose(s, w)' \subseteq Loose(s, w)
    BY <1>8 DEF vars, rows, checks, Loose, IsLoose, Stale, Seen
  <2> QED BY <1>2, <1>3, <2>1, Calm
<1> QED BY <1>4, <1>5, <1>6, <1>7, <1>8 DEF Next

\* Quotas are overrun by no more than the answers that were under way and the records that
\* waited when the last request found room, however checks, answers, the writer and
\* midnights interleave, and although nobody reserves anything.
THEOREM OverrunIsBounded ==
  ASSUME \A z \in Zones : Regular(z)
  PROVE  Spec => []Overrun
<1>1. Typed /\ Held => Overrun
  <2> SUFFICES ASSUME Typed, Held, NEW s \in Subjects
               PROVE  /\ Quota(s).daily > 0 =>
                           \A day \in 0 .. Today : UsedOn(s, day) <= Quota(s).daily - 1 + InFlight
                      /\ Quota(s).monthly > 0 =>
                           \A month \in 0 .. ThisMonth : UsedIn(s, month) <= Quota(s).monthly - 1 + InFlight
    BY DEF Overrun
  <2>1. ASSUME NEW w \in Spans, Limit(s, w) > 0, NEW q \in 0 .. Present(w)
        PROVE  Recorded(s, w, q) <= Room(s, w)
    <3>1. Within(s, w) /\ Over(s, w)
      BY <2>1 DEF Held
    <3>2. /\ Limit(s, w) \in Int /\ InFlight \in Nat /\ Recorded(s, w, Present(w)) \in Nat
          /\ MaxTokens * Pending(s, w) \in Nat /\ Present(w) \in Int
      BY Counted, InFlightNat DEF Numbers
    <3>3. CASE q = Present(w)
      BY <3>1, <3>2, <3>3 DEF Within, Below, Room
    <3>4. CASE q # Present(w)
      BY <2>1, <3>1, <3>2, <3>4 DEF Over
    <3> QED BY <3>3, <3>4
  <2>2. /\ Limit(s, "day") = Quota(s).daily /\ Room(s, "day") = Quota(s).daily - 1 + InFlight
        /\ Limit(s, "month") = Quota(s).monthly /\ Room(s, "month") = Quota(s).monthly - 1 + InFlight
    BY DEF Limit, Room
  <2>3. ASSUME Quota(s).daily > 0, NEW day \in 0 .. Today
        PROVE  UsedOn(s, day) <= Quota(s).daily - 1 + InFlight
    <3>1. Recorded(s, "day", day) <= Room(s, "day")
      BY <2>1, <2>2, <2>3, PresentIs DEF Spans
    <3> QED BY <2>2, <3>1, RecordedIs
  <2>4. ASSUME Quota(s).monthly > 0, NEW month \in 0 .. ThisMonth
        PROVE  UsedIn(s, month) <= Quota(s).monthly - 1 + InFlight
    <3>1. Recorded(s, "month", month) <= Room(s, "month")
      BY <2>1, <2>2, <2>4, PresentIs DEF Spans
    <3> QED BY <2>2, <3>1, RecordedIs
  <2> QED BY <2>3, <2>4
<1>2. Typed /\ [Next]_vars => Typed'
  BY TypedNext
<1>3. Typed /\ Typed' /\ Held /\ [Next]_vars => Held'
  BY HeldNext
<1> QED BY <1>1, <1>2, <1>3, TypedInit, HeldInit, PTL DEF Spec

-----------------------------------------------------------------------------
(* The upstreams of a model *)

\* The first n of a list, without those that are not open.
Picks(list, n, g) ==
  g = [i \in 0 .. n |-> IF i = 0 THEN <<>> ELSE IF Open(list[i]) THEN Append(g[i - 1], list[i]) ELSE g[i - 1]]

LEMMA PicksExist == ASSUME NEW list, NEW n \in Nat PROVE \E g : Picks(list, n, g)
<1> DEFINE T == {m \in Nat : ~\E g : Picks(list, m, g)}
<1> SUFFICES T = {}
  OBVIOUS
<1> SUFFICES ASSUME T # {} PROVE FALSE
  OBVIOUS
<1>1. PICK m \in T : \A l \in T : m <= l
  <2>1. T \subseteq Nat
    OBVIOUS
  <2> HIDE DEF T
  <2> QED BY <2>1, LeastNat
<1>2. m \in Nat /\ ~\E g : Picks(list, m, g)
  OBVIOUS
<1>3. CASE m = 0
  <2> DEFINE g == [i \in 0 .. 0 |-> <<>>]
  <2>1. Picks(list, 0, g)
    BY DEF Picks
  <2> QED BY <1>2, <1>3, <2>1
<1>4. CASE m # 0
  <2>1. m - 1 \in Nat /\ m - 1 \notin T
    BY <1>1, <1>2, <1>4
  <2>2. PICK h : Picks(list, m - 1, h)
    BY <2>1
  <2> DEFINE last == IF Open(list[m]) THEN Append(h[m - 1], list[m]) ELSE h[m - 1]
             g == [i \in 0 .. m |-> IF i = m THEN last ELSE h[i]]
  <2>3. \A i \in 0 .. m - 1 : h[i] = IF i = 0 THEN <<>> ELSE IF Open(list[i]) THEN Append(h[i - 1], list[i]) ELSE h[i - 1]
    BY <2>2, <2>1 DEF Picks
  <2>4. ASSUME NEW i \in 0 .. m
        PROVE  g[i] = IF i = 0 THEN <<>> ELSE IF Open(list[i]) THEN Append(g[i - 1], list[i]) ELSE g[i - 1]
    <3>1. CASE i = m
      <4>1. g[i] = last /\ g[i - 1] = h[m - 1] /\ i # 0
        BY <1>2, <1>4, <3>1
      <4> QED BY <3>1, <4>1
    <3>2. CASE i = 0
      BY <1>2, <1>4, <2>1, <2>3, <3>2
    <3>3. CASE i # m /\ i # 0
      <4>1. i \in 0 .. m - 1 /\ g[i] = h[i] /\ g[i - 1] = h[i - 1]
        BY <1>2, <3>3
      <4> QED BY <2>3, <3>3, <4>1
    <3> QED BY <3>1, <3>2, <3>3
  <2>5. Picks(list, m, g)
    <3>1. g = [i \in 0 .. m |-> g[i]]
      OBVIOUS
    <3> HIDE DEF g
    <3> QED BY <2>4, <3>1 DEF Picks
  <2> QED BY <1>2, <2>5
<1> QED BY <1>3, <1>4

LEMMA OpenOnesListed == ASSUME NEW list \in Seq(Ups) PROVE OpenOnes(list) \in Seq(Ups)
<1> DEFINE L == Len(list)
           f == CHOOSE g : Picks(list, L, g)
           T == {n \in 0 .. L : f[n] \notin Seq(Ups)}
<1>1. OpenOnes(list) = f[L]
  BY DEF OpenOnes, Picks
<1>2. L \in Nat /\ DOMAIN list = 1 .. L /\ \A i \in 1 .. L : list[i] \in Ups
  OBVIOUS
<1>3. Picks(list, L, f)
  BY <1>2, PicksExist
<1> HIDE DEF f, L
<1>4. \A i \in 0 .. L :
        f[i] = IF i = 0 THEN <<>> ELSE IF Open(list[i]) THEN Append(f[i - 1], list[i]) ELSE f[i - 1]
  BY <1>3 DEF Picks
<1>5. f[0] = <<>>
  <2>1. 0 \in 0 .. L
    BY <1>2
  <2>2. f[0] = IF 0 = 0 THEN <<>> ELSE IF Open(list[0]) THEN Append(f[0 - 1], list[0]) ELSE f[0 - 1]
    BY <1>4, <2>1, Zenon
  <2> QED BY <2>2, Zenon
<1>6. \A i \in 1 .. L : f[i] = Append(f[i - 1], list[i]) \/ f[i] = f[i - 1]
  <2> SUFFICES ASSUME NEW i \in 1 .. L PROVE f[i] = Append(f[i - 1], list[i]) \/ f[i] = f[i - 1]
    OBVIOUS
  <2>1. i \in 0 .. L /\ i # 0
    BY <1>2
  <2>2. f[i] = IF i = 0 THEN <<>> ELSE IF Open(list[i]) THEN Append(f[i - 1], list[i]) ELSE f[i - 1]
    BY <1>4, <2>1, Zenon
  <2> QED BY <2>1, <2>2, Zenon
<1>7. ASSUME T # {} PROVE FALSE
  <2>1. PICK n \in T : \A l \in T : n <= l
    <3>1. T \subseteq Nat
      BY <1>2
    <3> HIDE DEF T
    <3> QED BY <1>7, <3>1, LeastNat
  <2>2. n \in 0 .. L /\ f[n] \notin Seq(Ups)
    OBVIOUS
  <2>3. n # 0
    <3>1. <<>> \in Seq(Ups)
      OBVIOUS
    <3> QED BY <1>5, <2>2, <3>1, Zenon
  <2>4. n \in 1 .. L /\ n - 1 \in 0 .. L /\ ~(n <= n - 1)
    BY <1>2, <2>2, <2>3
  <2>5. f[n - 1] \in Seq(Ups)
    BY <2>1, <2>4
  <2>6. Append(f[n - 1], list[n]) \in Seq(Ups)
    BY <1>2, <2>4, <2>5
  <2> QED BY <1>6, <2>2, <2>4, <2>5, <2>6
<1> QED BY <1>1, <1>2, <1>7

LEMMA TargetsListed == ASSUME NEW name \in Names PROVE Targets(name) \in Seq(Ups)
<1>1. (IF name \in Aliases THEN Bound[name] ELSE <<name>>) \in Seq(Ups)
  BY AdmissionAssumption DEF Names
<1> QED BY <1>1, OpenOnesListed DEF Targets

-----------------------------------------------------------------------------
(* Refusals and passes are true *)

\* What a check counts in the windows it took, and whether the quota is reached by it.
Counts(r, w) == SumTokens(usage, zone, subject[r], windows[r][w])
Reached(r, w) == Exhausted(Limit(subject[r], w), Counts(r, w))

\* A check of the key comes first; each upstream is checked after it, and those before it
\* may be called or were exhausted.
OfKey(r) ==
  /\ subject[r] = key[r] /\ key[r] \in Keys /\ usable[r] = <<>>
  /\ chain[r] = left[r]
OfUpstream(r) ==
  /\ subject[r] \in Ups /\ key[r] \in room[r]
  /\ Upstreams(chain[r]) \subseteq full[r] \union Upstreams(usable[r]) \union {subject[r]} \union Upstreams(left[r])

\* A quota that a check finds reached was reached while its windows were present; if it
\* finds none reached, there was room when it took them.
Honest(r) ==
  /\ pc[r] \in {"clock", "day", "month"} => left[r] \in Seq(Ups) /\ (OfKey(r) \/ OfUpstream(r))
  /\ pc[r] # "idle" => Upstreams(usable[r]) \subseteq room[r]
  /\ pc[r] = "call" => key[r] \in room[r]
  /\ pc[r] \in {"day", "month"} =>
       /\ \E t \in Int : windows[r] = TokenWindows(zone, t)
       /\ \A w \in Spans : Reached(r, w) => subject[r] \in full[r]
       /\ subject[r] \in room[r] \/ Reached(r, "month") \/ (pc[r] = "day" /\ Reached(r, "day"))

Recalled == DOMAIN code = Requests /\ \A r \in Requests : Honest(r)

\* Any behaviour, with the history of the quotas.
Watched == Init /\ NoHistory /\ [][Next /\ Track]_mcVars

\* A quota that is exhausted is that of the present day or month.
LEMMA FullIs == \A s : Full(s) <=> \E w \in Spans : Exhausted(Limit(s, w), Recorded(s, w, Present(w)))
BY PresentIs, RecordedIs DEF Full, Limit, Spans

LEMMA FullIsNext == (\A s : Full(s) <=> \E w \in Spans : Exhausted(Limit(s, w), Recorded(s, w, Present(w))))'
BY FullIs, PTL

LEMMA CountsNext ==
  (Typed /\ \A z \in Zones : Regular(z))' =>
     (\A s : \A w \in Spans : SumTokens(usage, zone, s, TokenWindows(zone, now)[w]) = Recorded(s, w, Present(w)))'
<1>1. Typed /\ (\A z \in Zones : Regular(z)) =>
        \A s : \A w \in Spans : SumTokens(usage, zone, s, TokenWindows(zone, now)[w]) = Recorded(s, w, Present(w))
  BY ChecksCountThePresent
<1> QED BY <1>1, PTL

\* Who is at work remembers all it had; what is neither full is in the room.
LEMMA Remembers ==
  ASSUME Track, NEW r \in Requests
  PROVE  /\ pc'[r] # "idle" => room[r] \subseteq room'[r] /\ Subjects \subseteq room'[r] \union FullNow'
         /\ FullNow' \subseteq full'[r]
         /\ pc[r] # "idle" => full[r] \subseteq full'[r]
BY DEF Track

\* An insert adds to what a window counts only if the window is of the present.
LEMMA InsertCounts ==
  ASSUME Typed, Insert, NEW s, NEW win
  PROVE  /\ SumTokens(usage, zone, s, win) \in Nat /\ SumTokens(usage', zone, s, win) \in Nat
         /\ SumTokens(usage, zone, s, win) <= SumTokens(usage', zone, s, win)
         /\ \/ SumTokens(usage', zone, s, win) = SumTokens(usage, zone, s, win)
            \/ Wall(zone, win.from) <= Wall(zone, now) /\ Wall(zone, now) < Wall(zone, win.to)
<1> DEFINE rec == Head(queue)
           row == [id |-> Cardinality(usage), key |-> rec.key, up |-> rec.up, tokens |-> rec.tokens,
                   createdAt |-> Wall(zone, now)]
           Inside(x) == /\ Wall(zone, win.from) <= x.createdAt /\ x.createdAt < Wall(zone, win.to)
                        /\ Concerns(x, s)
           B == {x \in usage : Inside(x)}
<1>1. usage' = usage \union {row} /\ row \notin usage /\ rec \in Recs
  BY InsertTyped
<1>2. row.createdAt = Wall(zone, now) /\ row.tokens \in Nat
  BY <1>1, AdmissionAssumption DEF Recs
<1> HIDE DEF row, rec
<1>3. /\ SumTokens(usage, zone, s, win) = Tokens(B)
      /\ SumTokens(usage', zone, s, win) = Tokens({x \in usage \union {row} : Inside(x)})
  BY <1>1 DEF SumTokens
<1>4. IsFiniteSet(B) /\ row \notin B /\ \A x \in B : x.tokens \in Nat
  <2>1. B \in SUBSET usage /\ IsFiniteSet(usage) /\ \A x \in usage : x.tokens \in Nat
    BY DEF Typed, RowsDated
  <2>2. IsFiniteSet(B)
    BY <2>1, FS_Subset
  <2> QED BY <1>1, <2>1, <2>2
<1>5. Tokens(B) \in Nat
  BY <1>4, TokensNat
<1>6. CASE Inside(row)
  <2>1. {x \in usage \union {row} : Inside(x)} = B \union {row}
    BY <1>6
  <2>2. Tokens(B \union {row}) = Tokens(B) + row.tokens
    BY <1>2, <1>4, TokensMore
  <2>3. Tokens(B) <= Tokens(B) + row.tokens /\ Tokens(B) + row.tokens \in Nat
    <3> HIDE DEF B
    <3> QED BY <1>2, <1>5
  <2> QED BY <1>2, <1>3, <1>5, <1>6, <2>1, <2>2, <2>3
<1>7. CASE ~Inside(row)
  <2>1. {x \in usage \union {row} : Inside(x)} = B
    BY <1>7
  <2>2. Tokens(B) <= Tokens(B)
    <3> HIDE DEF B
    <3> QED BY <1>5
  <2> QED BY <1>3, <1>5, <2>1, <2>2
<1> QED BY <1>6, <1>7

LEMMA ExhaustedOnwards ==
  ASSUME NEW limit \in Int, NEW m \in Nat, NEW n \in Nat, m <= n
  PROVE  Exhausted(limit, m) => Exhausted(limit, n)
BY DEF Exhausted

\* Who is not moved on by a step stays honest, whatever is recorded.
LEMMA StaysHonest ==
  ASSUME Typed, Typed', \A z \in Zones : Regular(z), Next, Track, NEW r \in Requests, Stays(r), Honest(r)
  PROVE  Honest(r)'
<1>1. UNCHANGED rows
  BY DEF Next, Arrive, TakeClock, CheckDay, CheckMonth, CheckFails, NoAnswer, Answer, Insert, Tick
<1>2. /\ pc'[r] = pc[r] /\ key'[r] = key[r] /\ subject'[r] = subject[r] /\ windows'[r] = windows[r]
      /\ usable'[r] = usable[r] /\ left'[r] = left[r] /\ chain'[r] = chain[r] /\ zone' = zone
  BY <1>1 DEF Stays, rows
<1>3. pc[r] # "idle" => room[r] \subseteq room'[r] /\ full[r] \subseteq full'[r] /\ FullNow' \subseteq full'[r]
  BY <1>2, Remembers
<1>4. pc[r] \in {"clock", "day", "month"} => left'[r] \in Seq(Ups) /\ (OfKey(r)' \/ OfUpstream(r)')
  BY <1>2, <1>3 DEF Honest, OfKey, OfUpstream, Upstreams
<1>5. /\ pc[r] # "idle" => Upstreams(usable[r]) \subseteq room'[r]
      /\ pc[r] = "call" => key[r] \in room'[r]
  BY <1>3 DEF Honest
<1>6. ASSUME pc[r] \in {"day", "month"}
      PROVE  /\ \E t \in Int : windows[r] = TokenWindows(zone, t)
             /\ \A w \in Spans : Reached(r, w)' => subject[r] \in full'[r]
             /\ subject[r] \in room'[r] \/ Reached(r, "month")' \/ (pc[r] = "day" /\ Reached(r, "day")')
  <2>1. /\ \E t \in Int : windows[r] = TokenWindows(zone, t)
        /\ \A w \in Spans : Reached(r, w) => subject[r] \in full[r]
        /\ subject[r] \in room[r] \/ Reached(r, "month") \/ (pc[r] = "day" /\ Reached(r, "day"))
    BY <1>6 DEF Honest
  <2>2. subject[r] \in Subjects
    BY <1>6 DEF Honest, OfKey, OfUpstream, Subjects
  <2>3. \A w : /\ Limit(subject[r], w)' = Limit(subject[r], w)
               /\ Counts(r, w)' = SumTokens(usage', zone, subject[r], windows[r][w])
    BY <1>1, <1>2 DEF Limit, Quota, rows, Counts
  <2>4. ASSUME UNCHANGED usage PROVE \A w : Reached(r, w)' <=> Reached(r, w)
    BY <2>3, <2>4 DEF Reached, Counts
  <2>5. ASSUME Insert, NEW w \in Spans
        PROVE  /\ Reached(r, w) => Reached(r, w)'
               /\ Reached(r, w)' => Reached(r, w) \/ subject[r] \in FullNow'
    <3> DEFINE s == subject[r]
               win == windows[r][w]
               a == SumTokens(usage, zone, s, win)
               b == SumTokens(usage', zone, s, win)
    <3>1. /\ a \in Nat /\ b \in Nat /\ a <= b
          /\ b = a \/ (Wall(zone, win.from) <= Wall(zone, now) /\ Wall(zone, now) < Wall(zone, win.to))
      BY <2>5, InsertCounts
    <3>2. (Reached(r, w) <=> Exhausted(Limit(s, w), a)) /\ (Reached(r, w)' <=> Exhausted(Limit(s, w), b))
      BY <2>3 DEF Reached, Counts
    <3>3. Limit(s, w) \in Int
      BY <2>2, LimitInt
    <3>4. Reached(r, w) => Reached(r, w)'
      <4> HIDE DEF a, b
      <4> QED BY <3>1, <3>2, <3>3, ExhaustedOnwards
    <3>5. ASSUME Reached(r, w)', b # a PROVE s \in FullNow'
      <4>1. PICK t \in Int : windows[r] = TokenWindows(zone, t)
        BY <2>1
      <4>2. IsZone(zone) /\ KeepsMidnights(zone) /\ now \in Int /\ Wall(zone, now) \in Int
        <5>1. IsZone(zone) /\ KeepsMidnights(zone) /\ now \in Int
          BY AdmissionAssumption DEF Typed, Server, IsZone, Regular
        <5> QED BY <5>1, ZoneNumbers
      <4>3. Period(w, Wall(zone, now)) = Period(w, Wall(zone, t))
        BY <3>1, <3>5, <4>1, <4>2, InWindow
      <4>4. win = TokenWindows(zone, now)[w]
        BY <4>1, <4>3, SamePeriod
      <4>5. now' = now /\ zone' = zone
        BY <1>2, <2>5 DEF Insert
      <4>6. b = SumTokens(usage, zone, s, TokenWindows(zone, now)[w])'
        BY <1>2, <4>4, <4>5
      <4>7. \A x : SumTokens(usage, zone, x, TokenWindows(zone, now)[w])' = Recorded(x, w, Present(w))'
        BY CountsNext
      <4>8. SumTokens(usage', zone', s, TokenWindows(zone', now')[w]) = b
        BY <4>4, <4>5
      <4>9. PICK x : x = s
        OBVIOUS
      <4>10. Recorded(x, w, Present(w))' = b
        BY <4>7, <4>8, <4>9
      <4>11. Limit(x, w)' = Limit(s, w)
        BY <1>1, <4>9 DEF Limit, Quota, rows
      <4>12. Exhausted(Limit(x, w)', Recorded(x, w, Present(w))')
        BY <3>2, <3>5, <4>10, <4>11
      <4>13. Full(x)'
        BY <4>12, FullIsNext
      <4> QED BY <2>2, <4>9, <4>13 DEF FullNow
    <3> QED BY <3>2, <3>4, <3>5
  <2>6. UNCHANGED usage \/ Insert
    BY DEF Next, Arrive, TakeClock, CheckDay, CheckMonth, CheckFails, NoAnswer, Answer, Insert, Tick
  <2>7. \A w \in Spans : /\ Reached(r, w) => Reached(r, w)'
                         /\ Reached(r, w)' => Reached(r, w) \/ subject[r] \in FullNow'
    BY <2>4, <2>5, <2>6
  <2>8. \A w \in Spans : Reached(r, w)' => subject[r] \in full'[r]
    BY <1>3, <1>6, <2>1, <2>7
  <2>9. subject[r] \in room'[r] \/ Reached(r, "month")' \/ (pc[r] = "day" /\ Reached(r, "day")')
    BY <1>3, <1>6, <2>1, <2>7 DEF Spans
  <2> QED BY <2>1, <2>8, <2>9
<1> QED BY <1>2, <1>4, <1>5, <1>6 DEF Honest

LEMMA HeadAndTail ==
  ASSUME NEW list \in Seq(Ups), list # <<>>
  PROVE  /\ Head(list) \in Ups /\ Tail(list) \in Seq(Ups)
         /\ Upstreams(list) \subseteq {Head(list)} \union Upstreams(Tail(list))
<1> DEFINE L == Len(list)
<1>1. /\ L \in Nat /\ L # 0 /\ DOMAIN list = 1 .. L /\ list[1] \in Ups /\ Head(list) = list[1]
      /\ Tail(list) \in Seq(Ups) /\ DOMAIN Tail(list) = 1 .. L - 1
      /\ \A j \in 1 .. L - 1 : Tail(list)[j] = list[j + 1]
  OBVIOUS
<1> HIDE DEF L
<1>2. ASSUME NEW i \in 1 .. L PROVE list[i] = Head(list) \/ list[i] \in Upstreams(Tail(list))
  <2>1. CASE i = 1
    BY <1>1, <2>1
  <2>2. CASE i # 1
    <3>1. i - 1 \in 1 .. L - 1 /\ (i - 1) + 1 = i
      BY <1>1, <2>2
    <3>2. Tail(list)[i - 1] = list[i]
      BY <1>1, <3>1
    <3> QED BY <1>1, <3>1, <3>2 DEF Upstreams
  <2> QED BY <2>1, <2>2
<1> QED BY <1>1, <1>2 DEF Upstreams

\* What a request is told when it leaves its checks without an upstream to call.
Told(r) == pc'[r] = "idle" => key[r] \in full'[r] \/ Upstreams(chain[r]) \subseteq full'[r]

\* The next upstream, or the end.
LEMMA ContinueHonest ==
  ASSUME Typed, NEW r \in Requests, Track, pc[r] # "idle", left[r] \in Seq(Ups), NEW good,
         Continue(r, left[r], good), UNCHANGED <<key, chain>>,
         Upstreams(good) \subseteq room[r], key[r] \in room[r],
         Upstreams(chain[r]) \subseteq full'[r] \union Upstreams(good) \union Upstreams(left[r])
  PROVE  Honest(r)' /\ Told(r)
<1>1. /\ DOMAIN pc = Requests /\ DOMAIN subject = Requests /\ DOMAIN windows = Requests
      /\ DOMAIN usable = Requests /\ DOMAIN left = Requests
  BY DEF Typed, Requested
<1>2. usable'[r] = good /\ key'[r] = key[r] /\ chain'[r] = chain[r]
  BY <1>1 DEF Continue
<1>3. pc'[r] # "idle" => room[r] \subseteq room'[r]
  BY Remembers
<1>4. Upstreams(<<>>) = {}
  BY DEF Upstreams
<1>5. CASE left[r] # <<>>
  <2>1. pc'[r] = "clock" /\ subject'[r] = Head(left[r]) /\ left'[r] = Tail(left[r])
    BY <1>1, <1>5 DEF Continue, Move
  <2>2. /\ Head(left[r]) \in Ups /\ Tail(left[r]) \in Seq(Ups)
        /\ Upstreams(left[r]) \subseteq {Head(left[r])} \union Upstreams(Tail(left[r]))
    BY <1>5, HeadAndTail
  <2>3. Upstreams(chain[r]) \subseteq full'[r] \union Upstreams(good) \union {Head(left[r])} \union Upstreams(Tail(left[r]))
    BY <2>2
  <2>4. OfUpstream(r)'
    <3>1. Upstreams(chain[r])' = Upstreams(chain[r]) /\ Upstreams(usable[r])' = Upstreams(good)
          /\ Upstreams(left[r])' = Upstreams(Tail(left[r]))
      BY <1>2, <2>1 DEF Upstreams
    <3> QED BY <1>2, <1>3, <2>1, <2>2, <2>3, <3>1 DEF OfUpstream
  <2>5. Upstreams(usable[r])' \subseteq room'[r]
    BY <1>2, <1>3, <2>1 DEF Upstreams
  <2> QED BY <2>1, <2>2, <2>4, <2>5 DEF Honest, Told
<1>6. CASE left[r] = <<>> /\ good # <<>>
  <2>1. pc'[r] = "call"
    BY <1>1, <1>6 DEF Continue, Move
  <2>2. Upstreams(usable[r])' \subseteq room'[r]
    BY <1>2, <1>3, <2>1 DEF Upstreams
  <2> QED BY <1>2, <1>3, <2>1, <2>2 DEF Honest, Told
<1>7. CASE left[r] = <<>> /\ good = <<>>
  <2>1. pc'[r] = "idle"
    BY <1>1, <1>7 DEF Continue, End, Move
  <2>2. Upstreams(chain[r]) \subseteq full'[r]
    BY <1>4, <1>7
  <2> QED BY <2>1, <2>2 DEF Honest, Told
<1> QED BY <1>5, <1>6, <1>7

\* A quota that a check finds reached.
LEMMA ExceedsHonest ==
  ASSUME Typed, NEW r \in Requests, Track, pc[r] \in {"day", "month"}, Honest(r), NEW w \in Spans, Reached(r, w),
         Exceeds(r), UNCHANGED <<key, chain>>
  PROVE  Honest(r)' /\ Told(r)
<1>1. left[r] \in Seq(Ups) /\ (OfKey(r) \/ OfUpstream(r)) /\ Upstreams(usable[r]) \subseteq room[r]
  BY DEF Honest
<1>2. subject[r] \in full'[r] /\ full[r] \subseteq full'[r]
  BY Remembers DEF Honest
<1>3. CASE subject[r] \in Keys
  <2>1. pc'[r] = "idle"
    BY <1>3 DEF Exceeds, End, Move, Typed, Requested
  <2>2. key[r] \in full'[r]
    BY <1>1, <1>2, <1>3, AdmissionAssumption DEF OfKey, OfUpstream
  <2> QED BY <2>1, <2>2 DEF Honest, Told
<1>4. CASE subject[r] \notin Keys
  <2>1. Continue(r, left[r], usable[r])
    BY <1>4 DEF Exceeds
  <2>2. OfUpstream(r)
    BY <1>1, <1>4 DEF OfKey
  <2>3. Upstreams(chain[r]) \subseteq full'[r] \union Upstreams(usable[r]) \union Upstreams(left[r])
    BY <1>2, <2>2 DEF OfUpstream
  <2>4. key[r] \in room[r]
    BY <2>2 DEF OfUpstream
  <2> QED BY <1>1, <2>1, <2>3, <2>4, ContinueHonest
<1> QED BY <1>3, <1>4

\* A check that passes.
LEMMA PassesHonest ==
  ASSUME Typed, NEW r \in Requests, Track, pc[r] = "month", Honest(r), ~Reached(r, "month"),
         Passes(r), UNCHANGED <<key, chain>>
  PROVE  Honest(r)' /\ Told(r)
<1>1. /\ left[r] \in Seq(Ups) /\ (OfKey(r) \/ OfUpstream(r)) /\ Upstreams(usable[r]) \subseteq room[r]
      /\ subject[r] \in room[r]
  BY DEF Honest
<1>2. full[r] \subseteq full'[r]
  BY Remembers
<1>3. CASE subject[r] \in Keys
  <2>1. Continue(r, left[r], <<>>)
    BY <1>3 DEF Passes
  <2>2. OfKey(r)
    BY <1>1, <1>3, AdmissionAssumption DEF OfUpstream
  <2>3. Upstreams(<<>>) = {}
    BY DEF Upstreams
  <2> QED BY <1>1, <2>1, <2>2, <2>3, ContinueHonest DEF OfKey
<1>4. CASE subject[r] \notin Keys
  <2> DEFINE good == Append(usable[r], subject[r])
  <2>1. Continue(r, left[r], good)
    BY <1>4 DEF Passes
  <2>2. OfUpstream(r)
    BY <1>1, <1>4 DEF OfKey
  <2>3. Upstreams(good) = Upstreams(usable[r]) \union {subject[r]}
    BY ListingAppend DEF Typed, Requested
  <2> HIDE DEF good
  <2>4. Upstreams(chain[r]) \subseteq full'[r] \union Upstreams(good) \union Upstreams(left[r])
    BY <1>2, <2>2, <2>3 DEF OfUpstream
  <2>5. key[r] \in room[r] /\ Upstreams(good) \subseteq room[r]
    BY <1>1, <2>2, <2>3 DEF OfUpstream
  <2> QED BY <1>1, <2>1, <2>4, <2>5, ContinueHonest
<1> QED BY <1>3, <1>4

LEMMA ArriveHonest ==
  ASSUME Typed, NEW r \in Requests, Track, NEW k \in Keys, NEW name \in Names, Arrive(r, k, name)
  PROVE  Honest(r)'
<1>1. /\ DOMAIN pc = Requests /\ DOMAIN subject = Requests /\ DOMAIN key = Requests
      /\ DOMAIN usable = Requests /\ DOMAIN left = Requests /\ DOMAIN chain = Requests
  BY DEF Typed, Requested
<1>2. pc'[r] = "idle" \/ /\ pc'[r] = "clock" /\ subject'[r] = k
                         /\ chain'[r] = Targets(name) /\ left'[r] = Targets(name)
  BY <1>1 DEF Arrive, End, Move
<1>3. key'[r] = k /\ usable'[r] = <<>>
  BY <1>1 DEF Arrive
<1>4. Targets(name) \in Seq(Ups)
  BY TargetsListed
<1>5. Upstreams(usable[r])' = {}
  BY <1>3 DEF Upstreams
<1> QED BY <1>2, <1>3, <1>4, <1>5 DEF Honest, OfKey

LEMMA TakeClockHonest ==
  ASSUME Typed, Typed', \A z \in Zones : Regular(z), NEW r \in Requests, Track, TakeClock(r), Honest(r)
  PROVE  Honest(r)'
<1>1. /\ DOMAIN pc = Requests /\ DOMAIN windows = Requests
      /\ pc[r] = "clock" /\ UNCHANGED <<rows, now, usage, key, chain, subject, left, usable>>
  BY DEF Typed, Requested, TakeClock
<1>2. pc'[r] = "day" /\ windows'[r] = TokenWindows(zone, now)
  BY <1>1 DEF TakeClock, Move
<1>3. /\ room[r] \subseteq room'[r] /\ Subjects \subseteq room'[r] \union FullNow'
      /\ FullNow' \subseteq full'[r] /\ full[r] \subseteq full'[r]
  BY <1>1, <1>2, Remembers
<1>4. left'[r] \in Seq(Ups) /\ (OfKey(r)' \/ OfUpstream(r)') /\ Upstreams(usable[r])' \subseteq room'[r]
  BY <1>1, <1>3 DEF Honest, OfKey, OfUpstream, Upstreams
<1>5. subject[r] \in Subjects
  BY <1>1 DEF Honest, OfKey, OfUpstream, Subjects
<1>6. \E t \in Int : windows'[r] = TokenWindows(zone', t)
  <2>1. now \in Int /\ zone' = zone
    BY <1>1, AdmissionAssumption DEF Typed, Server, rows
  <2> QED BY <1>2, <2>1
<1>7. \A w \in Spans : Reached(r, w)' <=> Exhausted(Limit(subject[r], w), Recorded(subject[r], w, Present(w)))
  <2> SUFFICES ASSUME NEW w \in Spans
               PROVE  Reached(r, w)' <=> Exhausted(Limit(subject[r], w), Recorded(subject[r], w, Present(w)))
    OBVIOUS
  <2>1. Limit(subject[r], w)' = Limit(subject[r], w)
    BY <1>1 DEF Limit, Quota, rows
  <2>2. Counts(r, w)' = SumTokens(usage, zone, subject[r], TokenWindows(zone, now)[w])
    BY <1>1, <1>2 DEF Counts, rows
  <2>3. SumTokens(usage, zone, subject[r], TokenWindows(zone, now)[w]) = Recorded(subject[r], w, Present(w))
    BY ChecksCountThePresent
  <2> QED BY <2>1, <2>2, <2>3 DEF Reached
<1>8. FullNow' = FullNow
  BY <1>1 DEF FullNow, Full, Limit, Quota, rows, UsedOn, UsedIn, Today, ThisMonth, Subjects
<1>9. subject[r] \in FullNow <=> \E w \in Spans : Reached(r, w)'
  BY <1>5, <1>7, FullIs DEF FullNow
<1>10. /\ \A w \in Spans : Reached(r, w)' => subject'[r] \in full'[r]
       /\ subject'[r] \in room'[r] \/ Reached(r, "month")' \/ Reached(r, "day")'
  BY <1>1, <1>3, <1>5, <1>8, <1>9 DEF Spans
<1> QED BY <1>2, <1>4, <1>6, <1>10 DEF Honest

LEMMA CheckDayHonest ==
  ASSUME Typed, NEW r \in Requests, Track, CheckDay(r), Honest(r)
  PROVE  Honest(r)' /\ Told(r)
<1>1. pc[r] = "day" /\ UNCHANGED <<rows, now, usage, queue, key, chain, begun>>
  BY DEF CheckDay
<1>2. Reached(r, "day") <=> Exhausted(Quota(subject[r]).daily, SumTokens(usage, zone, subject[r], windows[r].day))
  BY DEF Reached, Counts, Limit
<1>3. CASE Reached(r, "day")
  <2>1. Exceeds(r)
    BY <1>2, <1>3 DEF CheckDay
  <2> QED BY <1>1, <1>3, <2>1, ExceedsHonest DEF Spans
<1>4. CASE ~Reached(r, "day")
  <2>1. /\ pc'[r] = "month" /\ UNCHANGED <<subject, windows, left, usable>>
    BY <1>2, <1>4 DEF CheckDay, Move, Typed, Requested
  <2>2. room[r] \subseteq room'[r] /\ full[r] \subseteq full'[r]
    BY <1>1, <2>1, Remembers
  <2>3. left'[r] \in Seq(Ups) /\ (OfKey(r)' \/ OfUpstream(r)') /\ Upstreams(usable[r])' \subseteq room'[r]
    BY <1>1, <2>1, <2>2 DEF Honest, OfKey, OfUpstream, Upstreams
  <2>4. \A w \in Spans : Reached(r, w)' <=> Reached(r, w)
    BY <1>1, <2>1 DEF Reached, Counts, Limit, Quota, rows
  <2>5. \E t \in Int : windows'[r] = TokenWindows(zone', t)
    BY <1>1, <2>1 DEF Honest, rows
  <2>6. \A w \in Spans : Reached(r, w)' => subject'[r] \in full'[r]
    BY <1>1, <2>1, <2>2, <2>4 DEF Honest
  <2>7. subject'[r] \in room'[r] \/ Reached(r, "month")'
    BY <1>1, <1>4, <2>1, <2>2, <2>4 DEF Honest, Spans
  <2> QED BY <2>1, <2>3, <2>5, <2>6, <2>7 DEF Honest, Told
<1> QED BY <1>3, <1>4

LEMMA CheckMonthHonest ==
  ASSUME Typed, NEW r \in Requests, Track, CheckMonth(r), Honest(r)
  PROVE  Honest(r)' /\ Told(r)
<1>1. pc[r] = "month" /\ UNCHANGED <<key, chain>>
  BY DEF CheckMonth
<1>2. Reached(r, "month") <=> Exhausted(Quota(subject[r]).monthly, SumTokens(usage, zone, subject[r], windows[r].month))
  BY DEF Reached, Counts, Limit
<1>3. CASE Reached(r, "month")
  <2>1. Exceeds(r)
    BY <1>2, <1>3 DEF CheckMonth
  <2> QED BY <1>1, <1>3, <2>1, ExceedsHonest DEF Spans
<1>4. CASE ~Reached(r, "month")
  <2>1. Passes(r)
    BY <1>2, <1>4 DEF CheckMonth
  <2> QED BY <1>1, <1>4, <2>1, PassesHonest
<1> QED BY <1>3, <1>4

LEMMA CodesKept ==
  ASSUME DOMAIN code = Requests, Next
  PROVE  DOMAIN code' = Requests
<1>1. ASSUME NEW r \in Requests, NEW rest, NEW good, Continue(r, rest, good) PROVE DOMAIN code' = Requests
  BY <1>1 DEF Continue, End
<1>2. ASSUME NEW r \in Requests, Exceeds(r) PROVE DOMAIN code' = Requests
  BY <1>1, <1>2 DEF Exceeds, End
<1>3. ASSUME NEW r \in Requests, CheckDay(r) PROVE DOMAIN code' = Requests
  BY <1>2, <1>3 DEF CheckDay
<1>4. ASSUME NEW r \in Requests, CheckMonth(r) PROVE DOMAIN code' = Requests
  BY <1>1, <1>2, <1>4 DEF CheckMonth, Passes
<1>5. ASSUME NEW r \in Requests, NEW k \in Keys, NEW name \in Names, Arrive(r, k, name)
      PROVE  DOMAIN code' = Requests
  BY <1>5 DEF Arrive, End
<1>6. ASSUME NEW r \in Requests,
             TakeClock(r) \/ CheckFails(r) \/ NoAnswer(r) \/ \E u \in Ups, n \in 1 .. MaxTokens : Answer(r, u, n)
      PROVE  DOMAIN code' = Requests
  BY <1>6 DEF TakeClock, CheckFails, NoAnswer, Answer, End
<1>7. CASE Insert \/ Tick
  BY <1>7 DEF Insert, Tick
<1> QED BY <1>3, <1>4, <1>5, <1>6, <1>7 DEF Next

\* A step tells a request that a quota is exhausted only if one was.
LEMMA HonestStep ==
  ASSUME Typed, Typed', \A z \in Zones : Regular(z), Next, Track, DOMAIN code = Requests,
         NEW r \in Requests, Honest(r)
  PROVE  Honest(r)' /\ (pc[r] # "idle" /\ code'[r] = 429 => Told(r))
<1>1. ASSUME Stays(r) PROVE Honest(r)' /\ (pc[r] # "idle" => Told(r))
  BY <1>1, StaysHonest DEF Stays, Told
<1>2. ASSUME NEW q \in Requests,
             \/ \E k \in Keys, name \in Names : Arrive(q, k, name)
             \/ TakeClock(q) \/ CheckDay(q) \/ CheckMonth(q) \/ CheckFails(q) \/ NoAnswer(q)
             \/ \E u \in Ups, n \in 1 .. MaxTokens : Answer(q, u, n)
      PROVE  Honest(r)' /\ (pc[r] # "idle" /\ code'[r] = 429 => Told(r))
  <2>1. CASE q # r
    BY <1>1, <1>2, <2>1, OneRequest
  <2>2. CASE q = r
    <3>1. ASSUME NEW k \in Keys, NEW name \in Names, Arrive(r, k, name)
          PROVE  Honest(r)' /\ (pc[r] # "idle" => Told(r))
      BY <3>1, ArriveHonest DEF Arrive
    <3>2. CASE TakeClock(r)
      <4>1. pc'[r] = "day"
        BY <3>2 DEF TakeClock, Move, Typed, Requested
      <4> QED BY <3>2, <4>1, TakeClockHonest DEF Told
    <3>3. CASE CheckDay(r)
      BY <3>3, CheckDayHonest
    <3>4. CASE CheckMonth(r)
      BY <3>4, CheckMonthHonest
    <3>5. CASE CheckFails(r) \/ NoAnswer(r) \/ \E u \in Ups, n \in 1 .. MaxTokens : Answer(r, u, n)
      <4>1. End(r, 500) \/ End(r, 502) \/ End(r, 200)
        BY <3>5 DEF CheckFails, NoAnswer, Answer
      <4>2. pc'[r] = "idle" /\ code'[r] # 429
        BY <4>1 DEF End, Move, Typed, Requested
      <4> QED BY <4>2 DEF Honest
    <3> QED BY <1>2, <2>2, <3>1, <3>2, <3>3, <3>4, <3>5
  <2> QED BY <2>1, <2>2
<1>3. CASE Insert \/ Tick
  <2>1. Stays(r)
    BY <1>3 DEF Insert, Tick, checks, Stays
  <2> QED BY <1>1, <2>1
<1> QED BY <1>2, <1>3 DEF Next

\* Every request that is let through or refused for a quota is so for a reason that was
\* true at some moment of its check, by the calendar and the records.
THEOREM LimitsAreHonest ==
  ASSUME \A z \in Zones : Regular(z)
  PROVE  Watched => HonestLimits
<1> DEFINE Inv == Typed /\ Recalled
           A == \A r \in Requests :
                  /\ pc[r] = "call" => {key[r]} \union Upstreams(usable[r]) \subseteq room[r]
                  /\ pc[r] # "idle" /\ pc'[r] = "idle" /\ code'[r] = 429 =>
                       key[r] \in full'[r] \/ Upstreams(chain[r]) \subseteq full'[r]
<1>1. Init /\ NoHistory => Inv
  <2>1. Init => Typed
    BY TypedInit
  <2>2. Init => Recalled
    BY DEF Init, Recalled, Honest
  <2> QED BY <2>1, <2>2
<1>2. Inv /\ [Next /\ Track]_mcVars => Inv'
  <2> SUFFICES ASSUME Inv, [Next /\ Track]_mcVars PROVE Inv'
    OBVIOUS
  <2>1. Typed'
    BY TypedNext DEF mcVars
  <2>2. CASE Next /\ Track
    BY <2>1, <2>2, HonestStep, CodesKept DEF Recalled
  <2>3. CASE UNCHANGED mcVars
    <3>1. Recalled'
      BY <2>3 DEF mcVars, vars, rows, checks, Recalled, Honest, OfKey, OfUpstream, Reached, Counts, Limit, Quota
    <3> QED BY <2>1, <3>1
  <2> QED BY <2>2, <2>3
<1>3. Inv /\ Inv' /\ [Next /\ Track]_mcVars => [A]_mcVars
  <2> SUFFICES ASSUME Inv, Inv', Next, Track PROVE A
    OBVIOUS
  <2> SUFFICES ASSUME NEW r \in Requests
               PROVE  /\ pc[r] = "call" => {key[r]} \union Upstreams(usable[r]) \subseteq room[r]
                      /\ pc[r] # "idle" /\ pc'[r] = "idle" /\ code'[r] = 429 =>
                           key[r] \in full'[r] \/ Upstreams(chain[r]) \subseteq full'[r]
    OBVIOUS
  <2> HIDE DEF A
  <2>1. Honest(r) /\ DOMAIN code = Requests
    BY DEF Recalled
  <2>2. pc[r] # "idle" /\ code'[r] = 429 => Told(r)
    BY <2>1, HonestStep
  <2> QED BY <2>1, <2>2 DEF Honest, Told
<1> HIDE DEF Inv
<1> QED BY <1>1, <1>2, <1>3, PTL DEF Watched, HonestLimits, A

\* The behaviours of the run are some of them.
LEMMA RunsAreWatched == MCSpec => Watched
<1>1. MCInit => Init /\ NoHistory
  BY DEF MCInit
<1>2. [MCNext]_mcVars => [Next /\ Track]_mcVars
  BY DEF MCNext, Next
<1> QED BY <1>1, <1>2, PTL DEF MCSpec, Watched

-----------------------------------------------------------------------------
(* The daily statistics *)

\* The clock is not set by a day or more at once.
Gentle(z) == z.before - z.after < HoursPerDay /\ z.after - z.before < HoursPerDay
Ordinary(z) == IsZone(z) /\ Regular(z) /\ Gentle(z)

\* A later moment is not on an earlier day.
LEMMA DaysFollow ==
  ASSUME NEW z, Ordinary(z), NEW t \in Int, NEW u \in Int, t <= u
  PROVE  DayOf(Wall(z, t)) <= DayOf(Wall(z, u))
<1> DEFINE D(x) == DayOf(Wall(z, x))
           T == {n \in Nat : ~(D(t) <= D(t + n))}
<1>1. \A x \in Int : D(x) \in Int
  BY ZoneNumbers DEF Ordinary
<1>2. \A x \in Int : D(x) <= D(x + 1)
  BY DEF Ordinary, Regular, DaysGoOn
<1> HIDE DEF D
<1>3. ASSUME T # {} PROVE FALSE
  <2>1. PICK n \in T : \A l \in T : n <= l
    <3>1. T \subseteq Nat
      OBVIOUS
    <3> HIDE DEF T
    <3> QED BY <1>3, <3>1, LeastNat
  <2>2. n \in Nat /\ ~(D(t) <= D(t + n))
    OBVIOUS
  <2>3. n # 0
    BY <1>1, <2>2
  <2>4. n - 1 \in Nat /\ D(t) <= D(t + (n - 1))
    BY <2>1, <2>2, <2>3
  <2>5. t + (n - 1) \in Int /\ (t + (n - 1)) + 1 = t + n /\ t + n \in Int
    BY <2>2
  <2>6. D(t + (n - 1)) <= D(t + n)
    BY <1>2, <2>5
  <2> QED BY <1>1, <2>2, <2>4, <2>5, <2>6
<1>4. u - t \in Nat /\ t + (u - t) = u
  OBVIOUS
<1>5. D(t) <= D(t + (u - t))
  BY <1>3, <1>4
<1> QED BY <1>4, <1>5 DEF D

LEMMA MidnightOf ==
  ASSUME NEW z, Ordinary(z), NEW a \in Int
  PROVE  /\ Midnight(z, a) \in Int /\ Wall(z, Midnight(z, a)) = a * HoursPerDay
         /\ DayOf(Wall(z, Midnight(z, a))) = a
<1> DEFINE H == HoursPerDay
<1>1. H \in Nat \ {0}
  BY CalendarAssumption
<1>2. a * H \in Int /\ a * H <= a * H /\ a * H < (a + 1) * H
  <2> HIDE DEF H
  <2> QED BY <1>1
<1>3. Midnight(z, a) \in Int
  BY <1>2, ZoneNumbers DEF Midnight, Ordinary
<1>4. Wall(z, Midnight(z, a)) = a * HoursPerDay
  BY DEF Ordinary, Regular, KeepsMidnights
<1> QED BY <1>2, <1>3, <1>4, InDay

\* Midnights follow each other as their days do ...
LEMMA MidnightsFollow ==
  ASSUME NEW z, Ordinary(z), NEW a \in Int, NEW b \in Int
  PROVE  Midnight(z, a) < Midnight(z, b) <=> a < b
<1> DEFINE A == Midnight(z, a)
           B == Midnight(z, b)
<1>1. A \in Int /\ B \in Int /\ DayOf(Wall(z, A)) = a /\ DayOf(Wall(z, B)) = b
  BY MidnightOf
<1> HIDE DEF A, B
<1>2. A <= B => a <= b
  BY <1>1, DaysFollow
<1>3. B <= A => b <= a
  BY <1>1, DaysFollow
<1>4. a = b => A = B
  BY DEF A, B
<1> QED BY <1>1, <1>2, <1>3, <1>4 DEF A, B

\* ... and are less than a day off from as many days of the usual length.
LEMMA MidnightsApart ==
  ASSUME NEW z, Ordinary(z), NEW a \in Int, NEW b \in Int
  PROVE  LET d == Midnight(z, b) - Midnight(z, a) IN
         /\ d \in Int
         /\ (b - a - 1) * HoursPerDay < d /\ d < (b - a + 1) * HoursPerDay
<1> DEFINE A == Midnight(z, a)
           B == Midnight(z, b)
           H == HoursPerDay
           p == OffsetAt(z, A)
           q == OffsetAt(z, B)
<1>1. H \in Nat \ {0} /\ z.before \in Int /\ z.after \in Int
  BY CalendarAssumption DEF Ordinary, IsZone
<1>2. p \in Int /\ q \in Int /\ p - q < H /\ q - p < H
  <2>1. p \in {z.before, z.after} /\ q \in {z.before, z.after}
    BY DEF OffsetAt
  <2>2. z.before - z.after < H /\ z.after - z.before < H
    BY DEF Ordinary, Gentle
  <2> HIDE DEF p, q, H
  <2> QED BY <1>1, <2>1, <2>2
<1>3. A \in Int /\ B \in Int /\ A + p = a * H /\ B + q = b * H
  BY MidnightOf DEF Wall
<1> HIDE DEF A, B, H, p, q
<1>4. (b - a - 1) * H = b * H - a * H - H /\ (b - a + 1) * H = b * H - a * H + H
  BY <1>1
<1>5. a * H \in Int /\ b * H \in Int
  BY <1>1
<1>6. B - A \in Int /\ (b - a - 1) * H < B - A /\ B - A < (b - a + 1) * H
  BY <1>1, <1>2, <1>3, <1>4, <1>5
<1> QED BY <1>6 DEF A, B, H

\* The days from one midnight to another.
DaysFrom(z, a, b) == [from |-> Midnight(z, a), to |-> Midnight(z, b)]

LEMMA LargestUpTo == ASSUME NEW k \in Nat \ {0} PROVE Max(1 .. k) = k
<1> DEFINE P(x) == x \in 1 .. k /\ \A y \in 1 .. k : x >= y
<1>1. Max(1 .. k) = CHOOSE x : P(x)
  BY DEF Max
<1>2. P(k) /\ \A x : P(x) => x = k
  OBVIOUS
<1> HIDE DEF P
<1> QED BY <1>1, <1>2

LEMMA LesserOf ==
  ASSUME NEW x \in Int, NEW y \in Int
  PROVE  Min({x, y}) = IF x <= y THEN x ELSE y
<1> DEFINE S == {x, y}
           m == IF x <= y THEN x ELSE y
           P(v) == v \in S /\ \A w \in S : v =< w
<1>1. Min(S) = CHOOSE v : P(v)
  BY DEF Min
<1>2. P(m) /\ \A v : P(v) => v = m
  OBVIOUS
<1> HIDE DEF P, m
<1>3. (CHOOSE v : P(v)) = m
  BY <1>2
<1> QED BY <1>1, <1>3 DEF m

\* Counted one by one, they are as many as their dates.
LEMMA DaysCounted ==
  ASSUME NEW z, Ordinary(z), NEW a \in Int, NEW b \in Int, 1 <= b - a, b - a <= MaxUsageDailyDays
  PROVE  DayCount(z, DaysFrom(z, a, b)) = b - a
<1> DEFINE window == DaysFrom(z, a, b)
           OneByOne(g) == g = [n \in Nat |-> IF n = 0 THEN window.from ELSE AddDays(z, g[n - 1], 1)]
           day == CHOOSE g : OneByOne(g)
           M == MaxUsageDailyDays
           k == b - a
<1>1. DayCount(z, window) = Max({1} \union {n + 1 : n \in {m \in 0 .. M : day[m] < window.to}})
  BY DEF DayCount
<1>2. window.from = Midnight(z, a) /\ window.to = Midnight(z, b)
  BY DEF DaysFrom
<1>3. ASSUME NEW n \in Nat PROVE AddDays(z, Midnight(z, a + n), 1) = Midnight(z, a + (n + 1))
  <2>1. a + n \in Int /\ (a + n) + 1 = a + (n + 1)
    OBVIOUS
  <2>2. KeepsMidnights(z)
    BY DEF Ordinary, Regular
  <2> QED BY <2>1, <2>2, DaysLater
<1>4. OneByOne([n \in Nat |-> Midnight(z, a + n)])
  <2> DEFINE g == [n \in Nat |-> Midnight(z, a + n)]
  <2>1. ASSUME NEW n \in Nat PROVE g[n] = IF n = 0 THEN window.from ELSE AddDays(z, g[n - 1], 1)
    <3>1. CASE n = 0
      BY <1>2, <3>1
    <3>2. CASE n # 0
      <4>1. n - 1 \in Nat /\ (n - 1) + 1 = n
        BY <3>2
      <4>2. g[n - 1] = Midnight(z, a + (n - 1)) /\ g[n] = Midnight(z, a + n)
        BY <4>1
      <4> QED BY <1>3, <3>2, <4>1, <4>2
    <3> QED BY <3>1, <3>2
  <2>2. g = [n \in Nat |-> g[n]]
    OBVIOUS
  <2> HIDE DEF g, window
  <2>3. OneByOne(g)
    BY <2>1, <2>2
  <2> QED BY <2>3 DEF g
<1>5. \A n \in Nat : day[n] = IF n = 0 THEN window.from ELSE AddDays(z, day[n - 1], 1)
  <2> HIDE DEF OneByOne
  <2>1. OneByOne(day)
    BY <1>4
  <2> HIDE DEF day
  <2>2. day = [n \in Nat |-> IF n = 0 THEN window.from ELSE AddDays(z, day[n - 1], 1)]
    BY <2>1 DEF OneByOne
  <2> HIDE DEF window
  <2> QED BY <2>2
<1> HIDE DEF day, OneByOne, window
<1>6. \A n \in Nat : day[n] = Midnight(z, a + n)
  <2> DEFINE T == {n \in Nat : day[n] # Midnight(z, a + n)}
  <2>1. ASSUME T # {} PROVE FALSE
    <3>1. PICK n \in T : \A l \in T : n <= l
      <4>1. T \subseteq Nat
        OBVIOUS
      <4> HIDE DEF T
      <4> QED BY <2>1, <4>1, LeastNat
    <3>2. n \in Nat /\ day[n] # Midnight(z, a + n)
      OBVIOUS
    <3>3. n # 0
      BY <1>2, <1>5, <3>2
    <3>4. n - 1 \in Nat /\ (n - 1) + 1 = n /\ day[n - 1] = Midnight(z, a + (n - 1))
      BY <3>1, <3>2, <3>3
    <3>5. day[n] = AddDays(z, day[n - 1], 1)
      BY <1>5, <3>2, <3>3
    <3> QED BY <1>3, <3>2, <3>4, <3>5
  <2> QED BY <2>1
<1>7. k \in Nat \ {0} /\ M \in Nat /\ k <= M
  BY CalendarAssumption
<1>8. \A m \in 0 .. M : day[m] < window.to <=> m < k
  <2> SUFFICES ASSUME NEW m \in 0 .. M PROVE day[m] < window.to <=> m < k
    OBVIOUS
  <2>1. m \in Nat /\ a + m \in Int /\ (a + m < b <=> m < k)
    BY <1>7
  <2>2. Midnight(z, a + m) < Midnight(z, b) <=> a + m < b
    BY <2>1, MidnightsFollow
  <2> QED BY <1>2, <1>6, <2>1, <2>2
<1> HIDE DEF k, M
<1>9. {1} \union {n + 1 : n \in {m \in 0 .. M : day[m] < window.to}} = 1 .. k
  <2>1. {m \in 0 .. M : day[m] < window.to} = 0 .. k - 1
    BY <1>7, <1>8
  <2>2. {n + 1 : n \in 0 .. k - 1} = 1 .. k
    <3>1. \A x \in 1 .. k : x - 1 \in 0 .. k - 1 /\ x = (x - 1) + 1
      BY <1>7
    <3>2. \A n \in 0 .. k - 1 : n + 1 \in 1 .. k
      BY <1>7
    <3> QED BY <3>1, <3>2
  <2>3. 1 \in 1 .. k
    BY <1>7
  <2> QED BY <2>1, <2>2, <2>3
<1>10. Max(1 .. k) = k
  BY <1>7, LargestUpTo
<1> QED BY <1>1, <1>9, <1>10 DEF k, window

\* The buckets of the days from a to b (not included), each with the rows of its date.
Buckets(stats, table, a, b) ==
  /\ Len(stats) = b - a
  /\ \A i \in 1 .. b - a :
       /\ stats[i].day = a + i - 1
       /\ stats[i].tokens = Tokens({row \in table : DayOf(row.createdAt) = a + i - 1})

LEMMA BucketsAreDates ==
  ASSUME NEW z, Ordinary(z), NEW a \in Int, NEW b \in Int, 1 <= b - a, b - a <= MaxUsageDailyDays,
         NEW table, \A row \in table : row.createdAt \in Int
  PROVE  Buckets(UsageDailyStats(table, z, DaysFrom(z, a, b)), table, a, b)
<1> DEFINE window == DaysFrom(z, a, b)
           k == b - a
           start(i) == AddDays(z, window.from, i - 1)
           inside == {row \in table : Wall(z, window.from) <= row.createdAt /\ row.createdAt < Wall(z, window.to)}
           goesTo(row) == {i \in 1 .. k : start(i) = Midnight(z, DayOf(row.createdAt))}
           stats == [i \in 1 .. k |->
                       [day |-> DayOf(Wall(z, start(i))),
                        tokens |-> Tokens({row \in inside : goesTo(row) # {} /\ i = Min(goesTo(row))})]]
<1>1. UsageDailyStats(table, z, window) = stats
  BY DaysCounted DEF UsageDailyStats
<1>2. window.from = Midnight(z, a) /\ window.to = Midnight(z, b)
  BY DEF DaysFrom
<1>3. k \in Nat \ {0}
  OBVIOUS
<1>4. ASSUME NEW i \in 1 .. k PROVE start(i) = Midnight(z, a + i - 1) /\ a + i - 1 \in Int
  <2>1. i - 1 \in Int /\ a + (i - 1) = a + i - 1
    BY <1>3
  <2>2. KeepsMidnights(z)
    BY DEF Ordinary, Regular
  <2> HIDE DEF window
  <2> QED BY <1>2, <2>1, <2>2, DaysLater
<1>5. ASSUME NEW row \in table
      PROVE  /\ DayOf(row.createdAt) \in Int
             /\ row \in inside <=> a <= DayOf(row.createdAt) /\ DayOf(row.createdAt) < b
  <2> DEFINE H == HoursPerDay
             c == row.createdAt
  <2>1. H \in Nat \ {0} /\ c \in Int
    BY CalendarAssumption
  <2>2. row \in inside <=> a * H <= c /\ c < b * H
    BY <1>2, MidnightOf
  <2>3. a * H = H * a /\ b * H = H * b /\ H * b \in Int
    <3> HIDE DEF H
    <3> QED BY <2>1
  <2>4. c \div H \in Int /\ (H * a <= c <=> a <= c \div H) /\ (H * b <= c <=> b <= c \div H)
    BY <2>1, Quotient
  <2> HIDE DEF inside, H, c
  <2> QED BY <2>1, <2>2, <2>3, <2>4 DEF DayOf, H, c
<1>6. ASSUME NEW row \in table, NEW i \in 1 .. k
      PROVE  row \in inside /\ goesTo(row) # {} /\ i = Min(goesTo(row)) <=> DayOf(row.createdAt) = a + i - 1
  <2> DEFINE d == DayOf(row.createdAt)
  <2>1. d \in Int
    BY <1>5
  <2>2. \A j \in 1 .. k : j \in goesTo(row) <=> a + j - 1 = d
    <3> SUFFICES ASSUME NEW j \in 1 .. k PROVE start(j) = Midnight(z, d) <=> a + j - 1 = d
      OBVIOUS
    <3> HIDE DEF d, start
    <3>1. start(j) = Midnight(z, a + j - 1) /\ a + j - 1 \in Int
      BY <1>4
    <3>2. /\ Midnight(z, a + j - 1) < Midnight(z, d) <=> a + j - 1 < d
          /\ Midnight(z, d) < Midnight(z, a + j - 1) <=> d < a + j - 1
      BY <2>1, <3>1, MidnightsFollow
    <3>3. Midnight(z, d) \in Int /\ Midnight(z, a + j - 1) \in Int
      BY <2>1, <3>1, MidnightOf
    <3> QED BY <2>1, <3>1, <3>2, <3>3
  <2>3. goesTo(row) \subseteq 1 .. k
    OBVIOUS
  <2> DEFINE G == goesTo(row)
  <2>4. row \in inside <=> a <= d /\ d < b
    BY <1>5
  <2> HIDE DEF d, G, inside, goesTo
  <2>5. CASE d = a + i - 1
    <3>1. G = {i}
      BY <1>3, <2>2, <2>3, <2>5 DEF G
    <3>2. Min({i, i}) = i
      BY <1>3, LesserOf
    <3>3. Min(G) = i /\ G # {}
      <4>1. {i, i} = {i}
        OBVIOUS
      <4> QED BY <3>1, <3>2, <4>1
    <3>4. a <= d /\ d < b
      BY <1>3, <2>5
    <3> QED BY <2>4, <2>5, <3>3, <3>4 DEF G, d
  <2>6. CASE d # a + i - 1
    <3>1. SUFFICES ASSUME G # {}, i = Min(G) PROVE FALSE
      BY <2>6 DEF G, d
    <3>2. PICK j \in 1 .. k : j \in G
      BY <2>3, <3>1 DEF G
    <3>3. G = {j, j}
      BY <1>3, <2>2, <2>3, <3>2 DEF G
    <3>4. Min({j, j}) = j
      BY <1>3, LesserOf
    <3>5. i = j
      BY <3>1, <3>3, <3>4
    <3> QED BY <2>2, <2>6, <3>2, <3>5 DEF G
  <2> QED BY <2>5, <2>6
<1>7. ASSUME NEW i \in 1 .. k
      PROVE  /\ stats[i].day = a + i - 1
             /\ stats[i].tokens = Tokens({row \in table : DayOf(row.createdAt) = a + i - 1})
  <2>1. DayOf(Wall(z, start(i))) = a + i - 1
    BY <1>4, MidnightOf
  <2>2. {row \in inside : goesTo(row) # {} /\ i = Min(goesTo(row))}
          = {row \in table : DayOf(row.createdAt) = a + i - 1}
    <3>1. inside \subseteq table
      OBVIOUS
    <3> HIDE DEF inside, goesTo
    <3> QED BY <1>6, <3>1
  <2> QED BY <2>1, <2>2
<1>8. Len(stats) = k
  <2> DEFINE e(i) == [day |-> DayOf(Wall(z, start(i))),
                      tokens |-> Tokens({row \in inside : goesTo(row) # {} /\ i = Min(goesTo(row))})]
  <2>1. stats = [i \in 1 .. k |-> e(i)]
    OBVIOUS
  <2> HIDE DEF e, stats, k
  <2> QED BY <1>3, <2>1
<1> HIDE DEF stats
<1> QED BY <1>1, <1>7, <1>8 DEF k, window, Buckets

\* The window of the days from a to b, or of the first MaxUsageDailyDays of them.
Whole(z, a, b) == DaysFrom(z, a, Min({b, a + MaxUsageDailyDays - 1}) + 1)

LEMMA WholeStats ==
  ASSUME NEW a \in Int, NEW b \in Int, a <= b, Ordinary(zone), \A row \in usage : row.createdAt \in Int
  PROVE  StatsOf(Whole(zone, a, b), a, b)
<1> DEFINE M == MaxUsageDailyDays
           end == Min({b, a + M - 1})
           e == end + 1
           stats == UsageDailyStats(usage, zone, DaysFrom(zone, a, e))
<1>1. M \in Nat \ {0}
  BY CalendarAssumption
<1>2. end = IF b <= a + M - 1 THEN b ELSE a + M - 1
  <2>1. a + M - 1 \in Int
    BY <1>1
  <2> HIDE DEF M
  <2> QED BY <2>1, LesserOf
<1>3. e \in Int /\ 1 <= e - a /\ e - a <= M /\ e - a = end - a + 1
  <2> HIDE DEF M, end
  <2> QED BY <1>1, <1>2
<1>4. Buckets(stats, usage, a, e)
  <2> HIDE DEF e
  <2> QED BY <1>3, BucketsAreDates
<1>5. UsageDailyStats(usage, zone, Whole(zone, a, b)) = stats
  BY DEF Whole
<1> HIDE DEF stats, end, e
<1>6. /\ Len(stats) = end - a + 1
      /\ \A i \in 1 .. Len(stats) :
           /\ stats[i].day = a + i - 1
           /\ stats[i].tokens = Tokens({row \in usage : DayOf(row.createdAt) = a + i - 1})
  BY <1>3, <1>4 DEF Buckets
<1> QED BY <1>5, <1>6 DEF StatsOf, end

LEMMA LastDaysWhole ==
  ASSUME NEW z, Ordinary(z), NEW t \in Int, NEW n \in 1 .. MaxUsageDailyDays
  PROVE  LET T == DayOf(Wall(z, t)) IN
         T - n + 1 \in Int /\ T - n + 1 <= T /\ LastDays(z, t, n) = Whole(z, T - n + 1, T)
<1> DEFINE T == DayOf(Wall(z, t))
           M == MaxUsageDailyDays
           a == T - n + 1
<1>1. T \in Int /\ M \in Nat /\ n \in Nat /\ 1 <= n /\ n <= M
  <2>1. Wall(z, t) \in Int
    BY ZoneNumbers DEF Ordinary
  <2> QED BY <2>1, ZoneNumbers, CalendarAssumption DEF Ordinary
<1>2. LastDays(z, t, n) = [from |-> AddDays(z, Midnight(z, T), -(n - 1)),
                           to |-> AddDays(z, AddDays(z, Midnight(z, T), -(n - 1)), n)]
  BY DEF LastDays
<1>3. KeepsMidnights(z)
  BY DEF Ordinary, Regular
<1> HIDE DEF T, M
<1>4. a \in Int /\ a <= T /\ T + (-(n - 1)) = a /\ -(n - 1) \in Int /\ a + n = T + 1 /\ T + 1 \in Int
  BY <1>1
<1>5. AddDays(z, Midnight(z, T), -(n - 1)) = Midnight(z, a)
  BY <1>1, <1>3, <1>4, DaysLater
<1> HIDE DEF a
<1>6. AddDays(z, Midnight(z, a), n) = Midnight(z, T + 1)
  BY <1>1, <1>3, <1>4, DaysLater
<1>7. Min({T, a + M - 1}) = T
  <2>1. a + M - 1 \in Int /\ T <= a + M - 1
    BY <1>1, <1>4
  <2> QED BY <1>1, <2>1, LesserOf
<1>8. LastDays(z, t, n) = Whole(z, a, T)
  BY <1>2, <1>5, <1>6, <1>7 DEF Whole, DaysFrom, M
<1> QED BY <1>4, <1>8 DEF a, T

\* What a span of days becomes once its ends are in order.
Capped(z, w) ==
  IF w.to - w.from > MaxUsageDailyDays * HoursPerDay
  THEN [from |-> w.from, to |-> AddDays(z, w.from, MaxUsageDailyDays)] ELSE w

LEMMA CappedWhole ==
  ASSUME NEW z, Ordinary(z), NEW a \in Int, NEW b \in Int, a <= b
  PROVE  Capped(z, DaysFrom(z, a, b + 1)) = Whole(z, a, b)
<1> DEFINE M == MaxUsageDailyDays
           H == HoursPerDay
           A == Midnight(z, a)
           B == Midnight(z, b + 1)
           end == Min({b, a + M - 1})
<1>1. M \in Nat \ {0} /\ H \in Nat \ {0} /\ b + 1 \in Int
  BY CalendarAssumption
<1>2. /\ B - A \in Int
      /\ ((b + 1) - a - 1) * H < B - A /\ B - A < ((b + 1) - a + 1) * H
  BY <1>1, MidnightsApart
<1>3. end = IF b <= a + M - 1 THEN b ELSE a + M - 1
  <2>1. a + M - 1 \in Int
    BY <1>1
  <2> HIDE DEF M
  <2> QED BY <2>1, LesserOf
<1>4. DaysFrom(z, a, b + 1).to = B /\ DaysFrom(z, a, b + 1).from = A
  BY DEF DaysFrom
<1>5. CASE B - A > M * H
  <2>1. (b + 1) - a >= M
    <3> HIDE DEF M, H, A, B, end
    <3>1. CASE (b + 1) - a + 1 <= M
      <4>1. (b + 1) - a + 1 \in Int /\ M \in Int
        BY <1>1
      <4>2. /\ H * ((b + 1) - a + 1) \in Int /\ H * M \in Int
            /\ H * ((b + 1) - a + 1) <= H * M
        BY <1>1, <3>1, <4>1, TimesMonotone
      <4>3. H * ((b + 1) - a + 1) = ((b + 1) - a + 1) * H /\ H * M = M * H
        BY <1>1, <4>1
      <4> QED BY <1>2, <1>5, <4>2, <4>3
    <3> QED BY <1>1, <3>1
  <2>2. end + 1 = a + M
    <3> HIDE DEF M, end
    <3> QED BY <1>1, <1>3, <2>1
  <2>3. AddDays(z, A, M) = Midnight(z, a + M)
    BY <1>1, DaysLater DEF Ordinary, Regular
  <2>4. Capped(z, DaysFrom(z, a, b + 1)) = [from |-> A, to |-> AddDays(z, A, M)]
    BY <1>4, <1>5 DEF Capped
  <2> QED BY <2>2, <2>3, <2>4 DEF Whole, DaysFrom
<1>6. CASE ~(B - A > M * H)
  <2>1. (b + 1) - a <= M
    <3> HIDE DEF M, H, A, B, end
    <3>1. CASE M <= (b + 1) - a - 1
      <4>1. (b + 1) - a - 1 \in Int /\ M \in Int
        BY <1>1
      <4>2. /\ H * ((b + 1) - a - 1) \in Int /\ H * M \in Int
            /\ H * M <= H * ((b + 1) - a - 1)
        BY <1>1, <3>1, <4>1, TimesMonotone
      <4>3. H * ((b + 1) - a - 1) = ((b + 1) - a - 1) * H /\ H * M = M * H
        BY <1>1, <4>1
      <4> QED BY <1>2, <1>6, <4>2, <4>3
    <3> QED BY <1>1, <3>1
  <2>2. end = b
    <3> HIDE DEF M, end
    <3> QED BY <1>1, <1>3, <2>1
  <2>3. Capped(z, DaysFrom(z, a, b + 1)) = DaysFrom(z, a, b + 1)
    BY <1>4, <1>6 DEF Capped
  <2> QED BY <2>2, <2>3 DEF Whole
<1> QED BY <1>5, <1>6

LEMMA SpanWhole ==
  ASSUME NEW z, Ordinary(z), NEW a \in Int, NEW b \in Int
  PROVE  /\ a <= b => Span(z, a, b) = Whole(z, a, b)
         /\ a > b + 1 => Span(z, a, b) = Whole(z, b, a)
<1> DEFINE A == Midnight(z, a)
           B == AddDays(z, Midnight(z, b), 1)
           turned == IF B < A THEN [from |-> AddDays(z, B, -1), to |-> AddDays(z, A, 1)]
                     ELSE [from |-> A, to |-> B]
<1>1. Span(z, a, b) = Capped(z, turned)
  BY DEF Span, Capped
<1>2. KeepsMidnights(z)
  BY DEF Ordinary, Regular
<1>3. B = Midnight(z, b + 1) /\ AddDays(z, A, 1) = Midnight(z, a + 1) /\ b + 1 \in Int
  BY <1>2, DaysLater
<1>4. AddDays(z, Midnight(z, b + 1), -1) = Midnight(z, b)
  <2>1. b + 1 \in Int /\ -1 \in Int /\ (b + 1) + (-1) = b
    OBVIOUS
  <2> QED BY <1>2, <2>1, DaysLater
<1>5. B < A <=> b + 1 < a
  BY <1>3, MidnightsFollow
<1>6. ASSUME a <= b PROVE Span(z, a, b) = Whole(z, a, b)
  <2>1. turned = DaysFrom(z, a, b + 1)
    <3>1. ~(B < A)
      <4> HIDE DEF A, B
      <4> QED BY <1>5, <1>6
    <3>2. turned = [from |-> A, to |-> B]
      BY <3>1
    <3> QED BY <1>3, <3>2 DEF DaysFrom
  <2> QED BY <1>1, <1>6, <2>1, CappedWhole
<1>7. ASSUME a > b + 1 PROVE Span(z, a, b) = Whole(z, b, a)
  <2>1. turned = DaysFrom(z, b, a + 1)
    <3>1. B < A
      <4> HIDE DEF A, B
      <4> QED BY <1>5, <1>7
    <3>2. turned = [from |-> AddDays(z, B, -1), to |-> AddDays(z, A, 1)]
      BY <3>1
    <3> QED BY <1>3, <1>4, <3>2 DEF DaysFrom
  <2>2. b <= a
    BY <1>7
  <2> QED BY <1>1, <2>1, <2>2, CappedWhole
<1> QED BY <1>6, <1>7

\* usage.go:50-54 and 133-138, usage_window_test.go:21-23: on days of any length, quotas and
\* statistics count whole local days, every hour in exactly one, whatever is recorded and
\* when; of clocks that are set by less than a day and skip no midnight.
THEOREM DaysAreWhole ==
  ASSUME \A z \in Zones : Regular(z) /\ Gentle(z)
  PROVE  Spec => []WholeDays
<1>1. Typed => StatsAreDays
  <2> SUFFICES ASSUME Typed PROVE StatsAreDays
    OBVIOUS
  <2>1. IsZone(zone) /\ now \in Int /\ Ordinary(zone)
    BY AdmissionAssumption DEF Typed, Server, IsZone, Ordinary
  <2>2. \A row \in usage : row.createdAt \in Int
    BY DEF Typed, RowsDated
  <2>3. Today \in Int
    <3>1. Wall(zone, now) \in Int
      BY <2>1, ZoneNumbers
    <3> QED BY <2>1, <3>1, ZoneNumbers DEF Today
  <2>4. ASSUME NEW n \in 1 .. MaxUsageDailyDays
        PROVE  StatsOf(LastDays(zone, now, n), Today - n + 1, Today)
    <3>1. /\ Today - n + 1 \in Int /\ Today - n + 1 <= Today
          /\ LastDays(zone, now, n) = Whole(zone, Today - n + 1, Today)
      BY <2>1, LastDaysWhole DEF Today
    <3> QED BY <2>1, <2>2, <2>3, <3>1, WholeStats
  <2>5. ASSUME NEW from \in 0 .. Today, NEW to \in 0 .. Today
        PROVE  \/ from <= to /\ StatsOf(Span(zone, from, to), from, to)
               \/ from > to + 1 /\ StatsOf(Span(zone, from, to), to, from)
               \/ from = to + 1
    <3>1. from \in Int /\ to \in Int
      BY <2>3
    <3>2. CASE from <= to
      <4>1. Span(zone, from, to) = Whole(zone, from, to)
        BY <2>1, <3>1, <3>2, SpanWhole
      <4>2. StatsOf(Whole(zone, from, to), from, to)
        BY <2>1, <2>2, <3>1, <3>2, WholeStats
      <4> QED BY <3>2, <4>1, <4>2
    <3>3. CASE from > to + 1
      <4>1. Span(zone, from, to) = Whole(zone, to, from) /\ to <= from
        BY <2>1, <3>1, <3>3, SpanWhole
      <4>2. StatsOf(Whole(zone, to, from), to, from)
        BY <2>1, <2>2, <3>1, <4>1, WholeStats
      <4> QED BY <3>3, <4>1, <4>2
    <3> QED BY <3>1, <3>2, <3>3
  <2> QED BY <2>4, <2>5 DEF StatsAreDays
<1>2. Typed /\ [Next]_vars => Typed'
  BY TypedNext
<1>3. Spec => []WindowsAreDays
  BY QuotasCountWholeDays
<1> QED BY <1>1, <1>2, <1>3, TypedInit, PTL DEF Spec, WholeDays
=============================================================================
