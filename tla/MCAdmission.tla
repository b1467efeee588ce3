----------------------------- MODULE MCAdmission -----------------------------
(***************************************************************************)
(* Instances of Admission for TLC, with a history of which quotas had room *)
(* and which were exhausted while a request was under way.                 *)
(***************************************************************************)
EXTENDS Admission, TLC

CONSTANTS k1, u1, u2, x1

\* Goroutines are interchangeable.
Sym == Permutations(Requests)

KeyRow(enabled, models, daily, monthly) ==
  [enabled |-> enabled, models |-> models, daily |-> daily, monthly |-> monthly]
UpRow(enabled, expires, daily, monthly) ==
  [enabled |-> enabled, expires |-> expires, daily |-> daily, monthly |-> monthly]

TwoBindings == (x1 :> <<u1, u2>>)

\* The quotas: a key with one per day that may use the alias alone, and one without;
\* an upstream with one per month, and one that expires.
QuotaKeys == {KeyRow(TRUE, {x1}, 1, 0), KeyRow(TRUE, {}, 0, 0)}
Monthly == UpRow(TRUE, Never, 0, 1)
Expiring == UpRow(TRUE, 1, 0, 0)

\* The calendar: a key and an upstream without quotas, usable or not.
FreeKeys == {KeyRow(TRUE, {}, 0, 0), KeyRow(FALSE, {}, 0, 0)}
FreeUps == {UpRow(TRUE, Never, 0, 0), UpRow(FALSE, Never, 0, 0)}

AnyKeys == QuotaKeys \union FreeKeys
AnyUps == {Monthly, Expiring} \union FreeUps

\* The clock shows w when it is set on or back by an hour, on the second day or at its
\* ends; that it skips a midnight is left out.
ZoneAt(before, step, w) == [before |-> before, after |-> before + step, change |-> w - before]
Changing == {ZoneAt(b, 1, 5) : b \in -2 .. 1} \union {ZoneAt(b, -1, w) : b \in -1 .. 2, w \in 4 .. 6}

\* The last hour of a day, where the clock is never set.
Late == {ZoneAt(HoursPerDay - 1, 0, 0)}
AnyZone == Changing \union Late

VARIABLES
  room,  \* per request: the keys and upstreams whose quotas had room at some moment since it arrived
  full   \* ... and those of which one was exhausted
mcVars == <<vars, room, full>>

Full(s) == \/ Exhausted(Quota(s).daily, UsedOn(s, Today))
           \/ Exhausted(Quota(s).monthly, UsedIn(s, ThisMonth))
FullNow == {s \in Subjects : Full(s)}

Track ==
  /\ room' = [r \in Requests |-> IF pc'[r] = "idle" THEN {}
                                 ELSE room[r] \union (Subjects \ FullNow')]
  /\ full' = [r \in Requests |-> FullNow' \union (IF pc[r] = "idle" THEN {} ELSE full[r])]

\* The quotas, for several requests over one midnight, or the calendar, for one request
\* at a time over several days.
Calendar == zone \in Changing
Scenario ==
  IF Calendar
  THEN keys \in [Keys -> FreeKeys] /\ ups[u1] \in FreeUps /\ ~ups[u2].enabled
  ELSE keys \in [Keys -> QuotaKeys] /\ ups[u1] = Monthly /\ ups[u2] = Expiring
May(name) == Calendar => name = u1 /\ begun < 2 /\ \A r \in Requests : pc[r] = "idle"

NoHistory == room = [r \in Requests |-> {}] /\ full = [r \in Requests |-> {}]
MCInit == Init /\ Scenario /\ NoHistory

\* Next, action by action so that TLC counts each of them, with the history.
MCNext ==
  \/ \E r \in Requests, c \in Keys, name \in Names : May(name) /\ Arrive(r, c, name) /\ Track
  \/ \E r \in Requests : TakeClock(r) /\ Track
  \/ \E r \in Requests : CheckDay(r) /\ Track
  \/ \E r \in Requests : CheckMonth(r) /\ Track
  \/ \E r \in Requests : CheckFails(r) /\ Track
  \/ \E r \in Requests, c \in Ups, n \in 1 .. MaxTokens : Answer(r, c, n) /\ Track
  \/ \E r \in Requests : NoAnswer(r) /\ Track
  \/ Insert /\ Track
  \/ (Calendar \/ now = 0) /\ Tick /\ Track

MCSpec == MCInit /\ [][MCNext]_mcVars

\* A request is let through to upstreams only if its key and they had room, by the
\* calendar and the records, at some moment while it was checked; it is told that
\* a quota is exhausted only if that of its key was, or those of all the upstreams it
\* could have gone to.
HonestLimits ==
  [][\A r \in Requests :
       /\ pc[r] = "call" => {key[r]} \union Upstreams(usable[r]) \subseteq room[r]
       /\ pc[r] # "idle" /\ pc'[r] = "idle" /\ code'[r] = 429 =>
            key[r] \in full'[r] \/ Upstreams(chain[r]) \subseteq full'[r]]_mcVars
=============================================================================
