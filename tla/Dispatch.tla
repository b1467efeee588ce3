------------------------------ MODULE Dispatch ------------------------------
(***************************************************************************)
(* Dispatching completion requests to upstreams (internal/gateway:         *)
(* handler_openai.go, concurrency.go, failure_cache.go).                   *)
(*                                                                         *)
(* A request has a chain of candidates, one if it names an upstream and    *)
(* any number through an alias.  It tries them in order: it skips one that *)
(* recently failed, unless it is the last, and one whose upstream has no   *)
(* free slot; it fails over when a call fails.  Requests run concurrently, *)
(* clients disconnect, and an administrator changes limits meanwhile.      *)
(*                                                                         *)
(* A streaming request takes the slot of its first candidate before it     *)
(* sends the response header, and from then on answers in the stream.      *)
(***************************************************************************)
EXTENDS Naturals, Sequences, FiniteSets

CONSTANTS
  Requests,    \* completion requests, each served once
  Ups,         \* upstreams
  Models,      \* names of models at an upstream
  Routes,      \* candidate chains: sequences of <<upstream, model>>
  Limits,      \* values of MaxConcurrent; 0: unlimited
  NoSem,       \* no semaphore
  MaxChanges,  \* bound: changes of limits
  MaxLapses    \* bound: cooldowns that run out

Keys == Ups \X Models  \* failKey

ASSUME RoutesAssumption == Routes \subseteq Seq(Keys) /\ <<>> \notin Routes
ASSUME RequestsAssumption == IsFiniteSet(Requests)
ASSUME LimitsAssumption == Limits \subseteq Nat
ASSUME NoSemAssumption == NoSem \notin [up: Ups, no: Nat, lim: Nat]
ASSUME BoundsAssumption == MaxChanges \in Nat /\ MaxLapses \in Nat

VARIABLES
  limit, sem,           \* per upstream: MaxConcurrent, and concManager.sems
  cool,                 \* per key: failureCache.until
  pc, kind, route, at,  \* per request: where it is, and at which candidate
  seen,                 \* per request: the limits in the rows it has resolved
  late,                 \* per request: the cooldowns run out since its "now"
  pick, slot,           \* per request: the semaphore in hand, and the one it holds
  flushed,              \* per request: the response header is out
  call,                 \* per request: the upstream call, or what came of it
  gone,                 \* per request: the client has disconnected
  busy, lastErr,        \* per request: an upstream was full, the last error
  tries, logged,        \* per request: calls made, usage records written
  answer,               \* per request: what the client was told
  changes, lapses

adminVars == <<limit, changes>>
reqVars   == <<pc, kind, route, at, seen, late, pick, slot, flushed, call, gone,
               busy, lastErr, tries, logged, answer>>
vars      == <<adminVars, sem, cool, lapses, reqVars>>

Errors == {"fault", "reject", "cancelled"}
PCs == {"idle", "check", "pick", "try", "head", "call", "wait", "settle", "pump", "done"}
Sems == [up: Ups, no: Nat, lim: Nat]

Active(r) == pc[r] \notin {"idle", "done"}
Cand(r)   == route[r][at[r]]
Up(r)     == Cand(r)[1]

Init ==
  /\ limit \in [Ups -> Limits]
  /\ sem = [u \in Ups |-> NoSem]
  /\ cool = [k \in Keys |-> "none"]
  /\ pc = [r \in Requests |-> "idle"]
  /\ kind = [r \in Requests |-> "plain"]
  /\ route = [r \in Requests |-> <<>>]
  /\ at = [r \in Requests |-> 0]
  /\ seen = [r \in Requests |-> [u \in Ups |-> 0]]
  /\ late = [r \in Requests |-> {}]
  /\ pick = [r \in Requests |-> NoSem]
  /\ slot = [r \in Requests |-> NoSem]
  /\ flushed = [r \in Requests |-> FALSE]
  /\ call = [r \in Requests |-> "none"]
  /\ gone = [r \in Requests |-> FALSE]
  /\ busy = [r \in Requests |-> FALSE]
  /\ lastErr = [r \in Requests |-> "none"]
  /\ tries = [r \in Requests |-> 0]
  /\ logged = [r \in Requests |-> 0]
  /\ answer = [r \in Requests |-> "none"]
  /\ changes = 0 /\ lapses = 0

-----------------------------------------------------------------------------
(* The world around the requests. *)

SetLimit(u, n) ==
  /\ changes < MaxChanges
  /\ n # limit[u]
  /\ limit' = [limit EXCEPT ![u] = n]
  /\ changes' = changes + 1
  /\ UNCHANGED <<sem, cool, lapses, reqVars>>

\* A cooldown runs out.  Those who took their "now" before still find it cooling.
Lapse(k) ==
  /\ lapses < MaxLapses
  /\ cool[k] = "cooling"
  /\ cool' = [cool EXCEPT ![k] = "lapsed"]
  /\ late' = [r \in Requests |-> IF Active(r) THEN late[r] \union {k} ELSE {}]
  /\ lapses' = lapses + 1
  /\ UNCHANGED <<adminVars, sem, pc, kind, route, at, seen, pick, slot, flushed, call, gone,
                 busy, lastErr, tries, logged, answer>>

ClientGone(r) ==
  /\ Active(r) /\ ~gone[r]
  /\ gone' = [gone EXCEPT ![r] = TRUE]
  /\ UNCHANGED <<adminVars, sem, cool, lapses, pc, kind, route, at, seen, late, pick, slot,
                 flushed, call, busy, lastErr, tries, logged, answer>>

\* A call returns: well, with an error that cools the candidate, with one that
\* is the request's own (a 4xx), or because the client's context was cancelled.
\* Nobody is waiting for the call that a disconnected client has left behind.
CallEnds(r) ==
  /\ call[r] = "open"
  /\ \E res \in {"ok", "fault", "reject"} \union (IF gone[r] THEN {"cancelled"} ELSE {}) :
       call' = [call EXCEPT ![r] = IF pc[r] = "done" THEN "none" ELSE res]
  /\ UNCHANGED <<adminVars, sem, cool, lapses, pc, kind, route, at, seen, late, pick, slot,
                 flushed, gone, busy, lastErr, tries, logged, answer>>

-----------------------------------------------------------------------------
(* One candidate after the other. *)

Start(r) ==
  /\ pc[r] = "idle"
  /\ \E rt \in Routes, k \in {"plain", "stream"} :
       route' = [route EXCEPT ![r] = rt] /\ kind' = [kind EXCEPT ![r] = k]
  /\ pc'   = [pc EXCEPT ![r] = "check"]
  /\ at'   = [at EXCEPT ![r] = 1]
  /\ seen' = [seen EXCEPT ![r] = limit]
  /\ UNCHANGED <<adminVars, sem, cool, lapses, late, pick, slot, flushed, call, gone, busy,
                 lastErr, tries, logged, answer>>

\* The last candidate is not subject to cooldowns.
\* Mutant: it is.
CoolableToo(r) == at[r] <= Len(route[r])
Coolable(r)    == at[r] < Len(route[r])

Down(r) == \/ cool[Cand(r)] = "cooling"
           \/ cool[Cand(r)] = "lapsed" /\ Cand(r) \in late[r]

\* Go on to the next candidate.
Advance(r) == at' = [at EXCEPT ![r] = @ + 1] /\ pc' = [pc EXCEPT ![r] = "check"]

SkipCooling(r) ==
  /\ pc[r] = "check" /\ at[r] <= Len(route[r])
  /\ Coolable(r) /\ Down(r)
  /\ Advance(r)
  /\ UNCHANGED <<adminVars, sem, cool, lapses, kind, route, seen, late, pick, slot, flushed,
                 call, gone, busy, lastErr, tries, logged, answer>>

\* Mutant: a request whose header is out does not look at cooldowns.
ConsiderFlushed(r) ==
  /\ pc[r] = "check" /\ at[r] <= Len(route[r])
  /\ flushed[r] \/ ~(Coolable(r) /\ Down(r))
  /\ cool' = IF Coolable(r) /\ cool[Cand(r)] = "lapsed"
             THEN [cool EXCEPT ![Cand(r)] = "none"] ELSE cool
  /\ pc' = [pc EXCEPT ![r] = "pick"]
  /\ UNCHANGED <<adminVars, sem, lapses, kind, route, at, seen, late, pick, slot, flushed,
                 call, gone, busy, lastErr, tries, logged, answer>>

\* down() removes an entry that it finds run out.
Consider(r) ==
  /\ pc[r] = "check" /\ at[r] <= Len(route[r])
  /\ ~(Coolable(r) /\ Down(r))
  /\ cool' = IF Coolable(r) /\ cool[Cand(r)] = "lapsed"
             THEN [cool EXCEPT ![Cand(r)] = "none"] ELSE cool
  /\ pc' = [pc EXCEPT ![r] = "pick"]
  /\ UNCHANGED <<adminVars, sem, lapses, kind, route, at, seen, late, pick, slot, flushed,
                 call, gone, busy, lastErr, tries, logged, answer>>

\* A streaming request sends its header once it has its first candidate.
Admitted(r) == IF kind[r] = "stream" /\ ~flushed[r] THEN "head" ELSE "call"

Unlimited(r) ==
  /\ pc[r] = "pick"
  /\ seen[r][Up(r)] = 0
  /\ pc' = [pc EXCEPT ![r] = Admitted(r)]
  /\ UNCHANGED <<adminVars, sem, cool, lapses, kind, route, at, seen, late, pick, slot,
                 flushed, call, gone, busy, lastErr, tries, logged, answer>>

\* tryAcquire, under the lock: the semaphore of the upstream, replaced if it was
\* made for another limit.
\* Mutant: it is replaced every time.
NewSem(u, n, no) == [up |-> u, no |-> no + 1, lim |-> n]
SemForAnew(u, n) == NewSem(u, n, IF sem[u] = NoSem THEN 0 ELSE sem[u].no)
SemFor(u, n) ==
  IF sem[u] = NoSem THEN NewSem(u, n, 0)
  ELSE IF sem[u].lim # n THEN NewSem(u, n, sem[u].no)
  ELSE sem[u]

PickSem(r) ==
  /\ pc[r] = "pick"
  /\ seen[r][Up(r)] > 0
  /\ sem' = [sem EXCEPT ![Up(r)] = SemFor(Up(r), seen[r][Up(r)])]
  /\ pick' = [pick EXCEPT ![r] = SemFor(Up(r), seen[r][Up(r)])]
  /\ pc' = [pc EXCEPT ![r] = "try"]
  /\ UNCHANGED <<adminVars, cool, lapses, kind, route, at, seen, late, slot, flushed, call,
                 gone, busy, lastErr, tries, logged, answer>>

Holders(s) == {q \in Requests : slot[q] = s}

\* tryAcquire, after the lock: the send into the semaphore's channel.
TrySlot(r) ==
  /\ pc[r] = "try"
  /\ Cardinality(Holders(pick[r])) < pick[r].lim
  /\ slot' = [slot EXCEPT ![r] = pick[r]]
  /\ pick' = [pick EXCEPT ![r] = NoSem]
  /\ pc' = [pc EXCEPT ![r] = Admitted(r)]
  /\ UNCHANGED <<adminVars, sem, cool, lapses, kind, route, at, seen, late, flushed, call,
                 gone, busy, lastErr, tries, logged, answer>>

SkipBusy(r) ==
  /\ pc[r] = "try"
  /\ ~(Cardinality(Holders(pick[r])) < pick[r].lim)
  /\ busy' = [busy EXCEPT ![r] = TRUE]
  /\ pick' = [pick EXCEPT ![r] = NoSem]
  /\ Advance(r)
  /\ UNCHANGED <<adminVars, sem, cool, lapses, kind, route, seen, late, slot, flushed, call,
                 gone, lastErr, tries, logged, answer>>

\* flushHeaders; firstPhase then takes a "now" of its own.
FlushHeaders(r) ==
  /\ pc[r] = "head"
  /\ flushed' = [flushed EXCEPT ![r] = TRUE]
  /\ late' = [late EXCEPT ![r] = {}]
  /\ pc' = [pc EXCEPT ![r] = "call"]
  /\ UNCHANGED <<adminVars, sem, cool, lapses, kind, route, at, seen, pick, slot, call, gone,
                 busy, lastErr, tries, logged, answer>>

Call(r) ==
  /\ pc[r] = "call"
  /\ call' = [call EXCEPT ![r] = "open"]
  /\ tries' = [tries EXCEPT ![r] = @ + 1]
  /\ pc' = [pc EXCEPT ![r] = "wait"]
  /\ UNCHANGED <<adminVars, sem, cool, lapses, kind, route, at, seen, late, pick, slot,
                 flushed, gone, busy, lastErr, logged, answer>>

-----------------------------------------------------------------------------
(* After the call. *)

\* The result of the call is taken, and the slot given back unless the response
\* now streams.  Mutant: it is given back only after a failure.
KeepSlot(r)   == call[r] = "ok"
HoldOn(r)     == kind[r] = "stream" /\ call[r] = "ok"

Return(r) ==
  /\ pc[r] = "wait"
  /\ call[r] # "open"
  /\ slot' = IF HoldOn(r) THEN slot ELSE [slot EXCEPT ![r] = NoSem]
  /\ pc' = [pc EXCEPT ![r] = "settle"]
  /\ UNCHANGED <<adminVars, sem, cool, lapses, kind, route, at, seen, late, pick, flushed,
                 call, gone, busy, lastErr, tries, logged, answer>>

\* Mutant: leaving without a usage record.
SeeGoneSilently(r) ==
  /\ pc[r] = "wait" /\ kind[r] = "stream"
  /\ gone[r]
  /\ slot' = [slot EXCEPT ![r] = NoSem]
  /\ call' = [call EXCEPT ![r] = IF @ = "open" THEN "open" ELSE "none"]
  /\ pc' = [pc EXCEPT ![r] = "done"]
  /\ UNCHANGED <<adminVars, sem, cool, lapses, kind, route, at, seen, late, pick, flushed,
                 gone, busy, lastErr, tries, logged, answer>>

\* callWithKeepalive selects the client's context over the call, which it leaves.
SeeGone(r) ==
  /\ pc[r] = "wait" /\ kind[r] = "stream"
  /\ gone[r]
  /\ slot' = [slot EXCEPT ![r] = NoSem]
  /\ call' = [call EXCEPT ![r] = IF @ = "open" THEN "open" ELSE "none"]
  /\ logged' = [logged EXCEPT ![r] = @ + 1]
  /\ pc' = [pc EXCEPT ![r] = "done"]
  /\ UNCHANGED <<adminVars, sem, cool, lapses, kind, route, at, seen, late, pick, flushed,
                 gone, busy, lastErr, tries, answer>>

\* The call was good: its cooldown ends, and the response goes out.
Succeed(r) ==
  /\ pc[r] = "settle" /\ call[r] = "ok"
  /\ cool' = [cool EXCEPT ![Cand(r)] = "none"]
  /\ IF kind[r] = "stream"
       THEN /\ pc' = [pc EXCEPT ![r] = "pump"]
            /\ UNCHANGED <<call, logged, answer>>
       ELSE /\ pc' = [pc EXCEPT ![r] = "done"]
            /\ call' = [call EXCEPT ![r] = "none"]
            /\ logged' = [logged EXCEPT ![r] = @ + 1]
            /\ answer' = [answer EXCEPT ![r] = "ok"]
  /\ UNCHANGED <<adminVars, sem, lapses, kind, route, at, seen, late, pick, slot, flushed,
                 gone, busy, lastErr, tries>>

\* The call failed: mark, record, fail over.  A request that does not stream stops
\* here if its client is gone.
Fail(r) ==
  /\ pc[r] = "settle" /\ call[r] \in Errors
  /\ cool' = IF Coolable(r) /\ call[r] = "fault"
             THEN [cool EXCEPT ![Cand(r)] = "cooling"] ELSE cool
  /\ lastErr' = [lastErr EXCEPT ![r] = call[r]]
  /\ logged' = [logged EXCEPT ![r] = @ + 1]
  /\ call' = [call EXCEPT ![r] = "none"]
  /\ IF kind[r] = "plain" /\ gone[r]
       THEN pc' = [pc EXCEPT ![r] = "done"] /\ UNCHANGED at
       ELSE Advance(r)
  /\ UNCHANGED <<adminVars, sem, lapses, kind, route, seen, late, pick, slot, flushed, gone,
                 busy, tries, answer>>

\* No candidate is left: 429 if none was called, else the last error, in the
\* stream if the header is out.
Exhaust(r) ==
  /\ pc[r] = "check" /\ at[r] > Len(route[r])
  /\ answer' = [answer EXCEPT ![r] = IF tries[r] = 0 THEN "429" ELSE "failed"]
  /\ pc' = [pc EXCEPT ![r] = "done"]
  /\ UNCHANGED <<adminVars, sem, cool, lapses, kind, route, at, seen, late, pick, slot,
                 flushed, call, gone, busy, lastErr, tries, logged>>

\* The upstream's stream ends, well or not; handleStream gives the slot back.
PumpEnds(r) ==
  /\ pc[r] = "pump"
  /\ \E a \in {"ok", "failed"} : answer' = [answer EXCEPT ![r] = a]
  /\ logged' = [logged EXCEPT ![r] = @ + 1]
  /\ slot' = [slot EXCEPT ![r] = NoSem]
  /\ call' = [call EXCEPT ![r] = "none"]
  /\ pc' = [pc EXCEPT ![r] = "done"]
  /\ UNCHANGED <<adminVars, sem, cool, lapses, kind, route, at, seen, late, pick, flushed,
                 gone, busy, lastErr, tries>>

\* The client goes away under the stream: the upstream's is left to end.
PumpGone(r) ==
  /\ pc[r] = "pump" /\ gone[r]
  /\ logged' = [logged EXCEPT ![r] = @ + 1]
  /\ slot' = [slot EXCEPT ![r] = NoSem]
  /\ call' = [call EXCEPT ![r] = "open"]
  /\ pc' = [pc EXCEPT ![r] = "done"]
  /\ UNCHANGED <<adminVars, sem, cool, lapses, kind, route, at, seen, late, pick, flushed,
                 gone, busy, lastErr, tries, answer>>

-----------------------------------------------------------------------------
\* What the gateway does of itself for a request it has begun.
Step(r) ==
  \/ SkipCooling(r) \/ Consider(r) \/ Unlimited(r) \/ PickSem(r) \/ TrySlot(r) \/ SkipBusy(r)
  \/ FlushHeaders(r) \/ Call(r) \/ Return(r) \/ SeeGone(r) \/ Succeed(r) \/ Fail(r)
  \/ Exhaust(r) \/ PumpGone(r)

Next ==
  \/ \E u \in Ups, n \in Limits : SetLimit(u, n)
  \/ \E k \in Keys : Lapse(k)
  \/ \E r \in Requests : Start(r) \/ ClientGone(r) \/ CallEnds(r) \/ PumpEnds(r) \/ Step(r)

Spec == Init /\ [][Next]_vars

\* The request's goroutine is scheduled, and net/http ends a call whose context
\* has been cancelled.  Nothing makes an upstream answer: the calls of a client
\* that stays have no timeout.
FairSpec ==
  /\ Spec
  /\ \A r \in Requests : WF_vars(Step(r)) /\ WF_vars(gone[r] /\ CallEnds(r))

-----------------------------------------------------------------------------
(* Properties. *)

TypeOK ==
  /\ limit \in [Ups -> Limits]
  /\ sem \in [Ups -> Sems \union {NoSem}]
  /\ cool \in [Keys -> {"none", "cooling", "lapsed"}]
  /\ pc \in [Requests -> PCs]
  /\ kind \in [Requests -> {"plain", "stream"}]
  /\ route \in [Requests -> Routes \union {<<>>}]
  /\ at \in [Requests -> Nat]
  /\ \A r \in Requests : at[r] <= Len(route[r]) + 1 /\ (pc[r] # "idle" => at[r] >= 1)
  /\ \A r \in Requests : pc[r] \notin {"idle", "check", "done"} => at[r] <= Len(route[r])
  /\ seen \in [Requests -> [Ups -> Limits \union {0}]]
  /\ late \in [Requests -> SUBSET Keys]
  /\ pick \in [Requests -> Sems \union {NoSem}]
  /\ slot \in [Requests -> Sems \union {NoSem}]
  /\ flushed \in [Requests -> BOOLEAN] /\ gone \in [Requests -> BOOLEAN]
  /\ call \in [Requests -> {"none", "open", "ok"} \union Errors]
  /\ busy \in [Requests -> BOOLEAN]
  /\ lastErr \in [Requests -> {"none"} \union Errors]
  /\ tries \in [Requests -> Nat] /\ logged \in [Requests -> Nat]
  /\ answer \in [Requests -> {"none", "ok", "failed", "429"}]
  /\ changes \in Nat /\ lapses \in Nat

\* A request works for a slot only if it needs one, and has one whenever it does:
\* while it calls or streams from a limited upstream it holds a slot of that
\* upstream, and at any other time none, however it ends.
SlotsCover ==
  \A r \in Requests :
    LET attended == pc[r] \in {"head", "call", "wait", "pump"} IN
    /\ attended /\ seen[r][Up(r)] > 0 => slot[r] # NoSem /\ slot[r].up = Up(r)
    /\ slot[r] # NoSem => attended \/ (pc[r] = "settle" /\ kind[r] = "stream")

InFlight(u) == {r \in Requests : slot[r] # NoSem /\ slot[r].up = u}

\* While nobody changes a limit, no more requests than the limit are in flight at
\* an upstream, although slots are taken outside the lock.
WithinLimit ==
  changes = 0 => \A u \in Ups : limit[u] > 0 => Cardinality(InFlight(u)) <= limit[u]

\* Every call leaves one usage record, whether it succeeds, fails, is failed over
\* or is abandoned by its client: usage is what clients are billed by.
Ledger ==
  \A r \in Requests :
    /\ logged[r] <= tries[r] /\ tries[r] <= logged[r] + 1
    /\ pc[r] = "done" => logged[r] = tries[r]

\* "Too many requests" is said only by a request that found an upstream full and
\* has called none, and an error is passed on only if there is one: cooldowns alone
\* never turn a request away.
HonestRefusal ==
  \A r \in Requests :
    /\ answer[r] = "429" => busy[r] /\ tries[r] = 0
    /\ answer[r] = "failed" => tries[r] > 0
    /\ answer[r] = "failed" /\ at[r] > Len(route[r]) => lastErr[r] # "none"

\* Once its client has disconnected, a request ends and gives its slot back, even if
\* the upstream hangs.
GoneEnds == \A r \in Requests : gone[r] ~> pc[r] = "done" /\ slot[r] = NoSem
=============================================================================
