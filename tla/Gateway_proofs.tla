--------------------------- MODULE Gateway_proofs ---------------------------
(***************************************************************************)
(* Proofs about one request's way through the gateway: about Dispatch, for *)
(* any finite set of requests and any upstreams, models, candidate chains  *)
(* and limits; and about Relay, for any formats, kinds of block and size   *)
(* of the channel.                                                         *)
(***************************************************************************)
EXTENDS MCDispatch, Relay, Sums, TLAPS

\* A candidate at hand is one of the request's chain.
LEMMA CandType ==
  ASSUME TypeOK, NEW r \in Requests, at[r] >= 1, at[r] <= Len(route[r])
  PROVE  Cand(r) \in Keys /\ Up(r) \in Ups
  <1>1. route[r] \in Seq(Keys)
    BY RoutesAssumption DEF TypeOK
  <1>2. route[r][at[r]] \in Keys
    BY <1>1 DEF TypeOK
  <1> QED BY <1>2 DEF Cand, Up, Keys

LEMMA LenType == ASSUME TypeOK, NEW r \in Requests PROVE Len(route[r]) \in Nat
  <1>1. <<>> \in Seq(Keys)
    OBVIOUS
  <1>2. route[r] \in Routes \union {<<>>}
    BY DEF TypeOK
  <1>3. route[r] \in Seq(Keys)
    BY <1>1, <1>2, RoutesAssumption
  <1> QED BY <1>3

LEMMA TypeInit == Init => TypeOK
  <1> SUFFICES ASSUME Init PROVE TypeOK
    OBVIOUS
  <1> USE DEF Init, PCs, Errors
  <1>1. limit \in [Ups -> Limits] /\ sem \in [Ups -> Sems \union {NoSem}]
    OBVIOUS
  <1>2. seen \in [Requests -> [Ups -> Limits \union {0}]]
    OBVIOUS
  <1>3. /\ pick \in [Requests -> Sems \union {NoSem}]
        /\ slot \in [Requests -> Sems \union {NoSem}]
    OBVIOUS
  <1>4. \A r \in Requests : at[r] <= Len(route[r]) + 1
    OBVIOUS
  <1> QED BY <1>1, <1>2, <1>3, <1>4 DEF TypeOK

\* One action after the other; those that move to another candidate do so only
\* within the chain.
LEMMA TypeWorld ==
  ASSUME TypeOK,
         \/ \E u \in Ups, n \in Limits : SetLimit(u, n)
         \/ \E k \in Keys : Lapse(k)
         \/ \E r \in Requests : ClientGone(r) \/ CallEnds(r)
  PROVE  TypeOK'
  <1> USE DEF TypeOK, vars, reqVars, adminVars, Errors
  <1>1. ASSUME NEW u \in Ups, NEW n \in Limits, SetLimit(u, n) PROVE TypeOK'
    BY <1>1, LimitsAssumption DEF SetLimit
  <1>2. ASSUME NEW k \in Keys, Lapse(k) PROVE TypeOK'
    BY <1>2 DEF Lapse
  <1>3. ASSUME NEW r \in Requests, ClientGone(r) PROVE TypeOK'
    BY <1>3 DEF ClientGone
  <1>4. ASSUME NEW r \in Requests, CallEnds(r) PROVE TypeOK'
    BY <1>4 DEF CallEnds
  <1> QED BY <1>1, <1>2, <1>3, <1>4

LEMMA TypeRequest ==
  ASSUME TypeOK, NEW r \in Requests, Start(r) \/ PumpEnds(r) \/ Step(r)
  PROVE  TypeOK'
  <1>a. at[r] >= 1 /\ at[r] <= Len(route[r]) => Cand(r) \in Keys /\ Up(r) \in Ups
    BY CandType
  <1>b. Len(route[r]) \in Nat
    BY LenType
  <1>c. at[r] \in Nat /\ (pc[r] # "idle" => at[r] >= 1)
    BY DEF TypeOK
  <1>d. pc[r] \notin {"idle", "check", "done"} => at[r] <= Len(route[r])
    BY DEF TypeOK
  <1>e. seen[r] \in [Ups -> Nat]
    <2>1. Limits \union {0} \subseteq Nat
      BY LimitsAssumption
    <2>2. seen[r] \in [Ups -> Limits \union {0}]
      BY DEF TypeOK
    <2> QED BY <2>1, <2>2
  <1> USE DEF TypeOK, vars, reqVars, adminVars, PCs
  <1>1. CASE Start(r)
    <2>1. PICK rt \in Routes, k \in {"plain", "stream"} :
            route' = [route EXCEPT ![r] = rt] /\ kind' = [kind EXCEPT ![r] = k]
      BY <1>1 DEF Start
    <2>2. Len(rt) \in Nat
      BY RoutesAssumption
    <2> QED BY <1>1, <2>1, <2>2 DEF Start
  <1>2. CASE PumpEnds(r)
    BY <1>2 DEF PumpEnds
  <1>3. CASE SkipCooling(r)
    BY <1>3, <1>b DEF SkipCooling, Advance, Coolable
  <1>4. CASE Consider(r)
    BY <1>4, <1>a DEF Consider
  <1>5. CASE Unlimited(r)
    BY <1>5 DEF Unlimited, Admitted
  <1>6. CASE PickSem(r)
    <2>0. pc[r] = "pick"
      BY <1>6 DEF PickSem
    <2>1. Up(r) \in Ups /\ seen[r][Up(r)] \in Nat
      BY <2>0, <1>a, <1>c, <1>d, <1>e
    <2>2. SemFor(Up(r), seen[r][Up(r)]) \in Sems
      BY <2>1, NoSemAssumption DEF SemFor, NewSem, Sems
    <2> QED BY <1>6, <2>1, <2>2 DEF PickSem
  <1>7. CASE TrySlot(r)
    BY <1>7 DEF TrySlot, Admitted
  <1>8. CASE SkipBusy(r)
    BY <1>8, <1>b, <1>c, <1>d DEF SkipBusy, Advance
  <1>9. CASE FlushHeaders(r)
    BY <1>9 DEF FlushHeaders
  <1>10. CASE Call(r)
    BY <1>10 DEF Call
  <1>11. CASE Return(r)
    BY <1>11 DEF Return
  <1>12. CASE SeeGone(r)
    BY <1>12 DEF SeeGone
  <1>13. CASE Succeed(r)
    <2>1. cool' \in [Keys -> {"none", "cooling", "lapsed"}]
      BY <1>13 DEF Succeed
    <2>2. pc[r] = "settle" /\ at[r] <= Len(route[r])
      BY <1>13, <1>d DEF Succeed
    <2>3. CASE kind[r] = "stream"
      <3>1. pc' = [pc EXCEPT ![r] = "pump"] /\ UNCHANGED <<call, logged, answer>>
        BY <1>13, <2>3 DEF Succeed
      <3> QED BY <1>13, <2>1, <2>2, <3>1 DEF Succeed
    <2>4. CASE kind[r] # "stream"
      <3>1. /\ pc' = [pc EXCEPT ![r] = "done"]
            /\ call' = [call EXCEPT ![r] = "none"]
            /\ logged' = [logged EXCEPT ![r] = @ + 1]
            /\ answer' = [answer EXCEPT ![r] = "ok"]
        BY <1>13, <2>4 DEF Succeed
      <3>2. /\ call' \in [Requests -> {"none", "open", "ok"} \union Errors]
            /\ answer' \in [Requests -> {"none", "ok", "failed", "429"}]
        BY <3>1
      <3>3. logged' \in [Requests -> Nat] /\ pc' \in [Requests -> PCs]
        BY <3>1
      <3>4. UNCHANGED <<adminVars, sem, lapses, kind, route, at, seen, late, pick, slot,
                        flushed, gone, busy, lastErr, tries>>
        BY <1>13 DEF Succeed
      <3> QED BY <2>1, <2>2, <3>1, <3>2, <3>3, <3>4
    <2> QED BY <2>3, <2>4
  <1>14. CASE Fail(r)
    <2>1. cool' \in [Keys -> {"none", "cooling", "lapsed"}]
      BY <1>14 DEF Fail
    <2>2. pc[r] = "settle" /\ at[r] <= Len(route[r]) /\ call[r] \in Errors
      BY <1>14, <1>d DEF Fail
    <2>3. /\ pc' \in [Requests -> PCs]
          /\ pc'[r] \in {"check", "done"}
          /\ \A q \in Requests : q # r => pc'[q] = pc[q]
      <3>1. PICK next \in {"check", "done"} : pc' = [pc EXCEPT ![r] = next]
        BY <1>14 DEF Fail, Advance
      <3>2. pc \in [Requests -> PCs] /\ {"check", "done"} \subseteq PCs
        OBVIOUS
      <3> HIDE DEF PCs
      <3> QED BY <3>1, <3>2
    <2>4. /\ at' \in [Requests -> Nat]
          /\ at'[r] >= 1 /\ at'[r] <= Len(route[r]) + 1
          /\ \A q \in Requests : q # r => at'[q] = at[q]
      <3>1. PICK n \in {at[r], at[r] + 1} : at' = [at EXCEPT ![r] = n]
        <4>1. at' = [at EXCEPT ![r] = at[r]] \/ at' = [at EXCEPT ![r] = at[r] + 1]
          BY <1>14 DEF Fail, Advance
        <4> QED BY <4>1
      <3>2. n \in Nat /\ n >= 1 /\ n <= Len(route[r]) + 1
        BY <1>b, <1>c, <2>2, <3>1
      <3>3. at \in [Requests -> Nat]
        OBVIOUS
      <3> QED BY <3>1, <3>2, <3>3
    <2>5. /\ call' \in [Requests -> {"none", "open", "ok"} \union Errors]
          /\ lastErr' \in [Requests -> {"none"} \union Errors]
      BY <1>14, <2>2 DEF Fail
    <2>6. logged' \in [Requests -> Nat]
      BY <1>14 DEF Fail
    <2> QED BY <1>14, <2>1, <2>2, <2>3, <2>4, <2>5, <2>6 DEF Fail
  <1>15. CASE Exhaust(r)
    BY <1>15 DEF Exhaust
  <1>16. CASE PumpGone(r)
    BY <1>16 DEF PumpGone
  <1> QED BY <1>1, <1>2, <1>3, <1>4, <1>5, <1>6, <1>7, <1>8, <1>9, <1>10, <1>11, <1>12,
             <1>13, <1>14, <1>15, <1>16 DEF Step

LEMMA TypeNext == TypeOK /\ [Next]_vars => TypeOK'
  <1> SUFFICES ASSUME TypeOK, [Next]_vars PROVE TypeOK'
    OBVIOUS
  <1>1. CASE UNCHANGED vars
    BY <1>1 DEF vars, reqVars, adminVars, TypeOK
  <1> QED BY <1>1, TypeWorld, TypeRequest DEF Next

\* Every variable keeps its type, and a request works on a candidate of its chain.
THEOREM TypeCorrect == Spec => []TypeOK
  BY TypeInit, TypeNext, PTL DEF Spec

-----------------------------------------------------------------------------
(* One request by itself.  What SlotsCover, Ledger and HonestRefusal say of a *)
(* request follows from where it is and from what it carries there.          *)

Attended(r) == pc[r] \in {"head", "call", "wait", "pump"}

\* A good stream between the call and the pump still holds its slot.
Held(r) == Attended(r) \/ (pc[r] = "settle" /\ HoldOn(r))

\* The semaphore in hand is one for the candidate and for the limit it was read with.
PickInv(r) ==
  /\ pc[r] = "try" <=> pick[r] # NoSem
  /\ pc[r] = "try" => pick[r].up = Up(r)

\* The slot is held exactly while it is needed.
SlotInv(r) ==
  /\ Held(r) /\ seen[r][Up(r)] > 0 => slot[r] # NoSem /\ slot[r].up = Up(r)
  /\ slot[r] # NoSem => Held(r)

\* A call has a result when it is settled.
CallInv(r) ==
  /\ pc[r] = "wait" => call[r] # "none"
  /\ pc[r] = "settle" => call[r] \in {"ok"} \union Errors

\* Only the call at hand has not been recorded yet.
LedgerInv(r) ==
  tries[r] = IF pc[r] \in {"wait", "settle", "pump"} THEN logged[r] + 1 ELSE logged[r]

\* A request at the end of its chain has called or found an upstream full.
ReasonInv(r) ==
  /\ pc[r] \notin {"idle", "done"} => answer[r] = "none"
  /\ pc[r] = "idle" => answer[r] = "none" /\ at[r] = 0
  /\ at[r] > Len(route[r]) => tries[r] > 0 \/ busy[r]
  /\ pc[r] \notin {"wait", "settle", "pump", "done"} /\ tries[r] > 0 => lastErr[r] # "none"
  /\ pc[r] = "done" /\ at[r] > Len(route[r]) /\ tries[r] > 0 => lastErr[r] # "none"
  /\ answer[r] = "429" => busy[r] /\ tries[r] = 0
  /\ answer[r] = "failed" => tries[r] > 0

RInv(r) == PickInv(r) /\ SlotInv(r) /\ CallInv(r) /\ LedgerInv(r) /\ ReasonInv(r)

\* An upstream's semaphore is its own.
SemInv == \A u \in Ups : sem[u] # NoSem => sem[u].up = u

\* What RInv depends on.
Own(r) == <<pc[r], kind[r], route[r], at[r], seen[r], pick[r], slot[r], call[r], busy[r],
            lastErr[r], tries[r], logged[r], answer[r]>>

LEMMA RInvOwn == ASSUME NEW r \in Requests, RInv(r), Own(r)' = Own(r) PROVE RInv(r)'
  BY DEF RInv, PickInv, SlotInv, CallInv, LedgerInv, ReasonInv, Held, Attended, HoldOn,
         Own, Up, Cand

LEMMA RInvInit == ASSUME Init, NEW r \in Requests PROVE RInv(r)
  BY DEF Init, RInv, PickInv, SlotInv, CallInv, LedgerInv, ReasonInv, Held, Attended, HoldOn

\* A step of one request leaves the others alone.
LEMMA OthersOwn ==
  ASSUME TypeOK, NEW r \in Requests, Start(r) \/ CallEnds(r) \/ PumpEnds(r) \/ Step(r),
         NEW q \in Requests, q # r
  PROVE  Own(q)' = Own(q)
  <1> USE DEF TypeOK, Own
  <1>1. CASE Start(r)
    BY <1>1 DEF Start
  <1>2. CASE CallEnds(r)
    BY <1>2 DEF CallEnds
  <1>3. CASE PumpEnds(r)
    BY <1>3 DEF PumpEnds
  <1>4. CASE SkipCooling(r) \/ Consider(r)
    BY <1>4 DEF SkipCooling, Consider, Advance
  <1>5. CASE Unlimited(r) \/ PickSem(r) \/ TrySlot(r)
    BY <1>5 DEF Unlimited, PickSem, TrySlot
  <1>6. CASE SkipBusy(r) \/ FlushHeaders(r) \/ Call(r)
    BY <1>6 DEF SkipBusy, FlushHeaders, Call, Advance
  <1>7. CASE Return(r) \/ SeeGone(r)
    BY <1>7 DEF Return, SeeGone
  <1>8. CASE Succeed(r)
    BY <1>8 DEF Succeed
  <1>9. CASE Fail(r)
    BY <1>9 DEF Fail, Advance
  <1>10. CASE Exhaust(r) \/ PumpGone(r)
    BY <1>10 DEF Exhaust, PumpGone
  <1> QED BY <1>1, <1>2, <1>3, <1>4, <1>5, <1>6, <1>7, <1>8, <1>9, <1>10 DEF Step

\* Its own steps, one action after the other: what it now carries, and then RInv.
LEMMA OwnStep ==
  ASSUME TypeOK, SemInv, NEW r \in Requests, RInv(r),
         Start(r) \/ CallEnds(r) \/ PumpEnds(r) \/ Step(r)
  PROVE  RInv(r)'
  <1>0. /\ Len(route[r]) \in Nat /\ at[r] \in Nat
        /\ tries[r] \in Nat /\ logged[r] \in Nat
        /\ pc[r] \notin {"idle", "check", "done"} => at[r] >= 1 /\ at[r] <= Len(route[r])
        /\ call[r] \in {"none", "open", "ok"} \union Errors
    BY LenType DEF TypeOK
  <1>t. /\ pc \in [Requests -> PCs] /\ kind \in [Requests -> {"plain", "stream"}]
        /\ DOMAIN route = Requests /\ DOMAIN at = Requests /\ DOMAIN seen = Requests
        /\ DOMAIN pick = Requests /\ DOMAIN slot = Requests /\ DOMAIN call = Requests
        /\ DOMAIN busy = Requests /\ DOMAIN lastErr = Requests /\ DOMAIN tries = Requests
        /\ DOMAIN logged = Requests /\ DOMAIN answer = Requests
    BY DEF TypeOK
  <1> USE <1>0 DEF RInv, PickInv, SlotInv, CallInv, LedgerInv, ReasonInv, Held, Attended,
          HoldOn, Up, Cand
  <1>1. CASE Start(r)
    <2>1. PICK rt \in Routes, k \in {"plain", "stream"} :
            route' = [route EXCEPT ![r] = rt] /\ kind' = [kind EXCEPT ![r] = k]
      BY <1>1 DEF Start
    <2>2. Len(rt) \in Nat /\ Len(rt) >= 1
      BY RoutesAssumption
    <2> QED BY <1>1, <1>t, <2>1, <2>2 DEF Start
  <1>2. CASE CallEnds(r)
    BY <1>2, <1>t DEF CallEnds, Errors
  <1>3. CASE PumpEnds(r)
    BY <1>3, <1>t DEF PumpEnds
  <1>4. CASE SkipCooling(r)
    BY <1>4, <1>t DEF SkipCooling, Advance, Coolable
  <1>5. CASE Consider(r)
    BY <1>5, <1>t DEF Consider
  <1>6. CASE Unlimited(r)
    BY <1>6, <1>t DEF Unlimited, Admitted
  <1>7. CASE PickSem(r)
    <2>1. pc[r] = "pick" /\ Up(r) \in Ups /\ seen[r][Up(r)] \in Nat
      <3>1. pc[r] = "pick"
        BY <1>7 DEF PickSem
      <3>2. Up(r) \in Ups
        BY <3>1, CandType
      <3>3. Limits \union {0} \subseteq Nat
        BY LimitsAssumption
      <3>4. seen[r] \in [Ups -> Limits \union {0}]
        BY DEF TypeOK
      <3> QED BY <3>1, <3>2, <3>3, <3>4
    <2>2. SemFor(Up(r), seen[r][Up(r)]) \in Sems
      BY <2>1, NoSemAssumption DEF SemFor, NewSem, Sems, TypeOK
    <2>3. SemFor(Up(r), seen[r][Up(r)]).up = Up(r)
      BY <2>1 DEF SemFor, NewSem, SemInv
    <2> QED BY <1>7, <1>t, <2>1, <2>2, <2>3, NoSemAssumption DEF PickSem, Sems
  <1>8. CASE TrySlot(r)
    BY <1>8, <1>t DEF TrySlot, Admitted
  <1>9. CASE SkipBusy(r)
    BY <1>9, <1>t DEF SkipBusy, Advance
  <1>10. CASE FlushHeaders(r)
    BY <1>10, <1>t DEF FlushHeaders
  <1>11. CASE Call(r)
    BY <1>11, <1>t DEF Call
  <1>12. CASE Return(r)
    BY <1>12, <1>t DEF Return
  <1>13. CASE SeeGone(r)
    BY <1>13, <1>t DEF SeeGone
  <1>14. CASE Succeed(r)
    BY <1>14, <1>t DEF Succeed
  <1>15. CASE Fail(r)
    BY <1>15, <1>t DEF Fail, Advance, Errors
  <1>16. CASE Exhaust(r)
    BY <1>16, <1>t DEF Exhaust
  <1>17. CASE PumpGone(r)
    BY <1>17, <1>t DEF PumpGone
  <1> QED BY <1>1, <1>2, <1>3, <1>4, <1>5, <1>6, <1>7, <1>8, <1>9, <1>10, <1>11, <1>12,
             <1>13, <1>14, <1>15, <1>16, <1>17 DEF Step

-----------------------------------------------------------------------------
(* All requests together.  A semaphore never has more holders than places;   *)
(* as long as no limit has been changed there is one semaphore per upstream, *)
(* made for its limit, and every slot in use is one of it.  WithinLimit      *)
(* alone is not inductive: it does not know whose slots are counted where.   *)

FitsInv == \A s \in Sems : Cardinality(Holders(s)) <= s.lim

StableInv ==
  changes = 0 =>
    /\ \A r \in Requests : pc[r] # "idle" => seen[r] = limit
    /\ \A u \in Ups : sem[u] # NoSem => sem[u].lim = limit[u]
    /\ \A r \in Requests : pick[r] # NoSem => pick[r] = sem[pick[r].up]
    /\ \A r \in Requests : slot[r] # NoSem => slot[r] = sem[slot[r].up]

SInv == SemInv /\ FitsInv /\ StableInv

LEMMA HoldersFinite ==
  ASSUME NEW s PROVE IsFiniteSet(Holders(s)) /\ Cardinality(Holders(s)) \in Nat
  <1>1. Holders(s) \subseteq Requests
    BY DEF Holders
  <1>2. IsFiniteSet(Holders(s))
    BY <1>1, RequestsAssumption, FS_Subset
  <1> QED BY <1>2, FS_CardinalityType

LEMMA SInvInit == Init => SInv
  <1> SUFFICES ASSUME Init PROVE SInv
    OBVIOUS
  <1>1. SemInv /\ StableInv
    BY DEF Init, SemInv, StableInv
  <1>2. ASSUME NEW s \in Sems PROVE Cardinality(Holders(s)) <= s.lim
    <2>1. Holders(s) = {}
      BY NoSemAssumption DEF Init, Holders, Sems
    <2>2. s.lim \in Nat
      BY DEF Sems
    <2> QED BY <2>1, <2>2, FS_EmptySet
  <1> QED BY <1>1, <1>2 DEF SInv, FitsInv

\* Steps that at most give slots and semaphores back.
Quiet ==
  /\ UNCHANGED <<sem, limit, changes, seen>>
  /\ \A q \in Requests : /\ pick'[q] = pick[q] \/ pick'[q] = NoSem
                         /\ slot'[q] = slot[q] \/ slot'[q] = NoSem
                         /\ pc'[q] # "idle" => pc[q] # "idle"

LEMMA FewerHolders ==
  ASSUME NEW s, Holders(s)' \subseteq Holders(s), Cardinality(Holders(s)) <= s.lim, s.lim \in Nat
  PROVE  Cardinality(Holders(s))' <= s.lim
  <1>1. Cardinality(Holders(s)') <= Cardinality(Holders(s))
    BY HoldersFinite, FS_Subset
  <1>2. Cardinality(Holders(s)) \in Nat /\ Cardinality(Holders(s)') \in Nat
    BY HoldersFinite, FS_Subset, FS_CardinalityType
  <1> QED BY <1>1, <1>2

LEMMA QuietSafe == ASSUME SInv, Quiet PROVE SInv'
  <1>1. SemInv' /\ StableInv'
    BY DEF SInv, Quiet, SemInv, StableInv
  <1>2. ASSUME NEW s \in Sems PROVE Cardinality(Holders(s))' <= s.lim
    <2>1. Holders(s)' \subseteq Holders(s)
      BY NoSemAssumption DEF Quiet, Holders, Sems
    <2>2. Cardinality(Holders(s)) <= s.lim /\ s.lim \in Nat
      BY DEF SInv, FitsInv, Sems
    <2> QED BY <2>1, <2>2, FewerHolders
  <1> QED BY <1>1, <1>2 DEF SInv, FitsInv

LEMMA QuietSteps ==
  ASSUME TypeOK,
         \/ \E k \in Keys : Lapse(k)
         \/ \E r \in Requests :
              \/ ClientGone(r) \/ CallEnds(r) \/ PumpEnds(r) \/ SkipCooling(r) \/ Consider(r)
              \/ Unlimited(r) \/ SkipBusy(r) \/ FlushHeaders(r) \/ Call(r) \/ Return(r)
              \/ SeeGone(r) \/ Succeed(r) \/ Fail(r) \/ Exhaust(r) \/ PumpGone(r)
  PROVE  Quiet
  <1>t. pc \in [Requests -> PCs] /\ DOMAIN pick = Requests /\ DOMAIN slot = Requests
    BY DEF TypeOK
  <1> USE <1>t DEF Quiet, adminVars, reqVars
  <1>1. ASSUME NEW k \in Keys, Lapse(k) PROVE Quiet
    BY <1>1 DEF Lapse
  <1>2. ASSUME NEW r \in Requests, ClientGone(r) \/ CallEnds(r) PROVE Quiet
    BY <1>2 DEF ClientGone, CallEnds
  <1>3. ASSUME NEW r \in Requests, PumpEnds(r) \/ PumpGone(r) PROVE Quiet
    BY <1>3 DEF PumpEnds, PumpGone
  <1>4. ASSUME NEW r \in Requests, SkipCooling(r) \/ Consider(r) PROVE Quiet
    BY <1>4 DEF SkipCooling, Consider, Advance
  <1>5. ASSUME NEW r \in Requests, Unlimited(r) \/ SkipBusy(r) PROVE Quiet
    BY <1>5 DEF Unlimited, SkipBusy, Advance
  <1>6. ASSUME NEW r \in Requests, FlushHeaders(r) \/ Call(r) \/ Exhaust(r) PROVE Quiet
    BY <1>6 DEF FlushHeaders, Call, Exhaust
  <1>7. ASSUME NEW r \in Requests, Return(r) \/ SeeGone(r) PROVE Quiet
    BY <1>7 DEF Return, SeeGone
  <1>8. ASSUME NEW r \in Requests, Succeed(r) PROVE Quiet
    BY <1>8 DEF Succeed
  <1>9. ASSUME NEW r \in Requests, Fail(r) PROVE Quiet
    BY <1>9 DEF Fail, Advance
  <1> QED BY <1>1, <1>2, <1>3, <1>4, <1>5, <1>6, <1>7, <1>8, <1>9

LEMMA SetLimitSafe ==
  ASSUME TypeOK, SInv, NEW u \in Ups, NEW n \in Limits, SetLimit(u, n) PROVE SInv'
  <1>1. changes' # 0
    BY DEF SetLimit, TypeOK
  <1>2. UNCHANGED <<sem, slot>>
    BY DEF SetLimit, reqVars
  <1>3. \A s : Holders(s)' = Holders(s)
    BY <1>2 DEF Holders
  <1> QED BY <1>1, <1>2, <1>3 DEF SInv, SemInv, FitsInv, StableInv

LEMMA StartSafe ==
  ASSUME TypeOK, SInv, NEW r \in Requests, Start(r) PROVE SInv'
  <1>1. /\ UNCHANGED <<limit, changes, sem, pick, slot>>
        /\ pc' = [pc EXCEPT ![r] = "check"] /\ seen' = [seen EXCEPT ![r] = limit]
    BY DEF Start, adminVars
  <1>2. \A s : Holders(s)' = Holders(s)
    BY <1>1 DEF Holders
  <1>3. DOMAIN pc = Requests /\ DOMAIN seen = Requests
    BY DEF TypeOK
  <1>4. StableInv'
    BY <1>1, <1>3 DEF SInv, StableInv
  <1> QED BY <1>1, <1>2, <1>4 DEF SInv, SemInv, FitsInv

LEMMA TrySlotSafe ==
  ASSUME TypeOK, SInv, NEW r \in Requests, RInv(r), TrySlot(r) PROVE SInv'
  <1>1. /\ UNCHANGED <<limit, changes, sem, seen>>
        /\ pc[r] = "try"
        /\ Cardinality(Holders(pick[r])) < pick[r].lim
        /\ slot' = [slot EXCEPT ![r] = pick[r]]
        /\ pick' = [pick EXCEPT ![r] = NoSem]
        /\ \A q \in Requests : pc'[q] # "idle" => pc[q] # "idle"
    BY DEF TrySlot, adminVars, TypeOK
  <1>2. pick[r] # NoSem /\ slot[r] = NoSem /\ pick[r] \in Sems
    BY <1>1 DEF RInv, PickInv, SlotInv, Held, Attended, TypeOK
  <1>3. DOMAIN slot = Requests /\ DOMAIN pick = Requests
    BY DEF TypeOK
  <1>4. SemInv' /\ StableInv'
    BY <1>1, <1>2, <1>3 DEF SInv, SemInv, StableInv
  <1>5. ASSUME NEW s \in Sems PROVE Cardinality(Holders(s))' <= s.lim
    <2>1. CASE s = pick[r]
      <3>1. Holders(s)' = Holders(s) \union {r} /\ r \notin Holders(s)
        BY <1>1, <1>2, <1>3, <2>1, NoSemAssumption DEF Holders, Sems
      <3>2. Cardinality(Holders(s) \union {r}) = Cardinality(Holders(s)) + 1
        BY <3>1, HoldersFinite, FS_AddElement
      <3>3. Cardinality(Holders(s)) < s.lim /\ s.lim \in Nat
        BY <1>1, <2>1 DEF Sems
      <3>4. Cardinality(Holders(s)) \in Nat
        BY HoldersFinite
      <3>5. Holders(s)' = Holders(s) \union {r} => Cardinality(Holders(s))' = Cardinality(Holders(s) \union {r})
        OBVIOUS
      <3> QED BY <3>1, <3>2, <3>3, <3>4, <3>5
    <2>2. CASE s # pick[r]
      <3>1. Holders(s)' \subseteq Holders(s)
        BY <1>1, <1>3, <2>2 DEF Holders
      <3>2. Cardinality(Holders(s)) <= s.lim /\ s.lim \in Nat
        BY DEF SInv, FitsInv, Sems
      <3> QED BY <3>1, <3>2, FewerHolders
    <2> QED BY <2>1, <2>2
  <1> QED BY <1>4, <1>5 DEF SInv, FitsInv

LEMMA PickSemSafe ==
  ASSUME TypeOK, SInv, NEW r \in Requests, PickSem(r) PROVE SInv'
  <1> DEFINE u == Up(r)
             N == SemFor(u, seen[r][u])
  <1>1. /\ UNCHANGED <<limit, changes, seen, slot>>
        /\ pc[r] = "pick" /\ pc' = [pc EXCEPT ![r] = "try"]
        /\ sem' = [sem EXCEPT ![u] = N] /\ pick' = [pick EXCEPT ![r] = N]
    BY DEF PickSem, adminVars
  <1>2. u \in Ups
    BY <1>1, CandType DEF TypeOK
  <1>3. /\ pc \in [Requests -> PCs] /\ DOMAIN pick = Requests
        /\ sem \in [Ups -> Sems \union {NoSem}]
        /\ \A q \in Requests : /\ pick[q] # NoSem => pick[q].up \in Ups
                               /\ slot[q] # NoSem => slot[q].up \in Ups
    BY DEF TypeOK, Sems
  <1>4. seen[r][u] \in Nat
    <2>1. Limits \union {0} \subseteq Nat
      BY LimitsAssumption
    <2>2. seen[r] \in [Ups -> Limits \union {0}]
      BY DEF TypeOK
    <2> QED BY <1>2, <2>1, <2>2
  <1>5. N \in Sems /\ N # NoSem /\ N.up = u
    <2>1. N \in Sems
      BY <1>2, <1>3, <1>4 DEF SemFor, NewSem, Sems
    <2>2. N.up = u
      BY <1>2 DEF SemFor, NewSem, SInv, SemInv
    <2> QED BY <2>1, <2>2, NoSemAssumption DEF Sems
  <1>6. SemInv'
    BY <1>1, <1>2, <1>3, <1>5 DEF SInv, SemInv
  <1>7. FitsInv'
    <2>1. \A s : Holders(s)' = Holders(s)
      BY <1>1 DEF Holders
    <2> QED BY <2>1 DEF SInv, FitsInv
  <1>8. ASSUME changes' = 0 PROVE StableInv'
    <2>1. /\ changes = 0 /\ seen[r] = limit
          /\ \A v \in Ups : sem[v] # NoSem => sem[v].lim = limit[v]
      BY <1>1, <1>8 DEF SInv, StableInv
    <2>2. sem[u] = NoSem \/ N = sem[u]
      BY <1>2, <2>1 DEF SemFor
    <2>3. N.lim = limit[u]
      BY <1>2, <2>1 DEF SemFor, NewSem
    <2>4. \A q \in Requests : slot[q] # NoSem => slot[q] = sem'[slot[q].up]
      BY <1>1, <1>2, <1>3, <2>1, <2>2 DEF SInv, StableInv
    <2>5. \A q \in Requests : pick'[q] # NoSem => pick'[q] = sem'[pick'[q].up]
      BY <1>1, <1>2, <1>3, <1>5, <2>1, <2>2 DEF SInv, StableInv
    <2>6. \A v \in Ups : sem'[v] # NoSem => sem'[v].lim = limit[v]
      BY <1>1, <1>2, <1>3, <2>1, <2>3
    <2>7. \A q \in Requests : pc'[q] # "idle" => seen[q] = limit
      BY <1>1, <1>3, <2>1 DEF SInv, StableInv
    <2> QED BY <1>1, <2>4, <2>5, <2>6, <2>7 DEF StableInv
  <1>9. changes' # 0 => StableInv'
    BY DEF StableInv
  <1> QED BY <1>6, <1>7, <1>8, <1>9 DEF SInv

-----------------------------------------------------------------------------
(* The inductive invariant, and what follows from it. *)

IInv == TypeOK /\ (\A r \in Requests : RInv(r)) /\ SInv

LEMMA IInvInit == Init => IInv
  BY TypeInit, RInvInit, SInvInit DEF IInv

LEMMA RInvNext ==
  ASSUME IInv, [Next]_vars PROVE \A q \in Requests : RInv(q)'
  <1>1. ASSUME NEW q \in Requests, Own(q)' = Own(q) PROVE RInv(q)'
    BY <1>1, RInvOwn DEF IInv
  <1>2. ASSUME NEW r \in Requests, Start(r) \/ CallEnds(r) \/ PumpEnds(r) \/ Step(r)
        PROVE  \A q \in Requests : RInv(q)'
    <2>1. RInv(r)'
      BY <1>2, OwnStep DEF IInv, SInv
    <2>2. \A q \in Requests : q # r => Own(q)' = Own(q)
      BY <1>2, OthersOwn DEF IInv
    <2> QED BY <1>1, <2>1, <2>2
  <1>3. ASSUME NEW u \in Ups, NEW n \in Limits, SetLimit(u, n)
        PROVE  \A q \in Requests : Own(q)' = Own(q)
    BY <1>3 DEF SetLimit, reqVars, Own
  <1>4. ASSUME NEW k \in Keys, Lapse(k) PROVE \A q \in Requests : Own(q)' = Own(q)
    BY <1>4 DEF Lapse, Own
  <1>5. ASSUME NEW r \in Requests, ClientGone(r)
        PROVE  \A q \in Requests : Own(q)' = Own(q)
    BY <1>5 DEF ClientGone, Own
  <1>6. CASE UNCHANGED vars
    BY <1>1, <1>6 DEF vars, reqVars, Own
  <1> QED BY <1>1, <1>2, <1>3, <1>4, <1>5, <1>6 DEF Next

LEMMA SInvNext == ASSUME IInv, [Next]_vars PROVE SInv'
  <1> USE DEF IInv
  <1>1. ASSUME Quiet PROVE SInv'
    BY <1>1, QuietSafe
  <1>2. ASSUME NEW u \in Ups, NEW n \in Limits, SetLimit(u, n) PROVE SInv'
    BY <1>2, SetLimitSafe
  <1>3. ASSUME NEW r \in Requests, Start(r) PROVE SInv'
    BY <1>3, StartSafe
  <1>4. ASSUME NEW r \in Requests, PickSem(r) PROVE SInv'
    BY <1>4, PickSemSafe
  <1>5. ASSUME NEW r \in Requests, TrySlot(r) PROVE SInv'
    BY <1>5, TrySlotSafe
  <1>6. ASSUME NEW k \in Keys, Lapse(k) PROVE Quiet
    BY <1>6, QuietSteps
  <1>7. ASSUME NEW r \in Requests,
               \/ ClientGone(r) \/ CallEnds(r) \/ PumpEnds(r) \/ SkipCooling(r) \/ Consider(r)
               \/ Unlimited(r) \/ SkipBusy(r) \/ FlushHeaders(r) \/ Call(r) \/ Return(r)
               \/ SeeGone(r) \/ Succeed(r) \/ Fail(r) \/ Exhaust(r) \/ PumpGone(r)
        PROVE  Quiet
    BY <1>7, QuietSteps
  <1>8. CASE UNCHANGED vars
    BY <1>1, <1>8 DEF vars, adminVars, reqVars, Quiet
  <1> QED BY <1>1, <1>2, <1>3, <1>4, <1>5, <1>6, <1>7, <1>8 DEF Next, Step

LEMMA IInvNext == IInv /\ [Next]_vars => IInv'
  BY TypeNext, RInvNext, SInvNext DEF IInv

LEMMA Invariant == Spec => []IInv
  BY IInvInit, IInvNext, PTL DEF Spec

\* A slot of the right upstream is held while a limited upstream works for the
\* request, and none at any other time, for any chains and limits.
THEOREM SlotsAreCovered == Spec => []SlotsCover
  <1>1. IInv => SlotsCover
    BY DEF IInv, RInv, SlotInv, Held, Attended, HoldOn, SlotsCover
  <1> QED BY <1>1, Invariant, PTL

\* While no limit is changed, no upstream has more requests in flight than its limit.
THEOREM LimitsHold == Spec => []WithinLimit
  <1>1. ASSUME IInv, changes = 0, NEW u \in Ups, limit[u] > 0
        PROVE  Cardinality(InFlight(u)) <= limit[u]
    <2>1. limit[u] \in Nat
      <3>1. limit[u] \in Limits
        BY <1>1 DEF IInv, TypeOK
      <3> QED BY <3>1, LimitsAssumption
    <2>2. \A q \in InFlight(u) : slot[q] = sem[u] /\ sem[u] # NoSem
      BY <1>1 DEF InFlight, IInv, SInv, StableInv
    <2>3. CASE InFlight(u) = {}
      BY <2>1, <2>3, FS_EmptySet
    <2>4. CASE InFlight(u) # {}
      <3>1. sem[u] \in Sems /\ sem[u] # NoSem /\ sem[u].lim = limit[u]
        BY <1>1, <2>2, <2>4 DEF IInv, TypeOK, SInv, StableInv
      <3>2. InFlight(u) = Holders(sem[u])
        BY <1>1, <2>2, <3>1 DEF InFlight, Holders, IInv, SInv, SemInv
      <3> QED BY <1>1, <3>1, <3>2 DEF IInv, SInv, FitsInv
    <2> QED BY <2>3, <2>4
  <1>2. IInv => WithinLimit
    BY <1>1 DEF WithinLimit
  <1> QED BY <1>2, Invariant, PTL

\* Every call leaves exactly one usage record.
THEOREM CallsAreRecorded == Spec => []Ledger
  <1>1. ASSUME IInv, NEW r \in Requests
        PROVE  /\ logged[r] <= tries[r] /\ tries[r] <= logged[r] + 1
               /\ pc[r] = "done" => logged[r] = tries[r]
    <2>1. logged[r] \in Nat
      BY <1>1 DEF IInv, TypeOK
    <2>2. LedgerInv(r)
      BY <1>1 DEF IInv, RInv
    <2> QED BY <2>1, <2>2 DEF LedgerInv
  <1>2. IInv => Ledger
    BY <1>1 DEF Ledger
  <1> QED BY <1>2, Invariant, PTL

\* A refusal gives its true reason: cooldowns alone refuse nobody.
THEOREM RefusalsAreHonest == Spec => []HonestRefusal
  <1>1. IInv => HonestRefusal
    BY DEF IInv, RInv, ReasonInv, HonestRefusal
  <1> QED BY <1>1, Invariant, PTL

-----------------------------------------------------------------------------
(* Cooldowns, with the history variable of MCDispatch: what has been cooling *)
(* ever since a request began is cooling now, so a candidate that the request *)
(* took was not among it, and what is lost from since never comes back.       *)

Chosen(r) == pc[r] \in {"pick", "try", "head", "call"}

CoolInv == (\A r \in Requests : since[r] \subseteq Cooling) /\ CooldownHeld
HInv == IInv /\ CoolInv

\* What a step does to a request's place in its chain.
LEMMA ChosenOnce ==
  ASSUME IInv, Next, NEW r \in Requests, Chosen(r)', Coolable(r)'
  PROVE  Cand(r)' \notin Cooling \/ (Chosen(r) /\ Coolable(r) /\ Cand(r)' = Cand(r))
<1> USE DEF IInv, TypeOK, Chosen, Coolable, Cand
<1>1. ASSUME Own(r)' = Own(r) PROVE Chosen(r) /\ Coolable(r) /\ Cand(r)' = Cand(r)
  BY <1>1 DEF Own
<1>2. ASSUME NEW q \in Requests, q # r, Start(q) \/ CallEnds(q) \/ PumpEnds(q) \/ Step(q)
      PROVE  Own(r)' = Own(r)
  BY <1>2, OthersOwn
<1>3. ASSUME \/ \E u \in Ups, n \in Limits : SetLimit(u, n)
             \/ \E k \in Keys : Lapse(k)
             \/ \E q \in Requests : ClientGone(q)
      PROVE  Own(r)' = Own(r)
  BY <1>3 DEF SetLimit, Lapse, ClientGone, reqVars, Own
<1>4. CASE Consider(r)
  <2>1. /\ ~(Coolable(r) /\ Down(r)) /\ UNCHANGED <<route, at>>
    BY <1>4 DEF Consider
  <2>2. cool[Cand(r)] # "cooling"
    BY <2>1 DEF Down
  <2> QED BY <2>1, <2>2 DEF Cooling
<1>5. CASE (Start(r) \/ CallEnds(r) \/ PumpEnds(r) \/ Step(r)) /\ ~Consider(r)
  <2>1. Chosen(r) /\ UNCHANGED <<route, at>>
    <3> USE <1>5
    <3>1. CASE Start(r) \/ CallEnds(r) \/ PumpEnds(r)
      BY <3>1 DEF Start, CallEnds, PumpEnds
    <3>2. CASE Step(r)
      BY <3>2 DEF Step, SkipCooling, Unlimited, PickSem, TrySlot, SkipBusy, FlushHeaders, Call,
         Return, SeeGone, Succeed, Fail, Exhaust, PumpGone, Advance
    <3> QED BY <3>1, <3>2
  <2> QED BY <2>1
<1> QED BY <1>1, <1>2, <1>3, <1>4, <1>5 DEF Next

LEMMA CoolNext == ASSUME HInv, [MCNext]_mcVars PROVE HInv'
<1>1. IInv' /\ ((Next /\ Track) \/ UNCHANGED mcVars)
  <2>1. (Next /\ Track) \/ UNCHANGED mcVars
    BY DEF MCNext, Finished, Next, Step
  <2> QED BY <2>1, IInvNext DEF HInv, mcVars
<1>2. CASE UNCHANGED mcVars
  BY <1>1, <1>2 DEF HInv, CoolInv, CooldownHeld, Cooling, Coolable, Cand, mcVars, vars, reqVars
<1>3. CASE Next /\ Track
  <2>1. ASSUME NEW r \in Requests PROVE since'[r] \subseteq Cooling'
    <3>1. pc[r] = "idle" /\ pc'[r] = "check" => since'[r] = Cooling /\ Cooling' = Cooling
      <4> SUFFICES ASSUME pc[r] = "idle", pc'[r] = "check" PROVE Cooling' = Cooling /\ since'[r] = Cooling
        OBVIOUS
      <4>1. since'[r] = Cooling
        BY <1>3 DEF Track
      <4>2. Start(r)
        <5>1. ASSUME NEW q \in Requests, q # r, Start(q) \/ CallEnds(q) \/ PumpEnds(q) \/ Step(q)
              PROVE  pc'[r] = pc[r]
          BY <5>1, OthersOwn DEF HInv, IInv, Own
        <5>2. ASSUME \/ \E u \in Ups, n \in Limits : SetLimit(u, n)
                     \/ \E k \in Keys : Lapse(k)
                     \/ \E q \in Requests : ClientGone(q)
              PROVE  pc'[r] = pc[r]
          BY <5>2 DEF SetLimit, Lapse, ClientGone, reqVars
        <5>3. ~CallEnds(r) /\ ~PumpEnds(r) /\ ~Step(r)
          BY DEF CallEnds, PumpEnds, Step, SkipCooling, Consider, Unlimited, PickSem, TrySlot,
             SkipBusy, FlushHeaders, Call, Return, SeeGone, Succeed, Fail, Exhaust, PumpGone
        <5> QED BY <1>3, <5>1, <5>2, <5>3 DEF Next
      <4>3. cool' = cool
        BY <4>2 DEF Start
      <4> QED BY <4>1, <4>3 DEF Cooling
    <3> QED BY <1>3, <3>1 DEF Track
  <2>2. ASSUME NEW r \in Requests, Chosen(r)', Coolable(r)' PROVE Cand(r)' \notin since'[r]
    <3>1. since'[r] \subseteq since[r]
      <4>1. ~(pc[r] = "idle" /\ pc'[r] = "check")
        BY <2>2 DEF Chosen
      <4> QED BY <1>3, <4>1 DEF Track
    <3>2. since[r] \subseteq Cooling
      BY DEF HInv, CoolInv
    <3>3. Chosen(r) /\ Coolable(r) => Cand(r) \notin since[r]
      BY DEF HInv, CoolInv, CooldownHeld, Chosen
    <3> QED BY <1>3, <2>2, <3>1, <3>2, <3>3, ChosenOnce DEF HInv
  <2>3. CooldownHeld'
    BY <2>2 DEF CooldownHeld, Chosen
  <2> QED BY <1>1, <2>1, <2>3 DEF HInv, CoolInv
<1> QED BY <1>1, <1>2, <1>3

LEMMA CoolInit == MCInit => HInv
<1> SUFFICES ASSUME MCInit PROVE HInv
  OBVIOUS
<1>1. IInv
  BY IInvInit DEF MCInit
<1>2. CoolInv
  BY DEF MCInit, Init, CoolInv, CooldownHeld
<1> QED BY <1>1, <1>2 DEF HInv

\* A candidate that has been cooling ever since a request took its "now" is not
\* called for it unless it is the last of the chain, whichever requests cool it
\* again, succeed with it or fail over meanwhile.
THEOREM CooldownsHold == MCSpec => []CooldownHeld
<1>1. HInv => CooldownHeld
  BY DEF HInv, CoolInv
<1> QED BY <1>1, CoolInit, CoolNext, PTL DEF MCSpec

-----------------------------------------------------------------------------
(* The relay of the answer *)

BlockTypes == {"content_block_start", "content_block_delta", "content_block_stop"}
Inner == {"message_start", "content_block_start", "content_block_delta", "content_block_stop", "message_delta"}
Types == Inner \union {"message_stop", "error"}

\* An event, or a frame.  What belongs to a block carries no usage.
Event(e) ==
  /\ e = [type |-> e.type, index |-> e.index, kind |-> e.kind, val |-> e.val, usage |-> e.usage]
  /\ e.type \in BlockTypes \union {"error"} => e.usage = {}

\* A sequence of events of types in T.
Of(s, T) ==
  /\ \E X : s \in Seq(X)
  /\ \A i \in 1 .. Len(s) : Event(s[i]) /\ s[i].type \in T

LEMMA OfLen == ASSUME NEW s, NEW T, Of(s, T) PROVE Len(s) \in Nat /\ DOMAIN s = 1 .. Len(s)
<1>1. PICK X : s \in Seq(X)
  BY DEF Of
<1> QED BY <1>1

LEMMA OfEmpty == ASSUME NEW T PROVE Of(<<>>, T) /\ Len(<<>>) = 0
<1>1. <<>> \in Seq({}) /\ Len(<<>>) = 0
  OBVIOUS
<1> QED BY <1>1 DEF Of

LEMMA OfOne == ASSUME NEW T, NEW e, Event(e), e.type \in T PROVE Of(<<e>>, T) /\ Len(<<e>>) = 1 /\ <<e>>[1] = e
<1>1. <<e>> \in Seq({e}) /\ Len(<<e>>) = 1 /\ <<e>>[1] = e
  OBVIOUS
<1> HIDE DEF Event
<1>2. \A i \in 1 .. 1 : i = 1
  OBVIOUS
<1> QED BY <1>1, <1>2 DEF Of

LEMMA OfWider == ASSUME NEW s, NEW T, NEW U, Of(s, T), T \subseteq U PROVE Of(s, U)
BY DEF Of

LEMMA OfInner == ASSUME NEW s, Of(s, BlockTypes) PROVE Of(s, Inner)
BY OfWider DEF BlockTypes, Inner

LEMMA OfJoin ==
  ASSUME NEW q, NEW r, NEW T, Of(q, T), Of(r, T)
  PROVE  /\ Of(q \o r, T) /\ Len(q \o r) = Len(q) + Len(r)
         /\ \A i \in 1 .. Len(q) : (q \o r)[i] = q[i]
         /\ \A i \in 1 .. Len(r) : (q \o r)[Len(q) + i] = r[i]
<1>1. PICK X : q \in Seq(X)
  BY DEF Of
<1>2. PICK Y : r \in Seq(Y)
  BY DEF Of
<1> DEFINE Z == X \union Y
<1>3. q \in Seq(Z) /\ r \in Seq(Z)
  BY <1>1, <1>2
<1> HIDE DEF Z
<1>4. /\ q \o r \in Seq(Z) /\ Len(q \o r) = Len(q) + Len(r)
      /\ \A i \in 1 .. Len(q) + Len(r) : (q \o r)[i] = IF i <= Len(q) THEN q[i] ELSE r[i - Len(q)]
  BY <1>3, ConcatProperties
<1>5. Len(q) \in Nat /\ Len(r) \in Nat
  BY <1>3
<1> DEFINE w == q \o r
<1> HIDE DEF w
<1>6. \A i \in 1 .. Len(q) : w[i] = q[i]
  BY <1>4, <1>5 DEF w
<1>7. \A i \in 1 .. Len(r) : w[Len(q) + i] = r[i]
  <2> TAKE i \in 1 .. Len(r)
  <2>1. Len(q) + i \in 1 .. Len(q) + Len(r) /\ ~(Len(q) + i <= Len(q)) /\ (Len(q) + i) - Len(q) = i
    BY <1>5
  <2> QED BY <1>4, <2>1 DEF w
<1>8. ASSUME NEW i \in 1 .. Len(w) PROVE Event(w[i]) /\ w[i].type \in T
  <2>1. CASE i \in 1 .. Len(q)
    BY <1>6, <2>1 DEF Of
  <2>2. CASE i \notin 1 .. Len(q)
    <3>1. PICK j \in 1 .. Len(r) : i = Len(q) + j
      <4>1. i - Len(q) \in 1 .. Len(r) /\ i = Len(q) + (i - Len(q))
        BY <1>4, <1>5, <2>2 DEF w
      <4> QED BY <4>1
    <3>2. w[i] = r[j]
      BY <1>7, <3>1
    <3> QED BY <3>1, <3>2 DEF Of
  <2> QED BY <2>1, <2>2
<1>9. \E S : w \in Seq(S)
  BY <1>4 DEF w
<1> QED BY <1>4, <1>6, <1>7, <1>8, <1>9 DEF Of, w

LEMMA OfAppend ==
  ASSUME NEW q, NEW e, NEW T, Of(q, T), Event(e), e.type \in T
  PROVE  /\ Of(Append(q, e), T) /\ Len(Append(q, e)) = Len(q) + 1 /\ Append(q, e)[Len(q) + 1] = e
         /\ \A i \in 1 .. Len(q) : Append(q, e)[i] = q[i]
<1>1. PICK X : q \in Seq(X)
  BY DEF Of
<1> DEFINE Z == X \union {e}
           w == Append(q, e)
<1>2. q \in Seq(Z) /\ e \in Z
  BY <1>1
<1> HIDE DEF Z
<1>3. /\ w \in Seq(Z) /\ Len(w) = Len(q) + 1 /\ w[Len(q) + 1] = e /\ Len(q) \in Nat
      /\ \A i \in 1 .. Len(q) : w[i] = q[i]
  BY <1>2
<1> HIDE DEF w
<1>4. ASSUME NEW i \in 1 .. Len(w) PROVE Event(w[i]) /\ w[i].type \in T
  <2>1. i \in 1 .. Len(q) \/ i = Len(q) + 1
    BY <1>3
  <2> QED BY <1>3, <2>1 DEF Of
<1> QED BY <1>3, <1>4 DEF Of, w

LEMMA OfTail ==
  ASSUME NEW q, NEW T, Of(q, T), q # <<>>
  PROVE  /\ Of(Tail(q), T) /\ Len(Tail(q)) = Len(q) - 1 /\ Head(q) = q[1] /\ 1 \in 1 .. Len(q)
         /\ \A i \in 1 .. Len(q) - 1 : Tail(q)[i] = q[i + 1]
<1>1. PICK X : q \in Seq(X)
  BY DEF Of
<1> DEFINE w == Tail(q)
<1>2. /\ w \in Seq(X) /\ Len(w) = Len(q) - 1 /\ Head(q) = q[1] /\ Len(q) \in Nat /\ 1 \in 1 .. Len(q)
      /\ \A i \in 1 .. Len(q) - 1 : w[i] = q[i + 1]
  BY <1>1, HeadTailProperties
<1> HIDE DEF w
<1>3. ASSUME NEW i \in 1 .. Len(w) PROVE Event(w[i]) /\ w[i].type \in T
  <2>1. i + 1 \in 1 .. Len(q) /\ w[i] = q[i + 1]
    BY <1>2
  <2> QED BY <2>1 DEF Of
<1> QED BY <1>2, <1>3 DEF Of, w

-----------------------------------------------------------------------------
(* The decoders: an answer ends with its last event. *)

LEMMA MadeIs ==
  ASSUME NEW i, NEW k, NEW v, NEW u
  PROVE  /\ Event(MessageStart(u)) /\ MessageStart(u).type \in Inner
         /\ Event(BlockStart(i, k, v)) /\ BlockStart(i, k, v).type \in BlockTypes
         /\ Event(BlockDelta(i, k, v)) /\ BlockDelta(i, k, v).type \in BlockTypes
         /\ Event(BlockStop(i)) /\ BlockStop(i).type \in BlockTypes
         /\ Event(MessageDelta(u)) /\ MessageDelta(u).type \in Inner
         /\ Event(MessageStop(v, u)) /\ MessageStop(v, u).type = "message_stop"
         /\ Event(ErrorEvent) /\ ErrorEvent.type = "error"
BY DEF Event, Inner, BlockTypes, StreamEvent, MessageStart, BlockStart, BlockDelta, BlockStop,
       MessageDelta, MessageStop, ErrorEvent

\* One and two events.
LEMMA OfMade ==
  ASSUME NEW i, NEW k, NEW v, NEW u
  PROVE  /\ Of(<<BlockStart(i, k, v)>>, BlockTypes) /\ Of(<<BlockDelta(i, k, v)>>, BlockTypes)
         /\ Of(<<BlockStop(i)>>, BlockTypes) /\ Of(<<>>, BlockTypes)
         /\ Of(<<MessageStart(u)>>, Inner) /\ Of(<<MessageDelta(u)>>, Inner) /\ Of(<<>>, Inner)
<1> DEFINE a == MessageStart(u)
           b == BlockStart(i, k, v)
           c == BlockDelta(i, k, v)
           d == BlockStop(i)
           e == MessageDelta(u)
<1>1. /\ \A x \in {a, e} : Event(x) /\ x.type \in Inner
      /\ \A x \in {b, c, d} : Event(x) /\ x.type \in BlockTypes
  BY MadeIs
<1> HIDE DEF a, b, c, d, e
<1>2. (\A x \in {a, e} : Of(<<x>>, Inner)) /\ (\A x \in {b, c, d} : Of(<<x>>, BlockTypes))
  BY <1>1, OfOne
<1>3. Of(<<a>>, Inner) /\ Of(<<b>>, BlockTypes) /\ Of(<<c>>, BlockTypes) /\ Of(<<d>>, BlockTypes) /\ Of(<<e>>, Inner)
  BY <1>2
<1> QED BY <1>3, OfEmpty DEF a, b, c, d, e

LEMMA OfTwo ==
  ASSUME NEW a, NEW b, NEW T, Of(<<a>>, T), Of(<<b>>, T) PROVE Of(<<a, b>>, T)
<1>1. Event(a) /\ a.type \in T /\ Event(b) /\ b.type \in T
  <2>1. 1 \in 1 .. Len(<<a>>) /\ <<a>>[1] = a /\ 1 \in 1 .. Len(<<b>>) /\ <<b>>[1] = b
    OBVIOUS
  <2> QED BY <2>1 DEF Of
<1> DEFINE w == <<a, b>>
<1>2. w \in Seq({a, b}) /\ Len(w) = 2 /\ w[1] = a /\ w[2] = b
  OBVIOUS
<1> HIDE DEF w
<1>3. \A i \in 1 .. 2 : i = 1 \/ i = 2
  OBVIOUS
<1>4. \A i \in 1 .. Len(w) : Event(w[i]) /\ w[i].type \in T
  BY <1>1, <1>2, <1>3
<1> QED BY <1>2, <1>4 DEF Of, w

Tools(d) == {d.tools[t] : t \in DOMAIN d.tools}
DecFields == {"started", "text", "thinking", "tools", "next", "slot0", "usage", "finished", "deltaSent"}

DecOk(d) ==
  /\ DOMAIN d = DecFields
  /\ IsFiniteSet(Tools(d))

LEMMA ClosesTools == ASSUME NEW d, DecOk(d) PROVE Of(CloseAllTools(d), BlockTypes)
<1> DEFINE S == Tools(d)
           open == InOrder(S)
           n == Cardinality(S)
           w == [i \in 1 .. n |-> BlockStop(open[i])]
<1>1. n \in Nat
  BY FS_CardinalityType DEF DecOk
<1>2. CloseAllTools(d) = w
  <2>1. DOMAIN open = 1 .. n
    BY DEF InOrder
  <2> HIDE DEF open, n
  <2> QED BY <2>1 DEF CloseAllTools, Tools, open
<1> HIDE DEF n
<1>3. w \in Seq({w[i] : i \in 1 .. n}) /\ Len(w) = n
  BY <1>1
<1>4. \A i \in 1 .. n : w[i] = BlockStop(open[i])
  BY <1>1
<1> HIDE DEF w, open
<1>5. \A i \in 1 .. n : Event(w[i]) /\ w[i].type \in BlockTypes
  BY <1>4, MadeIs
<1> QED BY <1>2, <1>3, <1>5 DEF Of

LEMMA ClosesAll ==
  ASSUME NEW d, DecOk(d)
  PROVE  Of(CloseThinking(d), BlockTypes) /\ Of(CloseText(d), BlockTypes) /\ Of(CloseAll(d), BlockTypes)
<1>1. Of(CloseThinking(d), BlockTypes)
  <2>1. Of(<<BlockDelta(d.thinking, "signature", <<>>), BlockStop(d.thinking)>>, BlockTypes)
    BY OfMade, OfTwo
  <2> QED BY <2>1, OfMade DEF CloseThinking
<1>2. Of(CloseText(d), BlockTypes)
  BY OfMade DEF CloseText
<1> QED BY <1>1, <1>2, ClosesTools, OfJoin DEF CloseAll

\* A decoder after a step: nothing but its tools is looked at.
LEMMA DecStep ==
  ASSUME NEW d, NEW e, DecOk(d), DOMAIN e = DOMAIN d, e.tools = d.tools \/ e.tools = <<>>
  PROVE  DecOk(e)
<1>1. CASE e.tools = d.tools
  BY <1>1 DEF DecOk, Tools
<1>2. CASE e.tools = <<>>
  <2>1. Tools(e) = {}
    BY <1>2 DEF Tools
  <2> QED BY <2>1, FS_EmptySet DEF DecOk
<1> QED BY <1>1, <1>2

LEMMA DecAnnounces ==
  ASSUME NEW d, NEW e, NEW place, NEW i, DecOk(d), DOMAIN e = DOMAIN d, e.tools = Put(d.tools, place, i)
  PROVE  DecOk(e)
<1> DEFINE f == d.tools
           g == Put(f, place, i)
<1>1. DOMAIN g = DOMAIN f \union {place} /\ \A x \in DOMAIN g : g[x] = IF x = place THEN i ELSE f[x]
  BY DEF Put
<1> HIDE DEF g
<1>2. Tools(e) \subseteq Tools(d) \union {i}
  <2>1. Tools(e) = {g[x] : x \in DOMAIN g}
    BY DEF Tools, g
  <2>2. \A x \in DOMAIN g : g[x] \in Tools(d) \union {i}
    BY <1>1 DEF Tools
  <2> QED BY <2>1, <2>2
<1>3. IsFiniteSet(Tools(d) \union {i})
  BY FS_AddElement DEF DecOk
<1> QED BY <1>2, <1>3, FS_Subset DEF DecOk

\* What a payload of the OpenAI protocol other than the last is decoded to.
ChunkOk(r) == Of(r.evs, Inner) /\ DecOk(r.dec)

\* The usage, and what the decoder knows of its way, stay as they are.
SameMeter(d, e) == e.usage = d.usage /\ e.finished = d.finished /\ e.deltaSent = d.deltaSent /\ e.started = d.started

\* What one with content is decoded to.
PieceOk(d, r) == Of(r.evs, BlockTypes) /\ DecOk(r.dec) /\ SameMeter(d, r.dec)

LEMMA PieceIsChunk == ASSUME NEW d, NEW r, PieceOk(d, r) PROVE ChunkOk(r)
BY OfInner DEF PieceOk, ChunkOk

LEMMA ChunkMade ==
  ASSUME NEW d, NEW e, NEW s, DecOk(d), DOMAIN e = DOMAIN d, e.tools = d.tools \/ e.tools = <<>>, Of(s, Inner)
  PROVE  ChunkOk(Decoded(e, s))
<1>1. Decoded(e, s).evs = s /\ Decoded(e, s).dec = e
  BY DEF Decoded
<1> QED BY <1>1, DecStep DEF ChunkOk

LEMMA PieceMade ==
  ASSUME NEW d, NEW e, NEW s, DecOk(d), DOMAIN e = DOMAIN d, e.tools = d.tools \/ e.tools = <<>>, Of(s, BlockTypes),
         SameMeter(d, e)
  PROVE  PieceOk(d, Decoded(e, s))
<1>1. Decoded(e, s).evs = s /\ Decoded(e, s).dec = e
  BY DEF Decoded
<1> QED BY <1>1, DecStep DEF PieceOk

LEMMA Allots ==
  ASSUME NEW d, DecOk(d)
  PROVE  DOMAIN Allot(d) = DOMAIN d /\ Allot(d).tools = d.tools /\ SameMeter(d, Allot(d))
BY DEF Allot, DecOk, DecFields, SameMeter

LEMMA ReasoningOk == ASSUME NEW d, NEW c, DecOk(d) PROVE PieceOk(d, ReasoningEvents(d, c))
<1> DEFINE i == NextIndex(d)
           a == Allot(d)
           e == [a EXCEPT !.thinking = i]
<1>1. DOMAIN e = DOMAIN d /\ e.tools = d.tools /\ SameMeter(d, e) /\ SameMeter(d, d)
  BY Allots DEF DecOk, DecFields, SameMeter
<1>2. Of(<<BlockDelta(d.thinking, "thinking", c.frags)>>, BlockTypes)
  BY OfMade
<1>3. Of(<<BlockStart(i, "thinking", <<>>), BlockDelta(i, "thinking", c.frags)>>, BlockTypes)
  BY OfMade, OfTwo
<1> HIDE DEF i, a
<1>4. PieceOk(d, Decoded(d, <<BlockDelta(d.thinking, "thinking", c.frags)>>))
  BY <1>1, <1>2, PieceMade
<1>5. PieceOk(d, Decoded(e, <<BlockStart(i, "thinking", <<>>), BlockDelta(i, "thinking", c.frags)>>))
  BY <1>1, <1>3, PieceMade
<1> QED BY <1>4, <1>5 DEF ReasoningEvents, i, a

LEMMA TextOk == ASSUME NEW d, NEW c, DecOk(d) PROVE PieceOk(d, TextEvents(d, c))
<1> DEFINE i == NextIndex(d)
           a == Allot(d)
           e == [d EXCEPT !.thinking = NoIndex]
           f == [a EXCEPT !.thinking = NoIndex, !.text = i]
           s == CloseThinking(d) \o <<BlockDelta(d.text, "text", c.frags)>>
           t == CloseThinking(d) \o <<BlockStart(i, "text", <<>>), BlockDelta(i, "text", c.frags)>>
<1>1. /\ DOMAIN e = DOMAIN d /\ e.tools = d.tools /\ DOMAIN f = DOMAIN d /\ f.tools = d.tools
      /\ SameMeter(d, e) /\ SameMeter(d, f)
  BY Allots DEF DecOk, DecFields, SameMeter
<1>2. Of(<<BlockDelta(d.text, "text", c.frags)>>, BlockTypes)
  BY OfMade
<1>3. Of(<<BlockStart(i, "text", <<>>), BlockDelta(i, "text", c.frags)>>, BlockTypes)
  BY OfMade, OfTwo
<1>4. Of(s, BlockTypes) /\ Of(t, BlockTypes)
  BY <1>2, <1>3, ClosesAll, OfJoin
<1> HIDE DEF i, a, s, t, e, f
<1>5. PieceOk(d, Decoded(e, s)) /\ PieceOk(d, Decoded(f, t))
  BY <1>1, <1>4, PieceMade
<1> QED BY <1>5 DEF TextEvents, i, a, s, t, e, f

LEMMA ToolOk == ASSUME NEW d, NEW c, DecOk(d) PROVE PieceOk(d, NewToolCall(d, c)) /\ PieceOk(d, ToolFragment(d, c))
<1> DEFINE e == [d EXCEPT !.thinking = NoIndex, !.text = NoIndex, !.next = @ + 1,
                          !.tools = Put(@, c.at, d.next)]
           s == IF c.at \in DOMAIN d.tools THEN <<BlockStop(d.tools[c.at])>> ELSE <<>>
           t == <<BlockStart(d.next, "tool_use", <<c.call>>)>>
           u == IF c.frags = <<>> THEN <<>> ELSE <<BlockDelta(d.next, "tool_use", c.frags)>>
           v == IF c.at \in DOMAIN d.tools THEN <<BlockDelta(d.tools[c.at], "tool_use", c.frags)>> ELSE <<>>
           w == CloseThinking(d) \o CloseText(d) \o s \o t \o u
<1>1. DOMAIN e = DOMAIN d /\ e.tools = Put(d.tools, c.at, d.next) /\ SameMeter(d, e) /\ SameMeter(d, d)
  BY DEF DecOk, DecFields, SameMeter
<1>2. Of(s, BlockTypes) /\ Of(t, BlockTypes) /\ Of(u, BlockTypes) /\ Of(v, BlockTypes)
  BY OfMade
<1> HIDE DEF e, s, t, u, v
<1>3. Of(w, BlockTypes)
  BY <1>2, ClosesAll, OfJoin
<1> HIDE DEF w
<1>4. DecOk(e)
  BY <1>1, DecAnnounces
<1>5. NewToolCall(d, c) = Decoded(e, w)
  BY DEF NewToolCall, e, w, s, t, u
<1>6. PieceOk(d, NewToolCall(d, c))
  BY <1>1, <1>3, <1>4, <1>5 DEF PieceOk, Decoded
<1>7. PieceOk(d, Decoded(d, v))
  BY <1>1, <1>2, PieceMade
<1> QED BY <1>6, <1>7 DEF ToolFragment, v

LEMMA FinishOk == ASSUME NEW d, NEW c, DecOk(d) PROVE ChunkOk(FinishEvents(d, c)) /\ ChunkOk(UsageOnly(d, c))
<1> DEFINE usage == d.usage \union c.usage
           e == [d EXCEPT !.thinking = NoIndex, !.text = NoIndex, !.tools = <<>>,
                          !.finished = TRUE, !.usage = usage, !.deltaSent = @ \/ usage # {}]
           s == IF usage = {} THEN <<>> ELSE <<MessageDelta(usage)>>
           sends == d.finished /\ ~d.deltaSent
           f == [d EXCEPT !.usage = c.usage, !.deltaSent = @ \/ sends]
           t == IF sends THEN <<MessageDelta(c.usage)>> ELSE <<>>
           w == CloseAll(d) \o s
<1>1. DOMAIN e = DOMAIN d /\ e.tools = <<>> /\ DOMAIN f = DOMAIN d /\ f.tools = d.tools
  BY DEF DecOk, DecFields
<1>2. Of(s, Inner) /\ Of(t, Inner)
  BY OfMade
<1> HIDE DEF s, t, sends, usage
<1>3. Of(w, Inner)
  BY <1>2, ClosesAll, OfInner, OfJoin
<1> HIDE DEF w, e, f
<1>4. ChunkOk(Decoded(e, w)) /\ ChunkOk(Decoded(f, t))
  BY <1>1, <1>2, <1>3, ChunkMade
<1>5. FinishEvents(d, c) = Decoded(e, w)
  BY DEF FinishEvents, e, w, s, usage
<1>6. UsageOnly(d, c) = Decoded(f, t)
  BY DEF UsageOnly, f, t, sends
<1> QED BY <1>4, <1>5, <1>6

\* The parts of the OpenAI protocol but the last.
OpenAIPart(c) ==
  \/ c.part = "delta" /\ c.kind \in {"text", "thinking", "tool_use"}
  \/ c.part \in {"open", "finish", "usage"}

\* Those with content.
OpenAIPiece(c) ==
  \/ c.part = "open"
  \/ c.part = "delta" /\ c.kind \in {"text", "thinking", "tool_use"}

LEMMA DecodedParts == ASSUME NEW a, NEW b PROVE Decoded(a, b).dec = a /\ Decoded(a, b).evs = b
  BY DEF Decoded

LEMMA OpenAIPieces == ASSUME NEW d, NEW c, DecOk(d), OpenAIPiece(c) PROVE PieceOk(d, DecodeChunk(d, c))
<1>1. CASE c.part = "delta" /\ c.kind = "thinking"
  <2>1. DecodeChunk(d, c) = ReasoningEvents(d, c)
    BY <1>1 DEF DecodeChunk
  <2> QED BY <2>1, ReasoningOk
<1>2. CASE c.part = "delta" /\ c.kind = "text"
  <2>1. DecodeChunk(d, c) = TextEvents(d, c)
    BY <1>2 DEF DecodeChunk
  <2> QED BY <2>1, TextOk
<1>3. CASE c.part = "delta" /\ c.kind = "tool_use"
  <2>1. DecodeChunk(d, c) = ToolFragment(d, c)
    BY <1>3 DEF DecodeChunk
  <2> QED BY <2>1, ToolOk
<1>4. CASE c.part = "open"
  <2>1. DecodeChunk(d, c) = NewToolCall(d, c)
    BY <1>4 DEF DecodeChunk
  <2> QED BY <2>1, ToolOk
<1> QED BY <1>1, <1>2, <1>3, <1>4 DEF OpenAIPiece

LEMMA OpenAIChunk == ASSUME NEW d, NEW c, DecOk(d), OpenAIPart(c) PROVE ChunkOk(DecodeChunk(d, c))
<1>1. CASE OpenAIPiece(c)
  BY <1>1, OpenAIPieces, PieceIsChunk
<1>2. CASE c.part = "finish"
  <2>1. DecodeChunk(d, c) = FinishEvents(d, c)
    BY <1>2 DEF DecodeChunk
  <2> QED BY <2>1, FinishOk
<1>3. CASE c.part = "usage"
  <2>1. DecodeChunk(d, c) = UsageOnly(d, c)
    BY <1>3 DEF DecodeChunk
  <2> QED BY <2>1, FinishOk
<1>4. OpenAIPiece(c) \/ c.part = "finish" \/ c.part = "usage"
  BY DEF OpenAIPart, OpenAIPiece
<1> QED BY <1>1, <1>2, <1>3, <1>4

LEMMA OpenAIInner == ASSUME NEW d, NEW c, DecOk(d), OpenAIPart(c) PROVE ChunkOk(DecodeOpenAI(d, c))
<1> DEFINE e == [d EXCEPT !.started = TRUE]
           r == DecodeChunk(e, c)
           s == IF d.started THEN <<>> ELSE <<MessageStart({})>>
<1>1. DecOk(e)
  <2>1. DOMAIN e = DOMAIN d /\ e.tools = d.tools
    BY DEF DecOk, DecFields
  <2> QED BY <2>1, DecStep
<1> HIDE DEF e
<1>2. Of(r.evs, Inner) /\ DecOk(r.dec)
  BY <1>1, OpenAIChunk DEF ChunkOk
<1>3. Of(s, Inner)
  BY OfMade
<1> HIDE DEF r, s
<1>4. Of(s \o r.evs, Inner)
  BY <1>2, <1>3, OfJoin
<1>5. DecodeOpenAI(d, c) = Decoded(r.dec, s \o r.evs)
  <2>1. c.part # "done"
    BY DEF OpenAIPart
  <2> QED BY <2>1 DEF DecodeOpenAI, e, r, s
<1> QED BY <1>2, <1>4, <1>5 DEF ChunkOk, Decoded

\* A sequence that ends with its only end of a message.
Finishes(s) == \E q : Of(q, Inner) /\ s = q \o <<Ended>>

LEMMA OpenAIDone ==
  ASSUME NEW d, NEW c, DecOk(d), c.part = "done"
  PROVE  Finishes(DecodeOpenAI(d, c).evs) /\ DecOk(DecodeOpenAI(d, c).dec)
<1> DEFINE sends == d.finished /\ ~d.deltaSent
           e == [d EXCEPT !.thinking = NoIndex, !.text = NoIndex, !.tools = <<>>, !.deltaSent = @ \/ sends]
           s == IF sends THEN <<MessageDelta({})>> ELSE <<>>
           w == CloseAll(d) \o s
<1>1. DOMAIN e = DOMAIN d /\ e.tools = <<>>
  BY DEF DecOk, DecFields
<1>2. Of(s, Inner)
  BY OfMade
<1> HIDE DEF s, sends
<1>3. Of(w, Inner)
  BY <1>2, ClosesAll, OfInner, OfJoin
<1> HIDE DEF w, e
<1>4. DecOk(e)
  BY <1>1, DecStep
<1>5. DecodeOpenAI(d, c) = Decoded(e, w \o <<Ended>>)
  BY DEF DecodeOpenAI, DecodeDone, e, w, s, sends
<1>6. Finishes(w \o <<Ended>>)
  BY <1>3 DEF Finishes
<1> QED BY <1>4, <1>5, <1>6 DEF Decoded

\* The parts of the other two.
NoEnd == Inner \union {"error"}

AnthropicPart(c) == c.part \in {"created", "open", "delta", "close", "finish", "done", "error"}
ResponsesPart(c) == c.part \in {"created", "open", "delta", "close", "done", "error"}

LEMMA EndsAlone == Finishes(<<Ended>>) /\ Of(<<ErrorEvent>>, NoEnd)
<1>1. <<Ended>> = <<>> \o <<Ended>>
  OBVIOUS
<1>2. Finishes(<<Ended>>)
  BY <1>1, OfEmpty DEF Finishes
<1>3. Event(ErrorEvent) /\ ErrorEvent.type \in NoEnd
  BY MadeIs DEF NoEnd
<1> QED BY <1>2, <1>3, OfOne

LEMMA EndsLater == ASSUME NEW q, NEW s, Of(q, Inner), Finishes(s) PROVE Finishes(q \o s)
<1>1. PICK r : Of(r, Inner) /\ s = r \o <<Ended>>
  BY DEF Finishes
<1> DEFINE e == <<Ended>>
<1>2. \E X : q \in Seq(X) /\ r \in Seq(X) /\ e \in Seq(X)
  <2>1. PICK A : q \in Seq(A)
    BY DEF Of
  <2>2. PICK B : r \in Seq(B)
    BY <1>1 DEF Of
  <2> DEFINE Z == A \union B \union {Ended}
  <2>3. q \in Seq(Z) /\ r \in Seq(Z) /\ e \in Seq(Z)
    BY <2>1, <2>2
  <2> QED BY <2>3
<1>3. PICK X : q \in Seq(X) /\ r \in Seq(X) /\ e \in Seq(X)
  BY <1>2
<1> HIDE DEF e
<1>4. q \o (r \o e) = (q \o r) \o e
  BY <1>3, ConcatAssociative
<1>5. Of(q \o r, Inner)
  BY <1>1, OfJoin
<1> QED BY <1>1, <1>4, <1>5 DEF Finishes, e

LEMMA InnerNoEnd == ASSUME NEW s, Of(s, Inner) PROVE Of(s, NoEnd)
BY OfWider DEF NoEnd

\* What a payload is decoded to: the end of the message with the last one, after everything else.
Ends(c, s) ==
  /\ c.part = "done" => Finishes(s)
  /\ c.part # "done" => Of(s, NoEnd)

LEMMA AnthropicEnds == ASSUME NEW d, NEW c, AnthropicPart(c) PROVE Ends(c, DecodeAnthropic(d, c).evs)
<1> DEFINE evs == DecodeAnthropic(d, c).evs
           a == <<MessageStart(c.usage)>>
           b == <<BlockStart(c.at, c.kind, Header(c.kind, c.call, c.frags))>>
           e == <<BlockDelta(c.at, c.kind, c.frags)>>
           f == <<BlockStop(c.at)>>
           g == <<MessageDelta(d \union c.usage)>>
<1>1. Of(a, NoEnd) /\ Of(b, NoEnd) /\ Of(e, NoEnd) /\ Of(f, NoEnd) /\ Of(g, NoEnd)
  BY OfMade, OfInner, InnerNoEnd
<1> HIDE DEF a, b, e, f, g
<1>2. /\ c.part = "created" => evs = a
      /\ c.part = "open" => evs = b
      /\ c.part = "delta" => evs = e
      /\ c.part = "close" => evs = f
      /\ c.part = "finish" => evs = g
      /\ c.part = "done" => evs = <<Ended>>
      /\ c.part = "error" => evs = <<ErrorEvent>>
  BY DEF DecodeAnthropic, Decoded, a, b, e, f, g
<1> HIDE DEF evs
<1>3. Ends(c, evs)
  BY <1>1, <1>2, EndsAlone DEF AnthropicPart, Ends
<1> QED BY <1>3 DEF evs

LEMMA ItemEnds == ASSUME NEW d, NEW c, ResponsesPart(c) PROVE Ends(c, DecodeItem(d, c).evs)
<1> DEFINE evs == DecodeItem(d, c).evs
<1> SUFFICES Ends(c, evs)
  OBVIOUS
<1>1. CASE c.part = "created"
  <2>1. evs = <<>>
    BY <1>1 DEF DecodeItem, Decoded
  <2>2. Of(<<>>, NoEnd)
    BY OfEmpty
  <2> QED BY <1>1, <2>1, <2>2 DEF Ends
<1>2. CASE c.part = "open"
  <2> DEFINE i == NextIndex(d)
             a == <<BlockStart(i, c.kind, Header(c.kind, c.call, <<>>))>>
             b == IF c.frags = <<>> THEN <<>> ELSE <<BlockDelta(i, c.kind, c.frags)>>
  <2>1. Of(a, Inner) /\ Of(b, Inner)
    BY OfMade, OfInner
  <2>2. evs = a \o b
    BY <1>2 DEF DecodeItem, ItemAdded, Decoded
  <2> HIDE DEF a, b
  <2>3. Of(a \o b, NoEnd)
    BY <2>1, OfJoin, InnerNoEnd
  <2> QED BY <1>2, <2>2, <2>3 DEF Ends
<1>3. CASE c.part = "delta"
  <2> DEFINE a == <<BlockDelta(d.items[c.at].index, c.kind, c.frags)>>
  <2>1. Of(a, NoEnd) /\ Of(<<>>, NoEnd)
    BY OfMade, OfInner, InnerNoEnd
  <2>2. evs = a \/ evs = <<>>
    BY <1>3 DEF DecodeItem, ItemDelta, Decoded
  <2> HIDE DEF evs
  <2> QED BY <1>3, <2>1, <2>2 DEF Ends
<1>4. CASE c.part = "close"
  <2> DEFINE it == d.items[c.at]
             behind == it.kind = "tool_use" /\ ~it.argsSent /\ c.frags # <<>>
             a == IF behind THEN <<BlockDelta(it.index, it.kind, c.frags)>> ELSE <<>>
             b == <<BlockStop(it.index)>>
  <2>1. Of(a, Inner) /\ Of(b, Inner) /\ Of(<<>>, NoEnd)
    BY OfMade, OfInner, InnerNoEnd
  <2>2. evs = a \o b \/ evs = <<>>
    BY <1>4 DEF DecodeItem, ItemDone, Decoded
  <2> HIDE DEF a, b, evs
  <2>3. Of(a \o b, NoEnd)
    BY <2>1, OfJoin, InnerNoEnd
  <2> QED BY <1>4, <2>1, <2>2, <2>3 DEF Ends
<1>5. CASE c.part = "done"
  <2> DEFINE z == MessageDelta(c.usage)
  <2>1. evs = <<z, Ended>>
    BY <1>5 DEF DecodeItem, Decoded
  <2>2. Of(<<z>>, Inner)
    BY OfMade
  <2> HIDE DEF z, evs
  <2>3. <<z, Ended>> = <<z>> \o <<Ended>>
    OBVIOUS
  <2>4. Finishes(<<z>> \o <<Ended>>)
    BY <2>2 DEF Finishes
  <2> QED BY <1>5, <2>1, <2>3, <2>4 DEF Ends
<1>6. CASE c.part = "error"
  <2>1. evs = <<ErrorEvent>>
    BY <1>6 DEF DecodeItem, Decoded
  <2> QED BY <1>6, <2>1, EndsAlone DEF Ends
<1> HIDE DEF evs
<1> QED BY <1>1, <1>2, <1>3, <1>4, <1>5, <1>6 DEF ResponsesPart

LEMMA ResponsesEnds == ASSUME NEW d, NEW c, ResponsesPart(c) PROVE Ends(c, DecodeResponses(d, c).evs)
<1> DEFINE starts == c.part \in {"created", "open"} /\ ~d.started
           e == [d EXCEPT !.started = @ \/ starts]
           r == DecodeItem(e, c)
           s == IF starts THEN <<MessageStart({})>> ELSE <<>>
<1>1. Of(s, Inner)
  BY OfMade
<1>2. DecodeResponses(d, c).evs = s \o r.evs
  BY DEF DecodeResponses, Decoded
<1>3. Ends(c, r.evs)
  BY ItemEnds
<1> HIDE DEF r, s
<1>4. CASE c.part = "done"
  <2>1. Finishes(s \o r.evs)
    BY <1>1, <1>3, <1>4, EndsLater DEF Ends
  <2> QED BY <1>2, <1>4, <2>1 DEF Ends
<1>5. CASE c.part # "done"
  <2>1. Of(s \o r.evs, NoEnd)
    BY <1>1, <1>3, <1>5, OfJoin, InnerNoEnd DEF Ends
  <2> QED BY <1>2, <1>5, <2>1 DEF Ends
<1> QED BY <1>4, <1>5

\* What an upstream of the format f may send.
Sendable(f, c) ==
  \/ f = "openai" /\ (OpenAIPart(c) \/ c.part = "done")
  \/ f = "anthropic" /\ AnthropicPart(c)
  \/ f = "responses" /\ ResponsesPart(c)

LEMMA DecodeIs ==
  ASSUME NEW f, NEW d, NEW c, Sendable(f, c), f = "openai" => DecOk(d)
  PROVE  Ends(c, Decode(f, d, c).evs) /\ (f = "openai" => DecOk(Decode(f, d, c).dec))
<1>1. CASE f = "openai"
  <2>1. Decode(f, d, c) = DecodeOpenAI(d, c)
    BY <1>1 DEF Decode
  <2>2. CASE OpenAIPart(c)
    <3>1. ChunkOk(DecodeOpenAI(d, c)) /\ c.part # "done"
      <4>1. c.part # "done"
        BY <2>2 DEF OpenAIPart
      <4> QED BY <1>1, <2>2, <4>1, OpenAIInner
    <3>2. Of(DecodeOpenAI(d, c).evs, NoEnd)
      BY <3>1, InnerNoEnd DEF ChunkOk
    <3> QED BY <1>1, <2>1, <3>1, <3>2 DEF Ends, ChunkOk
  <2>3. CASE c.part = "done"
    BY <1>1, <2>1, <2>3, OpenAIDone DEF Ends
  <2> QED BY <1>1, <2>2, <2>3 DEF Sendable
<1>2. CASE f = "anthropic"
  <2>1. Decode(f, d, c) = DecodeAnthropic(d, c)
    BY <1>2 DEF Decode
  <2> QED BY <1>2, <2>1, AnthropicEnds DEF Sendable
<1>3. CASE f = "responses"
  <2>1. Decode(f, d, c) = DecodeResponses(d, c)
    BY <1>3 DEF Decode
  <2> QED BY <1>3, <2>1, ResponsesEnds DEF Sendable
<1> QED BY <1>1, <1>2, <1>3 DEF Sendable

-----------------------------------------------------------------------------
(* The upstream *)

UpShape == {"phase", "blocks", "usage"}
Phases  == {"new", "body", "finished", "ended", "failed"}

\* Nothing is open in an answer that is finished; a tool call of the OpenAI protocol does not end by itself.
UpOk ==
  /\ DOMAIN up = UpShape /\ up.phase \in Phases
  /\ up.phase = "new" => up.blocks = <<>>
  /\ format.up = "openai" => up.phase # "failed"
  /\ format.up # "openai" /\ up.phase \in {"finished", "ended"} => OpenNow = {}

\* What the payload c does to the upstream's phase, and what it adds to the usage reported.
Moves(c) ==
  /\ up'.usage = up.usage \union c.usage
  /\ c.part \in {"open", "delta", "close"} =>
       /\ c.usage = {}
       /\ \/ up.phase \in {"new", "body"} /\ up'.phase = "body" /\ (up.phase = "new" => format.up = "openai")
          \/ up.phase = "failed" /\ up'.phase = "failed" /\ c.part # "open"
  /\ c.part = "created" => up.phase = "new" /\ up'.phase = "body" /\ (format.up = "responses" => c.usage = {})
  /\ c.part = "finish" => up.phase = "body" /\ up'.phase = "finished" /\ (format.up = "anthropic" => c.usage = {"out"})
  /\ c.part = "usage" => up.phase = "finished" /\ up'.phase = "finished" /\ up.usage = {} /\ c.usage = Full
  /\ c.part = "done" => /\ up'.phase = "ended" /\ up.phase \in {"new", "body", "finished"}
                        /\ c.usage = IF format.up = "responses" THEN Full ELSE {}
                        /\ (format.up = "anthropic" => up.phase = "finished")
                        /\ (format.up = "responses" => up.phase = "body")
  /\ c.part = "error" => up.phase \in {"new", "body", "finished"} /\ up'.phase = "failed" /\ c.usage = {}

\* A step of the upstream: an answer goes on until the payload that ends it.
UpStep(c) ==
  /\ Sendable(format.up, c) /\ Scan(c)
  /\ up.phase # "ended" /\ (c.part = "done" <=> up'.phase = "ended")
  /\ UpOk' /\ Moves(c)

LEMMA ScanKeeps == ASSUME NEW c, Scan(c) PROVE format' = format
BY DEF Scan

LEMMA StepIs ==
  ASSUME NEW c, Sendable(format.up, c), Scan(c), UpOk, Moves(c), DOMAIN up' = UpShape,
         \/ format.up = "openai" \/ up'.phase \notin {"finished", "ended"}
         \/ OpenNow = {} /\ up'.blocks = up.blocks
  PROVE  UpStep(c)
<1>1. format' = format
  BY ScanKeeps
<1>2. c.part \in {"open", "delta", "close", "created", "finish", "usage", "done", "error"}
  BY DEF Sendable, OpenAIPart, AnthropicPart, ResponsesPart
<1>3. /\ up'.phase \in Phases \ {"new"} /\ (up'.phase = "failed" => c.part = "error" \/ up.phase = "failed")
      /\ up.phase # "ended" /\ (c.part = "done" <=> up'.phase = "ended")
  BY <1>2 DEF Moves, Phases
<1>4. format.up = "openai" => c.part # "error"
  BY DEF Sendable, OpenAIPart
<1>5. UpOk'
  BY <1>1, <1>3, <1>4 DEF UpOk, OpenNow
<1> QED BY <1>3, <1>5 DEF UpStep

LEMMA SendIs ==
  ASSUME NEW part, NEW phase, NEW usage, UpOk, Send(part, phase, usage)
  PROVE  \E c : /\ c.part = part /\ c.usage = usage /\ Scan(c) /\ up'.phase = phase /\ up'.blocks = up.blocks
                /\ DOMAIN up' = UpShape /\ up'.usage = up.usage \union usage
<1> DEFINE c == Payload(part, 0, "", 0, <<>>, usage)
<1>1. c.part = part /\ c.usage = usage
  BY DEF Payload
<1>2. up' = [up EXCEPT !.phase = phase, !.usage = @ \union usage] /\ Scan(c)
  BY DEF Send
<1> HIDE DEF c
<1>3. up'.phase = phase /\ up'.blocks = up.blocks /\ DOMAIN up' = UpShape /\ up'.usage = up.usage \union usage
  BY <1>2 DEF UpOk, UpShape
<1> QED BY <1>1, <1>2, <1>3

\* A payload with content, or that opens or closes a block, says nothing of the usage.
Content(c, part) == c.part = part /\ c.usage = {} /\ Scan(c) /\ DOMAIN up' = UpShape /\ up'.usage = up.usage

LEMMA OpenIs ==
  ASSUME NEW place, NEW what, NEW frags, UpOk, SendOpen(place, what, frags)
  PROVE  \E c : Content(c, "open") /\ up'.phase = "body"
<1> DEFINE c == Payload("open", place, what, NewCall(what), frags, {})
           w == WithBlock(place, what)
<1>1. c.part = "open" /\ c.usage = {}
  BY DEF Payload
<1>2. up' = [up EXCEPT !.phase = "body", !.blocks = w] /\ Scan(c)
  BY DEF SendOpen
<1> HIDE DEF c, w
<1>3. up'.phase = "body" /\ DOMAIN up' = UpShape /\ up'.usage = up.usage
  BY <1>2 DEF UpOk, UpShape
<1> QED BY <1>1, <1>2, <1>3 DEF Content

LEMMA DeltaIs ==
  ASSUME NEW b, UpOk, SendDelta(b)
  PROVE  \E c : Content(c, "delta") /\ up'.phase = up.phase
<1> DEFINE c == Payload("delta", up.blocks[b].at, up.blocks[b].kind, 0, Piece, {})
<1>1. c.part = "delta" /\ c.usage = {}
  BY DEF Payload
<1>2. Scan(c) /\ up' = up
  BY DEF SendDelta
<1> HIDE DEF c
<1> QED BY <1>1, <1>2 DEF UpOk, Content

LEMMA CloseIs ==
  ASSUME NEW b, NEW frags, UpOk, SendClose(b, frags)
  PROVE  \E c : Content(c, "close") /\ up'.phase = up.phase
<1> DEFINE c == Payload("close", up.blocks[b].at, up.blocks[b].kind, 0, frags, {})
<1>1. c.part = "close" /\ c.usage = {}
  BY DEF Payload
<1>2. Scan(c) /\ up' = [up EXCEPT !.blocks[b].open = FALSE]
  BY DEF SendClose
<1> HIDE DEF c
<1>3. up'.phase = up.phase /\ DOMAIN up' = UpShape /\ up'.usage = up.usage
  BY <1>2 DEF UpOk, UpShape
<1> QED BY <1>1, <1>2, <1>3 DEF Content

LEMMA ContentMoves ==
  ASSUME NEW part \in {"open", "delta", "close"}, NEW c, Content(c, part),
         \/ up.phase \in {"new", "body"} /\ up'.phase = "body" /\ (up.phase = "new" => format.up = "openai")
         \/ up.phase = "failed" /\ up'.phase = "failed" /\ c.part # "open"
  PROVE  Moves(c)
<1>1. c.part \in {"open", "delta", "close"}
  BY DEF Content
<1>2. c.part \notin {"created", "finish", "usage", "done", "error"}
  BY <1>1
<1> QED BY <1>1, <1>2 DEF Content, Moves

\* Nothing is open before there is a block.
LEMMA NoneOpen == ASSUME UpOk, NEW b \in OpenNow PROVE up.phase # "new"
<1>1. DOMAIN <<>> = {}
  OBVIOUS
<1> QED BY <1>1 DEF UpOk, OpenNow

LEMMA OpenAIStep == ASSUME UpOk, format.up = "openai", OpenAISends PROVE \E c : UpStep(c)
<1>1. ASSUME NEW part, NEW phase, NEW usage, Send(part, phase, usage),
             \/ part = "finish" /\ phase = "finished" /\ up.phase = "body"
             \/ part = "usage" /\ phase = "finished" /\ up.phase = "finished" /\ up.usage = {} /\ usage = Full
             \/ part = "done" /\ phase = "ended" /\ up.phase \in {"new", "body", "finished"} /\ usage = {}
      PROVE  \E c : UpStep(c)
  <2>1. PICK c : /\ c.part = part /\ c.usage = usage /\ Scan(c) /\ up'.phase = phase /\ up'.blocks = up.blocks
                 /\ DOMAIN up' = UpShape /\ up'.usage = up.usage \union usage
    BY <1>1, SendIs
  <2>2. Sendable(format.up, c)
    BY <1>1, <2>1 DEF Sendable, OpenAIPart
  <2>3. Moves(c)
    BY <1>1, <2>1 DEF Moves
  <2> QED BY <2>1, <2>2, <2>3, StepIs
<1>2. ASSUME NEW place, NEW frags, SendOpen(place, "tool_use", frags), up.phase \in {"new", "body"}
      PROVE  \E c : UpStep(c)
  <2>1. PICK c : Content(c, "open") /\ up'.phase = "body"
    BY <1>2, OpenIs
  <2>2. Sendable(format.up, c)
    BY <2>1 DEF Sendable, OpenAIPart, Content
  <2>3. Moves(c)
    BY <1>2, <2>1, ContentMoves
  <2> QED BY <2>1, <2>2, <2>3, StepIs DEF Content
<1>3. ASSUME NEW what \in {"text", "thinking"}, up' = [up EXCEPT !.phase = "body"], up.phase \in {"new", "body"},
             Scan(Payload("delta", 0, what, 0, Piece, {}))
      PROVE  \E c : UpStep(c)
  <2> DEFINE c == Payload("delta", 0, what, 0, Piece, {})
  <2>1. c.part = "delta" /\ c.kind = what /\ c.usage = {}
    BY DEF Payload
  <2>2. Scan(c)
    BY <1>3
  <2> HIDE DEF c
  <2>3. up'.phase = "body" /\ Content(c, "delta")
    BY <1>3, <2>1, <2>2 DEF UpOk, UpShape, Content
  <2>4. Sendable(format.up, c)
    BY <2>1 DEF Sendable, OpenAIPart
  <2>5. Moves(c)
    BY <1>3, <2>3, ContentMoves
  <2> QED BY <2>3, <2>4, <2>5, StepIs DEF Content
<1>4. ASSUME NEW b \in OpenNow, up' = up, up.phase \in {"new", "body"},
             Scan(Payload("delta", up.blocks[b].at, "tool_use", 0, Piece, {}))
      PROVE  \E c : UpStep(c)
  <2> DEFINE c == Payload("delta", up.blocks[b].at, "tool_use", 0, Piece, {})
  <2>1. c.part = "delta" /\ c.kind = "tool_use" /\ c.usage = {}
    BY DEF Payload
  <2>2. Scan(c)
    BY <1>4
  <2> HIDE DEF c
  <2>3. up.phase = "body"
    BY <1>4, NoneOpen
  <2>4. Content(c, "delta")
    BY <1>4, <2>1, <2>2 DEF UpOk, Content
  <2>5. Sendable(format.up, c)
    BY <2>1 DEF Sendable, OpenAIPart
  <2>6. Moves(c)
    BY <1>4, <2>3, <2>4, ContentMoves
  <2> QED BY <2>4, <2>5, <2>6, StepIs DEF Content
<1>5. CASE up.phase \in {"new", "body"} /\ \E what \in {"text", "thinking"} :
             /\ up' = [up EXCEPT !.phase = "body"]
             /\ Scan(Payload("delta", 0, what, 0, Piece, {}))
  BY <1>3, <1>5
<1>6. CASE up.phase \in {"new", "body"} /\ \E place \in 0..(MaxBlocks - 1), frags \in {<<>>, Piece} :
             SendOpen(place, "tool_use", frags)
  BY <1>2, <1>6
<1>7. CASE up.phase \in {"new", "body"} /\ \E b \in OpenNow :
             /\ Scan(Payload("delta", up.blocks[b].at, "tool_use", 0, Piece, {}))
             /\ UNCHANGED up
  BY <1>4, <1>7
<1>8. CASE up.phase = "body" /\ \E usage \in {{}, Full} : Send("finish", "finished", usage)
  BY <1>1, <1>8
<1>9. CASE up.phase = "finished" /\ up.usage = {} /\ Send("usage", "finished", Full)
  BY <1>1, <1>9
<1>10. CASE up.phase \in {"new", "body", "finished"} /\ Send("done", "ended", {})
  BY <1>1, <1>10
<1> QED BY <1>5, <1>6, <1>7, <1>8, <1>9, <1>10 DEF OpenAISends, Body

\* The two protocols with blocks that the upstream opens and closes.
ByBlocks == format.up \in {"anthropic", "responses"}

LEMMA BlockSends ==
  ASSUME UpOk, ByBlocks, NEW part, NEW phase, NEW usage, Send(part, phase, usage),
         \/ part = "created" /\ phase = "body" /\ up.phase = "new" /\ (format.up = "responses" => usage = {})
         \/ part = "finish" /\ phase = "finished" /\ up.phase = "body" /\ format.up = "anthropic" /\ usage = {"out"}
         \/ part = "done" /\ phase = "ended" /\ format.up = "anthropic" /\ up.phase = "finished" /\ usage = {}
         \/ part = "done" /\ phase = "ended" /\ format.up = "responses" /\ up.phase = "body" /\ usage = Full
         \/ part = "error" /\ phase = "failed" /\ up.phase \in {"new", "body", "finished"} /\ usage = {},
         phase \in {"finished", "ended"} => OpenNow = {}
  PROVE  \E c : UpStep(c)
<1>1. PICK c : /\ c.part = part /\ c.usage = usage /\ Scan(c) /\ up'.phase = phase /\ up'.blocks = up.blocks
               /\ DOMAIN up' = UpShape /\ up'.usage = up.usage \union usage
  BY SendIs
<1>2. Sendable(format.up, c)
  BY <1>1 DEF Sendable, AnthropicPart, ResponsesPart, ByBlocks
<1>3. Moves(c)
  BY <1>1 DEF Moves
<1> QED BY <1>1, <1>2, <1>3, StepIs

LEMMA BlockOpens ==
  ASSUME UpOk, ByBlocks, up.phase = "body", NEW place, NEW what, NEW frags, SendOpen(place, what, frags)
  PROVE  \E c : UpStep(c)
<1>1. PICK c : Content(c, "open") /\ up'.phase = "body"
  BY OpenIs
<1>2. Sendable(format.up, c)
  BY <1>1 DEF Sendable, AnthropicPart, ResponsesPart, ByBlocks, Content
<1>3. Moves(c)
  BY <1>1, ContentMoves
<1> QED BY <1>1, <1>2, <1>3, StepIs DEF Content

LEMMA BlockGoesOn ==
  ASSUME UpOk, ByBlocks, NEW b \in OpenNow, SendDelta(b) \/ \E frags : SendClose(b, frags)
  PROVE  \E c : UpStep(c)
<1>1. up.phase \in {"body", "failed"}
  BY NoneOpen DEF UpOk, ByBlocks, Phases
<1>2. PICK c : (Content(c, "delta") \/ Content(c, "close")) /\ up'.phase = up.phase
  <2>1. CASE SendDelta(b)
    BY <2>1, DeltaIs
  <2>2. CASE \E frags : SendClose(b, frags)
    BY <2>2, CloseIs
  <2> QED BY <2>1, <2>2
<1>3. Sendable(format.up, c)
  BY <1>2 DEF Sendable, AnthropicPart, ResponsesPart, ByBlocks, Content
<1>4. Moves(c)
  <2>1. c.part # "open"
    BY <1>2 DEF Content
  <2> QED BY <1>1, <1>2, <2>1, ContentMoves
<1> QED BY <1>1, <1>2, <1>3, <1>4, StepIs DEF Content

LEMMA AnthropicStep == ASSUME UpOk, format.up = "anthropic", AnthropicSends PROVE \E c : UpStep(c)
<1>0. ByBlocks
  BY DEF ByBlocks
<1>1. CASE up.phase = "new" /\ Send("created", "body", {"in"})
  BY <1>0, <1>1, BlockSends
<1>2. CASE /\ Body
           /\ \E what \in Kinds, frags \in {<<>>, Piece} : SendOpen(Len(up.blocks), what, frags)
  BY <1>0, <1>2, BlockOpens DEF Body
<1>3. CASE /\ Body /\ \E what \in Kinds : /\ up' = [up EXCEPT !.blocks = WithBlock(Len(up.blocks), what)]
                                          /\ Scan(Payload("delta", Len(up.blocks), what, 0, Piece, {}))
  <2>1. PICK what : /\ up' = [up EXCEPT !.blocks = WithBlock(Len(up.blocks), what)]
                    /\ Scan(Payload("delta", Len(up.blocks), what, 0, Piece, {}))
    BY <1>3
  <2> DEFINE c == Payload("delta", Len(up.blocks), what, 0, Piece, {})
             w == WithBlock(Len(up.blocks), what)
  <2>2. c.part = "delta" /\ c.usage = {}
    BY DEF Payload
  <2>3. Scan(c) /\ up' = [up EXCEPT !.blocks = w]
    BY <2>1
  <2> HIDE DEF c, w
  <2>4. up'.phase = "body" /\ up.phase = "body" /\ Content(c, "delta")
    BY <1>3, <2>2, <2>3 DEF UpOk, UpShape, Body, Content
  <2>5. Sendable(format.up, c)
    BY <2>2 DEF Sendable, AnthropicPart
  <2>6. Moves(c)
    BY <2>4, ContentMoves
  <2> QED BY <2>4, <2>5, <2>6, StepIs DEF Content
<1>4. CASE Body /\ OpenNow = {} /\ Send("finish", "finished", {"out"})
  BY <1>0, <1>4, BlockSends DEF Body
<1>5. CASE \E b \in OpenNow : SendDelta(b) \/ SendClose(b, <<>>)
  BY <1>0, <1>5, BlockGoesOn
<1>6. CASE up.phase = "finished" /\ Send("done", "ended", {})
  <2>1. OpenNow = {}
    BY <1>6 DEF UpOk
  <2> QED BY <1>0, <1>6, <2>1, BlockSends
<1>7. CASE up.phase \in {"body", "finished"} /\ Send("error", "failed", {})
  BY <1>0, <1>7, BlockSends
<1> QED BY <1>1, <1>2, <1>3, <1>4, <1>5, <1>6, <1>7 DEF AnthropicSends

LEMMA ResponsesStep == ASSUME UpOk, format.up = "responses", ResponsesSends PROVE \E c : UpStep(c)
<1>0. ByBlocks
  BY DEF ByBlocks
<1>1. CASE up.phase = "new" /\ Send("created", "body", {})
  BY <1>0, <1>1, BlockSends
<1>2. CASE /\ Body
           /\ \E what \in ItemKinds, frags \in {<<>>, Piece} : SendOpen(Len(up.blocks) + 1, what, frags)
  BY <1>0, <1>2, BlockOpens DEF Body
<1>3. CASE Body /\ OpenNow = {} /\ Send("done", "ended", Full)
  BY <1>0, <1>3, BlockSends DEF Body
<1>4. CASE \E b \in OpenNow : SendDelta(b) \/ \E frags : SendClose(b, frags)
  BY <1>0, <1>4, BlockGoesOn
<1>5. CASE up.phase \in {"new", "body"} /\ Send("error", "failed", {})
  BY <1>0, <1>5, BlockSends
<1> QED BY <1>1, <1>2, <1>3, <1>4, <1>5 DEF ResponsesSends

LEMMA UpstreamStep == ASSUME UpOk, UpstreamSends PROVE \E c : UpStep(c)
BY OpenAIStep, AnthropicStep, ResponsesStep DEF UpstreamSends

-----------------------------------------------------------------------------
(* The encoders: a frame that ends the answer for every event that does, and no other. *)

EncFields == {"started", "completed", "usage", "remap", "next", "blocks", "items"}

\* The Responses encoder, before and after an event inside the answer.
EncLike(e, r) ==
  /\ DOMAIN e = EncFields /\ DOMAIN r = EncFields
  /\ r.completed = e.completed /\ r.started = e.started /\ r.usage = e.usage

InnerEncoded(e, r) == Of(r.frames, BlockTypes) /\ EncLike(e, r.enc)

LEMMA InnerMade == ASSUME NEW e, NEW r, NEW s, EncLike(e, r), Of(s, BlockTypes) PROVE InnerEncoded(e, Encoded(r, s))
BY DEF InnerEncoded, Encoded

LEMMA RemapLike == ASSUME NEW e, NEW i, DOMAIN e = EncFields PROVE EncLike(e, Remap(e, i))
BY DEF Remap, EncLike, EncFields

LEMMA BlocksLike ==
  ASSUME NEW e, NEW r, NEW v, EncLike(e, r)
  PROVE  EncLike(e, [r EXCEPT !.blocks = v]) /\ EncLike(e, [r EXCEPT !.items = v])
BY DEF EncLike, EncFields

LEMMA StartEncoded ==
  ASSUME NEW e, NEW r, NEW i, NEW ev, EncLike(e, r) PROVE InnerEncoded(e, BlockStartFrames(r, i, ev))
<1> DEFINE tool  == IF ev.kind = "tool_use" THEN ev.val[1] ELSE 0
           input == IF ev.kind = "tool_use" THEN Tail(ev.val) ELSE <<>>
           v == Put(r.blocks, i, Block(ev.kind, tool, input))
           a == <<BlockStart(i, ev.kind, Header(ev.kind, tool, <<>>))>>
           b == IF input = <<>> THEN <<>> ELSE <<BlockDelta(i, ev.kind, input)>>
           q == [r EXCEPT !.blocks = v]
<1>1. Of(a, BlockTypes) /\ Of(b, BlockTypes) /\ Of(<<>>, BlockTypes)
  BY OfMade
<1>2. BlockStartFrames(r, i, ev) =
        IF ev.kind \notin ItemKinds THEN Encoded(r, <<>>) ELSE Encoded(q, a \o b)
  BY DEF BlockStartFrames
<1> HIDE DEF a, b, v
<1>3. EncLike(e, q)
  BY BlocksLike
<1> HIDE DEF q
<1>4. Of(a \o b, BlockTypes)
  BY <1>1, OfJoin
<1> QED BY <1>1, <1>2, <1>3, <1>4, InnerMade

LEMMA DeltaEncoded ==
  ASSUME NEW e, NEW r, NEW i, NEW ev, EncLike(e, r) PROVE InnerEncoded(e, BlockDeltaFrames(r, i, ev))
<1> DEFINE missing == i \notin DOMAIN r.blocks
           block == IF missing THEN Block(ev.kind, 0, <<>>) ELSE r.blocks[i]
           v == Put(r.blocks, i, [block EXCEPT !.frags = @ \o ev.val])
           a == IF missing THEN <<BlockStart(i, ev.kind, Header(ev.kind, 0, <<>>))>> ELSE <<>>
           b == <<BlockDelta(i, ev.kind, ev.val)>>
           q == [r EXCEPT !.blocks = v]
<1>1. Of(a, BlockTypes) /\ Of(b, BlockTypes) /\ Of(<<>>, BlockTypes)
  BY OfMade
<1>2. BlockDeltaFrames(r, i, ev) = IF ev.kind = "signature" THEN Encoded(r, <<>>) ELSE Encoded(q, a \o b)
  BY DEF BlockDeltaFrames
<1> HIDE DEF a, b, v
<1>3. EncLike(e, q)
  BY BlocksLike
<1> HIDE DEF q
<1>4. Of(a \o b, BlockTypes)
  BY <1>1, OfJoin
<1> QED BY <1>1, <1>2, <1>3, <1>4, InnerMade

LEMMA StopEncoded ==
  ASSUME NEW e, NEW r, NEW i, EncLike(e, r) PROVE InnerEncoded(e, BlockStopFrames(r, i))
<1> DEFINE v == Put(r.items, i, r.blocks[i])
           a == <<BlockStop(i)>>
           q == [r EXCEPT !.items = v]
<1>1. Of(a, BlockTypes) /\ Of(<<>>, BlockTypes)
  BY OfMade
<1>2. BlockStopFrames(r, i) = IF i \notin DOMAIN r.blocks THEN Encoded(r, <<>>) ELSE Encoded(q, a)
  BY DEF BlockStopFrames
<1> HIDE DEF a, v
<1>3. EncLike(e, q)
  BY BlocksLike
<1> HIDE DEF q
<1> QED BY <1>1, <1>2, <1>3, InnerMade

LEMMA BlockEncoded ==
  ASSUME NEW e, NEW ev, DOMAIN e = EncFields, ev.type \in BlockEvents
  PROVE  InnerEncoded(e, EncodeBlock(e, ev))
<1> DEFINE i == Remapped(e, ev.index)
           r == Remap(e, ev.index)
<1>1. EncLike(e, r)
  BY RemapLike
<1>2. /\ ev.type = "content_block_start" => EncodeBlock(e, ev) = BlockStartFrames(r, i, ev)
      /\ ev.type = "content_block_delta" => EncodeBlock(e, ev) = BlockDeltaFrames(r, i, ev)
      /\ ev.type = "content_block_stop" => EncodeBlock(e, ev) = BlockStopFrames(r, i)
  BY DEF EncodeBlock
<1> HIDE DEF i, r
<1>3. InnerEncoded(e, BlockStartFrames(r, i, ev)) /\ InnerEncoded(e, BlockDeltaFrames(r, i, ev))
      /\ InnerEncoded(e, BlockStopFrames(r, i))
  BY <1>1, StartEncoded, DeltaEncoded, StopEncoded
<1>4. ev.type = "content_block_start" \/ ev.type = "content_block_delta" \/ ev.type = "content_block_stop"
  BY DEF BlockEvents
<1> QED BY <1>2, <1>3, <1>4

\* The encoder after an event: it has been completed as before.
EncNext(e, r) == DOMAIN r = EncFields /\ r.completed = e.completed /\ r.started = TRUE

LEMMA ResponsesInner ==
  ASSUME NEW e, NEW ev, DOMAIN e = EncFields, ev.type \in Inner
  PROVE  Of(EncodeResponses(e, ev).frames, Inner) /\ EncNext(e, EncodeResponses(e, ev).enc)
<1> DEFINE s == [e EXCEPT !.started = TRUE]
           z == IF e.started THEN <<>> ELSE <<MessageStart({})>>
           R == EncodeResponses(e, ev)
<1> SUFFICES Of(R.frames, Inner) /\ EncNext(e, R.enc)
  OBVIOUS
<1>1. DOMAIN s = EncFields /\ s.completed = e.completed /\ s.started = TRUE
  BY DEF EncFields
<1>2. Of(z, Inner) /\ Of(<<>>, Inner)
  BY OfMade
<1>3. CASE ev.type = "message_start"
  <2> DEFINE u == (s.usage \ {"in"}) \union (ev.usage \intersect {"in"})
             q == [s EXCEPT !.usage = u]
  <2>1. R = Encoded(q, z)
    <3>1. ev.type \notin BlockEvents
      BY <1>3 DEF BlockEvents
    <3> QED BY <1>3, <3>1 DEF EncodeResponses
  <2> HIDE DEF s, u, z, R
  <2>2. EncNext(e, q)
    BY <1>1 DEF EncNext, EncFields
  <2> QED BY <1>2, <2>1, <2>2 DEF Encoded
<1>4. CASE ev.type \in BlockEvents
  <2> DEFINE b == EncodeBlock(s, ev)
  <2>1. R = Encoded(b.enc, z \o b.frames)
    <3>1. ev.type # "message_start" /\ ev.type # "message_delta" /\ ev.type # "message_stop"
      BY <1>4 DEF BlockEvents
    <3> QED BY <1>4, <3>1 DEF EncodeResponses
  <2> HIDE DEF s, z, R
  <2>2. InnerEncoded(s, b)
    BY <1>1, <1>4, BlockEncoded
  <2> HIDE DEF b
  <2>3. Of(z \o b.frames, Inner) /\ EncNext(e, b.enc)
    BY <1>1, <1>2, <2>2, OfInner, OfJoin DEF InnerEncoded, EncLike, EncNext
  <2> QED BY <2>1, <2>3 DEF Encoded
<1>5. CASE ev.type = "message_delta"
  <2> DEFINE u == (s.usage \intersect {"in"}) \union ev.usage
             q == [s EXCEPT !.usage = u]
  <2>1. R = Encoded(q, <<>>)
    <3>1. ev.type # "message_start" /\ ev.type \notin BlockEvents
      BY <1>5 DEF BlockEvents
    <3> QED BY <1>5, <3>1 DEF EncodeResponses, AbsorbUsage
  <2> HIDE DEF s, u, R
  <2>2. EncNext(e, q)
    BY <1>1 DEF EncNext, EncFields
  <2> QED BY <1>2, <2>1, <2>2 DEF Encoded
<1> QED BY <1>3, <1>4, <1>5 DEF Inner, BlockEvents

LEMMA ResponsesStop ==
  ASSUME NEW e, NEW ev, DOMAIN e = EncFields, ev.type = "message_stop", e.completed = FALSE
  PROVE  /\ \E z : EncodeResponses(e, ev).frames = <<z>> /\ Event(z) /\ z.type = "message_stop"
         /\ DOMAIN EncodeResponses(e, ev).enc = EncFields
         /\ EncodeResponses(e, ev).enc.completed = TRUE /\ EncodeResponses(e, ev).enc.started = TRUE
<1> DEFINE s == [e EXCEPT !.started = TRUE]
           z == MessageStop(ByIndex(s.items), s.usage)
           q == [s EXCEPT !.completed = TRUE]
           R == EncodeResponses(e, ev)
<1>1. R = Encoded(q, <<z>>)
  BY DEF EncodeResponses, CompletedFrames, BlockEvents
<1>2. Event(z) /\ z.type = "message_stop"
  BY MadeIs
<1>3. DOMAIN q = EncFields /\ q.completed = TRUE /\ q.started = TRUE
  BY DEF EncFields
<1> HIDE DEF q, z, R
<1>4. R.frames = <<z>> /\ R.enc = q
  BY <1>1 DEF Encoded
<1>5. (\E x : R.frames = <<x>> /\ Event(x) /\ x.type = "message_stop")
      /\ DOMAIN R.enc = EncFields /\ R.enc.completed = TRUE /\ R.enc.started = TRUE
  BY <1>2, <1>3, <1>4
<1> QED BY <1>5 DEF R

LEMMA AnthropicEncoded ==
  ASSUME NEW e, NEW ev, Event(ev)
  PROVE  \E z : EncodeAnthropic(e, ev).frames = <<z>> /\ Event(z) /\ z.type = ev.type
<1> DEFINE i == Remapped(e, ev.index)
           z == [ev EXCEPT !.index = i]
<1>1. Event(z) /\ z.type = ev.type
  BY DEF Event
<1>2. EncodeAnthropic(e, ev).frames = <<z>> \/ EncodeAnthropic(e, ev).frames = <<ev>>
  BY DEF EncodeAnthropic, Encoded
<1> HIDE DEF z
<1> QED BY <1>1, <1>2

LEMMA OpenAIEncoded ==
  ASSUME NEW e, NEW ev
  PROVE  /\ ev.type \in Inner => Of(EncodeOpenAI(e, ev).frames, Inner)
         /\ ev.type = "message_stop" => EncodeOpenAI(e, ev).frames = <<Ended>>
<1> DEFINE R == EncodeOpenAI(e, ev)
<1>0. Of(<<>>, Inner) /\ Of(<<MessageStart({})>>, Inner) /\ Of(<<MessageDelta(ev.usage)>>, Inner)
  BY OfMade
<1>1. CASE ev.type = "message_start"
  <2>1. R.frames = <<MessageStart({})>>
    BY <1>1 DEF EncodeOpenAI, Encoded
  <2> HIDE DEF R
  <2> QED BY <1>0, <1>1, <2>1 DEF R
<1>2. CASE ev.type = "content_block_start"
  <2> DEFINE a == <<BlockStart(e.nextTool, "tool_use", <<ev.val[1]>>)>>
  <2>1. R.frames = a \/ R.frames = <<>>
    BY <1>2 DEF EncodeOpenAI, EncodeToolStart, Encoded
  <2>2. Of(a, Inner)
    BY OfMade, OfInner
  <2> HIDE DEF R, a
  <2> QED BY <1>0, <1>2, <2>1, <2>2 DEF R
<1>3. CASE ev.type = "content_block_delta"
  <2> DEFINE k == IF ev.index \in DOMAIN e.tool THEN e.tool[ev.index] ELSE 0
             a == <<BlockDelta(0, "text", ev.val)>>
             b == <<BlockDelta(k, "tool_use", ev.val)>>
  <2>1. R.frames = EncodeDelta(e, ev)
    BY <1>3 DEF EncodeOpenAI, Encoded
  <2>2. EncodeDelta(e, ev) = a \/ EncodeDelta(e, ev) = b \/ EncodeDelta(e, ev) = <<>>
    BY DEF EncodeDelta
  <2>3. Of(a, Inner) /\ Of(b, Inner)
    BY OfMade, OfInner
  <2> HIDE DEF R, a, b
  <2> QED BY <1>0, <1>3, <2>1, <2>2, <2>3 DEF R
<1>4. CASE ev.type = "content_block_stop"
  <2>1. R.frames = <<>>
    BY <1>4 DEF EncodeOpenAI, Encoded
  <2> HIDE DEF R
  <2> QED BY <1>0, <1>4, <2>1 DEF R
<1>5. CASE ev.type = "message_delta"
  <2>1. R.frames = <<MessageDelta(ev.usage)>>
    BY <1>5 DEF EncodeOpenAI, Encoded
  <2> HIDE DEF R
  <2> QED BY <1>0, <1>5, <2>1 DEF R
<1>6. ev.type = "message_stop" => R.frames = <<Ended>>
  BY DEF EncodeOpenAI, Encoded
<1>7. ev.type = "message_stop" => ev.type \notin Inner
  BY DEF Inner
<1> HIDE DEF R
<1>8. /\ ev.type \in Inner => Of(R.frames, Inner)
      /\ ev.type = "message_stop" => R.frames = <<Ended>>
  BY <1>1, <1>2, <1>3, <1>4, <1>5, <1>6 DEF Inner, R
<1> QED BY <1>8 DEF R

\* An encoder that has ended nothing, where that is kept.
EncOpen(f, e) == f = "responses" => DOMAIN e = EncFields /\ e.completed = FALSE

LEMMA EncodeInner ==
  ASSUME NEW f \in Formats, NEW e, NEW ev, Event(ev), ev.type \in Inner, f = "responses" => DOMAIN e = EncFields
  PROVE  Of(Encode(f, e, ev).frames, Inner) /\ (f = "responses" => EncNext(e, Encode(f, e, ev).enc))
<1>1. CASE f = "openai"
  <2>1. Encode(f, e, ev) = EncodeOpenAI(e, ev)
    BY <1>1 DEF Encode
  <2> QED BY <1>1, <2>1, OpenAIEncoded
<1>2. CASE f = "anthropic"
  <2>1. Encode(f, e, ev) = EncodeAnthropic(e, ev)
    BY <1>2 DEF Encode
  <2>2. PICK z : EncodeAnthropic(e, ev).frames = <<z>> /\ Event(z) /\ z.type = ev.type
    BY AnthropicEncoded
  <2>3. Of(<<z>>, Inner)
    BY <2>2, OfOne
  <2> QED BY <1>2, <2>1, <2>2, <2>3
<1>3. CASE f = "responses"
  <2>1. Encode(f, e, ev) = EncodeResponses(e, ev)
    BY <1>3 DEF Encode
  <2> QED BY <1>3, <2>1, ResponsesInner
<1> QED BY <1>1, <1>2, <1>3 DEF Formats

LEMMA EncodeStop ==
  ASSUME NEW f \in Formats, NEW e, NEW ev, Event(ev), ev.type = "message_stop", EncOpen(f, e)
  PROVE  /\ \E z : Encode(f, e, ev).frames = <<z>> /\ Event(z) /\ z.type = "message_stop"
         /\ f = "responses" => /\ DOMAIN Encode(f, e, ev).enc = EncFields
                               /\ Encode(f, e, ev).enc.completed = TRUE /\ Encode(f, e, ev).enc.started = TRUE
<1>1. CASE f = "openai"
  <2>1. Encode(f, e, ev) = EncodeOpenAI(e, ev)
    BY <1>1 DEF Encode
  <2>2. Event(Ended) /\ Ended.type = "message_stop"
    BY MadeIs DEF Ended
  <2> QED BY <1>1, <2>1, <2>2, OpenAIEncoded
<1>2. CASE f = "anthropic"
  <2>1. Encode(f, e, ev) = EncodeAnthropic(e, ev)
    BY <1>2 DEF Encode
  <2> QED BY <1>2, <2>1, AnthropicEncoded
<1>3. CASE f = "responses"
  <2>1. Encode(f, e, ev) = EncodeResponses(e, ev)
    BY <1>3 DEF Encode
  <2> QED BY <1>3, <2>1, ResponsesStop DEF EncOpen
<1> QED BY <1>1, <1>2, <1>3 DEF Formats

-----------------------------------------------------------------------------
(* The end of a message in a sequence of events *)

Stop(s)     == \E i \in 1 .. Len(s) : s[i].type = "message_stop"
StopLast(s) == \A i \in 1 .. Len(s) : s[i].type = "message_stop" => i = Len(s)
NoError(s)  == \A i \in 1 .. Len(s) : s[i].type # "error"

LEMMA StopEmpty == ~Stop(<<>>) /\ StopLast(<<>>) /\ NoError(<<>>)
<1>1. Len(<<>>) = 0 /\ \A i \in 1 .. 0 : FALSE
  OBVIOUS
<1> QED BY <1>1 DEF Stop, StopLast, NoError

LEMMA StopNot == ASSUME NEW s, Of(s, NoEnd) PROVE Of(s, Types) /\ ~Stop(s) /\ StopLast(s)
<1>1. Of(s, Types)
  BY OfWider DEF NoEnd, Types
<1>2. "message_stop" \notin NoEnd
  BY DEF NoEnd, Inner
<1> QED BY <1>1, <1>2 DEF Of, Stop, StopLast

LEMMA InnerNot == ASSUME NEW s, Of(s, Inner) PROVE Of(s, Types) /\ ~Stop(s) /\ StopLast(s) /\ NoError(s)
<1>1. "error" \notin Inner
  BY DEF Inner
<1>2. NoError(s)
  BY <1>1 DEF Of, NoError
<1> QED BY <1>2, StopNot, InnerNoEnd

\* Something put behind what has no end.
LEMMA StopJoin ==
  ASSUME NEW q, NEW r, Of(q, Types), Of(r, Types), ~Stop(q)
  PROVE  /\ Of(q \o r, Types) /\ (StopLast(r) => StopLast(q \o r)) /\ (Stop(r) <=> Stop(q \o r))
         /\ (NoError(q) /\ NoError(r) => NoError(q \o r))
<1> DEFINE w == q \o r
<1>1. /\ Of(w, Types) /\ Len(w) = Len(q) + Len(r) /\ Len(q) \in Nat /\ Len(r) \in Nat
      /\ \A i \in 1 .. Len(q) : w[i] = q[i]
      /\ \A i \in 1 .. Len(r) : w[Len(q) + i] = r[i]
  BY OfJoin, OfLen
<1> HIDE DEF w
<1>2. \A i \in 1 .. Len(w) : i \in 1 .. Len(q) \/ \E j \in 1 .. Len(r) : i = Len(q) + j
  <2> TAKE i \in 1 .. Len(w)
  <2>1. CASE i <= Len(q)
    BY <1>1, <2>1
  <2>2. CASE ~(i <= Len(q))
    <3>1. i - Len(q) \in 1 .. Len(r) /\ i = Len(q) + (i - Len(q))
      BY <1>1, <2>2
    <3> QED BY <3>1
  <2> QED BY <2>1, <2>2
<1>3. StopLast(r) => StopLast(w)
  <2> SUFFICES ASSUME StopLast(r), NEW i \in 1 .. Len(w), w[i].type = "message_stop" PROVE i = Len(w)
    BY DEF StopLast
  <2>1. i \notin 1 .. Len(q)
    BY <1>1 DEF Stop
  <2>2. PICK j \in 1 .. Len(r) : i = Len(q) + j
    BY <1>2, <2>1
  <2>3. r[j].type = "message_stop"
    BY <1>1, <2>2
  <2>4. j = Len(r)
    BY <2>3 DEF StopLast
  <2> QED BY <1>1, <2>2, <2>4
<1>4. Stop(r) => Stop(w)
  <2> SUFFICES ASSUME Stop(r) PROVE Stop(w)
    OBVIOUS
  <2>1. PICK j \in 1 .. Len(r) : r[j].type = "message_stop"
    BY DEF Stop
  <2>2. Len(q) + j \in 1 .. Len(w)
    BY <1>1
  <2>3. w[Len(q) + j].type = "message_stop"
    BY <1>1, <2>1
  <2> QED BY <2>2, <2>3 DEF Stop
<1>5. Stop(w) => Stop(r)
  BY <1>1, <1>2 DEF Stop
<1>6. NoError(q) /\ NoError(r) => NoError(w)
  BY <1>1, <1>2 DEF NoError
<1> QED BY <1>1, <1>3, <1>4, <1>5, <1>6 DEF w

LEMMA StopOne ==
  ASSUME NEW z, Event(z), z.type = "message_stop"
  PROVE  Of(<<z>>, Types) /\ Stop(<<z>>) /\ StopLast(<<z>>) /\ NoError(<<z>>) /\ <<z>> # <<>>
<1>1. Of(<<z>>, Types) /\ Len(<<z>>) = 1 /\ <<z>>[1] = z
  BY OfOne DEF Types
<1> DEFINE s == <<z>>
<1> HIDE DEF s
<1>2. Of(s, Types) /\ Len(s) = 1 /\ s[1].type = "message_stop" /\ \A i \in 1 .. 1 : i = 1
  BY <1>1 DEF s
<1>3. 1 \in 1 .. 1 /\ Len(<<>>) = 0
  OBVIOUS
<1>4. s # <<>>
  BY <1>2, <1>3
<1> QED BY <1>2, <1>3, <1>4 DEF Stop, StopLast, NoError, s

LEMMA FinishesIs == ASSUME NEW s, Finishes(s) PROVE Of(s, Types) /\ Stop(s) /\ StopLast(s) /\ NoError(s) /\ s # <<>>
<1>1. PICK q : Of(q, Inner) /\ s = q \o <<Ended>>
  BY DEF Finishes
<1> DEFINE e == <<Ended>>
<1>2. Of(e, Types) /\ Stop(e) /\ StopLast(e) /\ NoError(e)
  BY MadeIs, StopOne DEF Ended
<1> HIDE DEF e
<1>3. Of(q, Types) /\ ~Stop(q) /\ NoError(q)
  BY <1>1, InnerNot
<1>4. Of(q \o e, Types) /\ Stop(q \o e) /\ StopLast(q \o e) /\ NoError(q \o e)
  BY <1>2, <1>3, StopJoin
<1>5. q \o e # <<>>
  BY <1>4, StopEmpty
<1> QED BY <1>1, <1>4, <1>5 DEF e

LEMMA StopTail ==
  ASSUME NEW q, Of(q, Types), q # <<>>, StopLast(q)
  PROVE  /\ Of(Tail(q), Types) /\ StopLast(Tail(q)) /\ (Stop(Tail(q)) => Stop(q))
         /\ Event(Head(q)) /\ Head(q).type \in Types
         /\ Head(q).type = "message_stop" => Tail(q) = <<>> /\ Stop(q)
         /\ Head(q).type # "message_stop" /\ Stop(q) => Stop(Tail(q))
<1> DEFINE w == Tail(q)
           h == Head(q)
<1>1. /\ Of(w, Types) /\ Len(w) = Len(q) - 1 /\ h = q[1] /\ 1 \in 1 .. Len(q)
      /\ \A i \in 1 .. Len(q) - 1 : w[i] = q[i + 1]
  BY OfTail
<1>2. Len(q) \in Nat /\ Len(w) \in Nat
  BY <1>1, OfLen
<1>3. Len(w) = 0 => w = <<>>
  <2>1. PICK X : w \in Seq(X)
    BY <1>1 DEF Of
  <2> HIDE DEF w
  <2> QED BY <2>1, EmptySeq
<1> HIDE DEF w, h
<1>4. StopLast(w)
  <2> SUFFICES ASSUME NEW i \in 1 .. Len(w), w[i].type = "message_stop" PROVE i = Len(w)
    BY DEF StopLast
  <2>1. i + 1 \in 1 .. Len(q) /\ q[i + 1].type = "message_stop"
    BY <1>1, <1>2
  <2>2. i + 1 = Len(q)
    BY <2>1 DEF StopLast
  <2> QED BY <1>1, <1>2, <2>2
<1>5. Stop(w) => Stop(q)
  <2> SUFFICES ASSUME NEW i \in 1 .. Len(w), w[i].type = "message_stop" PROVE Stop(q)
    BY DEF Stop
  <2>1. i + 1 \in 1 .. Len(q) /\ q[i + 1].type = "message_stop"
    BY <1>1, <1>2
  <2> QED BY <2>1 DEF Stop
<1>6. Event(h) /\ h.type \in Types
  BY <1>1 DEF Of
<1>7. h.type = "message_stop" => w = <<>> /\ Stop(q)
  <2> SUFFICES ASSUME h.type = "message_stop" PROVE w = <<>> /\ Stop(q)
    OBVIOUS
  <2>1. Len(q) = 1
    BY <1>1 DEF StopLast
  <2> QED BY <1>1, <1>2, <1>3, <2>1 DEF Stop
<1>8. h.type # "message_stop" /\ Stop(q) => Stop(w)
  <2> SUFFICES ASSUME h.type # "message_stop", NEW i \in 1 .. Len(q), q[i].type = "message_stop" PROVE Stop(w)
    BY DEF Stop
  <2>1. i # 1
    BY <1>1
  <2>2. i - 1 \in 1 .. Len(w) /\ w[i - 1] = q[i]
    <3>1. i - 1 \in 1 .. Len(q) - 1 /\ (i - 1) + 1 = i
      BY <1>2, <2>1
    <3> QED BY <1>1, <3>1
  <2> QED BY <2>2 DEF Stop
<1> QED BY <1>1, <1>4, <1>5, <1>6, <1>7, <1>8 DEF w, h

LEMMA StopAppend ==
  ASSUME NEW q, NEW e, Of(q, Types), Event(e), e.type \in Types, ~Stop(q)
  PROVE  /\ Of(Append(q, e), Types) /\ StopLast(Append(q, e)) /\ (Stop(Append(q, e)) <=> e.type = "message_stop")
<1> DEFINE w == Append(q, e)
<1>1. /\ Of(w, Types) /\ Len(w) = Len(q) + 1 /\ w[Len(q) + 1] = e /\ Len(q) \in Nat
      /\ \A i \in 1 .. Len(q) : w[i] = q[i]
  BY OfAppend, OfLen
<1> HIDE DEF w
<1>2. \A i \in 1 .. Len(w) : i \in 1 .. Len(q) \/ i = Len(q) + 1
  BY <1>1
<1>3. Len(q) + 1 \in 1 .. Len(w)
  BY <1>1
<1>4. StopLast(w)
  BY <1>1, <1>2 DEF StopLast, Stop
<1>5. Stop(w) => e.type = "message_stop"
  BY <1>1, <1>2 DEF Stop
<1>6. e.type = "message_stop" => Stop(w)
  BY <1>1, <1>3 DEF Stop
<1> QED BY <1>1, <1>4, <1>5, <1>6 DEF w

-----------------------------------------------------------------------------
(* The inductive invariant *)

TypeR ==
  /\ format.client \in Formats
  /\ format.up = "openai" => DecOk(dec)
  /\ UpOk
  /\ Of(pending, Types) /\ Of(chan, Types) /\ Of(wire, Types)
  /\ pump \in {"loop", "settle", "returned"} /\ reader \in {"scan", "send", "closed"}

\* A complete answer is written at once.
Complete ==
  ~format.stream => /\ reader = "closed" /\ chan = <<>> /\ pump # "settle" /\ up.blocks = <<>>
                    /\ pump = "loop" => wire = <<>>

\* The end of the message comes last, wherever it is.
PipeOk ==
  /\ reader = "scan" => pending = <<>>
  /\ reader = "send" => pending # <<>>
  /\ reader = "closed" /\ ~ContextDone => pending = <<>>
  /\ StopLast(pending) /\ StopLast(chan)
  /\ Stop(pending) => up.phase = "ended"
  /\ Stop(chan) => up.phase = "ended" /\ pending = <<>>

\* What the client has been sent before the handler returns.
WireOk ==
  /\ pump # "returned" /\ ending # "signalled" => StopLast(wire) /\ NoError(wire)
  /\ pump = "settle" /\ ending = "signalled" =>
       ~Stop(wire) /\ \A i \in 1 .. Len(wire) : wire[i].type = "error" => i = Len(wire)
  /\ pump = "loop" /\ Stop(wire) => chan = <<>> /\ pending = <<>> /\ up.phase = "ended"
  /\ pump = "loop" => ending = "none"
  /\ pump # "returned" => saves = <<>> /\ records = <<>>
  /\ pump = "settle" => ending \in {"over", "gone", "signalled"}
  /\ ending = "over" => reader = "closed"
  /\ ending = "gone" => left

\* The end is not lost on its way.
OnItsWay ==
  format.stream /\ pump # "returned" /\ ending \in {"none", "over"} /\ ~left /\ up.phase = "ended" =>
    Stop(chan) \/ Stop(pending) \/ Stop(wire)

\* The Responses encoder knows whether it has ended the answer.
EncKnows ==
  format.client = "responses" /\ format.stream /\ pump # "returned" =>
    /\ DOMAIN enc = EncFields /\ (enc.completed = TRUE \/ enc.completed = FALSE)
    /\ enc.completed = TRUE <=> Stop(wire)
    /\ enc.completed = TRUE => enc.started = TRUE

OverOk == pump = "settle" /\ ending = "over" => chan = <<>>

LastOnly(s) == \A i \in 1 .. Len(s) : s[i].type \in {"message_stop", "error"} => i = Len(s)

\* What has been sent, saved and recorded when it has.
Returned ==
  pump = "returned" =>
    /\ LastOnly(wire)
    /\ records # <<>> /\ records[1].status = "ok" => reader = "closed" /\ (~left /\ up.phase = "ended" => Stop(wire))
    /\ format.stream /\ ~NoError(wire) => saves = <<>> /\ \A r \in DOMAIN records : records[r].status = "error"

EndInv == TypeR /\ Complete /\ PipeOk /\ WireOk /\ OnItsWay /\ EncKnows /\ OverOk /\ Returned

LEMMA ScanIs ==
  ASSUME TypeR, NEW c, UpStep(c)
  PROVE  /\ reader = "scan" /\ Of(pending', Types) /\ StopLast(pending') /\ (Stop(pending') <=> up'.phase = "ended")
         /\ reader' \in {"scan", "send"} /\ (reader' = "scan" <=> pending' = <<>>) /\ up.phase # "ended"
         /\ (format.up = "openai" => DecOk(dec')) /\ UpOk'
         /\ UNCHANGED <<format, chan, left, pump, ending, started, enc, rec, wire, saves, records>>
<1> DEFINE d == Decode(format.up, dec, c)
<1>1. Ends(c, d.evs) /\ (format.up = "openai" => DecOk(d.dec))
  BY DecodeIs DEF TypeR, UpStep
<1>2. /\ reader = "scan" /\ dec' = d.dec /\ pending' = d.evs
      /\ reader' = (IF d.evs = <<>> THEN "scan" ELSE "send")
      /\ UNCHANGED <<format, chan, left, pump, ending, started, enc, rec, wire, saves, records>>
  BY DEF UpStep, Scan, outVars, endVars
<1> HIDE DEF d
<1>3. /\ up.phase # "ended" /\ (c.part = "done" <=> up'.phase = "ended") /\ UpOk'
  BY DEF UpStep
<1> DEFINE s == d.evs
<1> HIDE DEF s
<1>4. Ends(c, s)
  BY <1>1 DEF s
<1>5. Of(s, Types) /\ StopLast(s) /\ (Stop(s) <=> up'.phase = "ended")
  <2>1. CASE c.part = "done"
    BY <1>3, <1>4, <2>1, FinishesIs DEF Ends
  <2>2. CASE c.part # "done"
    BY <1>3, <1>4, <2>2, StopNot DEF Ends
  <2> QED BY <2>1, <2>2
<1>6. pending' = s /\ reader' = IF s = <<>> THEN "scan" ELSE "send"
  BY <1>2 DEF s
<1> QED BY <1>1, <1>2, <1>3, <1>5, <1>6

LEMMA EndsStep == ASSUME EndInv, NEW c, UpStep(c) PROVE EndInv'
<1> USE DEF EndInv
<1> DEFINE kept == <<format, chan, left, pump, ending, started, enc, rec, wire, saves, records>>
<1>1. /\ reader = "scan" /\ Of(pending', Types) /\ StopLast(pending') /\ (Stop(pending') <=> up'.phase = "ended")
      /\ reader' \in {"scan", "send"} /\ (reader' = "scan" <=> pending' = <<>>) /\ up.phase # "ended"
      /\ (format.up = "openai" => DecOk(dec')) /\ UpOk'
  BY ScanIs
<1>2. /\ format' = format /\ chan' = chan /\ left' = left /\ pump' = pump /\ ending' = ending /\ started' = started
      /\ enc' = enc /\ rec' = rec /\ wire' = wire /\ saves' = saves /\ records' = records
  BY ScanIs
<1>3. ~Stop(chan) /\ (pump = "loop" => ~Stop(wire)) /\ ending # "over"
  BY <1>1 DEF PipeOk, WireOk
<1>4. TypeR'
  BY <1>1, <1>2 DEF TypeR
<1>5. Complete'
  BY <1>1, <1>2 DEF Complete
<1>6. PipeOk'
  BY <1>1, <1>2, <1>3 DEF PipeOk
<1>7. WireOk'
  BY <1>1, <1>2, <1>3 DEF WireOk
<1>8. OnItsWay'
  BY <1>1, <1>2 DEF OnItsWay
<1>9. EncKnows' /\ OverOk'
  BY <1>1, <1>2 DEF EncKnows, OverOk
<1>10. Returned'
  BY <1>1, <1>2 DEF Returned
<1> QED BY <1>4, <1>5, <1>6, <1>7, <1>8, <1>9, <1>10

LEMMA EndsSendEvent == ASSUME EndInv, SendEvent PROVE EndInv'
<1> USE DEF EndInv
<1> DEFINE h == Head(pending)
<1>1. /\ reader = "send" /\ chan' = Append(chan, h) /\ pending' = Tail(pending)
      /\ reader' = IF Tail(pending) = <<>> THEN "scan" ELSE "send"
  BY DEF SendEvent
<1>2. /\ format' = format /\ up' = up /\ dec' = dec /\ left' = left /\ pump' = pump /\ ending' = ending
      /\ started' = started /\ enc' = enc /\ rec' = rec /\ wire' = wire /\ saves' = saves /\ records' = records
  BY DEF SendEvent, upVars, outVars, endVars
<1>3. pending # <<>> /\ Of(pending, Types) /\ StopLast(pending) /\ ~Stop(chan) /\ Of(chan, Types)
  BY <1>1 DEF PipeOk, TypeR
<1>4. /\ Of(pending', Types) /\ StopLast(pending') /\ (Stop(pending') => Stop(pending))
      /\ Event(h) /\ h.type \in Types
      /\ h.type = "message_stop" => pending' = <<>> /\ Stop(pending)
      /\ h.type # "message_stop" /\ Stop(pending) => Stop(pending')
  BY <1>1, <1>3, StopTail
<1> HIDE DEF h
<1>5. Of(chan', Types) /\ StopLast(chan') /\ (Stop(chan') <=> h.type = "message_stop")
  BY <1>1, <1>3, <1>4, StopAppend
<1>6. TypeR'
  <2>1. UpOk'
    BY <1>2 DEF TypeR, UpOk, OpenNow
  <2> QED BY <1>1, <1>2, <1>4, <1>5, <2>1 DEF TypeR
<1>7. Complete'
  BY <1>1, <1>2 DEF Complete
<1>8. PipeOk'
  BY <1>1, <1>2, <1>4, <1>5 DEF PipeOk
<1>9. WireOk'
  BY <1>1, <1>2, <1>3 DEF WireOk
<1>10. OnItsWay'
  BY <1>2, <1>3, <1>4, <1>5 DEF OnItsWay
<1>11. EncKnows'
  BY <1>2 DEF EncKnows
<1>12. OverOk'
  BY <1>1, <1>2 DEF OverOk, WireOk
<1>13. Returned'
  BY <1>1, <1>2 DEF Returned
<1> QED BY <1>6, <1>7, <1>8, <1>9, <1>10, <1>11, <1>12, <1>13

\* The reader and the client end, and nothing is written.
LEMMA EndsQuiet ==
  ASSUME EndInv, Abandon \/ BodyEnds \/ ReadFails \/ Leave
  PROVE  EndInv'
<1> USE DEF EndInv
<1>1. /\ format' = format /\ up' = up /\ dec' = dec /\ pump' = pump /\ ending' = ending
      /\ pending' = pending /\ chan' = chan
      /\ started' = started /\ enc' = enc /\ rec' = rec /\ wire' = wire /\ saves' = saves /\ records' = records
  BY DEF Abandon, BodyEnds, ReadFails, Leave, upVars, readVars, outVars, endVars
<1>2. TypeR' /\ PipeOk' /\ Complete' /\ WireOk' /\ OnItsWay' /\ Returned'
  <2>0. UpOk'
    BY <1>1 DEF TypeR, UpOk, OpenNow
  <2>1. CASE Abandon
    <3>1. reader = "send" /\ ContextDone /\ reader' = "closed" /\ left' = left
      BY <2>1 DEF Abandon
    <3> QED BY <1>1, <2>0, <3>1 DEF TypeR, PipeOk, Complete, WireOk, OnItsWay, Returned, ContextDone
  <2>2. CASE BodyEnds \/ ReadFails
    <3>1. reader = "scan" /\ reader' = "closed" /\ left' = left
      BY <2>2 DEF BodyEnds, ReadFails
    <3> QED BY <1>1, <2>0, <3>1 DEF TypeR, PipeOk, Complete, WireOk, OnItsWay, Returned, ContextDone
  <2>3. CASE Leave
    <3>1. left' = TRUE /\ reader' = reader
      BY <2>3 DEF Leave, readVars
    <3> QED BY <1>1, <2>0, <3>1 DEF TypeR, PipeOk, Complete, WireOk, OnItsWay, Returned, ContextDone
  <2> QED BY <2>1, <2>2, <2>3
<1>3. EncKnows' /\ OverOk'
  BY <1>1 DEF EncKnows, OverOk
<1> QED BY <1>2, <1>3

LEMMA EndsOver == ASSUME EndInv, StreamOver \/ SeesClientGone PROVE EndInv'
<1> USE DEF EndInv
<1>1. /\ format' = format /\ up' = up /\ dec' = dec /\ left' = left /\ reader' = reader
      /\ pending' = pending /\ chan' = chan
      /\ started' = started /\ enc' = enc /\ rec' = rec /\ wire' = wire /\ saves' = saves /\ records' = records
  BY DEF StreamOver, SeesClientGone, upVars, readVars, outVars, endVars
<1>2. /\ pump = "loop" /\ pump' = "settle" /\ format.stream
      /\ \/ ending' = "over" /\ chan = <<>> /\ reader = "closed"
         \/ ending' = "gone" /\ left
  BY DEF StreamOver, SeesClientGone
<1>3. UpOk'
  BY <1>1 DEF TypeR, UpOk, OpenNow
<1>4. TypeR'
  BY <1>1, <1>2, <1>3 DEF TypeR
<1>5. Complete' /\ OverOk' /\ Returned'
  BY <1>1, <1>2 DEF Complete, OverOk, Returned
<1>6. PipeOk'
  BY <1>1, <1>2 DEF PipeOk, ContextDone
<1>7. WireOk'
  BY <1>1, <1>2 DEF WireOk
<1>8. OnItsWay'
  BY <1>1, <1>2 DEF OnItsWay, WireOk
<1>9. EncKnows'
  BY <1>1, <1>2 DEF EncKnows
<1> QED BY <1>4, <1>5, <1>6, <1>7, <1>8, <1>9

LEMMA EndsError == ASSUME EndInv, UpstreamError PROVE EndInv'
<1> USE DEF EndInv
<1> DEFINE e == ErrorEvent
<1>1. /\ format' = format /\ up' = up /\ dec' = dec /\ left' = left /\ reader' = reader /\ pending' = pending
      /\ started' = started /\ enc' = enc /\ rec' = rec /\ saves' = saves /\ records' = records
  BY DEF UpstreamError, upVars, readVars, endVars
<1>2. /\ pump = "loop" /\ chan # <<>> /\ Head(chan).type = "error" /\ wire' = Append(wire, e) /\ chan' = Tail(chan)
      /\ pump' = "settle" /\ ending' = "signalled"
  BY DEF UpstreamError
<1>3. Event(e) /\ e.type = "error"
  BY MadeIs
<1> HIDE DEF e
<1>4. ~Stop(wire) /\ NoError(wire) /\ Of(wire, Types) /\ Of(chan, Types) /\ StopLast(chan)
  BY <1>2 DEF WireOk, TypeR, PipeOk
<1>5. Of(wire', Types) /\ ~Stop(wire') /\ \A i \in 1 .. Len(wire') : wire'[i].type = "error" => i = Len(wire')
  <2>1. e.type \in Types /\ "error" # "message_stop"
    BY <1>3 DEF Types
  <2>2. Of(wire', Types) /\ ~Stop(wire')
    BY <1>2, <1>3, <1>4, <2>1, StopAppend
  <2>3. /\ Len(wire') = Len(wire) + 1 /\ Len(wire) \in Nat
        /\ \A i \in 1 .. Len(wire) : wire'[i] = wire[i]
    BY <1>2, <1>3, <1>4, <2>1, OfAppend, OfLen
  <2>4. \A i \in 1 .. Len(wire') : i \in 1 .. Len(wire) \/ i = Len(wire')
    BY <2>3
  <2> QED BY <1>4, <2>2, <2>3, <2>4 DEF NoError
<1>6. Of(chan', Types) /\ StopLast(chan') /\ (Stop(chan') => Stop(chan))
  BY <1>2, <1>4, StopTail
<1>7. UpOk'
  BY <1>1 DEF TypeR, UpOk, OpenNow
<1>8. TypeR'
  BY <1>1, <1>2, <1>5, <1>6, <1>7 DEF TypeR
<1>9. Complete' /\ OverOk' /\ Returned' /\ OnItsWay'
  BY <1>1, <1>2 DEF Complete, OverOk, Returned, OnItsWay
<1>10. PipeOk'
  BY <1>1, <1>2, <1>6 DEF PipeOk, ContextDone
<1>11. WireOk'
  BY <1>1, <1>2, <1>5 DEF WireOk
<1>12. EncKnows'
  BY <1>1, <1>2, <1>4, <1>5 DEF EncKnows
<1> QED BY <1>8, <1>9, <1>10, <1>11, <1>12

LEMMA RelayedInner ==
  ASSUME format.client \in Formats, NEW ev, Event(ev), ev.type \in Inner,
         format.client = "responses" => DOMAIN enc = EncFields
  PROVE  /\ Of(Relayed(ev).frames, Inner)
         /\ format.client = "responses" => EncNext(enc, Relayed(ev).enc)
<1> DEFINE lacks == LacksStart(ev)
           z == MadeUpStart(ev)
           s == IF lacks THEN Encode(format.client, enc, z) ELSE Encoded(enc, <<>>)
           r == Encode(format.client, s.enc, ev)
<1>1. Relayed(ev) = Encoded(r.enc, s.frames \o r.frames)
  BY DEF Relayed
<1>2. CASE lacks
  <2>1. format.client = "anthropic"
    BY <1>2 DEF LacksStart
  <2>2. Event(z) /\ z.type \in Inner
    BY MadeIs DEF MadeUpStart, BlockTypes, Inner
  <2>3. s = Encode(format.client, enc, z)
    BY <1>2
  <2> HIDE DEF z, s, lacks
  <2>4. Of(s.frames, Inner)
    BY <2>1, <2>2, <2>3, EncodeInner
  <2>5. Of(r.frames, Inner)
    BY <2>1, EncodeInner
  <2> HIDE DEF r
  <2>6. Of(s.frames \o r.frames, Inner)
    BY <2>4, <2>5, OfJoin
  <2> QED BY <1>1, <2>1, <2>6 DEF Encoded
<1>3. CASE ~lacks
  <2>1. s.enc = enc /\ s.frames = <<>>
    BY <1>3 DEF Encoded
  <2> HIDE DEF s, lacks, z
  <2>2. Of(r.frames, Inner) /\ (format.client = "responses" => EncNext(enc, r.enc))
    BY <2>1, EncodeInner
  <2>3. Of(s.frames, Inner)
    BY <2>1, OfEmpty
  <2> HIDE DEF r
  <2>4. Of(s.frames \o r.frames, Inner)
    BY <2>2, <2>3, OfJoin
  <2> QED BY <1>1, <2>2, <2>4 DEF Encoded
<1> QED BY <1>2, <1>3

LEMMA RelayedStop ==
  ASSUME format.client \in Formats, NEW ev, Event(ev), ev.type = "message_stop", EncOpen(format.client, enc)
  PROVE  /\ \E z : Relayed(ev).frames = <<z>> /\ Event(z) /\ z.type = "message_stop"
         /\ format.client = "responses" => /\ DOMAIN Relayed(ev).enc = EncFields
                                           /\ Relayed(ev).enc.completed = TRUE /\ Relayed(ev).enc.started = TRUE
<1> DEFINE r == Encode(format.client, enc, ev)
<1>1. ~LacksStart(ev)
  BY DEF LacksStart
<1>2. Relayed(ev) = Encoded(r.enc, <<>> \o r.frames)
  BY <1>1 DEF Relayed, Encoded
<1>3. PICK z : r.frames = <<z>> /\ Event(z) /\ z.type = "message_stop"
  BY EncodeStop
<1>4. format.client = "responses" => DOMAIN r.enc = EncFields /\ r.enc.completed = TRUE /\ r.enc.started = TRUE
  BY EncodeStop
<1> HIDE DEF r
<1>5. <<>> \o <<z>> = <<z>>
  OBVIOUS
<1>6. Relayed(ev).frames = <<z>> /\ Relayed(ev).enc = r.enc
  BY <1>2, <1>3, <1>5 DEF Encoded
<1> QED BY <1>3, <1>4, <1>6

LEMMA EndsForward == ASSUME EndInv, Forward PROVE EndInv'
<1> USE DEF EndInv
<1> DEFINE ev == Head(chan)
           R == Relayed(ev)
           s == R.frames
<1>1. /\ format' = format /\ up' = up /\ dec' = dec /\ left' = left /\ reader' = reader /\ pending' = pending
      /\ pump' = pump /\ ending' = ending /\ saves' = saves /\ records' = records
  BY DEF Forward, upVars, readVars, endVars
<1>2. /\ pump = "loop" /\ chan # <<>> /\ ev.type # "error" /\ chan' = Tail(chan)
      /\ wire' = wire \o s /\ enc' = R.enc
  BY DEF Forward
<1> HIDE DEF R
<1>3. ~Stop(wire) /\ NoError(wire) /\ Of(wire, Types) /\ Of(chan, Types) /\ StopLast(chan) /\ format.stream
  BY <1>2 DEF WireOk, TypeR, PipeOk, Complete
<1>4. /\ Of(chan', Types) /\ StopLast(chan') /\ (Stop(chan') => Stop(chan))
      /\ Event(ev) /\ ev.type \in Types
      /\ ev.type = "message_stop" => chan' = <<>> /\ Stop(chan)
      /\ ev.type # "message_stop" /\ Stop(chan) => Stop(chan')
  BY <1>2, <1>3, StopTail
<1> HIDE DEF ev
<1>5. format.client = "responses" => /\ DOMAIN enc = EncFields /\ enc.completed = FALSE
                                     /\ (enc.completed = TRUE => enc.started = TRUE)
  BY <1>2, <1>3 DEF EncKnows
<1>6. format.client \in Formats
  BY DEF TypeR
<1>7. /\ Of(wire', Types) /\ StopLast(wire') /\ NoError(wire') /\ (Stop(wire') <=> ev.type = "message_stop")
      /\ format.client = "responses" =>
           /\ DOMAIN enc' = EncFields /\ (enc'.completed = TRUE \/ enc'.completed = FALSE) /\ enc'.started = TRUE
           /\ (enc'.completed = TRUE <=> ev.type = "message_stop")
  <2>1. CASE ev.type = "message_stop"
    <3>1. PICK z : s = <<z>> /\ Event(z) /\ z.type = "message_stop"
      BY <1>4, <1>5, <1>6, <2>1, RelayedStop DEF EncOpen, R
    <3>2. Of(s, Types) /\ Stop(s) /\ StopLast(s) /\ NoError(s)
      BY <3>1, StopOne
    <3>3. Of(wire', Types) /\ StopLast(wire') /\ NoError(wire') /\ Stop(wire')
      <4> HIDE DEF s
      <4> QED BY <1>2, <1>3, <3>2, StopJoin
    <3>4. format.client = "responses" =>
            DOMAIN R.enc = EncFields /\ R.enc.completed = TRUE /\ R.enc.started = TRUE
      BY <1>4, <1>5, <1>6, <2>1, RelayedStop DEF EncOpen, R
    <3> QED BY <1>2, <2>1, <3>3, <3>4
  <2>2. CASE ev.type # "message_stop"
    <3>1. ev.type \in Inner
      BY <1>2, <1>4, <2>2 DEF Types
    <3>2. Of(s, Inner) /\ (format.client = "responses" => EncNext(enc, R.enc))
      BY <1>4, <1>5, <1>6, <3>1, RelayedInner DEF R
    <3>3. Of(s, Types) /\ ~Stop(s) /\ StopLast(s) /\ NoError(s)
      <4> HIDE DEF s
      <4> QED BY <3>2, InnerNot
    <3>4. Of(wire', Types) /\ StopLast(wire') /\ NoError(wire') /\ ~Stop(wire')
      <4> HIDE DEF s
      <4> QED BY <1>2, <1>3, <3>3, StopJoin
    <3> QED BY <1>2, <1>5, <2>2, <3>2, <3>4 DEF EncNext
  <2> QED BY <2>1, <2>2
<1>8. UpOk'
  BY <1>1 DEF TypeR, UpOk, OpenNow
<1>9. TypeR'
  BY <1>1, <1>4, <1>7, <1>8 DEF TypeR
<1>10. Complete' /\ OverOk' /\ Returned'
  BY <1>1, <1>2, <1>3 DEF Complete, OverOk, Returned
<1>11. PipeOk'
  BY <1>1, <1>2, <1>4 DEF PipeOk, ContextDone
<1>12. WireOk'
  BY <1>1, <1>2, <1>4, <1>7 DEF WireOk, PipeOk
<1>13. OnItsWay'
  BY <1>1, <1>2, <1>3, <1>4, <1>7 DEF OnItsWay
<1>14. EncKnows'
  BY <1>1, <1>7 DEF EncKnows
<1> QED BY <1>9, <1>10, <1>11, <1>12, <1>13, <1>14

LEMMA FlushIs ==
  ASSUME NEW e, e.completed = TRUE \/ e.completed = FALSE, e.completed = TRUE => e.started = TRUE
  PROVE  /\ e.completed = TRUE => FlushResponses(e) = <<>>
         /\ e.completed = FALSE => \E q, z : /\ FlushResponses(e) = q \o <<z>> /\ Of(q, Inner)
                                             /\ Event(z) /\ z.type = "message_stop"
<1>1. ASSUME e.completed = TRUE PROVE FlushResponses(e) = <<>>
  <2>1. FlushResponses(e) = <<>> \o <<>>
    BY <1>1 DEF FlushResponses
  <2>2. <<>> \o <<>> = <<>>
    OBVIOUS
  <2> QED BY <2>1, <2>2
<1>2. ASSUME e.completed = FALSE
      PROVE  \E q, z : FlushResponses(e) = q \o <<z>> /\ Of(q, Inner) /\ Event(z) /\ z.type = "message_stop"
  <2> DEFINE q == IF e.started THEN <<>> ELSE <<MessageStart({})>>
             z == MessageStop(ByIndex(e.items), e.usage)
  <2>1. FlushResponses(e) = q \o <<z>>
    BY <1>2 DEF FlushResponses, CompletedFrames
  <2>2. Of(q, Inner)
    BY OfMade
  <2>3. Event(z) /\ z.type = "message_stop"
    BY MadeIs
  <2> HIDE DEF q, z
  <2> QED BY <2>1, <2>2, <2>3
<1> QED BY <1>1, <1>2

LEMMA EndsSettle == ASSUME EndInv, Settle PROVE EndInv'
<1> USE DEF EndInv
<1> DEFINE status == IF Succeeds THEN "ok" ELSE "error"
           rcd == [status |-> status, usage |-> result.usage]
<1>1. /\ format' = format /\ up' = up /\ dec' = dec /\ left' = left /\ reader' = reader /\ pending' = pending
      /\ chan' = chan /\ ending' = ending /\ enc' = enc
  BY DEF Settle, upVars, readVars
<1>2. /\ pump = "settle" /\ pump' = "returned"
      /\ wire' = (IF Flushes THEN wire \o FlushResponses(enc) ELSE wire)
      /\ (~Saves => saves' = saves)
      /\ records' = Append(records, rcd)
  BY DEF Settle
<1>3. /\ Of(wire, Types) /\ saves = <<>> /\ records = <<>> /\ ending \in {"over", "gone", "signalled"} /\ format.stream
  BY <1>2 DEF TypeR, WireOk, Complete
<1>4. DOMAIN records' = {1} /\ records'[1].status = status
  <2>1. records' = <<rcd>>
    BY <1>2, <1>3
  <2>2. records'[1] = rcd /\ DOMAIN records' = {1}
    BY <2>1
  <2>3. rcd.status = status
    OBVIOUS
  <2> HIDE DEF rcd
  <2> QED BY <2>2, <2>3
<1>5. status = "ok" => ending = "over"
  BY DEF Succeeds
<1>6. ending # "over" => status = "error" /\ saves' = <<>> /\ wire' = wire
  BY <1>2, <1>3 DEF Succeeds, Saves, Flushes
<1>7. ending # "signalled" => StopLast(wire) /\ NoError(wire)
  BY <1>2 DEF WireOk
<1>8. /\ Of(wire', Types)
      /\ ending # "signalled" => StopLast(wire') /\ NoError(wire') /\ (Stop(wire) => Stop(wire'))
  <2>1. CASE ~Flushes
    BY <1>2, <1>3, <1>7, <2>1
  <2>2. CASE Flushes
    <3>1. format.client = "responses" /\ ending = "over" /\ wire' = wire \o FlushResponses(enc)
      BY <1>2, <2>2 DEF Flushes
    <3>2. /\ enc.completed = TRUE \/ enc.completed = FALSE
          /\ enc.completed = TRUE <=> Stop(wire)
          /\ enc.completed = TRUE => enc.started = TRUE
      BY <1>2, <1>3, <3>1 DEF EncKnows
    <3>3. CASE enc.completed = TRUE
      <4>1. FlushResponses(enc) = <<>>
        BY <3>2, <3>3, FlushIs
      <4>2. wire \o <<>> = wire
        <5>1. PICK X : wire \in Seq(X)
          BY <1>3 DEF Of
        <5> QED BY <5>1
      <4> QED BY <1>3, <1>7, <3>1, <4>1, <4>2
    <3>4. CASE enc.completed = FALSE
      <4>1. PICK q, z : FlushResponses(enc) = q \o <<z>> /\ Of(q, Inner) /\ Event(z) /\ z.type = "message_stop"
        BY <3>2, <3>4, FlushIs
      <4> DEFINE e == <<z>>
      <4>2. Of(e, Types) /\ Stop(e) /\ StopLast(e) /\ NoError(e)
        BY <4>1, StopOne
      <4> HIDE DEF e
      <4>3. Of(q, Types) /\ ~Stop(q) /\ NoError(q)
        BY <4>1, InnerNot
      <4> DEFINE f == q \o e
      <4>4. Of(f, Types) /\ Stop(f) /\ StopLast(f) /\ NoError(f)
        BY <4>2, <4>3, StopJoin
      <4>5. wire' = wire \o f
        BY <3>1, <4>1 DEF e
      <4> HIDE DEF f
      <4>6. ~Stop(wire) /\ NoError(wire)
        BY <1>7, <3>1, <3>2, <3>4
      <4> QED BY <1>3, <4>4, <4>5, <4>6, StopJoin
    <3> QED BY <3>2, <3>3, <3>4
  <2> QED BY <2>1, <2>2
<1> HIDE DEF status
<1>9. UpOk'
  BY <1>1 DEF TypeR, UpOk, OpenNow
<1>10. TypeR'
  BY <1>1, <1>2, <1>8, <1>9 DEF TypeR
<1>11. Complete' /\ OverOk' /\ OnItsWay' /\ EncKnows'
  BY <1>1, <1>2, <1>3 DEF Complete, OverOk, OnItsWay, EncKnows
<1>12. PipeOk'
  BY <1>1, <1>2 DEF PipeOk, ContextDone
<1>13. WireOk'
  BY <1>1, <1>2 DEF WireOk
<1>14. LastOnly(wire')
  <2>1. CASE ending = "signalled"
    <3>1. wire' = wire /\ ~Stop(wire) /\ \A i \in 1 .. Len(wire) : wire[i].type = "error" => i = Len(wire)
      BY <1>2, <1>6, <2>1 DEF WireOk
    <3> QED BY <3>1 DEF LastOnly, Stop
  <2>2. CASE ending # "signalled"
    BY <1>8, <2>2 DEF LastOnly, StopLast, NoError
  <2> QED BY <2>1, <2>2
<1>15. status = "ok" => reader = "closed" /\ (~left /\ up.phase = "ended" => Stop(wire'))
  <2> SUFFICES ASSUME status = "ok" PROVE reader = "closed" /\ (~left /\ up.phase = "ended" => Stop(wire'))
    OBVIOUS
  <2>1. ending = "over" /\ reader = "closed" /\ chan = <<>>
    BY <1>2, <1>5 DEF WireOk, OverOk
  <2>2. ASSUME ~left, up.phase = "ended" PROVE Stop(wire')
    <3>1. Stop(chan) \/ Stop(pending) \/ Stop(wire)
      BY <1>2, <1>3, <2>1, <2>2 DEF OnItsWay
    <3>2. pending = <<>>
      BY <1>2, <2>1, <2>2 DEF PipeOk, ContextDone
    <3> QED BY <1>8, <2>1, <3>1, <3>2, StopEmpty
  <2> QED BY <2>1, <2>2
<1>16. ~NoError(wire') => saves' = <<>> /\ status = "error"
  BY <1>3, <1>6, <1>8
<1>17. Returned'
  BY <1>1, <1>4, <1>14, <1>15, <1>16 DEF Returned
<1> QED BY <1>10, <1>11, <1>12, <1>13, <1>17

-----------------------------------------------------------------------------
(* A complete answer, unfolded into events and encoded place once *)

\* The encoder and the frames, one event later.
Grow(f, x, ev) ==
  Encoded(Encode(f, x.enc, ev).enc, x.frames \o Encode(f, x.enc, ev).frames)

First(f) == Encoded(Encoder(f), <<>>)

Encodes(f, evs, n, g) == g = [i \in 0 .. n |-> IF i = 0 THEN First(f) ELSE Grow(f, g[i - 1], evs[i])]

LEMMA EncodesExist == ASSUME NEW f, NEW evs, NEW n \in Nat PROVE \E g : Encodes(f, evs, n, g)
<1> DEFINE T == {z \in Nat : ~\E g : Encodes(f, evs, z, g)}
<1> SUFFICES ASSUME T # {} PROVE FALSE
  OBVIOUS
<1>1. PICK z \in T : \A l \in T : z <= l
  <2>1. T \subseteq Nat
    OBVIOUS
  <2> HIDE DEF T
  <2> QED BY <2>1, LeastNat
<1>2. z \in Nat /\ ~\E g : Encodes(f, evs, z, g)
  OBVIOUS
<1>3. CASE z = 0
  <2> DEFINE g == [i \in 0 .. 0 |-> First(f)]
  <2>1. \A i \in 0 .. 0 : i = 0
    OBVIOUS
  <2>2. g = [i \in 0 .. 0 |-> IF i = 0 THEN First(f) ELSE Grow(f, g[i - 1], evs[i])]
    BY <2>1
  <2> HIDE DEF g
  <2>3. Encodes(f, evs, 0, g)
    BY <2>2 DEF Encodes
  <2> QED BY <1>2, <1>3, <2>3
<1>4. CASE z # 0
  <2>1. z - 1 \in Nat /\ z - 1 \notin T
    BY <1>1, <1>2, <1>4
  <2>2. PICK h : Encodes(f, evs, z - 1, h)
    BY <2>1
  <2> DEFINE last == Grow(f, h[z - 1], evs[z])
             g == [i \in 0 .. z |-> IF i = z THEN last ELSE h[i]]
  <2>3. \A i \in 0 .. z - 1 : h[i] = IF i = 0 THEN First(f) ELSE Grow(f, h[i - 1], evs[i])
    BY <2>1, <2>2 DEF Encodes
  <2>4. ASSUME NEW i \in 0 .. z
        PROVE  g[i] = IF i = 0 THEN First(f) ELSE Grow(f, g[i - 1], evs[i])
    <3>1. CASE i = z
      <4>1. g[i] = last /\ g[i - 1] = h[z - 1]
        BY <1>2, <1>4, <3>1
      <4> QED BY <1>4, <3>1, <4>1
    <3>2. CASE i # z
      <4>1. i \in 0 .. z - 1 /\ g[i] = h[i] /\ (i # 0 => g[i - 1] = h[i - 1])
        BY <1>2, <3>2
      <4> QED BY <2>3, <4>1
    <3> QED BY <3>1, <3>2
  <2>5. Encodes(f, evs, z, g)
    <3>1. g = [i \in 0 .. z |-> g[i]]
      OBVIOUS
    <3> HIDE DEF g
    <3> QED BY <2>4, <3>1 DEF Encodes
  <2> QED BY <1>2, <2>5
<1> QED BY <1>3, <1>4

LEMMA EncodeAllIs ==
  ASSUME NEW f, NEW evs, Len(evs) \in Nat
  PROVE  \E g : Encodes(f, evs, Len(evs), g) /\ EncodeAll(f, evs) = g[Len(evs)]
<1> DEFINE h == CHOOSE g : Encodes(f, evs, Len(evs), g)
<1>1. EncodeAll(f, evs) = h[Len(evs)]
  BY DEF EncodeAll, Encodes, Grow, First
<1>2. \E g : Encodes(f, evs, Len(evs), g)
  BY EncodesExist
<1>3. Encodes(f, evs, Len(evs), h)
  BY <1>2, Zenon
<1> HIDE DEF h
<1> QED BY <1>1, <1>3

LEMMA EncoderOpen == ASSUME NEW f \in Formats PROVE EncOpen(f, Encoder(f))
<1>1. CASE f = "responses"
  <2>1. Encoder(f) = ResponsesEncoder
    BY <1>1 DEF Encoder
  <2> QED BY <1>1, <2>1 DEF EncOpen, EncFields, ResponsesEncoder
<1>2. CASE f # "responses"
  BY <1>2 DEF EncOpen
<1> QED BY <1>1, <1>2

\* Up to the last event, frames inside the answer and an encoder that has ended nothing.
Going(f, x) == Of(x.frames, Inner) /\ EncOpen(f, x.enc)

LEMMA GrowGoes ==
  ASSUME NEW f \in Formats, NEW x, Going(f, x), NEW ev, Event(ev), ev.type \in Inner
  PROVE  Going(f, Grow(f, x, ev))
<1> DEFINE r == Encode(f, x.enc, ev)
<1>1. Of(x.frames, Inner) /\ EncOpen(f, x.enc)
  BY DEF Going
<1>2. Of(r.frames, Inner) /\ (f = "responses" => EncNext(x.enc, r.enc))
  BY <1>1, EncodeInner DEF EncOpen
<1> HIDE DEF r
<1>3. EncOpen(f, r.enc)
  BY <1>1, <1>2 DEF EncOpen, EncNext
<1>4. Of(x.frames \o r.frames, Inner)
  BY <1>1, <1>2, OfJoin
<1>5. Grow(f, x, ev) = Encoded(r.enc, x.frames \o r.frames)
  BY DEF Grow, r
<1> QED BY <1>3, <1>4, <1>5 DEF Going, Encoded

LEMMA EncodesGoing ==
  ASSUME NEW f \in Formats, NEW evs, NEW n \in Nat, NEW g, Encodes(f, evs, n, g),
         \A i \in 1 .. n - 1 : Event(evs[i]) /\ evs[i].type \in Inner
  PROVE  \A i \in 0 .. n - 1 : Going(f, g[i])
<1> DEFINE T == {i \in 0 .. n - 1 : ~Going(f, g[i])}
<1> SUFFICES ASSUME T # {} PROVE FALSE
  OBVIOUS
<1>1. PICK z \in T : \A l \in T : z <= l
  <2>1. T \subseteq Nat
    OBVIOUS
  <2> HIDE DEF T
  <2> QED BY <2>1, LeastNat
<1>2. z \in 0 .. n - 1 /\ ~Going(f, g[z])
  OBVIOUS
<1>3. g[z] = IF z = 0 THEN First(f) ELSE Grow(f, g[z - 1], evs[z])
  BY <1>2 DEF Encodes
<1>4. CASE z = 0
  <2>1. g[z] = First(f)
    BY <1>3, <1>4
  <2>2. Going(f, First(f))
    BY EncoderOpen, OfEmpty DEF Going, First, Encoded
  <2> QED BY <1>2, <2>1, <2>2
<1>5. CASE z # 0
  <2>1. z - 1 \in 0 .. n - 1 /\ z - 1 \notin T /\ z \in 1 .. n - 1
    BY <1>1, <1>2, <1>5
  <2>2. Going(f, g[z - 1])
    BY <2>1
  <2>3. Going(f, Grow(f, g[z - 1], evs[z]))
    <3> DEFINE x == g[z - 1]
               ev == evs[z]
    <3>1. Going(f, x) /\ Event(ev) /\ ev.type \in Inner
      BY <2>1, <2>2
    <3> HIDE DEF x, ev
    <3>2. Going(f, Grow(f, x, ev))
      BY <3>1, GrowGoes
    <3> QED BY <3>2 DEF x, ev
  <2> QED BY <1>2, <1>3, <1>5, <2>3
<1> QED BY <1>4, <1>5

\* What is written of events that end with their only end does too.
LEMMA EncodeAllEnds ==
  ASSUME NEW f \in Formats, NEW evs, Finishes(evs)
  PROVE  LET s == EncodeAll(f, evs).frames IN Of(s, Types) /\ Stop(s) /\ StopLast(s) /\ NoError(s)
<1>1. PICK q : Of(q, Inner) /\ evs = q \o <<Ended>>
  BY DEF Finishes
<1> DEFINE e == <<Ended>>
           n == Len(q) + 1
<1>2. Event(Ended) /\ Ended.type = "message_stop"
  BY MadeIs DEF Ended
<1>3. Of(e, Types) /\ Len(e) = 1 /\ e[1] = Ended /\ Of(q, Types)
  BY <1>1, <1>2, OfOne, OfWider DEF Types
<1> HIDE DEF e
<1>4. /\ evs = q \o e /\ Len(q) \in Nat
      /\ Len(q \o e) = Len(q) + Len(e) /\ (\A i \in 1 .. Len(q) : (q \o e)[i] = q[i])
      /\ (\A i \in 1 .. Len(e) : (q \o e)[Len(q) + i] = e[i])
  BY <1>1, <1>3, OfJoin, OfLen DEF e
<1>5. Len(evs) = n /\ n \in Nat /\ evs[n] = Ended /\ n - 1 \in 0 .. n - 1 /\ n \in 0 .. n /\ n # 0
  BY <1>3, <1>4
<1>6. \A i \in 1 .. n - 1 : Event(evs[i]) /\ evs[i].type \in Inner
  <2> TAKE i \in 1 .. n - 1
  <2>1. i \in 1 .. Len(q)
    BY <1>4
  <2> QED BY <1>1, <1>4, <2>1 DEF Of
<1> HIDE DEF n
<1>7. PICK g : Encodes(f, evs, n, g) /\ EncodeAll(f, evs) = g[n]
  BY <1>5, EncodeAllIs
<1>8. Going(f, g[n - 1])
  BY <1>5, <1>6, <1>7, EncodesGoing
<1>9. g[n] = Grow(f, g[n - 1], Ended)
  BY <1>5, <1>7 DEF Encodes
<1> DEFINE x == g[n - 1]
           r == Encode(f, x.enc, Ended)
<1> HIDE DEF x
<1>10. Of(x.frames, Inner) /\ EncOpen(f, x.enc)
  BY <1>8 DEF Going, x
<1>11. PICK z : r.frames = <<z>> /\ Event(z) /\ z.type = "message_stop"
  BY <1>2, <1>10, EncodeStop
<1>12. EncodeAll(f, evs).frames = x.frames \o r.frames
  <2>1. EncodeAll(f, evs) = Grow(f, x, Ended)
    BY <1>7, <1>9 DEF x
  <2>2. Grow(f, x, Ended).frames = x.frames \o r.frames
    BY DEF Grow, Encoded
  <2> QED BY <2>1, <2>2
<1> DEFINE a == x.frames
           b == r.frames
<1> HIDE DEF r
<1>13. Of(b, Types) /\ Stop(b) /\ StopLast(b) /\ NoError(b)
  BY <1>11, StopOne
<1>14. Of(a, Types) /\ ~Stop(a) /\ NoError(a)
  BY <1>10, InnerNot
<1> HIDE DEF a, b
<1>15. Of(a \o b, Types) /\ Stop(a \o b) /\ StopLast(a \o b) /\ NoError(a \o b)
  BY <1>13, <1>14, StopJoin
<1> QED BY <1>12, <1>15 DEF a, b

LEMMA FullFlattenIs ==
  ASSUME NEW seqs, Len(seqs) \in Nat \ {0}
  PROVE  \E g : Flattens(seqs, Len(seqs), g) /\ FlattenSeq(seqs) = g[Len(seqs)]
<1> DEFINE f == CHOOSE g : Flattens(seqs, Len(seqs), g)
<1>1. FlattenSeq(seqs) = f[Len(seqs)]
  BY DEF FlattenSeq, Flattens
<1>2. \E g : Flattens(seqs, Len(seqs), g)
  <2> DEFINE n == Len(seqs)
  <2>1. n \in Nat
    OBVIOUS
  <2> HIDE DEF n
  <2>2. \E g : Flattens(seqs, n, g)
    BY <2>1, FlattensExist
  <2> QED BY <2>2 DEF n
<1>3. Flattens(seqs, Len(seqs), f)
  BY <1>2, Zenon
<1> HIDE DEF f
<1> QED BY <1>1, <1>3

\* Sequences of events of the same types, put together.
LEMMA FlattenOf ==
  ASSUME NEW T, NEW n \in Nat, NEW seqs, seqs = [i \in 1 .. n |-> seqs[i]], \A i \in 1 .. n : Of(seqs[i], T)
  PROVE  Of(FlattenSeq(seqs), T)
<1> DEFINE X == UNION {{seqs[i][j] : j \in 1 .. Len(seqs[i])} : i \in 1 .. n}
<1>1. \A i \in 1 .. n : seqs[i] \in Seq(X)
  <2> TAKE i \in 1 .. n
  <2> DEFINE s == seqs[i]
  <2>1. \A j \in 1 .. Len(s) : s[j] \in X
    OBVIOUS
  <2> HIDE DEF X
  <2>2. PICK Y : s \in Seq(Y)
    BY DEF Of
  <2> HIDE DEF s
  <2>3. s \in Seq(X)
    BY <2>1, <2>2
  <2> QED BY <2>3 DEF s
<1>2. \A x \in X : Event(x) /\ x.type \in T
  <2> SUFFICES ASSUME NEW i \in 1 .. n, NEW j \in 1 .. Len(seqs[i])
               PROVE  Event(seqs[i][j]) /\ seqs[i][j].type \in T
    OBVIOUS
  <2> HIDE DEF X
  <2> QED BY DEF Of
<1> HIDE DEF X
<1>3. seqs \in Seq({seqs[i] : i \in 1 .. n}) /\ Len(seqs) = n
  BY SMT
<1>4. FlattenSeq(seqs) \in Seq(X)
  <2>1. CASE n = 0
    <3>1. FlattenSeq(seqs) = seqs
      BY <1>3, <2>1 DEF FlattenSeq
    <3>2. seqs = <<>>
      BY <1>3, <2>1, EmptySeq
    <3>3. <<>> \in Seq(X)
      OBVIOUS
    <3> QED BY <3>1, <3>2, <3>3
  <2>2. CASE n # 0
    <3>1. PICK g : Flattens(seqs, n, g) /\ FlattenSeq(seqs) = g[n]
      BY <1>3, <2>2, FullFlattenIs
    <3>2. \A q, r \in Seq(X) : q \o r \in Seq(X)
      BY ConcatProperties
    <3>3. \A i \in 1 .. n : g[i] \in Seq(X)
      BY <1>1, <3>1, <3>2, FlattensIn
    <3> QED BY <2>2, <3>1, <3>3
  <2> QED BY <2>1, <2>2
<1> DEFINE w == FlattenSeq(seqs)
<1> HIDE DEF w
<1>5. w \in Seq(X)
  BY <1>4 DEF w
<1>6. \A i \in 1 .. Len(w) : w[i] \in X
  BY <1>5
<1>7. Of(w, T)
  BY <1>2, <1>5, <1>6 DEF Of
<1> QED BY <1>7 DEF w

LEMMA BlockEventsAre == ASSUME NEW i, NEW b PROVE Of(BlockStreamEvents(i, b), BlockTypes)
<1> DEFINE v == Header(b.kind, b.call, IF b.kind = "opaque" THEN b.frags ELSE <<>>)
           p == <<BlockStart(i, b.kind, v)>>
           q == IF b.frags = <<>> \/ b.kind = "opaque" THEN <<>> ELSE <<BlockDelta(i, b.kind, b.frags)>>
           r == IF b.frags = <<>> \/ b.kind # "thinking" THEN <<>> ELSE <<BlockDelta(i, "signature", <<>>)>>
           s == <<BlockStop(i)>>
<1>1. Of(p, BlockTypes) /\ Of(q, BlockTypes) /\ Of(r, BlockTypes) /\ Of(s, BlockTypes)
  BY OfMade
<1>2. BlockStreamEvents(i, b) = p \o q \o r \o s
  BY DEF BlockStreamEvents
<1> HIDE DEF p, q, r, s
<1>3. Of(p \o q \o r \o s, BlockTypes)
  BY <1>1, OfJoin
<1> QED BY <1>2, <1>3

LEMMA ResponseEnds ==
  ASSUME NEW n \in Nat, NEW body, DOMAIN body = 1 .. n
  PROVE  Finishes(ResponseStreamEvents(body))
<1> DEFINE seqs == [b \in 1 .. n |-> BlockStreamEvents(b - 1, body[b])]
           a == <<MessageStart({"in"})>>
           w == FlattenSeq(seqs)
           z == MessageDelta(Full)
<1>1. Of(a, Inner) /\ Of(<<z>>, Inner)
  BY OfMade
<1>2. Of(w, Inner)
  <2>1. seqs = [i \in 1 .. n |-> seqs[i]] /\ \A i \in 1 .. n : seqs[i] = BlockStreamEvents(i - 1, body[i])
    OBVIOUS
  <2> HIDE DEF seqs
  <2>2. \A i \in 1 .. n : Of(seqs[i], Inner)
    BY <2>1, BlockEventsAre, OfInner
  <2> QED BY <2>1, <2>2, FlattenOf
<1>3. ResponseStreamEvents(body) = a \o w \o <<z, Ended>>
  BY DEF ResponseStreamEvents
<1> HIDE DEF a, w, z, seqs
<1>4. <<z, Ended>> = <<z>> \o <<Ended>>
  OBVIOUS
<1>5. Finishes(<<z>> \o <<Ended>>)
  BY <1>1 DEF Finishes
<1>6. Of(a \o w, Inner)
  BY <1>1, <1>2, OfJoin
<1> QED BY <1>3, <1>4, <1>5, <1>6, EndsLater

LEMMA AnswerDomain ==
  ASSUME MaxBlocks \in Nat, NEW body \in Answers PROVE \E n \in Nat : DOMAIN body = 1 .. n
<1>1. PICK n \in 0 .. MaxBlocks :
        body \in {Answer(kinds, full) : kinds \in [1 .. n -> Kinds], full \in SUBSET (1 .. n)}
  BY DEF Answers
<1>2. PICK kinds \in [1 .. n -> Kinds], full \in SUBSET (1 .. n) : body = Answer(kinds, full)
  BY <1>1
<1>3. DOMAIN body = DOMAIN kinds
  BY <1>2 DEF Answer
<1> QED BY <1>1, <1>2, <1>3

LEMMA EndsExpand == ASSUME MaxBlocks \in Nat, EndInv, ExpandFullResponse PROVE EndInv'
<1> USE DEF EndInv
<1>1. /\ format' = format /\ dec' = dec /\ left' = left /\ reader' = reader /\ pending' = pending /\ chan' = chan
      /\ ending' = ending /\ pump = "loop" /\ pump' = "returned" /\ ~format.stream
      /\ up' = [up EXCEPT !.phase = "ended", !.usage = Full]
  BY DEF ExpandFullResponse
<1>2. PICK body \in Answers : wire' = EncodeAll(format.client, ResponseStreamEvents(body)).frames
  BY DEF ExpandFullResponse
<1>3. PICK n \in Nat : DOMAIN body = 1 .. n
  BY AnswerDomain
<1> DEFINE evs == ResponseStreamEvents(body)
<1>4. Finishes(evs)
  BY <1>3, ResponseEnds
<1> HIDE DEF evs
<1>5. Of(wire', Types) /\ Stop(wire') /\ StopLast(wire') /\ NoError(wire')
  <2> DEFINE s == EncodeAll(format.client, evs).frames
  <2>1. Of(s, Types) /\ Stop(s) /\ StopLast(s) /\ NoError(s)
    BY <1>4, EncodeAllEnds DEF TypeR
  <2>2. wire' = s
    BY <1>2 DEF evs
  <2> HIDE DEF s
  <2> QED BY <2>1, <2>2
<1>6. reader = "closed" /\ chan = <<>> /\ up.blocks = <<>> /\ ending = "none"
  BY <1>1 DEF Complete, WireOk
<1>7. up'.phase = "ended" /\ up'.blocks = <<>> /\ DOMAIN up' = UpShape
  BY <1>1, <1>6 DEF TypeR, UpOk, UpShape
<1>8. UpOk'
  <2>1. DOMAIN <<>> = {}
    OBVIOUS
  <2>2. DOMAIN up'.blocks = {}
    BY <1>7, <2>1
  <2>3. OpenNow' = {}
    BY <2>2 DEF OpenNow
  <2> QED BY <1>7, <2>3 DEF UpOk, Phases
<1>9. TypeR'
  BY <1>1, <1>5, <1>8 DEF TypeR
<1>10. Complete' /\ OverOk' /\ OnItsWay' /\ EncKnows'
  BY <1>1, <1>6, <1>7 DEF Complete, OverOk, OnItsWay, EncKnows
<1>11. PipeOk'
  BY <1>1, <1>6, <1>7 DEF PipeOk, ContextDone
<1>12. WireOk'
  BY <1>1, <1>6 DEF WireOk
<1>13. LastOnly(wire')
  BY <1>5 DEF LastOnly, StopLast, NoError
<1>14. Returned'
  BY <1>1, <1>5, <1>6, <1>13 DEF Returned
<1> QED BY <1>9, <1>10, <1>11, <1>12, <1>14

LEMMA EndsInit == ASSUME Clients \subseteq Formats, RelayInit PROVE EndInv
<1>1. /\ format \in [up : Upstreams, client : Clients, stream : BOOLEAN]
      /\ up = [phase |-> "new", blocks |-> <<>>, usage |-> {}]
      /\ dec = Decoder(format.up) /\ enc = Encoder(format.client)
      /\ pending = <<>> /\ chan = <<>> /\ wire = <<>> /\ saves = <<>> /\ records = <<>>
      /\ left = FALSE /\ pump = "loop" /\ ending = "none"
  BY DEF RelayInit
<1>2. reader = IF format.stream THEN "scan" ELSE "closed"
  BY DEF RelayInit
<1>3. UpOk
  BY <1>1 DEF UpOk, UpShape, Phases
<1>4. format.up = "openai" => DecOk(dec)
  <2> SUFFICES ASSUME format.up = "openai" PROVE DecOk(dec)
    OBVIOUS
  <2>1. dec = OpenAIDecoder
    BY <1>1 DEF Decoder
  <2>2. dec.tools = <<>> /\ DOMAIN dec = DecFields
    BY <2>1 DEF OpenAIDecoder, DecFields
  <2>3. Tools(dec) = {}
    BY <2>2 DEF Tools
  <2> QED BY <2>2, <2>3, FS_EmptySet DEF DecOk
<1>5. TypeR
  BY <1>1, <1>2, <1>3, <1>4, OfEmpty DEF TypeR
<1>6. Complete /\ OverOk /\ Returned
  BY <1>1, <1>2 DEF Complete, OverOk, Returned
<1>7. PipeOk
  BY <1>1, <1>2, StopEmpty DEF PipeOk
<1>8. WireOk
  BY <1>1, StopEmpty DEF WireOk
<1>9. OnItsWay
  BY <1>1 DEF OnItsWay
<1>10. EncKnows
  <2> SUFFICES ASSUME format.client = "responses" PROVE EncKnows
    BY DEF EncKnows
  <2>1. enc = ResponsesEncoder
    BY <1>1 DEF Encoder
  <2>2. DOMAIN enc = EncFields /\ enc.completed = FALSE
    BY <2>1 DEF ResponsesEncoder, EncFields
  <2> QED BY <1>1, <2>2, StopEmpty DEF EncKnows
<1> QED BY <1>5, <1>6, <1>7, <1>8, <1>9, <1>10 DEF EndInv

LEMMA EndsStutter == ASSUME EndInv, UNCHANGED relayVars PROVE EndInv'
<1>1. /\ format' = format /\ up' = up /\ dec' = dec /\ reader' = reader /\ pending' = pending /\ chan' = chan
      /\ left' = left /\ pump' = pump /\ ending' = ending /\ enc' = enc /\ wire' = wire /\ saves' = saves
      /\ records' = records
  BY DEF relayVars, upVars, readVars, outVars, endVars
<1>2. UpOk'
  BY <1>1 DEF EndInv, TypeR, UpOk, OpenNow
<1>3. TypeR' /\ Complete' /\ OverOk' /\ Returned'
  BY <1>1, <1>2 DEF EndInv, TypeR, Complete, OverOk, Returned
<1>4. PipeOk' /\ WireOk'
  BY <1>1 DEF EndInv, PipeOk, WireOk, ContextDone
<1>5. OnItsWay' /\ EncKnows'
  BY <1>1 DEF EndInv, OnItsWay, EncKnows
<1> QED BY <1>3, <1>4, <1>5 DEF EndInv

LEMMA EndsNext == ASSUME MaxBlocks \in Nat, EndInv, [RelayNext]_relayVars PROVE EndInv'
<1>1. CASE UpstreamSends
  <2>1. UpOk
    BY DEF EndInv, TypeR
  <2>2. PICK c : UpStep(c)
    BY <1>1, <2>1, UpstreamStep
  <2> QED BY <2>2, EndsStep
<1>2. CASE SendEvent
  BY <1>2, EndsSendEvent
<1>3. CASE Abandon \/ BodyEnds \/ ReadFails \/ Leave
  BY <1>3, EndsQuiet
<1>4. CASE Forward
  BY <1>4, EndsForward
<1>5. CASE UpstreamError
  BY <1>5, EndsError
<1>6. CASE StreamOver \/ SeesClientGone
  BY <1>6, EndsOver
<1>7. CASE Settle
  BY <1>7, EndsSettle
<1>8. CASE ExpandFullResponse
  BY <1>8, EndsExpand
<1>9. CASE UNCHANGED relayVars
  BY <1>9, EndsStutter
<1> QED BY <1>1, <1>2, <1>3, <1>4, <1>5, <1>6, <1>7, <1>8, <1>9 DEF RelayNext, Reader, Pump

LEMMA EndsWell == ASSUME EndInv PROVE OneEnd
<1> USE DEF EndInv
<1>1. Len(wire) \in Nat /\ DOMAIN wire = 1 .. Len(wire)
  BY OfLen DEF TypeR
<1>2. \A p \in Terminal : p \in 1 .. Len(wire) /\ wire[p].type \in {"message_stop", "error"}
  BY <1>1 DEF Terminal
<1>3. LastOnly(wire)
  <2>1. CASE pump = "returned"
    BY <2>1 DEF Returned
  <2>2. CASE pump # "returned" /\ ending = "signalled"
    <3>1. pump = "settle"
      BY <2>2 DEF TypeR, WireOk
    <3> QED BY <2>2, <3>1 DEF WireOk, LastOnly, Stop
  <2>3. CASE pump # "returned" /\ ending # "signalled"
    BY <2>3 DEF WireOk, LastOnly, StopLast, NoError
  <2> QED BY <2>1, <2>2, <2>3
<1>4. Terminal \subseteq {Len(wire)}
  BY <1>2, <1>3 DEF LastOnly
<1>5. ASSUME EndedWell, up.phase = "ended" PROVE Terminal # {}
  <2>1. records # <<>> /\ records[1].status = "ok" /\ ~left
    BY <1>5 DEF EndedWell
  <2>2. pump = "returned"
    BY <2>1 DEF WireOk
  <2>3. Stop(wire)
    BY <1>5, <2>1, <2>2 DEF Returned
  <2> QED BY <1>1, <2>3 DEF Stop, Terminal
<1>6. ASSUME format.stream, NEW p \in Terminal, wire[p].type = "error"
      PROVE  saves = <<>> /\ \A r \in DOMAIN records : records[r].status = "error"
  <2>1. ~NoError(wire)
    BY <1>2, <1>6 DEF NoError
  <2>2. CASE pump = "returned"
    BY <1>6, <2>1, <2>2 DEF Returned
  <2>3. CASE pump # "returned"
    <3>1. saves = <<>> /\ records = <<>>
      BY <2>3 DEF WireOk
    <3>2. DOMAIN <<>> = {}
      OBVIOUS
    <3> QED BY <3>1, <3>2
  <2> QED BY <2>2, <2>3
<1> QED BY <1>4, <1>5, <1>6 DEF OneEnd

\* For any formats of the two sides, kinds of block, buffer and bounds.
THEOREM OneEndAlways == RelaySpec => []OneEnd
<1>1. RelayInit => EndInv
  BY EndsInit, FormatsAssumption
<1>2. EndInv /\ [RelayNext]_relayVars => EndInv'
  BY EndsNext, BlocksAssumption
<1>3. EndInv => OneEnd
  BY EndsWell
<1> QED BY <1>1, <1>2, <1>3, PTL DEF RelaySpec

-----------------------------------------------------------------------------
(* The usage, from the decoder to the client and the record *)

Uses(s)     == UNION {s[i].usage : i \in 1 .. Len(s)}
Reported(s) == \E i \in 1 .. Len(s) : s[i].type = "message_delta"

\* The events s start the answer with one of the usages X, if at all and then first, and report the usages Y.
Tells(s, X, Y) ==
  /\ Of(s, Types)
  /\ \A i \in 1 .. Len(s) :
       IF s[i].type = "message_start" THEN i = 1 /\ s[i].usage \in X
       ELSE s[i].usage \in IF s[i].type = "message_delta" THEN Y ELSE {{}}
  /\ Y # {} => Reported(s)

LEMMA TellsThen ==
  ASSUME NEW q, NEW r, NEW X, NEW Y, NEW Z, Tells(q, X, Y), Tells(r, {}, Z)
  PROVE  Tells(q \o r, X, Y \union Z)
<1> DEFINE w == q \o r
<1>1. Of(q, Types) /\ Of(r, Types)
  BY DEF Tells
<1>2. /\ Of(w, Types) /\ Len(w) = Len(q) + Len(r) /\ Len(q) \in Nat /\ Len(r) \in Nat
      /\ \A i \in 1 .. Len(q) : w[i] = q[i]
      /\ \A i \in 1 .. Len(r) : w[Len(q) + i] = r[i]
  BY <1>1, OfJoin, OfLen
<1> HIDE DEF w
<1>3. ASSUME NEW i \in 1 .. Len(w)
      PROVE  IF w[i].type = "message_start" THEN i = 1 /\ w[i].usage \in X
             ELSE w[i].usage \in IF w[i].type = "message_delta" THEN Y \union Z ELSE {{}}
  <2>1. CASE i \in 1 .. Len(q)
    BY <1>2, <2>1 DEF Tells
  <2>2. CASE i \notin 1 .. Len(q)
    <3>1. i - Len(q) \in 1 .. Len(r) /\ i = Len(q) + (i - Len(q))
      BY <1>2, <2>2
    <3>2. PICK j \in 1 .. Len(r) : w[i] = r[j]
      BY <1>2, <3>1
    <3> QED BY <3>2 DEF Tells
  <2> QED BY <2>1, <2>2
<1>4. ASSUME Reported(q) \/ Reported(r) PROVE Reported(w)
  <2>1. CASE Reported(q)
    <3>1. PICK i \in 1 .. Len(q) : q[i].type = "message_delta"
      BY <2>1 DEF Reported
    <3>2. i \in 1 .. Len(w) /\ w[i] = q[i]
      BY <1>2
    <3> QED BY <3>1, <3>2 DEF Reported
  <2>2. CASE Reported(r)
    <3>1. PICK i \in 1 .. Len(r) : r[i].type = "message_delta"
      BY <2>2 DEF Reported
    <3>2. Len(q) + i \in 1 .. Len(w) /\ w[Len(q) + i] = r[i]
      BY <1>2
    <3> QED BY <3>1, <3>2 DEF Reported
  <2> QED BY <1>4, <2>1, <2>2
<1>5. Y \union Z # {} => Reported(w)
  BY <1>4 DEF Tells
<1> QED BY <1>2, <1>3, <1>5 DEF Tells, w

LEMMA TellsBlocks == ASSUME NEW s, Of(s, BlockTypes) PROVE Tells(s, {}, {})
<1>1. Of(s, Types)
  BY OfWider DEF BlockTypes, Types, Inner
<1>2. \A i \in 1 .. Len(s) : /\ s[i].type # "message_start" /\ s[i].type # "message_delta"
                             /\ s[i].usage = {}
  BY DEF Of, Event, BlockTypes
<1> QED BY <1>1, <1>2 DEF Tells

LEMMA TellsOne ==
  ASSUME NEW e, Event(e), e.type \in Types, e.type \in {"message_stop", "error"} => e.usage = {}
  PROVE  Tells(<<e>>, IF e.type = "message_start" THEN {e.usage} ELSE {},
                      IF e.type = "message_delta" THEN {e.usage} ELSE {})
<1> DEFINE w == <<e>>
           X == IF e.type = "message_start" THEN {e.usage} ELSE {}
           Y == IF e.type = "message_delta" THEN {e.usage} ELSE {}
<1>1. Of(w, Types) /\ Len(w) = 1 /\ w[1] = e
  BY OfOne
<1> HIDE DEF w
<1>2. \A i \in 1 .. Len(w) : i = 1 /\ w[i] = e
  BY <1>1
<1>3. e.type \notin {"message_start", "message_delta"} => e.usage = {}
  BY DEF Event, Types, Inner, BlockTypes
<1>4. Y # {} => Reported(w)
  BY <1>1 DEF Reported
<1>5. \A i \in 1 .. Len(w) :
        IF w[i].type = "message_start" THEN i = 1 /\ w[i].usage \in X
        ELSE w[i].usage \in IF w[i].type = "message_delta" THEN Y ELSE {{}}
  BY <1>2, <1>3
<1>6. Tells(w, X, Y)
  BY <1>1, <1>4, <1>5 DEF Tells
<1> QED BY <1>6 DEF w

LEMMA TellsMade ==
  ASSUME NEW u
  PROVE  /\ Tells(<<>>, {}, {}) /\ Tells(<<MessageStart(u)>>, {u}, {}) /\ Tells(<<MessageDelta(u)>>, {}, {u})
         /\ Tells(<<Ended>>, {}, {}) /\ Tells(<<ErrorEvent>>, {}, {})
<1>1. Tells(<<>>, {}, {})
  BY OfEmpty, TellsBlocks
<1>2. /\ MessageStart(u).usage = u /\ MessageStart(u).type = "message_start"
      /\ MessageDelta(u).usage = u /\ MessageDelta(u).type = "message_delta"
      /\ Ended.usage = {} /\ Ended.type = "message_stop"
      /\ ErrorEvent.usage = {} /\ ErrorEvent.type = "error"
  BY DEF StreamEvent, MessageStart, MessageDelta, Ended, MessageStop, ErrorEvent
<1>3. Event(MessageStart(u)) /\ Event(MessageDelta(u)) /\ Event(Ended) /\ Event(ErrorEvent)
  BY MadeIs DEF Ended
<1> DEFINE a == MessageStart(u)
           d == MessageDelta(u)
           z == Ended
           f == ErrorEvent
<1> HIDE DEF a, d, z, f
<1>4. /\ Event(a) /\ a.type = "message_start" /\ a.usage = u /\ Event(d) /\ d.type = "message_delta" /\ d.usage = u
      /\ Event(z) /\ z.type = "message_stop" /\ z.usage = {} /\ Event(f) /\ f.type = "error" /\ f.usage = {}
  BY <1>2, <1>3 DEF a, d, z, f
<1>5. a.type \in Types /\ d.type \in Types /\ z.type \in Types /\ f.type \in Types
  BY <1>4 DEF Types, Inner
<1>6. Tells(<<a>>, {u}, {})
  BY <1>4, <1>5, TellsOne
<1>7. Tells(<<d>>, {}, {u})
  BY <1>4, <1>5, TellsOne
<1>8. Tells(<<z>>, {}, {}) /\ Tells(<<f>>, {}, {})
  BY <1>4, <1>5, TellsOne
<1> QED BY <1>1, <1>6, <1>7, <1>8 DEF a, d, z, f

\* The OpenAI decoder: a start before its first payload, and the usage when both it and the end are known.
Starts(d) == IF d.started THEN {} ELSE {{}}

LEMMA StartsTells == ASSUME NEW d PROVE Tells(IF d.started THEN <<>> ELSE <<MessageStart({})>>, Starts(d), {})
BY TellsMade DEF Starts

LEMMA PieceTells ==
  ASSUME NEW d, NEW c, DecOk(d), OpenAIPiece(c)
  PROVE  LET r == DecodeOpenAI(d, c)
         IN  /\ Tells(r.evs, Starts(d), {}) /\ r.dec.started = TRUE
             /\ r.dec.usage = d.usage /\ r.dec.finished = d.finished /\ r.dec.deltaSent = d.deltaSent
<1> DEFINE e == [d EXCEPT !.started = TRUE]
           q == DecodeChunk(e, c)
           s == IF d.started THEN <<>> ELSE <<MessageStart({})>>
<1>1. DecOk(e) /\ e.usage = d.usage /\ e.finished = d.finished /\ e.deltaSent = d.deltaSent /\ e.started = TRUE
  <2>1. /\ DOMAIN e = DOMAIN d /\ e.tools = d.tools /\ e.usage = d.usage /\ e.finished = d.finished
        /\ e.deltaSent = d.deltaSent /\ e.started = TRUE
    BY DEF DecOk, DecFields
  <2> QED BY <2>1, DecStep
<1> HIDE DEF e
<1>2. PieceOk(e, q)
  BY <1>1, OpenAIPieces
<1>3. Tells(s, Starts(d), {})
  BY StartsTells
<1>4. DecodeOpenAI(d, c) = Decoded(q.dec, s \o q.evs)
  <2>1. c.part # "done"
    BY DEF OpenAIPiece
  <2> QED BY <2>1 DEF DecodeOpenAI, e, q, s
<1> HIDE DEF q, s
<1>5. Tells(s \o q.evs, Starts(d), {} \union {})
  BY <1>2, <1>3, TellsBlocks, TellsThen DEF PieceOk
<1>6. {} \union {} = {}
  OBVIOUS
<1> QED BY <1>1, <1>2, <1>4, <1>5, <1>6 DEF PieceOk, SameMeter, Decoded

LEMMA FinishTells ==
  ASSUME NEW d, NEW c, DecOk(d), c.part = "finish", d.deltaSent = FALSE
  PROVE  LET r == DecodeOpenAI(d, c)
             u == d.usage \union c.usage
         IN  /\ Tells(r.evs, Starts(d), IF u = {} THEN {} ELSE {u}) /\ r.dec.started = TRUE
             /\ r.dec.usage = u /\ r.dec.finished = TRUE /\ r.dec.deltaSent = (u # {})
<1> DEFINE e == [d EXCEPT !.started = TRUE]
           u == d.usage \union c.usage
           f == [e EXCEPT !.thinking = NoIndex, !.text = NoIndex, !.tools = <<>>,
                          !.finished = TRUE, !.usage = u, !.deltaSent = @ \/ u # {}]
           w == CloseAll(e)
           t == IF u = {} THEN <<>> ELSE <<MessageDelta(u)>>
           Y == IF u = {} THEN {} ELSE {u}
           s == IF d.started THEN <<>> ELSE <<MessageStart({})>>
<1>1. DecOk(e) /\ e.usage = d.usage /\ DOMAIN e = DecFields /\ e.started = TRUE /\ e.deltaSent = FALSE
  <2>1. DOMAIN e = DOMAIN d /\ e.tools = d.tools /\ e.usage = d.usage /\ e.started = TRUE /\ e.deltaSent = FALSE
    BY DEF DecOk, DecFields
  <2> QED BY <2>1, DecStep DEF DecOk
<1>2. f.started = TRUE /\ f.usage = u /\ f.finished = TRUE /\ f.deltaSent = (u # {})
  <2> HIDE DEF e, u
  <2> QED BY <1>1 DEF DecFields
<1>3. DecodeOpenAI(d, c) = Decoded(f, s \o (w \o t))
  <2>1. DecodeChunk(e, c) = FinishEvents(e, c)
    BY DEF DecodeChunk
  <2>2. FinishEvents(e, c) = Decoded(f, w \o t)
    <3> HIDE DEF e
    <3>1. e.usage \union c.usage = u
      BY <1>1
    <3> QED BY <3>1 DEF FinishEvents
  <2>3. DecodeOpenAI(d, c) = Decoded(DecodeChunk(e, c).dec, s \o DecodeChunk(e, c).evs)
    BY DEF DecodeOpenAI
  <2> HIDE DEF e, f, w, t, s
  <2>4. Decoded(f, w \o t).dec = f /\ Decoded(f, w \o t).evs = w \o t
    BY DecodedParts
  <2>5. DecodeChunk(e, c).dec = f /\ DecodeChunk(e, c).evs = w \o t
    BY <2>1, <2>2, <2>4
  <2> QED BY <2>3, <2>5
<1> HIDE DEF e, f
<1>4. Tells(w, {}, {})
  BY <1>1, ClosesAll, TellsBlocks
<1>5. Tells(t, {}, Y)
  BY TellsMade
<1>6. Tells(s, Starts(d), {})
  BY StartsTells
<1> HIDE DEF w, t, s, Y
<1>7. Tells(w \o t, {}, {} \union Y)
  BY <1>4, <1>5, TellsThen
<1>8. {} \union Y = Y
  OBVIOUS
<1>9. Tells(s \o (w \o t), Starts(d), {} \union Y)
  BY <1>6, <1>7, <1>8, TellsThen
<1> QED BY <1>2, <1>3, <1>8, <1>9 DEF Decoded, Y

LEMMA UsageTells ==
  ASSUME NEW d, NEW c, DecOk(d), c.part = "usage", d.finished = TRUE, d.deltaSent = FALSE
  PROVE  LET r == DecodeOpenAI(d, c)
         IN  /\ Tells(r.evs, Starts(d), {c.usage}) /\ r.dec.started = TRUE
             /\ r.dec.usage = c.usage /\ r.dec.finished = TRUE /\ r.dec.deltaSent = TRUE
<1> DEFINE e == [d EXCEPT !.started = TRUE]
           f == [e EXCEPT !.usage = c.usage, !.deltaSent = @ \/ (e.finished /\ ~e.deltaSent)]
           t == <<MessageDelta(c.usage)>>
           s == IF d.started THEN <<>> ELSE <<MessageStart({})>>
<1>1. e.finished = TRUE /\ e.deltaSent = FALSE /\ DOMAIN e = DecFields /\ e.started = TRUE
  BY DEF DecOk, DecFields
<1>2. f.started = TRUE /\ f.usage = c.usage /\ f.finished = TRUE /\ f.deltaSent = TRUE
  <2> HIDE DEF e
  <2> QED BY <1>1 DEF DecFields
<1>3. DecodeOpenAI(d, c) = Decoded(f, s \o t)
  <2>1. DecodeChunk(e, c) = UsageOnly(e, c)
    BY DEF DecodeChunk
  <2>2. UsageOnly(e, c) = Decoded(f, t)
    <3> HIDE DEF e
    <3> QED BY <1>1 DEF UsageOnly
  <2>3. DecodeOpenAI(d, c) = Decoded(DecodeChunk(e, c).dec, s \o DecodeChunk(e, c).evs)
    BY DEF DecodeOpenAI
  <2> HIDE DEF e, f, t, s
  <2>4. DecodeChunk(e, c).dec = f /\ DecodeChunk(e, c).evs = t
    BY <2>1, <2>2, DecodedParts
  <2> QED BY <2>3, <2>4
<1> HIDE DEF e, f
<1>4. Tells(t, {}, {c.usage}) /\ Tells(s, Starts(d), {})
  BY TellsMade, StartsTells
<1> HIDE DEF t, s
<1>5. Tells(s \o t, Starts(d), {} \union {c.usage})
  BY <1>4, TellsThen
<1>6. {} \union {c.usage} = {c.usage}
  OBVIOUS
<1> QED BY <1>2, <1>3, <1>5, <1>6 DEF Decoded

LEMMA DoneTells ==
  ASSUME NEW d, NEW c, DecOk(d), c.part = "done"
  PROVE  Tells(DecodeOpenAI(d, c).evs, {}, IF d.finished /\ ~d.deltaSent THEN {{}} ELSE {})
<1> DEFINE w == CloseAll(d)
           Y == IF d.finished /\ ~d.deltaSent THEN {{}} ELSE {}
           t == IF d.finished /\ ~d.deltaSent THEN <<MessageDelta({})>> ELSE <<>>
           z == <<Ended>>
<1>1. DecodeOpenAI(d, c).evs = w \o t \o z
  BY DEF DecodeOpenAI, DecodeDone, Decoded
<1>2. Tells(w, {}, {}) /\ Tells(t, {}, Y) /\ Tells(z, {}, {})
  BY ClosesAll, TellsBlocks, TellsMade
<1> HIDE DEF w, t, z, Y
<1>3. Tells(w \o t, {}, {} \union Y)
  BY <1>2, TellsThen
<1>4. Tells((w \o t) \o z, {}, ({} \union Y) \union {})
  BY <1>2, <1>3, TellsThen
<1>5. ({} \union Y) \union {} = Y
  OBVIOUS
<1> QED BY <1>1, <1>4, <1>5 DEF Y

LEMMA AnthropicTells ==
  ASSUME NEW d, NEW c, AnthropicPart(c)
  PROVE  LET r == DecodeAnthropic(d, c)
         IN  /\ Tells(r.evs, IF c.part = "created" THEN {c.usage} ELSE {},
                             IF c.part = "finish" THEN {d \union c.usage} ELSE {})
             /\ r.dec = CASE c.part = "created" -> c.usage
                          [] c.part = "finish"  -> d \union c.usage
                          [] OTHER              -> d
<1> DEFINE r == DecodeAnthropic(d, c)
           evs == r.evs
           a == <<MessageStart(c.usage)>>
           b == <<BlockStart(c.at, c.kind, Header(c.kind, c.call, c.frags))>>
           e == <<BlockDelta(c.at, c.kind, c.frags)>>
           f == <<BlockStop(c.at)>>
           g == <<MessageDelta(d \union c.usage)>>
           x == <<Ended>>
           y == <<ErrorEvent>>
<1>1. Of(b, BlockTypes) /\ Of(e, BlockTypes) /\ Of(f, BlockTypes)
  BY OfMade
<1>2. Tells(a, {c.usage}, {}) /\ Tells(g, {}, {d \union c.usage}) /\ Tells(x, {}, {}) /\ Tells(y, {}, {})
  BY TellsMade
<1> HIDE DEF a, b, e, f, g, x, y
<1>3. Tells(b, {}, {}) /\ Tells(e, {}, {}) /\ Tells(f, {}, {})
  BY <1>1, TellsBlocks
<1>4. /\ c.part = "created" => evs = a /\ r.dec = c.usage
      /\ c.part = "open" => evs = b /\ r.dec = d
      /\ c.part = "delta" => evs = e /\ r.dec = d
      /\ c.part = "close" => evs = f /\ r.dec = d
      /\ c.part = "finish" => evs = g /\ r.dec = d \union c.usage
      /\ c.part = "done" => evs = x /\ r.dec = d
      /\ c.part = "error" => evs = y /\ r.dec = d
  BY DEF DecodeAnthropic, Decoded, a, b, e, f, g, x, y
<1> DEFINE k == r.dec
<1>5. /\ c.part = "created" => evs = a /\ k = c.usage
      /\ c.part = "finish" => evs = g /\ k = d \union c.usage
      /\ c.part \notin {"created", "finish"} => Tells(evs, {}, {}) /\ k = d
  BY <1>3, <1>4, <1>2 DEF AnthropicPart
<1> HIDE DEF k, evs
<1>6. /\ Tells(evs, IF c.part = "created" THEN {c.usage} ELSE {},
                    IF c.part = "finish" THEN {d \union c.usage} ELSE {})
      /\ k = CASE c.part = "created" -> c.usage
               [] c.part = "finish"  -> d \union c.usage
               [] OTHER              -> d
  <2>1. CASE c.part = "created"
    BY <1>2, <1>5, <2>1
  <2>2. CASE c.part = "finish"
    BY <1>2, <1>5, <2>2
  <2>3. CASE c.part \notin {"created", "finish"}
    BY <1>5, <2>3
  <2> QED BY <2>1, <2>2, <2>3
<1> QED BY <1>6 DEF k, evs

\* The Responses decoder: a start before its first payload.
ItemFields == {"started", "items", "next", "slot0"}
ItemOk(d, r) == DOMAIN r = ItemFields /\ r.started = d.started

LEMMA ItemMade ==
  ASSUME NEW d, NEW v, DOMAIN d = ItemFields
  PROVE  /\ ItemOk(d, d) /\ ItemOk(d, Allot(d)) /\ ItemOk(d, [d EXCEPT !.items = v])
         /\ ItemOk(d, [Allot(d) EXCEPT !.items = v])
<1>1. ItemOk(d, d) /\ ItemOk(d, [d EXCEPT !.items = v])
  BY DEF ItemOk, ItemFields
<1>2. ItemOk(d, Allot(d))
  BY DEF ItemOk, ItemFields, Allot
<1> DEFINE a == Allot(d)
<1> HIDE DEF a
<1>3. ASSUME ItemOk(d, a) PROVE ItemOk(d, [a EXCEPT !.items = v])
  BY <1>3 DEF ItemOk, ItemFields
<1> QED BY <1>1, <1>2, <1>3 DEF a

LEMMA ItemTells ==
  ASSUME NEW d, NEW c, DOMAIN d = ItemFields, ResponsesPart(c)
  PROVE  LET r == DecodeItem(d, c)
         IN  Tells(r.evs, {}, IF c.part = "done" THEN {c.usage} ELSE {}) /\ ItemOk(d, r.dec)
<1> DEFINE r == DecodeItem(d, c)
           Good(x) == Tells(x.evs, {}, IF c.part = "done" THEN {c.usage} ELSE {}) /\ ItemOk(d, x.dec)
<1>0. ASSUME NEW x, NEW s, ItemOk(d, x), Of(s, BlockTypes), c.part # "done" PROVE Good(Decoded(x, s))
  BY <1>0, TellsBlocks, DecodedParts
<1> SUFFICES Good(r)
  OBVIOUS
<1> HIDE DEF Good
<1>1. CASE c.part = "created"
  <2>1. r = Decoded(d, <<>>)
    BY <1>1 DEF DecodeItem
  <2> HIDE DEF r
  <2> QED BY <1>0, <1>1, <2>1, ItemMade, OfEmpty
<1>2. CASE c.part = "open"
  <2> DEFINE i == NextIndex(d)
             a == <<BlockStart(i, c.kind, Header(c.kind, c.call, <<>>))>>
             b == IF c.frags = <<>> THEN <<>> ELSE <<BlockDelta(i, c.kind, c.frags)>>
             v == Put(Allot(d).items, c.at, [index |-> i, kind |-> c.kind, argsSent |-> c.frags # <<>>])
             e == [Allot(d) EXCEPT !.items = v]
  <2>1. Of(a, BlockTypes) /\ Of(b, BlockTypes)
    BY OfMade
  <2>2. ItemOk(d, e)
    <3> HIDE DEF v
    <3> QED BY ItemMade
  <2>3. r = Decoded(e, a \o b)
    BY <1>2 DEF DecodeItem, ItemAdded
  <2> HIDE DEF a, b, e, r
  <2>4. Of(a \o b, BlockTypes)
    BY <2>1, OfJoin
  <2> QED BY <1>0, <1>2, <2>2, <2>3, <2>4
<1>3. CASE c.part = "delta"
  <2> DEFINE a == <<BlockDelta(d.items[c.at].index, c.kind, c.frags)>>
             v == [d.items EXCEPT ![c.at].argsSent = @ \/ c.kind = "tool_use"]
             e == [d EXCEPT !.items = v]
  <2>1. Of(a, BlockTypes) /\ Of(<<>>, BlockTypes)
    BY OfMade
  <2>2. r = Decoded(d, <<>>) \/ r = Decoded(e, a)
    BY <1>3 DEF DecodeItem, ItemDelta, ItemFields
  <2>3. ItemOk(d, e) /\ ItemOk(d, d)
    <3> HIDE DEF v
    <3> QED BY ItemMade
  <2> HIDE DEF a, e, r
  <2> QED BY <1>0, <1>3, <2>1, <2>2, <2>3
<1>4. CASE c.part = "close"
  <2> DEFINE it == d.items[c.at]
             behind == it.kind = "tool_use" /\ ~it.argsSent /\ c.frags # <<>>
             a == IF behind THEN <<BlockDelta(it.index, it.kind, c.frags)>> ELSE <<>>
             b == <<BlockStop(it.index)>>
             v == [x \in DOMAIN d.items \ {c.at} |-> d.items[x]]
             e == [d EXCEPT !.items = v]
  <2>1. Of(a, BlockTypes) /\ Of(b, BlockTypes) /\ Of(<<>>, BlockTypes)
    BY OfMade
  <2>2. r = Decoded(d, <<>>) \/ r = Decoded(e, a \o b)
    BY <1>4 DEF DecodeItem, ItemDone, ItemFields
  <2>3. ItemOk(d, e) /\ ItemOk(d, d)
    <3> HIDE DEF v
    <3> QED BY ItemMade
  <2> HIDE DEF a, b, e, r
  <2>4. Of(a \o b, BlockTypes)
    BY <2>1, OfJoin
  <2> QED BY <1>0, <1>4, <2>1, <2>2, <2>3, <2>4
<1>5. CASE c.part = "done"
  <2> DEFINE z == <<MessageDelta(c.usage)>>
             y == <<Ended>>
  <2>1. r.evs = <<MessageDelta(c.usage), Ended>> /\ r.dec = d
    BY <1>5 DEF DecodeItem, Decoded
  <2>2. <<MessageDelta(c.usage), Ended>> = z \o y
    OBVIOUS
  <2>3. Tells(z, {}, {c.usage}) /\ Tells(y, {}, {})
    BY TellsMade
  <2> HIDE DEF z, y, r
  <2>4. Tells(z \o y, {}, {c.usage} \union {})
    BY <2>3, TellsThen
  <2> QED BY <1>5, <2>1, <2>2, <2>4, ItemMade DEF Good
<1>6. CASE c.part = "error"
  <2>1. r.evs = <<ErrorEvent>> /\ r.dec = d
    BY <1>6 DEF DecodeItem, Decoded
  <2> HIDE DEF r
  <2> QED BY <1>6, <2>1, TellsMade, ItemMade DEF Good
<1> HIDE DEF r
<1> QED BY <1>1, <1>2, <1>3, <1>4, <1>5, <1>6 DEF ResponsesPart

LEMMA ResponsesTells ==
  ASSUME NEW d, NEW c, DOMAIN d = ItemFields, ResponsesPart(c)
  PROVE  LET r == DecodeResponses(d, c)
         IN  /\ Tells(r.evs, IF c.part \in {"created", "open"} /\ ~d.started THEN {{}} ELSE {},
                             IF c.part = "done" THEN {c.usage} ELSE {})
             /\ DOMAIN r.dec = ItemFields
             /\ c.part \in {"created", "open"} \/ d.started = TRUE => r.dec.started = TRUE
<1> DEFINE starts == c.part \in {"created", "open"} /\ ~d.started
           e == [d EXCEPT !.started = @ \/ starts]
           q == DecodeItem(e, c)
           r == DecodeResponses(d, c)
           s == IF starts THEN <<MessageStart({})>> ELSE <<>>
           X == IF starts THEN {{}} ELSE {}
           Y == IF c.part = "done" THEN {c.usage} ELSE {}
<1>1. DOMAIN e = ItemFields /\ (c.part \in {"created", "open"} \/ d.started = TRUE => e.started = TRUE)
  BY DEF ItemFields
<1>2. r = Decoded(q.dec, s \o q.evs)
  BY DEF DecodeResponses
<1>3. Tells(s, X, {})
  BY TellsMade
<1> HIDE DEF e
<1>4. Tells(q.evs, {}, Y) /\ ItemOk(e, q.dec)
  BY <1>1, ItemTells
<1> HIDE DEF s, q, X, Y, r
<1>5. Tells(s \o q.evs, X, {} \union Y)
  BY <1>3, <1>4, TellsThen
<1>6. r.evs = s \o q.evs /\ r.dec = q.dec /\ {} \union Y = Y
  BY <1>2, DecodedParts
<1>7. Tells(r.evs, X, Y) /\ DOMAIN r.dec = ItemFields
      /\ (c.part \in {"created", "open"} \/ d.started = TRUE => r.dec.started = TRUE)
  BY <1>1, <1>4, <1>5, <1>6 DEF ItemOk
<1> QED BY <1>7 DEF X, Y, r

-----------------------------------------------------------------------------
(* The usage: the inductive invariant *)

\* What the decoder knows of the usage and of its way.
DecUse ==
  /\ up.phase = "new" => up.usage = {}
  /\ format.up = "openai" =>
       /\ up.phase # "ended" => dec.usage = up.usage
       /\ up.phase \in {"new", "body"} => up.usage = {} /\ dec.finished = FALSE /\ dec.deltaSent = FALSE
       /\ up.phase = "finished" => dec.finished = TRUE /\ dec.deltaSent = (up.usage # {})
       /\ up.phase \in {"body", "finished"} => dec.started = TRUE
  /\ format.up = "anthropic" /\ up.phase # "ended" => dec = up.usage
  /\ format.up = "responses" /\ format.stream =>
       /\ DOMAIN dec = ItemFields
       /\ up.phase = "body" => dec.started = TRUE
       /\ up.phase # "ended" => up.usage = {}
       /\ up.phase # "finished"

\* The usage has been reported as it stays.
Given == up.phase = "ended" \/ (up.phase \in {"finished", "failed"} /\ up.usage # {})

\* What a payload of the upstream is decoded to says of the usage.
Heard(X, Y) ==
  /\ Tells(pending', X, Y)
  /\ X # {} => up.phase = "new"
  /\ \A u \in X : u \subseteq up'.usage
  /\ Y # {} => Given' /\ Y = {up'.usage}
  /\ up'.phase \in {"finished", "ended"} =>
       Y # {} \/ up'.usage = {} \/ (up.phase = "finished" /\ up'.usage = up.usage)

LEMMA UsageMoves ==
  ASSUME UpOk, NEW c, UpStep(c)
  PROVE  up.usage \subseteq up'.usage /\ up'.phase # "new" /\ (Given => up'.usage = up.usage /\ Given')
<1>1. c.part \in {"open", "delta", "close", "created", "finish", "usage", "done", "error"}
  BY DEF UpStep, Sendable, OpenAIPart, AnthropicPart, ResponsesPart
<1>2. Moves(c) /\ up.phase # "ended"
  BY DEF UpStep
<1>3. up'.phase # "new"
  BY <1>1, <1>2 DEF Moves
<1>4. up'.usage = up.usage \union c.usage
  BY <1>2 DEF Moves
<1>5. ASSUME Given PROVE c.usage = {} /\ up'.phase \in {"finished", "failed", "ended"}
  <2>1. up.phase \in {"finished", "failed"} /\ up.usage # {}
    BY <1>2, <1>5 DEF Given
  <2>2. format.up = "responses" => up.phase # "body"
    BY <2>1
  <2> QED BY <1>1, <1>2, <2>1, <2>2 DEF Moves
<1> QED BY <1>3, <1>4, <1>5 DEF Given

LEMMA OpenAIHears ==
  ASSUME DecOk(dec), UpOk, DecUse, format.up = "openai", NEW c, UpStep(c)
  PROVE  (\E X, Y : Heard(X, Y)) /\ DecUse'
<1> DEFINE r == DecodeOpenAI(dec, c)
<1>1. dec' = r.dec /\ pending' = r.evs /\ format' = format
  <2>1. Decode(format.up, dec, c) = r
    BY DEF Decode
  <2> QED BY <2>1 DEF UpStep, Scan
<1> HIDE DEF r
<1>2. /\ Moves(c) /\ up.phase # "ended" /\ UpOk' /\ up.phase # "failed" /\ up'.phase # "failed"
      /\ OpenAIPart(c) \/ c.part = "done"
  BY <1>1 DEF UpStep, UpOk, Sendable
<1>3. up'.usage = up.usage \union c.usage /\ dec.usage = up.usage
  BY <1>2 DEF Moves, DecUse
<1>4. ASSUME up'.phase # "new", up'.phase # "ended" => dec'.usage = up'.usage,
             up'.phase = "body" => up'.usage = {} /\ dec'.finished = FALSE /\ dec'.deltaSent = FALSE,
             up'.phase = "finished" => dec'.finished = TRUE /\ dec'.deltaSent = (up'.usage # {}),
             up'.phase \in {"body", "finished"} => dec'.started = TRUE
      PROVE  DecUse'
  BY <1>1, <1>4 DEF DecUse
<1>5. Starts(dec) # {} => up.phase \notin {"body", "finished"}
  BY DEF Starts, DecUse
<1>6. \A u \in Starts(dec) : u = {}
  BY DEF Starts
<1>7. CASE OpenAIPiece(c)
  <2>1. /\ Tells(r.evs, Starts(dec), {}) /\ r.dec.started = TRUE
        /\ r.dec.usage = dec.usage /\ r.dec.finished = dec.finished /\ r.dec.deltaSent = dec.deltaSent
    BY <1>7, PieceTells DEF r
  <2>2. c.usage = {} /\ up.phase \in {"new", "body"} /\ up'.phase = "body"
    BY <1>2, <1>7 DEF Moves, OpenAIPiece
  <2>3. up'.usage = {} /\ up.usage = {} /\ dec.finished = FALSE /\ dec.deltaSent = FALSE
    BY <1>3, <2>2 DEF DecUse
  <2>4. Heard(Starts(dec), {})
    BY <1>1, <1>5, <1>6, <2>1, <2>2, <2>3 DEF Heard
  <2>5. DecUse'
    BY <1>1, <1>3, <1>4, <2>1, <2>2, <2>3
  <2> QED BY <2>4, <2>5
<1>8. CASE c.part = "finish"
  <2> DEFINE u == dec.usage \union c.usage
             Y == IF u = {} THEN {} ELSE {u}
  <2>1. up.phase = "body" /\ up'.phase = "finished" /\ up'.usage = u
    BY <1>2, <1>3, <1>8 DEF Moves
  <2>2. dec.deltaSent = FALSE
    BY <2>1 DEF DecUse
  <2>3. /\ Tells(r.evs, Starts(dec), Y) /\ r.dec.started = TRUE
        /\ r.dec.usage = u /\ r.dec.finished = TRUE /\ r.dec.deltaSent = (u # {})
    BY <1>8, <2>2, FinishTells DEF r
  <2> HIDE DEF u
  <2>4. Heard(Starts(dec), Y)
    BY <1>1, <1>5, <1>6, <2>1, <2>3 DEF Heard, Given
  <2>5. DecUse'
    BY <1>1, <1>4, <2>1, <2>3
  <2> QED BY <2>4, <2>5
<1>9. CASE c.part = "usage"
  <2>1. up.phase = "finished" /\ up'.phase = "finished" /\ up.usage = {} /\ up'.usage = c.usage /\ c.usage # {}
    <3>1. Full # {}
      BY DEF Full
    <3> QED BY <1>2, <1>3, <1>9, <3>1 DEF Moves
  <2>2. dec.finished = TRUE /\ dec.deltaSent = FALSE
    BY <2>1 DEF DecUse
  <2>3. /\ Tells(r.evs, Starts(dec), {c.usage}) /\ r.dec.started = TRUE
        /\ r.dec.usage = c.usage /\ r.dec.finished = TRUE /\ r.dec.deltaSent = TRUE
    BY <1>9, <2>2, UsageTells DEF r
  <2>4. Heard(Starts(dec), {c.usage})
    BY <1>1, <1>5, <1>6, <2>1, <2>3 DEF Heard, Given
  <2>5. DecUse'
    BY <1>1, <1>4, <2>1, <2>3
  <2> QED BY <2>4, <2>5
<1>10. CASE c.part = "done"
  <2> DEFINE Y == IF dec.finished /\ ~dec.deltaSent THEN {{}} ELSE {}
  <2>1. up.phase \in {"new", "body", "finished"} /\ up'.phase = "ended" /\ up'.usage = up.usage
    BY <1>2, <1>3, <1>10 DEF Moves
  <2>2. Tells(r.evs, {}, Y)
    BY <1>10, DoneTells DEF r
  <2>3. /\ up.phase = "finished" => dec.finished = TRUE /\ dec.deltaSent = (up.usage # {})
        /\ up.phase # "finished" => up.usage = {} /\ dec.finished = FALSE
    BY <2>1 DEF DecUse
  <2>4. Y # {} => up.usage = {} /\ Y = {{}}
    BY <2>1, <2>3
  <2> HIDE DEF Y
  <2>5. Heard({}, Y)
    BY <1>1, <2>1, <2>2, <2>3, <2>4 DEF Heard, Given
  <2>6. DecUse'
    BY <1>4, <2>1
  <2> QED BY <2>5, <2>6
<1> QED BY <1>2, <1>7, <1>8, <1>9, <1>10 DEF OpenAIPart, OpenAIPiece

LEMMA AnthropicHears ==
  ASSUME UpOk, DecUse, format.up = "anthropic", NEW c, UpStep(c)
  PROVE  (\E X, Y : Heard(X, Y)) /\ DecUse'
<1> DEFINE r == DecodeAnthropic(dec, c)
           X == IF c.part = "created" THEN {c.usage} ELSE {}
           Y == IF c.part = "finish" THEN {dec \union c.usage} ELSE {}
<1>1. dec' = r.dec /\ pending' = r.evs /\ format' = format
  <2>1. Decode(format.up, dec, c) = r
    BY DEF Decode
  <2> QED BY <2>1 DEF UpStep, Scan
<1>2. Moves(c) /\ up.phase # "ended" /\ AnthropicPart(c) /\ up'.phase # "new"
  BY UsageMoves DEF UpStep, Sendable
<1>3. /\ Tells(r.evs, X, Y)
      /\ c.part = "created" => r.dec = c.usage
      /\ c.part = "finish" => r.dec = dec \union c.usage
      /\ c.part \notin {"created", "finish"} => r.dec = dec
  <2> DEFINE k == r.dec
  <2>1. /\ Tells(r.evs, X, Y)
        /\ k = CASE c.part = "created" -> c.usage
                 [] c.part = "finish"  -> dec \union c.usage
                 [] OTHER              -> dec
    BY <1>2, AnthropicTells
  <2> HIDE DEF k, X, Y
  <2>2. /\ c.part = "created" => k = c.usage
        /\ c.part = "finish" => k = dec \union c.usage
        /\ c.part \notin {"created", "finish"} => k = dec
    BY <2>1
  <2> QED BY <2>1, <2>2 DEF k
<1> HIDE DEF r
<1>4. up'.usage = up.usage \union c.usage /\ dec = up.usage
  BY <1>2 DEF Moves, DecUse
<1>5. CASE c.part = "created"
  <2>1. up.phase = "new" /\ up.usage = {} /\ up'.phase = "body" /\ X = {c.usage} /\ Y = {}
    BY <1>2, <1>5 DEF Moves, DecUse
  <2>2. Heard(X, Y)
    BY <1>1, <1>3, <1>4, <2>1 DEF Heard
  <2>3. DecUse'
    BY <1>1, <1>3, <1>4, <1>5, <2>1 DEF DecUse
  <2> QED BY <2>2, <2>3
<1>6. CASE c.part = "finish"
  <2>1. up'.phase = "finished" /\ c.usage = {"out"} /\ X = {} /\ Y = {up'.usage} /\ up'.usage # {}
    BY <1>2, <1>4, <1>6 DEF Moves
  <2>2. Heard(X, Y)
    BY <1>1, <1>3, <2>1 DEF Heard, Given
  <2>3. DecUse'
    BY <1>1, <1>3, <1>4, <1>6, <2>1 DEF DecUse
  <2> QED BY <2>2, <2>3
<1>7. CASE c.part \notin {"created", "finish"}
  <2>1. X = {} /\ Y = {} /\ c.usage = {} /\ (up'.phase = "ended" => up.phase = "finished") /\ up'.phase # "finished"
    BY <1>2, <1>7 DEF Moves, AnthropicPart
  <2>2. up'.usage = up.usage
    BY <1>4, <2>1
  <2>3. Heard(X, Y)
    BY <1>1, <1>3, <2>1, <2>2 DEF Heard
  <2>4. DecUse'
    BY <1>1, <1>2, <1>3, <1>4, <1>7, <2>2 DEF DecUse
  <2> QED BY <2>3, <2>4
<1> QED BY <1>5, <1>6, <1>7

LEMMA ResponsesHears ==
  ASSUME UpOk, DecUse, format.up = "responses", format.stream, NEW c, UpStep(c)
  PROVE  (\E X, Y : Heard(X, Y)) /\ DecUse'
<1> DEFINE r == DecodeResponses(dec, c)
           X == IF c.part \in {"created", "open"} /\ ~dec.started THEN {{}} ELSE {}
           Y == IF c.part = "done" THEN {c.usage} ELSE {}
<1>1. dec' = r.dec /\ pending' = r.evs /\ format' = format
  <2>1. Decode(format.up, dec, c) = r
    BY DEF Decode
  <2> QED BY <2>1 DEF UpStep, Scan
<1>2. Moves(c) /\ up.phase # "ended" /\ ResponsesPart(c) /\ up'.phase # "new"
  BY UsageMoves DEF UpStep, Sendable
<1>3. DOMAIN dec = ItemFields /\ up.usage = {} /\ (up.phase = "body" => dec.started = TRUE) /\ up.phase # "finished"
  BY <1>2 DEF DecUse
<1>4. /\ Tells(r.evs, X, Y) /\ DOMAIN r.dec = ItemFields
      /\ c.part \in {"created", "open"} \/ dec.started = TRUE => r.dec.started = TRUE
  BY <1>2, <1>3, ResponsesTells
<1> HIDE DEF r
<1>5. up'.usage = c.usage
  BY <1>2, <1>3 DEF Moves
<1>6. X # {} => up.phase = "new" /\ X = {{}}
  <2>1. c.part \in {"created", "open"} => up.phase \in {"new", "body"}
    BY <1>2 DEF Moves
  <2> QED BY <1>3, <2>1
<1>7. up'.phase = "body" => up.phase = "body" \/ c.part = "created"
  BY <1>2 DEF Moves, ResponsesPart
<1>8. CASE c.part = "done"
  <2>1. up'.phase = "ended" /\ Y = {up'.usage}
    BY <1>2, <1>5, <1>8 DEF Moves
  <2> HIDE DEF X, Y
  <2>2. Heard(X, Y)
    BY <1>1, <1>4, <1>6, <2>1 DEF Heard, Given
  <2>3. DecUse'
    BY <1>1, <1>4, <2>1 DEF DecUse
  <2> QED BY <2>2, <2>3
<1>9. CASE c.part # "done"
  <2>1. Y = {} /\ c.usage = {} /\ up'.phase \notin {"ended", "finished"}
    BY <1>2, <1>3, <1>9 DEF Moves, ResponsesPart
  <2> HIDE DEF X, Y
  <2>2. Heard(X, Y)
    BY <1>1, <1>4, <1>6, <2>1 DEF Heard
  <2>3. DecUse'
    BY <1>1, <1>2, <1>3, <1>4, <1>5, <1>7, <2>1 DEF DecUse
  <2> QED BY <2>2, <2>3
<1> QED BY <1>8, <1>9

-----------------------------------------------------------------------------
(* The usage: the encoders *)

LEMMA UsesJoin ==
  ASSUME NEW q, NEW r, NEW T, Of(q, T), Of(r, T) PROVE Uses(q \o r) = Uses(q) \union Uses(r)
<1> DEFINE w == q \o r
<1>1. /\ Len(w) = Len(q) + Len(r) /\ Len(q) \in Nat /\ Len(r) \in Nat
      /\ \A i \in 1 .. Len(q) : w[i] = q[i]
      /\ \A i \in 1 .. Len(r) : w[Len(q) + i] = r[i]
  BY OfJoin, OfLen
<1> HIDE DEF w
<1>2. \A i \in 1 .. Len(w) : i \in 1 .. Len(q) \/ \E j \in 1 .. Len(r) : i = Len(q) + j
  <2> TAKE i \in 1 .. Len(w)
  <2>1. CASE i \notin 1 .. Len(q)
    <3>1. i - Len(q) \in 1 .. Len(r) /\ i = Len(q) + (i - Len(q))
      BY <1>1, <2>1
    <3> QED BY <3>1
  <2> QED BY <2>1
<1>3. ASSUME NEW x \in Uses(w) PROVE x \in Uses(q) \/ x \in Uses(r)
  <2>1. PICK i \in 1 .. Len(w) : x \in w[i].usage
    BY DEF Uses
  <2>2. (i \in 1 .. Len(q) /\ w[i] = q[i]) \/ \E j \in 1 .. Len(r) : w[i] = r[j]
    BY <1>1, <1>2
  <2> QED BY <2>1, <2>2 DEF Uses
<1>4. ASSUME NEW x \in Uses(q) PROVE x \in Uses(w)
  <2>1. PICK i \in 1 .. Len(q) : x \in q[i].usage
    BY DEF Uses
  <2>2. i \in 1 .. Len(w) /\ w[i] = q[i]
    BY <1>1
  <2> QED BY <2>1, <2>2 DEF Uses
<1>5. ASSUME NEW x \in Uses(r) PROVE x \in Uses(w)
  <2>1. PICK i \in 1 .. Len(r) : x \in r[i].usage
    BY DEF Uses
  <2>2. Len(q) + i \in 1 .. Len(w) /\ w[Len(q) + i] = r[i]
    BY <1>1
  <2> QED BY <2>1, <2>2 DEF Uses
<1>6. Uses(w) = Uses(q) \union Uses(r)
  BY <1>3, <1>4, <1>5
<1> QED BY <1>6 DEF w

LEMMA UsesOne == ASSUME NEW e PROVE Uses(<<e>>) = e.usage
<1> DEFINE s == <<e>>
<1>1. Len(s) = 1 /\ s[1] = e
  OBVIOUS
<1> HIDE DEF s
<1>2. \A i \in 1 .. 1 : i = 1
  OBVIOUS
<1>3. Uses(s) = e.usage
  BY <1>1, <1>2 DEF Uses
<1> QED BY <1>3 DEF s

LEMMA UsesNone == Uses(<<>>) = {}
<1>1. Len(<<>>) = 0 /\ \A i \in 1 .. 0 : FALSE
  OBVIOUS
<1> QED BY <1>1 DEF Uses

LEMMA UsesBlocks == ASSUME NEW s, Of(s, BlockTypes) PROVE Uses(s) = {}
BY DEF Of, Event, Uses

\* What the frames r for the event ev say of the usage, and what the encoder e keeps of it.
Gives(f, e, ev, r) ==
  /\ f # "responses" => /\ Uses(r.frames) \subseteq ev.usage
                        /\ ev.type = "message_delta" => Uses(r.frames) = ev.usage
  /\ f = "responses" =>
       /\ ev.type = "message_stop" => Uses(r.frames) = e.usage
       /\ ev.type # "message_stop" => Uses(r.frames) = {}
       /\ ev.type = "message_start" => r.enc.usage = (e.usage \ {"in"}) \union (ev.usage \intersect {"in"})
       /\ ev.type = "message_delta" => r.enc.usage = (e.usage \intersect {"in"}) \union ev.usage
       /\ ev.type \in BlockTypes => r.enc.usage = e.usage

LEMMA OpenAIGives ==
  ASSUME NEW e, NEW ev, Event(ev), ev.type \in Types \ {"error"}
  PROVE  Gives("openai", e, ev, EncodeOpenAI(e, ev))
<1> DEFINE R == EncodeOpenAI(e, ev)
           F == R.frames
           d == <<MessageDelta(ev.usage)>>
           z == <<Ended>>
           m1 == <<MessageStart({})>>
<1>1. Uses(d) = ev.usage /\ Uses(z) = {} /\ Uses(m1) = {}
  <2>1. MessageDelta(ev.usage).usage = ev.usage /\ Ended.usage = {} /\ MessageStart({}).usage = {}
    BY DEF StreamEvent, MessageStart, MessageDelta, Ended, MessageStop
  <2> DEFINE x == MessageDelta(ev.usage)
             y == Ended
             s == MessageStart({})
  <2> HIDE DEF x, y, s
  <2>2. Uses(<<x>>) = x.usage /\ Uses(<<y>>) = y.usage /\ Uses(<<s>>) = s.usage
    BY UsesOne
  <2> QED BY <2>1, <2>2 DEF x, y, s
<1>2. CASE ev.type = "message_start"
  <2>1. F = m1
    BY <1>2 DEF EncodeOpenAI, Encoded
  <2> HIDE DEF F, m1
  <2>2. Uses(F) = {}
    BY <1>1, <2>1
  <2> QED BY <1>2, <2>2 DEF Gives, F
<1>3. CASE ev.type = "content_block_start"
  <2> DEFINE a == <<BlockStart(e.nextTool, "tool_use", <<ev.val[1]>>)>>
  <2>1. F = a \/ F = <<>>
    BY <1>3 DEF EncodeOpenAI, EncodeToolStart, Encoded
  <2>2. Of(a, BlockTypes)
    BY OfMade
  <2> HIDE DEF F, a
  <2>3. Uses(F) = {}
    BY <2>1, <2>2, UsesBlocks, UsesNone
  <2> QED BY <1>3, <2>3 DEF Gives, F
<1>4. CASE ev.type = "content_block_delta"
  <2> DEFINE k == IF ev.index \in DOMAIN e.tool THEN e.tool[ev.index] ELSE 0
             a == <<BlockDelta(0, "text", ev.val)>>
             b == <<BlockDelta(k, "tool_use", ev.val)>>
  <2>1. F = EncodeDelta(e, ev)
    BY <1>4 DEF EncodeOpenAI, Encoded
  <2>2. EncodeDelta(e, ev) = a \/ EncodeDelta(e, ev) = b \/ EncodeDelta(e, ev) = <<>>
    BY DEF EncodeDelta
  <2>3. Of(a, BlockTypes) /\ Of(b, BlockTypes)
    BY OfMade
  <2> HIDE DEF F, a, b
  <2>4. Uses(F) = {}
    BY <2>1, <2>2, <2>3, UsesBlocks, UsesNone
  <2> QED BY <1>4, <2>4 DEF Gives, F
<1>5. CASE ev.type = "content_block_stop"
  <2>1. F = <<>>
    BY <1>5 DEF EncodeOpenAI, Encoded
  <2> HIDE DEF F
  <2>2. Uses(F) = {}
    BY <2>1, UsesNone
  <2> QED BY <1>5, <2>2 DEF Gives, F
<1>6. CASE ev.type = "message_delta"
  <2>1. F = d
    BY <1>6 DEF EncodeOpenAI, Encoded
  <2> HIDE DEF F, d
  <2>2. Uses(F) = ev.usage
    BY <1>1, <2>1
  <2> QED BY <1>6, <2>2 DEF Gives, F
<1>7. CASE ev.type = "message_stop"
  <2>1. F = z
    BY <1>7 DEF EncodeOpenAI, Encoded
  <2> HIDE DEF F, z
  <2>2. Uses(F) = {}
    BY <1>1, <2>1
  <2> QED BY <1>7, <2>2 DEF Gives, F
<1> HIDE DEF R
<1> QED BY <1>2, <1>3, <1>4, <1>5, <1>6, <1>7 DEF Types, Inner, R

LEMMA AnthropicGives ==
  ASSUME NEW e, NEW ev, Event(ev) PROVE Gives("anthropic", e, ev, EncodeAnthropic(e, ev))
<1> DEFINE z == [ev EXCEPT !.index = Remapped(e, ev.index)]
           F == EncodeAnthropic(e, ev).frames
<1>1. F = <<z>> \/ F = <<ev>>
  BY DEF EncodeAnthropic, Encoded
<1>2. z.usage = ev.usage
  BY DEF Event
<1> HIDE DEF z, F
<1>3. Uses(<<z>>) = z.usage /\ Uses(<<ev>>) = ev.usage
  BY UsesOne
<1>4. Uses(F) = ev.usage
  BY <1>1, <1>2, <1>3
<1> QED BY <1>4 DEF Gives, F

LEMMA ResponsesGives ==
  ASSUME NEW e, NEW ev, DOMAIN e = EncFields, ev.type \in Types \ {"error"},
         ev.type = "message_stop" => e.completed = FALSE
  PROVE  Gives("responses", e, ev, EncodeResponses(e, ev))
<1> DEFINE s == [e EXCEPT !.started = TRUE]
           z == IF e.started THEN <<>> ELSE <<MessageStart({})>>
           R == EncodeResponses(e, ev)
<1> SUFFICES Gives("responses", e, ev, R)
  OBVIOUS
<1>1. DOMAIN s = EncFields /\ s.usage = e.usage /\ s.completed = e.completed
  BY DEF EncFields
<1>2. Of(z, Inner) /\ Uses(z) = {}
  <2>1. Of(z, Inner)
    BY OfMade
  <2>2. MessageStart({}).usage = {}
    BY DEF StreamEvent, MessageStart
  <2> DEFINE x == MessageStart({})
  <2> HIDE DEF x
  <2>3. Uses(<<x>>) = x.usage
    BY UsesOne
  <2>4. Uses(z) = {}
    BY <2>2, <2>3, UsesNone DEF x
  <2> QED BY <2>1, <2>4
<1>3. CASE ev.type = "message_start"
  <2> DEFINE u == (s.usage \ {"in"}) \union (ev.usage \intersect {"in"})
             q == [s EXCEPT !.usage = u]
  <2>1. R = Encoded(q, z)
    <3>1. ev.type \notin BlockEvents
      BY <1>3 DEF BlockEvents
    <3> QED BY <1>3, <3>1 DEF EncodeResponses
  <2> HIDE DEF s, z, R
  <2>2. q.usage = u
    BY <1>1 DEF EncFields
  <2>3. R.frames = z /\ R.enc.usage = u
    BY <2>1, <2>2 DEF Encoded
  <2>4. ev.type \notin BlockTypes
    BY <1>3 DEF BlockTypes
  <2> QED BY <1>1, <1>2, <1>3, <2>3, <2>4 DEF Gives
<1>4. CASE ev.type \in BlockTypes
  <2> DEFINE b == EncodeBlock(s, ev)
  <2>0. ev.type \in BlockEvents /\ ev.type # "message_start" /\ ev.type # "message_delta" /\ ev.type # "message_stop"
    BY <1>4 DEF BlockTypes, BlockEvents
  <2>1. R = Encoded(b.enc, z \o b.frames)
    BY <2>0 DEF EncodeResponses
  <2> HIDE DEF s, z, R
  <2>2. InnerEncoded(s, b)
    BY <1>1, <2>0, BlockEncoded
  <2> HIDE DEF b
  <2> DEFINE k == b.frames
  <2>3. Of(k, BlockTypes) /\ b.enc.usage = s.usage
    BY <2>2 DEF InnerEncoded, EncLike
  <2> HIDE DEF k
  <2>4. Uses(k) = {} /\ Of(k, Inner)
    BY <2>3, UsesBlocks, OfInner
  <2>5. Uses(z \o k) = {}
    BY <1>2, <2>4, UsesJoin
  <2>6. R.frames = z \o k /\ R.enc.usage = e.usage
    BY <1>1, <2>1, <2>3 DEF Encoded, k
  <2> QED BY <2>0, <2>5, <2>6 DEF Gives
<1>5. CASE ev.type = "message_delta"
  <2> DEFINE u == (s.usage \intersect {"in"}) \union ev.usage
             q == [s EXCEPT !.usage = u]
  <2>1. R = Encoded(q, <<>>)
    <3>1. ev.type # "message_start" /\ ev.type \notin BlockEvents
      BY <1>5 DEF BlockEvents
    <3> QED BY <1>5, <3>1 DEF EncodeResponses, AbsorbUsage
  <2> HIDE DEF s, z, R
  <2>2. q.usage = u
    BY <1>1 DEF EncFields
  <2>3. R.frames = <<>> /\ R.enc.usage = u
    BY <2>1, <2>2 DEF Encoded
  <2>4. ev.type \notin BlockTypes
    BY <1>5 DEF BlockTypes
  <2> QED BY <1>1, <1>5, <2>3, <2>4, UsesNone DEF Gives
<1>6. CASE ev.type = "message_stop"
  <2> DEFINE x == MessageStop(ByIndex(s.items), s.usage)
  <2>1. R.frames = <<x>>
    BY <1>6 DEF EncodeResponses, CompletedFrames, BlockEvents, Encoded
  <2>2. x.usage = s.usage
    BY DEF MessageStop, StreamEvent
  <2> HIDE DEF s, x, R
  <2>3. Uses(<<x>>) = x.usage
    BY UsesOne
  <2>4. ev.type \notin BlockTypes
    BY <1>6 DEF BlockTypes
  <2> QED BY <1>1, <1>6, <2>1, <2>2, <2>3, <2>4 DEF Gives
<1> HIDE DEF R
<1> QED BY <1>3, <1>4, <1>5, <1>6 DEF Types, Inner, BlockTypes

LEMMA EncodeGives ==
  ASSUME NEW f \in Formats, NEW e, NEW ev, Event(ev), ev.type \in Types \ {"error"}, EncOpen(f, e)
  PROVE  Gives(f, e, ev, Encode(f, e, ev))
<1>1. CASE f = "openai"
  <2>1. Encode(f, e, ev) = EncodeOpenAI(e, ev)
    BY <1>1 DEF Encode
  <2> QED BY <1>1, <2>1, OpenAIGives
<1>2. CASE f = "anthropic"
  <2>1. Encode(f, e, ev) = EncodeAnthropic(e, ev)
    BY <1>2 DEF Encode
  <2> QED BY <1>2, <2>1, AnthropicGives
<1>3. CASE f = "responses"
  <2>1. Encode(f, e, ev) = EncodeResponses(e, ev)
    BY <1>3 DEF Encode
  <2> QED BY <1>3, <2>1, ResponsesGives DEF EncOpen
<1> QED BY <1>1, <1>2, <1>3 DEF Formats

LEMMA EncodeFrames ==
  ASSUME NEW f \in Formats, NEW e, NEW ev, Event(ev), ev.type \in Types \ {"error"}, EncOpen(f, e)
  PROVE  LET s == Encode(f, e, ev).frames IN Of(s, Types) /\ (Stop(s) <=> ev.type = "message_stop")
<1> DEFINE s == Encode(f, e, ev).frames
<1>1. CASE ev.type = "message_stop"
  <2>1. PICK x : s = <<x>> /\ Event(x) /\ x.type = "message_stop"
    BY <1>1, EncodeStop
  <2> QED BY <1>1, <2>1, StopOne
<1>2. CASE ev.type # "message_stop"
  <2>1. ev.type \in Inner
    BY <1>2 DEF Types
  <2>2. Of(s, Inner)
    BY <2>1, EncodeInner DEF EncOpen
  <2> HIDE DEF s
  <2>3. Of(s, Types) /\ ~Stop(s)
    BY <2>2, InnerNot
  <2> QED BY <1>2, <2>3 DEF s
<1> QED BY <1>1, <1>2

LEMMA RelayedGives ==
  ASSUME format.client \in Formats, NEW ev, Event(ev), ev.type \in Types \ {"error"}, EncOpen(format.client, enc)
  PROVE  /\ Gives(format.client, enc, ev, Relayed(ev)) /\ Of(Relayed(ev).frames, Types)
         /\ Stop(Relayed(ev).frames) <=> ev.type = "message_stop"
<1> DEFINE R == Relayed(ev)
           lacks == LacksStart(ev)
           z == MadeUpStart(ev)
           s == IF lacks THEN Encode(format.client, enc, z) ELSE Encoded(enc, <<>>)
           r == Encode(format.client, s.enc, ev)
           G == R.frames
<1>1. R = Encoded(r.enc, s.frames \o r.frames)
  BY DEF Relayed
<1> HIDE DEF R
<1>2. Of(G, Types) /\ (Stop(G) <=> ev.type = "message_stop")
  <2>1. CASE ev.type = "message_stop"
    <3>1. PICK x : G = <<x>> /\ Event(x) /\ x.type = "message_stop"
      BY <2>1, RelayedStop DEF R
    <3> QED BY <2>1, <3>1, StopOne
  <2>2. CASE ev.type # "message_stop"
    <3>1. ev.type \in Inner
      BY <2>2 DEF Types
    <3>2. Of(G, Inner)
      BY <3>1, RelayedInner DEF EncOpen, R
    <3> HIDE DEF G
    <3> QED BY <2>2, <3>2, InnerNot
  <2> QED BY <2>1, <2>2
<1>3. Gives(format.client, enc, ev, R)
  <2>1. CASE lacks
    <3>1. format.client = "anthropic" /\ ev.type = "content_block_delta" /\ ev.type \in Inner
      BY <2>1 DEF LacksStart, Inner
    <3>2. Event(z) /\ z.type \in BlockTypes /\ z.type \in Inner /\ z.type \in Types \ {"error"} /\ z.usage = {}
      <4>1. Event(z) /\ z.type \in BlockTypes
        BY MadeIs DEF MadeUpStart
      <4> HIDE DEF z
      <4> QED BY <4>1 DEF BlockTypes, Inner, Types, Event
    <3>3. s = Encode(format.client, enc, z)
      BY <2>1
    <3> HIDE DEF z, s, lacks
    <3> DEFINE a == s.frames
               b == r.frames
    <3>4. Of(a, Inner) /\ Of(b, Inner)
      BY <3>1, <3>2, <3>3, EncodeInner
    <3>5. Gives("anthropic", enc, z, s) /\ Gives("anthropic", s.enc, ev, r)
      <4>1. EncOpen(format.client, s.enc)
        BY <3>1 DEF EncOpen
      <4> QED BY <3>1, <3>2, <3>3, <4>1, EncodeGives
    <3>6. Uses(a) \subseteq {} /\ Uses(b) \subseteq ev.usage
      BY <3>2, <3>5 DEF Gives
    <3>7. G = a \o b
      BY <1>1 DEF Encoded
    <3> HIDE DEF a, b, G
    <3>8. Uses(G) \subseteq ev.usage
      BY <3>4, <3>6, <3>7, UsesJoin
    <3> QED BY <3>1, <3>8 DEF Gives, G
  <2>2. CASE ~lacks
    <3>1. s.enc = enc /\ s.frames = <<>>
      BY <2>2 DEF Encoded
    <3> HIDE DEF s, lacks, z
    <3>2. Gives(format.client, enc, ev, r)
      BY <3>1, EncodeGives
    <3>3. Of(r.frames, Types)
      BY <3>1, EncodeFrames
    <3> DEFINE b == r.frames
    <3>4. <<>> \o b = b
      <4>1. PICK T : b \in Seq(T)
        BY <3>3 DEF Of
      <4> HIDE DEF b
      <4> QED BY <4>1
    <3>5. R.frames = b /\ R.enc = r.enc
      BY <1>1, <3>1, <3>4 DEF Encoded
    <3> QED BY <3>2, <3>5 DEF Gives
  <2> QED BY <2>1, <2>2
<1> QED BY <1>2, <1>3 DEF R

\* The usage that the client has been told, or that the encoder holds for it.
Told(f, e, w) == IF f = "responses" /\ ~Stop(w) THEN e.usage ELSE Uses(w)

\* What an encoder that takes an event up must have told before, and what it has told then.
Teller(f, e, ev, r, w, U) ==
  /\ Of(w, Types) /\ Of(r.frames, Types) /\ ~Stop(w) /\ (Stop(r.frames) <=> ev.type = "message_stop")
  /\ ev.type \in Types \ {"error"} /\ Gives(f, e, ev, r)
  /\ f = "responses" => Uses(w) = {}
  /\ Told(f, e, w) \subseteq U /\ ev.usage \subseteq U /\ (ev.type = "message_delta" => ev.usage = U)

Taught(f, e, ev, r, w, n, U) ==
  /\ Told(f, r.enc, n) \subseteq U
  /\ f = "responses" /\ ~Stop(n) => Uses(n) = {}
  /\ ev.type = "message_delta" => Told(f, r.enc, n) = U
  /\ Told(f, e, w) = U /\ (f = "responses" /\ ev.type = "message_start" => e.usage = {}) => Told(f, r.enc, n) = U

LEMMA TellOn ==
  ASSUME NEW f, NEW e, NEW ev, NEW r, NEW w, NEW U, Teller(f, e, ev, r, w, U)
  PROVE  Taught(f, e, ev, r, w, w \o r.frames, U)
<1> USE DEF Teller, Taught
<1> DEFINE n == w \o r.frames
           s == r.frames
<1>1. Uses(n) = Uses(w) \union Uses(s) /\ (Stop(n) <=> ev.type = "message_stop")
  <2> HIDE DEF s
  <2>1. Of(s, Types) /\ (Stop(s) <=> ev.type = "message_stop")
    BY DEF s
  <2>2. Uses(w \o s) = Uses(w) \union Uses(s)
    BY <2>1, UsesJoin
  <2>3. Stop(s) <=> Stop(w \o s)
    BY <2>1, StopJoin
  <2> QED BY <2>1, <2>2, <2>3 DEF s
<1> HIDE DEF n, s
<1>2. CASE f # "responses"
  <2>1. Told(f, e, w) = Uses(w) /\ Told(f, r.enc, n) = Uses(n)
    BY <1>2 DEF Told
  <2>2. Uses(s) \subseteq ev.usage /\ (ev.type = "message_delta" => Uses(s) = ev.usage)
    BY <1>2 DEF Gives, s
  <2> QED BY <1>1, <1>2, <2>1, <2>2 DEF n
<1>3. CASE f = "responses" /\ ev.type = "message_stop"
  <2>1. Told(f, e, w) = e.usage /\ Told(f, r.enc, n) = Uses(n)
    BY <1>1, <1>3 DEF Told
  <2>2. Uses(s) = e.usage /\ Uses(w) = {}
    BY <1>3 DEF Gives, s
  <2> QED BY <1>1, <1>3, <2>1, <2>2 DEF n
<1>4. CASE f = "responses" /\ ev.type # "message_stop"
  <2> DEFINE a == e.usage
             b == r.enc.usage
             v == ev.usage
  <2>1. Told(f, e, w) = a /\ Told(f, r.enc, n) = b
    BY <1>1, <1>4 DEF Told
  <2>2. Uses(s) = {} /\ Uses(w) = {}
    BY <1>4 DEF Gives, s
  <2>3. /\ ev.type = "message_start" => b = (a \ {"in"}) \union (v \intersect {"in"})
        /\ ev.type = "message_delta" => b = (a \intersect {"in"}) \union v
        /\ ev.type \in BlockTypes => b = a
    BY <1>4 DEF Gives
  <2>4. a \subseteq U /\ v \subseteq U /\ (ev.type = "message_delta" => v = U)
    BY <2>1
  <2> HIDE DEF a, b, v
  <2>5. /\ b \subseteq U
        /\ ev.type = "message_delta" => b = U
        /\ a = U /\ (ev.type = "message_start" => a = {}) => b = U
    <3>1. CASE ev.type = "message_start"
      BY <2>3, <2>4, <3>1
    <3>2. CASE ev.type = "message_delta"
      BY <2>3, <2>4, <3>2
    <3>3. CASE ev.type \in BlockTypes
      BY <2>3, <2>4, <3>3 DEF BlockTypes
    <3> QED BY <1>4, <3>1, <3>2, <3>3 DEF Types, Inner, BlockTypes
  <2>6. Uses(n) = {}
    BY <1>1, <2>2
  <2> QED BY <1>4, <2>1, <2>5, <2>6 DEF n, a, b, v
<1> QED BY <1>2, <1>3, <1>4

-----------------------------------------------------------------------------
(* The usage on its way *)

\* The Responses encoder has written nothing.
NotBegun == format.client = "responses" => enc.started = FALSE

Fresh ==
  /\ up.phase = "new" => pending = <<>> /\ chan = <<>> /\ NotBegun
  /\ ~format.stream /\ pump = "loop" => up.phase = "new"

\* Nothing but what the upstream has reported is said, and a report says all of it.
Fits(s, U) == \A i \in 1 .. Len(s) : s[i].usage \subseteq U /\ (s[i].type = "message_delta" => s[i].usage = U)

Parts == Fits(pending, up.usage) /\ Fits(chan, up.usage)

Deltas == Reported(pending) \/ Reported(chan) => Given

\* A start comes first of all.
StartFirst ==
  /\ \A i \in 1 .. Len(pending) : pending[i].type = "message_start" => i = 1 /\ chan = <<>> /\ NotBegun
  /\ \A i \in 1 .. Len(chan) : chan[i].type = "message_start" => i = 1 /\ NotBegun

Sound ==
  /\ DOMAIN result = {"usage", "err"} /\ result.usage \subseteq up.usage
  /\ pump # "returned" =>
       /\ Told(format.client, enc, wire) \subseteq up.usage
       /\ format.client = "responses" /\ ~Stop(wire) => Uses(wire) = {}
       /\ format.client = "responses" /\ enc.started = FALSE => enc.usage = {}

\* The answer goes on, and its upstream has finished it.
Lives ==
  /\ format.stream /\ pump # "returned" /\ ending \in {"none", "over"} /\ ~left
  /\ up.phase \in {"finished", "ended"}

\* The report is not lost on its way to the client, nor on its way to the record.
Covered == Lives => Told(format.client, enc, wire) = up.usage \/ Reported(chan) \/ Reported(pending)

Counted == Lives => result.usage = up.usage \/ \E i \in 2 .. Len(pending) : pending[i].type = "message_delta"

Recorded ==
  pump = "returned" =>
    /\ Len(records) = 1
    /\ records[1].status = "ok" /\ ~left /\ up.phase = "ended" => records[1].usage = up.usage /\ Uses(wire) = up.usage

UseInv == DecUse /\ Fresh /\ Parts /\ Deltas /\ StartFirst /\ Sound /\ Covered /\ Counted /\ Recorded

LEMMA EmptySays == ~Reported(<<>>) /\ \A U : Fits(<<>>, U)
<1>1. Len(<<>>) = 0 /\ \A i \in 1 .. 0 : FALSE
  OBVIOUS
<1> QED BY <1>1 DEF Reported, Fits

LEMMA UsageAfterIs ==
  ASSUME NEW v, NEW s, NEW U, Of(s, Types), Fits(s, U), v \subseteq U
  PROVE  /\ UsageAfter(v, s) \subseteq U
         /\ (\E i \in 1 .. Len(s) : i = 1 /\ s[i].type = "message_delta") => UsageAfter(v, s) = U
         /\ v = U /\ (\A i \in 1 .. Len(s) : s[i].type # "message_start") => UsageAfter(v, s) = U
<1>1. CASE s = <<>>
  <2>1. UsageAfter(v, s) = v /\ Len(s) = 0
    BY <1>1, OfEmpty DEF UsageAfter
  <2> QED BY <2>1
<1>2. CASE s # <<>>
  <2>1. 1 \in 1 .. Len(s) /\ Head(s) = s[1]
    BY <1>2, OfTail
  <2> DEFINE h == Head(s)
  <2>2. UsageAfter(v, s) = v \/ UsageAfter(v, s) = h.usage
    BY <1>2 DEF UsageAfter
  <2>3. h.type = "message_delta" => UsageAfter(v, s) = h.usage
    BY <1>2 DEF UsageAfter
  <2>4. h.type \notin {"message_start", "message_delta"} => UsageAfter(v, s) = v
    BY <1>2 DEF UsageAfter
  <2> HIDE DEF h
  <2>5. h = s[1] /\ h.usage \subseteq U /\ (h.type = "message_delta" => h.usage = U)
    BY <2>1 DEF Fits, h
  <2> QED BY <2>1, <2>2, <2>3, <2>4, <2>5
<1> QED BY <1>1, <1>2

\* What a sequence of events says, in the terms of the invariant.
LEMMA TellsIs ==
  ASSUME NEW s, NEW X, NEW Y, NEW U, Tells(s, X, Y), \A u \in X : u \subseteq U, Y # {} => Y = {U}
  PROVE  /\ Fits(s, U) /\ (Reported(s) <=> Y # {})
         /\ \A i \in 1 .. Len(s) : s[i].type = "message_start" => i = 1 /\ X # {}
<1>1. ASSUME NEW i \in 1 .. Len(s)
      PROVE  /\ s[i].usage \subseteq U
             /\ s[i].type = "message_delta" => s[i].usage = U /\ Y # {}
             /\ s[i].type = "message_start" => i = 1 /\ X # {}
  <2>1. IF s[i].type = "message_start" THEN i = 1 /\ s[i].usage \in X
        ELSE s[i].usage \in IF s[i].type = "message_delta" THEN Y ELSE {{}}
    BY DEF Tells
  <2>2. CASE s[i].type = "message_start"
    BY <2>1, <2>2
  <2>3. CASE s[i].type = "message_delta"
    BY <2>1, <2>3
  <2>4. CASE s[i].type \notin {"message_start", "message_delta"}
    BY <2>1, <2>4
  <2> QED BY <2>2, <2>3, <2>4
<1>2. Y # {} => Reported(s)
  BY DEF Tells
<1> QED BY <1>1, <1>2 DEF Fits, Reported

LEMMA StepHears ==
  ASSUME EndInv, DecUse, NEW c, UpStep(c) PROVE (\E X, Y : Heard(X, Y)) /\ DecUse'
<1>1. UpOk /\ (format.up = "openai" => DecOk(dec))
  BY DEF EndInv, TypeR
<1>2. format.stream
  BY ScanIs DEF EndInv, Complete
<1>3. format.up \in {"openai", "anthropic", "responses"}
  BY DEF UpStep, Sendable
<1> QED BY <1>1, <1>2, <1>3, OpenAIHears, AnthropicHears, ResponsesHears

LEMMA UsesStep == ASSUME EndInv, UseInv, NEW c, UpStep(c) PROVE UseInv'
<1> USE DEF UseInv
<1>1. /\ reader = "scan" /\ Of(pending', Types) /\ up.phase # "ended"
  BY ScanIs DEF EndInv
<1>2. /\ format' = format /\ chan' = chan /\ left' = left /\ pump' = pump /\ ending' = ending /\ started' = started
      /\ enc' = enc /\ rec' = rec /\ wire' = wire /\ saves' = saves /\ records' = records
  BY ScanIs DEF EndInv
<1>3. result' = [result EXCEPT !.usage = UsageAfter(@, pending')]
  BY DEF UpStep, Scan
<1>4. pending = <<>> /\ ~Reported(pending) /\ Len(pending) = 0
  BY <1>1, EmptySays, OfEmpty DEF EndInv, PipeOk
<1>5. up.usage \subseteq up'.usage /\ up'.phase # "new" /\ (Given => up'.usage = up.usage /\ Given')
  BY UsageMoves DEF EndInv, TypeR
<1>6. DecUse' /\ \E X, Y : Heard(X, Y)
  BY StepHears
<1>7. PICK X, Y : Heard(X, Y)
  BY <1>6
<1>8. /\ Fits(pending', up'.usage) /\ (Reported(pending') <=> Y # {})
      /\ \A i \in 1 .. Len(pending') : pending'[i].type = "message_start" => i = 1 /\ X # {}
  <2> DEFINE p == pending'
             U == up'.usage
  <2>1. Tells(p, X, Y) /\ (\A u \in X : u \subseteq U) /\ (Y # {} => Y = {U})
    BY <1>7 DEF Heard
  <2> HIDE DEF p, U
  <2>2. /\ Fits(p, U) /\ (Reported(p) <=> Y # {})
        /\ \A i \in 1 .. Len(p) : p[i].type = "message_start" => i = 1 /\ X # {}
    BY <2>1, TellsIs
  <2> QED BY <2>2 DEF p, U
<1>9. Fresh'
  <2>1. format.stream
    BY <1>1 DEF EndInv, Complete
  <2> QED BY <1>2, <1>5, <2>1 DEF Fresh
<1>10. Fits(chan, up'.usage)
  <2>1. CASE Reported(chan)
    BY <1>5, <2>1 DEF Deltas, Parts
  <2>2. CASE ~Reported(chan)
    BY <1>5, <2>2 DEF Reported, Parts, Fits
  <2> QED BY <2>1, <2>2
<1>11. Parts'
  BY <1>2, <1>8, <1>10 DEF Parts
<1>12. Deltas'
  <2>1. Reported(chan) => Given'
    BY <1>5 DEF Deltas
  <2>2. Reported(pending') => Given'
    BY <1>7, <1>8 DEF Heard
  <2> QED BY <1>2, <2>1, <2>2 DEF Deltas
<1>13. StartFirst'
  <2>1. X # {} => chan = <<>> /\ NotBegun
    BY <1>7 DEF Heard, Fresh
  <2>2. NotBegun' <=> NotBegun
    BY <1>2 DEF NotBegun
  <2> QED BY <1>2, <1>8, <2>1, <2>2 DEF StartFirst
<1> DEFINE v == result.usage
           U == up'.usage
<1>14. /\ DOMAIN result' = {"usage", "err"} /\ result'.usage = UsageAfter(v, pending')
       /\ v \subseteq up.usage
  <2> DEFINE w == UsageAfter(v, pending')
  <2>1. result' = [result EXCEPT !.usage = w] /\ DOMAIN result = {"usage", "err"}
    BY <1>3 DEF Sound
  <2> HIDE DEF w
  <2>2. DOMAIN result' = {"usage", "err"} /\ result'.usage = w
    BY <2>1
  <2> QED BY <2>2 DEF w, Sound
<1>15. /\ result'.usage \subseteq U
       /\ (\E i \in 1 .. Len(pending') : i = 1 /\ pending'[i].type = "message_delta") => result'.usage = U
       /\ v = U /\ (\A i \in 1 .. Len(pending') : pending'[i].type # "message_start") => result'.usage = U
  <2> DEFINE p == pending'
  <2>1. Of(p, Types) /\ Fits(p, U) /\ v \subseteq U
    BY <1>1, <1>5, <1>8, <1>14
  <2> HIDE DEF p, U, v
  <2> QED BY <1>14, <2>1, UsageAfterIs DEF p
<1>16. Sound'
  <2>1. pump # "returned" => Told(format.client, enc, wire) \subseteq U
    BY <1>5 DEF Sound
  <2> QED BY <1>2, <1>14, <1>15, <2>1 DEF Sound
<1>17. ASSUME Lives', ~Reported(pending') PROVE up'.usage = {} \/ (Lives /\ up'.usage = up.usage /\ up.phase = "finished")
  BY <1>2, <1>7, <1>8, <1>17 DEF Heard, Lives
<1>18. Covered'
  <2> SUFFICES ASSUME Lives', ~Reported(pending') PROVE Told(format.client, enc, wire) = up'.usage \/ Reported(chan)
    BY <1>2 DEF Covered
  <2>1. CASE up'.usage = {}
    BY <1>2, <1>16, <2>1 DEF Sound, Lives
  <2>2. CASE Lives /\ up'.usage = up.usage
    BY <1>4, <2>2 DEF Covered
  <2> QED BY <1>17, <2>1, <2>2
<1>19. Counted'
  <2> SUFFICES ASSUME Lives'
               PROVE  result'.usage = U \/ \E i \in 2 .. Len(pending') : pending'[i].type = "message_delta"
    BY DEF Counted
  <2>1. CASE Reported(pending')
    <3>1. PICK i \in 1 .. Len(pending') : pending'[i].type = "message_delta"
      BY <2>1 DEF Reported
    <3>2. CASE i = 1
      BY <1>15, <3>1, <3>2
    <3>3. CASE i # 1
      <4>1. i \in 2 .. Len(pending')
        BY <1>1, <3>3, OfLen
      <4> QED BY <3>1, <4>1
    <3> QED BY <3>2, <3>3
  <2>2. CASE up'.usage = {}
    BY <1>15, <2>2
  <2>3. CASE Lives /\ up'.usage = up.usage /\ up.phase = "finished"
    <3>1. X = {}
      BY <1>7, <2>3 DEF Heard
    <3>2. \A i \in 1 .. Len(pending') : pending'[i].type # "message_start"
      BY <1>8, <3>1
    <3>3. v = U
      <4>1. \A i \in 2 .. 0 : FALSE
        OBVIOUS
      <4> QED BY <1>4, <2>3, <4>1 DEF Counted
    <3> QED BY <1>15, <3>2, <3>3
  <2> QED BY <1>17, <2>1, <2>2, <2>3
<1>20. Recorded'
  <2> SUFFICES ASSUME pump = "returned" PROVE Recorded'
    BY <1>2 DEF Recorded
  <2>1. Len(records) = 1 /\ records[1].status # "ok"
    <3>1. records # <<>>
      BY OfEmpty DEF Recorded
    <3> QED BY <1>1, <3>1 DEF Recorded, EndInv, Returned
  <2> QED BY <1>2, <2>1 DEF Recorded
<1> QED BY <1>6, <1>9, <1>11, <1>12, <1>13, <1>16, <1>18, <1>19, <1>20

\* One event more behind, one event less before.
LEMMA SaysAppend ==
  ASSUME NEW q, NEW e, NEW U, Of(q, Types), Event(e), e.type \in Types, Fits(q, U),
         e.usage \subseteq U, e.type = "message_delta" => e.usage = U
  PROVE  /\ Fits(Append(q, e), U) /\ (Reported(q) \/ e.type = "message_delta" <=> Reported(Append(q, e)))
         /\ \A i \in 1 .. Len(Append(q, e)) : (i \in 1 .. Len(q) /\ Append(q, e)[i] = q[i])
                                              \/ (i = Len(q) + 1 /\ Append(q, e)[i] = e)
<1> DEFINE w == Append(q, e)
<1>1. /\ Len(w) = Len(q) + 1 /\ w[Len(q) + 1] = e /\ Len(q) \in Nat
      /\ \A i \in 1 .. Len(q) : w[i] = q[i]
  BY OfAppend, OfLen
<1> HIDE DEF w
<1>2. \A i \in 1 .. Len(w) : (i \in 1 .. Len(q) /\ w[i] = q[i]) \/ (i = Len(q) + 1 /\ w[i] = e)
  BY <1>1
<1>3. Fits(w, U)
  BY <1>2 DEF Fits
<1>4. Reported(w) => Reported(q) \/ e.type = "message_delta"
  BY <1>2 DEF Reported
<1>5. e.type = "message_delta" => Reported(w)
  <2>1. Len(q) + 1 \in 1 .. Len(w)
    BY <1>1
  <2> QED BY <1>1, <2>1 DEF Reported
<1>6. Reported(q) => Reported(w)
  <2>1. \A i \in 1 .. Len(q) : i \in 1 .. Len(w)
    BY <1>1
  <2> QED BY <1>1, <2>1 DEF Reported
<1> QED BY <1>2, <1>3, <1>4, <1>5, <1>6 DEF w

LEMMA SaysTail ==
  ASSUME NEW q, NEW U, Of(q, Types), q # <<>>, Fits(q, U)
  PROVE  LET h == Head(q)
             w == Tail(q)
         IN  /\ Of(w, Types) /\ Fits(w, U) /\ h.usage \subseteq U /\ (h.type = "message_delta" => h.usage = U)
             /\ Reported(q) <=> h.type = "message_delta" \/ Reported(w)
             /\ h = q[1] /\ 1 \in 1 .. Len(q) /\ Len(q) \in Nat /\ Len(w) = Len(q) - 1
             /\ \A i \in 1 .. Len(w) : i + 1 \in 1 .. Len(q) /\ i + 1 # 1 /\ w[i] = q[i + 1]
<1> DEFINE h == Head(q)
           w == Tail(q)
<1>1. /\ Of(w, Types) /\ Len(w) = Len(q) - 1 /\ h = q[1] /\ 1 \in 1 .. Len(q) /\ Len(q) \in Nat
      /\ \A i \in 1 .. Len(q) - 1 : w[i] = q[i + 1]
  BY OfTail, OfLen
<1> HIDE DEF h, w
<1>2. \A i \in 1 .. Len(w) : i + 1 \in 1 .. Len(q) /\ i + 1 # 1 /\ w[i] = q[i + 1]
  BY <1>1
<1>3. Fits(w, U) /\ h.usage \subseteq U /\ (h.type = "message_delta" => h.usage = U)
  <2>1. Fits(w, U)
    BY <1>2 DEF Fits
  <2>2. h.usage \subseteq U /\ (h.type = "message_delta" => h.usage = U)
    BY <1>1 DEF Fits
  <2> QED BY <2>1, <2>2
<1>4. Reported(w) => Reported(q)
  BY <1>2 DEF Reported
<1>5. h.type = "message_delta" => Reported(q)
  BY <1>1 DEF Reported
<1>6. ASSUME Reported(q), h.type # "message_delta" PROVE Reported(w)
  <2>1. PICK i \in 1 .. Len(q) : q[i].type = "message_delta"
    BY <1>6 DEF Reported
  <2>2. i # 1
    BY <1>1, <1>6, <2>1
  <2>3. i - 1 \in 1 .. Len(w) /\ w[i - 1] = q[i]
    <3>1. i - 1 \in 1 .. Len(q) - 1 /\ (i - 1) + 1 = i
      BY <1>1, <2>2
    <3> QED BY <1>1, <3>1
  <2> QED BY <2>1, <2>3 DEF Reported
<1> QED BY <1>1, <1>2, <1>3, <1>4, <1>5, <1>6 DEF h, w

LEMMA UsesSendEvent == ASSUME EndInv, UseInv, SendEvent PROVE UseInv'
<1> USE DEF UseInv
<1> DEFINE h == Head(pending)
           U == up.usage
           v == result.usage
<1>1. /\ reader = "send" /\ chan' = Append(chan, h) /\ pending' = Tail(pending)
      /\ result' = [result EXCEPT !.usage = UsageAfter(@, Tail(pending))]
  BY DEF SendEvent
<1>2. /\ format' = format /\ up' = up /\ dec' = dec /\ left' = left /\ pump' = pump /\ ending' = ending
      /\ started' = started /\ enc' = enc /\ rec' = rec /\ wire' = wire /\ saves' = saves /\ records' = records
  BY DEF SendEvent, upVars, outVars, endVars
<1>3. pending # <<>> /\ Of(pending, Types) /\ Of(chan, Types) /\ Fits(pending, U) /\ Fits(chan, U)
  BY <1>1 DEF EndInv, PipeOk, TypeR, Parts
<1>4. /\ Of(pending', Types) /\ Fits(pending', U) /\ h.usage \subseteq U /\ (h.type = "message_delta" => h.usage = U)
      /\ Reported(pending) <=> h.type = "message_delta" \/ Reported(pending')
      /\ h = pending[1] /\ 1 \in 1 .. Len(pending) /\ Len(pending) \in Nat /\ Len(pending') = Len(pending) - 1
      /\ \A i \in 1 .. Len(pending') : /\ i + 1 \in 1 .. Len(pending) /\ i + 1 # 1
                                       /\ pending'[i] = pending[i + 1]
  BY <1>1, <1>3, SaysTail
<1>5. Event(h) /\ h.type \in Types
  BY <1>3, <1>4 DEF Of
<1> HIDE DEF h
<1>6. /\ Fits(chan', U) /\ (Reported(chan) \/ h.type = "message_delta" <=> Reported(chan'))
      /\ \A i \in 1 .. Len(chan') : (i \in 1 .. Len(chan) /\ chan'[i] = chan[i]) \/ (i = Len(chan) + 1 /\ chan'[i] = h)
  <2> DEFINE w == Append(chan, h)
  <2>1. Of(chan, Types) /\ Event(h) /\ h.type \in Types /\ Fits(chan, U)
    BY <1>3, <1>5
  <2>2. h.usage \subseteq U /\ (h.type = "message_delta" => h.usage = U)
    BY <1>4
  <2> HIDE DEF U
  <2>3. /\ Fits(w, U) /\ (Reported(chan) \/ h.type = "message_delta" <=> Reported(w))
        /\ \A i \in 1 .. Len(w) : (i \in 1 .. Len(chan) /\ w[i] = chan[i]) \/ (i = Len(chan) + 1 /\ w[i] = h)
    BY <2>1, <2>2, SaysAppend
  <2>4. chan' = w
    BY <1>1 DEF h
  <2> HIDE DEF w
  <2> QED BY <2>3, <2>4
<1>7. DecUse' /\ Fresh' /\ Recorded'
  <2>1. DecUse' /\ Recorded'
    BY <1>2 DEF DecUse, Recorded
  <2>2. up.phase # "new" /\ format.stream
    BY <1>1, <1>3 DEF Fresh, EndInv, Complete
  <2> QED BY <1>2, <2>1, <2>2 DEF Fresh
<1>8. Parts' /\ Deltas'
  <2>1. Given' <=> Given
    BY <1>2 DEF Given
  <2> QED BY <1>2, <1>4, <1>6, <2>1 DEF Parts, Deltas
<1>9. \A i \in 1 .. Len(pending') : pending'[i].type # "message_start"
  BY <1>4 DEF StartFirst
<1>10. StartFirst'
  <2>1. NotBegun' <=> NotBegun
    BY <1>2 DEF NotBegun
  <2>2. h.type = "message_start" => Len(chan) = 0 /\ NotBegun
    BY <1>4, OfEmpty DEF StartFirst
  <2>3. Len(chan) = 0 => Len(chan) + 1 = 1
    OBVIOUS
  <2> QED BY <1>6, <1>9, <2>1, <2>2, <2>3 DEF StartFirst
<1>11. DOMAIN result' = {"usage", "err"} /\ result'.usage = UsageAfter(v, pending') /\ v \subseteq U
  <2> DEFINE w == UsageAfter(v, pending')
  <2>1. result' = [result EXCEPT !.usage = w] /\ DOMAIN result = {"usage", "err"}
    BY <1>1 DEF Sound
  <2> HIDE DEF w
  <2>2. DOMAIN result' = {"usage", "err"} /\ result'.usage = w
    BY <2>1
  <2> QED BY <2>2 DEF w, Sound
<1>12. /\ result'.usage \subseteq U
       /\ (\E i \in 1 .. Len(pending') : i = 1 /\ pending'[i].type = "message_delta") => result'.usage = U
       /\ v = U => result'.usage = U
  <2> HIDE DEF U, v
  <2> QED BY <1>4, <1>9, <1>11, UsageAfterIs
<1>13. Sound'
  BY <1>2, <1>11, <1>12 DEF Sound
<1>14. Lives' <=> Lives
  BY <1>2 DEF Lives
<1>15. Covered'
  BY <1>2, <1>4, <1>6, <1>14 DEF Covered
<1>16. Counted'
  <2> SUFFICES ASSUME Lives
               PROVE  result'.usage = U \/ \E i \in 2 .. Len(pending') : pending'[i].type = "message_delta"
    BY <1>2, <1>14 DEF Counted
  <2>1. CASE v = U
    BY <1>12, <2>1
  <2>2. CASE \E i \in 2 .. Len(pending) : pending[i].type = "message_delta"
    <3>1. PICK i \in 2 .. Len(pending) : pending[i].type = "message_delta"
      BY <2>2
    <3> DEFINE j == i - 1
    <3>2. j \in 1 .. Len(pending') /\ j + 1 = i
      BY <1>4
    <3> HIDE DEF j
    <3>3. pending'[j].type = "message_delta"
      BY <1>4, <3>1, <3>2
    <3>4. CASE j = 1
      BY <1>12, <3>2, <3>3, <3>4
    <3>5. CASE j # 1
      <4>1. j \in 2 .. Len(pending')
        BY <1>4, <3>2, <3>5
      <4> QED BY <3>3, <4>1
    <3> QED BY <3>4, <3>5
  <2> QED BY <2>1, <2>2 DEF Counted
<1> QED BY <1>7, <1>8, <1>10, <1>13, <1>15, <1>16

\* The reader ends, the client leaves or the loop ends, and nothing is written.
LEMMA UsesQuiet ==
  ASSUME EndInv, UseInv,
         \/ Abandon \/ BodyEnds \/ ReadFails \/ Leave \/ StreamOver \/ SeesClientGone
         \/ UNCHANGED relayVars
  PROVE  UseInv'
<1> USE DEF UseInv
<1>1. /\ format' = format /\ up' = up /\ dec' = dec /\ pending' = pending /\ chan' = chan
      /\ enc' = enc /\ wire' = wire /\ records' = records
  BY DEF Abandon, BodyEnds, ReadFails, Leave, StreamOver, SeesClientGone,
         relayVars, upVars, readVars, outVars, endVars
<1>2. result' = result \/ result' = [result EXCEPT !.err = TRUE]
  BY DEF Abandon, BodyEnds, ReadFails, Leave, StreamOver, SeesClientGone,
         relayVars, readVars
<1>3. /\ (pump' = "returned" <=> pump = "returned") /\ (left' = left \/ left' = TRUE)
      /\ \/ ending' = ending
         \/ pump = "loop"
  <2>1. CASE Abandon \/ BodyEnds \/ ReadFails \/ Leave \/ UNCHANGED relayVars
    BY <2>1 DEF Abandon, BodyEnds, ReadFails, Leave, relayVars
  <2>2. CASE StreamOver \/ SeesClientGone
    BY <2>2 DEF StreamOver, SeesClientGone
  <2> QED BY <2>1, <2>2
<1>4. DOMAIN result' = {"usage", "err"} /\ result'.usage = result.usage
  BY <1>2 DEF Sound
<1>5. Lives' => Lives
  <2>1. pump = "loop" => ending = "none"
    BY DEF EndInv, WireOk
  <2> QED BY <1>1, <1>3, <2>1 DEF Lives, EndInv, TypeR
<1>6. DecUse' /\ Fresh' /\ Parts' /\ Deltas' /\ StartFirst'
  <2>1. DecUse'
    BY <1>1 DEF DecUse
  <2>2. (NotBegun' <=> NotBegun) /\ (Given' <=> Given)
    BY <1>1 DEF NotBegun, Given
  <2>3. pump' = "loop" => pump = "loop"
    BY DEF Abandon, BodyEnds, ReadFails, Leave, StreamOver, SeesClientGone, relayVars
  <2> QED BY <1>1, <2>1, <2>2, <2>3 DEF Fresh, Parts, Deltas, StartFirst
<1>7. Sound'
  BY <1>1, <1>3, <1>4 DEF Sound
<1>8. Covered' /\ Counted'
  BY <1>1, <1>4, <1>5 DEF Covered, Counted
<1>9. Recorded'
  BY <1>1, <1>3 DEF Recorded, EndInv, TypeR
<1> QED BY <1>6, <1>7, <1>8, <1>9

LEMMA UsesAppend ==
  ASSUME NEW w, NEW e, Of(w, Types), Event(e), e.type \in Types PROVE Uses(Append(w, e)) = Uses(w) \union e.usage
<1> DEFINE s == <<e>>
<1>1. Append(w, e) = w \o s
  <2>1. PICK X : w \in Seq(X)
    BY DEF Of
  <2> QED BY <2>1
<1>2. Of(s, Types) /\ Uses(s) = e.usage
  BY OfOne, UsesOne
<1> HIDE DEF s
<1> QED BY <1>1, <1>2, UsesJoin

LEMMA UsesError == ASSUME EndInv, UseInv, UpstreamError PROVE UseInv'
<1> USE DEF UseInv
<1> DEFINE e == ErrorEvent
           U == up.usage
<1>1. /\ format' = format /\ up' = up /\ dec' = dec /\ left' = left /\ reader' = reader /\ pending' = pending
      /\ started' = started /\ enc' = enc /\ rec' = rec /\ saves' = saves /\ records' = records /\ result' = result
  BY DEF UpstreamError, upVars, readVars, endVars
<1>2. /\ pump = "loop" /\ chan # <<>> /\ wire' = Append(wire, e) /\ chan' = Tail(chan)
      /\ pump' = "settle" /\ ending' = "signalled"
  BY DEF UpstreamError
<1>3. Event(e) /\ e.type = "error" /\ e.type \in Types /\ e.usage = {}
  <2>1. Event(e) /\ e.type = "error"
    BY MadeIs
  <2> HIDE DEF e
  <2> QED BY <2>1 DEF Event, Types
<1> HIDE DEF e
<1>4. /\ Of(wire, Types) /\ Of(chan, Types) /\ Fits(chan, U) /\ ~Stop(wire)
  BY <1>2 DEF EndInv, TypeR, WireOk, Parts
<1>5. Uses(wire') = Uses(wire) /\ ~Stop(wire')
  <2>1. "error" # "message_stop"
    OBVIOUS
  <2>2. ~Stop(wire')
    BY <1>2, <1>3, <1>4, <2>1, StopAppend
  <2> QED BY <1>2, <1>3, <1>4, <2>2, UsesAppend
<1>6. /\ Fits(chan', U) /\ (Reported(chan') => Reported(chan)) /\ Len(chan') = Len(chan) - 1
      /\ \A i \in 1 .. Len(chan') : i + 1 \in 1 .. Len(chan) /\ i + 1 # 1 /\ chan'[i] = chan[i + 1]
  BY <1>2, <1>4, SaysTail
<1>7. DecUse' /\ Fresh' /\ Parts' /\ Deltas'
  <2>1. DecUse' /\ (Given' <=> Given)
    BY <1>1 DEF DecUse, Given
  <2>2. up.phase # "new"
    BY <1>2 DEF Fresh
  <2> QED BY <1>1, <1>2, <1>6, <2>1, <2>2 DEF Fresh, Parts, Deltas
<1>8. StartFirst'
  <2>1. \A i \in 1 .. Len(pending') : pending'[i].type # "message_start"
    BY <1>1, <1>2 DEF StartFirst
  <2>2. \A i \in 1 .. Len(chan') : chan'[i].type # "message_start"
    BY <1>6 DEF StartFirst
  <2> QED BY <2>1, <2>2 DEF StartFirst
<1>9. Sound'
  BY <1>1, <1>2, <1>4, <1>5 DEF Sound, Told
<1>10. Covered' /\ Counted' /\ Recorded'
  BY <1>1, <1>2 DEF Covered, Counted, Recorded, Lives
<1> QED BY <1>7, <1>8, <1>9, <1>10

LEMMA UsesForward == ASSUME EndInv, UseInv, Forward PROVE UseInv'
<1> USE DEF UseInv
<1> DEFINE ev == Head(chan)
           R == Relayed(ev)
           s == R.frames
           U == up.usage
<1>1. /\ format' = format /\ up' = up /\ dec' = dec /\ left' = left /\ reader' = reader /\ pending' = pending
      /\ pump' = pump /\ ending' = ending /\ saves' = saves /\ records' = records /\ result' = result
  BY DEF Forward, upVars, readVars, endVars
<1>2. /\ pump = "loop" /\ chan # <<>> /\ ev.type # "error" /\ chan' = Tail(chan)
      /\ wire' = wire \o s /\ enc' = R.enc
  BY DEF Forward
<1> HIDE DEF R
<1>3. /\ Of(wire, Types) /\ Of(chan, Types) /\ Fits(chan, U) /\ ~Stop(wire) /\ format.stream
      /\ format.client \in Formats
  BY <1>2 DEF EndInv, TypeR, WireOk, Complete, Parts
<1>4. /\ Fits(chan', U) /\ Len(chan') = Len(chan) - 1 /\ ev.usage \subseteq U /\ (ev.type = "message_delta" => ev.usage = U)
      /\ Reported(chan) <=> ev.type = "message_delta" \/ Reported(chan')
      /\ ev = chan[1] /\ 1 \in 1 .. Len(chan)
      /\ \A i \in 1 .. Len(chan') : i + 1 \in 1 .. Len(chan) /\ i + 1 # 1 /\ chan'[i] = chan[i + 1]
  BY <1>2, <1>3, SaysTail
<1>5. Event(ev) /\ ev.type \in Types \ {"error"}
  BY <1>2, <1>3, <1>4 DEF Of
<1>6. EncOpen(format.client, enc)
  BY <1>2, <1>3 DEF EncOpen, EndInv, EncKnows
<1> HIDE DEF ev
<1>7. Gives(format.client, enc, ev, R) /\ Of(s, Types) /\ (Stop(s) <=> ev.type = "message_stop")
  BY <1>3, <1>5, <1>6, RelayedGives DEF R
<1>8. /\ format.client = "responses" => Uses(wire) = {}
      /\ Told(format.client, enc, wire) \subseteq U
      /\ format.client = "responses" /\ ev.type = "message_start" => enc.usage = {}
  <2>1. format.client = "responses" /\ ev.type = "message_start" => enc.started = FALSE
    BY <1>4 DEF StartFirst, NotBegun
  <2> QED BY <1>2, <1>3, <2>1 DEF Sound
<1>9. /\ Told(format.client, R.enc, wire') \subseteq U
      /\ format.client = "responses" /\ ~Stop(wire') => Uses(wire') = {}
      /\ ev.type = "message_delta" => Told(format.client, R.enc, wire') = U
      /\ Told(format.client, enc, wire) = U => Told(format.client, R.enc, wire') = U
  <2> DEFINE n == wire \o R.frames
             f == format.client
  <2> HIDE DEF U
  <2>1. Of(wire, Types) /\ Of(R.frames, Types) /\ ~Stop(wire) /\ (Stop(R.frames) <=> ev.type = "message_stop")
    BY <1>3, <1>7
  <2>2. ev.type \in Types \ {"error"} /\ Gives(f, enc, ev, R) /\ ev.usage \subseteq U
    BY <1>4, <1>5, <1>7
  <2>3. f = "responses" => Uses(wire) = {}
    BY <1>8
  <2>4. Told(f, enc, wire) \subseteq U /\ (ev.type = "message_delta" => ev.usage = U)
    BY <1>4, <1>8
  <2> HIDE DEF f
  <2>5. Teller(f, enc, ev, R, wire, U)
    BY <2>1, <2>2, <2>3, <2>4 DEF Teller
  <2>6. Taught(f, enc, ev, R, wire, n, U)
    BY <2>5, TellOn
  <2>7. wire' = n
    BY <1>2
  <2> HIDE DEF n
  <2> QED BY <1>8, <2>6, <2>7 DEF f, Taught
<1>10. format.client = "responses" => enc'.started = TRUE
  <2> SUFFICES ASSUME format.client = "responses" PROVE R.enc.started = TRUE
    BY <1>2
  <2>1. CASE ev.type = "message_stop"
    BY <1>3, <1>5, <1>6, <2>1, RelayedStop DEF R
  <2>2. CASE ev.type # "message_stop"
    <3>1. ev.type \in Inner /\ DOMAIN enc = EncFields
      BY <1>5, <1>6, <2>2 DEF Types, EncOpen
    <3>2. EncNext(enc, R.enc)
      BY <1>3, <1>5, <3>1, RelayedInner DEF R
    <3> QED BY <3>2 DEF EncNext
  <2> QED BY <2>1, <2>2
<1>11. DecUse' /\ Fresh' /\ Parts' /\ Deltas'
  <2>1. DecUse' /\ (Given' <=> Given)
    BY <1>1 DEF DecUse, Given
  <2>2. up.phase # "new"
    BY <1>2 DEF Fresh
  <2> QED BY <1>1, <1>3, <1>4, <2>1, <2>2 DEF Fresh, Parts, Deltas
<1>12. StartFirst'
  <2>1. \A i \in 1 .. Len(pending') : pending'[i].type # "message_start"
    BY <1>1, <1>2 DEF StartFirst
  <2>2. \A i \in 1 .. Len(chan') : chan'[i].type # "message_start"
    BY <1>4 DEF StartFirst
  <2> QED BY <2>1, <2>2 DEF StartFirst
<1>13. Sound'
  BY <1>1, <1>2, <1>9, <1>10 DEF Sound
<1>14. Lives' <=> Lives
  BY <1>1 DEF Lives
<1>15. Covered'
  BY <1>1, <1>2, <1>4, <1>9, <1>14 DEF Covered
<1>16. Counted' /\ Recorded'
  BY <1>1, <1>2, <1>14 DEF Counted, Recorded
<1> QED BY <1>11, <1>12, <1>13, <1>15, <1>16

LEMMA UsesSettle == ASSUME EndInv, UseInv, Settle PROVE UseInv'
<1> USE DEF UseInv
<1> DEFINE status == IF Succeeds THEN "ok" ELSE "error"
           rcd == [status |-> status, usage |-> result.usage]
<1>1. /\ format' = format /\ up' = up /\ dec' = dec /\ left' = left /\ reader' = reader /\ pending' = pending
      /\ chan' = chan /\ ending' = ending /\ enc' = enc /\ result' = result
  BY DEF Settle, upVars, readVars
<1>2. /\ pump = "settle" /\ pump' = "returned"
      /\ wire' = (IF Flushes THEN wire \o FlushResponses(enc) ELSE wire)
      /\ records' = Append(records, rcd)
  BY DEF Settle
<1>3. Of(wire, Types) /\ records = <<>> /\ format.stream
  BY <1>2 DEF EndInv, TypeR, WireOk, Complete
<1>4. Len(records') = 1 /\ records'[1].status = status /\ records'[1].usage = result.usage
  <2>1. records' = <<rcd>>
    BY <1>2, <1>3
  <2>2. records'[1] = rcd /\ Len(records') = 1
    BY <2>1
  <2>3. rcd.status = status /\ rcd.usage = result.usage
    OBVIOUS
  <2> HIDE DEF rcd
  <2> QED BY <2>2, <2>3
<1>5. status = "ok" => ending = "over"
  BY DEF Succeeds
<1> HIDE DEF status
<1>6. ASSUME status = "ok", ~left, up.phase = "ended" PROVE result.usage = up.usage /\ Uses(wire') = up.usage
  <2>1. Lives
    BY <1>2, <1>3, <1>5, <1>6 DEF Lives
  <2>2. pending = <<>> /\ chan = <<>> /\ Len(pending) = 0
    <3>1. reader = "closed" /\ chan = <<>>
      BY <1>2, <1>5, <1>6 DEF EndInv, WireOk, OverOk
    <3>2. pending = <<>>
      BY <1>2, <1>6, <3>1 DEF EndInv, PipeOk, ContextDone
    <3> QED BY <3>1, <3>2, OfEmpty
  <2>3. Stop(wire)
    BY <1>2, <1>3, <1>5, <1>6, <2>2, StopEmpty DEF EndInv, OnItsWay
  <2>4. result.usage = up.usage
    <3>1. \A i \in 2 .. 0 : FALSE
      OBVIOUS
    <3> QED BY <2>1, <2>2, <3>1 DEF Counted
  <2>5. Uses(wire) = up.usage
    BY <2>1, <2>2, <2>3, EmptySays DEF Covered, Told
  <2>6. wire' = wire
    <3>1. CASE Flushes
      <4>1. /\ enc.completed = TRUE \/ enc.completed = FALSE
            /\ enc.completed = TRUE <=> Stop(wire)
            /\ enc.completed = TRUE => enc.started = TRUE
        BY <1>2, <1>3, <3>1 DEF EndInv, EncKnows, Flushes
      <4>2. FlushResponses(enc) = <<>>
        BY <2>3, <4>1, FlushIs
      <4>3. wire \o <<>> = wire
        <5>1. PICK X : wire \in Seq(X)
          BY <1>3 DEF Of
        <5> QED BY <5>1
      <4> QED BY <1>2, <3>1, <4>2, <4>3
    <3>2. CASE ~Flushes
      BY <1>2, <3>2
    <3> QED BY <3>1, <3>2
  <2> QED BY <2>4, <2>5, <2>6
<1>7. DecUse' /\ Fresh' /\ Parts' /\ Deltas' /\ StartFirst'
  <2>1. DecUse' /\ (Given' <=> Given) /\ (NotBegun' <=> NotBegun)
    BY <1>1 DEF DecUse, Given, NotBegun
  <2> QED BY <1>1, <1>2, <2>1 DEF Fresh, Parts, Deltas, StartFirst
<1>8. Sound' /\ Covered' /\ Counted'
  BY <1>1, <1>2 DEF Sound, Covered, Counted, Lives
<1>9. Recorded'
  BY <1>1, <1>4, <1>6 DEF Recorded
<1> QED BY <1>7, <1>8, <1>9

-----------------------------------------------------------------------------
(* A whole answer, expanded *)

Telling(f, x, U) ==
  Going(f, x) /\ (f = "responses" => Uses(x.frames) = {}) /\ Told(f, x.enc, x.frames) \subseteq U

LEMMA GrowTells ==
  ASSUME NEW f \in Formats, NEW x, NEW U, Telling(f, x, U),
         NEW ev, Event(ev), ev.type \in Types \ {"error"}, ev.usage \subseteq U, ev.type = "message_delta" => ev.usage = U
  PROVE  LET y == Grow(f, x, ev)
         IN  /\ Told(f, y.enc, y.frames) \subseteq U
             /\ f = "responses" /\ ~Stop(y.frames) => Uses(y.frames) = {}
             /\ ev.type = "message_delta" => Told(f, y.enc, y.frames) = U
             /\ Told(f, x.enc, x.frames) = U /\ ev.type # "message_start" => Told(f, y.enc, y.frames) = U
<1> DEFINE e == x.enc
           w == x.frames
           r == Encode(f, e, ev)
           n == w \o r.frames
<1>1. Grow(f, x, ev).enc = r.enc /\ Grow(f, x, ev).frames = n
  BY DEF Grow, Encoded
<1>2. EncOpen(f, e) /\ Of(w, Types) /\ ~Stop(w) /\ (f = "responses" => Uses(w) = {}) /\ Told(f, e, w) \subseteq U
  <2>1. Of(w, Inner) /\ EncOpen(f, e)
    BY DEF Telling, Going
  <2>2. (f = "responses" => Uses(w) = {}) /\ Told(f, e, w) \subseteq U
    BY DEF Telling
  <2> HIDE DEF w, e
  <2>3. Of(w, Types) /\ ~Stop(w)
    BY <2>1, InnerNot
  <2> QED BY <2>1, <2>2, <2>3
<1> HIDE DEF w, e
<1>3. Gives(f, e, ev, r)
  BY <1>2, EncodeGives
<1>4. Of(r.frames, Types) /\ (Stop(r.frames) <=> ev.type = "message_stop")
  BY <1>2, EncodeFrames
<1> HIDE DEF r
<1>5. Teller(f, e, ev, r, w, U)
  BY <1>2, <1>3, <1>4 DEF Teller
<1>6. Taught(f, e, ev, r, w, n, U)
  BY <1>5, TellOn
<1> HIDE DEF n
<1>7. /\ Told(f, r.enc, n) \subseteq U
      /\ f = "responses" /\ ~Stop(n) => Uses(n) = {}
      /\ ev.type = "message_delta" => Told(f, r.enc, n) = U
      /\ Told(f, e, w) = U /\ ev.type # "message_start" => Told(f, r.enc, n) = U
  BY <1>6 DEF Taught
<1> QED BY <1>1, <1>7 DEF e, w

LEMMA EncodesTelling ==
  ASSUME NEW f \in Formats, NEW evs, NEW n \in Nat, NEW g, NEW U, Encodes(f, evs, n, g),
         \A i \in 1 .. n - 1 : /\ Event(evs[i]) /\ evs[i].type \in Inner /\ evs[i].usage \subseteq U
                               /\ evs[i].type = "message_delta" => evs[i].usage = U
  PROVE  \A i \in 0 .. n - 1 : Telling(f, g[i], U)
<1> DEFINE T == {i \in 0 .. n - 1 : ~Telling(f, g[i], U)}
<1> SUFFICES ASSUME T # {} PROVE FALSE
  OBVIOUS
<1>1. PICK z \in T : \A l \in T : z <= l
  <2>1. T \subseteq Nat
    OBVIOUS
  <2> HIDE DEF T
  <2> QED BY <2>1, LeastNat
<1>2. z \in 0 .. n - 1 /\ ~Telling(f, g[z], U)
  OBVIOUS
<1>3. g[z] = IF z = 0 THEN First(f) ELSE Grow(f, g[z - 1], evs[z])
  BY <1>2 DEF Encodes
<1>4. Going(f, g[z])
  BY <1>2, EncodesGoing
<1>5. CASE z = 0
  <2>1. g[z] = First(f) /\ g[z].frames = <<>> /\ g[z].enc = Encoder(f)
    BY <1>3, <1>5 DEF First, Encoded
  <2>2. f = "responses" => Encoder(f).usage = {}
    BY DEF Encoder, ResponsesEncoder
  <2>3. Told(f, g[z].enc, g[z].frames) = {}
    BY <2>1, <2>2, UsesNone, StopEmpty DEF Told
  <2> QED BY <1>2, <1>4, <2>1, <2>3, UsesNone DEF Telling
<1>6. CASE z # 0
  <2> DEFINE x  == g[z - 1]
             ev == evs[z]
             y  == Grow(f, x, ev)
  <2>1. z - 1 \in 0 .. n - 1 /\ z - 1 \notin T /\ z \in 1 .. n - 1
    BY <1>1, <1>2, <1>6
  <2>2. Telling(f, x, U)
    BY <2>1
  <2>3. /\ Event(ev) /\ ev.type \in Inner /\ ev.usage \subseteq U
        /\ ev.type = "message_delta" => ev.usage = U
    BY <2>1
  <2>4. g[z] = y
    BY <1>3, <1>6
  <2> HIDE DEF x, ev
  <2>5. /\ Told(f, y.enc, y.frames) \subseteq U
        /\ f = "responses" /\ ~Stop(y.frames) => Uses(y.frames) = {}
    BY <2>2, <2>3, GrowTells DEF Types, Inner
  <2> HIDE DEF y
  <2>6. Going(f, y) /\ ~Telling(f, y, U)
    BY <1>2, <1>4, <2>4
  <2>7. ~Stop(y.frames)
    <3>1. Of(y.frames, Inner)
      BY <2>6 DEF Going
    <3> QED BY <3>1, InnerNot
  <2> QED BY <2>5, <2>6, <2>7 DEF Telling
<1> QED BY <1>5, <1>6

\* The client is told all of the usage of an answer whose last event before its end reports it.
LEMMA EncodeAllTells ==
  ASSUME NEW f \in Formats, NEW p, NEW U, Of(p, Inner), Fits(p, U), Len(p) # 0, p[Len(p)].type = "message_delta"
  PROVE  Uses(EncodeAll(f, p \o <<Ended>>).frames) = U
<1> DEFINE e == <<Ended>>
           evs == p \o e
           n == Len(p) + 1
<1>1. Event(Ended) /\ Ended.type = "message_stop" /\ Ended.usage = {}
  BY MadeIs DEF Ended, MessageStop, StreamEvent
<1>2. Of(e, Types) /\ Len(e) = 1 /\ e[1] = Ended /\ Of(p, Types)
  BY <1>1, OfOne, OfWider DEF Types
<1>3. Finishes(evs)
  BY DEF Finishes
<1>4. LET s == EncodeAll(f, evs).frames IN Stop(s)
  BY <1>3, EncodeAllEnds
<1> HIDE DEF e
<1>5. /\ Len(p) \in Nat /\ Len(evs) = Len(p) + Len(e) /\ (\A i \in 1 .. Len(p) : evs[i] = p[i])
      /\ (\A i \in 1 .. Len(e) : evs[Len(p) + i] = e[i])
  <2>1. Len(p) \in Nat
    BY OfLen
  <2>3. Of(p, Types) /\ Of(e, Types)
    BY <1>2
  <2>2. /\ Len(p \o e) = Len(p) + Len(e) /\ (\A i \in 1 .. Len(p) : (p \o e)[i] = p[i])
        /\ (\A i \in 1 .. Len(e) : (p \o e)[Len(p) + i] = e[i])
    BY <2>3, OfJoin
  <2> QED BY <2>1, <2>2
<1> HIDE DEF evs
<1>6. /\ Len(evs) = n /\ n \in Nat /\ evs[n] = Ended /\ n - 1 \in 0 .. n - 1 /\ n \in 0 .. n /\ n # 0
      /\ n - 1 \in 1 .. n - 1 /\ n - 1 # 0 /\ n - 1 \in 0 .. n /\ n - 2 \in 0 .. n - 1 /\ (n - 1) - 1 = n - 2
      /\ evs[n - 1].type = "message_delta"
  BY <1>2, <1>5
<1>7. \A i \in 1 .. n - 1 : /\ Event(evs[i]) /\ evs[i].type \in Inner /\ evs[i].usage \subseteq U
                            /\ evs[i].type = "message_delta" => evs[i].usage = U
  <2> TAKE i \in 1 .. n - 1
  <2>1. i \in 1 .. Len(p) /\ evs[i] = p[i]
    BY <1>5
  <2> QED BY <2>1 DEF Of, Fits
<1> HIDE DEF n
<1>8. PICK g : Encodes(f, evs, n, g) /\ EncodeAll(f, evs) = g[n]
  BY <1>6, EncodeAllIs
<1>9. \A i \in 0 .. n - 1 : Telling(f, g[i], U)
  BY <1>6, <1>7, <1>8, EncodesTelling
<1>10. g[n] = Grow(f, g[n - 1], Ended) /\ g[n - 1] = Grow(f, g[n - 2], evs[n - 1])
  BY <1>6, <1>8 DEF Encodes
<1> DEFINE x == g[n - 2]
           y == g[n - 1]
           z == g[n]
           d == evs[n - 1]
<1>11. Telling(f, x, U) /\ Telling(f, y, U) /\ y = Grow(f, x, d) /\ z = Grow(f, y, Ended)
  BY <1>6, <1>9, <1>10
<1>12. Event(d) /\ d.type = "message_delta" /\ d.usage = U /\ d.type \in Types \ {"error"}
  <2>1. Event(d) /\ d.type = "message_delta" /\ d.usage = U
    BY <1>6, <1>7
  <2> HIDE DEF d
  <2> QED BY <2>1 DEF Types, Inner
<1> HIDE DEF x, y, z, d
<1>13. Told(f, y.enc, y.frames) = U
  BY <1>11, <1>12, GrowTells
<1>14. Told(f, z.enc, z.frames) = U
  <2> DEFINE t == Ended
  <2>1. Event(t) /\ t.type \in Types \ {"error"} /\ t.usage \subseteq U /\ t.type # "message_delta" /\ t.type # "message_start"
    BY <1>1 DEF Types
  <2>2. z = Grow(f, y, t)
    BY <1>11
  <2> HIDE DEF t
  <2> QED BY <1>11, <1>13, <2>1, <2>2, GrowTells
<1>15. Stop(z.frames)
  BY <1>4, <1>8 DEF z
<1> QED BY <1>8, <1>14, <1>15 DEF Told, z, e, evs

LEMMA ResponseTells ==
  ASSUME NEW n \in Nat, NEW body, DOMAIN body = 1 .. n
  PROVE  \E p : /\ Of(p, Inner) /\ Fits(p, Full) /\ Len(p) # 0 /\ p[Len(p)].type = "message_delta"
                /\ ResponseStreamEvents(body) = p \o <<Ended>>
<1> DEFINE seqs == [b \in 1 .. n |-> BlockStreamEvents(b - 1, body[b])]
           a == <<MessageStart({"in"})>>
           w == FlattenSeq(seqs)
           z == MessageDelta(Full)
           k == <<Ended>>
           c == <<z>>
<1>1. Of(a, Inner) /\ Of(c, Inner) /\ Of(k, Types)
  <2>1. Of(a, Inner) /\ Of(c, Inner)
    BY OfMade
  <2>2. Event(Ended) /\ Ended.type = "message_stop"
    BY MadeIs DEF Ended
  <2>3. Of(k, Types)
    BY <2>2, OfOne DEF Types
  <2> QED BY <2>1, <2>3
<1>2. Of(w, BlockTypes)
  <2>1. seqs = [i \in 1 .. n |-> seqs[i]] /\ \A i \in 1 .. n : seqs[i] = BlockStreamEvents(i - 1, body[i])
    OBVIOUS
  <2> HIDE DEF seqs
  <2>2. \A i \in 1 .. n : Of(seqs[i], BlockTypes)
    BY <2>1, BlockEventsAre
  <2> QED BY <2>1, <2>2, FlattenOf
<1>3. ResponseStreamEvents(body) = a \o w \o <<z, Ended>>
  BY DEF ResponseStreamEvents
<1>4. Tells(a, {{"in"}}, {}) /\ Tells(c, {}, {Full})
  BY TellsMade
<1>5. <<z, Ended>> = c \o k /\ Len(c) = 1 /\ c[1] = z
  OBVIOUS
<1>6. z.type = "message_delta"
  BY DEF MessageDelta, StreamEvent
<1> HIDE DEF a, w, z, seqs, k, c
<1>7. Of(w, Inner) /\ Tells(w, {}, {})
  BY <1>2, TellsBlocks, OfInner
<1> DEFINE p == a \o w \o c
<1>8. Of(p, Inner) /\ Len(p) = Len(a \o w) + Len(c) /\ p[Len(a \o w) + 1] = c[1] /\ Len(a \o w) \in Nat
  <2>1. Of(a \o w, Inner)
    BY <1>1, <1>7, OfJoin
  <2> DEFINE q == a \o w
  <2> HIDE DEF q
  <2>2. Of(q, Inner)
    BY <2>1 DEF q
  <2>3. Of(q \o c, Inner) /\ Len(q \o c) = Len(q) + Len(c) /\ (q \o c)[Len(q) + 1] = c[1] /\ Len(q) \in Nat
    <3>1. 1 \in 1 .. Len(c)
      BY <1>5
    <3> QED BY <1>1, <2>2, <3>1, OfJoin, OfLen
  <2> QED BY <2>3 DEF q
<1>9. Len(p) # 0 /\ p[Len(p)].type = "message_delta"
  BY <1>5, <1>6, <1>8
<1>10. Tells(p, {{"in"}}, {Full})
  <2>1. Tells(a \o w, {{"in"}}, {} \union {})
    BY <1>4, <1>7, TellsThen
  <2>2. {} \union {} = {} /\ {} \union {Full} = {Full}
    OBVIOUS
  <2>3. Tells(a \o w, {{"in"}}, {})
    BY <2>1, <2>2
  <2>4. Tells(p, {{"in"}}, {} \union {Full})
    BY <1>4, <2>3, TellsThen
  <2> QED BY <2>2, <2>4
<1>11. ResponseStreamEvents(body) = p \o k
  <2>1. PICK X : a \in Seq(X)
    BY <1>1 DEF Of
  <2>2. PICK Y : w \in Seq(Y)
    BY <1>7 DEF Of
  <2>3. PICK Z : c \in Seq(Z)
    BY <1>1 DEF Of
  <2>4. PICK V : k \in Seq(V)
    BY <1>1 DEF Of
  <2>5. a \o w \o (c \o k) = a \o w \o c \o k
    BY <2>1, <2>2, <2>3, <2>4
  <2> QED BY <1>3, <1>5, <2>5
<1> HIDE DEF p
<1>12. Fits(p, Full)
  <2> DEFINE U == Full
             X == {{"in"}}
             Y == {U}
  <2>1. Tells(p, X, Y) /\ (\A u \in X : u \subseteq U) /\ (Y # {} => Y = {U})
    BY <1>10 DEF Full
  <2> HIDE DEF U, X, Y
  <2>2. Fits(p, U)
    BY <2>1, TellsIs
  <2> QED BY <2>2 DEF U
<1> QED BY <1>8, <1>9, <1>11, <1>12 DEF k

LEMMA UsesExpand == ASSUME MaxBlocks \in Nat, EndInv, UseInv, ExpandFullResponse PROVE UseInv'
<1> USE DEF UseInv
<1> DEFINE U   == Full
           rcd == [status |-> "ok", usage |-> U]
<1>1. /\ format' = format /\ dec' = dec /\ pending' = pending /\ chan' = chan
      /\ pump = "loop" /\ pump' = "returned" /\ ~format.stream
      /\ up' = [up EXCEPT !.phase = "ended", !.usage = U]
      /\ result' = [result EXCEPT !.usage = U]
      /\ records' = Append(records, rcd)
  BY DEF ExpandFullResponse
<1>2. PICK body \in Answers : wire' = EncodeAll(format.client, ResponseStreamEvents(body)).frames
  BY DEF ExpandFullResponse
<1>3. PICK n \in Nat : DOMAIN body = 1 .. n
  BY AnswerDomain
<1> DEFINE evs == ResponseStreamEvents(body)
<1>4. PICK p : /\ Of(p, Inner) /\ Fits(p, U) /\ Len(p) # 0 /\ p[Len(p)].type = "message_delta"
               /\ evs = p \o <<Ended>>
  BY <1>3, ResponseTells
<1> HIDE DEF evs, U
<1>5. format.client \in Formats
  BY DEF EndInv, TypeR
<1>6. Uses(wire') = U
  <2> DEFINE s == EncodeAll(format.client, p \o <<Ended>>).frames
  <2>1. Uses(s) = U
    BY <1>4, <1>5, EncodeAllTells
  <2>2. wire' = s
    BY <1>2, <1>4 DEF evs
  <2> HIDE DEF s
  <2> QED BY <2>1, <2>2
<1>7. records = <<>> /\ up.phase = "new" /\ pending = <<>> /\ chan = <<>> /\ DOMAIN up = UpShape
  BY <1>1 DEF EndInv, WireOk, Fresh, TypeR, UpOk
<1>8. Len(records') = 1 /\ records'[1].usage = U
  <2>1. records' = <<rcd>>
    BY <1>1, <1>7
  <2>2. records'[1] = rcd /\ Len(records') = 1
    BY <2>1
  <2>3. rcd.usage = U
    OBVIOUS
  <2> HIDE DEF rcd
  <2> QED BY <2>2, <2>3
<1>9. up'.phase = "ended" /\ up'.usage = U /\ DOMAIN result' = {"usage", "err"} /\ result'.usage = U
  BY <1>1, <1>7 DEF UpShape, Sound
<1>10. ~Lives' /\ pending' = <<>> /\ chan' = <<>>
  BY <1>1, <1>7 DEF Lives
<1>11. DecUse'
  BY <1>1, <1>9 DEF DecUse
<1>12. Fresh' /\ Parts' /\ Deltas' /\ StartFirst'
  <2>1. Fresh' /\ Parts' /\ Deltas'
    BY <1>1, <1>9, <1>10, EmptySays DEF Fresh, Parts, Deltas
  <2>2. StartFirst'
    BY <1>10, OfEmpty DEF StartFirst
  <2> QED BY <2>1, <2>2
<1>13. Sound' /\ Covered' /\ Counted'
  BY <1>1, <1>9, <1>10 DEF Sound, Covered, Counted
<1>14. Recorded'
  BY <1>6, <1>8, <1>9 DEF Recorded
<1> QED BY <1>11, <1>12, <1>13, <1>14

LEMMA UsesInit == ASSUME Clients \subseteq Formats, RelayInit PROVE UseInv
<1>1. /\ up = [phase |-> "new", blocks |-> <<>>, usage |-> {}]
      /\ dec = Decoder(format.up) /\ enc = Encoder(format.client)
      /\ pending = <<>> /\ chan = <<>> /\ wire = <<>> /\ pump = "loop" /\ ending = "none"
      /\ result = [usage |-> {}, err |-> FALSE]
  BY DEF RelayInit
<1>2. up.phase = "new" /\ up.usage = {} /\ DOMAIN result = {"usage", "err"} /\ result.usage = {}
  BY <1>1
<1>3. DecUse
  <2>1. format.up = "openai" => dec.usage = {} /\ dec.finished = FALSE /\ dec.deltaSent = FALSE
    BY <1>1 DEF Decoder, OpenAIDecoder
  <2>2. format.up = "anthropic" => dec = {}
    BY <1>1 DEF Decoder, AnthropicDecoder
  <2>3. format.up = "responses" => DOMAIN dec = ItemFields
    BY <1>1 DEF Decoder, ResponsesDecoder, ItemFields
  <2> QED BY <1>2, <2>1, <2>2, <2>3 DEF DecUse
<1>4. format.client = "responses" => enc.started = FALSE /\ enc.usage = {}
  BY <1>1 DEF Encoder, ResponsesEncoder
<1>5. Fresh /\ Parts /\ Deltas
  BY <1>1, <1>2, <1>4, EmptySays DEF Fresh, Parts, Deltas, NotBegun
<1>6. StartFirst
  BY <1>1, OfEmpty DEF StartFirst
<1>7. Sound
  BY <1>1, <1>2, <1>4, UsesNone DEF Sound, Told
<1>8. Covered /\ Counted /\ Recorded
  BY <1>1, <1>2 DEF Covered, Counted, Recorded, Lives
<1> QED BY <1>3, <1>5, <1>6, <1>7, <1>8 DEF UseInv

LEMMA UsesNext == ASSUME MaxBlocks \in Nat, EndInv, UseInv, [RelayNext]_relayVars PROVE UseInv'
<1>1. CASE UpstreamSends
  <2>1. UpOk
    BY DEF EndInv, TypeR
  <2>2. PICK c : UpStep(c)
    BY <1>1, <2>1, UpstreamStep
  <2> QED BY <2>2, UsesStep
<1>2. CASE SendEvent
  BY <1>2, UsesSendEvent
<1>3. CASE \/ Abandon \/ BodyEnds \/ ReadFails \/ Leave \/ StreamOver \/ SeesClientGone
           \/ UNCHANGED relayVars
  BY <1>3, UsesQuiet
<1>4. CASE Forward
  BY <1>4, UsesForward
<1>5. CASE UpstreamError
  BY <1>5, UsesError
<1>6. CASE Settle
  BY <1>6, UsesSettle
<1>7. CASE ExpandFullResponse
  BY <1>7, UsesExpand
<1> QED BY <1>1, <1>2, <1>3, <1>4, <1>5, <1>6, <1>7 DEF RelayNext, Reader, Pump

LEMMA UsesWell == ASSUME EndInv, UseInv PROVE UsageReaches
<1>1. Len(records) = IF pump = "returned" THEN 1 ELSE 0
  <2>1. pump # "returned" => records = <<>>
    BY DEF EndInv, WireOk
  <2> QED BY <2>1 DEF UseInv, Recorded
<1>2. DOMAIN wire = 1 .. Len(wire)
  BY OfLen DEF EndInv, TypeR
<1>3. UNION {wire[p].usage : p \in DOMAIN wire} = Uses(wire)
  BY <1>2 DEF Uses
<1>4. ASSUME EndedWell, up.phase = "ended" PROVE records[1].usage = up.usage /\ Uses(wire) = up.usage
  <2>1. records # <<>> /\ records[1].status = "ok" /\ ~left
    BY <1>4 DEF EndedWell
  <2>2. pump = "returned"
    BY <2>1 DEF EndInv, WireOk
  <2> QED BY <1>4, <2>1, <2>2 DEF UseInv, Recorded
<1> QED BY <1>1, <1>3, <1>4 DEF UsageReaches

\* The first rule of translate/cross_stream_test.go, whatever the two protocols, the order in
\* which the upstream says what it has used and the interleaving of the reader and the pump: an
\* answer that ends well is recorded once, with the usage its upstream reported, and the client
\* is told the same.  For any formats of the two sides, kinds of block, buffer and bounds.
THEOREM UsageReachesAlways == RelaySpec => []UsageReaches
<1>1. RelayInit => EndInv /\ UseInv
  BY EndsInit, UsesInit, FormatsAssumption
<1>2. EndInv /\ UseInv /\ [RelayNext]_relayVars => EndInv' /\ UseInv'
  BY EndsNext, UsesNext, BlocksAssumption
<1>3. EndInv /\ UseInv => UsageReaches
  BY UsesWell
<1> QED BY <1>1, <1>2, <1>3, PTL DEF RelaySpec
=============================================================================
