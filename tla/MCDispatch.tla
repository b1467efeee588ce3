----------------------------- MODULE MCDispatch -----------------------------
(***************************************************************************)
(* Instances of Dispatch for TLC, with a history variable that remembers   *)
(* which candidates have been cooling all the time since a request began.  *)
(***************************************************************************)
EXTENDS Dispatch, TLC

CONSTANTS u1, u2, m, m2

Sym == Permutations(Requests)

Direct == {<<<<u1, m>>>>}
Long   == {<<<<u1, m>>, <<u2, m>>, <<u1, m2>>>>}

VARIABLE since  \* per request: the keys cooling ever since its "now"
mcVars == <<vars, since>>

Cooling == {k \in Keys : cool[k] = "cooling"}

Track == since' = [r \in Requests |->
  IF pc[r] = "idle" /\ pc'[r] = "check" THEN Cooling
  ELSE IF pc'[r] \in {"idle", "done"} THEN {}
  ELSE since[r] \intersect Cooling']

\* All requests have been served.
Finished ==
  /\ \A r \in Requests : pc[r] = "done" /\ call[r] = "none"
  /\ UNCHANGED mcVars

MCInit == Init /\ limit = [u \in Ups |-> 1] /\ since = [r \in Requests |-> {}]

\* Next, action by action so that TLC counts each of them, with the history.
MCNext ==
  \/ \E u \in Ups, n \in Limits : SetLimit(u, n) /\ Track
  \/ \E k \in Keys : Lapse(k) /\ Track
  \/ \E r \in Requests : Start(r) /\ Track
  \/ \E r \in Requests : ClientGone(r) /\ Track
  \/ \E r \in Requests : CallEnds(r) /\ Track
  \/ \E r \in Requests : SkipCooling(r) /\ Track
  \/ \E r \in Requests : Consider(r) /\ Track
  \/ \E r \in Requests : Unlimited(r) /\ Track
  \/ \E r \in Requests : PickSem(r) /\ Track
  \/ \E r \in Requests : TrySlot(r) /\ Track
  \/ \E r \in Requests : SkipBusy(r) /\ Track
  \/ \E r \in Requests : FlushHeaders(r) /\ Track
  \/ \E r \in Requests : Call(r) /\ Track
  \/ \E r \in Requests : Return(r) /\ Track
  \/ \E r \in Requests : SeeGone(r) /\ Track
  \/ \E r \in Requests : Succeed(r) /\ Track
  \/ \E r \in Requests : Fail(r) /\ Track
  \/ \E r \in Requests : Exhaust(r) /\ Track
  \/ \E r \in Requests : PumpEnds(r) /\ Track
  \/ \E r \in Requests : PumpGone(r) /\ Track
  \/ Finished

MCSpec == MCInit /\ [][MCNext]_mcVars
MCFairSpec ==
  MCSpec /\ \A r \in Requests : WF_vars(Step(r)) /\ WF_vars(gone[r] /\ CallEnds(r))

\* A candidate that has been cooling ever since the request took its "now" is not
\* called, unless it is the last: not when failing over either.
CooldownHeld ==
  \A r \in Requests :
    pc[r] \in {"pick", "try", "head", "call"} /\ Coolable(r) => Cand(r) \notin since[r]
=============================================================================
