--------------------------- MODULE MCConfigCache ---------------------------
(***************************************************************************)
(* Instances of ConfigCache for TLC, with history variables that remember, *)
(* for every lookup in progress, the answers that would have been right.   *)
(***************************************************************************)
EXTENDS ConfigCache, TLC

CONSTANTS
  x, y,       \* names
  OneLookup   \* bound: each request makes a single lookup

AskedKeys   == {"keys"} \X KeyIds
AskedRoutes == {<<"ups", x>>, <<"aliases", x>>}

\* Requests are interchangeable; names are not, since only x is looked up.
Symmetry == Permutations(Requests)

VARIABLES
  right,  \* per request: the answers right at some moment since its lookup began
          \* (empty: not tracked, for an alias, or if a write was then in progress)
  joined  \* per request: its answer comes from a flight that others began
mcVars == <<vars, right, joined>>

\* NoVal stands for "there is no such row".
Answers(s) == IF Current(s) = {} THEN {NoVal} ELSE Current(s)

\* An alias is read by two queries outside a transaction: no one moment is right.
Tracked(s) == maint.op = "none" /\ s[1] # "aliases"

Track ==
  /\ right' = [r \in Requests |->
       CASE pc[r] \in {"idle", "done"} /\ pc'[r] = "probe" ->
              IF Tracked(slot'[r]) THEN Answers(slot'[r]) ELSE {}
         [] pc[r] \in {"idle", "done"} /\ pc'[r] # "probe" -> {}
         [] OTHER -> IF right[r] = {} THEN {} ELSE right[r] \union Answers(slot[r])']
  /\ joined' = [r \in Requests |->
       IF pc'[r] = "wait" THEN TRUE ELSE IF pc'[r] = "probe" THEN FALSE ELSE joined[r]]

MCInit == Init /\ right = [r \in Requests |-> {}] /\ joined = [r \in Requests |-> FALSE]

\* The bounds are used up and every request has its answer.
Finished ==
  /\ OneLookup /\ writes = MaxWrites /\ maint.op = "none"
  /\ \A r \in Requests : pc[r] = "done"
  /\ UNCHANGED mcVars

\* Next, action by action so that TLC counts each of them, with the history.
MCNext ==
  \/ \E k \in KeyIds : CreateExtKey(k) /\ Track
  \/ \E k \in KeyIds : UpdateExtKey(k) /\ Track
  \/ \E k \in KeyIds : DeleteExtKey(k) /\ Track
  \/ \E i \in UpIds, n \in Names, e \in BOOLEAN : CreateUpstream(i, n, e) /\ Track
  \/ \E i \in UpIds, n \in Names, e \in BOOLEAN : UpdateUpstream(i, n, e) /\ Track
  \/ \E i \in UpIds : DeleteUpstream(i) /\ Track
  \/ \E a \in AliasIds, n \in Names, B \in SUBSET UpIds : CreateAlias(a, n, B) /\ Track
  \/ \E a \in AliasIds, n \in Names, B \in SUBSET UpIds : UpdateAlias(a, n, B) /\ Track
  \/ \E a \in AliasIds : DeleteAlias(a) /\ Track
  \/ StoreKey /\ Track
  \/ EvictKey /\ Track
  \/ EvictUpstream /\ Track
  \/ EvictAliasByID /\ Track
  \/ EvictAliasByName /\ Track
  \/ \E s \in Lookups : Expire(s) /\ Track
  \/ \E r \in Requests, s \in Asked :
       (OneLookup => pc[r] = "idle") /\ Start(r, s) /\ Track
  \/ \E r \in Requests : ProbeHit(r) /\ Track
  \/ \E r \in Requests : ProbeMiss(r) /\ Track
  \/ \E r \in Requests : ContendHit(r) /\ Track
  \/ \E r \in Requests : Join(r) /\ Track
  \/ \E r \in Requests : Lead(r) /\ Track
  \/ \E r \in Requests : ReadRow(r) /\ Track
  \/ \E r \in Requests : ReadAlias(r) /\ Track
  \/ \E r \in Requests : ReadBindings(r) /\ Track
  \/ \E r \in Requests : ReadNothing(r) /\ Track
  \/ \E r \in Requests : ReadFails(r) /\ Track
  \/ \E r \in Requests : Fill(r) /\ Track
  \/ \E r \in Requests : Close(r) /\ Track
  \/ Finished

MCSpec == MCInit /\ [][MCNext]_mcVars
MCFairSpec ==
  MCSpec /\ WF_vars(Maintain) /\ \A r \in Requests : WF_vars(Proceed(r))

\* The answer is one the database gave at some moment of the lookup.
AnswerRight(r) ==
  pc[r] = "done" /\ right[r] # {} /\ out[r] # "error" => val[r] \in right[r]

\* A request that hits the cache or queries the database itself is given a key or
\* an upstream as it was at some moment of its lookup: no fill brings back a row
\* that a finished write has replaced, deleted or renamed.
OwnAnswersRight == \A r \in Requests : ~joined[r] => AnswerRight(r)
=============================================================================
