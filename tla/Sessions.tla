------------------------------ MODULE Sessions -------------------------------
(***************************************************************************)
(* Responses sessions: the history up to each response, kept under its id  *)
(* for requests that go on from it with previous_response_id.  Handlers    *)
(* read the table directly and write it through the writer's queue: saving *)
(* waits for the writer; touching a session, deleting one that has expired *)
(* and sweeping do not wait, and are lost when the queue, which all other  *)
(* requests share, is full.  The client goes on as soon as it has seen an  *)
(* answer, which is before the handler of that answer has ended, and from  *)
(* any answer it has seen, several times if it likes.                      *)
(***************************************************************************)
EXTENDS Integers, Sequences

CONSTANTS
  MaxTurns,  \* bound: requests
  MaxTime,   \* bound: ticks of the clock
  MaxFaults, \* bound: saves that fail and crashes together
  QueueCap,  \* bound: writes of sessions that wait in the queue
  TTL        \* sessionTTL

ASSUME SessionsAssumption ==
  {MaxTurns, MaxTime, MaxFaults, QueueCap, TTL} \subseteq Nat /\ QueueCap > 0

VARIABLES
  now,
  turns,     \* the requests so far, with what their handlers still have to do; "said" is
             \* history: the conversation as the client knows it, up to the answer
  sessions,  \* response_sessions: the history up to a response, and when it was used last
  queue,     \* the writer's, as far as it holds writes of sessions
  saved,     \* history: when the session of a response was put
  touched,   \* history: when it was touched last
  missed,    \* history: the responses whose session a request found expired
  faults
vars == <<now, turns, sessions, queue, saved, touched, missed, faults>>

Never == -1
NoId  == 0  \* no previous_response_id
Turns == 1 .. Len(turns)
Ids   == 1 .. MaxTurns

------------------------------------------------------------------------------

\* The input of a request and the answer to it, in a conversation.
Exchange(n) == <<<<"in", n>>, <<"out", n>>>>

Op(do, n) == [do |-> do, id |-> n, at |-> now]

\* DoAsync: dropped when the queue is full, of whatever writes.
DoAsync(op) == \/ Len(queue) < QueueCap /\ queue' = Append(queue, op)
               \/ UNCHANGED queue

Said(prev) == IF prev = NoId THEN <<>> ELSE turns[prev].said

\* The client sends a request that goes on from an answer it has seen, or begins anew.
Request(prev) ==
  /\ Len(turns) < MaxTurns
  /\ prev = NoId \/ prev \in {n \in Turns : turns[n].seen}
  /\ turns' = Append(turns, [prev |-> prev, step |-> IF prev = NoId THEN "call" ELSE "get",
                             hist |-> <<>>, seen |-> FALSE, said |-> Said(prev) \o Exchange(Len(turns) + 1)])
  /\ UNCHANGED <<now, sessions, queue, saved, touched, missed, faults>>

Expired(n) == now - sessions[n].used > TTL
Live(n) == n \in DOMAIN sessions /\ ~Expired(n)

\* SessionStore.Get: a direct read.  The session is touched, and the history goes before
\* the input of the request.
Get(n) ==
  LET prev == turns[n].prev IN
  /\ turns[n].step = "get" /\ Live(prev)
  /\ DoAsync(Op("touch", prev))
  /\ turns' = [turns EXCEPT ![n].step = "call", ![n].hist = sessions[prev].msgs]
  /\ UNCHANGED <<now, sessions, saved, touched, missed, faults>>

\* An unknown previous_response_id: a 400.  A session that has expired is deleted.
Refuse(n) ==
  LET prev == turns[n].prev IN
  /\ turns[n].step = "get" /\ ~Live(prev)
  /\ IF prev \in DOMAIN sessions
     THEN DoAsync(Op("delete", prev)) /\ missed' = missed \union {prev}
     ELSE UNCHANGED <<queue, missed>>
  /\ turns' = [turns EXCEPT ![n].step = "refused"]
  /\ UNCHANGED <<now, sessions, saved, touched, faults>>

\* The call fails for good: nothing is saved, the client may try again.
Fail(n) == /\ turns[n].step = "call"
           /\ turns' = [turns EXCEPT ![n].step = "failed"]
           /\ UNCHANGED <<now, sessions, queue, saved, touched, missed, faults>>

\* The answer has been written, to its end.
Answer(n) == /\ turns[n].step = "call"
             /\ turns' = [turns EXCEPT ![n].step = "save"]
             /\ UNCHANGED <<now, sessions, queue, saved, touched, missed, faults>>

See(n) == /\ turns[n].step \in {"save", "saving", "sweep", "done"} /\ ~turns[n].seen
          /\ turns' = [turns EXCEPT ![n].seen = TRUE]
          /\ UNCHANGED <<now, sessions, queue, saved, touched, missed, faults>>

\* saveSession and Put: the handler waits in DoSync for the writer.
Save(n) == /\ turns[n].step = "save" /\ Len(queue) < QueueCap
           /\ queue' = Append(queue, Op("put", n))
           /\ turns' = [turns EXCEPT ![n].step = "saving"]
           /\ UNCHANGED <<now, sessions, saved, touched, missed, faults>>

\* After a Put that succeeded the sessions that have expired are swept.
Sweep(n) == /\ turns[n].step = "sweep" /\ DoAsync(Op("sweep", n))
            /\ turns' = [turns EXCEPT ![n].step = "done"]
            /\ UNCHANGED <<now, sessions, saved, touched, missed, faults>>

------------------------------------------------------------------------------
(* The writer. *)

Runs(do) == queue # <<>> /\ Head(queue).do = do /\ queue' = Tail(queue)

\* What a session is: the history that was put before the input, the input, the answer.
History(n) == turns[n].hist \o Exchange(n)

RunPut ==
  LET n == Head(queue).id
      put == [msgs |-> History(n), used |-> Head(queue).at]
  IN /\ Runs("put")
     /\ sessions' = [k \in DOMAIN sessions \union {n} |-> IF k = n THEN put ELSE sessions[k]]
     /\ saved' = [saved EXCEPT ![n] = put.used]
     /\ turns' = [turns EXCEPT ![n].step = "sweep"]
     /\ UNCHANGED <<now, touched, missed, faults>>

\* The Put fails: there is a warning, and no sweep.
RunPutFails ==
  /\ Runs("put") /\ faults < MaxFaults /\ faults' = faults + 1
  /\ turns' = [turns EXCEPT ![Head(queue).id].step = "done"]
  /\ UNCHANGED <<now, sessions, saved, touched, missed>>

RunTouch ==
  LET n == Head(queue).id IN
  /\ Runs("touch")
  /\ IF n \in DOMAIN sessions
     THEN /\ sessions' = [sessions EXCEPT ![n].used = now]
          /\ touched' = [touched EXCEPT ![n] = now]
     ELSE UNCHANGED <<sessions, touched>>
  /\ UNCHANGED <<now, turns, saved, missed, faults>>

Keep(ids) == [k \in ids |-> sessions[k]]

\* Whatever has been done with the session since it was found expired.
RunDelete ==
  /\ Runs("delete")
  /\ sessions' = Keep(DOMAIN sessions \ {Head(queue).id})
  /\ UNCHANGED <<now, turns, saved, touched, missed, faults>>

\* Mutant of RunSweep: what has not been used since the sweep was queued goes.
RunSweepNow ==
  /\ Runs("sweep")
  /\ sessions' = Keep({k \in DOMAIN sessions : sessions[k].used >= now})
  /\ UNCHANGED <<now, turns, saved, touched, missed, faults>>

\* The time is taken when the writer runs it.
RunSweep ==
  /\ Runs("sweep")
  /\ sessions' = Keep({k \in DOMAIN sessions : sessions[k].used >= now - TTL})
  /\ UNCHANGED <<now, turns, saved, touched, missed, faults>>

------------------------------------------------------------------------------

Tick == /\ now < MaxTime /\ now' = now + 1
        /\ UNCHANGED <<turns, sessions, queue, saved, touched, missed, faults>>

\* Handlers and queue are lost, the table is not.
Crash == /\ faults < MaxFaults /\ faults' = faults + 1
         /\ queue' = <<>>
         /\ turns' = [n \in Turns |-> [turns[n] EXCEPT !.step =
              IF @ \in {"get", "call"} THEN "failed"
              ELSE IF @ \in {"save", "saving", "sweep"} THEN "done" ELSE @]]
         /\ UNCHANGED <<now, sessions, saved, touched, missed>>

Init ==
  /\ now = 0 /\ turns = <<>> /\ sessions = <<>> /\ queue = <<>> /\ missed = {} /\ faults = 0
  /\ saved = [n \in Ids |-> Never] /\ touched = [n \in Ids |-> Never]

Next ==
  \/ \E prev \in Turns \union {NoId} : Request(prev)
  \/ \E n \in Turns : Get(n) \/ Refuse(n) \/ Fail(n) \/ Answer(n) \/ See(n) \/ Save(n) \/ Sweep(n)
  \/ RunPut \/ RunPutFails \/ RunTouch \/ RunDelete \/ RunSweep
  \/ Tick \/ Crash

Spec == Init /\ [][Next]_vars

------------------------------------------------------------------------------
(* Properties. *)

Recent(time) == time # Never /\ now - time <= TTL

\* A session lasts for its time to live after it was put, and after each use that reached the
\* database, with the whole conversation in it: no sweep or delete that another request has
\* queued takes it, but for the delete of a request that once found it expired.
SessionLasts ==
  \A n \in Turns :
    Recent(saved[n]) \/ (Recent(touched[n]) /\ n \notin missed) =>
      n \in DOMAIN sessions /\ sessions[n].msgs = turns[n].said
=============================================================================
