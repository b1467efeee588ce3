------------------------------ MODULE ConvStore ------------------------------
(***************************************************************************)
(* What the archive's database functions do to the conversation tables, as *)
(* operators on an archive: one physical table for each month, a registry  *)
(* in the process of the tables it knows of, a row for each request in     *)
(* conversation_records and a row for each conversation in                 *)
(* conversation_sessions.  A month is a number, larger is newer; month     *)
(* Base stands for the table without a month that older releases wrote.    *)
(***************************************************************************)
LOCAL INSTANCE Integers
LOCAL INSTANCE Sequences
LOCAL INSTANCE FiniteSets
LOCAL INSTANCE SequencesExt

CONSTANTS
  Cap  \* sessionMessagesCap, in messages

ASSUME StoreAssumption == Cap \in Nat

Base   == 0
Groups == {"rec", "sess"}

\* No response id: last_response_id is NULL, a request has no previous_response_id.
Absent == 0

\* compactionMarker
Marker == <<"marker", 0>>

------------------------------------------------------------------------------
(* The registry of shards.  known[g] is what the process has registered, *)
(* tables[g] what the catalog of the database holds.                     *)

\* The months of a set of tables, newest first, the base table last.
NewestFirst(months) == SetToSortSeq(months, LAMBDA m, k : m > k)

\* load: the registry becomes what the catalog holds.
Load(a) == [a EXCEPT !.known = a.tables]

\* ensure and register: the table of the month exists and is known.  Idempotent.
Ensure(a, g, month) ==
  [a EXCEPT !.tables[g] = @ \union {month}, !.known[g] = @ \union {month}]

\* A query over the tables of a group fails when one of them is not there any more.
Readable(a, g) == a.known[g] \subseteq a.tables[g]

------------------------------------------------------------------------------
(* conversation_records. *)

\* InsertConversation: into the table of the month the request began in; a table that
\* is not known is created, and one that was dropped behind the registry is created again.
InsertConversation(a, n, at, month) ==
  LET b == Ensure(a, "rec", month) IN
  [b EXCEPT !.recs = @ \union {[id |-> a.nextRec, table |-> month, turn |-> n, at |-> at]},
            !.nextRec = @ + 1]

------------------------------------------------------------------------------
(* conversation_sessions: finding the row of a turn. *)

RowsIn(a, month) == {r \in a.rows : r.table = month}

\* findSessionBy: the tables from new to old, up to the first that has one of the rows; the
\* queries of a table that was dropped fail.
Search(a, rows) ==
  LET stops == {m \in a.known["sess"] : m \notin a.tables["sess"] \/ \E r \in rows : r.table = m}
      first == CHOOSE m \in stops : \A k \in stops : k <= m
  IN IF stops = {} THEN {} ELSE {[lost |-> first \notin a.tables["sess"],
                                  rows |-> {r \in rows : r.table = first}]}

ByLastResp(a, id) == Search(a, {r \in a.rows : r.last = id})

\* Mutant of BySid: only the newest table is looked at.
BySidNewest(a, sid) ==
  Search([a EXCEPT !.known["sess"] = {Head(NewestFirst(@))}], {r \in a.rows : r.sid = sid})

BySid(a, sid) == Search(a, {r \in a.rows : r.sid = sid})

Lost(hits)  == \E h \in hits : h.lost
Found(hits) == UNION {h.rows : h \in hits}

\* The session a turn t belongs to: its own header's, or that of the row its previous
\* response ended, or a new one named after the previous response or the turn's own.
SessionOf(a, t) ==
  LET prev == Found(ByLastResp(a, t.prev)) IN
  IF t.sid # Absent THEN <<"hdr", t.sid>>
  ELSE IF t.prev # Absent /\ prev # {} THEN (CHOOSE r \in prev : TRUE).sid
  ELSE <<"resp", IF t.prev # Absent THEN t.prev ELSE t.own>>

LookupFails(a, t) ==
  \/ t.sid = Absent /\ t.prev # Absent /\ Lost(ByLastResp(a, t.prev))
  \/ Lost(BySid(a, SessionOf(a, t)))

------------------------------------------------------------------------------
(* conversation_sessions: what a turn adds to a row. *)

\* A client that sends its whole history has replaced it: it says so, or sends less than
\* the row has counted.
Compacted(count, t) == t.compact \/ Len(t.full) < count

\* The input of a turn that is appended, with how much the row then counts of it.
Additions(count, t) ==
  CASE t.full # <<>> /\ Compacted(count, t) ->
         [msgs |-> <<Marker>> \o t.full, count |-> Len(t.full)]
    [] t.full # <<>> /\ ~Compacted(count, t) ->
         [msgs |-> SubSeq(t.full, count + 1, Len(t.full)), count |-> Len(t.full)]
    [] OTHER ->
         [msgs |-> t.delta, count |-> count + Len(t.delta)]

\* Mutant of Merge: the answer is appended but not counted.
MergeUncounted(msgs, count, t) ==
  LET added == Additions(count, t)
      more  == added.msgs \o t.answer
  IN [msgs |-> IF Len(msgs) + Len(more) <= Cap THEN msgs \o more ELSE msgs,
      count |-> added.count]

\* mergeSessionMessages: nothing is appended that would not fit, but it is counted.
Merge(msgs, count, t) ==
  LET added == Additions(count, t)
      more  == added.msgs \o t.answer
      fits  == more # <<>> /\ Len(msgs) <= Cap /\ Len(msgs) + Len(more) <= Cap
  IN [msgs  |-> IF fits THEN msgs \o more ELSE msgs,
      count |-> added.count + Len(t.answer)]

\* insertSession: a row in the table of the month the turn began in.
InsertSession(a, sid, t) ==
  LET m == Merge(<<>>, 0, t)
      b == Ensure(a, "sess", t.month)
  IN [b EXCEPT !.rows = @ \union
        {[id |-> a.nextRow, table |-> t.month, sid |-> sid, last |-> t.own, msgs |-> m.msgs,
          count |-> m.count, turns |-> 1, status |-> "ok", active |-> t.at]},
        !.nextRow = @ + 1]

\* Mutant of UpdateSession: a turn that failed moves last_response_id, too.
UpdateSessionAlways(a, row, t) ==
  LET m == Merge(row.msgs, row.count, t) IN
  [a EXCEPT !.rows = (@ \ {row}) \union
     {IF t.ok THEN [row EXCEPT !.msgs = m.msgs, !.count = m.count, !.turns = @ + 1,
                               !.last = IF t.own = Absent THEN @ ELSE t.own,
                               !.status = "ok", !.active = t.at]
      ELSE [row EXCEPT !.last = t.own, !.status = "error", !.active = t.at]}]

\* updateSession: a turn that failed leaves the content and last_response_id alone, so
\* that the client's retry with the same previous response finds the row.
UpdateSession(a, row, t) ==
  LET m == Merge(row.msgs, row.count, t)
      new == IF t.ok
             THEN [row EXCEPT !.msgs = m.msgs, !.count = m.count, !.turns = @ + 1,
                              !.last = IF t.own = Absent THEN @ ELSE t.own,
                              !.status = "ok", !.active = t.at]
             ELSE [row EXCEPT !.status = "error", !.active = t.at]
  IN [a EXCEPT !.rows = (@ \ {row}) \union {new}]

\* UpsertSessionTurn.  A turn without an id of a session is not merged, nor a first turn
\* that failed.
Merges(a, t) ==
  /\ {t.sid, t.prev, t.own} # {Absent} /\ ~LookupFails(a, t)
  /\ t.ok \/ Found(BySid(a, SessionOf(a, t))) # {}

UpsertSessionTurn(a, t) ==
  LET sid  == SessionOf(a, t)
      rows == Found(BySid(a, sid))
  IN CASE ~Merges(a, t)              -> a
       [] Merges(a, t) /\ rows = {}  -> InsertSession(a, sid, t)
       [] Merges(a, t) /\ rows # {}  -> UpdateSession(a, CHOOSE r \in rows : TRUE, t)

------------------------------------------------------------------------------
(* Lists, page by page across the tables. *)

\* Mutant of PageWindows: a later table is entered at the offset of the first.
PageWindowsSkip(counts, offset, size) ==
  LET Table(w, i) ==
        LET take == IF w.size < counts[i] - w.offset THEN w.size ELSE counts[i] - w.offset IN
        IF w.size <= 0 THEN w
        ELSE IF w.offset >= counts[i] THEN [w EXCEPT !.offset = @ - counts[i]]
        ELSE [w EXCEPT !.size = @ - take,
              !.out = Append(@, [shard |-> i, offset |-> w.offset, limit |-> take])]
  IN FoldLeft(Table, [offset |-> offset, size |-> size, out |-> <<>>],
              [i \in DOMAIN counts |-> i]).out

\* convPageWindows: which tables, of those with the given numbers of rows, a page of the
\* given size covers from the given offset on, and where in them.
PageWindows(counts, offset, size) ==
  LET Table(w, i) ==
        LET take == IF w.size < counts[i] - w.offset THEN w.size ELSE counts[i] - w.offset IN
        IF w.size <= 0 THEN w
        ELSE IF w.offset >= counts[i] THEN [w EXCEPT !.offset = @ - counts[i]]
        ELSE [offset |-> 0, size |-> w.size - take,
              out |-> Append(w.out, [shard |-> i, offset |-> w.offset, limit |-> take])]
  IN FoldLeft(Table, [offset |-> offset, size |-> size, out |-> <<>>],
              [i \in DOMAIN counts |-> i]).out

\* pageAcrossShards over lists, one for each table: the windows of the page, concatenated.
PageAcrossShards(lists, page, size) ==
  LET windows == PageWindows([i \in DOMAIN lists |-> Len(lists[i])], (page - 1) * size, size)
  IN FlattenSeq([i \in DOMAIN windows |->
       SubSeq(lists[windows[i].shard], windows[i].offset + 1,
              windows[i].offset + windows[i].limit)])

\* listConversationsFrom, listSessionsFrom: the rows of each known table, newest first.
ListRecords(a) ==
  LET months == NewestFirst(a.known["rec"])
      Newer(r, s) == r.at > s.at \/ (r.at = s.at /\ r.id > s.id)
  IN [i \in DOMAIN months |-> SetToSortSeq({r \in a.recs : r.table = months[i]}, Newer)]

ListSessions(a) ==
  LET months == NewestFirst(a.known["sess"])
      Newer(r, s) == r.active > s.active \/ (r.active = s.active /\ r.id > s.id)
  IN [i \in DOMAIN months |-> SetToSortSeq(RowsIn(a, months[i]), Newer)]
=============================================================================
