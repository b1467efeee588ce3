------------------------------- MODULE Archive -------------------------------
(***************************************************************************)
(* The archive of one client's conversation: the calls of its requests end *)
(* in any order, each hands the writer one closure, which adds a record of *)
(* the call and merges the turn into the conversation's row.  The writer   *)
(* runs closures one at a time and in the order they were queued in, so    *)
(* queueing and running one are a single step here; a closure that finds   *)
(* the queue full is dropped.  Months begin, writes fail, tables are       *)
(* dropped by hand and the process crashes.                                *)
(***************************************************************************)
EXTENDS ConvStore, Integers, Sequences, FiniteSets, SequencesExt

CONSTANTS
  Clients,  \* kinds of clients: "chain" and "affine" (with a header that names its session)
            \* send Responses requests, what is new after a response; "stateless" (with such a
            \* header) and "anonymous" send the whole history each time
  Legacy,   \* whether the database has records of a release without monthly tables
  MaxCalls,  \* bound: requests of the conversation
  MaxMishaps \* bound: failed calls, dropped closures, failed writes, dropped tables and crashes together

ASSUME ArchiveAssumption ==
  /\ Clients \subseteq {"chain", "affine", "stateless", "anonymous"} /\ Legacy \in BOOLEAN
  /\ {MaxCalls, MaxMishaps} \subseteq Nat

VARIABLES
  month,    \* the current one; two are enough for a conversation to go over its end
  client,   \* its kind
  mine,     \* a stateless client's own history
  calls,    \* the requests so far
  archive,  \* see ConvStore
  log,      \* history: the turns merged into rows, in order, and whether the row is still kept
  merged,   \* history: by session, the turns whose answers make up its row, in order
  mishaps
archiveVars == <<month, client, mine, calls, archive, log, merged, mishaps>>

Months == {1, 2}
Calls  == 1 .. Len(calls)
In(n)  == <<"in", n>>
Out(n) == <<"out", n>>

Responses == client \in {"chain", "affine"}  \* inFormat == "responses"

------------------------------------------------------------------------------
(* The client. *)

\* Its last request has come to an end: it has the answer or the error, or has given up.
Ended == \A n \in Calls : calls[n].pc \in {"answered", "failed", "archived"}

Answered == {n \in Calls : calls[n].ok}

NewCall(prev, sent, compact) ==
  [prev |-> prev, sent |-> sent, compact |-> compact, answer |-> <<>>, ok |-> FALSE,
   month |-> month, pc |-> "called"]

Send(req) == /\ Ended /\ Len(calls) < MaxCalls
             /\ calls' = Append(calls, req)
             /\ UNCHANGED <<month, client, mine, archive, log, merged, mishaps>>

\* A new message: after any response (not only the last), or at the end of its history.
Say ==
  LET n == Len(calls) + 1 IN
  \/ /\ Responses
     /\ \E prev \in Answered \union {Absent} : Send(NewCall(prev, <<In(n)>>, FALSE))
  \/ ~Responses /\ Send(NewCall(Absent, Append(mine, In(n)), FALSE))

\* The last request again: it has failed, or its answer was lost or did not please.
Retry == /\ calls # <<>>
         /\ LET t == Last(calls) IN Send(NewCall(t.prev, t.sent, t.compact))

\* A stateless client puts a summary in the place of its history.
Compact ==
  /\ ~Responses /\ Len(mine) > 1
  /\ LET n == Len(calls) + 1 IN
     \E said \in BOOLEAN : Send(NewCall(Absent, <<<<"summary", n>>, In(n)>>, said))

------------------------------------------------------------------------------
(* The gateway and the writer. *)

\* newConvCtx: the archived request is the client's own, as it was before the history of a
\* session was put in front of it; a call is of the month it began in.
Captured(n) == calls[n].sent

\* sessionTurn, with what extractConversationID says of the request: the header goes before
\* the chain of responses.
SessionTurn(n, ok) ==
  LET chained == client = "chain"
      t == calls[n]
  IN [sid     |-> IF client \in {"affine", "stateless"} THEN 1 ELSE Absent,
      prev    |-> IF chained THEN t.prev ELSE Absent,
      own     |-> IF chained THEN n ELSE Absent,
      compact |-> t.compact,
      full    |-> IF ok /\ ~Responses THEN Captured(n) ELSE <<>>,
      delta   |-> IF ok /\ Responses THEN Captured(n) ELSE <<>>,
      answer  |-> IF ok THEN t.answer ELSE <<>>,
      ok      |-> ok, at |-> t.month, month |-> t.month]

Merged(sid) == IF sid \in DOMAIN merged THEN merged[sid] ELSE <<>>

\* finish: the closure adds the record and then merges the turn, each of which may fail
\* without the other; or it is dropped.
Finish(n, ok) ==
  LET t == SessionTurn(n, ok) IN
  \E broken \in SUBSET {"rec", "sess"} :
    LET a == IF "rec" \in broken THEN archive
             ELSE InsertConversation(archive, n, t.at, t.month)
        sid == SessionOf(a, t)
        merges == "sess" \notin broken /\ Merges(a, t)
        n0 == (IF broken = {} THEN 0 ELSE 1) + (IF ok THEN 0 ELSE 1)
    IN /\ mishaps + n0 <= MaxMishaps /\ mishaps' = mishaps + n0
       /\ archive' = IF merges THEN UpsertSessionTurn(a, t) ELSE a
       /\ log' = IF merges THEN Append(log, [turn |-> n, ok |-> ok, sid |-> sid, kept |-> TRUE])
                 ELSE log
       /\ merged' = IF merges /\ ok
                    THEN [s \in DOMAIN merged \union {sid} |->
                            IF s = sid THEN Append(Merged(sid), n) ELSE merged[s]]
                    ELSE merged

\* A candidate fails and is archived; the next is called, or the client gets the error.
CandidateFails(n) ==
  /\ calls[n].pc \in {"called", "called again"}
  /\ Finish(n, FALSE)
  /\ \/ calls[n].pc = "called" /\ calls' = [calls EXCEPT ![n].pc = "called again",
                                                         ![n].month = month]
     \/ calls' = [calls EXCEPT ![n].pc = "failed"]
  /\ UNCHANGED <<month, client, mine>>

\* An answer, which may be empty, is written to the client, who may go on from here.
AnswerTurn(n) ==
  /\ calls[n].pc \in {"called", "called again"}
  /\ \E out \in {<<>>, <<Out(n)>>} :
       calls' = [calls EXCEPT ![n].pc = "answered", ![n].ok = TRUE, ![n].answer = out]
  /\ mine' = IF Responses THEN <<>> ELSE Append(calls[n].sent, Out(n))
  /\ UNCHANGED <<month, client, archive, log, merged, mishaps>>

\* Its handler has saved the session and counted the usage, and archives the call.
ArchiveTurn(n) ==
  /\ calls[n].pc = "answered" /\ Finish(n, TRUE)
  /\ calls' = [calls EXCEPT ![n].pc = "archived"]
  /\ UNCHANGED <<month, client, mine>>

------------------------------------------------------------------------------
(* The world. *)

NewMonth == /\ month = 1 /\ month' = 2
            /\ UNCHANGED <<client, mine, calls, archive, log, merged, mishaps>>

\* A table is dropped by hand, behind the registry; what it held is gone.
Drop(g, m) ==
  /\ mishaps < MaxMishaps /\ mishaps' = mishaps + 1 /\ m \in archive.tables[g]
  /\ LET gone == IF g = "sess" THEN RowsIn(archive, m) ELSE {}
         sids == {r.sid : r \in gone}
     IN
     /\ archive' = [archive EXCEPT !.tables[g] = @ \ {m}, !.rows = @ \ gone,
          !.recs = IF g = "rec" THEN {r \in @ : r.table # m} ELSE @]
     /\ log' = [i \in DOMAIN log |->
                  [log[i] EXCEPT !.kept = @ /\ log[i].sid \notin sids]]
     /\ merged' = [s \in DOMAIN merged \ sids |-> merged[s]]
  /\ UNCHANGED <<month, client, mine, calls>>

\* The process starts: the registries are loaded and the tables of this month made.
Boot(a) == Ensure(Ensure(Load(a), "rec", month), "sess", month)

\* It dies, with the calls it had and the closures it had queued, and starts again.
ProcessDies ==
  /\ mishaps < MaxMishaps /\ mishaps' = mishaps + 1
  /\ calls' = [n \in Calls |-> [calls[n] EXCEPT !.pc =
       IF @ \in {"called", "called again"} THEN "failed"
       ELSE IF @ = "answered" THEN "archived" ELSE @]]
  /\ archive' = Boot(archive)
  /\ UNCHANGED <<month, client, mine, log, merged>>

------------------------------------------------------------------------------

Empty == [tables |-> [g \in Groups |-> {}], known |-> [g \in Groups |-> {}],
          recs |-> {}, rows |-> {}, nextRec |-> 1, nextRow |-> 1]

\* A database of an older release has its records in the table without a month.
Older == [Empty EXCEPT !.tables["rec"] = {Base}, !.nextRec = 2,
                       !.recs = {[id |-> 1, table |-> Base, turn |-> 0, at |-> 0]}]

ArchiveInit ==
  /\ month = 1 /\ mine = <<>> /\ calls = <<>> /\ log = <<>> /\ merged = <<>> /\ mishaps = 0
  /\ client \in Clients
  /\ archive = Boot(IF Legacy THEN Older ELSE Empty)

ArchiveNext ==
  \/ Say \/ Retry \/ Compact
  \/ \E n \in Calls : CandidateFails(n) \/ AnswerTurn(n) \/ ArchiveTurn(n)
  \/ NewMonth \/ ProcessDies
  \/ \E g \in Groups, m \in Months \union {Base} : Drop(g, m)

ArchiveSpec == ArchiveInit /\ [][ArchiveNext]_archiveVars

------------------------------------------------------------------------------
(* Properties. *)

\* A conversation has one row over all monthly tables, though their unique index covers but
\* one: a turn in a new month, or after a restart, finds the row of the month before
\* (store/conversation_session.go, findSessionBySID).
OneRow == \A r, s \in archive.rows : r.sid = s.sid \/ r.id = s.id => r = s

\* A turn that goes on from the response its conversation's row has ended in is merged into
\* that row, also when turns that failed were archived in between (updateSession).
ChainTogether ==
  \A i, k \in DOMAIN log :
    /\ i < k /\ log[i].kept /\ log[i].ok /\ log[k].kept /\ client = "chain"
    /\ calls[log[k].turn].prev = log[i].turn
    /\ \A j \in i + 1 .. k - 1 : log[j].kept /\ log[j].ok => log[j].sid # log[i].sid
    => log[k].sid = log[i].sid

\* The turns of a row went on from one another: of a chain, each from the response before;
\* of a client that sends its history, each history from the one before.
Regular(s) ==
  \A i \in DOMAIN s :
    IF Responses
    THEN calls[s[i]].prev = IF i = 1 THEN Absent ELSE s[i - 1]
    ELSE /\ ~calls[s[i]].compact
         /\ i > 1 => IsPrefix(calls[s[i - 1]].sent \o <<Out(s[i - 1])>>, calls[s[i]].sent)

\* The conversation as it was at the last of these turns.
Conversation(s) ==
  IF Responses
  THEN FlattenSeq([i \in DOMAIN s |-> calls[s[i]].sent \o calls[s[i]].answer])
  ELSE calls[Last(s)].sent \o calls[Last(s)].answer

\* A row holds the conversation of its turns, each message once and in order, although a
\* client that keeps no state sends all of it with each request and although turns may have
\* been dropped from the queue or failed to be written (mergeSessionMessages).
ContentIsHistory ==
  \A r \in archive.rows : LET s == Merged(r.sid) IN
    Regular(s) /\ Len(Conversation(s)) <= Cap =>
      r.msgs = Conversation(s) /\ r.count = Len(r.msgs) /\ r.turns = Len(s)

\* Turning the pages of a list, of any size, shows each row of each table once and in the
\* order of the list, the records of before the monthly tables included, unless a table was
\* dropped behind the registry (pageAcrossShards, load).
Pages(lists, size) ==
  LET total == Len(FlattenSeq(lists)) IN
  FlattenSeq([p \in 1 .. (total \div size) + 1 |-> PageAcrossShards(lists, p, size)])

PagesPartition ==
  \A size \in 1 .. 2 :
    /\ Readable(archive, "rec") => LET lists == ListRecords(archive) IN
         Pages(lists, size) = FlattenSeq(lists) /\ ToSet(FlattenSeq(lists)) = archive.recs
    /\ Readable(archive, "sess") => LET lists == ListSessions(archive) IN
         Pages(lists, size) = FlattenSeq(lists) /\ ToSet(FlattenSeq(lists)) = archive.rows
=============================================================================
