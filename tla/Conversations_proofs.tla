------------------------ MODULE Conversations_proofs -------------------------
(***************************************************************************)
(* Proofs about what is kept of conversations: Archive first, for any      *)
(* number of turns and faults, any kind of client and any Cap, then        *)
(* Sessions, for any number of requests, any queue, any time to live and   *)
(* any number of faults.                                                   *)
(***************************************************************************)
EXTENDS Sessions, Archive, Sums, SequenceTheorems, TLAPS

Texts == {"in", "out", "summary", "marker"} \X Nat
Sids  == {"hdr", "resp"} \X Nat
Call  == [prev : Nat, sent : Seq(Texts), compact : BOOLEAN, answer : Seq(Texts), ok : BOOLEAN, month : {1, 2},
          pc : {"called", "called again", "answered", "failed", "archived"}]
Entry == [turn : Nat, ok : BOOLEAN, sid : Sids, kept : BOOLEAN]
TurnArg == [sid : Nat, prev : Nat, own : Nat, compact : BOOLEAN, full : Seq(Texts), delta : Seq(Texts),
            answer : Seq(Texts), ok : BOOLEAN, at : {1, 2}, month : {1, 2}]
RecordRow  == [id : Nat, table : {0, 1, 2}, turn : Nat, at : Nat]
SessionRow == [id : Nat, table : {0, 1, 2}, sid : Sids, last : Nat, msgs : Seq(Texts), count : Nat, turns : Nat,
               status : {"ok", "error"}, active : Nat]
Tables   == [{"rec", "sess"} -> SUBSET {0, 1, 2}]
Archives == [tables : Tables, known : Tables, recs : SUBSET RecordRow, rows : SUBSET SessionRow,
             nextRec : Nat, nextRow : Nat]

\* Rows have ids given out before, and lie in tables that are there and known.
Rooted(a) ==
  \A r \in a.rows : r.id < a.nextRow /\ r.table \in a.known["sess"] /\ r.table \in a.tables["sess"]
Single(a) == \A r, s \in a.rows : r.sid = s.sid \/ r.id = s.id => r = s
InOrder(a) == a \in Archives /\ Rooted(a) /\ Single(a)

\* A table made or known for one month more.
LEMMA TableMore ==
  ASSUME NEW f \in Tables, NEW g \in {"rec", "sess"}, NEW m \in {0, 1, 2}
  PROVE  /\ [f EXCEPT ![g] = @ \union {m}] \in Tables
         /\ m \in [f EXCEPT ![g] = @ \union {m}][g]
         /\ \A h \in {"rec", "sess"} : f[h] \subseteq [f EXCEPT ![g] = @ \union {m}][h]
BY DEF Tables

LEMMA EnsureIs ==
  ASSUME NEW a \in Archives, NEW g \in {"rec", "sess"}, NEW m \in {0, 1, 2}
  PROVE  /\ Ensure(a, g, m) \in Archives /\ Ensure(a, g, m).rows = a.rows
         /\ Ensure(a, g, m).recs = a.recs
         /\ Ensure(a, g, m).nextRow = a.nextRow /\ Ensure(a, g, m).nextRec = a.nextRec
         /\ m \in Ensure(a, g, m).tables[g] /\ m \in Ensure(a, g, m).known[g]
         /\ \A h \in {"rec", "sess"} : /\ a.tables[h] \subseteq Ensure(a, g, m).tables[h]
                                       /\ a.known[h] \subseteq Ensure(a, g, m).known[h]
<1> DEFINE T == [a.tables EXCEPT ![g] = @ \union {m}]
           K == [a.known EXCEPT ![g] = @ \union {m}]
           b == Ensure(a, g, m)
<1>1. a.tables \in Tables /\ a.known \in Tables
  BY DEF Archives
<1>2. T \in Tables /\ m \in T[g] /\ \A h \in {"rec", "sess"} : a.tables[h] \subseteq T[h]
  BY <1>1, TableMore
<1>3. K \in Tables /\ m \in K[g] /\ \A h \in {"rec", "sess"} : a.known[h] \subseteq K[h]
  BY <1>1, TableMore
<1>4. b = [a EXCEPT !.tables = T, !.known = K]
  BY DEF Ensure
<1> HIDE DEF T, K
<1>5. /\ b.tables = T /\ b.known = K /\ b.rows = a.rows /\ b.recs = a.recs /\ b.nextRow = a.nextRow
      /\ b.nextRec = a.nextRec /\ b \in Archives
  BY <1>2, <1>3, <1>4 DEF Archives
<1> HIDE DEF b
<1> QED BY <1>2, <1>3, <1>5 DEF b

LEMMA EnsureInOrder ==
  ASSUME NEW a, InOrder(a), NEW g \in {"rec", "sess"}, NEW m \in {0, 1, 2}
  PROVE  InOrder(Ensure(a, g, m))
<1> DEFINE b == Ensure(a, g, m)
<1>1. a \in Archives
  BY DEF InOrder
<1>2. b \in Archives /\ b.rows = a.rows /\ b.nextRow = a.nextRow
      /\ a.tables["sess"] \subseteq b.tables["sess"] /\ a.known["sess"] \subseteq b.known["sess"]
  BY <1>1, EnsureIs
<1> HIDE DEF b
<1>3. InOrder(b)
  BY <1>2 DEF InOrder, Rooted, Single
<1> QED BY <1>3 DEF b

LEMMA RecordInOrder ==
  ASSUME NEW a, InOrder(a), NEW n \in Nat, NEW at \in {1, 2}, NEW m \in {1, 2}
  PROVE  /\ InOrder(InsertConversation(a, n, at, m)) /\ InsertConversation(a, n, at, m).rows = a.rows
<1> DEFINE b == Ensure(a, "rec", m)
           new == [id |-> a.nextRec, table |-> m, turn |-> n, at |-> at]
           c == InsertConversation(a, n, at, m)
<1>1. InOrder(b)
  BY EnsureInOrder
<1>2. a \in Archives /\ b \in Archives /\ b.rows = a.rows
  BY EnsureIs DEF InOrder
<1>3. c = [b EXCEPT !.recs = @ \union {new}, !.nextRec = @ + 1]
  BY DEF InsertConversation
<1>4. new \in RecordRow
  BY <1>2 DEF RecordRow, Archives
<1> HIDE DEF b, new, c
<1>5. c \in Archives /\ c.rows = b.rows /\ c.nextRow = b.nextRow /\ c.tables = b.tables /\ c.known = b.known
  <2> DEFINE R == b.recs \union {new}
             i == b.nextRec + 1
  <2>1. R \in SUBSET RecordRow /\ i \in Nat
    BY <1>2, <1>4 DEF Archives
  <2>2. c = [b EXCEPT !.recs = R, !.nextRec = i]
    BY <1>3
  <2> HIDE DEF R, i
  <2> QED BY <1>2, <2>1, <2>2 DEF Archives
<1>6. InOrder(c)
  BY <1>1, <1>5 DEF InOrder, Rooted, Single
<1> QED BY <1>2, <1>5, <1>6 DEF c

\* A search that does not fail finds rows if there are any.
LEMMA SearchFinds ==
  ASSUME NEW a, InOrder(a), NEW W, W \subseteq a.rows, ~Lost(Search(a, W))
  PROVE  Found(Search(a, W)) \subseteq W /\ (W # {} => Found(Search(a, W)) # {})
<1> DEFINE stops == {m \in a.known["sess"] : m \notin a.tables["sess"] \/ \E r \in W : r.table = m}
           first == CHOOSE m \in stops : \A k \in stops : k <= m
           there == {r \in W : r.table = first}
<1>1. stops \subseteq {0, 1, 2}
  BY DEF InOrder, Archives, Tables
<1>2. CASE stops = {}
  <2>1. Search(a, W) = {}
    BY <1>2 DEF Search
  <2>2. W = {}
    BY <1>2 DEF InOrder, Rooted
  <2> QED BY <2>1, <2>2 DEF Found
<1>3. CASE stops # {}
  <2>1. Search(a, W) = {[lost |-> first \notin a.tables["sess"], rows |-> there]}
    BY <1>3 DEF Search
  <2>2. \E m \in stops : \A k \in stops : k <= m
    <3> HIDE DEF stops
    <3>1. PICK m \in stops : m = 2 \/ (2 \notin stops /\ (m = 1 \/ 1 \notin stops))
      BY <1>1, <1>3
    <3>2. ASSUME NEW k \in stops PROVE k <= m
      <4>1. k \in {0, 1, 2} /\ m \in {0, 1, 2}
        BY <1>1
      <4> QED BY <3>1, <4>1
    <3> QED BY <3>2
  <2>3. first \in stops
    <3> HIDE DEF stops
    <3> QED BY <2>2, Zenon
  <2>4. first \in a.tables["sess"]
    <3> DEFINE hit == [lost |-> first \notin a.tables["sess"], rows |-> there]
    <3>1. hit.lost = (first \notin a.tables["sess"])
      OBVIOUS
    <3>2. Search(a, W) = {hit}
      BY <2>1
    <3> HIDE DEF hit, first
    <3>3. ~hit.lost
      BY <3>2, Zenon DEF Lost
    <3> QED BY <3>1, <3>3
  <2>5. there # {}
    <3> HIDE DEF first
    <3>1. PICK r \in W : r.table = first
      BY <2>3, <2>4
    <3> QED BY <3>1
  <2>6. Found(Search(a, W)) = there
    <3> HIDE DEF first, there
    <3> QED BY <2>1 DEF Found
  <2> QED BY <2>5, <2>6
<1> QED BY <1>2, <1>3

\* The session of a turn, and what becomes of its row.
LEMMA SessionIs ==
  ASSUME NEW a, InOrder(a), NEW t \in TurnArg, Merges(a, t)
  PROVE  /\ SessionOf(a, t) \in Sids
         /\ t.sid = 0 /\ t.prev # 0 /\ (\E r \in a.rows : r.last = t.prev) =>
              \E r \in a.rows : r.last = t.prev /\ SessionOf(a, t) = r.sid
<1> DEFINE W == {r \in a.rows : r.last = t.prev}
           found == Found(ByLastResp(a, t.prev))
<1>1. ByLastResp(a, t.prev) = Search(a, W)
  BY DEF ByLastResp
<1>2. t.sid \in Nat /\ t.prev \in Nat /\ t.own \in Nat
  BY DEF TurnArg
<1>3. ASSUME t.sid = 0, t.prev # 0
      PROVE  found \subseteq W /\ (W # {} => found # {})
  <2>1. ~Lost(Search(a, W))
    BY <1>1, <1>3 DEF Merges, LookupFails, Absent
  <2> HIDE DEF W
  <2>2. W \subseteq a.rows
    BY DEF W
  <2> QED BY <1>1, <2>1, <2>2, SearchFinds
<1>4. SessionOf(a, t) =
        IF t.sid # 0 THEN <<"hdr", t.sid>>
        ELSE IF t.prev # 0 /\ found # {} THEN (CHOOSE r \in found : TRUE).sid
        ELSE <<"resp", IF t.prev # 0 THEN t.prev ELSE t.own>>
  BY DEF SessionOf, Absent
<1>5. CASE t.sid = 0 /\ t.prev # 0 /\ found # {}
  <2> DEFINE r == CHOOSE r \in found : TRUE
  <2>1. r \in found
    <3> HIDE DEF found
    <3> QED BY <1>5
  <2>2. r \in a.rows /\ r.last = t.prev /\ SessionOf(a, t) = r.sid
    <3>1. r \in W
      <4> HIDE DEF W, found, r
      <4> QED BY <1>3, <1>5, <2>1
    <3>2. SessionOf(a, t) = r.sid
      <4> HIDE DEF found
      <4> QED BY <1>4, <1>5
    <3> HIDE DEF r
    <3> QED BY <3>1, <3>2
  <2> HIDE DEF r, found
  <2>3. r.sid \in Sids
    BY <2>2 DEF InOrder, Archives, SessionRow
  <2> QED BY <2>2, <2>3
<1>6. CASE ~(t.sid = 0 /\ t.prev # 0 /\ found # {})
  <2> HIDE DEF found
  <2>1. SessionOf(a, t) \in Sids
    BY <1>2, <1>4, <1>6 DEF Sids
  <2>2. t.sid = 0 /\ t.prev # 0 => W = {}
    BY <1>3, <1>6
  <2> QED BY <2>1, <2>2
<1> QED BY <1>5, <1>6

LEMMA UpsertIs ==
  ASSUME NEW a, InOrder(a), NEW t \in TurnArg, Merges(a, t), NEW sid, sid = SessionOf(a, t)
  PROVE  \/ /\ t.ok /\ \A r \in a.rows : r.sid # sid
            /\ UpsertSessionTurn(a, t) = InsertSession(a, sid, t)
         \/ \E r \in a.rows : r.sid = sid /\ UpsertSessionTurn(a, t) = UpdateSession(a, r, t)
<1> DEFINE W == {r \in a.rows : r.sid = sid}
           found == Found(BySid(a, sid))
<1>1. BySid(a, sid) = Search(a, W)
  BY DEF BySid
<1>2. ~Lost(Search(a, W)) /\ (t.ok \/ found # {})
  BY <1>1 DEF Merges, LookupFails
<1>3. found \subseteq W /\ (W # {} => found # {})
  <2> HIDE DEF W
  <2>1. W \subseteq a.rows
    BY DEF W
  <2> QED BY <1>1, <1>2, <2>1, SearchFinds
<1>4. UpsertSessionTurn(a, t) =
        IF found = {} THEN InsertSession(a, sid, t) ELSE UpdateSession(a, CHOOSE r \in found : TRUE, t)
  <2> HIDE DEF found
  <2>1. UpsertSessionTurn(a, t) =
          CASE ~Merges(a, t) -> a
            [] Merges(a, t) /\ found = {} -> InsertSession(a, sid, t)
            [] Merges(a, t) /\ found # {} -> UpdateSession(a, CHOOSE r \in found : TRUE, t)
    BY DEF UpsertSessionTurn, found
  <2>2. CASE found = {}
    BY <2>1, <2>2
  <2>3. CASE found # {}
    BY <2>1, <2>3
  <2> QED BY <2>2, <2>3
<1>5. CASE found = {}
  <2>1. \A r \in a.rows : r.sid # sid
    BY <1>3, <1>5
  <2> HIDE DEF found
  <2> QED BY <1>2, <1>4, <1>5, <2>1
<1>6. CASE found # {}
  <2> DEFINE r == CHOOSE r \in found : TRUE
  <2>1. r \in W
    <3> HIDE DEF found, W
    <3> QED BY <1>3, <1>6
  <2>2. UpsertSessionTurn(a, t) = UpdateSession(a, r, t)
    <3> HIDE DEF found
    <3> QED BY <1>4, <1>6
  <2> HIDE DEF r, found
  <2> QED BY <2>1, <2>2
<1> QED BY <1>5, <1>6

LEMMA MergeIs ==
  ASSUME NEW msgs \in Seq(Texts), NEW count \in Nat, NEW t \in TurnArg
  PROVE  /\ Merge(msgs, count, t).msgs \in Seq(Texts) /\ Merge(msgs, count, t).count \in Nat
<1> DEFINE added == Additions(count, t)
<1>1. t.full \in Seq(Texts) /\ t.delta \in Seq(Texts) /\ t.answer \in Seq(Texts)
  BY DEF TurnArg
<1>2. added.msgs \in Seq(Texts) /\ added.count \in Nat
  <2>1. CASE t.full # <<>> /\ Compacted(count, t)
    <3>1. added = [msgs |-> <<Marker>> \o t.full, count |-> Len(t.full)]
      BY <2>1 DEF Additions
    <3>2. <<Marker>> \in Seq(Texts)
      <4>1. Marker \in Texts
        BY DEF Marker, Texts
      <4> HIDE DEF Texts
      <4> QED BY <4>1
    <3> HIDE DEF added
    <3> QED BY <1>1, <3>1, <3>2
  <2>2. CASE t.full # <<>> /\ ~Compacted(count, t)
    <3>1. added = [msgs |-> SubSeq(t.full, count + 1, Len(t.full)), count |-> Len(t.full)]
      BY <2>2 DEF Additions
    <3>2. SubSeq(t.full, count + 1, Len(t.full)) \in Seq(Texts)
      <4>1. \A i \in count + 1 .. Len(t.full) : t.full[i] \in Texts
        BY <1>1
      <4> QED BY <1>1, <4>1, SubSeqProperties
    <3> HIDE DEF added
    <3> QED BY <1>1, <3>1, <3>2
  <2>3. CASE t.full = <<>>
    <3>1. added = [msgs |-> t.delta, count |-> count + Len(t.delta)]
      BY <2>3 DEF Additions
    <3> HIDE DEF added
    <3> QED BY <1>1, <3>1
  <2> QED BY <2>1, <2>2, <2>3
<1> DEFINE more == added.msgs \o t.answer
           fits == more # <<>> /\ Len(msgs) <= Cap /\ Len(msgs) + Len(more) <= Cap
<1>3. Merge(msgs, count, t) =
        [msgs |-> IF fits THEN msgs \o more ELSE msgs, count |-> added.count + Len(t.answer)]
  BY DEF Merge
<1> HIDE DEF added
<1>4. more \in Seq(Texts) /\ Len(t.answer) \in Nat
  BY <1>1, <1>2
<1> HIDE DEF more, fits
<1> QED BY <1>2, <1>3, <1>4

\* The row of the first turn of a conversation, and a row after one more.
First(a, sid, t) ==
  LET m == Merge(<<>>, 0, t) IN
  [id |-> a.nextRow, table |-> t.month, sid |-> sid, last |-> t.own, msgs |-> m.msgs,
   count |-> m.count, turns |-> 1, status |-> "ok", active |-> t.at]
Further(r, t) ==
  LET m == Merge(r.msgs, r.count, t) IN
  IF t.ok THEN [r EXCEPT !.msgs = m.msgs, !.count = m.count, !.turns = @ + 1,
                         !.last = IF t.own = 0 THEN @ ELSE t.own, !.status = "ok", !.active = t.at]
  ELSE [r EXCEPT !.status = "error", !.active = t.at]

LEMMA FirstIs ==
  ASSUME NEW a \in Archives, NEW sid \in Sids, NEW t \in TurnArg, NEW r, r = First(a, sid, t)
  PROVE  /\ r \in SessionRow /\ r.id = a.nextRow /\ r.table = t.month /\ r.sid = sid /\ r.last = t.own
         /\ r.turns = 1 /\ r.msgs = Merge(<<>>, 0, t).msgs /\ r.count = Merge(<<>>, 0, t).count
<1> DEFINE m == Merge(<<>>, 0, t)
<1>1. m.msgs \in Seq(Texts) /\ m.count \in Nat
  <2>1. <<>> \in Seq(Texts)
    OBVIOUS
  <2> QED BY <2>1, MergeIs
<1>2. t.month \in {1, 2} /\ t.at \in {1, 2} /\ t.own \in Nat /\ a.nextRow \in Nat
  BY DEF TurnArg, Archives
<1>3. r = [id |-> a.nextRow, table |-> t.month, sid |-> sid, last |-> t.own, msgs |-> m.msgs,
           count |-> m.count, turns |-> 1, status |-> "ok", active |-> t.at]
  BY DEF First
<1> HIDE DEF m
<1>4. r \in SessionRow
  BY <1>1, <1>2, <1>3 DEF SessionRow
<1> QED BY <1>3, <1>4 DEF m

LEMMA FurtherIs ==
  ASSUME NEW q \in SessionRow, NEW t \in TurnArg, NEW r, r = Further(q, t)
  PROVE  /\ r \in SessionRow /\ r.id = q.id /\ r.table = q.table /\ r.sid = q.sid
         /\ t.ok => /\ (t.own # 0 => r.last = t.own) /\ r.turns = q.turns + 1
                    /\ r.msgs = Merge(q.msgs, q.count, t).msgs
                    /\ r.count = Merge(q.msgs, q.count, t).count
         /\ ~t.ok => r.last = q.last /\ r.turns = q.turns /\ r.msgs = q.msgs /\ r.count = q.count
<1> DEFINE m == Merge(q.msgs, q.count, t)
           last == IF t.own = 0 THEN q.last ELSE t.own
           k == q.turns + 1
<1>1. m.msgs \in Seq(Texts) /\ m.count \in Nat
  BY MergeIs DEF SessionRow
<1>2. t.at \in Nat /\ last \in Nat /\ k \in Nat
  BY DEF TurnArg, SessionRow
<1>3. r = IF t.ok THEN [q EXCEPT !.msgs = m.msgs, !.count = m.count, !.turns = k,
                                 !.last = last, !.status = "ok", !.active = t.at]
          ELSE [q EXCEPT !.status = "error", !.active = t.at]
  BY DEF Further
<1> HIDE DEF m, last, k
<1>4. CASE t.ok
  <2>1. r = [q EXCEPT !.msgs = m.msgs, !.count = m.count, !.turns = k,
                      !.last = last, !.status = "ok", !.active = t.at]
    BY <1>3, <1>4
  <2>2. r \in SessionRow /\ r.id = q.id /\ r.table = q.table /\ r.sid = q.sid
    BY <1>1, <1>2, <2>1 DEF SessionRow
  <2>3. r.last = last /\ r.turns = k /\ r.msgs = m.msgs /\ r.count = m.count
    BY <2>1 DEF SessionRow
  <2> QED BY <1>4, <2>2, <2>3 DEF m, last, k
<1>5. CASE ~t.ok
  BY <1>2, <1>3, <1>5 DEF SessionRow
<1> QED BY <1>4, <1>5

LEMMA InsertInOrder ==
  ASSUME NEW a, InOrder(a), NEW sid \in Sids, NEW t \in TurnArg, \A r \in a.rows : r.sid # sid
  PROVE  /\ InOrder(InsertSession(a, sid, t))
         /\ InsertSession(a, sid, t).rows = a.rows \union {First(a, sid, t)}
<1> DEFINE b == Ensure(a, "sess", t.month)
           new == First(a, sid, t)
           c == InsertSession(a, sid, t)
<1>0. t.month \in {0, 1, 2}
  BY DEF TurnArg
<1>1. InOrder(b) /\ a \in Archives
  BY <1>0, EnsureInOrder DEF InOrder
<1>2. /\ b.rows = a.rows /\ b.nextRow = a.nextRow
      /\ t.month \in b.tables["sess"] /\ t.month \in b.known["sess"] /\ b \in Archives
  BY <1>0, <1>1, EnsureIs
<1>3. c = [b EXCEPT !.rows = @ \union {new}, !.nextRow = @ + 1]
  BY DEF InsertSession, First
<1>4. new \in SessionRow /\ new.id = a.nextRow /\ new.table = t.month /\ new.sid = sid
  BY <1>1, FirstIs
<1> HIDE DEF b, new, c
<1>5. /\ c \in Archives /\ c.rows = b.rows \union {new} /\ c.nextRow = b.nextRow + 1
      /\ c.tables = b.tables /\ c.known = b.known
  <2> DEFINE R == b.rows \union {new}
             i == b.nextRow + 1
  <2>1. R \in SUBSET SessionRow /\ i \in Nat
    BY <1>2, <1>4 DEF Archives
  <2>2. c = [b EXCEPT !.rows = R, !.nextRow = i]
    BY <1>3
  <2> HIDE DEF R, i
  <2>3. c \in Archives /\ c.rows = R /\ c.nextRow = i /\ c.tables = b.tables /\ c.known = b.known
    BY <1>2, <2>1, <2>2 DEF Archives
  <2> QED BY <2>3 DEF R, i
<1>6. \A r \in b.rows : r.id \in Nat /\ r.id < b.nextRow /\ r.sid # sid
  BY <1>1, <1>2 DEF InOrder, Rooted, Archives, SessionRow
<1>7. b.nextRow \in Nat
  BY <1>2 DEF Archives
<1>8. Rooted(c)
  BY <1>1, <1>2, <1>4, <1>5, <1>6, <1>7 DEF InOrder, Rooted
<1>9. Single(c)
  BY <1>1, <1>2, <1>4, <1>5, <1>6, <1>7 DEF InOrder, Single
<1> QED BY <1>2, <1>5, <1>8, <1>9 DEF InOrder, c, new

LEMMA UpdateInOrder ==
  ASSUME NEW a, InOrder(a), NEW q \in a.rows, NEW t \in TurnArg
  PROVE  /\ InOrder(UpdateSession(a, q, t))
         /\ UpdateSession(a, q, t).rows = (a.rows \ {q}) \union {Further(q, t)}
<1> DEFINE new == Further(q, t)
           R == (a.rows \ {q}) \union {new}
           c == UpdateSession(a, q, t)
<1>1. c = [a EXCEPT !.rows = R]
  BY DEF UpdateSession, Further, Absent
<1>2. a \in Archives /\ q \in SessionRow
  BY DEF InOrder, Archives
<1>3. new \in SessionRow /\ new.id = q.id /\ new.table = q.table /\ new.sid = q.sid
  BY <1>2, FurtherIs
<1> HIDE DEF new, c
<1>4. R \in SUBSET SessionRow
  BY <1>2, <1>3 DEF Archives
<1> HIDE DEF R
<1>5. /\ c \in Archives /\ c.rows = R /\ c.nextRow = a.nextRow
      /\ c.tables = a.tables /\ c.known = a.known
  BY <1>1, <1>2, <1>4 DEF Archives
<1>6. Rooted(c)
  BY <1>3, <1>5 DEF InOrder, Rooted, R
<1>7. Single(c)
  BY <1>3, <1>5 DEF InOrder, Single, R
<1> QED BY <1>5, <1>6, <1>7 DEF InOrder, c, new, R

\* What a turn that is merged makes of the rows.
Merging(a, t, b, sid) ==
  \/ /\ t.ok /\ (\A r \in a.rows : r.sid # sid) /\ b.rows = a.rows \union {First(a, sid, t)}
  \/ \E q \in a.rows : q.sid = sid /\ b.rows = (a.rows \ {q}) \union {Further(q, t)}

LEMMA UpsertInOrder ==
  ASSUME NEW a, InOrder(a), NEW t \in TurnArg, Merges(a, t)
  PROVE  /\ InOrder(UpsertSessionTurn(a, t))
         /\ Merging(a, t, UpsertSessionTurn(a, t), SessionOf(a, t))
         /\ SessionOf(a, t) \in Sids
<1> DEFINE sid == SessionOf(a, t)
           b == UpsertSessionTurn(a, t)
<1>1. sid \in Sids
  BY SessionIs
<1>2. \/ /\ t.ok /\ \A r \in a.rows : r.sid # sid
         /\ b = InsertSession(a, sid, t)
      \/ \E r \in a.rows : r.sid = sid /\ b = UpdateSession(a, r, t)
  BY UpsertIs
<1> HIDE DEF sid, b
<1>3. InOrder(b) /\ Merging(a, t, b, sid)
  <2>1. CASE t.ok /\ (\A r \in a.rows : r.sid # sid) /\ b = InsertSession(a, sid, t)
    <3>1. InOrder(b) /\ b.rows = a.rows \union {First(a, sid, t)}
      BY <1>1, <2>1, InsertInOrder
    <3> QED BY <2>1, <3>1 DEF Merging
  <2>2. CASE \E r \in a.rows : r.sid = sid /\ b = UpdateSession(a, r, t)
    <3>1. PICK q \in a.rows : q.sid = sid /\ b = UpdateSession(a, q, t)
      BY <2>2
    <3>2. InOrder(b) /\ b.rows = (a.rows \ {q}) \union {Further(q, t)}
      BY <3>1, UpdateInOrder
    <3> QED BY <3>1, <3>2 DEF Merging
  <2> QED BY <1>2, <2>1, <2>2
<1> QED BY <1>1, <1>3 DEF sid, b

-----------------------------------------------------------------------------
(* The states of the archive. *)

Requested == calls \in Seq(Call) /\ mine \in Seq(Texts) /\ month \in {1, 2}
Answers   == \A n \in Calls : calls[n].answer \in {<<>>, <<Out(n)>>}

\* A row is of turns that have been archived.
Filed ==
  /\ DOMAIN merged = {r.sid : r \in archive.rows}
  /\ \A s \in DOMAIN merged :
       /\ merged[s] \in Seq(Nat) /\ merged[s] # <<>>
       /\ \A i \in 1 .. Len(merged[s]) : merged[s][i] \in Calls /\ calls[merged[s][i]].pc = "archived"

\* A turn with an answer is merged once, and into a row that is there as long as it is kept.
Logged ==
  /\ log \in Seq(Entry)
  /\ \A i \in 1 .. Len(log) :
       /\ log[i].turn \in Calls /\ (log[i].ok => calls[log[i].turn].pc = "archived")
       /\ log[i].kept => \E r \in archive.rows : r.sid = log[i].sid
  /\ \A i, j \in 1 .. Len(log) : log[i].ok /\ log[j].ok /\ log[i].turn = log[j].turn => i = j

\* A row of a chain ends in the response of the last turn with an answer that was merged into it.
Ends(i) == /\ log[i].kept /\ log[i].ok
           /\ \A j \in i + 1 .. Len(log) : log[j].kept /\ log[j].ok => log[j].sid # log[i].sid
RowEnds ==
  client = "chain" =>
    \A r \in archive.rows : \E i \in 1 .. Len(log) : Ends(i) /\ log[i].sid = r.sid /\ log[i].turn = r.last

ArchiveInv == Requested /\ Answers /\ InOrder(archive) /\ Filed /\ Logged /\ RowEnds

\* What has been asked stays, and what has been archived altogether.
Onwards ==
  /\ Len(calls) <= Len(calls')
  /\ \A n \in 1 .. Len(calls) :
       /\ calls'[n].prev = calls[n].prev /\ calls'[n].sent = calls[n].sent
       /\ calls'[n].compact = calls[n].compact
       /\ calls[n].pc = "archived" => calls'[n].pc = "archived" /\ calls'[n].answer = calls[n].answer

LEMMA TurnIs ==
  ASSUME Requested, NEW n \in Calls, NEW ok \in BOOLEAN, NEW t, t = SessionTurn(n, ok)
  PROVE  /\ t \in TurnArg /\ t.ok = ok
         /\ client = "chain" => t.sid = 0 /\ t.prev = calls[n].prev /\ t.own = n
         /\ t.ok => /\ t.compact = calls[n].compact /\ t.answer = calls[n].answer
                    /\ Responses => t.full = <<>> /\ t.delta = calls[n].sent
                    /\ ~Responses => t.full = calls[n].sent /\ t.delta = <<>>
<1>1. calls[n] \in Call /\ n \in Nat
  BY DEF Requested, Calls
<1> DEFINE c == calls[n]
           sid == IF client \in {"affine", "stateless"} THEN 1 ELSE 0
           prev == IF client = "chain" THEN c.prev ELSE 0
           own == IF client = "chain" THEN n ELSE 0
           full == IF ok /\ ~Responses THEN c.sent ELSE <<>>
           delta == IF ok /\ Responses THEN c.sent ELSE <<>>
           answer == IF ok THEN c.answer ELSE <<>>
<1>2. t = [sid |-> sid, prev |-> prev, own |-> own, compact |-> c.compact, full |-> full,
           delta |-> delta, answer |-> answer, ok |-> ok, at |-> c.month, month |-> c.month]
  BY DEF SessionTurn, Absent, Captured
<1>3. /\ sid \in Nat /\ prev \in Nat /\ own \in Nat /\ full \in Seq(Texts) /\ delta \in Seq(Texts)
      /\ answer \in Seq(Texts) /\ c.compact \in BOOLEAN /\ c.month \in {1, 2}
  <2>1. /\ c.prev \in Nat /\ c.sent \in Seq(Texts) /\ c.compact \in BOOLEAN /\ c.answer \in Seq(Texts)
        /\ c.month \in {1, 2}
    <3> HIDE DEF c
    <3> QED BY <1>1 DEF Call, c
  <2>2. <<>> \in Seq(Texts)
    OBVIOUS
  <2> HIDE DEF c
  <2> QED BY <1>1, <2>1, <2>2
<1>4. client = "chain" => sid = 0 /\ prev = c.prev /\ own = n
  OBVIOUS
<1>5. ok => /\ answer = c.answer /\ full = (IF Responses THEN <<>> ELSE c.sent)
            /\ delta = (IF Responses THEN c.sent ELSE <<>>)
  OBVIOUS
<1> HIDE DEF sid, prev, own, full, delta, answer
<1>6. t \in TurnArg
  BY <1>2, <1>3 DEF TurnArg
<1> QED BY <1>2, <1>4, <1>5, <1>6

\* A closure merges its turn, or adds no more than a record.
Joins(n, ok, a, sid) ==
  LET t == SessionTurn(n, ok) IN
  /\ InOrder(a) /\ a.rows = archive.rows /\ InOrder(archive')
  /\ sid = SessionOf(a, t) /\ sid \in Sids /\ Merges(a, t)
  /\ Merging(a, t, archive', sid)
  /\ log' = Append(log, [turn |-> n, ok |-> ok, sid |-> sid, kept |-> TRUE])
  /\ merged' = IF ok THEN [s \in DOMAIN merged \union {sid} |->
                             IF s = sid THEN Append(Merged(sid), n) ELSE merged[s]]
               ELSE merged
Idle == InOrder(archive') /\ archive'.rows = archive.rows /\ log' = log /\ merged' = merged

LEMMA FinishIs ==
  ASSUME ArchiveInv, NEW n \in Calls, NEW ok \in BOOLEAN, Finish(n, ok)
  PROVE  Idle \/ \E a, sid : Joins(n, ok, a, sid)
<1> DEFINE t == SessionTurn(n, ok)
<1>1. Requested /\ InOrder(archive)
  BY DEF ArchiveInv
<1>2. t \in TurnArg /\ n \in Nat
  BY <1>1, TurnIs DEF Calls
<1>3. PICK broken \in SUBSET {"rec", "sess"} :
        LET a == IF "rec" \in broken THEN archive ELSE InsertConversation(archive, n, t.at, t.month)
            sid == SessionOf(a, t)
            merges == "sess" \notin broken /\ Merges(a, t)
        IN /\ archive' = IF merges THEN UpsertSessionTurn(a, t) ELSE a
           /\ log' = IF merges THEN Append(log, [turn |-> n, ok |-> ok, sid |-> sid, kept |-> TRUE]) ELSE log
           /\ merged' = IF merges /\ ok
                        THEN [s \in DOMAIN merged \union {sid} |->
                                IF s = sid THEN Append(Merged(sid), n) ELSE merged[s]]
                        ELSE merged
  BY DEF Finish
<1> DEFINE b == IF "rec" \in broken THEN archive ELSE InsertConversation(archive, n, t.at, t.month)
<1>4. InOrder(b) /\ b.rows = archive.rows
  <2>1. t.at \in {1, 2} /\ t.month \in {1, 2}
    BY <1>2 DEF TurnArg
  <2> HIDE DEF t
  <2>2. InOrder(InsertConversation(archive, n, t.at, t.month))
        /\ InsertConversation(archive, n, t.at, t.month).rows = archive.rows
    BY <1>1, <1>2, <2>1, RecordInOrder
  <2> QED BY <1>1, <2>2
<1> DEFINE merges == "sess" \notin broken /\ Merges(b, t)
           d == SessionOf(b, t)
<1>5. /\ archive' = IF merges THEN UpsertSessionTurn(b, t) ELSE b
      /\ log' = IF merges THEN Append(log, [turn |-> n, ok |-> ok, sid |-> d, kept |-> TRUE]) ELSE log
      /\ merged' = IF merges /\ ok
                   THEN [s \in DOMAIN merged \union {d} |->
                           IF s = d THEN Append(Merged(d), n) ELSE merged[s]]
                   ELSE merged
  BY <1>3
<1> HIDE DEF b
<1>6. CASE merges
  <2>1. Merges(b, t)
    BY <1>6
  <2>2. InOrder(UpsertSessionTurn(b, t)) /\ Merging(b, t, UpsertSessionTurn(b, t), d) /\ d \in Sids
    <3> HIDE DEF t
    <3> QED BY <1>2, <1>4, <2>1, UpsertInOrder
  <2> HIDE DEF merges, d
  <2>3. archive' = UpsertSessionTurn(b, t)
    BY <1>5, <1>6
  <2>4. log' = Append(log, [turn |-> n, ok |-> ok, sid |-> d, kept |-> TRUE])
    BY <1>5, <1>6
  <2>5. merged' = IF ok THEN [s \in DOMAIN merged \union {d} |->
                               IF s = d THEN Append(Merged(d), n) ELSE merged[s]]
                  ELSE merged
    BY <1>5, <1>6
  <2>6. Joins(n, ok, b, d)
    BY <1>4, <2>1, <2>2, <2>3, <2>4, <2>5 DEF Joins, d
  <2> QED BY <2>6
<1>7. CASE ~merges
  <2> HIDE DEF merges
  <2>1. Idle
    BY <1>4, <1>5, <1>7 DEF Idle
  <2> QED BY <2>1
<1> QED BY <1>6, <1>7

LEMMA BootInOrder ==
  ASSUME NEW a, InOrder(a) \/ a = Empty \/ a = Older, NEW m \in {1, 2}, month = m
  PROVE  InOrder(Boot(a)) /\ Boot(a).rows = a.rows
<1> DEFINE b == Load(a)
<1>1. InOrder(b) /\ b.rows = a.rows
  <2>1. b = [a EXCEPT !.known = a.tables]
    BY DEF Load
  <2>2. CASE InOrder(a)
    <3>1. b \in Archives /\ b.rows = a.rows /\ b.tables = a.tables /\ b.known = a.tables /\ b.nextRow = a.nextRow
      BY <2>1, <2>2 DEF InOrder, Archives
    <3> QED BY <2>2, <3>1 DEF InOrder, Rooted, Single
  <2>3. CASE a = Empty \/ a = Older
    <3>1. a \in Archives /\ a.rows = {}
      <4>1. Empty \in Archives /\ Empty.rows = {}
        BY DEF Empty, Groups, Archives, Tables
      <4>2. Older \in Archives /\ Older.rows = {}
        <5> DEFINE none == [g \in {"rec", "sess"} |-> {}]
                   base == [none EXCEPT !["rec"] = {0}]
                   recs == {[id |-> 1, table |-> 0, turn |-> 0, at |-> 0]}
        <5>1. none \in Tables /\ base \in Tables /\ recs \in SUBSET RecordRow
          BY DEF Tables, RecordRow
        <5>2. Older = [tables |-> base, known |-> none, recs |-> recs, rows |-> {}, nextRec |-> 2, nextRow |-> 1]
          <6>1. Empty = [tables |-> none, known |-> none, recs |-> {}, rows |-> {}, nextRec |-> 1, nextRow |-> 1]
            BY DEF Empty, Groups
          <6>2. Older = [Empty EXCEPT !.tables = [@ EXCEPT !["rec"] = {0}], !.nextRec = 2, !.recs = recs]
            BY DEF Older, Base
          <6>3. Older = [Empty EXCEPT !.tables = base, !.nextRec = 2, !.recs = recs]
            <7>1. Empty.tables = none
              BY <6>1
            <7> QED BY <6>2, <7>1
          <6> HIDE DEF none, base, recs
          <6> QED BY <6>1, <6>3
        <5> HIDE DEF none, base, recs
        <5> QED BY <5>1, <5>2 DEF Archives
      <4> QED BY <2>3, <4>1, <4>2
    <3>2. b \in Archives /\ b.rows = {}
      BY <2>1, <3>1 DEF Archives
    <3> QED BY <3>1, <3>2 DEF InOrder, Rooted, Single
  <2> QED BY <2>2, <2>3 DEF InOrder
<1> DEFINE c == Ensure(b, "rec", m)
           d == Ensure(c, "sess", m)
<1>2. Boot(a) = d
  BY DEF Boot
<1> HIDE DEF b
<1>3. InOrder(c) /\ c.rows = a.rows
  BY <1>1, EnsureInOrder, EnsureIs DEF InOrder
<1> HIDE DEF c
<1>4. InOrder(d) /\ d.rows = a.rows
  BY <1>3, EnsureInOrder, EnsureIs DEF InOrder
<1> HIDE DEF d
<1> QED BY <1>2, <1>4

-----------------------------------------------------------------------------
(* What each step does to the calls. *)

Begun == Requested /\ Answers

LEMMA SendGoesOn ==
  ASSUME Begun, NEW req \in Call, req.answer = <<>>, Send(req)
  PROVE  Begun' /\ Onwards
<1>1. /\ calls' = Append(calls, req) /\ calls \in Seq(Call) /\ mine' = mine /\ month' = month
      /\ mine \in Seq(Texts) /\ month \in {1, 2}
  BY DEF Begun, Requested, Send
<1>2. /\ calls' \in Seq(Call) /\ Len(calls') = Len(calls) + 1 /\ calls'[Len(calls) + 1] = req
      /\ \A n \in 1 .. Len(calls) : calls'[n] = calls[n]
  <2> HIDE DEF Call
  <2> QED BY <1>1, AppendProperties
<1>3. Onwards
  BY <1>1, <1>2 DEF Onwards
<1>4. Requested'
  BY <1>1, <1>2 DEF Requested
<1>5. Answers'
  <2>1. ASSUME NEW n \in 1 .. Len(calls') PROVE calls'[n].answer \in {<<>>, <<Out(n)>>}
    <3>1. n \in 1 .. Len(calls) \/ n = Len(calls) + 1
      BY <1>1, <1>2
    <3> QED BY <1>2, <3>1 DEF Begun, Answers, Calls
  <2> QED BY <2>1 DEF Answers, Calls, Out
<1> QED BY <1>3, <1>4, <1>5 DEF Begun

LEMMA RequestIs ==
  ASSUME Begun, NEW prev \in Nat, NEW sent \in Seq(Texts), NEW compact \in BOOLEAN
  PROVE  NewCall(prev, sent, compact) \in Call /\ NewCall(prev, sent, compact).answer = <<>>
<1>1. month \in {1, 2} /\ <<>> \in Seq(Texts)
  BY DEF Begun, Requested
<1> QED BY <1>1 DEF NewCall, Call

LEMMA InIs == \A n \in Nat : In(n) \in Texts /\ Out(n) \in Texts /\ <<"summary", n>> \in Texts
BY DEF In, Out, Texts

LEMMA SaysGoOn ==
  ASSUME Begun, Say \/ Retry \/ Compact PROVE Begun' /\ Onwards
<1>1. calls \in Seq(Call) /\ mine \in Seq(Texts) /\ Len(calls) + 1 \in Nat
  BY DEF Begun, Requested
<1> DEFINE n == Len(calls) + 1
<1>2. CASE Say
  <2>1. CASE Responses /\ \E prev \in Answered \union {0} : Send(NewCall(prev, <<In(n)>>, FALSE))
    <3>1. PICK prev \in Answered \union {0} : Send(NewCall(prev, <<In(n)>>, FALSE))
      BY <2>1
    <3>2. prev \in Nat /\ <<In(n)>> \in Seq(Texts)
      <4>1. In(n) \in Texts
        BY <1>1, InIs
      <4> HIDE DEF Texts
      <4> QED BY <4>1 DEF Answered, Calls
    <3> HIDE DEF Texts
    <3> DEFINE req == NewCall(prev, <<In(n)>>, FALSE)
    <3>3. req \in Call /\ req.answer = <<>> /\ Send(req)
      BY <3>1, <3>2, RequestIs
    <3> HIDE DEF req
    <3> QED BY <3>3, SendGoesOn
  <2>2. CASE Send(NewCall(0, Append(mine, In(n)), FALSE))
    <3>1. Append(mine, In(n)) \in Seq(Texts)
      <4>1. In(n) \in Texts
        BY <1>1, InIs
      <4> HIDE DEF Texts
      <4> QED BY <1>1, <4>1, AppendProperties
    <3> DEFINE req == NewCall(0, Append(mine, In(n)), FALSE)
    <3>2. req \in Call /\ req.answer = <<>> /\ Send(req)
      BY <2>2, <3>1, RequestIs
    <3> HIDE DEF req
    <3> QED BY <3>2, SendGoesOn
  <2> QED BY <1>2, <2>1, <2>2 DEF Say, Absent
<1>3. CASE Retry
  <2> DEFINE t == calls[Len(calls)]
             req == NewCall(t.prev, t.sent, t.compact)
  <2>1. calls # <<>> /\ Send(req)
    BY <1>3 DEF Retry, Last
  <2>2. t.prev \in Nat /\ t.sent \in Seq(Texts) /\ t.compact \in BOOLEAN
    <3>1. t \in Call
      <4> HIDE DEF Call
      <4> QED BY <1>1, <2>1
    <3> HIDE DEF t
    <3> QED BY <3>1 DEF Call
  <2>3. req \in Call /\ req.answer = <<>>
    BY <2>2, RequestIs
  <2> HIDE DEF req
  <2> QED BY <2>1, <2>3, SendGoesOn
<1>4. CASE Compact
  <2>1. PICK said \in BOOLEAN : Send(NewCall(0, <<<<"summary", n>>, In(n)>>, said))
    BY <1>4 DEF Compact, Absent
  <2> DEFINE sent == <<<<"summary", n>>, In(n)>>
             req == NewCall(0, sent, said)
  <2>2. sent \in Seq(Texts)
    <3>1. <<"summary", n>> \in Texts /\ In(n) \in Texts
      BY <1>1, InIs
    <3> DEFINE s == <<"summary", n>>
    <3> HIDE DEF Texts, s, n
    <3> QED BY <3>1 DEF s
  <2> HIDE DEF sent
  <2>3. req \in Call /\ req.answer = <<>>
    BY <2>2, RequestIs
  <2>4. Send(req)
    BY <2>1 DEF sent
  <2> HIDE DEF req
  <2> QED BY <2>3, <2>4, SendGoesOn
<1> QED BY <1>2, <1>3, <1>4

\* One call changes, and keeps what was asked.
LEMMA OneGoesOn ==
  ASSUME Begun, NEW n \in Calls, NEW c \in Call, calls' = [calls EXCEPT ![n] = c],
         calls[n].pc # "archived", c.prev = calls[n].prev, c.sent = calls[n].sent, c.compact = calls[n].compact,
         c.answer \in {<<>>, <<Out(n)>>}, mine' \in Seq(Texts), month' = month
  PROVE  Begun' /\ Onwards
<1>1. calls \in Seq(Call) /\ n \in 1 .. Len(calls) /\ month \in {1, 2}
  BY DEF Begun, Requested, Calls
<1>2. /\ calls' \in Seq(Call) /\ Len(calls') = Len(calls) /\ calls'[n] = c
      /\ \A k \in 1 .. Len(calls) : k # n => calls'[k] = calls[k]
  <2> HIDE DEF Call
  <2> QED BY <1>1
<1>3. Onwards
  BY <1>1, <1>2 DEF Onwards
<1>4. Requested'
  BY <1>1, <1>2 DEF Requested
<1>5. Answers'
  BY <1>1, <1>2 DEF Begun, Answers, Calls, Out
<1> QED BY <1>3, <1>4, <1>5 DEF Begun

LEMMA CallsGoOn ==
  ASSUME Begun, NEW n \in Calls, CandidateFails(n) \/ AnswerTurn(n) \/ ArchiveTurn(n)
  PROVE  Begun' /\ Onwards
<1> DEFINE c == calls[n]
<1>1. calls \in Seq(Call) /\ c \in Call /\ n \in Nat /\ month \in {1, 2} /\ mine \in Seq(Texts)
  <2>1. calls \in Seq(Call) /\ n \in 1 .. Len(calls)
    BY DEF Begun, Requested, Calls
  <2> HIDE DEF Call
  <2> QED BY <2>1 DEF Begun, Requested
<1>2. c.answer \in {<<>>, <<Out(n)>>}
  BY DEF Begun, Answers
<1>3. c.sent \in Seq(Texts)
  <2> HIDE DEF c
  <2> QED BY <1>1 DEF Call
<1>4. CASE CandidateFails(n)
  <2>1. /\ c.pc # "archived" /\ mine' = mine /\ month' = month
        /\ \/ calls' = [calls EXCEPT ![n] = [@ EXCEPT !.pc = "called again", !.month = month]]
           \/ calls' = [calls EXCEPT ![n] = [@ EXCEPT !.pc = "failed"]]
    BY <1>4 DEF CandidateFails
  <2> DEFINE again == [c EXCEPT !.pc = "called again", !.month = month]
             failed == [c EXCEPT !.pc = "failed"]
  <2>2. \A e \in {again, failed} :
          e \in Call /\ e.prev = c.prev /\ e.sent = c.sent /\ e.compact = c.compact /\ e.answer = c.answer
    <3> HIDE DEF c
    <3> QED BY <1>1 DEF Call
  <2>3. PICK e \in {again, failed} : calls' = [calls EXCEPT ![n] = e]
    BY <2>1
  <2> HIDE DEF again, failed
  <2> QED BY <1>1, <1>2, <2>1, <2>2, <2>3, OneGoesOn
<1>5. CASE AnswerTurn(n)
  <2>1. PICK out \in {<<>>, <<Out(n)>>} :
          calls' = [calls EXCEPT ![n] = [@ EXCEPT !.pc = "answered", !.ok = TRUE, !.answer = out]]
    BY <1>5 DEF AnswerTurn
  <2> DEFINE e == [c EXCEPT !.pc = "answered", !.ok = TRUE, !.answer = out]
  <2>2. /\ c.pc # "archived" /\ month' = month
        /\ mine' = IF Responses THEN <<>> ELSE Append(c.sent, Out(n))
    BY <1>5 DEF AnswerTurn
  <2>3. calls' = [calls EXCEPT ![n] = e]
    BY <2>1
  <2>4. Out(n) \in Texts
    BY <1>1, InIs
  <2>5. out \in Seq(Texts) /\ mine' \in Seq(Texts)
    <3> DEFINE said == Out(n)
               more == Append(c.sent, said)
    <3>1. <<>> \in Seq(Texts) /\ <<said>> \in Seq(Texts) /\ more \in Seq(Texts)
      <4>1. said \in Texts
        BY <2>4
      <4> HIDE DEF said, Texts, c
      <4> QED BY <1>3, <4>1
    <3>2. out \in {<<>>, <<said>>} /\ mine' \in {<<>>, more}
      BY <2>2
    <3> HIDE DEF said, more
    <3> QED BY <3>1, <3>2
  <2>6. e \in Call /\ e.prev = c.prev /\ e.sent = c.sent /\ e.compact = c.compact /\ e.answer = out
    <3> HIDE DEF c
    <3> QED BY <1>1, <2>5 DEF Call
  <2> HIDE DEF e
  <2> QED BY <2>1, <2>2, <2>3, <2>5, <2>6, OneGoesOn
<1>6. CASE ArchiveTurn(n)
  <2> DEFINE e == [c EXCEPT !.pc = "archived"]
  <2>1. c.pc = "answered" /\ mine' = mine /\ month' = month /\ calls' = [calls EXCEPT ![n] = e]
    BY <1>6 DEF ArchiveTurn
  <2>2. e \in Call /\ e.prev = c.prev /\ e.sent = c.sent /\ e.compact = c.compact /\ e.answer = c.answer
    <3> HIDE DEF c
    <3> QED BY <1>1 DEF Call
  <2> HIDE DEF e
  <2> QED BY <1>1, <1>2, <2>1, <2>2, OneGoesOn
<1> QED BY <1>4, <1>5, <1>6

LEMMA CrashGoesOn ==
  ASSUME Begun, ProcessDies PROVE Begun' /\ Onwards
<1> DEFINE End(p) == IF p \in {"called", "called again"} THEN "failed" ELSE IF p = "answered" THEN "archived" ELSE p
           d == [n \in 1 .. Len(calls) |-> [calls[n] EXCEPT !.pc = End(@)]]
<1>1. calls \in Seq(Call) /\ month \in {1, 2} /\ mine \in Seq(Texts)
  BY DEF Begun, Requested
<1>2. calls' = d /\ month' = month /\ mine' = mine
  BY DEF ProcessDies, Calls
<1>3. ASSUME NEW n \in 1 .. Len(calls)
      PROVE  /\ d[n] \in Call /\ d[n].prev = calls[n].prev /\ d[n].sent = calls[n].sent
             /\ d[n].compact = calls[n].compact /\ d[n].answer = calls[n].answer
             /\ calls[n].pc = "archived" => d[n].pc = "archived"
  <2> DEFINE c == calls[n]
             p == End(c.pc)
  <2>1. c \in Call
    <3> HIDE DEF Call
    <3> QED BY <1>1
  <2>2. d[n] = [c EXCEPT !.pc = p]
    OBVIOUS
  <2> HIDE DEF c, d
  <2>3. p \in {"called", "called again", "answered", "failed", "archived"} /\ (c.pc = "archived" => p = "archived")
    BY <2>1 DEF Call
  <2> HIDE DEF p
  <2>4. /\ d[n] \in Call /\ d[n].prev = c.prev /\ d[n].sent = c.sent
        /\ d[n].compact = c.compact /\ d[n].answer = c.answer /\ d[n].pc = p
    BY <2>1, <2>2, <2>3 DEF Call
  <2> QED BY <2>3, <2>4 DEF c
<1>4. d \in Seq(Call) /\ Len(d) = Len(calls)
  <2>1. Len(calls) \in Nat /\ d = [n \in 1 .. Len(calls) |-> d[n]]
    BY <1>1
  <2> HIDE DEF d, Call
  <2>2. d \in [1 .. Len(calls) -> Call]
    BY <1>3, <2>1
  <2> QED BY <2>1, <2>2
<1> HIDE DEF d
<1>5. Onwards
  BY <1>2, <1>3, <1>4 DEF Onwards
<1>6. Requested'
  BY <1>1, <1>2, <1>4 DEF Requested
<1>7. Answers'
  BY <1>2, <1>3, <1>4 DEF Begun, Answers, Calls, Out
<1> QED BY <1>5, <1>6, <1>7 DEF Begun

LEMMA StaysOn ==
  ASSUME Begun, calls' = calls, mine' = mine, month' \in {1, 2}
  PROVE  Begun' /\ Onwards
BY DEF Begun, Requested, Answers, Onwards, Calls, Out

-----------------------------------------------------------------------------
(* What each step does to the rows and to what is remembered of them. *)

LEMMA QuietKeeps ==
  ASSUME ArchiveInv, Onwards, archive'.rows = archive.rows, log' = log, merged' = merged, client' = client
  PROVE  Filed' /\ Logged' /\ RowEnds'
<1>1. Calls \subseteq Calls'
  BY DEF Onwards, Calls, ArchiveInv, Requested
<1>2. Filed'
  BY <1>1 DEF ArchiveInv, Filed, Onwards, Calls
<1>3. Logged'
  BY <1>1 DEF ArchiveInv, Logged, Onwards, Calls
<1>4. RowEnds'
  BY DEF ArchiveInv, RowEnds, Ends
<1> QED BY <1>2, <1>3, <1>4

\* The row of the session in hand is replaced, or is new.
Replaces(n, ok, a, sid, new) ==
  /\ new \in SessionRow /\ new.sid = sid
  /\ archive'.rows = {r \in archive.rows : r.sid # sid} \union {new}
  /\ \/ ok /\ (\A r \in archive.rows : r.sid # sid) /\ new = First(a, sid, SessionTurn(n, ok))
     \/ \E q \in archive.rows : q.sid = sid /\ new = Further(q, SessionTurn(n, ok))

LEMMA AddsRows ==
  ASSUME ArchiveInv, NEW n \in Calls, NEW ok \in BOOLEAN, NEW a, NEW sid, Joins(n, ok, a, sid)
  PROVE  \E new : Replaces(n, ok, a, sid, new)
<1> DEFINE t == SessionTurn(n, ok)
<1>1. t \in TurnArg /\ t.ok = ok
  BY TurnIs DEF ArchiveInv
<1>2. /\ a \in Archives /\ a.rows = archive.rows /\ sid \in Sids /\ Merging(a, t, archive', sid)
      /\ a.rows \subseteq SessionRow
      /\ \A r, s \in archive.rows : r.sid = s.sid => r = s
  BY DEF Joins, InOrder, Archives, Single
<1> HIDE DEF t
<1>3. CASE t.ok /\ (\A r \in a.rows : r.sid # sid) /\ archive'.rows = a.rows \union {First(a, sid, t)}
  <2> DEFINE new == First(a, sid, t)
  <2>1. new \in SessionRow /\ new.sid = sid
    BY <1>1, <1>2, FirstIs
  <2> HIDE DEF new
  <2>2. archive'.rows = {r \in archive.rows : r.sid # sid} \union {new}
    BY <1>2, <1>3 DEF new
  <2> QED BY <1>1, <1>2, <1>3, <2>1, <2>2 DEF Replaces, new, t
<1>4. CASE \E q \in a.rows : q.sid = sid /\ archive'.rows = (a.rows \ {q}) \union {Further(q, t)}
  <2>1. PICK q \in archive.rows : q.sid = sid /\ archive'.rows = (archive.rows \ {q}) \union {Further(q, t)}
    BY <1>2, <1>4
  <2> DEFINE new == Further(q, t)
  <2>2. new \in SessionRow /\ new.sid = sid
    BY <1>1, <1>2, <2>1, FurtherIs
  <2> HIDE DEF new
  <2>3. archive'.rows = {r \in archive.rows : r.sid # sid} \union {new}
    BY <1>2, <2>1 DEF new
  <2> QED BY <2>1, <2>2, <2>3 DEF Replaces, new, t
<1> QED BY <1>2, <1>3, <1>4 DEF Merging

LEMMA AddsFiled ==
  ASSUME ArchiveInv, NEW n \in Calls, NEW ok \in BOOLEAN, NEW a, NEW sid, Joins(n, ok, a, sid), Onwards,
         ok => calls'[n].pc = "archived"
  PROVE  Filed'
<1>1. PICK new : Replaces(n, ok, a, sid, new)
  BY AddsRows
<1>2. Calls \subseteq Calls' /\ Len(calls) \in Nat
  BY DEF Onwards, Calls, ArchiveInv, Requested
<1>3. {r.sid : r \in archive'.rows} = {r.sid : r \in archive.rows} \union {sid}
  BY <1>1 DEF Replaces
<1>4. \A s \in DOMAIN merged :
        /\ merged[s] \in Seq(Nat) /\ merged[s] # <<>>
        /\ \A i \in 1 .. Len(merged[s]) : merged[s][i] \in Calls' /\ calls'[merged[s][i]].pc = "archived"
  BY <1>2 DEF ArchiveInv, Filed, Onwards, Calls
<1>5. CASE ok
  <2>1. merged' = [s \in DOMAIN merged \union {sid} |->
                     IF s = sid THEN Append(Merged(sid), n) ELSE merged[s]]
    BY <1>5 DEF Joins
  <2> DEFINE more == Append(Merged(sid), n)
             old == Merged(sid)
  <2>2. /\ old \in Seq(Nat)
        /\ \A i \in 1 .. Len(old) : old[i] \in Calls' /\ calls'[old[i]].pc = "archived"
    <3>1. CASE sid \in DOMAIN merged
      BY <1>4, <3>1 DEF Merged
    <3>2. CASE sid \notin DOMAIN merged
      <4>1. old = <<>>
        BY <3>2 DEF Merged
      <4> HIDE DEF old
      <4> QED BY <4>1
    <3> QED BY <3>1, <3>2
  <2>3. /\ more \in Seq(Nat) /\ more # <<>>
        /\ \A i \in 1 .. Len(more) : more[i] \in Calls' /\ calls'[more[i]].pc = "archived"
    <3> HIDE DEF old
    <3>1. more = Append(old, n) /\ n \in Nat /\ n \in Calls' /\ calls'[n].pc = "archived"
      BY <1>2, <1>5 DEF Calls, old
    <3>2. more \in Seq(Nat) /\ Len(more) = Len(old) + 1 /\ Len(old) \in Nat /\ more[Len(old) + 1] = n
          /\ \A i \in 1 .. Len(old) : more[i] = old[i]
      BY <2>2, <3>1
    <3> HIDE DEF more
    <3>3. \A i \in 1 .. Len(more) : i \in 1 .. Len(old) \/ i = Len(old) + 1
      BY <3>2
    <3>4. more # <<>>
      BY <3>2
    <3> QED BY <2>2, <3>1, <3>2, <3>3, <3>4
  <2> HIDE DEF more, old
  <2>4. DOMAIN merged' = {r.sid : r \in archive'.rows}
    BY <1>3, <2>1 DEF ArchiveInv, Filed
  <2>5. ASSUME NEW s \in DOMAIN merged'
        PROVE  /\ merged'[s] \in Seq(Nat) /\ merged'[s] # <<>>
               /\ \A i \in 1 .. Len(merged'[s]) : merged'[s][i] \in Calls' /\ calls'[merged'[s][i]].pc = "archived"
    <3>1. CASE s = sid
      <4>1. merged'[s] = more
        BY <2>1, <3>1 DEF more
      <4> QED BY <2>3, <4>1
    <3>2. CASE s # sid
      <4>1. s \in DOMAIN merged /\ merged'[s] = merged[s]
        BY <2>1, <3>2
      <4> QED BY <1>4, <4>1
    <3> QED BY <3>1, <3>2
  <2> QED BY <2>4, <2>5 DEF Filed
<1>6. CASE ~ok
  <2>1. merged' = merged /\ sid \in {r.sid : r \in archive.rows}
    BY <1>1, <1>6 DEF Joins, Replaces
  <2>2. DOMAIN merged' = {r.sid : r \in archive'.rows}
    BY <1>3, <2>1 DEF ArchiveInv, Filed
  <2> QED BY <1>4, <2>1, <2>2 DEF Filed
<1> QED BY <1>5, <1>6

LEMMA AddsLogged ==
  ASSUME ArchiveInv, NEW n \in Calls, NEW ok \in BOOLEAN, NEW a, NEW sid, Joins(n, ok, a, sid), Onwards,
         ok => calls[n].pc # "archived" /\ calls'[n].pc = "archived"
  PROVE  /\ Logged' /\ Len(log') = Len(log) + 1 /\ Len(log) \in Nat
         /\ log'[Len(log) + 1] = [turn |-> n, ok |-> ok, sid |-> sid, kept |-> TRUE]
         /\ \A i \in 1 .. Len(log) : log'[i] = log[i]
<1> DEFINE e == [turn |-> n, ok |-> ok, sid |-> sid, kept |-> TRUE]
           L == Len(log)
<1>1. PICK new : Replaces(n, ok, a, sid, new)
  BY AddsRows
<1>2. Calls \subseteq Calls' /\ n \in Calls' /\ n \in Nat
  BY DEF Onwards, Calls, ArchiveInv, Requested
<1>3. log' = Append(log, e) /\ log \in Seq(Entry) /\ sid \in Sids
  BY DEF Joins, ArchiveInv, Logged
<1>4. e \in Entry /\ e.turn = n /\ e.ok = ok /\ e.sid = sid
  BY <1>2, <1>3 DEF Entry
<1> HIDE DEF e
<1>5. log' \in Seq(Entry) /\ Len(log') = L + 1 /\ L \in Nat /\ log'[L + 1] = e /\ \A i \in 1 .. L : log'[i] = log[i]
  <2> HIDE DEF Entry
  <2> QED BY <1>3, <1>4, AppendProperties
<1> HIDE DEF L
<1>6. \A i \in 1 .. Len(log') : i \in 1 .. L \/ i = L + 1
  BY <1>5
<1>7. \A i \in 1 .. L :
        /\ log[i].turn \in Calls' /\ log[i].turn \in Calls
        /\ log[i].ok => calls[log[i].turn].pc = "archived" /\ calls'[log[i].turn].pc = "archived"
        /\ log[i].kept => \E r \in archive'.rows : r.sid = log[i].sid
  <2>1. \A r \in archive.rows : \E s \in archive'.rows : s.sid = r.sid
    BY <1>1 DEF Replaces
  <2> QED BY <1>2, <2>1 DEF ArchiveInv, Logged, Onwards, Calls, L
<1>8. ASSUME NEW i \in 1 .. Len(log')
      PROVE  /\ log'[i].turn \in Calls' /\ (log'[i].ok => calls'[log'[i].turn].pc = "archived")
             /\ log'[i].kept => \E r \in archive'.rows : r.sid = log'[i].sid
  <2>1. CASE i \in 1 .. L
    BY <1>5, <1>7, <2>1
  <2>2. CASE i = L + 1
    <3>1. log'[i] = e /\ \E r \in archive'.rows : r.sid = sid
      BY <1>1, <1>5, <2>2 DEF Replaces
    <3> QED BY <1>2, <1>4, <3>1
  <2> QED BY <1>6, <2>1, <2>2
<1>9. ASSUME NEW i \in 1 .. Len(log'), NEW j \in 1 .. Len(log'), log'[i].ok, log'[j].ok, log'[i].turn = log'[j].turn
      PROVE  i = j
  <2>1. CASE i \in 1 .. L /\ j \in 1 .. L
    BY <1>5, <1>9, <2>1 DEF ArchiveInv, Logged, L
  <2>2. CASE i = L + 1 /\ j \in 1 .. L
    BY <1>4, <1>5, <1>7, <1>9, <2>2
  <2>3. CASE i \in 1 .. L /\ j = L + 1
    BY <1>4, <1>5, <1>7, <1>9, <2>3
  <2> QED BY <1>6, <2>1, <2>2, <2>3
<1>10. Logged'
  BY <1>5, <1>8, <1>9 DEF Logged
<1> QED BY <1>5, <1>10 DEF e, L

LEMMA AddsEnded ==
  ASSUME ArchiveInv, NEW n \in Calls, NEW ok \in BOOLEAN, NEW a, NEW sid, Joins(n, ok, a, sid), Onwards,
         ok => calls[n].pc # "archived" /\ calls'[n].pc = "archived", client' = client
  PROVE  RowEnds'
<1> SUFFICES ASSUME client = "chain", NEW r \in archive'.rows
             PROVE  \E i \in 1 .. Len(log') : Ends(i)' /\ log'[i].sid = r.sid /\ log'[i].turn = r.last
  BY DEF RowEnds
<1> DEFINE t == SessionTurn(n, ok)
           L == Len(log)
<1>1. PICK new : Replaces(n, ok, a, sid, new)
  BY AddsRows
<1>2. /\ Len(log') = L + 1 /\ L \in Nat /\ \A i \in 1 .. L : log'[i] = log[i]
      /\ log'[L + 1] = [turn |-> n, ok |-> ok, sid |-> sid, kept |-> TRUE]
  BY AddsLogged
<1>3. t \in TurnArg /\ t.ok = ok /\ t.own = n /\ n \in Nat \ {0}
  BY TurnIs DEF ArchiveInv, Calls
<1>4. \A q \in archive.rows : \E i \in 1 .. L : Ends(i) /\ log[i].sid = q.sid /\ log[i].turn = q.last
  BY DEF ArchiveInv, RowEnds
<1> HIDE DEF t
\* What a row has ended in it still ends in, unless an answer has been added to it.
<1>5. ASSUME NEW i \in 1 .. L, Ends(i), ok => log[i].sid # sid PROVE Ends(i)'
  <2>1. i \in 1 .. Len(log') /\ log'[i] = log[i]
    BY <1>2
  <2>2. \A j \in i + 1 .. Len(log') : log'[j].kept /\ log'[j].ok => log'[j].sid # log[i].sid
    <3>1. ASSUME NEW j \in i + 1 .. Len(log'), log'[j].kept, log'[j].ok PROVE log'[j].sid # log[i].sid
      <4>1. CASE j \in i + 1 .. L
        BY <1>2, <1>5, <3>1, <4>1 DEF Ends
      <4>2. CASE j = L + 1
        BY <1>2, <1>5, <3>1, <4>2
      <4> QED BY <1>2, <4>1, <4>2
    <3> QED BY <3>1
  <2> QED BY <1>5, <2>1, <2>2 DEF Ends
<1>6. CASE r \in archive.rows /\ r.sid # sid
  <2>1. PICK i \in 1 .. L : Ends(i) /\ log[i].sid = r.sid /\ log[i].turn = r.last
    BY <1>4, <1>6
  <2> QED BY <1>2, <1>5, <1>6, <2>1
<1>7. CASE r = new /\ ok
  <2>1. r.last = n /\ r.sid = sid
    <3>1. CASE (\A q \in archive.rows : q.sid # sid) /\ new = First(a, sid, t)
      <4>1. a \in Archives /\ sid \in Sids
        BY DEF Joins, InOrder
      <4> QED BY <1>3, <1>7, <3>1, <4>1, FirstIs
    <3>2. CASE \E q \in archive.rows : q.sid = sid /\ new = Further(q, t)
      <4>1. PICK q \in archive.rows : q.sid = sid /\ new = Further(q, t)
        BY <3>2
      <4>2. q \in SessionRow
        BY DEF ArchiveInv, InOrder, Archives
      <4>3. t.ok /\ t.own # 0
        BY <1>3, <1>7
      <4>4. new.last = n
        BY <1>3, <4>1, <4>2, <4>3, FurtherIs
      <4> QED BY <1>1, <1>7, <4>4 DEF Replaces
    <3> QED BY <1>1, <3>1, <3>2 DEF Replaces, t
  <2>2. PICK i \in 1 .. Len(log') : i = L + 1
    BY <1>2
  <2>3. Ends(i)'
    BY <1>2, <1>7, <2>2 DEF Ends
  <2> QED BY <1>2, <2>1, <2>2, <2>3
<1>8. CASE r = new /\ ~ok
  <2>1. PICK q \in archive.rows : q.sid = sid /\ new = Further(q, t)
    BY <1>1, <1>8 DEF Replaces, t
  <2>2. q \in SessionRow
    BY DEF ArchiveInv, InOrder, Archives
  <2>3. r.last = q.last /\ r.sid = q.sid
    BY <1>3, <1>8, <2>1, <2>2, FurtherIs
  <2>4. PICK i \in 1 .. L : Ends(i) /\ log[i].sid = q.sid /\ log[i].turn = q.last
    BY <1>4
  <2> QED BY <1>2, <1>5, <1>8, <2>3, <2>4
<1> QED BY <1>1, <1>6, <1>7, <1>8 DEF Replaces

\* The log forgets that turns of some sessions were kept.
Forgets(sids) ==
  /\ log \in Seq(Entry) /\ log' \in Seq(Entry) /\ Len(log') = Len(log) /\ Len(log) \in Nat
  /\ \A i \in 1 .. Len(log) :
       /\ log'[i].turn = log[i].turn /\ log'[i].ok = log[i].ok /\ log'[i].sid = log[i].sid
       /\ log'[i].kept = (log[i].kept /\ log[i].sid \notin sids)

LEMMA EntryForgets ==
  ASSUME NEW e \in Entry, NEW sids, NEW f, f = [e EXCEPT !.kept = @ /\ e.sid \notin sids]
  PROVE  /\ f \in Entry /\ f.turn = e.turn /\ f.ok = e.ok /\ f.sid = e.sid
         /\ f.kept = (e.kept /\ e.sid \notin sids)
<1>1. CASE e.kept /\ e.sid \notin sids
  <2>1. f = [e EXCEPT !.kept = TRUE]
    BY <1>1
  <2> QED BY <1>1, <2>1 DEF Entry
<1>2. CASE ~(e.kept /\ e.sid \notin sids)
  <2>1. f = [e EXCEPT !.kept = FALSE]
    BY <1>2
  <2> QED BY <1>2, <2>1 DEF Entry
<1> QED BY <1>1, <1>2

LEMMA LogForgets ==
  ASSUME ArchiveInv, NEW sids, log' = [i \in DOMAIN log |-> [log[i] EXCEPT !.kept = @ /\ log[i].sid \notin sids]]
  PROVE  Forgets(sids)
<1> DEFINE L == Len(log)
<1>1. log \in Seq(Entry) /\ DOMAIN log = 1 .. L /\ L \in Nat
  BY DEF ArchiveInv, Logged
<1>2. ASSUME NEW i \in 1 .. L
      PROVE  /\ log'[i] \in Entry
             /\ log'[i].turn = log[i].turn /\ log'[i].ok = log[i].ok /\ log'[i].sid = log[i].sid
             /\ log'[i].kept = (log[i].kept /\ log[i].sid \notin sids)
  <2> HIDE DEF Entry
  <2>1. log[i] \in Entry
    BY <1>1
  <2>2. log'[i] = [log[i] EXCEPT !.kept = @ /\ log[i].sid \notin sids]
    BY <1>1
  <2> QED BY ONLY <2>1, <2>2, EntryForgets
<1>3. log' = [i \in 1 .. L |-> log'[i]]
  BY <1>1
<1> HIDE DEF Entry
<1>4. log' \in [1 .. L -> Entry]
  BY <1>2, <1>3
<1>5. log' \in Seq(Entry) /\ Len(log') = L
  BY <1>1, <1>4
<1> QED BY <1>1, <1>2, <1>5 DEF Forgets

LEMMA DropKeeps ==
  ASSUME ArchiveInv, NEW g \in {"rec", "sess"}, NEW m \in {0, 1, 2}, Drop(g, m)
  PROVE  ArchiveInv'
<1> DEFINE gone == IF g = "sess" THEN RowsIn(archive, m) ELSE {}
           sids == {r.sid : r \in gone}
           R == archive.rows \ gone
           recs == IF g = "rec" THEN {r \in archive.recs : r.table # m} ELSE archive.recs
           T == [archive.tables EXCEPT ![g] = @ \ {m}]
<1>1. /\ archive' = [archive EXCEPT !.tables = T, !.rows = R, !.recs = recs]
      /\ log' = [i \in DOMAIN log |-> [log[i] EXCEPT !.kept = @ /\ log[i].sid \notin sids]]
      /\ merged' = [s \in DOMAIN merged \ sids |-> merged[s]]
      /\ month' = month /\ client' = client /\ mine' = mine /\ calls' = calls
  BY DEF Drop
<1>2. archive \in Archives /\ Rooted(archive) /\ Single(archive)
  BY DEF ArchiveInv, InOrder
<1>3. T \in Tables /\ (g # "sess" => T["sess"] = archive.tables["sess"])
      /\ (g = "sess" => T["sess"] = archive.tables["sess"] \ {m})
  <2>1. archive.tables \in Tables
    BY <1>2 DEF Archives
  <2> QED BY <2>1 DEF Tables
<1>4. gone \subseteq archive.rows /\ \A r \in R : g = "sess" => r.table # m
  BY DEF RowsIn
<1>5. recs \in SUBSET RecordRow /\ R \in SUBSET SessionRow
  BY <1>2 DEF Archives
<1>6. {r.sid : r \in R} = {r.sid : r \in archive.rows} \ sids
  BY <1>2, <1>4 DEF Single
<1> HIDE DEF gone, R, recs, T
<1>7. archive' \in Archives /\ archive'.rows = R /\ archive'.tables = T /\ archive'.known = archive.known
      /\ archive'.nextRow = archive.nextRow
  BY <1>1, <1>2, <1>3, <1>5 DEF Archives
<1>8. InOrder(archive')
  <2>1. R \subseteq archive.rows
    BY DEF R
  <2>2. Rooted(archive')
    BY <1>2, <1>3, <1>4, <1>7, <2>1 DEF Rooted
  <2>3. Single(archive')
    BY <1>2, <1>7, <2>1 DEF Single
  <2> QED BY <1>7, <2>2, <2>3 DEF InOrder
<1>9. Requested' /\ Answers'
  BY <1>1 DEF ArchiveInv, Requested, Answers, Calls, Out
<1>10. Filed'
  BY <1>1, <1>6, <1>7 DEF ArchiveInv, Filed, Calls
<1> DEFINE L == Len(log)
<1>11. /\ log \in Seq(Entry) /\ log' \in Seq(Entry) /\ Len(log') = L /\ L \in Nat
       /\ \A i \in 1 .. L : /\ log'[i].turn = log[i].turn /\ log'[i].ok = log[i].ok /\ log'[i].sid = log[i].sid
                            /\ log'[i].kept = (log[i].kept /\ log[i].sid \notin sids)
  <2> HIDE DEF sids
  <2>1. Forgets(sids)
    BY <1>1, LogForgets
  <2> QED BY <2>1 DEF Forgets
<1>12. \A r \in archive.rows : r.sid \notin sids => r \in R
  BY DEF R
<1> HIDE DEF sids, L
<1>13. Logged'
  <2>1. \A i \in 1 .. L : log'[i].turn \in Calls' /\ (log'[i].ok => calls'[log'[i].turn].pc = "archived")
    BY <1>1, <1>11 DEF ArchiveInv, Logged, Calls, L
  <2>2. \A i \in 1 .. L : log'[i].kept => \E r \in archive'.rows : r.sid = log'[i].sid
    <3>1. ASSUME NEW i \in 1 .. L, log'[i].kept PROVE \E r \in archive'.rows : r.sid = log'[i].sid
      <4>1. log[i].kept /\ log[i].sid \notin sids /\ log'[i].sid = log[i].sid
        BY <1>11, <3>1
      <4>2. PICK r \in archive.rows : r.sid = log[i].sid
        BY <4>1 DEF ArchiveInv, Logged, L
      <4> QED BY <1>7, <1>12, <4>1, <4>2
    <3> QED BY <3>1
  <2>3. \A i, j \in 1 .. L : log'[i].ok /\ log'[j].ok /\ log'[i].turn = log'[j].turn => i = j
    BY <1>11 DEF ArchiveInv, Logged, L
  <2> QED BY <1>11, <2>1, <2>2, <2>3 DEF Logged
<1>14. RowEnds'
  <2> SUFFICES ASSUME client = "chain", NEW r \in R
               PROVE  \E i \in 1 .. L : Ends(i)' /\ log'[i].sid = r.sid /\ log'[i].turn = r.last
    BY <1>1, <1>7, <1>11 DEF RowEnds
  <2>1. PICK i \in 1 .. L : Ends(i) /\ log[i].sid = r.sid /\ log[i].turn = r.last
    BY DEF R, ArchiveInv, RowEnds, L
  <2>2. r.sid \notin sids
    BY <1>6
  <2>3. log'[i].kept /\ log'[i].ok
    BY <1>11, <2>1, <2>2 DEF Ends
  <2>4. ASSUME NEW j \in i + 1 .. L, log'[j].kept, log'[j].ok PROVE log'[j].sid # log'[i].sid
    <3>1. j \in 1 .. L
      BY <1>11
    <3>2. log[j].kept /\ log[j].ok /\ log'[j].sid = log[j].sid /\ log'[i].sid = log[i].sid
      BY <1>11, <2>4, <3>1
    <3> QED BY <2>1, <3>2 DEF Ends, L
  <2>5. Ends(i)'
    BY <1>11, <2>3, <2>4 DEF Ends
  <2> QED BY <1>11, <2>1, <2>5
<1> QED BY <1>8, <1>9, <1>10, <1>13, <1>14 DEF ArchiveInv

LEMMA FinishKeeps ==
  ASSUME ArchiveInv, NEW n \in Calls, NEW ok \in BOOLEAN, Finish(n, ok), Begun', Onwards, client' = client,
         ok => calls[n].pc # "archived" /\ calls'[n].pc = "archived"
  PROVE  ArchiveInv'
<1>1. CASE Idle
  <2>1. Filed' /\ Logged' /\ RowEnds'
    BY <1>1, QuietKeeps DEF Idle
  <2> QED BY <1>1, <2>1 DEF Idle, ArchiveInv, Begun
<1>2. CASE \E a, sid : Joins(n, ok, a, sid)
  <2>1. PICK a, sid : Joins(n, ok, a, sid)
    BY <1>2
  <2>2. Filed' /\ Logged' /\ RowEnds'
    BY <2>1, AddsFiled, AddsLogged, AddsEnded
  <2> QED BY <2>1, <2>2 DEF Joins, ArchiveInv, Begun
<1> QED BY <1>1, <1>2, FinishIs

LEMMA ArchivesTurn ==
  ASSUME ArchiveInv, NEW n \in Calls, ArchiveTurn(n)
  PROVE  calls[n].pc # "archived" /\ calls'[n].pc = "archived" /\ Finish(n, TRUE) /\ client' = client
<1>1. calls \in Seq(Call) /\ n \in 1 .. Len(calls)
  BY DEF ArchiveInv, Requested, Calls
<1>2. /\ calls[n].pc = "answered" /\ calls' = [calls EXCEPT ![n] = [@ EXCEPT !.pc = "archived"]]
      /\ Finish(n, TRUE) /\ client' = client
  BY DEF ArchiveTurn
<1>3. calls'[n].pc = "archived"
  <2> DEFINE c == calls[n]
             d == [c EXCEPT !.pc = "archived"]
  <2>1. c \in Call
    <3> HIDE DEF Call
    <3> QED BY <1>1
  <2>2. d.pc = "archived"
    <3> HIDE DEF c
    <3> QED BY <2>1 DEF Call
  <2>3. calls' = [calls EXCEPT ![n] = d]
    BY <1>2
  <2> HIDE DEF d, Call
  <2> QED BY <1>1, <2>2, <2>3
<1> QED BY <1>2, <1>3

LEMMA StepKeeps ==
  ASSUME ArchiveInv, ArchiveNext PROVE ArchiveInv'
<1> Begun /\ InOrder(archive) /\ month \in {1, 2}
  BY DEF ArchiveInv, Begun, Requested
<1>0. ASSUME Begun', Onwards, archive'.rows = archive.rows, InOrder(archive'), log' = log, merged' = merged,
             client' = client
      PROVE  ArchiveInv'
  <2>1. Filed' /\ Logged' /\ RowEnds'
    BY <1>0, QuietKeeps
  <2> QED BY <1>0, <2>1 DEF ArchiveInv, Begun
<1>1. CASE Say \/ Retry \/ Compact
  <2>1. archive' = archive /\ log' = log /\ merged' = merged /\ client' = client
    BY <1>1 DEF Say, Retry, Compact, Send
  <2>2. Begun' /\ Onwards
    BY <1>1, SaysGoOn
  <2> QED BY <1>0, <2>1, <2>2
<1>2. ASSUME NEW n \in Calls, CandidateFails(n) PROVE ArchiveInv'
  <2>1. Begun' /\ Onwards
    BY <1>2, CallsGoOn
  <2>2. Finish(n, FALSE) /\ client' = client
    BY <1>2 DEF CandidateFails
  <2> QED BY <2>1, <2>2, FinishKeeps
<1>3. ASSUME NEW n \in Calls, AnswerTurn(n) PROVE ArchiveInv'
  <2>1. archive' = archive /\ log' = log /\ merged' = merged /\ client' = client
    BY <1>3 DEF AnswerTurn
  <2>2. Begun' /\ Onwards
    BY <1>3, CallsGoOn
  <2> QED BY <1>0, <2>1, <2>2
<1>4. ASSUME NEW n \in Calls, ArchiveTurn(n) PROVE ArchiveInv'
  <2>1. Begun' /\ Onwards
    BY <1>4, CallsGoOn
  <2> QED BY <1>4, <2>1, ArchivesTurn, FinishKeeps
<1>5. CASE NewMonth
  <2>1. archive' = archive /\ log' = log /\ merged' = merged /\ client' = client
    BY <1>5 DEF NewMonth
  <2>2. Begun' /\ Onwards
    BY <1>5, StaysOn DEF NewMonth
  <2> QED BY <1>0, <2>1, <2>2
<1>6. CASE ProcessDies
  <2>1. archive' = Boot(archive) /\ log' = log /\ merged' = merged /\ client' = client
    BY <1>6 DEF ProcessDies
  <2>2. InOrder(archive') /\ archive'.rows = archive.rows
    <3>1. InOrder(Boot(archive)) /\ Boot(archive).rows = archive.rows
      BY BootInOrder
    <3> QED BY <2>1, <3>1
  <2>3. Begun' /\ Onwards
    BY <1>6, CrashGoesOn
  <2> QED BY <1>0, <2>1, <2>2, <2>3
<1>7. ASSUME NEW g \in {"rec", "sess"}, NEW m \in {0, 1, 2}, Drop(g, m) PROVE ArchiveInv'
  BY <1>7, DropKeeps
<1> QED BY <1>1, <1>2, <1>3, <1>4, <1>5, <1>6, <1>7 DEF ArchiveNext, Groups, Months, Base

LEMMA StutterKeeps ==
  ASSUME ArchiveInv, UNCHANGED archiveVars PROVE ArchiveInv'
<1>1. /\ month' = month /\ client' = client /\ mine' = mine /\ calls' = calls /\ archive' = archive
      /\ log' = log /\ merged' = merged
  BY DEF archiveVars
<1>2. Begun' /\ Onwards
  BY <1>1, StaysOn DEF ArchiveInv, Begun, Requested
<1>3. Filed' /\ Logged' /\ RowEnds'
  BY <1>1, <1>2, QuietKeeps
<1> QED BY <1>1, <1>2, <1>3 DEF ArchiveInv, Begun

LEMMA InitKept == ArchiveInit => ArchiveInv
<1> SUFFICES ASSUME ArchiveInit PROVE ArchiveInv
  OBVIOUS
<1>1. month = 1 /\ mine = <<>> /\ calls = <<>> /\ log = <<>> /\ merged = <<>>
  BY DEF ArchiveInit
<1>2. InOrder(archive) /\ archive.rows = {}
  <2>1. PICK a \in {Empty, Older} : archive = Boot(a)
    BY DEF ArchiveInit
  <2>2. Empty.rows = {} /\ Older.rows = {}
    BY DEF Empty, Older
  <2>3. InOrder(Boot(a)) /\ Boot(a).rows = a.rows
    BY <1>1, <2>1, BootInOrder
  <2> QED BY <2>1, <2>2, <2>3
<1>3. Requested /\ Answers
  BY <1>1 DEF Requested, Answers, Calls
<1>4. Filed
  BY <1>1, <1>2 DEF Filed
<1>5. Logged /\ RowEnds
  BY <1>1, <1>2 DEF Logged, RowEnds
<1> QED BY <1>2, <1>3, <1>4, <1>5 DEF ArchiveInv

\* What the argument rests on: rows in tables there are, a session's in one row, the log and the
\* turns behind each row, which have all been archived, and for a chain its last response.
THEOREM ArchiveInvAlways == ArchiveSpec => []ArchiveInv
<1>1. ArchiveInv /\ [ArchiveNext]_archiveVars => ArchiveInv'
  BY StepKeeps, StutterKeeps
<1> QED BY <1>1, InitKept, PTL DEF ArchiveSpec

\* A session has one row, whatever months, failed writes, dropped tables and crashes come.
THEOREM OneRowAlways == ArchiveSpec => []OneRow
<1>1. ArchiveInv => OneRow
  BY DEF ArchiveInv, InOrder, Single, OneRow
<1> QED BY <1>1, ArchiveInvAlways, PTL

-----------------------------------------------------------------------------
(* A chain stays in its row. *)

\* Turn k of the log goes on from turn i, with which its row has ended.
GoesOn(i, k) ==
  /\ i < k /\ log[i].kept /\ log[i].ok /\ log[k].kept /\ client = "chain"
  /\ calls[log[k].turn].prev = log[i].turn
  /\ \A j \in i + 1 .. k - 1 : log[j].kept /\ log[j].ok => log[j].sid # log[i].sid
Chains == \A i, k \in 1 .. Len(log) : GoesOn(i, k) => log[k].sid = log[i].sid

LEMMA ChainsIs == ASSUME Logged PROVE ChainTogether <=> Chains
<1>1. DOMAIN log = 1 .. Len(log)
  BY DEF Logged
<1> QED BY <1>1 DEF ChainTogether, Chains, GoesOn

LEMMA QuietChains ==
  ASSUME ArchiveInv, Chains, Onwards, log' = log, client' = client PROVE Chains'
<1>1. ASSUME NEW i \in 1 .. Len(log), NEW k \in 1 .. Len(log), GoesOn(i, k)' PROVE GoesOn(i, k)
  <2>1. log[k].turn \in 1 .. Len(calls)
    BY DEF ArchiveInv, Logged, Calls
  <2>2. calls'[log[k].turn].prev = calls[log[k].turn].prev
    BY <2>1 DEF Onwards
  <2> QED BY <1>1, <2>2 DEF GoesOn
<1> QED BY <1>1 DEF Chains

LEMMA JoinChains ==
  ASSUME ArchiveInv, Chains, NEW n \in Calls, NEW ok \in BOOLEAN, NEW a, NEW sid, Joins(n, ok, a, sid), Onwards,
         ok => calls[n].pc # "archived" /\ calls'[n].pc = "archived", client' = client
  PROVE  Chains'
<1> DEFINE t == SessionTurn(n, ok)
           L == Len(log)
<1>1. /\ Len(log') = L + 1 /\ L \in Nat /\ \A i \in 1 .. L : log'[i] = log[i]
      /\ log'[L + 1] = [turn |-> n, ok |-> ok, sid |-> sid, kept |-> TRUE]
  BY AddsLogged
<1> SUFFICES ASSUME NEW i \in 1 .. Len(log'), NEW k \in 1 .. Len(log'), GoesOn(i, k)'
             PROVE  log'[k].sid = log'[i].sid
  BY DEF Chains
<1>2. /\ i < k /\ log'[i].kept /\ log'[i].ok /\ log'[k].kept /\ client = "chain"
      /\ calls'[log'[k].turn].prev = log'[i].turn
      /\ \A j \in i + 1 .. k - 1 : log'[j].kept /\ log'[j].ok => log'[j].sid # log'[i].sid
  BY DEF GoesOn
<1>3. i \in 1 .. L /\ log'[i] = log[i]
  BY <1>1, <1>2
<1>4. CASE k \in 1 .. L
  <2>1. log'[k] = log[k] /\ log[k].turn \in 1 .. Len(calls)
    BY <1>1, <1>4 DEF ArchiveInv, Logged, Calls
  <2>2. calls'[log[k].turn].prev = calls[log[k].turn].prev
    BY <2>1 DEF Onwards
  <2>3. \A j \in i + 1 .. k - 1 : log'[j] = log[j]
    BY <1>1, <1>3, <1>4
  <2>4. GoesOn(i, k)
    BY <1>2, <1>3, <2>1, <2>2, <2>3 DEF GoesOn
  <2> QED BY <1>3, <1>4, <2>1, <2>4 DEF Chains
<1>5. CASE k = L + 1
  <2>1. log'[k].turn = n /\ log'[k].sid = sid
    BY <1>1, <1>5
  <2>2. calls[n].prev = log[i].turn /\ log[i].turn \in Nat \ {0}
    <3>1. calls'[n].prev = calls[n].prev
      BY DEF Onwards, Calls
    <3>2. log[i].turn \in Nat \ {0}
      BY <1>3 DEF ArchiveInv, Logged, Calls
    <3> QED BY <1>2, <1>3, <2>1, <3>1, <3>2
  \* What the turn goes on from is what its row has ended in.
  <2>3. Ends(i)
    <3>1. ASSUME NEW j \in i + 1 .. L, log[j].kept, log[j].ok PROVE log[j].sid # log[i].sid
      <4>1. j \in i + 1 .. k - 1 /\ log'[j] = log[j]
        BY <1>1, <1>3, <1>5
      <4> QED BY <1>2, <1>3, <3>1, <4>1
    <3> QED BY <1>2, <1>3, <3>1 DEF Ends
  <2>4. PICK r \in archive.rows : r.sid = log[i].sid
    BY <1>2, <1>3 DEF ArchiveInv, Logged
  <2>5. \A q \in archive.rows : \E j \in 1 .. L : Ends(j) /\ log[j].sid = q.sid /\ log[j].turn = q.last
    BY <1>2 DEF ArchiveInv, RowEnds
  <2>6. r.last = log[i].turn
    <3>1. PICK j \in 1 .. L : Ends(j) /\ log[j].sid = r.sid /\ log[j].turn = r.last
      BY <2>5
    <3>2. i = j
      <4>1. ~(j \in i + 1 .. L) /\ ~(i \in j + 1 .. L)
        BY <2>3, <2>4, <3>1 DEF Ends
      <4> QED BY <1>1, <1>3, <3>1, <4>1
    <3> QED BY <3>1, <3>2
  \* Only this row has ended in it.
  <2>7. ASSUME NEW q \in archive.rows, q.last = log[i].turn PROVE q.sid = log[i].sid
    <3>1. PICK j \in 1 .. L : Ends(j) /\ log[j].sid = q.sid /\ log[j].turn = q.last
      BY <2>5
    <3>2. log[i].ok /\ log[j].ok /\ log[i].turn = log[j].turn
      BY <1>2, <1>3, <2>7, <3>1 DEF Ends
    <3>3. i = j
      BY <1>3, <3>2 DEF ArchiveInv, Logged
    <3> QED BY <3>1, <3>3
  <2>8. t \in TurnArg /\ t.sid = 0 /\ t.prev = log[i].turn
    BY <1>2, <2>2, TurnIs DEF ArchiveInv
  <2>9. InOrder(a) /\ a.rows = archive.rows /\ sid = SessionOf(a, t) /\ Merges(a, t)
    BY DEF Joins
  <2> HIDE DEF t
  <2>10. PICK q \in archive.rows : q.last = t.prev /\ sid = q.sid
    <3>1. t.prev # 0 /\ \E q \in a.rows : q.last = t.prev
      BY <2>2, <2>4, <2>6, <2>8, <2>9
    <3>2. \E q \in a.rows : q.last = t.prev /\ SessionOf(a, t) = q.sid
      BY <2>8, <2>9, <3>1, SessionIs
    <3> QED BY <2>9, <3>2
  <2> QED BY <1>3, <2>1, <2>7, <2>8, <2>10
<1> QED BY <1>1, <1>4, <1>5

LEMMA DropChains ==
  ASSUME ArchiveInv, Chains, NEW g \in {"rec", "sess"}, NEW m \in {0, 1, 2}, Drop(g, m)
  PROVE  Chains'
<1> DEFINE gone == IF g = "sess" THEN RowsIn(archive, m) ELSE {}
           sids == {r.sid : r \in gone}
<1>1. /\ log' = [i \in DOMAIN log |-> [log[i] EXCEPT !.kept = @ /\ log[i].sid \notin sids]]
      /\ client' = client /\ calls' = calls
  BY DEF Drop
<1> HIDE DEF sids
<1>2. Forgets(sids)
  BY <1>1, LogForgets
<1>3. ASSUME NEW i \in 1 .. Len(log), NEW k \in 1 .. Len(log), GoesOn(i, k)' PROVE GoesOn(i, k)
  <2>1. /\ i < k /\ log'[i].kept /\ log'[i].ok /\ log'[k].kept /\ client = "chain"
        /\ calls[log'[k].turn].prev = log'[i].turn
        /\ \A j \in i + 1 .. k - 1 : log'[j].kept /\ log'[j].ok => log'[j].sid # log'[i].sid
    BY <1>1, <1>3 DEF GoesOn
  <2>2. log[i].sid \notin sids /\ log[i].kept /\ log[i].ok /\ log[k].kept /\ log'[i].sid = log[i].sid
        /\ log'[i].turn = log[i].turn /\ log'[k].turn = log[k].turn
    BY <1>2, <2>1 DEF Forgets
  <2>3. ASSUME NEW j \in i + 1 .. k - 1, log[j].kept, log[j].ok PROVE log[j].sid # log[i].sid
    <3>1. j \in 1 .. Len(log)
      BY <1>2 DEF Forgets
    <3>2. CASE log[j].sid \in sids
      BY <2>2, <3>2
    <3>3. CASE log[j].sid \notin sids
      <4>1. log'[j].kept /\ log'[j].ok /\ log'[j].sid = log[j].sid
        BY <1>2, <2>3, <3>1, <3>3 DEF Forgets
      <4> QED BY <2>1, <2>2, <4>1
    <3> QED BY <3>2, <3>3
  <2> QED BY <2>1, <2>2, <2>3 DEF GoesOn
<1> QED BY <1>2, <1>3 DEF Chains, Forgets

\* The closure of a turn merges it; a turn that was answered is archived once.
Arrives(n, ok, a, sid) ==
  /\ Joins(n, ok, a, sid)
  /\ ok => calls[n].pc # "archived" /\ calls'[n].pc = "archived" /\ calls'[n].answer = calls[n].answer

\* Every step goes on from the calls there were, and merges a turn, drops a table or leaves the
\* rows alone.
LEMMA StepIs ==
  ASSUME ArchiveInv, ArchiveNext
  PROVE  /\ Onwards /\ client' = client
         /\ \/ archive'.rows = archive.rows /\ log' = log /\ merged' = merged
            \/ \E g \in {"rec", "sess"}, m \in {0, 1, 2} : Drop(g, m)
            \/ \E n \in Calls, ok \in BOOLEAN : \E a, sid : Arrives(n, ok, a, sid)
<1> Begun /\ InOrder(archive) /\ month \in {1, 2}
  BY DEF ArchiveInv, Begun, Requested
<1>1. CASE Say \/ Retry \/ Compact
  <2>1. archive' = archive /\ log' = log /\ merged' = merged /\ client' = client
    BY <1>1 DEF Say, Retry, Compact, Send
  <2> QED BY <1>1, <2>1, SaysGoOn
<1>2. ASSUME NEW n \in Calls, CandidateFails(n)
      PROVE  /\ Onwards /\ client' = client
             /\ Idle \/ \E a, sid : Joins(n, FALSE, a, sid)
  <2>1. Finish(n, FALSE) /\ client' = client
    BY <1>2 DEF CandidateFails
  <2> QED BY <1>2, <2>1, CallsGoOn, FinishIs
<1>3. ASSUME NEW n \in Calls, AnswerTurn(n)
      PROVE  Onwards /\ archive' = archive /\ log' = log /\ merged' = merged /\ client' = client
  <2>1. archive' = archive /\ log' = log /\ merged' = merged /\ client' = client
    BY <1>3 DEF AnswerTurn
  <2> QED BY <1>3, <2>1, CallsGoOn
<1>4. ASSUME NEW n \in Calls, ArchiveTurn(n)
      PROVE  /\ Onwards /\ client' = client
             /\ Idle \/ \E a, sid : Joins(n, TRUE, a, sid)
             /\ calls[n].pc # "archived" /\ calls'[n].pc = "archived" /\ calls'[n].answer = calls[n].answer
  <2>1. calls[n].pc # "archived" /\ calls'[n].pc = "archived" /\ Finish(n, TRUE) /\ client' = client
    BY <1>4, ArchivesTurn
  <2>2. calls'[n].answer = calls[n].answer
    <3> DEFINE c == calls[n]
               d == [c EXCEPT !.pc = "archived"]
    <3>1. calls \in Seq(Call) /\ n \in 1 .. Len(calls) /\ calls' = [calls EXCEPT ![n] = d]
      BY <1>4 DEF ArchiveInv, Requested, Calls, ArchiveTurn
    <3>2. c \in Call
      <4> HIDE DEF Call
      <4> QED BY <3>1
    <3>3. d.answer = c.answer
      <4> HIDE DEF c
      <4> QED BY <3>2 DEF Call
    <3> HIDE DEF d, Call
    <3> QED BY <3>1, <3>3
  <2>3. Idle \/ \E a, sid : Joins(n, TRUE, a, sid)
    BY <2>1, FinishIs
  <2>4. Onwards
    BY <1>4, CallsGoOn
  <2> QED BY <2>1, <2>2, <2>3, <2>4
<1>5. CASE NewMonth
  <2>1. /\ archive' = archive /\ log' = log /\ merged' = merged /\ client' = client
        /\ calls' = calls /\ mine' = mine /\ month' \in {1, 2}
    BY <1>5 DEF NewMonth
  <2> QED BY <2>1, StaysOn
<1>6. CASE ProcessDies
  <2>1. archive' = Boot(archive) /\ log' = log /\ merged' = merged /\ client' = client
    BY <1>6 DEF ProcessDies
  <2>2. Boot(archive).rows = archive.rows
    BY BootInOrder
  <2>3. Onwards
    BY <1>6, CrashGoesOn
  <2> QED BY <2>1, <2>2, <2>3
<1>7. ASSUME NEW g \in {"rec", "sess"}, NEW m \in {0, 1, 2}, Drop(g, m)
      PROVE  Onwards /\ client' = client
  <2>1. client' = client /\ calls' = calls /\ mine' = mine /\ month' = month
    BY <1>7 DEF Drop
  <2> QED BY <2>1, StaysOn
<1>8. CASE \E n \in Calls : CandidateFails(n)
  <2>1. PICK n \in Calls : CandidateFails(n)
    BY <1>8
  <2>2. FALSE \in BOOLEAN
    OBVIOUS
  <2> QED BY <1>2, <2>1, <2>2 DEF Idle, Arrives
<1>9. CASE \E n \in Calls : ArchiveTurn(n)
  <2>1. PICK n \in Calls : ArchiveTurn(n)
    BY <1>9
  <2>2. TRUE \in BOOLEAN
    OBVIOUS
  <2> QED BY <1>4, <2>1, <2>2 DEF Idle, Arrives
<1> QED BY <1>1, <1>3, <1>5, <1>6, <1>7, <1>8, <1>9 DEF ArchiveNext, Groups, Months, Base

LEMMA StepChains ==
  ASSUME ArchiveInv, Chains, ArchiveNext PROVE Chains'
<1>1. Onwards /\ client' = client
  BY StepIs
<1>2. CASE log' = log
  BY <1>1, <1>2, QuietChains
<1>3. CASE \E g \in {"rec", "sess"}, m \in {0, 1, 2} : Drop(g, m)
  BY <1>3, DropChains
<1>4. CASE \E n \in Calls, ok \in BOOLEAN : \E a, sid : Arrives(n, ok, a, sid)
  <2>1. PICK n \in Calls, ok \in BOOLEAN : \E a, sid : Arrives(n, ok, a, sid)
    BY <1>4
  <2>2. PICK a, sid : Arrives(n, ok, a, sid)
    BY <2>1
  <2> QED BY <1>1, <2>2, JoinChains DEF Arrives
<1> QED BY <1>2, <1>3, <1>4, StepIs

\* A turn that goes on from a response with which a row has ended is merged into that row, since
\* the search by last response finds no other.
THEOREM ChainTogetherAlways == ArchiveSpec => []ChainTogether
<1>1. ArchiveInit => ArchiveInv /\ Chains
  <2>1. ArchiveInit => Chains
    BY DEF ArchiveInit, Chains
  <2> QED BY <2>1, InitKept
<1>2. ArchiveInv /\ Chains /\ [ArchiveNext]_archiveVars => ArchiveInv' /\ Chains'
  <2> SUFFICES ASSUME ArchiveInv, Chains, [ArchiveNext]_archiveVars PROVE ArchiveInv' /\ Chains'
    OBVIOUS
  <2>1. CASE ArchiveNext
    BY <2>1, StepKeeps, StepChains
  <2>2. CASE UNCHANGED archiveVars
    <3>1. log' = log /\ client' = client /\ calls' = calls /\ mine' = mine /\ month' = month
      BY <2>2 DEF archiveVars
    <3>2. Onwards
      BY <3>1, StaysOn DEF ArchiveInv, Begun, Requested
    <3> QED BY <2>2, <3>1, <3>2, StutterKeeps, QuietChains
  <2> QED BY <2>1, <2>2
<1>3. ArchiveInv /\ Chains => ChainTogether
  BY ChainsIs DEF ArchiveInv
<1> QED BY <1>1, <1>2, <1>3, PTL DEF ArchiveSpec

-----------------------------------------------------------------------------
(* Rows hold their conversations. *)

LEMMA FlattenIs ==
  ASSUME NEW seqs, Len(seqs) \in Nat \ {0}
  PROVE  \E g : Flattens(seqs, Len(seqs), g) /\ FlattenSeq(seqs) = g[Len(seqs)]
<1> DEFINE f == CHOOSE g : Flattens(seqs, Len(seqs), g)
<1>1. FlattenSeq(seqs) = f[Len(seqs)]
  BY DEF FlattenSeq, Flattens
<1>2. \E g : Flattens(seqs, Len(seqs), g)
  <2> DEFINE n == Len(seqs)
  <2>1. n \in Nat
    OBVIOUS
  <2> HIDE DEF n
  <2>2. \E g : Flattens(seqs, n, g)
    BY <2>1, FlattensExist
  <2> QED BY <2>2 DEF n
<1>3. Flattens(seqs, Len(seqs), f)
  BY <1>2, Zenon
<1> HIDE DEF f
<1> QED BY <1>1, <1>3

LEMMA FlattenMore ==
  ASSUME NEW X, NEW seqs \in Seq(Seq(X)), NEW x \in Seq(X)
  PROVE  /\ FlattenSeq(seqs) \in Seq(X)
         /\ FlattenSeq(Append(seqs, x)) = FlattenSeq(seqs) \o x
<1> DEFINE n == Len(seqs)
           more == Append(seqs, x)
           C == Seq(X)
<1>1. /\ n \in Nat /\ Len(more) = n + 1 /\ more[n + 1] = x /\ x \in C
      /\ \A i \in 1 .. n : seqs[i] = more[i] /\ seqs[i] \in C
  <2> HIDE DEF C
  <2>1. seqs \in Seq(C) /\ x \in C
    BY DEF C
  <2> QED BY <2>1, AppendProperties
<1>2. PICK h : Flattens(more, n + 1, h) /\ FlattenSeq(more) = h[n + 1]
  <2> HIDE DEF more, n
  <2>1. Len(more) \in Nat \ {0}
    BY <1>1
  <2> QED BY <1>1, <2>1, FlattenIs
<1>3. h[n + 1] = IF n = 0 THEN x ELSE h[n] \o x
  <2> HIDE DEF more, n, C
  <2>1. n + 1 \in 1 .. n + 1 /\ (n + 1) - 1 = n /\ (n + 1 = 1 <=> n = 0)
    BY <1>1
  <2>2. h = [i \in 1 .. n + 1 |-> IF i = 1 THEN more[i] ELSE h[i - 1] \o more[i]]
    BY <1>2 DEF Flattens
  <2>3. h[n + 1] = IF n + 1 = 1 THEN more[n + 1] ELSE h[(n + 1) - 1] \o more[n + 1]
    BY <2>1, <2>2
  <2> QED BY <1>1, <2>1, <2>3
<1>4. CASE n = 0
  <2>1. FlattenSeq(seqs) = <<>>
    BY <1>4 DEF FlattenSeq
  <2> QED BY <1>2, <1>3, <1>4, <2>1
<1>5. CASE n # 0
  <2>1. PICK f : Flattens(seqs, n, f) /\ FlattenSeq(seqs) = f[n]
    BY <1>1, <1>5, FlattenIs
  <2> HIDE DEF more, n, C
  <2>2. n \in Nat /\ n + 1 \in Nat /\ n <= n + 1 /\ n \in 1 .. n /\ \A i \in 1 .. n : seqs[i] = more[i]
    BY <1>1, <1>5
  <2>3. f[n] = h[n]
    <3> DEFINE k == n + 1
    <3>1. k \in Nat /\ n <= k /\ Flattens(more, k, h)
      BY <1>2, <2>2
    <3> HIDE DEF k
    <3>2. Alongside(seqs, n, f, more, k, h)
      BY <2>1, <2>2, <3>1 DEF Alongside
    <3>3. \A i \in 1 .. n : f[i] = h[i]
      BY <2>2, <3>1, <3>2, FlattensAgree
    <3> QED BY <2>2, <3>3
  <2>4. f[n] \in C
    <3>1. \A q, r \in C : q \o r \in C
      BY DEF C
    <3>2. \A i \in 1 .. n : f[i] \in C
      BY <1>1, <2>1, <2>2, <3>1, FlattensIn
    <3> QED BY <2>2, <3>2
  <2>5. FlattenSeq(more) = f[n] \o x
    BY <1>2, <1>3, <1>5, <2>3
  <2> QED BY <2>1, <2>4, <2>5 DEF more, C
<1> QED BY <1>4, <1>5

LEMMA TextsAssociative ==
  ASSUME NEW q \in Seq(Texts), NEW r \in Seq(Texts), NEW u \in Seq(Texts)
  PROVE  (q \o r) \o u = q \o (r \o u)
BY ConcatAssociative

\* A turn t adds what makes a whole of what there is, and it is not too much.
Fits(q, k, t, added, whole) ==
  /\ q \in Seq(Texts) /\ t \in TurnArg /\ k = Len(q)
  /\ added = Additions(k, t) /\ added.msgs \in Seq(Texts) /\ added.count = Len(q \o added.msgs)
  /\ whole = (q \o added.msgs) \o t.answer /\ Len(whole) <= Cap

LEMMA MergeFits ==
  ASSUME Cap \in Nat, NEW q, NEW k, NEW t, NEW added, NEW whole, Fits(q, k, t, added, whole)
  PROVE  Merge(q, k, t).msgs = whole /\ Merge(q, k, t).count = Len(whole)
<1> USE DEF Fits
<1> DEFINE more == added.msgs \o t.answer
           fits == more # <<>> /\ Len(q) <= Cap /\ Len(q) + Len(more) <= Cap
           m == Merge(q, k, t)
<1>1. t.answer \in Seq(Texts)
  BY DEF TurnArg
<1> HIDE DEF Texts
<1>2. m = [msgs |-> IF fits THEN q \o more ELSE q, count |-> added.count + Len(t.answer)]
  BY DEF Merge
<1>3. more \in Seq(Texts) /\ q \o more = whole
  <2> DEFINE r == added.msgs
             u == t.answer
  <2>1. r \in Seq(Texts) /\ u \in Seq(Texts) /\ whole = (q \o r) \o u /\ more = r \o u
    BY <1>1
  <2> HIDE DEF r, u, more
  <2>2. (q \o r) \o u = q \o (r \o u)
    BY ONLY <2>1, TextsAssociative
  <2> QED BY <2>1, <2>2
<1>4. Len(whole) = Len(q) + Len(more) /\ Len(q) \in Nat /\ Len(more) \in Nat
  <2> HIDE DEF more
  <2>1. Len(q \o more) = Len(q) + Len(more)
    BY <1>3, ConcatProperties
  <2>2. Len(q) \in Nat /\ Len(more) \in Nat
    BY <1>3
  <2> QED BY <1>3, <2>1, <2>2
<1>5. Len(whole) = added.count + Len(t.answer)
  <2> DEFINE p == q \o added.msgs
  <2>1. p \in Seq(Texts)
    OBVIOUS
  <2> HIDE DEF p
  <2>2. Len(p \o t.answer) = Len(p) + Len(t.answer)
    BY <1>1, <2>1
  <2> QED BY <2>2 DEF p
<1>6. more = <<>> => whole = q
  <2> HIDE DEF more
  <2>1. q \o <<>> = q
    OBVIOUS
  <2> QED BY <1>3, <2>1
<1> HIDE DEF more
<1>7. ~fits => whole = q
  <2>1. CASE more = <<>>
    BY <1>6, <2>1
  <2>2. CASE more # <<>>
    <3>1. Len(q) <= Cap /\ Len(q) + Len(more) <= Cap
      <4> DEFINE i == Len(q)
                 j == Len(more)
                 l == Len(whole)
      <4>1. i \in Nat /\ j \in Nat /\ l = i + j /\ l <= Cap
        BY <1>4
      <4> HIDE DEF i, j, l
      <4>2. i <= Cap /\ i + j <= Cap
        BY <4>1
      <4> QED BY <4>2 DEF i, j
    <3> QED BY <2>2, <3>1
  <2> QED BY <2>1, <2>2
<1> HIDE DEF fits, m
<1>8. m.msgs = whole /\ m.count = Len(whole)
  BY <1>2, <1>3, <1>5, <1>7
<1> QED BY <1>8 DEF m

\* Turns there are.
Of(s) == s \in Seq(Nat) /\ \A i \in 1 .. Len(s) : s[i] \in Calls

LEMMA PartIs ==
  ASSUME Requested, NEW n \in Calls
  PROVE  calls[n].sent \in Seq(Texts) /\ calls[n].answer \in Seq(Texts)
<1> DEFINE c == calls[n]
<1>1. c \in Call
  <2>1. calls \in Seq(Call) /\ n \in 1 .. Len(calls)
    BY DEF Requested, Calls
  <2> HIDE DEF Call
  <2> QED BY <2>1
<1> HIDE DEF c
<1>2. c.sent \in Seq(Texts) /\ c.answer \in Seq(Texts)
  BY <1>1 DEF Call
<1> QED BY <1>2 DEF c

\* With one turn more.
LEMMA ConversationMore ==
  ASSUME Requested, NEW s, Of(s), NEW n \in Calls, NEW whole, whole = calls[n].sent \o calls[n].answer
  PROVE  /\ Responses => /\ Conversation(s) \in Seq(Texts)
                         /\ Conversation(Append(s, n)) = Conversation(s) \o whole
         /\ ~Responses => Conversation(Append(s, n)) = whole
<1> DEFINE Part(k) == calls[k].sent \o calls[k].answer
           L == Len(s)
           more == Append(s, n)
           q == [i \in 1 .. L |-> Part(s[i])]
           r == [i \in 1 .. L + 1 |-> Part(more[i])]
<1>1. s \in Seq(Nat) /\ L \in Nat /\ n \in Nat
  BY DEF Of, Calls
<1>2. /\ DOMAIN s = 1 .. L /\ DOMAIN more = 1 .. L + 1 /\ Len(more) = L + 1 /\ more[L + 1] = n
      /\ \A i \in 1 .. L : more[i] = s[i]
  BY <1>1
<1>3. CASE Responses
  <2>1. Conversation(s) = FlattenSeq(q)
    BY <1>2, <1>3 DEF Conversation
  <2>2. Conversation(more) = FlattenSeq(r)
    BY <1>2, <1>3 DEF Conversation
  <2>3. \A k \in Calls : Part(k) \in Seq(Texts)
    <3> SUFFICES ASSUME NEW k \in Calls PROVE Part(k) \in Seq(Texts)
      OBVIOUS
    <3>1. calls[k].sent \in Seq(Texts) /\ calls[k].answer \in Seq(Texts)
      BY PartIs
    <3> HIDE DEF Texts
    <3> QED BY <3>1
  <2> DEFINE C == Seq(Texts)
  <2> HIDE DEF Part, C
  <2>4. q \in [1 .. L -> C] /\ Part(n) \in C
    BY <2>3 DEF Of, C
  <2>5. q \in Seq(C) /\ Len(q) = L
    BY <1>1, <2>4
  <2>6. r = Append(q, Part(n))
    <3>1. Append(q, Part(n)) = [i \in 1 .. L + 1 |-> IF i = L + 1 THEN Part(n) ELSE q[i]]
      <4> DEFINE a == Append(q, Part(n))
      <4>1. /\ a \in Seq(C) /\ Len(a) = L + 1 /\ a[L + 1] = Part(n) /\ \A i \in 1 .. L : a[i] = q[i]
        <5> HIDE DEF q
        <5> QED BY <2>4, <2>5, AppendProperties
      <4>2. a = [i \in 1 .. L + 1 |-> a[i]]
        <5> HIDE DEF a
        <5> QED BY <4>1
      <4>3. \A i \in 1 .. L + 1 : a[i] = IF i = L + 1 THEN Part(n) ELSE q[i]
        <5> HIDE DEF a, q
        <5> QED BY <1>1, <4>1
      <4> HIDE DEF a, q
      <4>4. a = [i \in 1 .. L + 1 |-> IF i = L + 1 THEN Part(n) ELSE q[i]]
        BY <4>2, <4>3
      <4> QED BY <4>4 DEF a
    <3>2. \A i \in 1 .. L + 1 : Part(more[i]) = IF i = L + 1 THEN Part(n) ELSE q[i]
      <4> HIDE DEF more
      <4> QED BY <1>1, <1>2
    <3> HIDE DEF q, more
    <3> QED BY <3>1, <3>2
  <2> HIDE DEF q, r, more
  <2>7. FlattenSeq(q) \in Seq(Texts) /\ FlattenSeq(r) = FlattenSeq(q) \o Part(n)
    BY <2>4, <2>5, <2>6, FlattenMore DEF C
  <2> QED BY <1>3, <2>1, <2>2, <2>7 DEF Part, more
<1>4. CASE ~Responses
  <2>1. Last(more) = n
    BY <1>2 DEF Last
  <2> HIDE DEF more
  <2>2. Conversation(more) = whole
    BY <1>4, <2>1 DEF Conversation
  <2> QED BY <1>4, <2>2 DEF more
<1> QED BY <1>3, <1>4

LEMMA RegularMore ==
  ASSUME NEW s, Of(s), NEW n \in Calls, Regular(Append(s, n))
  PROVE  /\ Regular(s)
         /\ ~Responses => ~calls[n].compact
         /\ ~Responses /\ s # <<>> =>
              IsPrefix(calls[Last(s)].sent \o <<Out(Last(s))>>, calls[n].sent)
<1> DEFINE L == Len(s)
           more == Append(s, n)
<1>1. s \in Seq(Nat) /\ L \in Nat /\ n \in Nat
  BY DEF Of, Calls
<1>2. /\ DOMAIN s = 1 .. L /\ DOMAIN more = 1 .. L + 1 /\ Len(more) = L + 1 /\ more[L + 1] = n
      /\ \A i \in 1 .. L : more[i] = s[i]
  BY <1>1
<1> HIDE DEF more, L
<1>3. Regular(more)
  BY DEF more
<1>4. CASE Responses
  <2>1. \A i \in 1 .. L + 1 : calls[more[i]].prev = IF i = 1 THEN 0 ELSE more[i - 1]
    BY <1>2, <1>3, <1>4 DEF Regular, Absent
  <2>2. \A i \in 1 .. L : calls[s[i]].prev = IF i = 1 THEN 0 ELSE s[i - 1]
    BY <1>1, <1>2, <2>1
  <2> QED BY <1>2, <1>4, <2>2 DEF Regular, Absent
<1>5. CASE ~Responses
  <2> DEFINE Goes(i, k) == IsPrefix(calls[i].sent \o <<Out(i)>>, calls[k].sent)
  <2>1. \A i \in 1 .. L + 1 : ~calls[more[i]].compact /\ (i > 1 => Goes(more[i - 1], more[i]))
    BY <1>2, <1>3, <1>5 DEF Regular
  <2> HIDE DEF Goes
  <2>2. \A i \in 1 .. L : ~calls[s[i]].compact /\ (i > 1 => Goes(s[i - 1], s[i]))
    <3> SUFFICES ASSUME NEW i \in 1 .. L PROVE ~calls[s[i]].compact /\ (i > 1 => Goes(s[i - 1], s[i]))
      OBVIOUS
    <3>1. i \in 1 .. L + 1 /\ more[i] = s[i] /\ (i > 1 => more[i - 1] = s[i - 1])
      BY <1>1, <1>2
    <3> QED BY <2>1, <3>1
  <2>3. Regular(s)
    BY <1>2, <1>5, <2>2 DEF Regular, Goes
  <2>4. ~calls[n].compact
    BY <1>1, <1>2, <2>1
  <2>5. ASSUME s # <<>> PROVE Goes(s[L], n)
    <3>1. L > 0
      BY <1>1, <2>5 DEF L
    <3>2. L + 1 \in 1 .. L + 1 /\ L + 1 > 1 /\ more[(L + 1) - 1] = s[L]
      BY <1>1, <1>2, <3>1
    <3> QED BY <1>2, <2>1, <3>2
  <2> QED BY <1>5, <2>3, <2>4, <2>5 DEF Goes, Last, L
<1> QED BY <1>4, <1>5

LEMMA PrefixIs ==
  ASSUME NEW X, NEW x \in Seq(X), NEW f \in Seq(X), IsPrefix(x, f)
  PROVE  Len(x) <= Len(f) /\ \A i \in 1 .. Len(x) : f[i] = x[i]
<1>1. Len(x) \in Nat /\ Len(f) \in Nat /\ Len(x) <= Len(f) /\ SubSeq(x, 1, Len(x)) = SubSeq(f, 1, Len(x))
  BY DEF IsPrefix
<1>2. \A i \in 1 .. Len(x) : x[i] \in X /\ f[i] \in X
  BY <1>1
<1>3. \A i \in 1 .. Len(x) - 1 + 1 : SubSeq(x, 1, Len(x))[i] = x[1 + i - 1]
  BY <1>1, <1>2, SubSeqProperties
<1>4. \A i \in 1 .. Len(x) - 1 + 1 : SubSeq(f, 1, Len(x))[i] = f[1 + i - 1]
  BY <1>1, <1>2, SubSeqProperties
<1>5. \A i \in 1 .. Len(x) : i \in 1 .. Len(x) - 1 + 1 /\ 1 + i - 1 = i
  BY <1>1
<1>6. \A i \in 1 .. Len(x) : x[i] = f[i]
  BY <1>1, <1>3, <1>4, <1>5
<1> QED BY <1>1, <1>6

LEMMA PrefixAndRest ==
  ASSUME NEW X, NEW q \in Seq(X), NEW f \in Seq(X), Len(q) <= Len(f), \A i \in 1 .. Len(q) : f[i] = q[i]
  PROVE  SubSeq(f, Len(q) + 1, Len(f)) \in Seq(X) /\ q \o SubSeq(f, Len(q) + 1, Len(f)) = f
<1> DEFINE k == Len(q)
           l == Len(f)
           r == SubSeq(f, k + 1, l)
           w == q \o r
<1>1. k \in Nat /\ l \in Nat /\ k <= l /\ \A i \in 1 .. l : f[i] \in X
  OBVIOUS
<1>2. /\ r \in Seq(X) /\ Len(r) = l - k /\ \A i \in 1 .. l - k : r[i] = f[k + i]
  <2> HIDE DEF k, l
  <2>1. \A i \in k + 1 .. l : f[i] \in X
    BY <1>1
  <2>2. /\ r \in Seq(X) /\ Len(r) = (IF k + 1 <= l THEN l - (k + 1) + 1 ELSE 0)
        /\ \A i \in 1 .. l - (k + 1) + 1 : r[i] = f[(k + 1) + i - 1]
    BY <1>1, <2>1, SubSeqProperties
  <2>3. l - (k + 1) + 1 = l - k /\ (~(k + 1 <= l) => l - k = 0)
    BY <1>1
  <2>4. \A i \in 1 .. l - k : (k + 1) + i - 1 = k + i
    BY <1>1
  <2> HIDE DEF r
  <2> QED BY <2>2, <2>3, <2>4
<1> HIDE DEF r
<1>3. /\ w \in Seq(X) /\ Len(w) = k + Len(r)
      /\ \A i \in 1 .. k + Len(r) : w[i] = IF i <= k THEN q[i] ELSE r[i - k]
  BY <1>2, ConcatProperties
<1>4. Len(w) = l
  <2> HIDE DEF k, l, w
  <2> QED BY <1>1, <1>2, <1>3
<1>5. ASSUME NEW i \in 1 .. l PROVE w[i] = f[i]
  <2>1. CASE i <= k
    <3>1. w[i] = q[i]
      <4> HIDE DEF k, l, w
      <4> QED BY <1>1, <1>2, <1>3, <2>1
    <3> HIDE DEF w
    <3> QED BY <2>1, <3>1
  <2>2. CASE ~(i <= k)
    <3> HIDE DEF k, l, w
    <3>1. i - k \in 1 .. l - k /\ k + (i - k) = i /\ i \in 1 .. k + Len(r)
      BY <1>1, <1>2, <2>2
    <3> QED BY <1>2, <1>3, <2>2, <3>1
  <2> QED BY <2>1, <2>2
<1> HIDE DEF w
<1>6. w = f
  <2>1. w = [i \in 1 .. l |-> w[i]] /\ f = [i \in 1 .. l |-> f[i]]
    BY <1>3, <1>4
  <2> HIDE DEF l
  <2> QED BY <1>5, <2>1
<1> QED BY <1>2, <1>6 DEF r, w

\* A row has what was said, if its turns went on from one another and it was not too much.
Holds(s, msgs, count) ==
  IF s = <<>> THEN msgs = <<>> /\ count = 0
  ELSE Regular(s) /\ Len(Conversation(s)) <= Cap => msgs = Conversation(s) /\ count = Len(msgs)

\* What a turn with an answer brings.
LEMMA AnswerIs ==
  ASSUME Requested, NEW n \in Calls, NEW ok \in BOOLEAN, NEW t, t = SessionTurn(n, ok), t.ok
  PROVE  /\ t \in TurnArg /\ t.answer = calls[n].answer
         /\ Responses => t.full = <<>> /\ t.delta = calls[n].sent
         /\ ~Responses => t.full = calls[n].sent /\ t.delta = <<>> /\ t.compact = calls[n].compact
BY TurnIs

\* A turn with an answer that goes on from what a row holds, and is not too much.
Continues(s, n, msgs, count, ok, t) ==
  /\ Of(s) /\ n \in Calls /\ msgs \in Seq(Texts) /\ count \in Nat /\ Holds(s, msgs, count)
  /\ Regular(Append(s, n)) /\ Len(Conversation(Append(s, n))) <= Cap
  /\ ok \in BOOLEAN /\ t = SessionTurn(n, ok) /\ t.ok

LEMMA MergeAnswers ==
  ASSUME Begun, Cap \in Nat, NEW s, NEW n, NEW msgs, NEW count, NEW ok, NEW t,
         Continues(s, n, msgs, count, ok, t), Responses
  PROVE  /\ Merge(msgs, count, t).msgs = Conversation(Append(s, n))
         /\ Merge(msgs, count, t).count = Len(Conversation(Append(s, n)))
         /\ s # <<>> => Len(Conversation(s)) <= Cap
<1> USE DEF Continues
<1> DEFINE q == Conversation(s)
           sent == calls[n].sent
           answer == calls[n].answer
           whole == Conversation(Append(s, n))
<1>1. t \in TurnArg /\ t.answer = answer /\ t.full = <<>> /\ t.delta = sent
  <2> HIDE DEF sent, answer
  <2> HIDE DEF q, whole
  <2>1. t \in TurnArg /\ t.answer = calls[n].answer /\ t.full = <<>> /\ t.delta = calls[n].sent
    BY AnswerIs DEF Begun
  <2> QED BY <2>1 DEF sent, answer
<1>2. sent \in Seq(Texts) /\ answer \in Seq(Texts)
  BY PartIs DEF Begun
<1>3. q \in Seq(Texts) /\ whole = q \o (sent \o answer)
  BY ConversationMore DEF Begun
<1>4. Regular(s)
  BY RegularMore
<1> HIDE DEF Texts
<1>5. Len(q) <= Cap
  <2> DEFINE part == sent \o answer
  <2>1. part \in Seq(Texts)
    <3> HIDE DEF sent, answer
    <3> QED BY <1>2
  <2> HIDE DEF part
  <2>2. Len(q \o part) = Len(q) + Len(part) /\ Len(q) \in Nat /\ Len(part) \in Nat
    <3> HIDE DEF q
    <3> QED BY <1>3, <2>1, ConcatProperties
  <2>3. Len(q) + Len(part) <= Cap
    BY <1>3, <2>2 DEF part
  <2> DEFINE i == Len(q)
             j == Len(part)
  <2> HIDE DEF i, j
  <2>4. i \in Nat /\ j \in Nat /\ i + j <= Cap
    BY <2>2, <2>3 DEF i, j
  <2>5. i <= Cap
    BY <2>4
  <2> QED BY <2>5 DEF i
<1>6. msgs = q /\ count = Len(q)
  <2>1. CASE s = <<>>
    <3>1. q = <<>>
      <4>1. q = FlattenSeq([i \in DOMAIN s |-> calls[s[i]].sent \o calls[s[i]].answer])
        BY DEF Conversation
      <4>2. [i \in DOMAIN s |-> calls[s[i]].sent \o calls[s[i]].answer] = <<>>
        BY <2>1
      <4>3. FlattenSeq(<<>>) = <<>>
        BY DEF FlattenSeq
      <4> QED BY <4>1, <4>2, <4>3
    <3> HIDE DEF q
    <3> QED BY <2>1, <3>1 DEF Holds
  <2>2. CASE s # <<>>
    BY <1>4, <1>5, <2>2 DEF Holds
  <2> QED BY <2>1, <2>2
<1> DEFINE added == Additions(count, t)
<1>7. added = [msgs |-> sent, count |-> count + Len(sent)]
  BY <1>1 DEF Additions
<1> HIDE DEF q, sent, answer, whole, added
<1>8. added.msgs = sent /\ added.count = Len(q \o sent)
  BY <1>2, <1>3, <1>6, <1>7, ConcatProperties
<1>9. whole = (q \o added.msgs) \o t.answer
  <2>1. (q \o sent) \o answer = q \o (sent \o answer)
    <3> DEFINE u == sent
               v == answer
    <3>1. q \in Seq(Texts) /\ u \in Seq(Texts) /\ v \in Seq(Texts)
      BY <1>2, <1>3
    <3> HIDE DEF u, v
    <3>2. (q \o u) \o v = q \o (u \o v)
      BY ONLY <3>1, TextsAssociative
    <3> QED BY <3>2 DEF u, v
  <2> QED BY <1>1, <1>3, <1>8, <2>1
<1>10. Len(whole) <= Cap
  BY DEF whole
<1>11. Merge(q, count, t).msgs = whole /\ Merge(q, count, t).count = Len(whole)
  <2>1. Fits(q, count, t, added, whole)
    BY <1>1, <1>2, <1>3, <1>6, <1>8, <1>9, <1>10 DEF Fits, added
  <2> QED BY <2>1, MergeFits
<1> QED BY <1>5, <1>6, <1>11 DEF whole, q

\* A history goes on from what a row holds.
LEMMA HistoryGoesOn ==
  ASSUME Begun, NEW s, Of(s), s # <<>>, NEW n \in Calls, ~Responses, Regular(Append(s, n)),
         NEW q, q = Conversation(s)
  PROVE  q \in Seq(Texts) /\ Len(q) <= Len(calls[n].sent) /\ \A i \in 1 .. Len(q) : calls[n].sent[i] = q[i]
<1> DEFINE p == s[Len(s)]
           sent == calls[p].sent
           answer == calls[p].answer
           out == Out(p)
           x == sent \o <<out>>
           f == calls[n].sent
<1>1. p \in Calls /\ p \in Nat
  <2>1. s \in Seq(Nat) /\ Len(s) \in 1 .. Len(s)
    BY DEF Of
  <2> QED BY <2>1 DEF Of
<1>2. sent \in Seq(Texts) /\ f \in Seq(Texts)
  BY <1>1, PartIs DEF Begun
<1>3. out \in Texts /\ answer \in {<<>>, <<out>>}
  BY <1>1, InIs DEF Begun, Answers
<1>4. IsPrefix(x, f)
  BY RegularMore DEF Last
<1>5. q = sent \o answer
  BY DEF Conversation, Last
<1> HIDE DEF Texts, sent, answer, f, out
<1>6. x \in Seq(Texts) /\ Len(x) = Len(sent) + 1 /\ Len(sent) \in Nat /\ \A i \in 1 .. Len(sent) : x[i] = sent[i]
  BY <1>2, <1>3
<1> HIDE DEF x
<1>7. Len(x) <= Len(f) /\ (\A i \in 1 .. Len(x) : f[i] = x[i]) /\ Len(f) \in Nat
  BY <1>2, <1>4, <1>6, PrefixIs
<1>8. CASE answer = <<>>
  <2>1. q = sent
    BY <1>2, <1>5, <1>8
  <2>2. Len(sent) <= Len(f) /\ \A i \in 1 .. Len(sent) : f[i] = sent[i]
    BY <1>6, <1>7
  <2> QED BY <1>2, <2>1, <2>2 DEF f
<1>9. CASE answer = <<out>>
  <2>1. q = x
    BY <1>5, <1>9 DEF x
  <2> QED BY <1>6, <1>7, <2>1 DEF f
<1> QED BY <1>3, <1>8, <1>9

LEMMA MergeHistory ==
  ASSUME Begun, Cap \in Nat, NEW s, NEW n, NEW msgs, NEW count, NEW ok, NEW t,
         Continues(s, n, msgs, count, ok, t), ~Responses
  PROVE  /\ Merge(msgs, count, t).msgs = Conversation(Append(s, n))
         /\ Merge(msgs, count, t).count = Len(Conversation(Append(s, n)))
         /\ s # <<>> => Len(Conversation(s)) <= Cap
<1> USE DEF Continues
<1> DEFINE sent == calls[n].sent
           answer == calls[n].answer
           whole == Conversation(Append(s, n))
           rest == SubSeq(sent, count + 1, Len(sent))
<1>1. t \in TurnArg /\ t.answer = answer /\ t.full = sent /\ t.delta = <<>> /\ t.compact = calls[n].compact
  <2> HIDE DEF sent, answer, whole
  <2>1. /\ t \in TurnArg /\ t.answer = calls[n].answer /\ t.full = calls[n].sent /\ t.delta = <<>>
        /\ t.compact = calls[n].compact
    BY AnswerIs DEF Begun
  <2> QED BY <2>1 DEF sent, answer
<1>2. sent \in Seq(Texts) /\ answer \in Seq(Texts) /\ Len(sent) \in Nat /\ Len(answer) \in Nat
  <2>1. sent \in Seq(Texts) /\ answer \in Seq(Texts)
    BY PartIs DEF Begun
  <2> HIDE DEF sent, answer, Texts
  <2> QED BY <2>1
<1>3. whole = sent \o answer
  BY ConversationMore DEF Begun
<1>4. ~t.compact /\ Regular(s)
  BY <1>1, RegularMore
<1>5. Len(whole) <= Cap /\ Len(whole) = Len(sent) + Len(answer)
  <2>1. Len(whole) <= Cap
    OBVIOUS
  <2> HIDE DEF sent, answer, whole, Texts
  <2> QED BY <1>2, <1>3, <2>1, ConcatProperties
<1> HIDE DEF sent, answer, whole
\* The row holds what the history goes on from.
<1>6. /\ count = Len(msgs) /\ Len(msgs) <= Len(sent)
      /\ \A i \in 1 .. Len(msgs) : sent[i] = msgs[i]
      /\ s # <<>> => Len(Conversation(s)) <= Cap
  <2>1. CASE s = <<>>
    <3>1. msgs = <<>> /\ count = 0
      BY <2>1 DEF Holds
    <3> QED BY <1>2, <2>1, <3>1
  <2>2. CASE s # <<>>
    <3> DEFINE q == Conversation(s)
    <3>1. q \in Seq(Texts) /\ Len(q) <= Len(sent) /\ \A i \in 1 .. Len(q) : sent[i] = q[i]
      BY <2>2, HistoryGoesOn DEF sent
    <3> HIDE DEF q, Texts
    <3>2. Len(q) <= Cap
      <4> DEFINE i == Len(q)
                 j == Len(sent)
                 k == Len(answer)
      <4>1. i \in Nat /\ j \in Nat /\ k \in Nat /\ i <= j /\ j + k <= Cap
        <5>1. Len(q) \in Nat
          BY <3>1
        <5> QED BY <1>2, <1>5, <3>1, <5>1
      <4> HIDE DEF i, j, k
      <4>2. i <= Cap
        BY <4>1
      <4> QED BY <4>2 DEF i
    <3>3. msgs = q /\ count = Len(q)
      BY <1>4, <2>2, <3>2 DEF Holds, q
    <3> QED BY <3>1, <3>2, <3>3 DEF q
  <2> QED BY <2>1, <2>2
<1>7. rest \in Seq(Texts) /\ msgs \o rest = sent
  <2> HIDE DEF Texts
  <2> QED BY <1>2, <1>6, PrefixAndRest
<1> DEFINE added == Additions(count, t)
<1>8. added.msgs = rest /\ added.count = Len(sent)
  <2>1. CASE sent # <<>>
    <3>1. ~Compacted(count, t)
      <4>1. ~(Len(sent) < count)
        BY <1>2, <1>6
      <4> QED BY <1>1, <1>4, <4>1 DEF Compacted
    <3>2. added = [msgs |-> rest, count |-> Len(sent)]
      BY <1>1, <2>1, <3>1 DEF Additions
    <3> HIDE DEF added, rest
    <3> QED BY <3>2
  <2>2. CASE sent = <<>>
    <3>1. added = [msgs |-> <<>>, count |-> count + Len(<<>>)]
      BY <1>1, <2>2 DEF Additions
    <3> HIDE DEF added
    <3>2. count = 0 /\ Len(sent) = 0
      BY <1>6, <2>2
    <3>3. rest = <<>>
      BY <2>2, <3>2
    <3> QED BY <3>1, <3>2, <3>3
  <2> QED BY <2>1, <2>2
<1> HIDE DEF added, rest, Texts
<1>9. Fits(msgs, count, t, added, whole)
  BY <1>1, <1>3, <1>5, <1>6, <1>7, <1>8 DEF Fits, added
<1>10. Merge(msgs, count, t).msgs = whole /\ Merge(msgs, count, t).count = Len(whole)
  BY <1>9, MergeFits
<1> QED BY <1>6, <1>10 DEF whole

\* What turns say does not change.
Unchanged(s) ==
  \A i \in 1 .. Len(s) :
    /\ calls'[s[i]].prev = calls[s[i]].prev /\ calls'[s[i]].sent = calls[s[i]].sent
    /\ calls'[s[i]].compact = calls[s[i]].compact /\ calls'[s[i]].answer = calls[s[i]].answer

LEMMA SaidStays ==
  ASSUME NEW s, s \in Seq(Nat), s # <<>>, Unchanged(s), client' = client
  PROVE  (Regular(s)' <=> Regular(s)) /\ Conversation(s)' = Conversation(s)
<1>1. Responses' = Responses /\ DOMAIN s = 1 .. Len(s) /\ Len(s) \in Nat \ {0}
  BY DEF Responses
<1>2. Regular(s)' <=> Regular(s)
  <2>1. CASE Responses
    <3>1. Regular(s)' <=> \A i \in 1 .. Len(s) : calls'[s[i]].prev = IF i = 1 THEN Absent ELSE s[i - 1]
      BY <1>1, <2>1 DEF Regular
    <3>2. Regular(s) <=> \A i \in 1 .. Len(s) : calls[s[i]].prev = IF i = 1 THEN Absent ELSE s[i - 1]
      BY <1>1, <2>1 DEF Regular
    <3> QED BY <3>1, <3>2 DEF Unchanged
  <2>2. CASE ~Responses
    <3>1. Regular(s)' <=>
            \A i \in 1 .. Len(s) :
              /\ ~calls'[s[i]].compact
              /\ i > 1 => IsPrefix(calls'[s[i - 1]].sent \o <<Out(s[i - 1])>>, calls'[s[i]].sent)
      BY <1>1, <2>2 DEF Regular, Out
    <3>2. Regular(s) <=>
            \A i \in 1 .. Len(s) :
              /\ ~calls[s[i]].compact
              /\ i > 1 => IsPrefix(calls[s[i - 1]].sent \o <<Out(s[i - 1])>>, calls[s[i]].sent)
      BY <1>1, <2>2 DEF Regular
    <3>3. ASSUME NEW i \in 1 .. Len(s)
          PROVE  /\ calls'[s[i]].compact = calls[s[i]].compact /\ calls'[s[i]].sent = calls[s[i]].sent
                 /\ i > 1 => calls'[s[i - 1]].sent = calls[s[i - 1]].sent
      <4>1. i > 1 => i - 1 \in 1 .. Len(s)
        BY <1>1
      <4> QED BY <4>1 DEF Unchanged
    <3> QED BY <3>1, <3>2, <3>3
  <2> QED BY <2>1, <2>2
<1>3. Conversation(s)' = Conversation(s)
  <2>1. CASE Responses
    <3> DEFINE q == [i \in DOMAIN s |-> calls[s[i]].sent \o calls[s[i]].answer]
               r == [i \in DOMAIN s |-> calls'[s[i]].sent \o calls'[s[i]].answer]
    <3>1. q = r
      BY <1>1 DEF Unchanged
    <3>2. Conversation(s) = FlattenSeq(q)
      BY <2>1 DEF Conversation
    <3>3. Conversation(s)' = FlattenSeq(r)
      BY <1>1, <2>1 DEF Conversation
    <3> HIDE DEF q, r
    <3> QED BY <3>1, <3>2, <3>3
  <2>2. CASE ~Responses
    <3>1. Last(s) = s[Len(s)] /\ Len(s) \in 1 .. Len(s)
      BY <1>1 DEF Last
    <3>2. Conversation(s) = calls[s[Len(s)]].sent \o calls[s[Len(s)]].answer
      BY <2>2, <3>1 DEF Conversation
    <3>3. Conversation(s)' = calls'[s[Len(s)]].sent \o calls'[s[Len(s)]].answer
      BY <1>1, <2>2, <3>1 DEF Conversation
    <3> QED BY <3>1, <3>2, <3>3 DEF Unchanged
  <2> QED BY <2>1, <2>2
<1> QED BY <1>2, <1>3

\* A row holds the conversation of the turns s.
Holding(s, r) ==
  Regular(s) /\ Len(Conversation(s)) <= Cap =>
    r.msgs = Conversation(s) /\ r.count = Len(r.msgs) /\ r.turns = Len(s)
Content == \A r \in archive.rows : Holding(merged[r.sid], r)

LEMMA ContentIs == ASSUME Filed PROVE ContentIsHistory <=> Content
<1>1. \A r \in archive.rows : r.sid \in DOMAIN merged
  BY DEF Filed
<1>2. \A r \in archive.rows : Merged(r.sid) = merged[r.sid]
  BY <1>1 DEF Merged
<1> QED BY <1>2 DEF ContentIsHistory, Content, Holding

LEMMA RowStays ==
  ASSUME ArchiveInv, Content, Onwards, client' = client, NEW r \in archive.rows, NEW s, s = merged[r.sid]
  PROVE  Holding(s, r)'
<1>1. r.sid \in DOMAIN merged
  BY DEF ArchiveInv, Filed
<1>2. s \in Seq(Nat) /\ s # <<>> /\ \A i \in 1 .. Len(s) : s[i] \in 1 .. Len(calls) /\ calls[s[i]].pc = "archived"
  BY <1>1 DEF ArchiveInv, Filed, Calls
<1>3. Unchanged(s)
  BY <1>2 DEF Unchanged, Onwards
<1>4. (Regular(s)' <=> Regular(s)) /\ Conversation(s)' = Conversation(s)
  BY <1>2, <1>3, SaidStays
<1>5. Holding(s, r)
  BY DEF Content
<1> QED BY <1>4, <1>5 DEF Holding

LEMMA QuietContent ==
  ASSUME ArchiveInv, Content, Onwards, client' = client, archive'.rows = archive.rows, merged' = merged
  PROVE  Content'
<1>1. ASSUME NEW r \in archive'.rows PROVE Holding(merged[r.sid], r)'
  <2> DEFINE s == merged[r.sid]
  <2>1. PICK k : k = s
    OBVIOUS
  <2>2. Holding(k, r)'
    BY <2>1, RowStays
  <2>3. merged'[r.sid] = k
    BY <2>1
  <2> QED BY <2>2, <2>3
<1> QED BY <1>1 DEF Content

LEMMA DropContent ==
  ASSUME ArchiveInv, Content, Onwards, client' = client, Filed',
         NEW g \in {"rec", "sess"}, NEW m \in {0, 1, 2}, Drop(g, m)
  PROVE  Content'
<1>1. PICK sids : merged' = [s \in DOMAIN merged \ sids |-> merged[s]]
  BY DEF Drop
<1>2. archive'.rows \subseteq archive.rows
  <2> DEFINE gone == IF g = "sess" THEN RowsIn(archive, m) ELSE {}
             R == archive.rows \ gone
             recs == IF g = "rec" THEN {r \in archive.recs : r.table # m} ELSE archive.recs
             T == [archive.tables EXCEPT ![g] = @ \ {m}]
  <2>1. archive' = [archive EXCEPT !.tables = T, !.rows = R, !.recs = recs]
    BY DEF Drop
  <2>2. archive \in Archives
    BY DEF ArchiveInv, InOrder
  <2> HIDE DEF T, R, recs
  <2>3. archive'.rows = R
    BY <2>1, <2>2 DEF Archives
  <2> QED BY <2>3 DEF R
<1>3. ASSUME NEW r \in archive'.rows PROVE Holding(merged[r.sid], r)'
  <2>1. r.sid \in DOMAIN merged'
    BY DEF Filed
  <2>2. PICK k : k = merged[r.sid]
    OBVIOUS
  <2>3. merged'[r.sid] = k
    BY <1>1, <2>1, <2>2
  <2>4. Holding(k, r)'
    BY <1>2, <2>2, RowStays
  <2> QED BY <2>3, <2>4
<1> QED BY <1>3 DEF Content

LEMMA JoinContent ==
  ASSUME ArchiveInv, Content, Cap \in Nat, Onwards, client' = client,
         NEW n \in Calls, NEW ok \in BOOLEAN, NEW a, NEW sid, Joins(n, ok, a, sid),
         ok => calls[n].pc # "archived" /\ calls'[n].pc = "archived" /\ calls'[n].answer = calls[n].answer
  PROVE  Content'
<1> DEFINE t == SessionTurn(n, ok)
<1>1. PICK new : Replaces(n, ok, a, sid, new)
  BY AddsRows
<1>2. t \in TurnArg /\ t.ok = ok /\ Begun
  BY TurnIs DEF ArchiveInv, Begun
<1>3. a \in Archives /\ sid \in Sids /\ archive.rows \subseteq SessionRow
  BY DEF Joins, InOrder, ArchiveInv, Archives
<1>4. ASSUME NEW r \in archive.rows, r.sid # sid PROVE Holding(merged[r.sid], r)'
  <2>1. r.sid \in DOMAIN merged
    BY DEF ArchiveInv, Filed
  <2>2. PICK k : k = merged[r.sid]
    OBVIOUS
  <2>3. merged'[r.sid] = k
    <3>1. CASE ok
      BY <1>4, <2>1, <2>2, <3>1 DEF Joins
    <3>2. CASE ~ok
      BY <2>2, <3>2 DEF Joins
    <3> QED BY <3>1, <3>2
  <2>4. Holding(k, r)'
    BY <2>2, RowStays
  <2> QED BY <2>3, <2>4
<1>5. CASE ~ok
  <2>1. PICK q \in archive.rows : q.sid = sid /\ new = Further(q, t)
    BY <1>1, <1>5 DEF Replaces, t
  <2>2. new.msgs = q.msgs /\ new.count = q.count /\ new.turns = q.turns /\ new.sid = q.sid
    <3>1. ~t.ok /\ q \in SessionRow
      BY <1>2, <1>3, <1>5
    <3> HIDE DEF t
    <3> QED BY <1>2, <2>1, <3>1, FurtherIs
  <2>3. PICK k : k = merged[q.sid]
    OBVIOUS
  <2>4. Holding(k, q)'
    BY <2>3, RowStays
  <2>5. Holding(k, new)'
    BY <2>2, <2>4 DEF Holding
  <2>6. merged'[new.sid] = k
    BY <1>5, <2>2, <2>3 DEF Joins
  <2>7. Holding(merged[new.sid], new)'
    BY <2>5, <2>6
  <2> QED BY <1>1, <1>4, <2>7 DEF Content, Replaces
<1>6. CASE ok
  <2>1. PICK s : s = Merged(sid)
    OBVIOUS
  <2>2. PICK more : more = Append(s, n)
    OBVIOUS
  <2>3. merged'[sid] = more /\ new.sid = sid
    BY <1>1, <1>6, <2>1, <2>2 DEF Joins, Replaces
  <2>4. /\ s # <<>> <=> \E q \in archive.rows : q.sid = sid
        /\ s # <<>> => s = merged[sid] /\ sid \in DOMAIN merged
    BY <2>1 DEF ArchiveInv, Filed, Merged
  <2>5. Of(s) /\ \A i \in 1 .. Len(s) : calls[s[i]].pc = "archived"
    <3>1. CASE s = <<>>
      <4>1. s \in Seq(Nat) /\ Len(s) = 0
        BY <3>1
      <4> QED BY <4>1 DEF Of
    <3>2. CASE s # <<>>
      BY <2>4, <3>2 DEF Of, ArchiveInv, Filed
    <3> QED BY <3>1, <3>2
  <2>6. more \in Seq(Nat) /\ more # <<>> /\ Len(more) = Len(s) + 1 /\ Unchanged(more)
    <3>1. s \in Seq(Nat) /\ n \in Nat /\ n \in 1 .. Len(calls)
      BY <2>5 DEF Of, Calls, ArchiveInv, Requested
    <3>2. /\ more \in Seq(Nat) /\ Len(more) = Len(s) + 1 /\ Len(s) \in Nat /\ more # <<>>
          /\ more[Len(s) + 1] = n /\ \A i \in 1 .. Len(s) : more[i] = s[i]
      BY <2>2, <3>1, AppendProperties
    <3>3. ASSUME NEW i \in 1 .. Len(more)
          PROVE  /\ more[i] \in 1 .. Len(calls)
                 /\ more[i] = n \/ calls[more[i]].pc = "archived"
      <4>1. i \in 1 .. Len(s) \/ i = Len(s) + 1
        BY <3>2
      <4> QED BY <2>5, <3>1, <3>2, <4>1 DEF Of, Calls
    <3>4. Unchanged(more)
      BY <1>6, <3>3 DEF Unchanged, Onwards
    <3> QED BY <3>2, <3>4
  <2>7. /\ (Regular(more)' <=> Regular(more))
        /\ Conversation(more)' = Conversation(more)
    BY <2>6, SaidStays
  \* The row as the turn has found it.
  <2>8. PICK msgs \in Seq(Texts), count \in Nat :
          /\ Holds(s, msgs, count)
          /\ new.msgs = Merge(msgs, count, t).msgs /\ new.count = Merge(msgs, count, t).count
          /\ Regular(s) /\ (s # <<>> => Len(Conversation(s)) <= Cap) => new.turns = Len(more)
    <3>1. CASE (\A q \in archive.rows : q.sid # sid) /\ new = First(a, sid, t)
      <4>1. s = <<>> /\ Len(more) = 1 /\ <<>> \in Seq(Texts)
        BY <2>4, <2>6, <3>1
      <4>2. Holds(s, <<>>, 0)
        BY <4>1 DEF Holds
      <4>3. new.turns = 1 /\ new.msgs = Merge(<<>>, 0, t).msgs /\ new.count = Merge(<<>>, 0, t).count
        <5> HIDE DEF t
        <5> QED BY <1>2, <1>3, <3>1, FirstIs
      <4> HIDE DEF t
      <4> QED BY <4>1, <4>2, <4>3
    <3>2. CASE \E q \in archive.rows : q.sid = sid /\ new = Further(q, t)
      <4>1. PICK q \in archive.rows : q.sid = sid /\ new = Further(q, t)
        BY <3>2
      <4>2. s # <<>> /\ s = merged[q.sid]
        BY <2>4, <4>1
      <4>3. Holding(s, q)
        BY <4>2 DEF Content
      <4>4. q \in SessionRow /\ q.msgs \in Seq(Texts) /\ q.count \in Nat
        BY <1>3 DEF SessionRow
      <4>5. t.ok
        BY <1>2, <1>6
      <4> HIDE DEF t
      <4>6. /\ new.turns = q.turns + 1 /\ new.msgs = Merge(q.msgs, q.count, t).msgs
            /\ new.count = Merge(q.msgs, q.count, t).count
        BY <1>2, <4>1, <4>4, <4>5, FurtherIs
      <4>7. Holds(s, q.msgs, q.count)
        BY <4>2, <4>3 DEF Holds, Holding
      <4>8. Regular(s) /\ Len(Conversation(s)) <= Cap => new.turns = Len(more)
        BY <2>6, <4>3, <4>6 DEF Holding
      <4> QED BY <4>2, <4>4, <4>6, <4>7, <4>8
    <3> QED BY <1>1, <3>1, <3>2 DEF Replaces, t
  <2>9. Holding(more, new)'
    <3> SUFFICES ASSUME Regular(more), Len(Conversation(more)) <= Cap
                 PROVE  /\ new.msgs = Conversation(more) /\ new.count = Len(new.msgs)
                        /\ new.turns = Len(more)
      BY <2>7 DEF Holding
    <3>1. t.ok
      BY <1>2, <1>6
    <3> HIDE DEF t
    <3>2. /\ Merge(msgs, count, t).msgs = Conversation(more)
          /\ Merge(msgs, count, t).count = Len(Conversation(more))
          /\ s # <<>> => Len(Conversation(s)) <= Cap
      <4>1. Continues(s, n, msgs, count, ok, t)
        BY <2>2, <2>5, <2>8, <3>1 DEF Continues, t
      <4> QED BY <1>2, <2>2, <4>1, MergeAnswers, MergeHistory
    <3>3. Regular(s)
      BY <2>2, <2>5, RegularMore
    <3> QED BY <2>8, <3>2, <3>3
  <2>10. Holding(merged[new.sid], new)'
    BY <2>3, <2>9
  <2> QED BY <1>1, <1>4, <2>10 DEF Content, Replaces
<1> QED BY <1>5, <1>6

LEMMA StepContent ==
  ASSUME ArchiveInv, Content, Cap \in Nat, ArchiveNext PROVE Content'
<1>1. Onwards /\ client' = client
  BY StepIs
<1>2. Filed'
  BY StepKeeps DEF ArchiveInv
<1>3. CASE archive'.rows = archive.rows /\ merged' = merged
  BY <1>1, <1>3, QuietContent
<1>4. CASE \E g \in {"rec", "sess"}, m \in {0, 1, 2} : Drop(g, m)
  BY <1>1, <1>2, <1>4, DropContent
<1>5. CASE \E n \in Calls, ok \in BOOLEAN : \E a, sid : Arrives(n, ok, a, sid)
  <2>1. PICK n \in Calls, ok \in BOOLEAN : \E a, sid : Arrives(n, ok, a, sid)
    BY <1>5
  <2>2. PICK a, sid : Arrives(n, ok, a, sid)
    BY <2>1
  <2> QED BY <1>1, <2>2, JoinContent DEF Arrives
<1> QED BY <1>3, <1>4, <1>5, StepIs

\* A row whose turns went on from one another has exactly what was said in them, each message once,
\* as long as it is not more than Cap; what is stored is counted.
THEOREM ContentIsHistoryAlways == ArchiveSpec => []ContentIsHistory
<1> USE StoreAssumption
<1>1. ArchiveInit => ArchiveInv /\ Content
  <2>1. ArchiveInit => Content
    <3> SUFFICES ASSUME ArchiveInit PROVE archive.rows = {}
      BY DEF Content
    <3>1. PICK a \in {Empty, Older} : archive = Boot(a) /\ month = 1
      BY DEF ArchiveInit
    <3>2. Empty.rows = {} /\ Older.rows = {}
      BY DEF Empty, Older
    <3>3. Boot(a).rows = a.rows
      BY <3>1, BootInOrder
    <3> QED BY <3>1, <3>2, <3>3
  <2> QED BY <2>1, InitKept
<1>2. ArchiveInv /\ Content /\ [ArchiveNext]_archiveVars => ArchiveInv' /\ Content'
  <2> SUFFICES ASSUME ArchiveInv, Content, [ArchiveNext]_archiveVars PROVE ArchiveInv' /\ Content'
    OBVIOUS
  <2>1. CASE ArchiveNext
    BY <2>1, StepKeeps, StepContent
  <2>2. CASE UNCHANGED archiveVars
    <3>1. /\ archive' = archive /\ merged' = merged /\ client' = client /\ calls' = calls /\ mine' = mine
          /\ month' = month
      BY <2>2 DEF archiveVars
    <3>2. Onwards
      BY <3>1, StaysOn DEF ArchiveInv, Begun, Requested
    <3> QED BY <2>2, <3>1, <3>2, StutterKeeps, QuietContent
  <2> QED BY <2>1, <2>2
<1>3. ArchiveInv /\ Content => ContentIsHistory
  BY ContentIs DEF ArchiveInv
<1> QED BY <1>1, <1>2, <1>3, PTL DEF ArchiveSpec
-----------------------------------------------------------------------------
(***************************************************************************)
(* Sessions.  A session lasts because whatever can take it has an argument *)
(* that never comes back: a sweep takes what has been unused for its time  *)
(* to live when it runs, and a delete has been queued by a request that    *)
(* found the session expired, after which it can only be used again, and   *)
(* never be put again.                                                     *)
(***************************************************************************)

USE SessionsAssumption DEF Never, NoId

Steps == {"get", "call", "refused", "failed", "save", "saving", "sweep", "done"}
Msgs  == {"in", "out"} \X Nat
Turn  == [prev : Nat, step : Steps, hist : Seq(Msgs), seen : BOOLEAN, said : Seq(Msgs)]
Write == [do : {"put", "touch", "delete", "sweep"}, id : Nat, at : Nat]
Row   == [msgs : Seq(Msgs), used : Nat]
Times == Nat \union {-1}

TypeOK ==
  /\ now \in Nat /\ turns \in Seq(Turn) /\ queue \in Seq(Write)
  /\ DOMAIN sessions \subseteq 1 .. Len(turns)
  /\ sessions \in [DOMAIN sessions -> Row]
  /\ Len(turns) <= MaxTurns
  /\ saved \in [Ids -> Times] /\ touched \in [Ids -> Times]
  /\ missed \subseteq 1 .. Len(turns)

\* What a request has got is what has been said before it.
Before(n) == IF turns[n].prev = 0 THEN <<>> ELSE turns[turns[n].prev].said
Histories ==
  \A n \in Turns :
    /\ turns[n].prev < n /\ turns[n].said = Before(n) \o Exchange(n)
    /\ turns[n].step = "get" => turns[n].prev # 0
    /\ turns[n].step \notin {"get", "refused", "failed"} => turns[n].hist = Before(n)

\* A put is queued once, by a handler that waits; a delete for a session found expired.
Queued ==
  \A i \in 1 .. Len(queue) :
    /\ queue[i].at <= now
    /\ queue[i].do = "put" => queue[i].id \in Turns /\ turns[queue[i].id].step = "saving"
    /\ queue[i].do = "delete" => queue[i].id \in missed
OnePut ==
  \A i, j \in 1 .. Len(queue) :
    queue[i].do = "put" /\ queue[j].do = "put" /\ queue[i].id = queue[j].id => i = j

\* A row has been put, with all that has been said, and its time is that of its last use.
Kept == {"sweep", "done"}
Stored ==
  \A n \in DOMAIN sessions :
    /\ turns[n].step \in Kept /\ sessions[n].msgs = turns[n].said
    /\ saved[n] # Never /\ saved[n] <= sessions[n].used
    /\ touched[n] <= sessions[n].used /\ sessions[n].used <= now

\* Nothing is put or touched before it is saved.
Dated ==
  \A n \in Ids :
    /\ saved[n] <= now /\ touched[n] <= now
    /\ ~(n \in Turns /\ turns[n].step \in Kept) => saved[n] = Never /\ touched[n] = Never

\* Who has been found expired has not been put lately, and never will be.
Gone  == \A n \in missed : saved[n] # Never /\ ~Recent(saved[n])
Lasts == \A n \in Turns : Recent(saved[n]) \/ (Recent(touched[n]) /\ n \notin missed) => n \in DOMAIN sessions

IInv == TypeOK /\ Histories /\ Queued /\ OnePut /\ Stored /\ Dated /\ Gone /\ Lasts

------------------------------------------------------------------------------
(* Sequences of turns and of writes. *)

LEMMA TurnsTyped ==
  ASSUME TypeOK, NEW n \in Turns
  PROVE  /\ turns[n] \in Turn /\ n \in Ids /\ n \in Nat \ {0} /\ Len(turns) \in Nat
BY DEF TypeOK, Turns, Ids

\* A turn changed in place.
LEMMA TurnSet ==
  ASSUME TypeOK, NEW n \in Turns, NEW t \in Turn, turns' = [turns EXCEPT ![n] = t]
  PROVE  /\ turns' \in Seq(Turn) /\ Len(turns') = Len(turns) /\ Turns' = Turns
         /\ turns'[n] = t /\ \A k \in Turns : k # n => turns'[k] = turns[k]
BY DEF TypeOK, Turns

LEMMA StepSet ==
  ASSUME TypeOK, NEW n \in Turns, NEW s \in Steps, turns' = [turns EXCEPT ![n].step = s]
  PROVE  /\ turns' \in Seq(Turn) /\ Len(turns') = Len(turns) /\ Turns' = Turns
         /\ turns'[n] = [turns[n] EXCEPT !.step = s] /\ \A k \in Turns : k # n => turns'[k] = turns[k]
<1>1. [turns[n] EXCEPT !.step = s] \in Turn
  BY TurnsTyped DEF Turn
<1>2. turns' = [turns EXCEPT ![n] = [turns[n] EXCEPT !.step = s]]
  OBVIOUS
<1> QED BY <1>1, <1>2, TurnSet

\* A write appended.
LEMMA Appended ==
  ASSUME TypeOK, NEW op \in Write, queue' = Append(queue, op)
  PROVE  /\ queue' \in Seq(Write) /\ Len(queue') = Len(queue) + 1
         /\ queue'[Len(queue) + 1] = op /\ \A i \in 1 .. Len(queue) : queue'[i] = queue[i]
BY DEF TypeOK

LEMMA Asynced ==
  ASSUME TypeOK, NEW op \in Write, DoAsync(op)
  PROVE  /\ queue' \in Seq(Write)
         /\ \A i \in 1 .. Len(queue') : (i \in 1 .. Len(queue) /\ queue'[i] = queue[i]) \/ queue'[i] = op
<1>1. CASE queue' = Append(queue, op)
  BY <1>1, Appended DEF TypeOK
<1>2. CASE UNCHANGED queue
  BY <1>2 DEF TypeOK
<1> QED BY <1>1, <1>2 DEF DoAsync

\* The writer takes the first.
LEMMA Taken ==
  ASSUME TypeOK, NEW do, Runs(do)
  PROVE  /\ 1 \in 1 .. Len(queue) /\ Head(queue) = queue[1] /\ queue[1] \in Write /\ queue[1].do = do
         /\ queue' \in Seq(Write)
         /\ \A i \in 1 .. Len(queue') : i + 1 \in 1 .. Len(queue) /\ queue'[i] = queue[i + 1]
BY DEF TypeOK, Runs

------------------------------------------------------------------------------
(* What steps have in common. *)

\* A step that leaves the rows and the clock alone, and takes no turn back.
LEMMA RowsLast ==
  ASSUME IInv, TypeOK', UNCHANGED <<now, sessions, saved, touched>>, missed \subseteq missed', Gone',
         Len(turns) <= Len(turns'),
         \A n \in Turns : turns'[n].said = turns[n].said /\ (turns[n].step \in Kept => turns'[n].step \in Kept)
  PROVE  Stored' /\ Dated' /\ Lasts'
<1>1. Turns \subseteq Turns' /\ Turns \subseteq Ids /\ Turns' \subseteq Ids
  BY DEF IInv, TypeOK, Turns, Ids
<1>2. Stored'
  BY <1>1 DEF IInv, TypeOK, Stored, Turns
<1>3. Dated'
  BY <1>1 DEF IInv, Dated
<1>4. Lasts'
  <2> SUFFICES ASSUME NEW n \in Turns', Recent(saved[n]) \/ (Recent(touched[n]) /\ n \notin missed) PROVE n \in DOMAIN sessions
    BY DEF Lasts, Recent
  <2>1. n \in Turns
    BY <1>1 DEF IInv, Dated, Recent
  <2> QED BY <2>1 DEF IInv, Lasts
<1> QED BY <1>2, <1>3, <1>4

\* Every turn keeps its place in the conversation.
LEMMA StoryLasts ==
  ASSUME TypeOK, Histories, Turns' = Turns,
         \A n \in Turns : /\ turns'[n].prev = turns[n].prev /\ turns'[n].said = turns[n].said
                          /\ turns'[n].step = "get" => turns[n].step = "get"
                          /\ turns'[n].step \notin {"get", "refused", "failed"} => turns'[n].hist = Before(n)
  PROVE  Histories'
<1>1. ASSUME NEW n \in Turns PROVE Before(n)' = Before(n)
  <2>1. turns[n].prev = 0 \/ turns[n].prev \in Turns
    BY TurnsTyped DEF Histories, Turns, Turn
  <2> QED BY <2>1 DEF Before
<1> QED BY <1>1 DEF Histories

\* No turn stops to wait for its put.
Waiting == \A k \in Turns : k \in Turns' /\ (turns[k].step = "saving" => turns'[k].step = "saving")

\* A queue that has gained no put.
Gained(op) ==
  /\ op.do # "put" /\ op.at <= now /\ (op.do = "delete" => op.id \in missed')
  /\ \A i \in 1 .. Len(queue') : (i \in 1 .. Len(queue) /\ queue'[i] = queue[i]) \/ queue'[i] = op

LEMMA QueueLasts ==
  ASSUME IInv, missed \subseteq missed', now' = now, Waiting, NEW op, Gained(op)
  PROVE  Queued' /\ OnePut'
<1>1. ASSUME NEW i \in 1 .. Len(queue')
      PROVE  (i \in 1 .. Len(queue) /\ queue'[i] = queue[i]) \/ queue'[i] = op
  BY DEF Gained
<1>2. ASSUME NEW i \in 1 .. Len(queue')
      PROVE  /\ queue'[i].at <= now'
             /\ queue'[i].do = "put" => queue'[i].id \in Turns' /\ turns'[queue'[i].id].step = "saving"
             /\ queue'[i].do = "delete" => queue'[i].id \in missed'
  <2>1. CASE queue'[i] = op
    BY <2>1 DEF Gained
  <2>2. CASE i \in 1 .. Len(queue) /\ queue'[i] = queue[i]
    BY <2>2 DEF IInv, Queued, Waiting
  <2> QED BY <1>1, <2>1, <2>2
<1>3. Queued'
  BY <1>2 DEF Queued
<1>4. \A i \in 1 .. Len(queue') : queue'[i].do = "put" => i \in 1 .. Len(queue) /\ queue'[i] = queue[i]
  BY <1>1 DEF Gained
<1>5. OnePut'
  BY <1>4 DEF IInv, OnePut
<1> QED BY <1>3, <1>5

LEMMA QueueStays ==
  ASSUME IInv, missed \subseteq missed', UNCHANGED <<now, queue>>, Waiting
  PROVE  Queued' /\ OnePut'
BY DEF IInv, Queued, OnePut, Waiting

\* A write taken from the queue.
LEMMA RestLasts ==
  ASSUME IInv, TypeOK', missed' = missed, now' = now, Turns' = Turns, NEW do, Runs(do),
         \A n \in Turns : turns[n].step = "saving" => turns'[n].step = "saving" \/ (do = "put" /\ n = queue[1].id)
  PROVE  Queued' /\ OnePut'
<1>1. \A i \in 1 .. Len(queue') : i + 1 \in 1 .. Len(queue) /\ queue'[i] = queue[i + 1] /\ i \in Nat
  BY Taken DEF IInv
<1>2. 1 \in 1 .. Len(queue) /\ queue[1].do = do
  BY Taken DEF IInv
<1>3. ASSUME NEW i \in 1 .. Len(queue')
      PROVE  queue'[i].do = "put" => queue'[i].id \in Turns /\ turns'[queue'[i].id].step = "saving"
  <2> SUFFICES ASSUME queue'[i].do = "put"
               PROVE  queue'[i].id \in Turns /\ turns'[queue'[i].id].step = "saving"
    OBVIOUS
  <2>1. i + 1 \in 1 .. Len(queue) /\ queue[i + 1] = queue'[i] /\ i + 1 # 1
    BY <1>1
  <2>2. queue'[i].id \in Turns /\ turns[queue'[i].id].step = "saving"
    BY <2>1 DEF IInv, Queued
  <2>3. queue[1].do = "put" => queue[1].id # queue'[i].id
    BY <1>2, <2>1 DEF IInv, OnePut
  <2> QED BY <1>2, <2>2, <2>3
<1>4. Queued'
  BY <1>1, <1>3 DEF IInv, Queued
<1>5. OnePut'
  <2> SUFFICES ASSUME NEW i \in 1 .. Len(queue'), NEW j \in 1 .. Len(queue'),
                      queue'[i].do = "put", queue'[j].do = "put", queue'[i].id = queue'[j].id
               PROVE  i = j
    BY DEF OnePut
  <2>1. i + 1 = j + 1 /\ i \in Nat /\ j \in Nat
    BY <1>1 DEF IInv, OnePut
  <2> QED BY <2>1
<1> QED BY <1>4, <1>5

LEMMA GoneLasts ==
  ASSUME IInv, UNCHANGED <<now, saved>>,
         \A n \in missed' : n \in missed \/ (saved[n] # Never /\ ~Recent(saved[n]))
  PROVE  Gone'
BY DEF IInv, Gone, Recent

------------------------------------------------------------------------------
LEMMA InvInit == Init => IInv
<1> SUFFICES ASSUME Init PROVE IInv
  OBVIOUS
<1>1. turns = <<>> /\ Len(turns) = 0 /\ queue = <<>> /\ Len(queue) = 0 /\ Turns = {} /\ now = 0 /\ missed = {}
      /\ DOMAIN sessions = {}
  BY DEF Init, Turns
<1>2. sessions \in [DOMAIN sessions -> Row]
  BY <1>1 DEF Init
<1>3. turns \in Seq(Turn) /\ queue \in Seq(Write)
  BY <1>1
<1>4. saved \in [Ids -> Times] /\ touched \in [Ids -> Times]
  BY DEF Init, Times
<1>5. TypeOK
  BY <1>1, <1>2, <1>3, <1>4 DEF TypeOK
<1> QED BY <1>1, <1>5 DEF Init, IInv, Histories, Queued, OnePut, Stored, Dated, Gone, Lasts

------------------------------------------------------------------------------
(* The steps of a request. *)

LEMMA OpTyped == ASSUME TypeOK, NEW do \in {"put", "touch", "delete", "sweep"}, NEW k \in Nat
                 PROVE  /\ Op(do, k) \in Write /\ Op(do, k).do = do /\ Op(do, k).id = k /\ Op(do, k).at = now
BY DEF TypeOK, Op, Write

\* A new step of a request that leaves its history alone, and what comes of it.
Moving(n, s) ==
  /\ n \in Turns /\ s \in Steps /\ s # "get" /\ turns' = [turns EXCEPT ![n].step = s]
  /\ s \notin {"refused", "failed"} => turns[n].step \notin {"get", "refused", "failed"}
  /\ turns[n].step \in Kept => s \in Kept
Moves(n, s) ==
  /\ turns' \in Seq(Turn) /\ Len(turns') = Len(turns) /\ Turns' = Turns /\ turns'[n].step = s
  /\ \A k \in Turns : /\ turns'[k].said = turns[k].said /\ (turns[k].step \in Kept => turns'[k].step \in Kept)
                      /\ k # n => turns'[k].step = turns[k].step
  /\ TypeOK' => Histories'

LEMMA Moved == ASSUME IInv, NEW n, NEW s, Moving(n, s) PROVE Moves(n, s)
<1>1. /\ turns' \in Seq(Turn) /\ Len(turns') = Len(turns) /\ Turns' = Turns
      /\ turns'[n] = [turns[n] EXCEPT !.step = s] /\ \A k \in Turns : k # n => turns'[k] = turns[k]
  BY StepSet DEF IInv, Moving
<1>2. turns[n] \in Turn
  BY TurnsTyped DEF IInv, Moving
<1>3. /\ turns'[n].prev = turns[n].prev /\ turns'[n].said = turns[n].said /\ turns'[n].hist = turns[n].hist
      /\ turns'[n].step = s
  BY <1>1, <1>2 DEF Turn
<1>4. \A k \in Turns : /\ turns'[k].prev = turns[k].prev /\ turns'[k].said = turns[k].said
                       /\ turns'[k].hist = turns[k].hist
                       /\ turns'[k].step = IF k = n THEN s ELSE turns[k].step
  BY <1>1, <1>3
<1>5. ASSUME TypeOK' PROVE Histories'
  <2>1. \A k \in Turns : /\ turns'[k].step = "get" => turns[k].step = "get"
                         /\ turns'[k].step \notin {"get", "refused", "failed"} => turns'[k].hist = Before(k)
    BY <1>4 DEF IInv, Histories, Moving
  <2> QED BY <1>1, <1>4, <2>1, StoryLasts DEF IInv
<1>6. \A k \in Turns : turns[k].step \in Kept => turns'[k].step \in Kept
  BY <1>4 DEF Moving
<1> QED BY <1>1, <1>3, <1>4, <1>5, <1>6 DEF Moves

LEMMA GetSafe == ASSUME IInv, NEW n \in Turns, Get(n) PROVE IInv'
<1> DEFINE prev == turns[n].prev
<1>1. turns[n] \in Turn /\ n \in Nat /\ prev \in Nat /\ turns[n].step = "get"
  BY TurnsTyped DEF IInv, Get, Turn
<1>2. prev \in DOMAIN sessions /\ sessions[prev] \in Row /\ sessions[prev].msgs = turns[prev].said /\ prev # 0
  BY <1>1 DEF IInv, TypeOK, Stored, Histories, Get, Live
<1>3. sessions[prev].msgs = Before(n) /\ sessions[prev].msgs \in Seq(Msgs)
  BY <1>2 DEF Before, Row
<1>4. turns' = [turns EXCEPT ![n] = [turns[n] EXCEPT !.step = "call", !.hist = Before(n)]]
  BY <1>3 DEF Get
<1>5. [turns[n] EXCEPT !.step = "call", !.hist = Before(n)] \in Turn
  BY <1>1, <1>3 DEF Turn, Steps
<1>6. /\ turns' \in Seq(Turn) /\ Len(turns') = Len(turns) /\ Turns' = Turns
      /\ turns'[n] = [turns[n] EXCEPT !.step = "call", !.hist = Before(n)] /\ \A k \in Turns : k # n => turns'[k] = turns[k]
  BY <1>4, <1>5, TurnSet DEF IInv
<1>7. turns'[n].prev = prev /\ turns'[n].said = turns[n].said /\ turns'[n].hist = Before(n) /\ turns'[n].step = "call"
  BY <1>1, <1>6 DEF Turn
<1>8. UNCHANGED <<now, sessions, saved, touched, missed, faults>> /\ DoAsync(Op("touch", prev))
  BY DEF Get
<1>9. Op("touch", prev) \in Write /\ Op("touch", prev).do = "touch" /\ Op("touch", prev).at = now /\ now \in Nat
  BY <1>1, OpTyped DEF IInv, TypeOK
<1>10. /\ queue' \in Seq(Write)
       /\ \A i \in 1 .. Len(queue') : (i \in 1 .. Len(queue) /\ queue'[i] = queue[i]) \/ queue'[i] = Op("touch", prev)
  BY <1>8, <1>9, Asynced DEF IInv
<1>11. TypeOK'
  BY <1>6, <1>8, <1>10 DEF IInv, TypeOK, Ids
<1>12. Histories'
  BY <1>6, <1>7, <1>11, StoryLasts DEF IInv, Histories
<1>13. Gone'
  BY <1>8, GoneLasts
<1>14. Stored' /\ Dated' /\ Lasts'
  <2>1. \A k \in Turns : turns'[k].said = turns[k].said /\ (turns[k].step \in Kept => turns'[k].step \in Kept)
    BY <1>1, <1>6, <1>7 DEF Kept
  <2>2. Len(turns) <= Len(turns') /\ UNCHANGED <<now, sessions, saved, touched>> /\ missed \subseteq missed'
    BY <1>6, <1>8 DEF IInv, TypeOK
  <2> QED BY <1>11, <1>13, <2>1, <2>2, RowsLast
<1>15. Queued' /\ OnePut'
  <2>1. Waiting
    BY <1>1, <1>6 DEF Waiting
  <2>2. Gained(Op("touch", prev))
    BY <1>9, <1>10 DEF Gained
  <2> QED BY <1>8, <2>1, <2>2, QueueLasts
<1> QED BY <1>11, <1>12, <1>13, <1>14, <1>15 DEF IInv

\* Who finds a session expired finds that it was saved too long ago.
LEMMA RefuseSafe == ASSUME IInv, NEW n \in Turns, Refuse(n) PROVE IInv'
<1> DEFINE prev == turns[n].prev
<1>1. turns[n] \in Turn /\ n \in Nat /\ prev \in Nat /\ turns[n].step = "get" /\ turns' = [turns EXCEPT ![n].step = "refused"]
  BY TurnsTyped DEF IInv, Refuse, Turn
<1>2. UNCHANGED <<now, sessions, saved, touched, faults>>
  BY DEF Refuse
<1>3. /\ turns' \in Seq(Turn) /\ Len(turns') = Len(turns) /\ Turns' = Turns
      /\ \A k \in Turns : /\ turns'[k].said = turns[k].said /\ (turns[k].step \in Kept => turns'[k].step \in Kept)
                          /\ k # n => turns'[k].step = turns[k].step
      /\ TypeOK' => Histories'
  <2>1. Moving(n, "refused")
    BY <1>1 DEF Moving, Steps, Kept
  <2>2. Moves(n, "refused")
    BY <2>1, Moved
  <2> QED BY <2>2 DEF Moves
<1>4. Op("delete", prev) \in Write /\ Op("delete", prev).do = "delete" /\ Op("delete", prev).at = now
      /\ Op("delete", prev).id = prev /\ now \in Nat
  BY <1>1, OpTyped DEF IInv, TypeOK
<1>5. /\ queue' \in Seq(Write) /\ missed \subseteq missed' /\ (prev \in missed' \/ queue' = queue)
      /\ \A i \in 1 .. Len(queue') : (i \in 1 .. Len(queue) /\ queue'[i] = queue[i]) \/ (queue'[i] = Op("delete", prev) /\ prev \in missed')
  <2>1. CASE prev \in DOMAIN sessions
    <3>1. DoAsync(Op("delete", prev)) /\ missed' = missed \union {prev}
      BY <2>1 DEF Refuse
    <3> QED BY <1>4, <3>1, Asynced DEF IInv
  <2>2. CASE prev \notin DOMAIN sessions
    BY <2>2 DEF Refuse, IInv, TypeOK
  <2> QED BY <2>1, <2>2
<1>6. \A k \in missed' : k \in missed \/ (saved[k] # Never /\ ~Recent(saved[k]) /\ k \in Turns)
  <2> SUFFICES ASSUME prev \in DOMAIN sessions, ~Live(prev)
               PROVE  saved[prev] # Never /\ ~Recent(saved[prev]) /\ prev \in Turns
    BY DEF Refuse
  <2>1. /\ saved[prev] # Never /\ saved[prev] <= sessions[prev].used /\ prev \in Turns
        /\ now - sessions[prev].used > TTL /\ prev \in Ids /\ sessions[prev] \in Row
    BY DEF IInv, Stored, Live, Expired, TypeOK, Turns, Ids
  <2>2. sessions[prev].used \in Nat /\ saved[prev] \in Nat /\ now \in Nat /\ TTL \in Nat
    BY <2>1 DEF IInv, TypeOK, Row, Times
  <2> QED BY <2>1, <2>2 DEF Recent
<1>7. TypeOK'
  BY <1>2, <1>3, <1>5, <1>6 DEF IInv, TypeOK, Ids, Turns
<1>8. Gone'
  BY <1>2, <1>6, GoneLasts
<1>9. Stored' /\ Dated' /\ Lasts'
  BY <1>2, <1>3, <1>5, <1>7, <1>8, RowsLast
<1>10. Queued' /\ OnePut'
  <2>1. Waiting
    BY <1>1, <1>3 DEF Waiting
  <2>2. CASE prev \in missed'
    <3>1. Gained(Op("delete", prev))
      BY <1>4, <1>5, <2>2 DEF Gained
    <3> QED BY <1>2, <1>5, <2>1, <3>1, QueueLasts
  <2>3. CASE queue' = queue
    BY <1>2, <1>5, <2>1, <2>3, QueueStays
  <2> QED BY <1>5, <2>2, <2>3
<1> QED BY <1>3, <1>7, <1>8, <1>9, <1>10 DEF IInv

\* A step of a handler that queues nothing.
LEMMA MoveSafe ==
  ASSUME IInv, NEW n \in Turns, turns[n].step \in {"call"}, NEW s \in {"failed", "save"},
         turns' = [turns EXCEPT ![n].step = s], UNCHANGED <<now, sessions, queue, saved, touched, missed, faults>>
  PROVE  IInv'
<1>1. Moving(n, s)
  BY DEF Moving, Steps, Kept
<1>2. /\ turns' \in Seq(Turn) /\ Len(turns') = Len(turns) /\ Turns' = Turns
      /\ \A k \in Turns : /\ turns'[k].said = turns[k].said /\ (turns[k].step \in Kept => turns'[k].step \in Kept)
                          /\ k # n => turns'[k].step = turns[k].step
      /\ TypeOK' => Histories'
  BY <1>1, Moved DEF Moves
<1>3. TypeOK'
  BY <1>2 DEF IInv, TypeOK, Ids
<1>4. Gone'
  BY GoneLasts
<1>5. Len(turns) <= Len(turns')
  BY <1>2 DEF IInv, TypeOK
<1>6. Stored' /\ Dated' /\ Lasts'
  BY <1>2, <1>3, <1>4, <1>5, RowsLast
<1>7. Queued' /\ OnePut'
  <2>1. Waiting
    BY <1>2 DEF Waiting
  <2> QED BY <2>1, QueueStays
<1> QED BY <1>2, <1>3, <1>4, <1>6, <1>7 DEF IInv

LEMMA SeeSafe == ASSUME IInv, NEW n \in Turns, See(n) PROVE IInv'
<1>1. turns' = [turns EXCEPT ![n] = [turns[n] EXCEPT !.seen = TRUE]]
  BY DEF See
<1>2. turns[n] \in Turn /\ [turns[n] EXCEPT !.seen = TRUE] \in Turn
  BY TurnsTyped DEF IInv, Turn
<1>3. /\ turns' \in Seq(Turn) /\ Len(turns') = Len(turns) /\ Turns' = Turns
      /\ turns'[n] = [turns[n] EXCEPT !.seen = TRUE] /\ \A k \in Turns : k # n => turns'[k] = turns[k]
  BY <1>1, <1>2, TurnSet DEF IInv
<1>4. \A k \in Turns : /\ turns'[k].prev = turns[k].prev /\ turns'[k].said = turns[k].said
                       /\ turns'[k].hist = turns[k].hist /\ turns'[k].step = turns[k].step
  BY <1>2, <1>3 DEF Turn
<1>5. UNCHANGED <<now, sessions, queue, saved, touched, missed, faults>>
  BY DEF See
<1>6. TypeOK'
  BY <1>3, <1>5 DEF IInv, TypeOK, Ids
<1>7. Histories'
  BY <1>3, <1>4, StoryLasts DEF IInv, Histories
<1>8. Gone'
  BY <1>5, GoneLasts
<1>9. Len(turns) <= Len(turns') /\ \A k \in Turns : turns'[k].said = turns[k].said /\ (turns[k].step \in Kept => turns'[k].step \in Kept)
  BY <1>3, <1>4 DEF IInv, TypeOK
<1>10. Stored' /\ Dated' /\ Lasts'
  BY <1>5, <1>6, <1>8, <1>9, RowsLast
<1>11. Queued' /\ OnePut'
  <2>1. Waiting
    BY <1>3, <1>4 DEF Waiting
  <2> QED BY <1>5, <2>1, QueueStays
<1> QED BY <1>6, <1>7, <1>8, <1>10, <1>11 DEF IInv

LEMMA SaveSafe == ASSUME IInv, NEW n \in Turns, Save(n) PROVE IInv'
<1>1. turns[n].step = "save" /\ turns' = [turns EXCEPT ![n].step = "saving"] /\ queue' = Append(queue, Op("put", n))
      /\ UNCHANGED <<now, sessions, saved, touched, missed, faults>>
  BY DEF Save
<1>2. Moving(n, "saving")
  BY <1>1 DEF Moving, Steps, Kept
<1>3. /\ turns' \in Seq(Turn) /\ Len(turns') = Len(turns) /\ Turns' = Turns /\ turns'[n].step = "saving"
      /\ \A k \in Turns : /\ turns'[k].said = turns[k].said /\ (turns[k].step \in Kept => turns'[k].step \in Kept)
                          /\ k # n => turns'[k].step = turns[k].step
      /\ TypeOK' => Histories'
  BY <1>2, Moved DEF Moves
<1>4. Op("put", n) \in Write /\ Op("put", n).do = "put" /\ Op("put", n).at = now /\ Op("put", n).id = n
      /\ now \in Nat /\ Len(queue) \in Nat
  BY TurnsTyped, OpTyped DEF IInv, TypeOK
<1>5. /\ queue' \in Seq(Write) /\ Len(queue') = Len(queue) + 1
      /\ queue'[Len(queue) + 1] = Op("put", n) /\ \A i \in 1 .. Len(queue) : queue'[i] = queue[i]
  BY <1>1, <1>4, Appended DEF IInv
<1>6. TypeOK'
  BY <1>1, <1>3, <1>5 DEF IInv, TypeOK, Ids
<1>7. Gone'
  BY <1>1, GoneLasts
<1>8. Len(turns) <= Len(turns')
  BY <1>3 DEF IInv, TypeOK
<1>9. Stored' /\ Dated' /\ Lasts'
  BY <1>1, <1>3, <1>6, <1>7, <1>8, RowsLast
<1>10. \A i \in 1 .. Len(queue') : (i \in 1 .. Len(queue) /\ queue'[i] = queue[i]) \/ (i = Len(queue) + 1 /\ queue'[i] = Op("put", n))
  BY <1>4, <1>5
<1>11. \A i \in 1 .. Len(queue) : queue[i].do = "put" => queue[i].id # n
  BY <1>1 DEF IInv, Queued
<1>12. Queued'
  BY <1>1, <1>3, <1>4, <1>10 DEF IInv, Queued
<1>13. OnePut'
  BY <1>4, <1>10, <1>11 DEF IInv, OnePut
<1> QED BY <1>3, <1>6, <1>7, <1>9, <1>12, <1>13 DEF IInv

LEMMA SweepSafe == ASSUME IInv, NEW n \in Turns, Sweep(n) PROVE IInv'
<1>1. turns[n].step = "sweep" /\ turns' = [turns EXCEPT ![n].step = "done"] /\ DoAsync(Op("sweep", n))
      /\ UNCHANGED <<now, sessions, saved, touched, missed, faults>>
  BY DEF Sweep
<1>2. Moving(n, "done")
  BY <1>1 DEF Moving, Steps, Kept
<1>3. /\ turns' \in Seq(Turn) /\ Len(turns') = Len(turns) /\ Turns' = Turns /\ turns'[n].step = "done"
      /\ \A k \in Turns : /\ turns'[k].said = turns[k].said /\ (turns[k].step \in Kept => turns'[k].step \in Kept)
                          /\ k # n => turns'[k].step = turns[k].step
      /\ TypeOK' => Histories'
  BY <1>2, Moved DEF Moves
<1>4. Op("sweep", n) \in Write /\ Op("sweep", n).do = "sweep" /\ Op("sweep", n).at = now /\ now \in Nat
  BY TurnsTyped, OpTyped DEF IInv, TypeOK
<1>5. /\ queue' \in Seq(Write)
      /\ \A i \in 1 .. Len(queue') : (i \in 1 .. Len(queue) /\ queue'[i] = queue[i]) \/ queue'[i] = Op("sweep", n)
  BY <1>1, <1>4, Asynced DEF IInv
<1>6. TypeOK'
  BY <1>1, <1>3, <1>5 DEF IInv, TypeOK, Ids
<1>7. Gone'
  BY <1>1, GoneLasts
<1>8. Len(turns) <= Len(turns')
  BY <1>3 DEF IInv, TypeOK
<1>9. Stored' /\ Dated' /\ Lasts'
  BY <1>1, <1>3, <1>6, <1>7, <1>8, RowsLast
<1>10. Waiting /\ Gained(Op("sweep", n))
  BY <1>1, <1>3, <1>4, <1>5 DEF Waiting, Gained
<1>11. Queued' /\ OnePut'
  BY <1>1, <1>10, QueueLasts
<1> QED BY <1>3, <1>6, <1>7, <1>9, <1>11 DEF IInv

LEMMA RequestSafe == ASSUME IInv, NEW prev \in Turns \union {NoId}, Request(prev) PROVE IInv'
<1> DEFINE n == Len(turns) + 1
           t == [prev |-> prev, step |-> IF prev = NoId THEN "call" ELSE "get",
                 hist |-> <<>>, seen |-> FALSE, said |-> Said(prev) \o Exchange(n)]
<1>1. turns' = Append(turns, t) /\ Len(turns) < MaxTurns /\ UNCHANGED <<now, sessions, queue, saved, touched, missed, faults>>
  BY DEF Request
<1>2. turns \in Seq(Turn) /\ Len(turns) \in Nat /\ MaxTurns \in Nat
  BY DEF IInv, TypeOK
<1>3. prev \in Nat /\ prev < n /\ n \in Nat \ {0}
  BY <1>2 DEF Turns
<1>4. Said(prev) \in Seq(Msgs)
  BY TurnsTyped DEF Said, IInv, Turn
<1>5. Exchange(n) \in Seq(Msgs)
  BY <1>3 DEF Exchange, Msgs
<1>6. t \in Turn
  <2>1. Said(prev) \o Exchange(n) \in Seq(Msgs) /\ <<>> \in Seq(Msgs)
    BY <1>4, <1>5
  <2> QED BY <1>3, <2>1 DEF Turn, Steps
<1>7. /\ turns' \in Seq(Turn) /\ Len(turns') = n /\ turns'[n] = t /\ Turns' = Turns \union {n} /\ n \notin Turns
      /\ \A k \in Turns : turns'[k] = turns[k]
  BY <1>1, <1>2, <1>6 DEF Turns
<1>8. TypeOK'
  BY <1>1, <1>2, <1>7 DEF IInv, TypeOK, Ids
<1>9. Histories'
  <2>1. ASSUME NEW k \in Turns' PROVE Before(k)' = IF k = n THEN Said(prev) ELSE Before(k)
    <3>1. CASE k = n
      BY <1>7, <3>1 DEF Before, Said
    <3>2. CASE k \in Turns
      <4>1. turns[k].prev = 0 \/ turns[k].prev \in Turns
        BY <3>2, TurnsTyped DEF IInv, Histories, Turns, Turn
      <4> QED BY <1>7, <3>2, <4>1 DEF Before
    <3> QED BY <1>7, <3>1, <3>2
  <2>2. /\ t.prev = prev /\ t.said = Said(prev) \o Exchange(n) /\ t.hist = <<>>
        /\ t.step = "get" => prev # 0
        /\ t.step # "get" => prev = 0
    OBVIOUS
  <2>3. prev = 0 => Said(prev) = <<>>
    BY DEF Said
  <2>4. ASSUME NEW k \in Turns
        PROVE  /\ turns'[k].prev < k /\ turns'[k].said = Before(k)' \o Exchange(k)
               /\ turns'[k].step = "get" => turns'[k].prev # 0
               /\ turns'[k].step \notin {"get", "refused", "failed"} => turns'[k].hist = Before(k)'
    <3>1. turns'[k] = turns[k] /\ Before(k)' = Before(k)
      BY <1>7, <2>1
    <3> QED BY <3>1 DEF IInv, Histories
  <2>5. ASSUME NEW k \in Turns', k = n
        PROVE  /\ turns'[k].prev < k /\ turns'[k].said = Before(k)' \o Exchange(k)
               /\ turns'[k].step = "get" => turns'[k].prev # 0
               /\ turns'[k].step \notin {"get", "refused", "failed"} => turns'[k].hist = Before(k)'
    <3>1. turns'[k] = t /\ Before(k)' = Said(prev)
      BY <1>7, <2>1, <2>5
    <3>2. t.step # "get" => t.hist = Said(prev)
      BY <2>2, <2>3
    <3> QED BY <1>3, <2>2, <2>5, <3>1, <3>2
  <2> HIDE DEF n, t
  <2>6. ASSUME NEW k \in Turns'
        PROVE  /\ turns'[k].prev < k /\ turns'[k].said = Before(k)' \o Exchange(k)
               /\ turns'[k].step = "get" => turns'[k].prev # 0
               /\ turns'[k].step \notin {"get", "refused", "failed"} => turns'[k].hist = Before(k)'
    <3>1. CASE k = n
      BY <2>5, <3>1
    <3>2. CASE k \in Turns
      BY <2>4, <3>2
    <3> QED BY <1>7, <3>1, <3>2
  <2> QED BY <2>6 DEF Histories
<1>10. Gone'
  BY <1>1, GoneLasts
<1>11. Len(turns) <= Len(turns') /\ \A k \in Turns : turns'[k].said = turns[k].said /\ (turns[k].step \in Kept => turns'[k].step \in Kept)
  BY <1>2, <1>7
<1>12. Stored' /\ Dated' /\ Lasts'
  BY <1>1, <1>8, <1>10, <1>11, RowsLast
<1>13. Queued' /\ OnePut'
  <2>1. Waiting
    BY <1>7 DEF Waiting
  <2> QED BY <1>1, <2>1, QueueStays
<1> QED BY <1>8, <1>9, <1>10, <1>12, <1>13 DEF IInv

------------------------------------------------------------------------------
(* The steps of the writer. *)

\* A put adds a row for a request that has none, and no past.
LEMMA RunPutSafe == ASSUME IInv, RunPut PROVE IInv'
<1> DEFINE n == queue[1].id
           at == queue[1].at
<1>1. /\ Runs("put") /\ 1 \in 1 .. Len(queue) /\ Head(queue) = queue[1] /\ queue[1] \in Write /\ queue[1].do = "put"
      /\ queue' \in Seq(Write)
  BY Taken DEF IInv, RunPut
<1>2. n \in Turns /\ turns[n].step = "saving" /\ at <= now /\ at \in Nat
  BY <1>1 DEF IInv, Queued, Write
<1>3. n \in Ids /\ turns[n] \in Turn /\ n \notin DOMAIN sessions /\ saved[n] = Never /\ touched[n] = Never
  BY <1>2, TurnsTyped DEF IInv, Stored, Dated, Kept
<1>4. History(n) = turns[n].said /\ turns[n].said \in Seq(Msgs)
  BY <1>2, <1>3 DEF IInv, Histories, History, Turn
<1>5. /\ sessions' = [k \in DOMAIN sessions \union {n} |-> IF k = n THEN [msgs |-> turns[n].said, used |-> at] ELSE sessions[k]]
      /\ saved' = [saved EXCEPT ![n] = at] /\ turns' = [turns EXCEPT ![n].step = "sweep"]
      /\ UNCHANGED <<now, touched, missed, faults>>
  BY <1>1, <1>4 DEF RunPut
<1>6. Moving(n, "sweep") /\ turns[n].step \notin Kept
  BY <1>2, <1>5 DEF Moving, Steps, Kept
<1>7. /\ turns' \in Seq(Turn) /\ Len(turns') = Len(turns) /\ Turns' = Turns /\ turns'[n].step = "sweep"
      /\ \A k \in Turns : /\ turns'[k].said = turns[k].said /\ (turns[k].step \in Kept => turns'[k].step \in Kept)
                          /\ k # n => turns'[k].step = turns[k].step
      /\ TypeOK' => Histories'
  BY <1>6, Moved DEF Moves
<1>8. DOMAIN sessions' = DOMAIN sessions \union {n} /\ sessions'[n] = [msgs |-> turns[n].said, used |-> at]
      /\ \A k \in DOMAIN sessions : k # n /\ sessions'[k] = sessions[k]
  BY <1>3, <1>5
<1>9. saved'[n] = at /\ \A k \in Ids : k # n => saved'[k] = saved[k]
  BY <1>3, <1>5 DEF IInv, TypeOK
<1>10. TypeOK'
  <2>1. sessions' \in [DOMAIN sessions' -> Row]
    BY <1>2, <1>4, <1>5, <1>8 DEF IInv, TypeOK, Row
  <2>2. saved' \in [Ids -> Times]
    BY <1>2, <1>5 DEF IInv, TypeOK, Times
  <2>3. DOMAIN sessions' \subseteq 1 .. Len(turns')
    BY <1>2, <1>7, <1>8 DEF IInv, TypeOK, Turns
  <2> QED BY <1>1, <1>5, <1>7, <2>1, <2>2, <2>3 DEF IInv, TypeOK
<1>11. DOMAIN sessions \subseteq Turns /\ Turns \subseteq Ids /\ missed \subseteq Turns
  BY DEF IInv, TypeOK, Turns, Ids
<1>12. Stored'
  <2>1. ASSUME NEW k \in DOMAIN sessions
        PROVE  /\ turns'[k].step \in Kept /\ sessions'[k].msgs = turns'[k].said /\ saved'[k] # Never
               /\ saved'[k] <= sessions'[k].used /\ touched'[k] <= sessions'[k].used /\ sessions'[k].used <= now'
    BY <1>5, <1>7, <1>8, <1>9, <1>11, <2>1 DEF IInv, Stored
  <2>2. /\ turns'[n].step \in Kept /\ sessions'[n].msgs = turns'[n].said /\ saved'[n] # Never
        /\ saved'[n] <= sessions'[n].used /\ touched'[n] <= sessions'[n].used /\ sessions'[n].used <= now'
    BY <1>2, <1>3, <1>5, <1>7, <1>8, <1>9 DEF Kept
  <2> QED BY <1>8, <2>1, <2>2 DEF Stored
<1>13. Dated'
  BY <1>2, <1>3, <1>5, <1>6, <1>7, <1>9 DEF IInv, Dated, Kept
<1>14. Gone'
  BY <1>3, <1>5, <1>9, <1>11 DEF IInv, Gone, Recent
<1>15. Lasts'
  BY <1>5, <1>7, <1>8, <1>9, <1>11 DEF IInv, Lasts, Recent
<1>16. Queued' /\ OnePut'
  BY <1>1, <1>5, <1>7, <1>10, RestLasts
<1> QED BY <1>7, <1>10, <1>12, <1>13, <1>14, <1>15, <1>16 DEF IInv

LEMMA RunPutFailsSafe == ASSUME IInv, RunPutFails PROVE IInv'
<1> DEFINE n == queue[1].id
<1>1. /\ Runs("put") /\ 1 \in 1 .. Len(queue) /\ Head(queue) = queue[1] /\ queue[1] \in Write /\ queue[1].do = "put"
      /\ queue' \in Seq(Write)
  BY Taken DEF IInv, RunPutFails
<1>2. n \in Turns /\ turns[n].step = "saving"
  BY <1>1 DEF IInv, Queued
<1>3. turns' = [turns EXCEPT ![n].step = "done"] /\ UNCHANGED <<now, sessions, saved, touched, missed>>
  BY <1>1 DEF RunPutFails
<1>4. Moving(n, "done")
  BY <1>2, <1>3 DEF Moving, Steps, Kept
<1>5. /\ turns' \in Seq(Turn) /\ Len(turns') = Len(turns) /\ Turns' = Turns /\ turns'[n].step = "done"
      /\ \A k \in Turns : /\ turns'[k].said = turns[k].said /\ (turns[k].step \in Kept => turns'[k].step \in Kept)
                          /\ k # n => turns'[k].step = turns[k].step
      /\ TypeOK' => Histories'
  BY <1>4, Moved DEF Moves
<1>6. TypeOK'
  BY <1>1, <1>3, <1>5 DEF IInv, TypeOK
<1>7. Gone'
  BY <1>3, GoneLasts
<1>8. Len(turns) <= Len(turns')
  BY <1>5 DEF IInv, TypeOK
<1>9. Stored' /\ Dated' /\ Lasts'
  BY <1>3, <1>5, <1>6, <1>7, <1>8, RowsLast
<1>10. Queued' /\ OnePut'
  BY <1>1, <1>3, <1>5, <1>6, RestLasts
<1> QED BY <1>5, <1>6, <1>7, <1>9, <1>10 DEF IInv

\* A step that changes no turn: what has been queued, and what has been said, stands.
LEMMA Standing ==
  ASSUME IInv, TypeOK', UNCHANGED <<now, turns, missed>>, NEW do \in {"touch", "delete", "sweep"}, Runs(do)
  PROVE  Histories' /\ Queued' /\ OnePut' /\ Turns' = Turns
<1>1. Turns' = Turns
  BY DEF Turns
<1>2. Histories'
  BY <1>1 DEF IInv, Histories, Before
<1>3. Queued' /\ OnePut'
  BY <1>1, RestLasts
<1> QED BY <1>1, <1>2, <1>3

LEMMA RunTouchSafe == ASSUME IInv, RunTouch PROVE IInv'
<1> DEFINE n == queue[1].id
<1>1. /\ Runs("touch") /\ Head(queue) = queue[1] /\ queue' \in Seq(Write)
  BY Taken DEF IInv, RunTouch
<1>2. UNCHANGED <<now, turns, saved, missed, faults>>
  BY DEF RunTouch
<1>3. CASE n \notin DOMAIN sessions
  <2>1. UNCHANGED <<sessions, touched>>
    BY <1>1, <1>3 DEF RunTouch
  <2>2. TypeOK'
    BY <1>1, <1>2, <2>1 DEF IInv, TypeOK
  <2>3. Histories' /\ Queued' /\ OnePut' /\ Turns' = Turns
    BY <1>1, <1>2, <2>2, Standing
  <2> QED BY <1>2, <2>1, <2>2, <2>3 DEF IInv, Stored, Dated, Gone, Lasts, Recent
<1>4. CASE n \in DOMAIN sessions
  <2>1. sessions' = [sessions EXCEPT ![n].used = now] /\ touched' = [touched EXCEPT ![n] = now]
    BY <1>1, <1>4 DEF RunTouch
  <2>2. n \in Turns /\ n \in Ids /\ sessions[n] \in Row /\ now \in Nat /\ turns[n].step \in Kept
    BY <1>4, TurnsTyped DEF IInv, TypeOK, Turns, Stored
  <2>3. [sessions[n] EXCEPT !.used = now] \in Row /\ sessions' = [sessions EXCEPT ![n] = [sessions[n] EXCEPT !.used = now]]
    BY <2>1, <2>2 DEF Row
  <2>4. /\ DOMAIN sessions' = DOMAIN sessions /\ sessions'[n].msgs = sessions[n].msgs /\ sessions'[n].used = now
        /\ \A k \in DOMAIN sessions : k # n => sessions'[k] = sessions[k]
    BY <1>4, <2>2, <2>3 DEF Row
  <2>5. touched'[n] = now /\ \A k \in Ids : k # n => touched'[k] = touched[k]
    BY <2>1, <2>2 DEF IInv, TypeOK
  <2>6. TypeOK'
    <3>1. sessions' \in [DOMAIN sessions' -> Row]
      BY <2>3, <2>4 DEF IInv, TypeOK
    <3>2. touched' \in [Ids -> Times]
      BY <2>1, <2>2 DEF IInv, TypeOK, Times
    <3> QED BY <1>1, <1>2, <2>4, <3>1, <3>2 DEF IInv, TypeOK
  <2>7. Histories' /\ Queued' /\ OnePut' /\ Turns' = Turns
    BY <1>1, <1>2, <2>6, Standing
  <2>8. DOMAIN sessions \subseteq Ids
    BY DEF IInv, TypeOK, Ids
  <2>9. Stored'
    BY <1>2, <2>2, <2>4, <2>5, <2>8 DEF IInv, Stored, Dated
  <2>10. Dated'
    BY <1>2, <2>2, <2>5, <2>7 DEF IInv, Dated
  <2>11. Gone'
    BY <1>2 DEF IInv, Gone, Recent
  <2>12. Lasts'
    <3> SUFFICES ASSUME NEW k \in Turns, k # n, Recent(saved[k])' \/ (Recent(touched[k])' /\ k \notin missed)
                 PROVE  k \in DOMAIN sessions
      BY <1>2, <1>4, <2>4, <2>7 DEF Lasts
    <3>1. Recent(saved[k]) \/ (Recent(touched[k]) /\ k \notin missed)
      BY <1>2, <2>5, TurnsTyped DEF IInv, Recent
    <3> QED BY <3>1 DEF IInv, Lasts
  <2> QED BY <2>6, <2>7, <2>9, <2>10, <2>11, <2>12 DEF IInv
<1> QED BY <1>3, <1>4

\* Rows go, and those that are still due stay.
LEMMA SomeGo ==
  ASSUME IInv, UNCHANGED <<now, turns, saved, touched, missed>>, NEW do \in {"delete", "sweep"}, Runs(do),
         NEW gone, sessions' = Keep(DOMAIN sessions \ gone),
         \A n \in DOMAIN sessions \cap gone : ~Recent(saved[n]) /\ (n \in missed \/ ~Recent(touched[n]))
  PROVE  IInv'
<1>1. queue' \in Seq(Write)
  BY Taken DEF IInv
<1>2. DOMAIN sessions' = DOMAIN sessions \ gone /\ \A n \in DOMAIN sessions' : sessions'[n] = sessions[n]
  BY DEF Keep
<1>3. TypeOK'
  <2>1. sessions' \in [DOMAIN sessions' -> Row]
    BY <1>2 DEF IInv, TypeOK, Keep
  <2> QED BY <1>1, <1>2, <2>1 DEF IInv, TypeOK
<1>4. Histories' /\ Queued' /\ OnePut' /\ Turns' = Turns
  BY <1>3, Standing
<1>5. Stored'
  BY <1>2 DEF IInv, Stored
<1>6. Dated' /\ Gone'
  BY <1>4 DEF IInv, Dated, Gone, Recent
<1>7. Lasts'
  BY <1>2, <1>4 DEF IInv, Lasts, Recent
<1> QED BY <1>3, <1>4, <1>5, <1>6, <1>7 DEF IInv

LEMMA RunDeleteSafe == ASSUME IInv, RunDelete PROVE IInv'
<1>1. /\ Runs("delete") /\ Head(queue) = queue[1] /\ 1 \in 1 .. Len(queue) /\ queue[1].do = "delete"
  BY Taken DEF IInv, RunDelete
<1>2. queue[1].id \in missed /\ ~Recent(saved[queue[1].id])
  BY <1>1 DEF IInv, Queued, Gone
<1>3. sessions' = Keep(DOMAIN sessions \ {queue[1].id}) /\ UNCHANGED <<now, turns, saved, touched, missed>>
  BY <1>1 DEF RunDelete
<1>4. \A n \in DOMAIN sessions \cap {queue[1].id} : ~Recent(saved[n]) /\ (n \in missed \/ ~Recent(touched[n]))
  BY <1>2
<1> QED BY <1>1, <1>3, <1>4, SomeGo

LEMMA RunSweepSafe == ASSUME IInv, RunSweep PROVE IInv'
<1> DEFINE gone == {n \in DOMAIN sessions : sessions[n].used < now - TTL}
<1>1. now \in Nat /\ TTL \in Nat /\ \A n \in DOMAIN sessions : sessions[n].used \in Nat /\ saved[n] \in Times /\ touched[n] \in Times
  BY DEF IInv, TypeOK, Row, Ids
<1>2. {k \in DOMAIN sessions : sessions[k].used >= now - TTL} = DOMAIN sessions \ gone
  BY <1>1
<1>3. sessions' = Keep(DOMAIN sessions \ gone) /\ UNCHANGED <<now, turns, saved, touched, missed>> /\ Runs("sweep")
  BY <1>2 DEF RunSweep
<1>4. \A n \in DOMAIN sessions \cap gone : ~Recent(saved[n]) /\ ~Recent(touched[n])
  BY <1>1 DEF IInv, Stored, Recent, Times
<1> QED BY <1>3, <1>4, SomeGo

------------------------------------------------------------------------------
LEMMA TickSafe == ASSUME IInv, Tick PROVE IInv'
<1>1. now' = now + 1 /\ now \in Nat /\ UNCHANGED <<turns, sessions, queue, saved, touched, missed, faults>>
  BY DEF Tick, IInv, TypeOK
<1>2. Turns' = Turns /\ Turns \subseteq Ids /\ missed \subseteq Turns /\ DOMAIN sessions \subseteq Turns
  BY <1>1 DEF Turns, Ids, IInv, TypeOK
<1>3. \A n \in Ids : saved[n] \in Times /\ touched[n] \in Times
  BY DEF IInv, TypeOK
<1>4. \A t \in Times : Recent(t)' => Recent(t)
  BY <1>1 DEF Recent, Times
<1>5. TypeOK'
  BY <1>1 DEF IInv, TypeOK
<1>6. Histories' /\ OnePut'
  BY <1>1, <1>2 DEF IInv, Histories, Before, OnePut
<1>7. Queued'
  <2>1. ASSUME NEW i \in 1 .. Len(queue) PROVE queue[i].at \in Nat
    <3>1. queue[i] \in Write
      BY DEF IInv, TypeOK
    <3> QED BY <3>1 DEF Write
  <2>2. \A i \in 1 .. Len(queue) : queue[i].at <= now + 1
    BY <1>1, <2>1 DEF IInv, Queued
  <2> QED BY <1>1, <1>2, <2>2 DEF IInv, Queued
<1>8. Stored'
  BY <1>1 DEF IInv, TypeOK, Stored, Row
<1>9. Dated'
  BY <1>1, <1>2, <1>3 DEF IInv, Dated, Times
<1>10. Gone' /\ Lasts'
  BY <1>1, <1>2, <1>3, <1>4 DEF IInv, Gone, Lasts, Recent, Times
<1> QED BY <1>5, <1>6, <1>7, <1>8, <1>9, <1>10 DEF IInv

\* What maps the places 1 to n to members of S is a sequence over S of that length.
LEMMA AsSequence ==
  ASSUME NEW S, NEW n \in Nat, NEW q \in [1 .. n -> S]
  PROVE  q \in Seq(S) /\ Len(q) = n
OBVIOUS

LEMMA CrashSafe == ASSUME IInv, Crash PROVE IInv'
<1> DEFINE after(s) == IF s \in {"get", "call"} THEN "failed"
                       ELSE IF s \in {"save", "saving", "sweep"} THEN "done" ELSE s
<1>1. /\ turns' = [n \in Turns |-> [turns[n] EXCEPT !.step = after(turns[n].step)]]
      /\ queue' = <<>> /\ UNCHANGED <<now, sessions, saved, touched, missed>>
  BY DEF Crash
<1>2. turns \in Seq(Turn) /\ Len(turns) \in Nat /\ Turns = 1 .. Len(turns)
  BY DEF IInv, TypeOK, Turns
<1>3. \A n \in Turns : turns[n] \in Turn /\ after(turns[n].step) \in Steps
  BY TurnsTyped DEF IInv, Turn, Steps
<1>4. ASSUME NEW n \in Turns
      PROVE  /\ turns'[n] \in Turn /\ turns'[n].step = after(turns[n].step)
             /\ turns'[n].prev = turns[n].prev /\ turns'[n].said = turns[n].said /\ turns'[n].hist = turns[n].hist
  <2> HIDE DEF after
  <2>1. turns'[n] = [turns[n] EXCEPT !.step = after(turns[n].step)]
    BY <1>1
  <2> QED BY <1>3, <2>1 DEF Turn
<1>5. turns' \in Seq(Turn) /\ Len(turns') = Len(turns) /\ Turns' = Turns
  <2>1. DOMAIN turns' = 1 .. Len(turns)
    BY <1>1, <1>2
  <2>2. turns' \in [1 .. Len(turns) -> Turn]
    <3> HIDE DEF after
    <3>1. turns' = [n \in 1 .. Len(turns) |-> turns'[n]]
      BY <1>1, <1>2
    <3> QED BY <1>2, <1>4, <3>1
  <2>3. turns' \in Seq(Turn) /\ Len(turns') = Len(turns)
    <3> HIDE DEF after
    <3> QED BY <1>2, <2>2, AsSequence
  <2>4. Turns' = 1 .. Len(turns')
    <3> HIDE DEF after
    <3> QED BY <2>1, <2>3 DEF Turns
  <2> HIDE DEF after
  <2> QED BY <1>2, <2>3, <2>4
<1>6. TypeOK'
  <2>1. queue' \in Seq(Write)
    BY <1>1
  <2>2. /\ now' = now /\ sessions' = sessions /\ saved' = saved /\ touched' = touched /\ missed' = missed
        /\ turns' \in Seq(Turn) /\ Len(turns') = Len(turns)
    BY <1>1, <1>5, Zenon
  <2>3. TypeOK
    BY DEF IInv
  <2> QED BY <2>1, <2>2, <2>3 DEF TypeOK
<1>7. Histories'
  BY <1>4, <1>5, StoryLasts DEF IInv, Histories
<1>8. Gone'
  BY <1>1, GoneLasts
<1>9. Len(turns) <= Len(turns') /\ \A n \in Turns : turns'[n].said = turns[n].said /\ (turns[n].step \in Kept => turns'[n].step \in Kept)
  BY <1>2, <1>4, <1>5 DEF Kept
<1>10. Stored' /\ Dated' /\ Lasts'
  BY <1>1, <1>6, <1>8, <1>9, RowsLast
<1>11. Queued' /\ OnePut'
  BY <1>1 DEF Queued, OnePut
<1> QED BY <1>6, <1>7, <1>8, <1>10, <1>11 DEF IInv

------------------------------------------------------------------------------
LEMMA InvNext == IInv /\ [Next]_vars => IInv'
<1> SUFFICES ASSUME IInv, [Next]_vars PROVE IInv'
  OBVIOUS
<1>1. CASE UNCHANGED vars
  BY <1>1 DEF vars, IInv, TypeOK, Histories, Before, Queued, OnePut, Stored, Dated, Gone, Lasts, Recent, Turns
<1>2. ASSUME NEW prev \in Turns \union {NoId}, Request(prev) PROVE IInv'
  BY <1>2, RequestSafe
<1>3. ASSUME NEW n \in Turns, Get(n) \/ Refuse(n) \/ Fail(n) \/ Answer(n) \/ See(n) \/ Save(n) \/ Sweep(n) PROVE IInv'
  <2>1. CASE Fail(n)
    BY <2>1, MoveSafe DEF Fail
  <2>2. CASE Answer(n)
    BY <2>2, MoveSafe DEF Answer
  <2> QED BY <1>3, <2>1, <2>2, GetSafe, RefuseSafe, SeeSafe, SaveSafe, SweepSafe
<1> QED BY <1>1, <1>2, <1>3, RunPutSafe, RunPutFailsSafe, RunTouchSafe, RunDeleteSafe, RunSweepSafe, TickSafe, CrashSafe DEF Next

\* The variables keep their types.
THEOREM TypeCorrect == Spec => []TypeOK
<1>1. IInv => TypeOK
  BY DEF IInv
<1> QED BY <1>1, InvInit, InvNext, PTL DEF Spec

\* A session lasts for its time to live after it was put, and after each use while nobody
\* has found it expired, with the whole conversation in it.
THEOREM SessionLastsAlways == Spec => []SessionLasts
<1>1. IInv => SessionLasts
  BY DEF IInv, SessionLasts, Stored, Lasts
<1> QED BY <1>1, InvInit, InvNext, PTL DEF Spec
=============================================================================
