--------------------------- MODULE Lifetime_proofs ---------------------------
(***************************************************************************)
(* Proofs about Lifetime and its two parts.  Of Migrations, for any schema *)
(* and any databases that releases have left as the assumptions say: that  *)
(* starts lose nothing, and that who is up has the present schema.  Of     *)
(* Writer, for any sets of calls and any buffer: its types, and that it    *)
(* implements WriteOrder.                                                  *)
(***************************************************************************)
EXTENDS Lifetime, SequenceTheorems, Sums

-----------------------------------------------------------------------------
(* What a database holds *)

\* A row has become the other one: it may have got values, and lost only what MySQL generated.
Carries(r, s) == s.id = r.id /\ s.label = r.label /\ r.vals \ {NameColumn} \subseteq s.vals

Carried(R, S) == \A r \in R : \E s \in S : Carries(r, s)

\* Every table and row of o is in d.
Holds(o, d) == \A n \in DOMAIN o : n \in DOMAIN d /\ Carried(o[n].rows, d[n].rows)

\* The columns a table has had from the beginning, or is made with, and one it may have besides.
Base(o, n) == IF n \in DOMAIN o THEN o[n].cols \intersect ColumnNames(n) ELSE ColumnNames(n)
Besides(dl, n) == IF dl = "mysql" /\ n = NameTable THEN {NameColumn} ELSE {}

\* The indexes that MySQL has from the beginning.
Inline(n) == {x.name : x \in {y \in Range(Declared(n).idx) : y.kind # "plain"}}

\* A table, as releases and starts leave it.
Lawful(dl, n, t) ==
  /\ \A c \in t.cons : \E l \in Range(Legacy) : l[1] = n /\ l[2] = c
  /\ t.cons # {} => dl # "mysql" /\ (dl = "sqlite" => n \in Names(dl))
  /\ NameIndex \in t.idx => n = NameTable

Shaped(dl, o, n, t) ==
  n \in Names(dl) =>
    /\ Base(o, n) \subseteq t.cols /\ t.cols \ ColumnNames(n) \subseteq Besides(dl, n)
    /\ dl = "mysql" => Inline(n) \subseteq t.idx

TableIn(dl, o, n, t) ==
  /\ Tabular(t) /\ Lawful(dl, n, t) /\ Shaped(dl, o, n, t)
  /\ \A m \in Names(dl) : n # Bak(m)

Sound(dl, o, d) ==
  /\ d = [n \in DOMAIN d |-> d[n]]
  /\ \A n \in DOMAIN d : TableIn(dl, o, n, d[n])
  /\ Holds(o, d)

-----------------------------------------------------------------------------
(* What a start has done *)

InTx(s) == s.do \in {"rename", "create", "copy", "drop", "commit"}

\* The statements of a dialect.
IsStmt(dl, s) ==
  CASE s.do = "table" -> s.tab \in Names(dl) /\ s.how = "if"
    [] s.do = "column" -> s.tab \in Names(dl) /\ s.it \in ColumnNames(s.tab) /\ s.how \in {"looked", "if"}
    [] s.do = "index" -> /\ s.tab \in Names(dl) /\ s.it \in Range(Declared(s.tab).idx)
                         /\ s.how \in {"looked", "if", "tolerated"}
                         /\ s.how = "tolerated" => s.it.kind = "tolerant"
    [] s.do = "unindex" -> s.tab = NameTable /\ s.it = NameIndex /\ s.how \in {"looked", "if"}
    [] s.do = "uncolumn" -> s.tab = NameTable /\ s.it = NameColumn /\ s.how = "looked" /\ dl = "mysql"
    [] s.do = "unconstrain" -> s.how = "if" /\ dl = "postgres"
    [] s.do \in {"begin", "commit"} -> s.how = "tx" /\ dl = "sqlite"
    [] s.do \in {"rename", "create", "copy", "drop"} -> s.tab \in Names(dl) /\ s.how = "rebuild" /\ dl = "sqlite"
    [] OTHER -> FALSE

\* A column that all releases have had is not there, and never will be.
Lacks(o, n) == ~(ColumnNames(n) \ Declared(n).late \subseteq Base(o, n))

\* What s was for has come about, and stays: faults have happened f times.
Settled(o, s, d, f) ==
  CASE s.do = "table" -> s.tab \in DOMAIN d
    [] s.do = "column" -> s.tab \in DOMAIN d /\ s.it \in d[s.tab].cols
    [] s.do = "index" ->
         /\ s.tab \in DOMAIN d
         /\ \/ s.it.name \in d[s.tab].idx
            \/ s.how = "tolerated" /\ (Doubled(d[s.tab].rows) \/ f > 0 \/ Lacks(o, s.tab))
    [] s.do = "unindex" -> s.tab \in DOMAIN d /\ s.it \notin d[s.tab].idx
    [] s.do = "uncolumn" -> s.tab \in DOMAIN d /\ s.it \notin d[s.tab].cols
    [] s.do = "unconstrain" -> s.tab \in DOMAIN d => s.it \notin d[s.tab].cons
    [] s.do = "drop" -> s.tab \in DOMAIN d /\ d[s.tab].cons = {}
    [] OTHER -> TRUE

SettledUpTo(o, P, k, d, f) == \A j \in DOMAIN P : j < k => Settled(o, P[j], d, f)

\* A table that has been made for SQLite, and one that has been copied into it.
Fresh(n) == [cols |-> ColumnNames(n), cons |-> {}, rows |-> {}, idx |-> {}]
Copied(n, t) == [Fresh(n) EXCEPT !.rows = {[r EXCEPT !.vals = @ \intersect ColumnNames(n)] : r \in t.rows}]

\* What the transaction of a rebuild sees before s, of the database l that it stands for.
Aside(n, l) == Put(Drop(l, n), Bak(n), l[n])
Seen(s, l) ==
  CASE s.do = "create" -> Aside(s.tab, l)
    [] s.do = "copy" -> Put(Aside(s.tab, l), s.tab, Fresh(s.tab))
    [] s.do = "drop" -> Put(Aside(s.tab, l), s.tab, Copied(s.tab, l[s.tab]))
    [] OTHER -> l

\* Where a start may be that has come to statement k and whose transaction sees t.
Place(dl, o, P, k, t, d, f) ==
  \E l :
    /\ Sound(dl, o, l) /\ SettledUpTo(o, P, k, l, f)
    /\ IF k \in DOMAIN P /\ InTx(P[k])
       THEN t # NoTx /\ t = Seen(P[k], l) /\ (P[k].do \in {"create", "copy", "drop"} => P[k].tab \in DOMAIN l)
       ELSE t = NoTx /\ l = d

\* A process, and what it has come to.
OnProc(dl, o, P, st, k, t, d, f) ==
  /\ st \in {"down", "look", "exec", "up"} /\ k \in 1 .. Len(P) + 1
  /\ st = "down" => k = 1
  /\ st = "up" => k = Len(P) + 1
  /\ Place(dl, o, P, k, t, d, f)

\* The invariant.
StartInv ==
  /\ dialect \in DOMAIN Origins /\ origin \in Origins[dialect] /\ faults \in Nat
  /\ Sound(dialect, origin, db)
  /\ stage = [p \in Procs |-> stage[p]] /\ at = [p \in Procs |-> at[p]] /\ tx = [p \in Procs |-> tx[p]]
  /\ dialect = "sqlite" => \A p, q \in Procs : stage[p] # "down" /\ stage[q] # "down" => p = q
  /\ \A p \in Procs : OnProc(dialect, origin, Plans[dialect], stage[p], at[p], tx[p], db, faults)

-----------------------------------------------------------------------------
(* Writing a table *)

\* e is d with table n as t.
IsPut(e, d, n, t) ==
  /\ DOMAIN e = DOMAIN d \union {n} /\ e[n] = t
  /\ \A m \in DOMAIN d : m # n => e[m] = d[m]
  /\ e = [k \in DOMAIN e |-> e[k]]

LEMMA PutIs == \A d, n, t : IsPut(Put(d, n, t), d, n, t)
BY DEF Put, IsPut

\* e is d without table n.
IsDrop(e, d, n) ==
  /\ DOMAIN e = DOMAIN d \ {n}
  /\ \A m \in DOMAIN e : e[m] = d[m]
  /\ e = [k \in DOMAIN e |-> e[k]]

LEMMA DropIs == \A d, n : IsDrop(Drop(d, n), d, n)
BY DEF Drop, IsDrop

\* Functions are the same when they are the same everywhere.
LEMMA Same ==
  ASSUME NEW d, NEW e, d = [n \in DOMAIN d |-> d[n]], e = [n \in DOMAIN e |-> e[n]],
         DOMAIN d = DOMAIN e, \A n \in DOMAIN d : d[n] = e[n]
  PROVE  d = e
OBVIOUS

LEMMA CarriedTwice ==
  ASSUME NEW Q, NEW R, NEW S, Carried(Q, R), Carried(R, S) PROVE Carried(Q, S)
<1> SUFFICES ASSUME NEW q \in Q PROVE \E s \in S : Carries(q, s)
  BY DEF Carried
<1>1. PICK r \in R : Carries(q, r)
  BY DEF Carried
<1>2. PICK s \in S : Carries(r, s)
  BY DEF Carried
<1>3. Carries(q, s)
  BY <1>1, <1>2 DEF Carries
<1> QED BY <1>3

LEMMA CarriedSelf == \A R : Carried(R, R)
BY DEF Carried, Carries

\* A table that replaces another one has its rows, and is one that may be.
LEMMA PutSound ==
  ASSUME NEW dl, NEW o, NEW d, NEW n, NEW t, Sound(dl, o, d), TableIn(dl, o, n, t),
         n \in DOMAIN d => Carried(d[n].rows, t.rows)
  PROVE  Sound(dl, o, Put(d, n, t))
<1> DEFINE e == Put(d, n, t)
<1>0. IsPut(e, d, n, t)
  BY PutIs
<1> HIDE DEF e
<1>1. /\ DOMAIN e = DOMAIN d \union {n} /\ e[n] = t /\ e = [k \in DOMAIN e |-> e[k]]
      /\ \A m \in DOMAIN d : m # n => e[m] = d[m]
  BY <1>0 DEF IsPut
<1>2. \A m \in DOMAIN e : TableIn(dl, o, m, e[m])
  BY <1>1 DEF Sound
<1>3. ASSUME NEW m \in DOMAIN o PROVE m \in DOMAIN e /\ Carried(o[m].rows, e[m].rows)
  <2>1. m \in DOMAIN d /\ Carried(o[m].rows, d[m].rows)
    BY DEF Sound, Holds
  <2>2. CASE m = n
    <3>1. Carried(d[n].rows, t.rows)
      BY <2>1, <2>2
    <3>2. Carried(o[m].rows, t.rows)
      BY <2>1, <2>2, <3>1, CarriedTwice
    <3> QED BY <1>1, <2>2, <3>2
  <2>3. CASE m # n
    BY <1>1, <2>1, <2>3
  <2> QED BY <2>2, <2>3
<1> QED BY <1>1, <1>2, <1>3 DEF Sound, Holds, e

-----------------------------------------------------------------------------
(* What stays settled *)

\* A table loses, besides its constraints, only what a start takes away.
Grows(t, u) ==
  /\ t.cols \ {NameColumn} \subseteq u.cols
  /\ NameColumn \in u.cols => NameColumn \in t.cols
  /\ NameIndex \in u.idx => NameIndex \in t.idx
  /\ u.cons \subseteq t.cons

\* It keeps the other indexes, and two rows with a label.
KeepsIndexes(t, u) ==
  /\ t.idx \ {NameIndex} \subseteq u.idx
  /\ Doubled(t.rows) => Doubled(u.rows)

Evolves(d, e) ==
  /\ DOMAIN d \subseteq DOMAIN e
  /\ \A n \in DOMAIN d : Grows(d[n], e[n])
  /\ \A n \in DOMAIN e \ DOMAIN d : e[n].cons = {}

Indexed(d, e) == \A n \in DOMAIN d : KeepsIndexes(d[n], e[n])

LEMMA EvolvesSelf == \A d : Evolves(d, d) /\ Indexed(d, d)
BY DEF Evolves, Indexed, Grows, KeepsIndexes

LEMMA PutEvolves ==
  ASSUME NEW d, NEW n, NEW t, IF n \in DOMAIN d THEN Grows(d[n], t) ELSE t.cons = {}
  PROVE  Evolves(d, Put(d, n, t))
<1>1. /\ DOMAIN Put(d, n, t) = DOMAIN d \union {n} /\ Put(d, n, t)[n] = t
      /\ \A m \in DOMAIN d : m # n => Put(d, n, t)[m] = d[m]
  <2>1. IsPut(Put(d, n, t), d, n, t)
    BY PutIs
  <2> QED BY <2>1 DEF IsPut
<1>2. \A m \in DOMAIN d : Grows(d[m], d[m])
  BY DEF Grows
<1> QED BY <1>1, <1>2 DEF Evolves

LEMMA PutIndexed ==
  ASSUME NEW d, NEW n, NEW t, n \in DOMAIN d => KeepsIndexes(d[n], t)
  PROVE  Indexed(d, Put(d, n, t))
<1>1. /\ DOMAIN Put(d, n, t) = DOMAIN d \union {n} /\ Put(d, n, t)[n] = t
      /\ \A m \in DOMAIN d : m # n => Put(d, n, t)[m] = d[m]
  <2>1. IsPut(Put(d, n, t), d, n, t)
    BY PutIs
  <2> QED BY <2>1 DEF IsPut
<1>2. \A m \in DOMAIN d : KeepsIndexes(d[m], d[m])
  BY DEF KeepsIndexes
<1> QED BY <1>1, <1>2 DEF Indexed

\* What a statement names.
Names1(s) ==
  /\ s.do = "column" => s.it # NameColumn
  /\ s.do = "index" => s.it.name # NameIndex
  /\ s.do = "unindex" => s.it = NameIndex
  /\ s.do = "uncolumn" => s.it = NameColumn

LEMMA SettledStays ==
  ASSUME NEW o, NEW s, NEW d, NEW e, NEW f \in Nat, NEW g \in Nat, f <= g, Names1(s),
         Settled(o, s, d, f), Evolves(d, e), s.do = "index" => Indexed(d, e)
  PROVE  Settled(o, s, e, g)
<1>1. CASE s.do = "table"
  BY <1>1 DEF Settled, Evolves
<1>2. CASE s.do = "column"
  <2>1. s.tab \in DOMAIN d /\ s.it \in d[s.tab].cols /\ s.it # NameColumn
    BY <1>2 DEF Settled, Names1
  <2>2. s.tab \in DOMAIN e /\ s.it \in e[s.tab].cols
    BY <2>1 DEF Evolves, Grows
  <2> QED BY <1>2, <2>2 DEF Settled
<1>3. CASE s.do = "index"
  <2>1. s.tab \in DOMAIN d /\ s.tab \in DOMAIN e /\ KeepsIndexes(d[s.tab], e[s.tab])
    BY <1>3 DEF Settled, Evolves, Indexed
  <2>2. \/ s.it.name \in d[s.tab].idx
        \/ s.how = "tolerated" /\ (Doubled(d[s.tab].rows) \/ f > 0 \/ Lacks(o, s.tab))
    BY <1>3 DEF Settled
  <2>3. CASE s.it.name \in d[s.tab].idx
    <3>1. s.it.name \in e[s.tab].idx
      BY <1>3, <2>1, <2>3 DEF Names1, KeepsIndexes
    <3> QED BY <1>3, <2>1, <3>1 DEF Settled
  <2>4. CASE s.how = "tolerated" /\ (Doubled(d[s.tab].rows) \/ f > 0 \/ Lacks(o, s.tab))
    <3>1. f > 0 => g > 0
      OBVIOUS
    <3>2. Doubled(e[s.tab].rows) \/ g > 0 \/ Lacks(o, s.tab)
      BY <2>1, <2>4, <3>1 DEF KeepsIndexes
    <3> QED BY <1>3, <2>1, <2>4, <3>2 DEF Settled
  <2> QED BY <2>2, <2>3, <2>4
<1>4. CASE s.do = "unindex"
  <2>1. s.tab \in DOMAIN d /\ s.it \notin d[s.tab].idx /\ s.it = NameIndex
    BY <1>4 DEF Settled, Names1
  <2>2. s.tab \in DOMAIN e /\ s.it \notin e[s.tab].idx
    BY <2>1 DEF Evolves, Grows
  <2> QED BY <1>4, <2>2 DEF Settled
<1>5. CASE s.do = "uncolumn"
  <2>1. s.tab \in DOMAIN d /\ s.it \notin d[s.tab].cols /\ s.it = NameColumn
    BY <1>5 DEF Settled, Names1
  <2>2. s.tab \in DOMAIN e /\ s.it \notin e[s.tab].cols
    BY <2>1 DEF Evolves, Grows
  <2> QED BY <1>5, <2>2 DEF Settled
<1>6. CASE s.do = "unconstrain"
  <2>1. s.tab \in DOMAIN d => s.it \notin d[s.tab].cons
    BY <1>6 DEF Settled
  <2>2. s.tab \in DOMAIN e => s.it \notin e[s.tab].cons
    BY <2>1 DEF Evolves, Grows
  <2> QED BY <1>6, <2>2 DEF Settled
<1>7. CASE s.do = "drop"
  <2>1. s.tab \in DOMAIN d /\ d[s.tab].cons = {}
    BY <1>7 DEF Settled
  <2>2. s.tab \in DOMAIN e /\ e[s.tab].cons = {}
    BY <2>1 DEF Evolves, Grows
  <2> QED BY <1>7, <2>2 DEF Settled
<1>8. CASE s.do \notin {"table", "column", "index", "unindex", "uncolumn", "unconstrain", "drop"}
  BY <1>8 DEF Settled
<1> QED BY <1>1, <1>2, <1>3, <1>4, <1>5, <1>6, <1>7, <1>8

-----------------------------------------------------------------------------
(* What a statement does *)

\* The schema knows a table by its name.
LEMMA DeclaredIs ==
  ASSUME NEW d, NEW t \in tablesFor(d)
  PROVE  t.name \in Names(d) /\ Declared(t.name) = t /\ t \in Range(Schema)
<1>1. t \in Range(Schema) /\ t.name \in Names(d)
  BY DEF tablesFor, Names
<1>2. \A u \in Range(Schema) : u.name = t.name => u = t
  BY <1>1, SchemaAssumption
<1>3. Declared(t.name) = t
  BY <1>1, <1>2 DEF Declared
<1> QED BY <1>1, <1>3

LEMMA DeclaredIn ==
  ASSUME NEW d, NEW n \in Names(d)
  PROVE  /\ Declared(n) \in tablesFor(d) /\ Declared(n).name = n
         /\ NameColumn \notin ColumnNames(n)
         /\ \A x \in Range(Declared(n).idx) :
              x.kind \in {"unique", "plain", "tolerant"} /\ x.on \subseteq ColumnNames(n) /\ x.name # NameIndex
         /\ \A m \in Names(d) : n # Bak(m)
<1>1. PICK t \in tablesFor(d) : t.name = n
  BY DEF Names
<1>2. Declared(n) = t /\ t \in Range(Schema)
  BY <1>1, DeclaredIs
<1>3. ASSUME NEW m \in Names(d) PROVE n # Bak(m)
  <2>1. PICK u \in Range(Schema) : u.name = m
    BY DEF Names, tablesFor
  <2> QED BY <1>1, <1>2, <2>1, SchemaAssumption
<1>4. /\ NameColumn \notin Range(t.cols)
      /\ \A x \in Range(t.idx) :
            x.kind \in {"unique", "plain", "tolerant"} /\ x.on \subseteq Range(t.cols) /\ x.name # NameIndex
  BY <1>2, SchemaAssumption
<1> QED BY <1>1, <1>2, <1>3, <1>4 DEF ColumnNames

\* Rows as they are, but for what they have as values.
Recast(R, v) == {[id |-> r.id, label |-> r.label, vals |-> v[r]] : r \in R}

LEMMA RecastRows ==
  ASSUME NEW t, Tabular(t), NEW v, NEW C, \A r \in t.rows : r.vals \ {NameColumn} \subseteq v[r] /\ v[r] \subseteq C
  PROVE  /\ \A r \in Recast(t.rows, v) :
              r = [id |-> r.id, label |-> r.label, vals |-> r.vals] /\ r.vals \subseteq C
         /\ \A r, s \in Recast(t.rows, v) : r.id = s.id => r = s
         /\ Carried(t.rows, Recast(t.rows, v))
         /\ Doubled(t.rows) => Doubled(Recast(t.rows, v))
<1> DEFINE new(r) == [id |-> r.id, label |-> r.label, vals |-> v[r]]
           S == Recast(t.rows, v)
<1>1. \A s \in S : \E r \in t.rows : s = new(r)
  BY DEF Recast
<1>2. \A r \in t.rows : new(r) \in S
  BY DEF Recast
<1>3. \A r : new(r).id = r.id /\ new(r).label = r.label /\ new(r).vals = v[r]
  OBVIOUS
<1>4. \A r : new(r) = [id |-> new(r).id, label |-> new(r).label, vals |-> new(r).vals]
  OBVIOUS
<1> HIDE DEF new, S
<1>5. \A r \in S : r = [id |-> r.id, label |-> r.label, vals |-> r.vals] /\ r.vals \subseteq C
  BY <1>1, <1>3, <1>4
<1>6. ASSUME NEW r \in S, NEW s \in S, r.id = s.id PROVE r = s
  <2>1. PICK q \in t.rows : r = new(q)
    BY <1>1
  <2>2. PICK u \in t.rows : s = new(u)
    BY <1>1
  <2>3. q.id = u.id
    BY <1>3, <1>6, <2>1, <2>2
  <2>4. q = u
    BY <2>3 DEF Tabular
  <2> QED BY <2>1, <2>2, <2>4
<1>7. Carried(t.rows, S)
  <2> SUFFICES ASSUME NEW r \in t.rows PROVE \E s \in S : Carries(r, s)
    BY DEF Carried
  <2>1. Carries(r, new(r))
    BY <1>3 DEF Carries
  <2> QED BY <1>2, <2>1
<1>8. ASSUME Doubled(t.rows) PROVE Doubled(S)
  <2>1. PICK q \in t.rows, u \in t.rows : q # u /\ q.label = u.label
    BY <1>8 DEF Doubled
  <2>2. q.id # u.id
    BY <2>1 DEF Tabular
  <2>3. new(q) # new(u) /\ new(q).label = new(u).label
    BY <1>3, <2>1, <2>2
  <2> QED BY <1>2, <2>3 DEF Doubled
<1> QED BY <1>5, <1>6, <1>7, <1>8 DEF S

\* What becomes of a table that is there, by anything but a rebuild.
Altered(s, t) ==
  CASE s.do = "column" -> [cols |-> t.cols \union {s.it}, cons |-> t.cons, idx |-> t.idx,
                           rows |-> Recast(t.rows, [r \in t.rows |-> r.vals \union {s.it}])]
    [] s.do = "index" -> [cols |-> t.cols, cons |-> t.cons, idx |-> t.idx \union {s.it.name}, rows |-> t.rows]
    [] s.do = "unindex" -> [cols |-> t.cols, cons |-> t.cons, idx |-> t.idx \ {s.it}, rows |-> t.rows]
    [] s.do = "uncolumn" -> [cols |-> t.cols \ {s.it}, cons |-> t.cons, idx |-> t.idx,
                             rows |-> Recast(t.rows, [r \in t.rows |-> r.vals \ {s.it}])]
    [] s.do = "unconstrain" -> [cols |-> t.cols, cons |-> t.cons \ {s.it}, idx |-> t.idx, rows |-> t.rows]

Alters(s) == s.do \in {"column", "index", "unindex", "uncolumn", "unconstrain"}

LEMMA RowExcept ==
  ASSUME NEW r, r = [id |-> r.id, label |-> r.label, vals |-> r.vals], NEW x
  PROVE  [r EXCEPT !.vals = x] = [id |-> r.id, label |-> r.label, vals |-> x]
OBVIOUS

\* A table with other columns and rows.
With(t, x, y) == [t EXCEPT !.cols = x, !.rows = y]

LEMMA WithOne ==
  ASSUME NEW t, t = [cols |-> t.cols, cons |-> t.cons, idx |-> t.idx, rows |-> t.rows], NEW x, NEW y
  PROVE  With(t, x, y) = [cols |-> x, cons |-> t.cons, idx |-> t.idx, rows |-> y]
<1>1. [t EXCEPT !.cols = x, !.rows = y] = [[t EXCEPT !.cols = x] EXCEPT !.rows = y]
  OBVIOUS
<1>2. [t EXCEPT !.cols = x] = [cols |-> x, cons |-> t.cons, idx |-> t.idx, rows |-> t.rows]
  OBVIOUS
<1>3. [[cols |-> x, cons |-> t.cons, idx |-> t.idx, rows |-> t.rows] EXCEPT !.rows = y]
        = [cols |-> x, cons |-> t.cons, idx |-> t.idx, rows |-> y]
  OBVIOUS
<1>4. [[t EXCEPT !.cols = x] EXCEPT !.rows = y] = [cols |-> x, cons |-> t.cons, idx |-> t.idx, rows |-> y]
  BY <1>2, <1>3, Zenon
<1> QED BY <1>1, <1>4, Zenon DEF With

LEMMA TableExcept ==
  ASSUME NEW t, t = [cols |-> t.cols, cons |-> t.cons, idx |-> t.idx, rows |-> t.rows], NEW x
  PROVE  /\ [t EXCEPT !.idx = x] = [cols |-> t.cols, cons |-> t.cons, idx |-> x, rows |-> t.rows]
         /\ [t EXCEPT !.cons = x] = [cols |-> t.cols, cons |-> x, idx |-> t.idx, rows |-> t.rows]
<1>1. [t EXCEPT !.idx = x] = [cols |-> t.cols, cons |-> t.cons, idx |-> x, rows |-> t.rows]
  OBVIOUS
<1>2. [t EXCEPT !.cons = x] = [cols |-> t.cols, cons |-> x, idx |-> t.idx, rows |-> t.rows]
  OBVIOUS
<1> QED BY <1>1, <1>2

LEMMA WithIs ==
  ASSUME NEW t, t = [cols |-> t.cols, cons |-> t.cons, idx |-> t.idx, rows |-> t.rows]
  PROVE  \A x, y : With(t, x, y) = [cols |-> x, cons |-> t.cons, idx |-> t.idx, rows |-> y]
BY WithOne

LEMMA EffectAlters ==
  ASSUME NEW s, Alters(s), NEW d, s.tab \in DOMAIN d, Tabular(d[s.tab])
  PROVE  Effect(s, d) = Put(d, s.tab, Altered(s, d[s.tab]))
<1> DEFINE t == d[s.tab]
<1>0. t = [cols |-> t.cols, cons |-> t.cons, idx |-> t.idx, rows |-> t.rows]
      /\ \A r \in t.rows : r = [id |-> r.id, label |-> r.label, vals |-> r.vals]
  BY DEF Tabular
<1> HIDE DEF t
<1>1. {[r EXCEPT !.vals = @ \union {s.it}] : r \in t.rows} = Recast(t.rows, [r \in t.rows |-> r.vals \union {s.it}])
  <2> DEFINE new(r) == [r EXCEPT !.vals = @ \union {s.it}]
             v == [r \in t.rows |-> r.vals \union {s.it}]
  <2>1. ASSUME NEW r \in t.rows PROVE new(r) = [id |-> r.id, label |-> r.label, vals |-> v[r]]
    <3>1. v[r] = r.vals \union {s.it}
      OBVIOUS
    <3>2. r = [id |-> r.id, label |-> r.label, vals |-> r.vals]
      BY <1>0
    <3>3. new(r) = [id |-> r.id, label |-> r.label, vals |-> r.vals \union {s.it}]
      BY <3>2, RowExcept
    <3> QED BY <3>1, <3>3
  <2> HIDE DEF new, v
  <2>2. {new(r) : r \in t.rows} = Recast(t.rows, v)
    BY <2>1 DEF Recast
  <2> QED BY <2>2 DEF new, v
<1>2. {[r EXCEPT !.vals = @ \ {s.it}] : r \in t.rows} = Recast(t.rows, [r \in t.rows |-> r.vals \ {s.it}])
  <2> DEFINE new(r) == [r EXCEPT !.vals = @ \ {s.it}]
             v == [r \in t.rows |-> r.vals \ {s.it}]
  <2>1. ASSUME NEW r \in t.rows PROVE new(r) = [id |-> r.id, label |-> r.label, vals |-> v[r]]
    <3>1. v[r] = r.vals \ {s.it}
      OBVIOUS
    <3>2. r = [id |-> r.id, label |-> r.label, vals |-> r.vals]
      BY <1>0
    <3>3. new(r) = [id |-> r.id, label |-> r.label, vals |-> r.vals \ {s.it}]
      BY <3>2, RowExcept
    <3> QED BY <3>1, <3>3
  <2> HIDE DEF new, v
  <2>2. {new(r) : r \in t.rows} = Recast(t.rows, v)
    BY <2>1 DEF Recast
  <2> QED BY <2>2 DEF new, v
<1>3. CASE s.do = "column"
  <2>1. Effect(s, d) = Put(d, s.tab, With(t, t.cols \union {s.it}, {[r EXCEPT !.vals = @ \union {s.it}] : r \in t.rows}))
    BY <1>3 DEF Effect, With, t
  <2>2. Effect(s, d) = Put(d, s.tab, With(t, t.cols \union {s.it}, Recast(t.rows, [r \in t.rows |-> r.vals \union {s.it}])))
    BY <1>1, <2>1
  <2>3. Altered(s, t) = [cols |-> t.cols \union {s.it}, cons |-> t.cons, idx |-> t.idx,
                         rows |-> Recast(t.rows, [r \in t.rows |-> r.vals \union {s.it}])]
    BY <1>3 DEF Altered
  <2>4. With(t, t.cols \union {s.it}, Recast(t.rows, [r \in t.rows |-> r.vals \union {s.it}]))
          = [cols |-> t.cols \union {s.it}, cons |-> t.cons, idx |-> t.idx, rows |-> Recast(t.rows, [r \in t.rows |-> r.vals \union {s.it}])]
    <3> DEFINE x == t.cols \union {s.it}
               y == Recast(t.rows, [r \in t.rows |-> r.vals \union {s.it}])
    <3> HIDE DEF x, y
    <3>1. With(t, x, y) = [cols |-> x, cons |-> t.cons, idx |-> t.idx, rows |-> y]
      BY <1>0, WithIs
    <3> QED BY <3>1 DEF x, y
  <2>5. Effect(s, d) = Put(d, s.tab, Altered(s, t))
    BY <2>2, <2>3, <2>4
  <2> QED BY <2>5 DEF t
<1>4. CASE s.do = "index"
  <2>1. Effect(s, d) = Put(d, s.tab, [t EXCEPT !.idx = t.idx \union {s.it.name}])
    BY <1>4 DEF Effect, t
  <2> QED BY <1>0, <1>4, <2>1, TableExcept DEF Altered, t
<1>5. CASE s.do = "unindex"
  <2>1. Effect(s, d) = Put(d, s.tab, [t EXCEPT !.idx = t.idx \ {s.it}])
    BY <1>5 DEF Effect, t
  <2> QED BY <1>0, <1>5, <2>1, TableExcept DEF Altered, t
<1>6. CASE s.do = "uncolumn"
  <2>1. Effect(s, d) = Put(d, s.tab, With(t, t.cols \ {s.it}, {[r EXCEPT !.vals = @ \ {s.it}] : r \in t.rows}))
    BY <1>6 DEF Effect, With, t
  <2>2. Effect(s, d) = Put(d, s.tab, With(t, t.cols \ {s.it}, Recast(t.rows, [r \in t.rows |-> r.vals \ {s.it}])))
    BY <1>2, <2>1
  <2>3. Altered(s, t) = [cols |-> t.cols \ {s.it}, cons |-> t.cons, idx |-> t.idx,
                         rows |-> Recast(t.rows, [r \in t.rows |-> r.vals \ {s.it}])]
    BY <1>6 DEF Altered
  <2>4. With(t, t.cols \ {s.it}, Recast(t.rows, [r \in t.rows |-> r.vals \ {s.it}]))
          = [cols |-> t.cols \ {s.it}, cons |-> t.cons, idx |-> t.idx, rows |-> Recast(t.rows, [r \in t.rows |-> r.vals \ {s.it}])]
    <3> DEFINE x == t.cols \ {s.it}
               y == Recast(t.rows, [r \in t.rows |-> r.vals \ {s.it}])
    <3> HIDE DEF x, y
    <3>1. With(t, x, y) = [cols |-> x, cons |-> t.cons, idx |-> t.idx, rows |-> y]
      BY <1>0, WithIs
    <3> QED BY <3>1 DEF x, y
  <2>5. Effect(s, d) = Put(d, s.tab, Altered(s, t))
    BY <2>2, <2>3, <2>4
  <2> QED BY <2>5 DEF t
<1>7. CASE s.do = "unconstrain"
  <2>1. Effect(s, d) = Put(d, s.tab, [t EXCEPT !.cons = t.cons \ {s.it}])
    BY <1>7 DEF Effect, t
  <2> QED BY <1>0, <1>7, <2>1, TableExcept DEF Altered, t
<1> QED BY <1>3, <1>4, <1>5, <1>6, <1>7 DEF Alters

LEMMA AlteredIs ==
  ASSUME NEW dl, NEW o, NEW n, NEW t, TableIn(dl, o, n, t),
         NEW s, Alters(s), IsStmt(dl, s), n = s.tab, NameTable \in Names(dl)
  PROVE  /\ TableIn(dl, o, n, Altered(s, t)) /\ Carried(t.rows, Altered(s, t).rows)
         /\ Grows(t, Altered(s, t)) /\ KeepsIndexes(t, Altered(s, t))
<1> DEFINE u == Altered(s, t)
<1>0. /\ Tabular(t) /\ Lawful(dl, n, t) /\ Shaped(dl, o, n, t)
      /\ \A m \in Names(dl) : n # Bak(m)
  BY DEF TableIn
<1>a. Carried(t.rows, t.rows)
  BY CarriedSelf
<1>1. CASE s.do = "column"
  <2> DEFINE v == [r \in t.rows |-> r.vals \union {s.it}]
  <2>1. u = [cols |-> t.cols \union {s.it}, cons |-> t.cons, idx |-> t.idx, rows |-> Recast(t.rows, v)]
    BY <1>1 DEF Altered
  <2>2. n \in Names(dl) /\ s.it \in ColumnNames(n) /\ NameColumn \notin ColumnNames(n)
    BY <1>1, DeclaredIn DEF IsStmt
  <2>3. \A r \in t.rows : r.vals \ {NameColumn} \subseteq v[r] /\ v[r] \subseteq t.cols \union {s.it}
    BY <1>0 DEF Tabular
  <2> HIDE DEF v
  <2>4. /\ \A r \in Recast(t.rows, v) :
              r = [id |-> r.id, label |-> r.label, vals |-> r.vals] /\ r.vals \subseteq t.cols \union {s.it}
        /\ \A r, q \in Recast(t.rows, v) : r.id = q.id => r = q
        /\ Carried(t.rows, Recast(t.rows, v))
        /\ Doubled(t.rows) => Doubled(Recast(t.rows, v))
    BY <1>0, <2>3, RecastRows
  <2> HIDE DEF u
  <2>5. /\ u.cols = t.cols \union {s.it} /\ u.cons = t.cons /\ u.idx = t.idx /\ u.rows = Recast(t.rows, v)
        /\ u = [cols |-> u.cols, cons |-> u.cons, idx |-> u.idx, rows |-> u.rows]
    BY <2>1
  <2>6. Tabular(u)
    BY <2>4, <2>5 DEF Tabular
  <2>7. Lawful(dl, n, u)
    BY <1>0, <2>5 DEF Lawful
  <2>8. Shaped(dl, o, n, u)
    BY <1>0, <2>2, <2>5 DEF Shaped
  <2>9. Grows(t, u) /\ KeepsIndexes(t, u) /\ Carried(t.rows, u.rows)
    BY <2>2, <2>4, <2>5 DEF Grows, KeepsIndexes
  <2> QED BY <1>0, <2>6, <2>7, <2>8, <2>9 DEF TableIn, u
<1>2. CASE s.do = "index"
  <2>1. u = [cols |-> t.cols, cons |-> t.cons, idx |-> t.idx \union {s.it.name}, rows |-> t.rows]
    BY <1>2 DEF Altered
  <2>2. s.it.name # NameIndex
    BY <1>2, DeclaredIn DEF IsStmt
  <2> HIDE DEF u
  <2>5. /\ u.cols = t.cols /\ u.cons = t.cons /\ u.idx = t.idx \union {s.it.name} /\ u.rows = t.rows
        /\ u = [cols |-> u.cols, cons |-> u.cons, idx |-> u.idx, rows |-> u.rows]
    BY <2>1
  <2>6. Tabular(u)
    BY <1>0, <2>5 DEF Tabular
  <2>7. Lawful(dl, n, u)
    BY <1>0, <2>2, <2>5 DEF Lawful
  <2>8. Shaped(dl, o, n, u)
    BY <1>0, <2>5 DEF Shaped
  <2>9. Grows(t, u) /\ KeepsIndexes(t, u) /\ Carried(t.rows, u.rows)
    BY <1>a, <2>2, <2>5 DEF Grows, KeepsIndexes
  <2> QED BY <1>0, <2>6, <2>7, <2>8, <2>9 DEF TableIn, u
<1>3. CASE s.do = "unindex"
  <2>1. u = [cols |-> t.cols, cons |-> t.cons, idx |-> t.idx \ {s.it}, rows |-> t.rows]
    BY <1>3 DEF Altered
  <2>2. s.it = NameIndex
    BY <1>3 DEF IsStmt
  <2>3. n \in Names(dl) => NameIndex \notin Inline(n)
    BY DeclaredIn DEF Inline
  <2> HIDE DEF u
  <2>5. /\ u.cols = t.cols /\ u.cons = t.cons /\ u.idx = t.idx \ {s.it} /\ u.rows = t.rows
        /\ u = [cols |-> u.cols, cons |-> u.cons, idx |-> u.idx, rows |-> u.rows]
    BY <2>1
  <2>6. Tabular(u)
    BY <1>0, <2>5 DEF Tabular
  <2>7. Lawful(dl, n, u)
    BY <1>0, <2>5 DEF Lawful
  <2>8. Shaped(dl, o, n, u)
    BY <1>0, <2>2, <2>3, <2>5 DEF Shaped
  <2>9. Grows(t, u) /\ KeepsIndexes(t, u) /\ Carried(t.rows, u.rows)
    BY <1>a, <2>2, <2>5 DEF Grows, KeepsIndexes
  <2> QED BY <1>0, <2>6, <2>7, <2>8, <2>9 DEF TableIn, u
<1>4. CASE s.do = "uncolumn"
  <2> DEFINE v == [r \in t.rows |-> r.vals \ {s.it}]
  <2>1. u = [cols |-> t.cols \ {s.it}, cons |-> t.cons, idx |-> t.idx, rows |-> Recast(t.rows, v)]
    BY <1>4 DEF Altered
  <2>2. s.it = NameColumn /\ n = NameTable /\ n \in Names(dl) /\ NameColumn \notin ColumnNames(n)
    BY <1>4, DeclaredIn DEF IsStmt
  <2>3. \A r \in t.rows : r.vals \ {NameColumn} \subseteq v[r] /\ v[r] \subseteq t.cols \ {s.it}
    BY <1>0, <2>2 DEF Tabular
  <2> HIDE DEF v
  <2>4. /\ \A r \in Recast(t.rows, v) :
              r = [id |-> r.id, label |-> r.label, vals |-> r.vals] /\ r.vals \subseteq t.cols \ {s.it}
        /\ \A r, q \in Recast(t.rows, v) : r.id = q.id => r = q
        /\ Carried(t.rows, Recast(t.rows, v))
        /\ Doubled(t.rows) => Doubled(Recast(t.rows, v))
    BY <1>0, <2>3, RecastRows
  <2> HIDE DEF u
  <2>5. /\ u.cols = t.cols \ {s.it} /\ u.cons = t.cons /\ u.idx = t.idx /\ u.rows = Recast(t.rows, v)
        /\ u = [cols |-> u.cols, cons |-> u.cons, idx |-> u.idx, rows |-> u.rows]
    BY <2>1
  <2>6. Tabular(u)
    BY <2>4, <2>5 DEF Tabular
  <2>7. Lawful(dl, n, u)
    BY <1>0, <2>5 DEF Lawful
  <2>8. Shaped(dl, o, n, u)
    <3>1. Base(o, n) \subseteq ColumnNames(n)
      BY DEF Base
    <3> QED BY <1>0, <2>2, <2>5, <3>1 DEF Shaped
  <2>9. Grows(t, u) /\ KeepsIndexes(t, u) /\ Carried(t.rows, u.rows)
    BY <2>2, <2>4, <2>5 DEF Grows, KeepsIndexes
  <2> QED BY <1>0, <2>6, <2>7, <2>8, <2>9 DEF TableIn, u
<1>5. CASE s.do = "unconstrain"
  <2>1. u = [cols |-> t.cols, cons |-> t.cons \ {s.it}, idx |-> t.idx, rows |-> t.rows]
    BY <1>5 DEF Altered
  <2> HIDE DEF u
  <2>5. /\ u.cols = t.cols /\ u.cons = t.cons \ {s.it} /\ u.idx = t.idx /\ u.rows = t.rows
        /\ u = [cols |-> u.cols, cons |-> u.cons, idx |-> u.idx, rows |-> u.rows]
    BY <2>1
  <2>6. Tabular(u)
    BY <1>0, <2>5 DEF Tabular
  <2>7. Lawful(dl, n, u)
    BY <1>0, <2>5 DEF Lawful
  <2>8. Shaped(dl, o, n, u)
    BY <1>0, <2>5 DEF Shaped
  <2>9. Grows(t, u) /\ KeepsIndexes(t, u) /\ Carried(t.rows, u.rows)
    BY <1>a, <2>5 DEF Grows, KeepsIndexes
  <2> QED BY <1>0, <2>6, <2>7, <2>8, <2>9 DEF TableIn, u
<1> QED BY <1>1, <1>2, <1>3, <1>4, <1>5 DEF Alters

\* A statement of its own, when there is something left to do for it.
LEMMA EffectIs ==
  ASSUME NEW o, NEW d, Sound(dialect, o, d), NEW s, IsStmt(dialect, s), NEW f,
         \/ s.do = "table" /\ s.tab \notin DOMAIN d /\ s.tab \notin DOMAIN o
         \/ Alters(s) /\ s.tab \in DOMAIN d,
         NameTable \in Names(dialect)
  PROVE  /\ Sound(dialect, o, Effect(s, d)) /\ Settled(o, s, Effect(s, d), f)
         /\ Evolves(d, Effect(s, d)) /\ Indexed(d, Effect(s, d))
<1>1. CASE s.do = "table" /\ s.tab \notin DOMAIN d /\ s.tab \notin DOMAIN o
  <2> DEFINE n == s.tab
             t == CreateTable(n)
             e == Put(d, n, t)
  <2>1. Effect(s, d) = e
    BY <1>1 DEF Effect
  <2>2. n \in Names(dialect)
    BY <1>1 DEF IsStmt
  <2>3. /\ t.cols = ColumnNames(n) /\ t.cons = {} /\ t.rows = {}
        /\ t.idx = IF dialect = "mysql" THEN {x.name : x \in Range(Declared(n).idx)} ELSE {}
        /\ t = [cols |-> t.cols, cons |-> t.cons, idx |-> t.idx, rows |-> t.rows]
    BY DEF CreateTable
  <2> HIDE DEF t
  <2>4. NameIndex \notin t.idx /\ (dialect = "mysql" => Inline(n) \subseteq t.idx)
    BY <2>2, <2>3, DeclaredIn DEF Inline
  <2>5. TableIn(dialect, o, n, t)
    <3>1. Tabular(t)
      BY <2>3 DEF Tabular
    <3>2. Lawful(dialect, n, t)
      BY <2>3, <2>4 DEF Lawful
    <3>3. Shaped(dialect, o, n, t)
      BY <1>1, <2>3, <2>4 DEF Shaped, Base
    <3>4. \A m \in Names(dialect) : n # Bak(m)
      BY <2>2, DeclaredIn
    <3> QED BY <3>1, <3>2, <3>3, <3>4 DEF TableIn
  <2>6. Sound(dialect, o, e)
    BY <1>1, <2>5, PutSound
  <2>7. Evolves(d, e) /\ Indexed(d, e)
    BY <1>1, <2>3, PutEvolves, PutIndexed
  <2>8. IsPut(e, d, n, t)
    BY PutIs
  <2> HIDE DEF e
  <2>9. Settled(o, s, e, f)
    BY <1>1, <2>8 DEF IsPut, Settled
  <2> QED BY <2>1, <2>6, <2>7, <2>9
<1>2. CASE Alters(s) /\ s.tab \in DOMAIN d
  <2> DEFINE n == s.tab
             t == Altered(s, d[n])
             e == Put(d, n, t)
  <2>1. TableIn(dialect, o, n, d[n])
    BY <1>2 DEF Sound
  <2>2. Effect(s, d) = e
    BY <1>2, <2>1, EffectAlters DEF TableIn
  <2>3. /\ TableIn(dialect, o, n, t) /\ Carried(d[n].rows, t.rows)
        /\ Grows(d[n], t) /\ KeepsIndexes(d[n], t)
    BY <1>2, <2>1, AlteredIs
  <2>4. Settled(o, s, e, f)
    <3>1. IsPut(e, d, n, t)
      BY PutIs
    <3>2. CASE s.do = "column"
      <4>1. s.it \in t.cols
        BY <3>2 DEF Altered
      <4> HIDE DEF e, t
      <4> QED BY <3>1, <3>2, <4>1 DEF Settled, IsPut
    <3>3. CASE s.do = "index"
      <4>1. s.it.name \in t.idx
        BY <3>3 DEF Altered
      <4> HIDE DEF e, t
      <4> QED BY <3>1, <3>3, <4>1 DEF Settled, IsPut
    <3>4. CASE s.do = "unindex"
      <4>1. s.it \notin t.idx
        BY <3>4 DEF Altered
      <4> HIDE DEF e, t
      <4> QED BY <3>1, <3>4, <4>1 DEF Settled, IsPut
    <3>5. CASE s.do = "uncolumn"
      <4>1. s.it \notin t.cols
        BY <3>5 DEF Altered
      <4> HIDE DEF e, t
      <4> QED BY <3>1, <3>5, <4>1 DEF Settled, IsPut
    <3>6. CASE s.do = "unconstrain"
      <4>1. s.it \notin t.cons
        BY <3>6 DEF Altered
      <4> HIDE DEF e, t
      <4> QED BY <3>1, <3>6, <4>1 DEF Settled, IsPut
    <3> QED BY <1>2, <3>2, <3>3, <3>4, <3>5, <3>6 DEF Alters
  <2> HIDE DEF t
  <2>5. Sound(dialect, o, e)
    BY <2>3, PutSound
  <2>6. Evolves(d, e) /\ Indexed(d, e)
    BY <1>2, <2>3, PutEvolves, PutIndexed
  <2> QED BY <2>2, <2>4, <2>5, <2>6
<1> QED BY <1>1, <1>2

\* The four statements of a rebuild together.
LEMMA RebuiltIs ==
  ASSUME NEW o, NEW l, Sound("sqlite", o, l), NEW n \in Names("sqlite"), n \in DOMAIN l
  PROVE  /\ Sound("sqlite", o, Put(l, n, Copied(n, l[n]))) /\ Evolves(l, Put(l, n, Copied(n, l[n])))
         /\ Put(l, n, Copied(n, l[n]))[n].cons = {}
<1> DEFINE t == l[n]
           v == [r \in t.rows |-> r.vals \intersect ColumnNames(n)]
           u == Copied(n, t)
<1>1. Tabular(t) /\ Lawful("sqlite", n, t) /\ Shaped("sqlite", o, n, t)
  BY DEF Sound, TableIn
<1>2. NameColumn \notin ColumnNames(n) /\ \A m \in Names("sqlite") : n # Bak(m)
  BY DeclaredIn
<1>3. t.cols \subseteq ColumnNames(n)
  BY <1>1 DEF Shaped, Besides
<1>4. \A r \in t.rows : r.vals \ {NameColumn} \subseteq v[r] /\ v[r] \subseteq ColumnNames(n)
  BY <1>1, <1>3 DEF Tabular
<1>5. u = [cols |-> ColumnNames(n), cons |-> {}, idx |-> {}, rows |-> Recast(t.rows, v)]
  <2> DEFINE new(r) == [r EXCEPT !.vals = @ \intersect ColumnNames(n)]
  <2>1. ASSUME NEW r \in t.rows PROVE new(r) = [id |-> r.id, label |-> r.label, vals |-> v[r]]
    <3>1. v[r] = r.vals \intersect ColumnNames(n)
      OBVIOUS
    <3>2. r = [id |-> r.id, label |-> r.label, vals |-> r.vals]
      BY <1>1 DEF Tabular
    <3>3. new(r) = [id |-> r.id, label |-> r.label, vals |-> r.vals \intersect ColumnNames(n)]
      BY <3>2, RowExcept
    <3> QED BY <3>1, <3>3
  <2>2. u = [Fresh(n) EXCEPT !.rows = {new(r) : r \in t.rows}]
    BY DEF Copied
  <2> HIDE DEF new, v, u
  <2>3. {new(r) : r \in t.rows} = Recast(t.rows, v)
    BY <2>1 DEF Recast
  <2>4. u = [Fresh(n) EXCEPT !.rows = Recast(t.rows, v)]
    BY <2>2, <2>3
  <2> QED BY <2>4 DEF Fresh
<1> HIDE DEF v, u, t
<1>6. /\ \A r \in Recast(t.rows, v) :
            r = [id |-> r.id, label |-> r.label, vals |-> r.vals] /\ r.vals \subseteq ColumnNames(n)
      /\ \A r, q \in Recast(t.rows, v) : r.id = q.id => r = q
      /\ Carried(t.rows, Recast(t.rows, v))
  BY <1>1, <1>4, RecastRows
<1>7. /\ u.cols = ColumnNames(n) /\ u.cons = {} /\ u.idx = {} /\ u.rows = Recast(t.rows, v)
      /\ u = [cols |-> u.cols, cons |-> u.cons, idx |-> u.idx, rows |-> u.rows]
  BY <1>5
<1>8. TableIn("sqlite", o, n, u)
  <2>1. Tabular(u)
    BY <1>6, <1>7 DEF Tabular
  <2>2. Lawful("sqlite", n, u)
    BY <1>7 DEF Lawful
  <2>3. Shaped("sqlite", o, n, u)
    BY <1>7 DEF Shaped, Base
  <2> QED BY <1>2, <2>1, <2>2, <2>3 DEF TableIn
<1>9. Carried(t.rows, u.rows) /\ Grows(t, u)
  BY <1>2, <1>3, <1>6, <1>7 DEF Grows
<1>10. Sound("sqlite", o, Put(l, n, u))
  BY <1>8, <1>9, PutSound DEF t
<1>11. Evolves(l, Put(l, n, u))
  BY <1>9, PutEvolves DEF t
<1>12. Put(l, n, u)[n] = u
  <2>1. IsPut(Put(l, n, u), l, n, u)
    BY PutIs
  <2> QED BY <2>1 DEF IsPut
<1> QED BY <1>7, <1>10, <1>11, <1>12 DEF u, t

\* What the transaction sees after each of the four.
LEMMA Renamed ==
  ASSUME NEW l, NEW s, s.do = "rename"
  PROVE  RebuildEffect(s, l) = Aside(s.tab, l)
BY DEF RebuildEffect, Aside

LEMMA Created ==
  ASSUME dialect = "sqlite", NEW l, NEW s, s.do = "create"
  PROVE  RebuildEffect(s, Seen(s, l)) = Put(Aside(s.tab, l), s.tab, Fresh(s.tab))
<1>1. CreateTable(s.tab) = Fresh(s.tab)
  BY DEF CreateTable, Fresh
<1>2. Seen(s, l) = Aside(s.tab, l)
  BY DEF Seen
<1>3. RebuildEffect(s, Aside(s.tab, l)) = Put(Aside(s.tab, l), s.tab, CreateTable(s.tab))
  BY DEF RebuildEffect
<1> QED BY <1>1, <1>2, <1>3

\* The table aside is what it was.
IsAside(a, n, l) ==
  /\ Bak(n) \notin DOMAIN l /\ Bak(n) # n
  /\ DOMAIN a = (DOMAIN l \ {n}) \union {Bak(n)}
  /\ a[Bak(n)] = l[n]
  /\ \A m \in DOMAIN l \ {n} : a[m] = l[m]

LEMMA AsideIs ==
  ASSUME NEW o, NEW dl, NEW l, Sound(dl, o, l), NEW n \in Names(dl), n \in DOMAIN l
  PROVE  IsAside(Aside(n, l), n, l)
<1> DEFINE e == Drop(l, n)
           a == Put(e, Bak(n), l[n])
<1>1. Bak(n) \notin DOMAIN l /\ Bak(n) # n
  BY DEF Sound, TableIn
<1>2. IsPut(a, e, Bak(n), l[n]) /\ IsDrop(e, l, n)
  BY PutIs, DropIs
<1> HIDE DEF a, e
<1>3. IsAside(a, n, l)
  BY <1>1, <1>2 DEF IsPut, IsDrop, IsAside
<1> QED BY <1>3 DEF Aside, a, e

LEMMA PutTwice ==
  ASSUME NEW d, NEW n, NEW t, NEW u
  PROVE  Put(Put(d, n, t), n, u) = Put(d, n, u)
<1> DEFINE e == Put(d, n, t)
           f == Put(e, n, u)
           g == Put(d, n, u)
<1>1. IsPut(e, d, n, t) /\ IsPut(f, e, n, u) /\ IsPut(g, d, n, u)
  BY PutIs
<1> HIDE DEF e, f, g
<1>2. f = g
  <2>1. DOMAIN f = DOMAIN g /\ \A m \in DOMAIN f : f[m] = g[m]
    BY <1>1 DEF IsPut
  <2>2. f = [m \in DOMAIN f |-> f[m]] /\ g = [m \in DOMAIN g |-> g[m]]
    BY <1>1 DEF IsPut
  <2> QED BY <2>1, <2>2, Same
<1> QED BY <1>2 DEF e, f, g

LEMMA CopiedOver ==
  ASSUME NEW o, NEW dl, NEW l, Sound(dl, o, l), NEW s, s.do = "copy", s.tab \in Names(dl), s.tab \in DOMAIN l
  PROVE  RebuildEffect(s, Seen(s, l)) = Put(Aside(s.tab, l), s.tab, Copied(s.tab, l[s.tab]))
<1> DEFINE n == s.tab
           a == Aside(n, l)
           d == Put(a, n, Fresh(n))
           X == {[r EXCEPT !.vals = @ \intersect ColumnNames(n)] : r \in l[n].rows}
           e == [d EXCEPT ![n] = [Fresh(n) EXCEPT !.rows = X]]
<1>1. Seen(s, l) = d
  BY DEF Seen
<1>2. IsPut(d, a, n, Fresh(n))
  BY PutIs
<1>3. Bak(n) # n /\ Bak(n) \in DOMAIN a /\ a[Bak(n)] = l[n]
  <2>1. IsAside(a, n, l)
    BY AsideIs
  <2> HIDE DEF a
  <2> QED BY <2>1 DEF IsAside
<1>4. d[n] = Fresh(n) /\ d[Bak(n)] = l[n] /\ n \in DOMAIN d
  <2> HIDE DEF d, a
  <2> QED BY <1>2, <1>3 DEF IsPut
<1>5. RebuildEffect(s, d) = [d EXCEPT ![n].rows = {[r EXCEPT !.vals = @ \intersect ColumnNames(n)] : r \in d[Bak(n)].rows}]
  BY DEF RebuildEffect
<1>6. {[r EXCEPT !.vals = @ \intersect ColumnNames(n)] : r \in d[Bak(n)].rows} = X
  BY <1>4
<1> HIDE DEF d, X
<1>7. RebuildEffect(s, d) = e
  <2>1. RebuildEffect(s, d) = [d EXCEPT ![n].rows = X]
    BY <1>5, <1>6
  <2>2. [d EXCEPT ![n].rows = X] = [d EXCEPT ![n] = [d[n] EXCEPT !.rows = X]]
    OBVIOUS
  <2> QED BY <1>4, <2>1, <2>2
<1> DEFINE c == [Fresh(n) EXCEPT !.rows = X]
           f == Put(d, n, c)
<1>8. e = f
  <2>1. IsPut(f, d, n, c)
    BY PutIs
  <2>2. d = [m \in DOMAIN d |-> d[m]]
    BY <1>2 DEF IsPut
  <2> HIDE DEF c, f
  <2>3. DOMAIN f = DOMAIN d /\ f[n] = c /\ (\A m \in DOMAIN d : m # n => f[m] = d[m]) /\ f = [m \in DOMAIN f |-> f[m]]
    BY <1>4, <2>1 DEF IsPut
  <2>4. [d EXCEPT ![n] = c] = f
    BY <1>4, <2>2, <2>3
  <2> QED BY <2>4 DEF c
<1>9. f = Put(a, n, c)
  BY PutTwice DEF d
<1>10. c = Copied(n, l[n])
  BY DEF Copied, X
<1> HIDE DEF c, f, e
<1> QED BY <1>1, <1>7, <1>8, <1>9, <1>10

LEMMA Dropped ==
  ASSUME NEW o, NEW dl, NEW l, Sound(dl, o, l), NEW s, s.do = "drop", s.tab \in Names(dl), s.tab \in DOMAIN l
  PROVE  RebuildEffect(s, Seen(s, l)) = Put(l, s.tab, Copied(s.tab, l[s.tab]))
<1> DEFINE n == s.tab
           c == Copied(n, l[n])
           a == Aside(n, l)
           d == Put(a, n, c)
           e == Drop(d, Bak(n))
           g == Put(l, n, c)
<1>1. Seen(s, l) = d /\ RebuildEffect(s, d) = e
  BY DEF Seen, RebuildEffect
<1>2. IsPut(d, a, n, c) /\ IsPut(g, l, n, c)
  BY PutIs
<1>3. IsDrop(e, d, Bak(n))
  BY DropIs
<1>4. IsAside(a, n, l)
  BY AsideIs
<1> HIDE DEF c, a, d, e, g
<1>5. DOMAIN e = DOMAIN g
  BY <1>2, <1>3, <1>4 DEF IsPut, IsDrop, IsAside
<1>6. \A m \in DOMAIN e : e[m] = g[m]
  BY <1>2, <1>3, <1>4 DEF IsPut, IsDrop, IsAside
<1>7. e = g
  BY <1>2, <1>3, <1>5, <1>6, Same DEF IsPut, IsDrop
<1> QED BY <1>1, <1>7 DEF c, g

-----------------------------------------------------------------------------
(* The lists of statements *)

Dos == {"table", "column", "index", "unindex", "uncolumn", "unconstrain", "begin", "rename", "create", "copy", "drop", "commit"}
Hows == {"if", "looked", "tolerated", "tx", "rebuild"}
Tabs == {t.name : t \in Range(Schema)} \union {l[1] : l \in Range(Legacy)} \union {NameTable}
Items == {Active, NameIndex, NameColumn} \union {l[2] : l \in Range(Legacy)}
         \union UNION {Range(t.cols) \union Range(t.idx) : t \in Range(Schema)}

Stmts(dl) == {s \in [do : Dos, tab : Tabs, it : Items, how : Hows] : IsStmt(dl, s)}

LEMMA StmtIn ==
  ASSUME NEW dl, NEW do \in Dos, NEW t \in Tabs, NEW it \in Items, NEW how \in Hows, IsStmt(dl, Stmt(do, t, it, how))
  PROVE  Stmt(do, t, it, how) \in Stmts(dl)
BY DEF Stmts, Stmt

LEMMA StmtHas ==
  \A do, t, it, how : /\ Stmt(do, t, it, how).do = do /\ Stmt(do, t, it, how).tab = t
                      /\ Stmt(do, t, it, how).it = it /\ Stmt(do, t, it, how).how = how
BY DEF Stmt

\* When a statement has its turn.
Rank(s) ==
  CASE s.do = "table" -> 0
    [] s.do = "column" -> 1
    [] s.do \in {"unconstrain", "begin"} -> 2
    [] s.do \in {"rename", "create", "copy", "drop"} -> 3
    [] s.do = "commit" -> 4
    [] OTHER -> 5

\* What comes after a statement, if anything.
Follows(r, s) ==
  CASE r.do = "begin" -> s.do \in {"rename", "commit"}
    [] r.do = "rename" -> s.do = "create" /\ s.tab = r.tab
    [] r.do = "create" -> s.do = "copy" /\ s.tab = r.tab
    [] r.do = "copy" -> s.do = "drop" /\ s.tab = r.tab
    [] r.do = "drop" -> s.do \in {"rename", "commit"}
    [] OTHER -> ~InTx(s)

\* Whether a transaction is open after a statement; in the middle of a table it is "busy".
After(s) ==
  CASE s.do \in {"begin", "drop"} -> "in"
    [] s.do \in {"rename", "create", "copy"} -> "busy"
    [] OTHER -> "out"

InOrder(q, lo, hi) ==
  /\ \A k \in DOMAIN q : lo <= Rank(q[k]) /\ Rank(q[k]) <= hi
  /\ \A j, k \in DOMAIN q : j < k => Rank(q[j]) <= Rank(q[k])

\* It begins where a transaction is open or not, and ends likewise.
Whole(q, x, y) ==
  /\ \A k \in DOMAIN q : k + 1 \notin DOMAIN q => After(q[k]) = y
  /\ \A k \in DOMAIN q : k + 1 \in DOMAIN q => Follows(q[k], q[k + 1])
  /\ 1 \in DOMAIN q => IF x = "in" THEN q[1].do \in {"rename", "commit"} ELSE ~InTx(q[1])
  /\ 1 \notin DOMAIN q => x = y

Lists(dl, lo, hi, x, y) == {q \in Seq(Stmts(dl)) : InOrder(q, lo, hi) /\ Whole(q, x, y)}

\* What is where in two lists put together.
IsJoin(w, q, r) ==
  /\ DOMAIN q = 1 .. Len(q) /\ DOMAIN r = 1 .. Len(r) /\ Len(q) \in Nat /\ Len(r) \in Nat
  /\ DOMAIN w = 1 .. Len(q) + Len(r)
  /\ \A k \in DOMAIN q : w[k] = q[k]
  /\ \A k \in DOMAIN r : w[Len(q) + k] = r[k]
  /\ \A k \in DOMAIN w : k \notin DOMAIN q => k - Len(q) \in DOMAIN r /\ w[k] = r[k - Len(q)]

LEMMA JoinIs ==
  ASSUME NEW X, NEW q \in Seq(X), NEW r \in Seq(X) PROVE q \o r \in Seq(X) /\ IsJoin(q \o r, q, r)
<1> DEFINE w == q \o r
           a == Len(q)
           b == Len(r)
<1>1. w \in Seq(X) /\ Len(w) = a + b /\ \A i \in 1 .. a + b : w[i] = IF i <= a THEN q[i] ELSE r[i - a]
  BY ConcatProperties
<1>2. a \in Nat /\ b \in Nat /\ DOMAIN q = 1 .. a /\ DOMAIN r = 1 .. b
  BY LenProperties
<1> HIDE DEF w
<1>3. DOMAIN w = 1 .. a + b
  BY <1>1, LenProperties
<1> HIDE DEF a, b
<1>4. \A k \in DOMAIN q : w[k] = q[k]
  <2> SUFFICES ASSUME NEW k \in DOMAIN q PROVE w[k] = q[k]
    OBVIOUS
  <2>1. k \in 1 .. a + b /\ k <= a
    BY <1>2
  <2> QED BY <1>1, <2>1
<1>5. \A k \in DOMAIN r : w[a + k] = r[k]
  <2> SUFFICES ASSUME NEW k \in DOMAIN r PROVE w[a + k] = r[k]
    OBVIOUS
  <2>1. a + k \in 1 .. a + b /\ ~(a + k <= a) /\ (a + k) - a = k
    BY <1>2
  <2> QED BY <1>1, <2>1
<1>6. \A k \in DOMAIN w : k \notin DOMAIN q => k - a \in DOMAIN r /\ w[k] = r[k - a]
  <2> SUFFICES ASSUME NEW k \in DOMAIN w, k \notin DOMAIN q PROVE k - a \in DOMAIN r /\ w[k] = r[k - a]
    OBVIOUS
  <2>1. k \in 1 .. a + b /\ ~(k <= a) /\ k - a \in 1 .. b
    BY <1>2, <1>3
  <2> QED BY <1>1, <1>2, <2>1
<1>7. IsJoin(w, q, r)
  BY <1>2, <1>3, <1>4, <1>5, <1>6 DEF IsJoin, a, b
<1> QED BY <1>1, <1>7 DEF w

LEMMA JoinInOrder ==
  ASSUME NEW w, NEW q, NEW r, IsJoin(w, q, r), NEW a \in Nat, NEW b \in Nat, NEW c \in Nat, NEW e \in Nat,
         InOrder(q, a, b), InOrder(r, c, e), a <= c, b <= c, b <= e
  PROVE  InOrder(w, a, e)
<1> DEFINE n == Len(q)
<1>0. /\ DOMAIN q = 1 .. n /\ n \in Nat /\ DOMAIN r = 1 .. Len(r) /\ Len(r) \in Nat /\ DOMAIN w = 1 .. n + Len(r)
      /\ \A k \in DOMAIN q : w[k] = q[k]
      /\ \A k \in DOMAIN w : k \notin DOMAIN q => k - n \in DOMAIN r /\ w[k] = r[k - n]
  BY DEF IsJoin
<1>r. \A s : Rank(s) \in Nat
  BY DEF Rank
<1> HIDE DEF n
<1>1. ASSUME NEW k \in DOMAIN q PROVE w[k] = q[k] /\ a <= Rank(w[k]) /\ Rank(w[k]) <= b
  BY <1>0 DEF InOrder
<1>2. ASSUME NEW k \in DOMAIN w, k \notin DOMAIN q
      PROVE  k - n \in DOMAIN r /\ w[k] = r[k - n] /\ c <= Rank(w[k]) /\ Rank(w[k]) <= e
  BY <1>0, <1>2 DEF InOrder
<1>3. ASSUME NEW k \in DOMAIN w PROVE a <= Rank(w[k]) /\ Rank(w[k]) <= e
  <2>1. CASE k \in DOMAIN q
    BY <1>r, <1>1, <2>1
  <2>2. CASE k \notin DOMAIN q
    BY <1>r, <1>2, <2>2
  <2> QED BY <2>1, <2>2
<1>4. ASSUME NEW j \in DOMAIN w, NEW k \in DOMAIN w, j < k PROVE Rank(w[j]) <= Rank(w[k])
  <2>1. CASE j \in DOMAIN q /\ k \in DOMAIN q
    BY <1>1, <1>4, <2>1 DEF InOrder
  <2>2. CASE j \in DOMAIN q /\ k \notin DOMAIN q
    <3>1. Rank(w[j]) <= b /\ c <= Rank(w[k])
      BY <1>1, <1>2, <2>2
    <3> QED BY <1>r, <3>1
  <2>3. CASE j \notin DOMAIN q
    <3>1. k \notin DOMAIN q
      BY <1>0, <1>4, <2>3
    <3>2. j - n < k - n
      BY <1>0, <1>4
    <3> QED BY <1>2, <2>3, <3>1, <3>2 DEF InOrder
  <2> QED BY <2>1, <2>2, <2>3
<1> QED BY <1>3, <1>4 DEF InOrder

LEMMA JoinWhole ==
  ASSUME NEW w, NEW q, NEW r, IsJoin(w, q, r), NEW x \in {"in", "out"}, NEW y \in {"in", "out"}, NEW z \in {"in", "out"},
         Whole(q, x, y), Whole(r, y, z)
  PROVE  Whole(w, x, z)
<1> DEFINE n == Len(q)
<1>0. /\ DOMAIN q = 1 .. n /\ n \in Nat /\ DOMAIN r = 1 .. Len(r) /\ Len(r) \in Nat /\ DOMAIN w = 1 .. n + Len(r)
      /\ \A k \in DOMAIN q : w[k] = q[k]
      /\ \A k \in DOMAIN r : w[n + k] = r[k]
      /\ \A k \in DOMAIN w : k \notin DOMAIN q => k - n \in DOMAIN r /\ w[k] = r[k - n]
  BY DEF IsJoin
<1> HIDE DEF n
<1>1. ASSUME NEW k \in DOMAIN w, k + 1 \notin DOMAIN w PROVE After(w[k]) = z
  <2>1. CASE k \in DOMAIN q
    <3>1. k + 1 \notin DOMAIN q /\ w[k] = q[k] /\ 1 \notin DOMAIN r
      BY <1>0, <1>1, <2>1
    <3>2. After(q[k]) = y /\ y = z
      BY <2>1, <3>1 DEF Whole
    <3> QED BY <3>1, <3>2
  <2>2. CASE k \notin DOMAIN q
    <3>1. k - n \in DOMAIN r /\ w[k] = r[k - n]
      BY <1>0, <2>2
    <3>2. (k - n) + 1 \notin DOMAIN r
      BY <1>0, <1>1, <3>1
    <3> QED BY <3>1, <3>2 DEF Whole
  <2> QED BY <2>1, <2>2
<1>2. ASSUME NEW k \in DOMAIN w, k + 1 \in DOMAIN w PROVE Follows(w[k], w[k + 1])
  <2>1. CASE k + 1 \in DOMAIN q
    <3>1. k \in DOMAIN q
      BY <1>0, <2>1
    <3> QED BY <1>0, <2>1, <3>1 DEF Whole
  <2>2. CASE k + 1 \notin DOMAIN q /\ k \in DOMAIN q
    <3>1. k = n
      BY <1>0, <2>2
    <3>2. After(w[k]) = y
      BY <1>0, <2>2 DEF Whole
    <3>3. (k + 1) - n = 1 /\ 1 \in DOMAIN r /\ w[k + 1] = r[1]
      BY <1>0, <1>2, <2>2, <3>1
    <3>4. IF y = "in" THEN w[k + 1].do \in {"rename", "commit"} ELSE ~InTx(w[k + 1])
      BY <3>3 DEF Whole
    <3> QED BY <3>2, <3>4 DEF Follows, After
  <2>3. CASE k \notin DOMAIN q
    <3>1. k - n \in DOMAIN r /\ w[k] = r[k - n]
      BY <1>0, <2>3
    <3>2. k + 1 \notin DOMAIN q
      BY <1>0, <2>3
    <3>3. (k + 1) - n = (k - n) + 1
      BY <1>0
    <3>4. (k - n) + 1 \in DOMAIN r /\ w[k + 1] = r[(k - n) + 1]
      BY <1>0, <1>2, <3>2, <3>3
    <3> QED BY <3>1, <3>4 DEF Whole
  <2> QED BY <2>1, <2>2, <2>3
<1>3. ASSUME 1 \in DOMAIN w PROVE IF x = "in" THEN w[1].do \in {"rename", "commit"} ELSE ~InTx(w[1])
  <2>1. CASE 1 \in DOMAIN q
    BY <1>0, <2>1 DEF Whole
  <2>2. CASE 1 \notin DOMAIN q
    <3>1. n = 0 /\ x = y
      BY <1>0, <2>2 DEF Whole
    <3>2. 1 \in DOMAIN r /\ w[1] = r[1]
      <4>1. 1 - n = 1
        BY <3>1
      <4> QED BY <1>0, <1>3, <2>2, <4>1
    <3> QED BY <3>1, <3>2 DEF Whole
  <2> QED BY <2>1, <2>2
<1>4. ASSUME 1 \notin DOMAIN w PROVE x = z
  <2>1. 1 \notin DOMAIN q /\ 1 \notin DOMAIN r
    BY <1>0, <1>4
  <2> QED BY <2>1 DEF Whole
<1> QED BY <1>1, <1>2, <1>3, <1>4 DEF Whole

LEMMA ListsJoin ==
  ASSUME NEW dl, NEW a \in Nat, NEW b \in Nat, NEW c \in Nat, NEW e \in Nat, a <= c, b <= c, b <= e,
         NEW x \in {"in", "out"}, NEW y \in {"in", "out"}, NEW z \in {"in", "out"},
         NEW q \in Lists(dl, a, b, x, y), NEW r \in Lists(dl, c, e, y, z)
  PROVE  q \o r \in Lists(dl, a, e, x, z) /\ Included(q, q \o r) /\ Included(r, q \o r)
<1>1. /\ q \in Seq(Stmts(dl)) /\ r \in Seq(Stmts(dl))
      /\ InOrder(q, a, b) /\ Whole(q, x, y) /\ InOrder(r, c, e) /\ Whole(r, y, z)
  BY DEF Lists
<1>2. q \o r \in Seq(Stmts(dl)) /\ IsJoin(q \o r, q, r)
  BY <1>1, JoinIs
<1>3. Included(q, q \o r) /\ Included(r, q \o r)
  BY <1>1, IncludedJoin
<1> DEFINE w == q \o r
<1> HIDE DEF w
<1>4. IsJoin(w, q, r)
  BY <1>2 DEF w
<1>5. InOrder(w, a, e)
  BY <1>1, <1>4, JoinInOrder
<1>6. Whole(w, x, z)
  BY <1>1, <1>4, JoinWhole
<1> QED BY <1>2, <1>3, <1>5, <1>6 DEF Lists, w

LEMMA ListsEmpty == \A dl, a, b, x : <<>> \in Lists(dl, a, b, x, x)
<1> SUFFICES ASSUME NEW dl, NEW a, NEW b, NEW x PROVE <<>> \in Lists(dl, a, b, x, x)
  OBVIOUS
<1>1. <<>> \in Seq(Stmts(dl)) /\ DOMAIN <<>> = {}
  OBVIOUS
<1> QED BY <1>1 DEF Lists, InOrder, Whole

\* A list of one statement that begins and ends outside a transaction, or is one of its ends.
LEMMA ListsOne ==
  ASSUME NEW dl, NEW s \in Stmts(dl), NEW x \in {"in", "out"}, NEW y \in {"in", "out"},
         After(s) = y, IF x = "in" THEN s.do \in {"rename", "commit"} ELSE ~InTx(s)
  PROVE  <<s>> \in Lists(dl, Rank(s), Rank(s), x, y)
<1> DEFINE q == <<s>>
<1>1. q \in Seq(Stmts(dl)) /\ DOMAIN q = {1} /\ q[1] = s
  OBVIOUS
<1> HIDE DEF q
<1>2. InOrder(q, Rank(s), Rank(s))
  <2>1. Rank(s) \in Nat
    BY DEF Rank
  <2> QED BY <1>1, <2>1 DEF InOrder
<1>3. Whole(q, x, y)
  BY <1>1 DEF Whole
<1> QED BY <1>1, <1>2, <1>3 DEF Lists, q

\* A list that FlattenSeq makes of lists.
LEMMA FlattenedIs ==
  ASSUME NEW X, NEW C, C \subseteq Seq(X), <<>> \in C, \A q, r \in C : q \o r \in C,
         NEW n \in Nat, NEW seqs, seqs = [i \in 1 .. n |-> seqs[i]], \A i \in 1 .. n : seqs[i] \in C
  PROVE  FlattenSeq(seqs) \in C /\ \A i \in 1 .. n : Included(seqs[i], FlattenSeq(seqs))
<1> DEFINE f == CHOOSE g : Flattens(seqs, n, g)
<1>1. Len(seqs) = n
  <2>1. seqs \in [1 .. n -> C]
    OBVIOUS
  <2>2. seqs \in Seq(C)
    BY <2>1, SeqDef
  <2>3. DOMAIN seqs = 1 .. Len(seqs) /\ Len(seqs) \in Nat
    BY <2>2, LenProperties
  <2>4. DOMAIN seqs = 1 .. n
    BY <2>1
  <2> QED BY <2>3, <2>4
<1>2. CASE n = 0
  <2>1. FlattenSeq(seqs) = seqs
    BY <1>1, <1>2 DEF FlattenSeq
  <2>2. seqs = <<>>
    BY <1>2
  <2> QED BY <1>2, <2>1, <2>2
<1>3. CASE n # 0
  <2>1. FlattenSeq(seqs) = f[n]
    BY <1>1, <1>3 DEF FlattenSeq, Flattens
  <2>2. Flattens(seqs, n, f)
    BY FlattensExist
  <2> HIDE DEF f
  <2>3. \A i \in 1 .. n : f[i] \in C
    BY <2>2, FlattensIn
  <2>4. n \in 1 .. n
    BY <1>3
  <2>5. \A i \in 1 .. n : seqs[i] \in Seq(X)
    OBVIOUS
  <2>6. \A i \in 1 .. n : Included(seqs[i], f[n])
    BY <2>2, <2>5, FlattensIncluded
  <2> QED BY <2>1, <2>3, <2>4, <2>6
<1> QED BY <1>2, <1>3

\* Lists of one rank, put together.
LEMMA ListsFlattened ==
  ASSUME NEW dl, NEW a \in Nat, NEW x \in {"in", "out"}, NEW n \in Nat, NEW seqs, seqs = [i \in 1 .. n |-> seqs[i]],
         \A i \in 1 .. n : seqs[i] \in Lists(dl, a, a, x, x)
  PROVE  FlattenSeq(seqs) \in Lists(dl, a, a, x, x) /\ \A i \in 1 .. n : Included(seqs[i], FlattenSeq(seqs))
<1> DEFINE C == Lists(dl, a, a, x, x)
           X == Stmts(dl)
<1>1. C \subseteq Seq(X)
  BY DEF Lists
<1>2. <<>> \in C
  BY ListsEmpty
<1>3. ASSUME NEW q \in C, NEW r \in C PROVE q \o r \in C
  <2>1. a <= a
    OBVIOUS
  <2>2. q \in Lists(dl, a, a, x, x) /\ r \in Lists(dl, a, a, x, x)
    OBVIOUS
  <2> HIDE DEF C
  <2>3. q \o r \in Lists(dl, a, a, x, x)
    BY <2>1, <2>2, ListsJoin
  <2> QED BY <2>3 DEF C
<1> HIDE DEF C, X
<1>4. \A i \in 1 .. n : seqs[i] \in C
  BY DEF C
<1>5. FlattenSeq(seqs) \in C /\ \A i \in 1 .. n : Included(seqs[i], FlattenSeq(seqs))
  BY <1>1, <1>2, <1>3, <1>4, FlattenedIs
<1> QED BY <1>5 DEF C

-----------------------------------------------------------------------------
(* The statements of a start are such a list, and say everything *)

Tells(q, s) == \E k \in DOMAIN q : q[k] = s

LEMMA TellsMore == \A q, r, s : Tells(q, s) /\ Included(q, r) => Tells(r, s)
BY DEF Tells, Included

LEMMA TellsOne == \A s : Tells(<<s>>, s)
<1> SUFFICES ASSUME NEW s PROVE Tells(<<s>>, s)
  OBVIOUS
<1>1. DOMAIN <<s>> = {1} /\ <<s>>[1] = s
  OBVIOUS
<1> QED BY <1>1 DEF Tells

LEMMA SchemaIs ==
  /\ Len(Schema) \in Nat /\ DOMAIN Schema = 1 .. Len(Schema)
  /\ \A d : \A n \in Names(d) : \E i \in DOMAIN Schema : Schema[i] \in tablesFor(d) /\ Schema[i] = Declared(n)
<1>1. Len(Schema) \in Nat /\ DOMAIN Schema = 1 .. Len(Schema)
  BY SchemaAssumption, LenProperties
<1>2. ASSUME NEW d, NEW n \in Names(d)
      PROVE  \E i \in DOMAIN Schema : Schema[i] \in tablesFor(d) /\ Schema[i] = Declared(n)
  <2>1. Declared(n) \in tablesFor(d) /\ Declared(n) \in Range(Schema)
    BY DeclaredIn DEF tablesFor
  <2>2. PICK i \in DOMAIN Schema : Schema[i] = Declared(n)
    BY <2>1 DEF Range
  <2> QED BY <2>1, <2>2
<1> QED BY <1>1, <1>2

LEMMA InTabs ==
  ASSUME NEW t \in Range(Schema)
  PROVE  /\ t.name \in Tabs
         /\ \A c \in Range(t.cols) : c \in Items
         /\ \A x \in Range(t.idx) : x \in Items
         /\ Len(t.cols) \in Nat /\ DOMAIN t.cols = 1 .. Len(t.cols)
         /\ Len(t.idx) \in Nat /\ DOMAIN t.idx = 1 .. Len(t.idx)
<1>1. t.name \in Tabs
  BY DEF Tabs
<1>2. Range(t.cols) \subseteq Items /\ Range(t.idx) \subseteq Items
  BY DEF Items
<1>3. t.cols \in Seq(Range(t.cols)) /\ t.idx \in Seq(Range(t.idx))
  BY SchemaAssumption
<1>4. Len(t.cols) \in Nat /\ DOMAIN t.cols = 1 .. Len(t.cols)
  BY <1>3, LenProperties
<1>5. Len(t.idx) \in Nat /\ DOMAIN t.idx = 1 .. Len(t.idx)
  BY <1>3, LenProperties
<1> QED BY <1>1, <1>2, <1>4, <1>5

\* A statement for a table of its own, by its rank.
LEMMA ListsPlain ==
  ASSUME NEW dl, NEW do \in Dos, NEW t \in Tabs, NEW it \in Items, NEW how \in Hows,
         IsStmt(dl, Stmt(do, t, it, how)), NEW a \in Nat, Rank(Stmt(do, t, it, how)) = a,
         do \in {"table", "column", "index", "unindex", "uncolumn", "unconstrain"}
  PROVE  <<Stmt(do, t, it, how)>> \in Lists(dl, a, a, "out", "out")
<1> DEFINE s == Stmt(do, t, it, how)
<1>1. s \in Stmts(dl) /\ s.do = do
  BY StmtIn, StmtHas
<1> HIDE DEF s
<1>2. After(s) = "out" /\ ~InTx(s)
  BY <1>1 DEF After, InTx
<1>3. <<s>> \in Lists(dl, Rank(s), Rank(s), "out", "out")
  BY <1>1, <1>2, ListsOne
<1> QED BY <1>3 DEF s

\* What F says of each table of the dialect.
Together(d, F) == FlattenSeq([i \in DOMAIN Schema |-> IF Schema[i] \in tablesFor(d) THEN F[Schema[i]] ELSE <<>>])

LEMMA TogetherListed ==
  ASSUME NEW d, NEW a \in Nat, NEW x \in {"in", "out"}, NEW F, \A t \in tablesFor(d) : F[t] \in Lists(d, a, a, x, x)
  PROVE  /\ Together(d, F) \in Lists(d, a, a, x, x)
         /\ \A n \in Names(d) : Included(F[Declared(n)], Together(d, F))
<1> DEFINE N == Len(Schema)
           seqs == [i \in 1 .. N |-> IF Schema[i] \in tablesFor(d) THEN F[Schema[i]] ELSE <<>>]
           w == FlattenSeq(seqs)
<1>1. Together(d, F) = w /\ N \in Nat
  BY SchemaIs DEF Together
<1>2. \A i \in 1 .. N : seqs[i] \in Lists(d, a, a, x, x)
  BY ListsEmpty
<1>3. seqs = [i \in 1 .. N |-> seqs[i]]
  OBVIOUS
<1>4. ASSUME NEW n \in Names(d) PROVE \E i \in 1 .. N : seqs[i] = F[Declared(n)]
  BY SchemaIs
<1> HIDE DEF seqs, N
<1>5. w \in Lists(d, a, a, x, x) /\ \A i \in 1 .. N : Included(seqs[i], w)
  BY <1>1, <1>2, <1>3, ListsFlattened
<1>6. \A n \in Names(d) : Included(F[Declared(n)], w)
  BY <1>4, <1>5
<1> QED BY <1>1, <1>5, <1>6

LEMMA TablesListed ==
  ASSUME NEW d
  PROVE  /\ createTableStmts(d) \in Lists(d, 0, 0, "out", "out")
         /\ \A n \in Names(d) : Tells(createTableStmts(d), Stmt("table", n, Active, "if"))
<1> DEFINE F == [t \in Range(Schema) |-> <<Stmt("table", t.name, Active, "if")>>]
<1>1. createTableStmts(d) = Together(d, F)
  BY DEF createTableStmts, PerTable, Together, Range
<1>2. ASSUME NEW t \in tablesFor(d)
      PROVE  F[t] = <<Stmt("table", t.name, Active, "if")>> /\ F[t] \in Lists(d, 0, 0, "out", "out")
  <2>1. t \in Range(Schema) /\ t.name \in Names(d) /\ t.name \in Tabs /\ Active \in Items
    BY DeclaredIs, InTabs DEF Items
  <2>2. IsStmt(d, Stmt("table", t.name, Active, "if")) /\ Rank(Stmt("table", t.name, Active, "if")) = 0
    BY <2>1, StmtHas DEF IsStmt, Rank
  <2>3. "table" \in Dos /\ "if" \in Hows
    BY DEF Dos, Hows
  <2>4. <<Stmt("table", t.name, Active, "if")>> \in Lists(d, 0, 0, "out", "out")
    BY <2>1, <2>2, <2>3, ListsPlain
  <2> QED BY <2>1, <2>4
<1> HIDE DEF F
<1>3. /\ Together(d, F) \in Lists(d, 0, 0, "out", "out")
      /\ \A n \in Names(d) : Included(F[Declared(n)], Together(d, F))
  BY <1>2, TogetherListed
<1>4. ASSUME NEW n \in Names(d) PROVE Tells(Together(d, F), Stmt("table", n, Active, "if"))
  <2>1. Declared(n) \in tablesFor(d) /\ Declared(n).name = n
    BY DeclaredIn
  <2>2. Tells(F[Declared(n)], Stmt("table", n, Active, "if"))
    BY <1>2, <2>1, TellsOne
  <2> QED BY <1>3, <2>2, TellsMore
<1> QED BY <1>1, <1>3, <1>4

LEMMA ColumnsListed ==
  ASSUME NEW d
  PROVE  /\ migrateExtraCols(d) \in Lists(d, 1, 1, "out", "out")
         /\ \A n \in Names(d) : \A c \in ColumnNames(n) \intersect Declared(n).late :
              Tells(migrateExtraCols(d), Stmt("column", n, c, "looked"))
<1> DEFINE one(t, c) == IF c \in t.late THEN <<Stmt("column", t.name, c, "looked")>> ELSE <<>>
           F == [t \in Range(Schema) |-> FlattenSeq([j \in DOMAIN t.cols |-> one(t, t.cols[j])])]
<1>1. migrateExtraCols(d) = Together(d, F)
  BY DEF migrateExtraCols, PerTable, Together, Range
<1>2. ASSUME NEW t \in tablesFor(d)
      PROVE  /\ F[t] \in Lists(d, 1, 1, "out", "out")
             /\ \A c \in Range(t.cols) \intersect t.late : Tells(F[t], Stmt("column", t.name, c, "looked"))
  <2> DEFINE N == Len(t.cols)
             seqs == [j \in 1 .. N |-> one(t, t.cols[j])]
  <2>1. /\ t \in Range(Schema) /\ t.name \in Names(d) /\ t.name \in Tabs /\ Declared(t.name) = t
        /\ N \in Nat /\ DOMAIN t.cols = 1 .. N
    BY DeclaredIs, InTabs
  <2>2. ASSUME NEW c \in Range(t.cols) PROVE one(t, c) \in Lists(d, 1, 1, "out", "out")
    <3>1. c \in Items
      BY <2>1, InTabs
    <3>2. IsStmt(d, Stmt("column", t.name, c, "looked")) /\ Rank(Stmt("column", t.name, c, "looked")) = 1
      BY <2>1, StmtHas DEF IsStmt, Rank, ColumnNames
    <3>3. "column" \in Dos /\ "looked" \in Hows
      BY DEF Dos, Hows
    <3>4. <<Stmt("column", t.name, c, "looked")>> \in Lists(d, 1, 1, "out", "out")
      BY <2>1, <3>1, <3>2, <3>3, ListsPlain
    <3> QED BY <3>4, ListsEmpty
  <2>3. F[t] = FlattenSeq(seqs)
    BY <2>1
  <2> HIDE DEF one, F
  <2>4. \A j \in 1 .. N : seqs[j] = one(t, t.cols[j]) /\ t.cols[j] \in Range(t.cols)
    BY <2>1 DEF Range
  <2>5. seqs = [j \in 1 .. N |-> seqs[j]]
    OBVIOUS
  <2> HIDE DEF seqs, N
  <2>6. \A j \in 1 .. N : seqs[j] \in Lists(d, 1, 1, "out", "out")
    BY <2>2, <2>4
  <2>7. /\ FlattenSeq(seqs) \in Lists(d, 1, 1, "out", "out")
        /\ \A j \in 1 .. N : Included(seqs[j], FlattenSeq(seqs))
    BY <2>1, <2>5, <2>6, ListsFlattened
  <2>8. ASSUME NEW c \in Range(t.cols) \intersect t.late PROVE Tells(F[t], Stmt("column", t.name, c, "looked"))
    <3>1. PICK j \in 1 .. N : t.cols[j] = c
      BY <2>1 DEF Range
    <3>2. seqs[j] = <<Stmt("column", t.name, c, "looked")>>
      BY <2>4, <3>1 DEF one
    <3>3. Tells(seqs[j], Stmt("column", t.name, c, "looked"))
      BY <3>2, TellsOne
    <3> QED BY <2>3, <2>7, <3>3, TellsMore
  <2> QED BY <2>3, <2>7, <2>8
<1> HIDE DEF F
<1>3. /\ Together(d, F) \in Lists(d, 1, 1, "out", "out")
      /\ \A n \in Names(d) : Included(F[Declared(n)], Together(d, F))
  BY <1>2, TogetherListed
<1>4. ASSUME NEW n \in Names(d), NEW c \in ColumnNames(n) \intersect Declared(n).late
      PROVE  Tells(Together(d, F), Stmt("column", n, c, "looked"))
  <2>1. Declared(n) \in tablesFor(d) /\ Declared(n).name = n
    BY DeclaredIn
  <2>2. Tells(F[Declared(n)], Stmt("column", n, c, "looked"))
    BY <1>2, <2>1 DEF ColumnNames
  <2> QED BY <1>3, <2>2, TellsMore
<1> QED BY <1>1, <1>3, <1>4

LEMMA IndexesListed ==
  ASSUME NEW d, NEW kind, NEW how \in {"if", "looked", "tolerated"}, how = "tolerated" => kind = "tolerant"
  PROVE  /\ IndexStmts(d, kind, how) \in Lists(d, 5, 5, "out", "out")
         /\ \A n \in Names(d) : \A x \in Range(Declared(n).idx) :
              x.kind = kind => Tells(IndexStmts(d, kind, how), Stmt("index", n, x, how))
<1> DEFINE one(t, x) == IF x.kind = kind THEN <<Stmt("index", t.name, x, how)>> ELSE <<>>
           F == [t \in Range(Schema) |-> FlattenSeq([j \in DOMAIN t.idx |-> one(t, t.idx[j])])]
<1>1. IndexStmts(d, kind, how) = Together(d, F)
  BY DEF IndexStmts, PerTable, Together, Range
<1>2. ASSUME NEW t \in tablesFor(d)
      PROVE  /\ F[t] \in Lists(d, 5, 5, "out", "out")
             /\ \A x \in Range(t.idx) : x.kind = kind => Tells(F[t], Stmt("index", t.name, x, how))
  <2> DEFINE N == Len(t.idx)
             seqs == [j \in 1 .. N |-> one(t, t.idx[j])]
  <2>1. /\ t \in Range(Schema) /\ t.name \in Names(d) /\ t.name \in Tabs /\ Declared(t.name) = t
        /\ N \in Nat /\ DOMAIN t.idx = 1 .. N
    BY DeclaredIs, InTabs
  <2>2. ASSUME NEW x \in Range(t.idx) PROVE one(t, x) \in Lists(d, 5, 5, "out", "out")
    <3>1. x \in Items
      BY <2>1, InTabs
    <3>2. Rank(Stmt("index", t.name, x, how)) = 5
      BY StmtHas DEF Rank
    <3>3. "index" \in Dos /\ how \in Hows
      BY DEF Dos, Hows
    <3>4. x.kind = kind => IsStmt(d, Stmt("index", t.name, x, how))
      BY <2>1, StmtHas DEF IsStmt
    <3>5. x.kind = kind => <<Stmt("index", t.name, x, how)>> \in Lists(d, 5, 5, "out", "out")
      BY <2>1, <3>1, <3>2, <3>3, <3>4, ListsPlain
    <3> QED BY <3>5, ListsEmpty
  <2>3. F[t] = FlattenSeq(seqs)
    BY <2>1
  <2> HIDE DEF one, F
  <2>4. \A j \in 1 .. N : seqs[j] = one(t, t.idx[j]) /\ t.idx[j] \in Range(t.idx)
    BY <2>1 DEF Range
  <2>5. seqs = [j \in 1 .. N |-> seqs[j]]
    OBVIOUS
  <2> HIDE DEF seqs, N
  <2>6. \A j \in 1 .. N : seqs[j] \in Lists(d, 5, 5, "out", "out")
    BY <2>2, <2>4
  <2>7. /\ FlattenSeq(seqs) \in Lists(d, 5, 5, "out", "out")
        /\ \A j \in 1 .. N : Included(seqs[j], FlattenSeq(seqs))
    BY <2>1, <2>5, <2>6, ListsFlattened
  <2>8. ASSUME NEW x \in Range(t.idx), x.kind = kind PROVE Tells(F[t], Stmt("index", t.name, x, how))
    <3>1. PICK j \in 1 .. N : t.idx[j] = x
      BY <2>1 DEF Range
    <3>2. seqs[j] = <<Stmt("index", t.name, x, how)>>
      BY <2>4, <2>8, <3>1 DEF one
    <3>3. Tells(seqs[j], Stmt("index", t.name, x, how))
      BY <3>2, TellsOne
    <3> QED BY <2>3, <2>7, <3>3, TellsMore
  <2> QED BY <2>3, <2>7, <2>8
<1> HIDE DEF F
<1>3. /\ Together(d, F) \in Lists(d, 5, 5, "out", "out")
      /\ \A n \in Names(d) : Included(F[Declared(n)], Together(d, F))
  BY <1>2, TogetherListed
<1>4. ASSUME NEW n \in Names(d), NEW x \in Range(Declared(n).idx), x.kind = kind
      PROVE  Tells(Together(d, F), Stmt("index", n, x, how))
  <2>1. Declared(n) \in tablesFor(d) /\ Declared(n).name = n
    BY DeclaredIn
  <2>2. Tells(F[Declared(n)], Stmt("index", n, x, how))
    BY <1>2, <1>4, <2>1
  <2> QED BY <1>3, <2>2, TellsMore
<1> QED BY <1>1, <1>3, <1>4

\* The four statements that rebuild a table.
Four(t) == [i \in 1 .. 4 |-> Stmt(<<"rename", "create", "copy", "drop">>[i], t.name, Active, "rebuild")]

LEMMA FourListed ==
  ASSUME NEW t \in tablesFor("sqlite")
  PROVE  Four(t) \in Lists("sqlite", 3, 3, "in", "in") /\ Tells(Four(t), Stmt("drop", t.name, Active, "rebuild"))
<1> DEFINE s(do) == Stmt(do, t.name, Active, "rebuild")
           q == Four(t)
<1>1. t.name \in Names("sqlite") /\ t.name \in Tabs /\ Active \in Items
  BY DeclaredIs, InTabs DEF Items
<1>2. ASSUME NEW do \in {"rename", "create", "copy", "drop"}
      PROVE  s(do) \in Stmts("sqlite") /\ s(do).do = do /\ s(do).tab = t.name /\ Rank(s(do)) = 3
  <2>1. IsStmt("sqlite", s(do)) /\ Rank(s(do)) = 3 /\ s(do).do = do /\ s(do).tab = t.name
    BY <1>1, StmtHas DEF IsStmt, Rank
  <2>2. do \in Dos /\ "rebuild" \in Hows
    BY DEF Dos, Hows
  <2> QED BY <1>1, <2>1, <2>2, StmtIn
<1>3. q[1] = s("rename") /\ q[2] = s("create") /\ q[3] = s("copy") /\ q[4] = s("drop")
  BY DEF Four
<1>4. q = [i \in 1 .. 4 |-> q[i]] /\ DOMAIN q = 1 .. 4
  BY DEF Four
<1> HIDE DEF s, q
<1>5. \A i \in 1 .. 4 : i = 1 \/ i = 2 \/ i = 3 \/ i = 4
  OBVIOUS
<1>6. \A i \in 1 .. 4 : q[i] \in Stmts("sqlite") /\ Rank(q[i]) = 3
  BY <1>2, <1>3, <1>5
<1>7. q \in Seq(Stmts("sqlite"))
  <2>1. q \in [1 .. 4 -> Stmts("sqlite")]
    BY <1>4, <1>6
  <2>2. 4 \in Nat
    OBVIOUS
  <2> QED BY <2>1, <2>2, SeqDef
<1>8. InOrder(q, 3, 3)
  BY <1>4, <1>6 DEF InOrder
<1>9. Whole(q, "in", "in")
  <2>1. \A k \in 1 .. 4 : k + 1 \notin 1 .. 4 => k = 4
    OBVIOUS
  <2>2. After(q[4]) = "in" /\ q[1].do = "rename"
    BY <1>2, <1>3 DEF After
  <2>3. Follows(q[1], q[2]) /\ Follows(q[2], q[3]) /\ Follows(q[3], q[4])
    BY <1>2, <1>3 DEF Follows
  <2>4. ASSUME NEW k \in 1 .. 4, k + 1 \in 1 .. 4 PROVE Follows(q[k], q[k + 1])
    <3>1. (k = 1 /\ k + 1 = 2) \/ (k = 2 /\ k + 1 = 3) \/ (k = 3 /\ k + 1 = 4)
      BY <2>4
    <3> QED BY <2>3, <3>1
  <2> QED BY <1>4, <2>1, <2>2, <2>4 DEF Whole
<1>10. Tells(q, s("drop"))
  BY <1>3, <1>4 DEF Tells
<1> QED BY <1>7, <1>8, <1>9, <1>10 DEF Lists, q, s

LEMMA RebuildListed ==
  /\ Rebuild("sqlite") \in Lists("sqlite", 3, 3, "in", "in")
  /\ \A n \in Names("sqlite") : (\E l \in Range(Legacy) : l[1] = n) =>
       Tells(Rebuild("sqlite"), Stmt("drop", n, Active, "rebuild"))
<1> DEFINE d == "sqlite"
           F == [t \in Range(Schema) |-> IF \E l \in Range(Legacy) : l[1] = t.name THEN Four(t) ELSE <<>>]
<1>1. Rebuild(d) = Together(d, F)
  BY DEF Rebuild, PerTable, Together, Range, Four
<1>2. ASSUME NEW t \in tablesFor(d)
      PROVE  /\ F[t] \in Lists(d, 3, 3, "in", "in")
             /\ (\E l \in Range(Legacy) : l[1] = t.name) => F[t] = Four(t)
  <2>1. t \in Range(Schema)
    BY DEF tablesFor
  <2>2. F[t] = IF \E l \in Range(Legacy) : l[1] = t.name THEN Four(t) ELSE <<>>
    BY <2>1
  <2> QED BY <2>2, FourListed, ListsEmpty
<1> HIDE DEF F
<1>3. /\ Together(d, F) \in Lists(d, 3, 3, "in", "in")
      /\ \A n \in Names(d) : Included(F[Declared(n)], Together(d, F))
  BY <1>2, TogetherListed
<1>4. ASSUME NEW n \in Names(d), \E l \in Range(Legacy) : l[1] = n
      PROVE  Tells(Together(d, F), Stmt("drop", n, Active, "rebuild"))
  <2>1. Declared(n) \in tablesFor(d) /\ Declared(n).name = n
    BY DeclaredIn
  <2>2. Tells(F[Declared(n)], Stmt("drop", n, Active, "rebuild"))
    BY <1>2, <1>4, <2>1, FourListed
  <2> QED BY <1>3, <2>2, TellsMore
<1> QED BY <1>1, <1>3, <1>4


LEMMA ListsWiden ==
  ASSUME NEW dl, NEW a \in Nat, NEW b \in Nat, NEW c \in Nat, NEW e \in Nat, c <= a, b <= e,
         NEW x, NEW y, NEW q \in Lists(dl, a, b, x, y)
  PROVE  q \in Lists(dl, c, e, x, y)
<1>1. \A s : Rank(s) \in Nat
  BY DEF Rank
<1>2. q \in Seq(Stmts(dl)) /\ InOrder(q, a, b) /\ Whole(q, x, y)
  BY DEF Lists
<1>3. InOrder(q, c, e)
  <2>1. \A k \in DOMAIN q : a <= Rank(q[k]) /\ Rank(q[k]) <= b
    BY <1>2 DEF InOrder
  <2>2. \A k \in DOMAIN q : c <= Rank(q[k]) /\ Rank(q[k]) <= e
    BY <1>1, <2>1
  <2>3. \A j, k \in DOMAIN q : j < k => Rank(q[j]) <= Rank(q[k])
    BY <1>2 DEF InOrder
  <2> QED BY <2>2, <2>3 DEF InOrder
<1> QED BY <1>2, <1>3 DEF Lists

\* Lists that begin and end outside a transaction, put together.
LEMMA ListsThen ==
  ASSUME NEW dl, NEW a \in Nat, NEW b \in Nat, NEW c \in Nat, NEW e \in Nat, a <= b, b <= c, c <= e,
         NEW q \in Lists(dl, a, b, "out", "out"), NEW r \in Lists(dl, c, e, "out", "out")
  PROVE  q \o r \in Lists(dl, a, e, "out", "out") /\ Included(q, q \o r) /\ Included(r, q \o r)
<1>1. a <= c /\ b <= e
  OBVIOUS
<1>2. "out" \in {"in", "out"}
  OBVIOUS
<1> QED BY <1>1, <1>2, ListsJoin

\* PostgreSQL: the column again, and the constraints.
LEMMA AgainListed ==
  ASSUME NEW d
  PROVE  PerTable(d, LAMBDA t : IF Active \in t.late THEN <<Stmt("column", t.name, Active, "if")>> ELSE <<>>)
           \in Lists(d, 1, 1, "out", "out")
<1> DEFINE F == [t \in Range(Schema) |-> IF Active \in t.late THEN <<Stmt("column", t.name, Active, "if")>> ELSE <<>>]
<1>1. PerTable(d, LAMBDA t : IF Active \in t.late THEN <<Stmt("column", t.name, Active, "if")>> ELSE <<>>)
      = Together(d, F)
  BY DEF PerTable, Together, Range
<1>2. ASSUME NEW t \in tablesFor(d) PROVE F[t] \in Lists(d, 1, 1, "out", "out")
  <2>1. t \in Range(Schema) /\ t.name \in Names(d) /\ t.name \in Tabs /\ Declared(t.name) = t /\ Active \in Items
    BY DeclaredIs, InTabs DEF Items
  <2>2. CASE Active \in t.late
    <3>1. Active \in ColumnNames(t.name)
      BY <2>1, <2>2, SchemaAssumption DEF ColumnNames
    <3>2. IsStmt(d, Stmt("column", t.name, Active, "if")) /\ Rank(Stmt("column", t.name, Active, "if")) = 1
      BY <2>1, <3>1, StmtHas DEF IsStmt, Rank
    <3>3. "column" \in Dos /\ "if" \in Hows
      BY DEF Dos, Hows
    <3>4. <<Stmt("column", t.name, Active, "if")>> \in Lists(d, 1, 1, "out", "out")
      BY <2>1, <3>2, <3>3, ListsPlain
    <3> QED BY <2>1, <2>2, <3>4
  <2>3. CASE Active \notin t.late
    BY <2>1, <2>3, ListsEmpty
  <2> QED BY <2>2, <2>3
<1> HIDE DEF F
<1>3. Together(d, F) \in Lists(d, 1, 1, "out", "out")
  BY <1>2, TogetherListed
<1> QED BY <1>1, <1>3

LEMMA UnconstrainListed ==
  ASSUME NEW q, q = [i \in DOMAIN Legacy |-> Stmt("unconstrain", Legacy[i][1], Legacy[i][2], "if")]
  PROVE  /\ q \in Lists("postgres", 2, 2, "out", "out")
         /\ \A l \in Range(Legacy) : Tells(q, Stmt("unconstrain", l[1], l[2], "if"))
<1> DEFINE N == Len(Legacy)
<1>1. N \in Nat /\ DOMAIN Legacy = 1 .. N
  BY SchemaAssumption, LenProperties
<1> HIDE DEF N
<1>2. ASSUME NEW i \in 1 .. N
      PROVE  /\ q[i] \in Stmts("postgres") /\ Rank(q[i]) = 2 /\ After(q[i]) = "out" /\ ~InTx(q[i])
             /\ \A s : Follows(q[i], s) <=> ~InTx(s)
  <2>1. Legacy[i] \in Range(Legacy)
    BY <1>1 DEF Range
  <2>2. Legacy[i][1] \in Tabs /\ Legacy[i][2] \in Items /\ "unconstrain" \in Dos /\ "if" \in Hows
    BY <2>1 DEF Tabs, Items, Dos, Hows
  <2>3. q[i] = Stmt("unconstrain", Legacy[i][1], Legacy[i][2], "if")
    BY <1>1
  <2>4. q[i].do = "unconstrain" /\ IsStmt("postgres", q[i])
    <3>1. q[i].do = "unconstrain" /\ q[i].how = "if"
      BY <2>3, StmtHas
    <3> QED BY <3>1 DEF IsStmt
  <2>5. q[i] \in Stmts("postgres")
    BY <2>2, <2>3, <2>4, StmtIn
  <2> QED BY <2>4, <2>5 DEF Rank, After, InTx, Follows
<1>3. q \in Seq(Stmts("postgres")) /\ DOMAIN q = 1 .. N
  <2>1. q \in [1 .. N -> Stmts("postgres")]
    BY <1>1, <1>2
  <2> QED BY <1>1, <2>1, SeqDef
<1>4. InOrder(q, 2, 2)
  BY <1>2, <1>3 DEF InOrder
<1>5. Whole(q, "out", "out")
  BY <1>2, <1>3 DEF Whole
<1>6. ASSUME NEW l \in Range(Legacy) PROVE Tells(q, Stmt("unconstrain", l[1], l[2], "if"))
  <2>1. PICK i \in 1 .. N : Legacy[i] = l
    BY <1>1 DEF Range
  <2> QED BY <1>1, <1>3, <2>1 DEF Tells
<1> QED BY <1>3, <1>4, <1>5, <1>6 DEF Lists

\* SQLite: the tables are rebuilt in one transaction.
LEMMA BlockListed ==
  ASSUME NameTable \in Names("sqlite"), NEW w,
         w = <<Stmt("begin", NameTable, Active, "tx")>> \o Rebuild("sqlite") \o <<Stmt("commit", NameTable, Active, "tx")>>
  PROVE  w \in Lists("sqlite", 2, 4, "out", "out") /\ Included(Rebuild("sqlite"), w)
<1> DEFINE b == Stmt("begin", NameTable, Active, "tx")
           c == Stmt("commit", NameTable, Active, "tx")
           r == Rebuild("sqlite")
<1>1. NameTable \in Tabs /\ Active \in Items /\ "begin" \in Dos /\ "commit" \in Dos /\ "tx" \in Hows
  BY DEF Tabs, Items, Dos, Hows
<1>2. b.do = "begin" /\ c.do = "commit" /\ IsStmt("sqlite", b) /\ IsStmt("sqlite", c)
  BY StmtHas DEF IsStmt
<1>3. b \in Stmts("sqlite") /\ c \in Stmts("sqlite")
  BY <1>1, <1>2, StmtIn
<1> HIDE DEF b, c
<1>4. Rank(b) = 2 /\ After(b) = "in" /\ ~InTx(b) /\ Rank(c) = 4 /\ After(c) = "out"
  BY <1>2 DEF Rank, After, InTx
<1>5. <<b>> \in Lists("sqlite", 2, 2, "out", "in")
  <2>1. IF "out" = "in" THEN b.do \in {"rename", "commit"} ELSE ~InTx(b)
    BY <1>4
  <2>2. <<b>> \in Lists("sqlite", Rank(b), Rank(b), "out", "in")
    BY <1>3, <1>4, <2>1, ListsOne
  <2> QED BY <1>4, <2>2
<1>6. <<c>> \in Lists("sqlite", 4, 4, "in", "out")
  <2>1. IF "in" = "in" THEN c.do \in {"rename", "commit"} ELSE ~InTx(c)
    BY <1>2
  <2>2. <<c>> \in Lists("sqlite", Rank(c), Rank(c), "in", "out")
    BY <1>3, <1>4, <2>1, ListsOne
  <2> QED BY <1>4, <2>2
<1>7. r \in Lists("sqlite", 3, 3, "in", "in")
  BY RebuildListed
<1> HIDE DEF r
<1> DEFINE B == <<b>>
           C == <<c>>
<1>8. B \o r \in Lists("sqlite", 2, 3, "out", "in") /\ Included(r, B \o r)
  <2>1. B \in Lists("sqlite", 2, 2, "out", "in")
    BY <1>5
  <2> HIDE DEF B
  <2>2. 2 <= 3 /\ 2 \in Nat /\ 3 \in Nat
    OBVIOUS
  <2> QED BY <1>7, <2>1, <2>2, ListsJoin
<1> DEFINE q == B \o r
<1>9. q \in Lists("sqlite", 2, 3, "out", "in") /\ Included(r, q)
  BY <1>8
<1>10. C \in Lists("sqlite", 4, 4, "in", "out")
  BY <1>6
<1>11. w = q \o C
  BY DEF b, c, r
<1> HIDE DEF B, C, q
<1>12. q \o C \in Lists("sqlite", 2, 4, "out", "out") /\ Included(q, q \o C)
  <2>1. 2 <= 4 /\ 3 <= 4 /\ 2 \in Nat /\ 3 \in Nat /\ 4 \in Nat
    OBVIOUS
  <2> QED BY <1>9, <1>10, <2>1, ListsJoin
<1>13. Included(r, w)
  BY <1>9, <1>11, <1>12, IncludedTwice
<1> QED BY <1>11, <1>12, <1>13 DEF r

\* The plan of a dialect.
Spells(d, P) ==
  /\ P \in Lists(d, 0, 5, "out", "out")
  /\ \A n \in Names(d) :
       /\ Tells(P, Stmt("table", n, Active, "if"))
       /\ \A c \in ColumnNames(n) \intersect Declared(n).late : Tells(P, Stmt("column", n, c, "looked"))
       /\ \A x \in Range(Declared(n).idx) :
            d # "mysql" \/ x.kind = "plain" =>
              \E how \in {"if", "looked", "tolerated"} : Tells(P, Stmt("index", n, x, how))
       /\ d = "sqlite" /\ (\E l \in Range(Legacy) : l[1] = n) => Tells(P, Stmt("drop", n, Active, "rebuild"))
  /\ d = "postgres" => \A l \in Range(Legacy) : Tells(P, Stmt("unconstrain", l[1], l[2], "if"))
  /\ \E how \in {"if", "looked"} : Tells(P, Stmt("unindex", NameTable, NameIndex, how))
  /\ d = "mysql" => Tells(P, Stmt("uncolumn", NameTable, NameColumn, "looked"))

\* What the statements for deleted rows are.
LEMMA SoftListed ==
  ASSUME NEW d \in {"sqlite", "postgres", "mysql"}, NameTable \in Names(d)
  PROVE  /\ migrateSoftDelete(d) \in Lists(d, 1, 5, "out", "out")
         /\ d = "sqlite" => \A n \in Names(d) : (\E l \in Range(Legacy) : l[1] = n) =>
              Tells(migrateSoftDelete(d), Stmt("drop", n, Active, "rebuild"))
         /\ d = "postgres" => \A l \in Range(Legacy) :
              Tells(migrateSoftDelete(d), Stmt("unconstrain", l[1], l[2], "if"))
<1>0. 0 \in Nat /\ 1 \in Nat /\ 2 \in Nat /\ 4 \in Nat /\ 5 \in Nat
      /\ 1 <= 1 /\ 1 <= 2 /\ 2 <= 2 /\ 2 <= 5 /\ 2 <= 4 /\ 4 <= 5 /\ 5 <= 5
  OBVIOUS
<1>1. CASE d = "mysql"
  BY <1>1, ListsEmpty DEF migrateSoftDelete
<1>2. CASE d = "postgres"
  <2> DEFINE q == PerTable(d, LAMBDA t : IF Active \in t.late THEN <<Stmt("column", t.name, Active, "if")>> ELSE <<>>)
             r == [i \in DOMAIN Legacy |-> Stmt("unconstrain", Legacy[i][1], Legacy[i][2], "if")]
             w == migrateSoftDelete(d)
  <2>1. w = q \o r
    BY <1>2 DEF migrateSoftDelete, migrateSoftDeletePG
  <2>2. q \in Lists(d, 1, 1, "out", "out")
    BY AgainListed
  <2>3. /\ r \in Lists(d, 2, 2, "out", "out")
        /\ \A l \in Range(Legacy) : Tells(r, Stmt("unconstrain", l[1], l[2], "if"))
    BY <1>2, UnconstrainListed
  <2> HIDE DEF q, r, w
  <2>4. q \o r \in Lists(d, 1, 2, "out", "out") /\ Included(r, q \o r)
    BY <1>0, <2>2, <2>3, ListsThen
  <2>5. w \in Lists(d, 1, 2, "out", "out")
    BY <2>1, <2>4
  <2>6. w \in Lists(d, 1, 5, "out", "out")
    BY <1>0, <2>5, ListsWiden
  <2>7. \A l \in Range(Legacy) : Tells(w, Stmt("unconstrain", l[1], l[2], "if"))
    BY <2>1, <2>3, <2>4, TellsMore
  <2> QED BY <1>2, <2>6, <2>7 DEF w
<1>3. CASE d = "sqlite"
  <2> DEFINE b == <<Stmt("begin", NameTable, Active, "tx")>> \o Rebuild("sqlite") \o <<Stmt("commit", NameTable, Active, "tx")>>
             q == migratePartialUniqueIndexes(d)
             r == migratePlainIndexes(d)
             w == migrateSoftDelete(d)
  <2>1. w = (b \o q) \o r
    BY <1>3 DEF migrateSoftDelete, migrateSoftDeleteSQLite
  <2>2. b \in Lists(d, 2, 4, "out", "out") /\ Included(Rebuild("sqlite"), b)
    BY <1>3, BlockListed
  <2>3. q \in Lists(d, 5, 5, "out", "out") /\ r \in Lists(d, 5, 5, "out", "out")
    <3>1. q = IndexStmts(d, "unique", "if") /\ r = IndexStmts(d, "plain", "if")
      BY <1>3 DEF migratePartialUniqueIndexes, migratePlainIndexes
    <3>2. IndexStmts(d, "unique", "if") \in Lists(d, 5, 5, "out", "out")
      BY IndexesListed
    <3>3. IndexStmts(d, "plain", "if") \in Lists(d, 5, 5, "out", "out")
      BY IndexesListed
    <3> QED BY <3>1, <3>2, <3>3
  <2> HIDE DEF b, q, r, w
  <2>4. b \o q \in Lists(d, 2, 5, "out", "out") /\ Included(b, b \o q)
    BY <1>0, <2>2, <2>3, ListsThen
  <2> DEFINE u == b \o q
  <2>5. u \in Lists(d, 2, 5, "out", "out") /\ Included(b, u) /\ w = u \o r
    BY <2>1, <2>4
  <2> HIDE DEF u
  <2>6. u \o r \in Lists(d, 2, 5, "out", "out") /\ Included(u, u \o r)
    BY <1>0, <2>3, <2>5, ListsThen
  <2>7. w \in Lists(d, 2, 5, "out", "out")
    BY <2>5, <2>6
  <2>8. w \in Lists(d, 1, 5, "out", "out")
    BY <1>0, <2>7, ListsWiden
  <2>9. Included(Rebuild("sqlite"), w)
    BY <2>2, <2>5, <2>6, IncludedTwice
  <2>10. \A n \in Names(d) : (\E l \in Range(Legacy) : l[1] = n) => Tells(w, Stmt("drop", n, Active, "rebuild"))
    BY <1>3, <2>9, RebuildListed, TellsMore
  <2> QED BY <1>3, <2>8, <2>10 DEF w
<1> QED BY <1>1, <1>2, <1>3

\* What the last statements are.
LEMMA IndexedLast ==
  ASSUME NEW d \in {"sqlite", "postgres", "mysql"}
  PROVE  /\ migratePartialUniqueIndexes(d) \in Lists(d, 5, 5, "out", "out")
         /\ migratePlainIndexes(d) \in Lists(d, 5, 5, "out", "out")
         /\ ensureExtKeyLabelIndex(d) \in Lists(d, 5, 5, "out", "out")
         /\ \A n \in Names(d) : \A x \in Range(Declared(n).idx) :
              /\ x.kind = "plain" => \E how \in {"if", "looked"} : Tells(migratePlainIndexes(d), Stmt("index", n, x, how))
              /\ d # "mysql" /\ x.kind = "unique" => Tells(migratePartialUniqueIndexes(d), Stmt("index", n, x, "if"))
              /\ d # "mysql" /\ x.kind = "tolerant" => Tells(ensureExtKeyLabelIndex(d), Stmt("index", n, x, "tolerated"))
<1>1. /\ IndexStmts(d, "unique", "if") \in Lists(d, 5, 5, "out", "out")
      /\ \A n \in Names(d) : \A x \in Range(Declared(n).idx) :
           x.kind = "unique" => Tells(IndexStmts(d, "unique", "if"), Stmt("index", n, x, "if"))
  BY IndexesListed
<1>2. /\ IndexStmts(d, "plain", "if") \in Lists(d, 5, 5, "out", "out")
      /\ \A n \in Names(d) : \A x \in Range(Declared(n).idx) :
           x.kind = "plain" => Tells(IndexStmts(d, "plain", "if"), Stmt("index", n, x, "if"))
  BY IndexesListed
<1>3. /\ IndexStmts(d, "plain", "looked") \in Lists(d, 5, 5, "out", "out")
      /\ \A n \in Names(d) : \A x \in Range(Declared(n).idx) :
           x.kind = "plain" => Tells(IndexStmts(d, "plain", "looked"), Stmt("index", n, x, "looked"))
  BY IndexesListed
<1>4. /\ IndexStmts(d, "tolerant", "tolerated") \in Lists(d, 5, 5, "out", "out")
      /\ \A n \in Names(d) : \A x \in Range(Declared(n).idx) :
           x.kind = "tolerant" => Tells(IndexStmts(d, "tolerant", "tolerated"), Stmt("index", n, x, "tolerated"))
  BY IndexesListed
<1>5. /\ migratePartialUniqueIndexes(d) = IF d = "mysql" THEN <<>> ELSE IndexStmts(d, "unique", "if")
      /\ migratePlainIndexes(d) = IF d = "mysql" THEN IndexStmts(d, "plain", "looked") ELSE IndexStmts(d, "plain", "if")
      /\ ensureExtKeyLabelIndex(d) = IF d = "mysql" THEN <<>> ELSE IndexStmts(d, "tolerant", "tolerated")
  BY DEF migratePartialUniqueIndexes, migratePlainIndexes, ensureExtKeyLabelIndex
<1>6. CASE d = "mysql"
  BY <1>3, <1>5, <1>6, ListsEmpty
<1>7. CASE d # "mysql"
  BY <1>1, <1>2, <1>4, <1>5, <1>7
<1> QED BY <1>6, <1>7

LEMMA NameListed ==
  ASSUME NEW d \in {"sqlite", "postgres", "mysql"}
  PROVE  /\ migrateDropLegacyUpstreamNameIndex(d) \in Lists(d, 5, 5, "out", "out")
         /\ \E how \in {"if", "looked"} :
              Tells(migrateDropLegacyUpstreamNameIndex(d), Stmt("unindex", NameTable, NameIndex, how))
         /\ d = "mysql" => Tells(migrateDropLegacyUpstreamNameIndex(d), Stmt("uncolumn", NameTable, NameColumn, "looked"))
<1> DEFINE s(how) == Stmt("unindex", NameTable, NameIndex, how)
           c == Stmt("uncolumn", NameTable, NameColumn, "looked")
<1>1. NameTable \in Tabs /\ NameIndex \in Items /\ NameColumn \in Items /\ {"if", "looked"} \subseteq Hows
      /\ "unindex" \in Dos /\ "uncolumn" \in Dos
  BY DEF Tabs, Items, Hows, Dos
<1>2. ASSUME NEW how \in {"if", "looked"} PROVE <<s(how)>> \in Lists(d, 5, 5, "out", "out") /\ Tells(<<s(how)>>, s(how))
  <2>1. IsStmt(d, s(how)) /\ Rank(s(how)) = 5
    BY StmtHas DEF IsStmt, Rank
  <2>2. <<s(how)>> \in Lists(d, 5, 5, "out", "out")
    BY <1>1, <2>1, ListsPlain
  <2> QED BY <2>2, TellsOne
<1>3. CASE d = "mysql"
  <2>1. IsStmt(d, c) /\ Rank(c) = 5
    BY <1>3, StmtHas DEF IsStmt, Rank
  <2>2. <<c>> \in Lists(d, 5, 5, "out", "out") /\ Tells(<<c>>, c)
    <3>1. <<c>> \in Lists(d, 5, 5, "out", "out")
      BY <1>1, <2>1, ListsPlain
    <3> QED BY <3>1, TellsOne
  <2> DEFINE q == <<s("looked")>>
             r == <<c>>
             w == migrateDropLegacyUpstreamNameIndex(d)
  <2>3. q \in Lists(d, 5, 5, "out", "out") /\ r \in Lists(d, 5, 5, "out", "out")
    BY <1>2, <2>2
  <2>4. w = q \o r
    BY <1>3 DEF migrateDropLegacyUpstreamNameIndex
  <2>5. Tells(q, s("looked")) /\ Tells(r, c)
    BY <1>2, <2>2
  <2> HIDE DEF q, r, w, s, c
  <2>6. q \o r \in Lists(d, 5, 5, "out", "out") /\ Included(q, q \o r) /\ Included(r, q \o r)
    <3>1. 5 \in Nat /\ 5 <= 5
      OBVIOUS
    <3> QED BY <2>3, <3>1, ListsThen
  <2>7. w \in Lists(d, 5, 5, "out", "out") /\ Tells(w, s("looked")) /\ Tells(w, c)
    BY <2>4, <2>5, <2>6, TellsMore
  <2> QED BY <2>7 DEF w, s, c
<1>4. CASE d # "mysql"
  <2>1. migrateDropLegacyUpstreamNameIndex(d) = <<s("if")>>
    BY <1>4 DEF migrateDropLegacyUpstreamNameIndex
  <2> QED BY <1>2, <1>4, <2>1
<1> QED BY <1>3, <1>4

LEMMA PlanSpells ==
  ASSUME NEW d \in DOMAIN Origins PROVE Spells(d, Plans[d])
<1> DEFINE q1 == createTableStmts(d)
           q2 == migrateExtraCols(d)
           q3 == migrateSoftDelete(d)
           q4 == migratePartialUniqueIndexes(d)
           q5 == migratePlainIndexes(d)
           q6 == migrateDropLegacyUpstreamNameIndex(d)
           q7 == ensureExtKeyLabelIndex(d)
           w2 == q1 \o q2
           w3 == w2 \o q3
           w4 == w3 \o q4
           w5 == w4 \o q5
           w6 == w5 \o q6
           P == w6 \o q7
<1>0. 0 \in Nat /\ 1 \in Nat /\ 5 \in Nat /\ 0 <= 0 /\ 0 <= 1 /\ 1 <= 1 /\ 1 <= 5 /\ 5 <= 5 /\ 0 <= 5
  OBVIOUS
<1>1. Plans[d] = P
  BY DEF Plans, migrateAll
<1>2. d \in {"sqlite", "postgres", "mysql"} /\ NameTable \in Names(d)
  BY OriginsAssumption, SchemaAssumption
<1>3. /\ q1 \in Lists(d, 0, 0, "out", "out")
      /\ \A n \in Names(d) : Tells(q1, Stmt("table", n, Active, "if"))
  BY TablesListed
<1>4. /\ q2 \in Lists(d, 1, 1, "out", "out")
      /\ \A n \in Names(d) : \A c \in ColumnNames(n) \intersect Declared(n).late :
              Tells(q2, Stmt("column", n, c, "looked"))
  BY ColumnsListed
<1>5. /\ q3 \in Lists(d, 1, 5, "out", "out")
      /\ d = "sqlite" => \A n \in Names(d) : (\E l \in Range(Legacy) : l[1] = n) => Tells(q3, Stmt("drop", n, Active, "rebuild"))
      /\ d = "postgres" => \A l \in Range(Legacy) : Tells(q3, Stmt("unconstrain", l[1], l[2], "if"))
  BY <1>2, SoftListed
<1>6. /\ q4 \in Lists(d, 5, 5, "out", "out") /\ q5 \in Lists(d, 5, 5, "out", "out") /\ q7 \in Lists(d, 5, 5, "out", "out")
      /\ \A n \in Names(d) : \A x \in Range(Declared(n).idx) :
           /\ x.kind = "plain" => \E how \in {"if", "looked"} : Tells(q5, Stmt("index", n, x, how))
           /\ d # "mysql" /\ x.kind = "unique" => Tells(q4, Stmt("index", n, x, "if"))
           /\ d # "mysql" /\ x.kind = "tolerant" => Tells(q7, Stmt("index", n, x, "tolerated"))
  BY <1>2, IndexedLast
<1>7. /\ q6 \in Lists(d, 5, 5, "out", "out")
      /\ \E how \in {"if", "looked"} : Tells(q6, Stmt("unindex", NameTable, NameIndex, how))
      /\ d = "mysql" => Tells(q6, Stmt("uncolumn", NameTable, NameColumn, "looked"))
  BY <1>2, NameListed
<1> HIDE DEF q1, q2, q3, q4, q5, q6, q7
<1>8. w2 \in Lists(d, 0, 1, "out", "out") /\ Included(q1, w2) /\ Included(q2, w2)
  BY <1>0, <1>3, <1>4, ListsThen
<1> HIDE DEF w2
<1>9. w3 \in Lists(d, 0, 5, "out", "out") /\ Included(w2, w3) /\ Included(q3, w3)
  BY <1>0, <1>5, <1>8, ListsThen
<1> HIDE DEF w3
<1>10. w4 \in Lists(d, 0, 5, "out", "out") /\ Included(w3, w4) /\ Included(q4, w4)
  BY <1>0, <1>6, <1>9, ListsThen
<1> HIDE DEF w4
<1>11. w5 \in Lists(d, 0, 5, "out", "out") /\ Included(w4, w5) /\ Included(q5, w5)
  BY <1>0, <1>6, <1>10, ListsThen
<1> HIDE DEF w5
<1>12. w6 \in Lists(d, 0, 5, "out", "out") /\ Included(w5, w6) /\ Included(q6, w6)
  BY <1>0, <1>7, <1>11, ListsThen
<1> HIDE DEF w6
<1>13. P \in Lists(d, 0, 5, "out", "out") /\ Included(w6, P) /\ Included(q7, P)
  BY <1>0, <1>6, <1>12, ListsThen
<1> HIDE DEF P
<1>14. Included(w5, P)
  BY <1>12, <1>13, IncludedTwice
<1>15. Included(w4, P)
  BY <1>11, <1>14, IncludedTwice
<1>16. Included(w3, P)
  BY <1>10, <1>15, IncludedTwice
<1>17. Included(w2, P)
  BY <1>9, <1>16, IncludedTwice
<1>18. Included(q1, P) /\ Included(q2, P)
  BY <1>8, <1>17, IncludedTwice
<1>19. Included(q3, P) /\ Included(q4, P) /\ Included(q5, P)
  BY <1>9, <1>10, <1>11, <1>14, <1>15, <1>16, IncludedTwice
<1>20. Included(q6, P) /\ Included(q7, P)
  BY <1>12, <1>13, IncludedTwice
<1>21. ASSUME NEW n \in Names(d)
       PROVE  /\ Tells(P, Stmt("table", n, Active, "if"))
              /\ \A c \in ColumnNames(n) \intersect Declared(n).late : Tells(P, Stmt("column", n, c, "looked"))
              /\ d = "sqlite" /\ (\E l \in Range(Legacy) : l[1] = n) => Tells(P, Stmt("drop", n, Active, "rebuild"))
  BY <1>3, <1>4, <1>5, <1>18, <1>19, TellsMore
<1>22. ASSUME NEW n \in Names(d), NEW x \in Range(Declared(n).idx), d # "mysql" \/ x.kind = "plain"
       PROVE  \E how \in {"if", "looked", "tolerated"} : Tells(P, Stmt("index", n, x, how))
  <2>1. x.kind \in {"unique", "plain", "tolerant"}
    BY DeclaredIn
  <2>2. CASE x.kind = "plain"
    <3>1. PICK how \in {"if", "looked"} : Tells(q5, Stmt("index", n, x, how))
      BY <1>6, <2>2
    <3>2. Tells(P, Stmt("index", n, x, how))
      BY <1>19, <3>1, TellsMore
    <3> QED BY <3>2
  <2>3. CASE x.kind = "unique"
    <3>1. Tells(P, Stmt("index", n, x, "if"))
      BY <1>6, <1>19, <1>22, <2>3, TellsMore
    <3> QED BY <3>1
  <2>4. CASE x.kind = "tolerant"
    <3>1. Tells(P, Stmt("index", n, x, "tolerated"))
      BY <1>6, <1>20, <1>22, <2>4, TellsMore
    <3> QED BY <3>1
  <2> QED BY <2>1, <2>2, <2>3, <2>4
<1>23. d = "postgres" => \A l \in Range(Legacy) : Tells(P, Stmt("unconstrain", l[1], l[2], "if"))
  BY <1>5, <1>19, TellsMore
<1>24. /\ \E how \in {"if", "looked"} : Tells(P, Stmt("unindex", NameTable, NameIndex, how))
       /\ d = "mysql" => Tells(P, Stmt("uncolumn", NameTable, NameColumn, "looked"))
  BY <1>7, <1>20, TellsMore
<1>25. Spells(d, P)
  BY <1>13, <1>21, <1>22, <1>23, <1>24 DEF Spells
<1> QED BY <1>1, <1>25
-----------------------------------------------------------------------------
(* Where a start may be *)

\* The plan of a dialect, by its statements.
LEMMA PlanIs ==
  ASSUME NEW dl \in DOMAIN Origins, NEW P, P = Plans[dl]
  PROVE  /\ Len(P) \in Nat /\ DOMAIN P = 1 .. Len(P) /\ 1 \in DOMAIN P
         /\ \A k \in DOMAIN P : P[k] \in Stmts(dl) /\ IsStmt(dl, P[k])
         /\ InOrder(P, 0, 5) /\ Whole(P, "out", "out")
         /\ NameTable \in Names(dl) /\ dl \in {"sqlite", "postgres", "mysql"}
<1>1. Spells(dl, P)
  BY PlanSpells
<1>2. P \in Seq(Stmts(dl)) /\ InOrder(P, 0, 5) /\ Whole(P, "out", "out")
  BY <1>1 DEF Spells, Lists
<1>3. Len(P) \in Nat /\ DOMAIN P = 1 .. Len(P)
  BY <1>2, LenProperties
<1>4. PICK k \in DOMAIN P : TRUE
  BY <1>1 DEF Spells, Tells
<1>5. 1 \in DOMAIN P
  BY <1>3, <1>4
<1>6. \A j \in DOMAIN P : P[j] \in Stmts(dl)
  BY <1>2, ElementOfSeq, <1>3
<1>7. \A j \in DOMAIN P : IsStmt(dl, P[j])
  BY <1>6 DEF Stmts
<1>8. NameTable \in Names(dl) /\ dl \in {"sqlite", "postgres", "mysql"}
  BY OriginsAssumption, SchemaAssumption
<1> QED BY <1>2, <1>3, <1>5, <1>6, <1>7, <1>8

LEMMA StmtNames ==
  ASSUME NEW dl, NEW s, IsStmt(dl, s) PROVE Names1(s)
<1>1. CASE s.do = "column"
  <2>1. s.tab \in Names(dl) /\ s.it \in ColumnNames(s.tab)
    BY <1>1 DEF IsStmt
  <2>2. s.it # NameColumn
    BY <2>1, DeclaredIn
  <2> QED BY <1>1, <2>2 DEF Names1
<1>2. CASE s.do = "index"
  <2>1. s.tab \in Names(dl) /\ s.it \in Range(Declared(s.tab).idx)
    BY <1>2 DEF IsStmt
  <2>2. s.it.name # NameIndex
    BY <2>1, DeclaredIn
  <2> QED BY <1>2, <2>2 DEF Names1
<1>3. CASE s.do = "unindex"
  BY <1>3 DEF IsStmt, Names1
<1>4. CASE s.do = "uncolumn"
  BY <1>4 DEF IsStmt, Names1
<1> QED BY <1>1, <1>2, <1>3, <1>4 DEF Names1

\* A statement is one that looks at what it makes, or one for the transaction of a rebuild.
LEMMA StmtKinds ==
  ASSUME NEW dl, NEW s, IsStmt(dl, s)
  PROVE  /\ s.do = "table" \/ Alters(s) \/ s.do \in {"begin", "commit", "rename", "create", "copy", "drop"}
         /\ s.how \in {"if", "tolerated", "looked"} <=> s.do = "table" \/ Alters(s)
         /\ s.do = "table" \/ Alters(s) => ~InTx(s) /\ (\A r : Follows(s, r) <=> ~InTx(r)) /\ After(s) = "out"
         /\ s.how = "tolerated" => s.do = "index" /\ s.it.kind = "tolerant"
         /\ s.how = "rebuild" <=> s.do \in {"rename", "create", "copy", "drop"}
         /\ InTx(s) \/ s.do = "begin" => dl = "sqlite"
         /\ s.do = "table" => s.tab \in Names(dl)
         /\ s.do \in {"column", "index", "rename", "create", "copy", "drop"} => s.tab \in Names(dl)
         /\ s.do \in {"unindex", "uncolumn"} => s.tab = NameTable
         /\ s.do = "index" => s.it \in Range(Declared(s.tab).idx)
<1>0. s.do \in Dos
  BY DEF IsStmt, Dos
<1>1. CASE s.do = "table"
  BY <1>1 DEF IsStmt, Alters, InTx, Follows, After
<1>2. CASE s.do = "column"
  BY <1>2 DEF IsStmt, Alters, InTx, Follows, After
<1>3. CASE s.do = "index"
  BY <1>3 DEF IsStmt, Alters, InTx, Follows, After
<1>4. CASE s.do = "unindex"
  BY <1>4 DEF IsStmt, Alters, InTx, Follows, After
<1>5. CASE s.do = "uncolumn"
  BY <1>5 DEF IsStmt, Alters, InTx, Follows, After
<1>6. CASE s.do = "unconstrain"
  BY <1>6 DEF IsStmt, Alters, InTx, Follows, After
<1>7. CASE s.do \in {"begin", "commit"}
  <2>1. s.how = "tx" /\ dl = "sqlite"
    BY <1>7 DEF IsStmt
  <2> QED BY <1>7, <2>1 DEF Alters
<1>8. CASE s.do \in {"rename", "create", "copy", "drop"}
  <2>1. s.how = "rebuild" /\ dl = "sqlite" /\ s.tab \in Names(dl)
    BY <1>8 DEF IsStmt
  <2> QED BY <1>8, <2>1 DEF Alters
<1> QED BY <1>0, <1>1, <1>2, <1>3, <1>4, <1>5, <1>6, <1>7, <1>8 DEF Dos

\* Once a statement has its turn that is not for a new table, all tables are there.
LEMMA TablesThere ==
  ASSUME NEW dl \in DOMAIN Origins, NEW P, P = Plans[dl], NEW k \in Nat, NEW o, NEW l, NEW f,
         SettledUpTo(o, P, k, l, f), k \in DOMAIN P => Rank(P[k]) >= 1, k \notin DOMAIN P => k > Len(P)
  PROVE  Names(dl) \subseteq DOMAIN l
<1> SUFFICES ASSUME NEW n \in Names(dl) PROVE n \in DOMAIN l
  OBVIOUS
<1>1. PICK j \in DOMAIN P : P[j] = Stmt("table", n, Active, "if")
  BY PlanSpells DEF Spells, Tells
<1>2. P[j].do = "table" /\ P[j].tab = n /\ Rank(P[j]) = 0
  BY <1>1, StmtHas DEF Rank
<1>3. DOMAIN P = 1 .. Len(P) /\ Len(P) \in Nat /\ InOrder(P, 0, 5)
  BY PlanIs
<1>4. \A s : Rank(s) \in Nat
  BY DEF Rank
<1>5. ASSUME k <= j PROVE FALSE
  <2>1. k \in DOMAIN P
    BY <1>3, <1>5
  <2>2. Rank(P[k]) <= Rank(P[j])
    <3>1. CASE k = j
      BY <1>4, <3>1
    <3>2. CASE k # j
      <4>1. k < j
        BY <1>3, <1>5, <3>2
      <4> QED BY <1>3, <2>1, <4>1 DEF InOrder
    <3> QED BY <3>1, <3>2
  <2> QED BY <1>2, <1>4, <2>1, <2>2
<1>6. j < k
  BY <1>3, <1>5
<1>7. Settled(o, P[j], l, f)
  BY <1>6 DEF SettledUpTo
<1> QED BY <1>2, <1>7 DEF Settled

\* Once the statements for indexes have their turn, all columns that are late are there.
LEMMA ColumnsThere ==
  ASSUME NEW dl \in DOMAIN Origins, NEW P, P = Plans[dl], NEW k \in Nat, NEW o, NEW l, NEW f,
         SettledUpTo(o, P, k, l, f), k \in DOMAIN P => Rank(P[k]) > 1, k \notin DOMAIN P => k > Len(P),
         NEW n \in Names(dl)
  PROVE  ColumnNames(n) \intersect Declared(n).late \subseteq l[n].cols
<1> SUFFICES ASSUME NEW c \in ColumnNames(n) \intersect Declared(n).late PROVE c \in l[n].cols
  OBVIOUS
<1>1. PICK j \in DOMAIN P : P[j] = Stmt("column", n, c, "looked")
  BY PlanSpells DEF Spells, Tells
<1>2. P[j].do = "column" /\ P[j].tab = n /\ P[j].it = c /\ Rank(P[j]) = 1
  BY <1>1, StmtHas DEF Rank
<1>3. DOMAIN P = 1 .. Len(P) /\ Len(P) \in Nat /\ InOrder(P, 0, 5)
  BY PlanIs
<1>4. \A s : Rank(s) \in Nat
  BY DEF Rank
<1>5. ASSUME k <= j PROVE FALSE
  <2>1. k \in DOMAIN P
    BY <1>3, <1>5
  <2>2. Rank(P[k]) <= Rank(P[j])
    <3>1. CASE k = j
      BY <1>4, <3>1
    <3>2. CASE k # j
      <4>1. k < j
        BY <1>3, <1>5, <3>2
      <4> QED BY <1>3, <2>1, <4>1 DEF InOrder
    <3> QED BY <3>1, <3>2
  <2> QED BY <1>2, <1>4, <2>1, <2>2
<1>6. j < k
  BY <1>3, <1>5
<1>7. Settled(o, P[j], l, f)
  BY <1>6 DEF SettledUpTo
<1> QED BY <1>2, <1>7 DEF Settled

LEMMA PlaceOut ==
  ASSUME NEW dl, NEW o, NEW P, NEW k, NEW d, NEW f, Sound(dl, o, d), SettledUpTo(o, P, k, d, f),
         k \in DOMAIN P => ~InTx(P[k])
  PROVE  Place(dl, o, P, k, NoTx, d, f)
BY DEF Place

LEMMA PlaceIn ==
  ASSUME NEW dl, NEW o, NEW P, NEW k \in DOMAIN P, NEW t, NEW l, NEW d, NEW f,
         Sound(dl, o, l), SettledUpTo(o, P, k, l, f), InTx(P[k]), t # NoTx, t = Seen(P[k], l),
         P[k].do \in {"create", "copy", "drop"} => P[k].tab \in DOMAIN l
  PROVE  Place(dl, o, P, k, t, d, f)
BY DEF Place

\* At the first statement nothing is asked of the database.
LEMMA PlaceFirst ==
  ASSUME NEW dl \in DOMAIN Origins, NEW P, P = Plans[dl], NEW o, NEW d, NEW f, Sound(dl, o, d)
  PROVE  Place(dl, o, P, 1, NoTx, d, f)
<1>1. 1 \in DOMAIN P /\ DOMAIN P = 1 .. Len(P) /\ Whole(P, "out", "out")
  BY PlanIs
<1>2. ~InTx(P[1])
  BY <1>1 DEF Whole
<1>3. SettledUpTo(o, P, 1, d, f)
  BY <1>1 DEF SettledUpTo
<1> QED BY <1>2, <1>3, PlaceOut

\* What has been done stays done, of a plan up to statement k.
LEMMA SettledOn ==
  ASSUME NEW dl \in DOMAIN Origins, NEW P, P = Plans[dl], NEW k, NEW o, NEW d, NEW e, NEW f \in Nat, NEW g \in Nat,
         f <= g, SettledUpTo(o, P, k, d, f), Evolves(d, e),
         Indexed(d, e) \/ \A j \in DOMAIN P : j < k => P[j].do # "index"
  PROVE  SettledUpTo(o, P, k, e, g)
<1> SUFFICES ASSUME NEW j \in DOMAIN P, j < k PROVE Settled(o, P[j], e, g)
  BY DEF SettledUpTo
<1>1. Settled(o, P[j], d, f)
  BY DEF SettledUpTo
<1>2. IsStmt(dl, P[j])
  BY PlanIs
<1>3. Names1(P[j])
  BY <1>2, StmtNames
<1> QED BY <1>1, <1>3, SettledStays

\* A process stays where it is when another one changes the database.
LEMMA PlaceStays ==
  ASSUME NEW dl \in DOMAIN Origins, NEW P, P = Plans[dl], NEW o, NEW k, NEW t, NEW d, NEW e,
         NEW f \in Nat, NEW g \in Nat, f <= g,
         Place(dl, o, P, k, t, d, f), Sound(dl, o, e),
         d = e \/ (IF dl = "sqlite" THEN k = 1 ELSE Evolves(d, e) /\ Indexed(d, e))
  PROVE  Place(dl, o, P, k, t, e, g)
<1>0. Evolves(d, d) /\ Indexed(d, d)
  BY EvolvesSelf
<1>1. PICK l : /\ Sound(dl, o, l) /\ SettledUpTo(o, P, k, l, f)
               /\ IF k \in DOMAIN P /\ InTx(P[k])
                  THEN t # NoTx /\ t = Seen(P[k], l) /\ (P[k].do \in {"create", "copy", "drop"} => P[k].tab \in DOMAIN l)
                  ELSE t = NoTx /\ l = d
  BY DEF Place
<1>2. CASE k \in DOMAIN P /\ InTx(P[k])
  <2>1. Evolves(l, l) /\ Indexed(l, l)
    BY EvolvesSelf
  <2>2. SettledUpTo(o, P, k, l, g)
    BY <1>1, <2>1, SettledOn
  <2> QED BY <1>1, <1>2, <2>2, PlaceIn
<1>3. CASE ~(k \in DOMAIN P /\ InTx(P[k]))
  <2>1. t = NoTx /\ l = d
    BY <1>1, <1>3
  <2>2. CASE d = e
    <3>1. SettledUpTo(o, P, k, e, g)
      BY <1>0, <1>1, <2>1, <2>2, SettledOn
    <3> QED BY <1>3, <2>1, <3>1, PlaceOut
  <2>3. CASE d # e /\ dl = "sqlite"
    BY <2>1, <2>3, PlaceFirst
  <2>4. CASE d # e /\ dl # "sqlite"
    <3>1. Evolves(d, e) /\ Indexed(d, e)
      BY <2>4
    <3>2. SettledUpTo(o, P, k, e, g)
      BY <1>1, <2>1, <3>1, SettledOn
    <3> QED BY <1>3, <2>1, <3>2, PlaceOut
  <2> QED BY <2>2, <2>3, <2>4
<1> QED BY <1>2, <1>3
-----------------------------------------------------------------------------
(* The steps of a start *)

\* What a step of process p leaves: the process at statement k, in stage st, with transaction t.
Moved(p, st, k, t) ==
  /\ stage' = [stage EXCEPT ![p] = st] /\ at' = [at EXCEPT ![p] = k] /\ tx' = [tx EXCEPT ![p] = t]
  /\ UNCHANGED <<dialect, origin>>

LEMMA StepKeeps ==
  ASSUME StartInv, NEW p \in Procs, NEW st, NEW k, NEW t, Moved(p, st, k, t), faults' \in Nat, faults <= faults',
         stage[p] # "down" \/ (dialect = "sqlite" => \A q \in Procs : stage[q] = "down"),
         Sound(dialect, origin, db'),
         db' = db \/ (stage[p] # "down" /\ (dialect # "sqlite" => Evolves(db, db') /\ Indexed(db, db'))),
         OnProc(dialect, origin, Plans[dialect], st, k, t, db', faults')
  PROVE  StartInv'
<1> DEFINE P == Plans[dialect]
           e == db'
           g == faults'
<1>0. /\ dialect \in DOMAIN Origins /\ origin \in Origins[dialect] /\ faults \in Nat
      /\ stage = [q \in Procs |-> stage[q]] /\ at = [q \in Procs |-> at[q]] /\ tx = [q \in Procs |-> tx[q]]
      /\ dialect = "sqlite" => \A q, r \in Procs : stage[q] # "down" /\ stage[r] # "down" => q = r
      /\ \A q \in Procs : OnProc(dialect, origin, P, stage[q], at[q], tx[q], db, faults)
  BY DEF StartInv
<1>1. /\ dialect' = dialect /\ origin' = origin
      /\ stage' = [q \in Procs |-> IF q = p THEN st ELSE stage[q]]
      /\ at' = [q \in Procs |-> IF q = p THEN k ELSE at[q]]
      /\ tx' = [q \in Procs |-> IF q = p THEN t ELSE tx[q]]
  BY <1>0 DEF Moved
<1>2. Plans' = Plans
  BY DEF Plans
<1> HIDE DEF P
<1>3. ASSUME NEW q \in Procs, q # p PROVE OnProc(dialect, origin, P, stage[q], at[q], tx[q], e, g)
  <2>1. OnProc(dialect, origin, P, stage[q], at[q], tx[q], db, faults)
    BY <1>0
  <2>2. /\ stage[q] \in {"down", "look", "exec", "up"} /\ at[q] \in 1 .. Len(P) + 1
        /\ stage[q] = "down" => at[q] = 1
        /\ stage[q] = "up" => at[q] = Len(P) + 1
        /\ Place(dialect, origin, P, at[q], tx[q], db, faults)
    BY <2>1 DEF OnProc
  <2>3. db = e \/ (IF dialect = "sqlite" THEN at[q] = 1 ELSE Evolves(db, e) /\ Indexed(db, e))
    BY <1>0, <1>3, <2>2
  <2> DEFINE i == at[q]
             u == tx[q]
             d == db
             f == faults
             dl == dialect
             o == origin
  <2>4. /\ dl \in DOMAIN Origins /\ P = Plans[dl] /\ f \in Nat /\ g \in Nat /\ f <= g
        /\ Place(dl, o, P, i, u, d, f) /\ Sound(dl, o, e)
        /\ d = e \/ (IF dl = "sqlite" THEN i = 1 ELSE Evolves(d, e) /\ Indexed(d, e))
    BY <1>0, <2>2, <2>3 DEF P
  <2> HIDE DEF i, u, d, f, dl, o, e, g
  <2>5. Place(dl, o, P, i, u, e, g)
    BY <2>4, PlaceStays
  <2>6. Place(dialect, origin, P, at[q], tx[q], e, g)
    BY <2>5 DEF dl, o, i, u
  <2> QED BY <2>2, <2>6 DEF OnProc
<1>4. \A q \in Procs : OnProc(dialect, origin, P, stage'[q], at'[q], tx'[q], db', faults')
  <2> SUFFICES ASSUME NEW q \in Procs PROVE OnProc(dialect, origin, P, stage'[q], at'[q], tx'[q], db', faults')
    OBVIOUS
  <2>1. CASE q = p
    <3>1. stage'[q] = st /\ at'[q] = k /\ tx'[q] = t
      BY <1>1, <2>1
    <3> QED BY <3>1 DEF P
  <2>2. CASE q # p
    <3>1. stage'[q] = stage[q] /\ at'[q] = at[q] /\ tx'[q] = tx[q]
      BY <1>1, <2>2
    <3> QED BY <1>3, <2>2, <3>1 DEF e, g
  <2> QED BY <2>1, <2>2
<1>5. \A q \in Procs : OnProc(dialect', origin', Plans'[dialect'], stage'[q], at'[q], tx'[q], db', faults')
  BY <1>1, <1>2, <1>4 DEF P
<1>6. dialect' = "sqlite" => \A q, r \in Procs : stage'[q] # "down" /\ stage'[r] # "down" => q = r
  <2> SUFFICES ASSUME dialect = "sqlite", NEW q \in Procs, NEW r \in Procs, stage'[q] # "down", stage'[r] # "down"
               PROVE  q = r
    BY <1>1
  <2>1. stage'[q] = IF q = p THEN st ELSE stage[q]
    BY <1>1
  <2>2. stage'[r] = IF r = p THEN st ELSE stage[r]
    BY <1>1
  <2> QED BY <1>0, <2>1, <2>2
<1>7. /\ stage' = [q \in Procs |-> stage'[q]] /\ at' = [q \in Procs |-> at'[q]] /\ tx' = [q \in Procs |-> tx'[q]]
  BY <1>1
<1>8. dialect' \in DOMAIN Origins /\ origin' \in Origins[dialect'] /\ faults' \in Nat /\ Sound(dialect', origin', db')
  BY <1>0, <1>1
<1> QED BY <1>5, <1>6, <1>7, <1>8 DEF StartInv

\* What the invariant says of a process.
LEMMA ProcIs ==
  ASSUME StartInv, NEW p \in Procs, NEW P, P = Plans[dialect]
  PROVE  /\ dialect \in DOMAIN Origins /\ faults \in Nat /\ Sound(dialect, origin, db)
         /\ stage = [q \in Procs |-> stage[q]] /\ at = [q \in Procs |-> at[q]] /\ tx = [q \in Procs |-> tx[q]]
         /\ at[p] \in Nat /\ at[p] >= 1 /\ at[p] <= Len(P) + 1 /\ Len(P) \in Nat /\ DOMAIN P = 1 .. Len(P)
         /\ OnProc(dialect, origin, P, stage[p], at[p], tx[p], db, faults)
         /\ Place(dialect, origin, P, at[p], tx[p], db, faults)
         /\ AtStatement(p) => at[p] \in DOMAIN P /\ Statement(p) = P[at[p]] /\ IsStmt(dialect, P[at[p]]) /\ stage[p] # "down"
<1>1. /\ dialect \in DOMAIN Origins /\ faults \in Nat /\ Sound(dialect, origin, db)
      /\ stage = [q \in Procs |-> stage[q]] /\ at = [q \in Procs |-> at[q]] /\ tx = [q \in Procs |-> tx[q]]
      /\ OnProc(dialect, origin, P, stage[p], at[p], tx[p], db, faults)
  BY DEF StartInv
<1>2. at[p] \in 1 .. Len(P) + 1 /\ Place(dialect, origin, P, at[p], tx[p], db, faults)
  BY <1>1 DEF OnProc
<1>3. Len(P) \in Nat /\ DOMAIN P = 1 .. Len(P) /\ \A k \in DOMAIN P : IsStmt(dialect, P[k])
  BY <1>1, PlanIs
<1>4. ASSUME AtStatement(p)
      PROVE  at[p] \in DOMAIN P /\ Statement(p) = P[at[p]] /\ IsStmt(dialect, P[at[p]]) /\ stage[p] # "down"
  <2>1. at[p] <= Len(P) /\ stage[p] \in {"look", "exec"} /\ Statement(p) = P[at[p]]
    BY <1>4 DEF AtStatement, Starting, Statement
  <2>2. at[p] \in DOMAIN P
    BY <1>2, <1>3, <2>1
  <2> QED BY <1>3, <2>1, <2>2
<1> QED BY <1>1, <1>2, <1>3, <1>4

\* An unchanged part of a process is one that is written as it is.
LEMMA StaysMoved ==
  ASSUME StartInv, NEW p \in Procs, NEW P, P = Plans[dialect]
  PROVE  /\ \A q \in Procs : [stage EXCEPT ![q] = stage[q]] = stage
         /\ \A q \in Procs : [at EXCEPT ![q] = at[q]] = at
         /\ \A q \in Procs : [tx EXCEPT ![q] = tx[q]] = tx
BY ProcIs

LEMMA OpenKeeps ==
  ASSUME StartInv, NEW p \in Procs, Open(p) PROVE StartInv'
<1> DEFINE P == Plans[dialect]
<1>1. /\ dialect \in DOMAIN Origins /\ faults \in Nat /\ Sound(dialect, origin, db)
      /\ OnProc(dialect, origin, P, stage[p], at[p], tx[p], db, faults)
  BY ProcIs
<1>2. Moved(p, "look", at[p], tx[p])
  BY StaysMoved DEF Moved, Open
<1>3. /\ db' = db /\ faults' = faults /\ stage[p] = "down"
      /\ dialect = "sqlite" => \A q \in Procs : stage[q] = "down"
  BY DEF Open
<1>4. OnProc(dialect, origin, P, "look", at[p], tx[p], db', faults')
  BY <1>1, <1>3 DEF OnProc
<1>5. faults <= faults'
  BY <1>1, <1>3
<1> QED BY <1>1, <1>2, <1>3, <1>4, <1>5, StepKeeps

LEMMA UpKeeps ==
  ASSUME StartInv, NEW p \in Procs, Up(p) PROVE StartInv'
<1> DEFINE P == Plans[dialect]
<1>1. /\ dialect \in DOMAIN Origins /\ faults \in Nat /\ Sound(dialect, origin, db)
      /\ OnProc(dialect, origin, P, stage[p], at[p], tx[p], db, faults)
      /\ at[p] \in Nat /\ at[p] <= Len(P) + 1 /\ Len(P) \in Nat
  BY ProcIs
<1>2. Moved(p, "up", at[p], tx[p])
  BY StaysMoved DEF Moved, Up
<1>3. /\ db' = db /\ faults' = faults /\ stage[p] # "down" /\ at[p] > Len(P)
  BY DEF Up, Starting
<1>4. OnProc(dialect, origin, P, "up", at[p], tx[p], db', faults')
  <2>1. at[p] = Len(P) + 1
    BY <1>1, <1>3
  <2> QED BY <1>1, <1>3, <2>1 DEF OnProc
<1>5. faults <= faults'
  BY <1>1, <1>3
<1> QED BY <1>1, <1>2, <1>3, <1>4, <1>5, StepKeeps

\* A start that stops begins again.
LEMMA AbortKeeps ==
  ASSUME StartInv, NEW p \in Procs, Abort(p), stage[p] # "down", faults' \in Nat, faults <= faults',
         UNCHANGED <<dialect, origin>>
  PROVE  StartInv'
<1> DEFINE P == Plans[dialect]
<1>1. /\ dialect \in DOMAIN Origins /\ Sound(dialect, origin, db) /\ Len(P) \in Nat
  BY ProcIs
<1>2. Moved(p, "down", 1, NoTx)
  BY DEF Moved, Abort
<1>3. db' = db
  BY DEF Abort
<1>4. OnProc(dialect, origin, P, "down", 1, NoTx, db', faults')
  <2>1. Place(dialect, origin, P, 1, NoTx, db, faults')
    BY <1>1, PlaceFirst
  <2>2. 1 \in 1 .. Len(P) + 1
    BY <1>1
  <2> QED BY <1>3, <2>1, <2>2 DEF OnProc
<1> QED BY <1>1, <1>2, <1>3, <1>4, StepKeeps

LEMMA FaultKeeps ==
  ASSUME StartInv, NEW p \in Procs, Fault(p) PROVE StartInv'
<1>1. faults \in Nat
  BY DEF StartInv
<1>2. Abort(p) /\ stage[p] # "down" /\ faults' \in Nat /\ faults <= faults' /\ UNCHANGED <<dialect, origin>>
  BY <1>1 DEF Fault
<1> QED BY <1>2, AbortKeeps

\* The next statement, when no transaction is open before or after it.
LEMMA AdvanceOut ==
  ASSUME NEW dl \in DOMAIN Origins, NEW P, P = Plans[dl], NEW o, NEW k \in DOMAIN P, NEW d, NEW e,
         NEW f \in Nat, NEW g \in Nat, f <= g,
         SettledUpTo(o, P, k, d, f), Sound(dl, o, e), Evolves(d, e), Indexed(d, e), Settled(o, P[k], e, g),
         \A r : Follows(P[k], r) <=> ~InTx(r)
  PROVE  OnProc(dl, o, P, "look", k + 1, NoTx, e, g)
<1>1. DOMAIN P = 1 .. Len(P) /\ Len(P) \in Nat /\ Whole(P, "out", "out")
  BY PlanIs
<1>2. SettledUpTo(o, P, k, e, g)
  BY SettledOn
<1>3. SettledUpTo(o, P, k + 1, e, g)
  <2> SUFFICES ASSUME NEW j \in DOMAIN P, j < k + 1 PROVE Settled(o, P[j], e, g)
    BY DEF SettledUpTo
  <2>1. j < k \/ j = k
    BY <1>1
  <2> QED BY <1>2, <2>1 DEF SettledUpTo
<1>4. k + 1 \in DOMAIN P => ~InTx(P[k + 1])
  BY <1>1 DEF Whole
<1>5. Place(dl, o, P, k + 1, NoTx, e, g)
  BY <1>3, <1>4, PlaceOut
<1>6. k + 1 \in 1 .. Len(P) + 1
  BY <1>1
<1> QED BY <1>5, <1>6 DEF OnProc

\* A process at a statement that looks at what it makes has no transaction.
LEMMA OutIs ==
  ASSUME NEW dl, NEW o, NEW P, NEW k, NEW t, NEW d, NEW f, Place(dl, o, P, k, t, d, f), ~(k \in DOMAIN P /\ InTx(P[k]))
  PROVE  t = NoTx /\ Sound(dl, o, d) /\ SettledUpTo(o, P, k, d, f)
BY DEF Place

\* What a statement finds done is done.
LEMMA DoneSettled ==
  ASSUME NEW o, NEW s, NEW d, NEW f, Done(s, d), s.do = "table" \/ Alters(s),
         s.do \in {"column", "index", "unindex", "uncolumn"} => s.tab \in DOMAIN d
  PROVE  Settled(o, s, d, f)
<1>1. CASE s.do = "table"
  BY <1>1 DEF Done, Settled
<1>2. CASE s.do = "column"
  BY <1>2 DEF Done, Settled
<1>3. CASE s.do = "index"
  BY <1>3 DEF Done, Settled
<1>4. CASE s.do = "unindex"
  BY <1>4 DEF Done, Settled
<1>5. CASE s.do = "uncolumn"
  BY <1>5 DEF Done, Settled
<1>6. CASE s.do = "unconstrain"
  BY <1>6 DEF Done, Settled
<1> QED BY <1>1, <1>2, <1>3, <1>4, <1>5, <1>6 DEF Alters

\* Where a process is that is at a statement which looks at what it makes.
LEMMA AtOut ==
  ASSUME StartInv, NEW p \in Procs, AtStatement(p), NEW s, s = Statement(p), s.how \in {"if", "looked", "tolerated"}
  PROVE  /\ s.do = "table" \/ Alters(s)
         /\ tx[p] = NoTx /\ SettledUpTo(origin, Plans[dialect], at[p], db, faults)
         /\ s.do # "table" => Names(dialect) \subseteq DOMAIN db
         /\ s.do \in {"column", "index", "unindex", "uncolumn"} => s.tab \in DOMAIN db
<1> DEFINE P == Plans[dialect]
           k == at[p]
<1>1. /\ dialect \in DOMAIN Origins /\ at[p] \in Nat
      /\ Place(dialect, origin, P, at[p], tx[p], db, faults)
      /\ at[p] \in DOMAIN P /\ Statement(p) = P[at[p]] /\ IsStmt(dialect, P[at[p]])
  BY ProcIs
<1> HIDE DEF P, k
<1>2. s = P[k] /\ IsStmt(dialect, s) /\ k \in DOMAIN P /\ k \in Nat /\ Place(dialect, origin, P, k, tx[p], db, faults)
  BY <1>1 DEF k
<1>3. /\ s.do = "table" \/ Alters(s)
      /\ ~InTx(s)
      /\ s.do \in {"column", "index"} => s.tab \in Names(dialect)
      /\ s.do \in {"unindex", "uncolumn"} => s.tab = NameTable
  BY <1>2, StmtKinds
<1>4. tx[p] = NoTx /\ SettledUpTo(origin, P, k, db, faults)
  BY <1>2, <1>3, OutIs
<1>5. ASSUME s.do # "table" PROVE Names(dialect) \subseteq DOMAIN db
  <2>1. Rank(s) >= 1
    BY <1>3, <1>5 DEF Rank, Alters
  <2>2. P = Plans[dialect]
    BY DEF P
  <2> QED BY <1>1, <1>2, <1>4, <2>1, <2>2, TablesThere
<1>6. NameTable \in Names(dialect)
  BY <1>1, PlanIs
<1> QED BY <1>3, <1>4, <1>5, <1>6 DEF P, k

\* A process goes on from a statement that changed db into e.
LEMMA AdvanceKeeps ==
  ASSUME StartInv, NEW p \in Procs, AtStatement(p), NEW s, s = Statement(p), s.how \in {"if", "looked", "tolerated"},
         Advance(p, 1), UNCHANGED <<dialect, origin, tx>>, faults' \in Nat, faults <= faults',
         Sound(dialect, origin, db'), Evolves(db, db'), Indexed(db, db'), Settled(origin, s, db', faults')
  PROVE  StartInv'
<1> DEFINE P == Plans[dialect]
           k == at[p]
           e == db'
           g == faults'
           d == db
           f == faults
           dl == dialect
           o == origin
<1>1. /\ dl \in DOMAIN Origins /\ f \in Nat /\ stage[p] # "down" /\ k \in DOMAIN P /\ s = P[k] /\ IsStmt(dl, s)
  BY ProcIs
<1>2. tx[p] = NoTx /\ SettledUpTo(o, P, k, d, f) /\ (s.do = "table" \/ Alters(s))
  BY AtOut
<1>3. \A r : Follows(s, r) <=> ~InTx(r)
  BY <1>1, <1>2, StmtKinds
<1>4. Moved(p, "look", k + 1, NoTx)
  <2>1. tx' = [tx EXCEPT ![p] = NoTx]
    BY <1>2, StaysMoved
  <2> QED BY <2>1 DEF Moved, Advance
<1>5. /\ Sound(dl, o, e) /\ Evolves(d, e) /\ Indexed(d, e) /\ Settled(o, P[k], e, g) /\ g \in Nat /\ f <= g
      /\ P = Plans[dl] /\ \A r : Follows(P[k], r) <=> ~InTx(r)
  BY <1>1, <1>3
<1> HIDE DEF P, k, e, g, d, f, dl, o
<1>6. OnProc(dl, o, P, "look", k + 1, NoTx, e, g)
  BY <1>1, <1>2, <1>5, AdvanceOut
<1>7. OnProc(dialect, origin, Plans[dialect], "look", k + 1, NoTx, db', faults')
  BY <1>6 DEF dl, o, P, e, g
<1> QED BY <1>1, <1>4, <1>7, StepKeeps

LEMMA LookKeeps ==
  ASSUME StartInv, NEW p \in Procs, Look(p) PROVE StartInv'
<1> DEFINE s == Statement(p)
<1>1. /\ AtStatement(p) /\ stage[p] = "look" /\ s.how = "looked"
      /\ IF Done(s, db) THEN Advance(p, 1) ELSE stage' = [stage EXCEPT ![p] = "exec"] /\ UNCHANGED at
      /\ UNCHANGED <<dialect, db, tx, origin, faults>>
  BY DEF Look
<1>2. faults \in Nat /\ Sound(dialect, origin, db)
  BY DEF StartInv
<1>3. faults' \in Nat /\ faults <= faults'
  BY <1>1, <1>2
<1>4. CASE Done(s, db)
  <2> HIDE DEF s
  <2>0. s = Statement(p) /\ s.how \in {"if", "looked", "tolerated"}
    BY <1>1 DEF s
  <2>1. /\ s.do = "table" \/ Alters(s)
        /\ s.do \in {"column", "index", "unindex", "uncolumn"} => s.tab \in DOMAIN db
    BY <1>1, <2>0, AtOut
  <2>2. Settled(origin, s, db, faults)
    BY <1>4, <2>1, DoneSettled
  <2>3. Evolves(db, db) /\ Indexed(db, db)
    BY EvolvesSelf
  <2>4. Sound(dialect, origin, db') /\ Evolves(db, db') /\ Indexed(db, db') /\ Settled(origin, s, db', faults')
    BY <1>1, <1>2, <2>2, <2>3
  <2>5. Advance(p, 1) /\ UNCHANGED <<dialect, origin, tx>>
    BY <1>1, <1>4
  <2> QED BY <1>1, <1>3, <2>0, <2>4, <2>5, AdvanceKeeps
<1>5. CASE ~Done(s, db)
  <2> DEFINE P == Plans[dialect]
  <2>1. OnProc(dialect, origin, P, stage[p], at[p], tx[p], db, faults)
    BY ProcIs
  <2>2. OnProc(dialect, origin, P, "exec", at[p], tx[p], db', faults')
    BY <1>1, <2>1 DEF OnProc
  <2>3. Moved(p, "exec", at[p], tx[p])
    BY <1>1, <1>5, StaysMoved DEF Moved
  <2> QED BY <1>1, <1>2, <1>3, <2>2, <2>3, StepKeeps
<1> QED BY <1>4, <1>5

\* A tolerated statement that the database does not do is for an index that cannot be made.
LEMMA ImpossibleSettled ==
  ASSUME StartInv, NEW p \in Procs, AtStatement(p), NEW s, s = Statement(p), s.how = "tolerated", ~Possible(s, db)
  PROVE  Settled(origin, s, db, faults)
<1> DEFINE P == Plans[dialect]
           k == at[p]
           n == s.tab
<1>1. /\ dialect \in DOMAIN Origins /\ k \in Nat /\ k \in DOMAIN P /\ s = P[k] /\ IsStmt(dialect, s)
      /\ Sound(dialect, origin, db)
  BY ProcIs
<1>2. s.do = "index" /\ s.it.kind = "tolerant" /\ n \in Names(dialect) /\ s.it \in Range(Declared(n).idx)
  BY <1>1, StmtKinds
<1>3. SettledUpTo(origin, P, k, db, faults) /\ n \in DOMAIN db
  BY <1>2, AtOut
<1>4. ~(s.it.on \subseteq db[n].cols) \/ Doubled(db[n].rows)
  BY <1>2 DEF Possible
<1>5. Doubled(db[n].rows) \/ Lacks(origin, n)
  <2> SUFFICES ASSUME ~(s.it.on \subseteq db[n].cols), ~Lacks(origin, n) PROVE FALSE
    BY <1>4
  <2>1. ColumnNames(n) \ Declared(n).late \subseteq Base(origin, n)
    BY DEF Lacks
  <2>2. Base(origin, n) \subseteq db[n].cols
    BY <1>1, <1>2, <1>3 DEF Sound, TableIn, Shaped
  <2>3. ColumnNames(n) \intersect Declared(n).late \subseteq db[n].cols
    <3>1. P = Plans[dialect] /\ Rank(P[k]) > 1
      BY <1>1, <1>2 DEF Rank
    <3> HIDE DEF P, k, n
    <3> QED BY <1>1, <1>2, <1>3, <3>1, ColumnsThere
  <2>4. s.it.on \subseteq ColumnNames(n)
    BY <1>2, DeclaredIn
  <2> QED BY <2>1, <2>2, <2>3, <2>4
<1> QED BY <1>2, <1>3, <1>5 DEF Settled

LEMMA ExecKeeps ==
  ASSUME StartInv, NEW p \in Procs, Exec(p) PROVE StartInv'
<1> DEFINE s == Statement(p)
<1>1. /\ AtStatement(p)
      /\ s.how \in {"if", "tolerated"} \/ (s.how = "looked" /\ stage[p] = "exec")
      /\ IF Done(s, db) /\ s.how # "looked" THEN Advance(p, 1) /\ UNCHANGED <<db, tx>>
         ELSE IF ~Done(s, db) /\ Possible(s, db) THEN Advance(p, 1) /\ Becomes(p, Effect(s, db))
         ELSE IF s.how = "tolerated" THEN Advance(p, 1) /\ UNCHANGED <<db, tx>>
         ELSE Abort(p)
      /\ UNCHANGED <<dialect, origin, faults>>
  BY DEF Exec
<1> HIDE DEF s
<1>2. s = Statement(p) /\ s.how \in {"if", "looked", "tolerated"}
  BY <1>1 DEF s
<1>3. faults \in Nat /\ Sound(dialect, origin, db) /\ dialect \in DOMAIN Origins
  BY DEF StartInv
<1>4. faults' \in Nat /\ faults <= faults' /\ faults' = faults
  BY <1>1, <1>3
<1>5. /\ s.do = "table" \/ Alters(s)
      /\ tx[p] = NoTx
      /\ s.do \in {"column", "index", "unindex", "uncolumn"} => s.tab \in DOMAIN db
  BY <1>1, <1>2, AtOut
<1>6. stage[p] # "down" /\ IsStmt(dialect, s)
  BY <1>1, <1>2, ProcIs
<1>7. Evolves(db, db) /\ Indexed(db, db)
  BY EvolvesSelf
<1>8. ASSUME Advance(p, 1), UNCHANGED <<db, tx>>, Settled(origin, s, db, faults) PROVE StartInv'
  <2>1. Sound(dialect, origin, db') /\ Evolves(db, db') /\ Indexed(db, db') /\ Settled(origin, s, db', faults')
    BY <1>3, <1>4, <1>7, <1>8
  <2>2. Advance(p, 1) /\ UNCHANGED <<dialect, origin, tx>>
    BY <1>1, <1>8
  <2> QED BY <1>1, <1>2, <1>4, <2>1, <2>2, AdvanceKeeps
<1>9. CASE Done(s, db) /\ s.how # "looked"
  <2>1. Settled(origin, s, db, faults)
    BY <1>5, <1>9, DoneSettled
  <2> QED BY <1>1, <1>8, <1>9, <2>1
<1>10. CASE ~(Done(s, db) /\ s.how # "looked") /\ ~Done(s, db) /\ Possible(s, db)
  <2>1. Advance(p, 1) /\ Becomes(p, Effect(s, db))
    BY <1>1, <1>10
  <2>2. db' = Effect(s, db) /\ UNCHANGED tx
    BY <1>5, <2>1 DEF Becomes
  <2>3. \/ s.do = "table" /\ s.tab \notin DOMAIN db /\ s.tab \notin DOMAIN origin
        \/ Alters(s) /\ s.tab \in DOMAIN db
    <3>1. CASE s.do = "table"
      <4>1. s.tab \notin DOMAIN db
        BY <1>10, <3>1 DEF Done
      <4> QED BY <1>3, <3>1, <4>1 DEF Sound, Holds
    <3>2. CASE s.do = "unconstrain"
      <4>1. s.tab \in DOMAIN db
        BY <1>10, <3>2 DEF Done
      <4> QED BY <3>2, <4>1 DEF Alters
    <3>3. CASE s.do \in {"column", "index", "unindex", "uncolumn"}
      BY <1>5, <3>3 DEF Alters
    <3> QED BY <1>5, <3>1, <3>2, <3>3 DEF Alters
  <2>4. NameTable \in Names(dialect)
    BY <1>3, PlanIs
  <2> DEFINE d == db
             o == origin
             f == faults
  <2>5. /\ Sound(dialect, o, d) /\ IsStmt(dialect, s) /\ NameTable \in Names(dialect)
        /\ \/ s.do = "table" /\ s.tab \notin DOMAIN d /\ s.tab \notin DOMAIN o
           \/ Alters(s) /\ s.tab \in DOMAIN d
    BY <1>3, <1>6, <2>3, <2>4
  <2> HIDE DEF d, o, f
  <2>6. /\ Sound(dialect, o, Effect(s, d)) /\ Settled(o, s, Effect(s, d), f)
        /\ Evolves(d, Effect(s, d)) /\ Indexed(d, Effect(s, d))
    BY <2>5, EffectIs
  <2>7. /\ Sound(dialect, origin, db') /\ Settled(origin, s, db', faults')
        /\ Evolves(db, db') /\ Indexed(db, db')
    BY <1>4, <2>2, <2>6 DEF d, o, f
  <2>8. UNCHANGED <<dialect, origin, tx>>
    BY <1>1, <2>2
  <2> QED BY <1>1, <1>2, <1>4, <2>1, <2>7, <2>8, AdvanceKeeps
<1>11. CASE ~(Done(s, db) /\ s.how # "looked") /\ ~(~Done(s, db) /\ Possible(s, db)) /\ s.how = "tolerated"
  <2>1. ~Possible(s, db)
    BY <1>11
  <2>2. Settled(origin, s, db, faults)
    BY <1>1, <1>2, <1>11, <2>1, ImpossibleSettled
  <2> QED BY <1>1, <1>8, <1>11, <2>2
<1>12. CASE ~(Done(s, db) /\ s.how # "looked") /\ ~(~Done(s, db) /\ Possible(s, db)) /\ s.how # "tolerated"
  <2>1. Abort(p) /\ UNCHANGED <<dialect, origin>>
    BY <1>1, <1>12
  <2> QED BY <1>4, <1>6, <2>1, AbortKeeps
<1> QED BY <1>9, <1>10, <1>11, <1>12

LEMMA TolerateKeeps ==
  ASSUME StartInv, NEW p \in Procs, Tolerate(p) PROVE StartInv'
<1> DEFINE s == Statement(p)
<1>1. /\ AtStatement(p) /\ s.how = "tolerated" /\ faults' = faults + 1 /\ Advance(p, 1)
      /\ UNCHANGED <<dialect, db, tx, origin>>
  BY DEF Tolerate
<1> HIDE DEF s
<1>2. s = Statement(p) /\ s.how \in {"if", "looked", "tolerated"}
  BY <1>1 DEF s
<1>3. faults \in Nat /\ Sound(dialect, origin, db)
  BY DEF StartInv
<1>4. faults' \in Nat /\ faults <= faults' /\ faults' > 0
  BY <1>1, <1>3
<1>5. s.do = "index" /\ IsStmt(dialect, s)
  BY <1>1, <1>2, ProcIs, StmtKinds
<1>6. s.tab \in DOMAIN db
  BY <1>1, <1>2, <1>5, AtOut
<1>7. Settled(origin, s, db', faults')
  BY <1>1, <1>4, <1>5, <1>6 DEF Settled
<1>8. Evolves(db, db') /\ Indexed(db, db') /\ Sound(dialect, origin, db') /\ UNCHANGED <<dialect, origin, tx>>
  BY <1>1, <1>3, EvolvesSelf
<1> QED BY <1>1, <1>2, <1>4, <1>7, <1>8, AdvanceKeeps

-----------------------------------------------------------------------------
(* The transaction that rebuilds tables *)

\* What comes after statement k of a plan, and what has been done by then.
LEMMA NextIs ==
  ASSUME NEW dl \in DOMAIN Origins, NEW P, P = Plans[dl], NEW k \in DOMAIN P
  PROVE  /\ k \in Nat /\ k + 1 \in 1 .. Len(P) + 1
         /\ k + 1 \in DOMAIN P => Follows(P[k], P[k + 1]) /\ IsStmt(dl, P[k + 1])
         /\ After(P[k]) # "out" => k + 1 \in DOMAIN P
         /\ \A o, l, f : SettledUpTo(o, P, k, l, f) /\ Settled(o, P[k], l, f) => SettledUpTo(o, P, k + 1, l, f)
<1>1. /\ DOMAIN P = 1 .. Len(P) /\ Len(P) \in Nat /\ Whole(P, "out", "out")
      /\ \A j \in DOMAIN P : IsStmt(dl, P[j])
  BY PlanIs
<1>2. k \in Nat /\ k + 1 \in 1 .. Len(P) + 1
  BY <1>1
<1>3. k + 1 \in DOMAIN P => Follows(P[k], P[k + 1])
  BY <1>1 DEF Whole
<1>4. k + 1 \notin DOMAIN P => After(P[k]) = "out"
  BY <1>1 DEF Whole
<1>5. ASSUME NEW o, NEW l, NEW f, SettledUpTo(o, P, k, l, f), Settled(o, P[k], l, f)
      PROVE  SettledUpTo(o, P, k + 1, l, f)
  <2> SUFFICES ASSUME NEW j \in DOMAIN P, j < k + 1 PROVE Settled(o, P[j], l, f)
    BY DEF SettledUpTo
  <2>1. j < k \/ j = k
    BY <1>1
  <2> QED BY <1>5, <2>1 DEF SettledUpTo
<1> QED BY <1>1, <1>2, <1>3, <1>4, <1>5

\* After the beginning and after each table there is another table, or the end.
LEMMA NextTable ==
  ASSUME NEW dl \in DOMAIN Origins, NEW P, P = Plans[dl], NEW k \in DOMAIN P, P[k].do \in {"begin", "drop"},
         NEW o, NEW l, NEW f, Sound(dl, o, l), SettledUpTo(o, P, k, l, f), Settled(o, P[k], l, f), l # NoTx, NEW d
  PROVE  OnProc(dl, o, P, "look", k + 1, l, d, f)
<1>1. /\ k + 1 \in 1 .. Len(P) + 1
      /\ k + 1 \in DOMAIN P => Follows(P[k], P[k + 1])
      /\ After(P[k]) # "out" => k + 1 \in DOMAIN P
      /\ SettledUpTo(o, P, k + 1, l, f)
  BY NextIs
<1>2. After(P[k]) = "in"
  BY DEF After
<1>3. k + 1 \in DOMAIN P /\ P[k + 1].do \in {"rename", "commit"}
  BY <1>1, <1>2 DEF Follows
<1>4. InTx(P[k + 1]) /\ Seen(P[k + 1], l) = l
  BY <1>3 DEF InTx, Seen
<1>5. P[k + 1].do \in {"create", "copy", "drop"} => P[k + 1].tab \in DOMAIN l
  BY <1>3
<1> DEFINE i == k + 1
<1>6. i \in DOMAIN P /\ SettledUpTo(o, P, i, l, f) /\ InTx(P[i]) /\ l = Seen(P[i], l)
      /\ (P[i].do \in {"create", "copy", "drop"} => P[i].tab \in DOMAIN l)
  BY <1>1, <1>3, <1>4, <1>5
<1> HIDE DEF i
<1>7. Place(dl, o, P, i, l, d, f)
  BY <1>6, PlaceIn
<1> QED BY <1>1, <1>7 DEF OnProc, i

\* Within a table: the next of its four statements.
LEMMA NextOfTable ==
  ASSUME NEW dl \in DOMAIN Origins, NEW P, P = Plans[dl], NEW k \in DOMAIN P, P[k].do \in {"rename", "create", "copy"},
         NEW o, NEW l, NEW f, Sound(dl, o, l), SettledUpTo(o, P, k, l, f), P[k].tab \in DOMAIN l,
         NEW t, t # NoTx, NEW d,
         P[k].do = "rename" => t = Aside(P[k].tab, l),
         P[k].do = "create" => t = Put(Aside(P[k].tab, l), P[k].tab, Fresh(P[k].tab)),
         P[k].do = "copy" => t = Put(Aside(P[k].tab, l), P[k].tab, Copied(P[k].tab, l[P[k].tab]))
  PROVE  OnProc(dl, o, P, "look", k + 1, t, d, f)
<1>0. Settled(o, P[k], l, f)
  BY DEF Settled
<1>1. /\ k + 1 \in 1 .. Len(P) + 1
      /\ k + 1 \in DOMAIN P => Follows(P[k], P[k + 1])
      /\ After(P[k]) # "out" => k + 1 \in DOMAIN P
      /\ SettledUpTo(o, P, k + 1, l, f)
  BY <1>0, NextIs
<1>2. After(P[k]) = "busy"
  BY DEF After
<1> DEFINE i == k + 1
           n == P[k].tab
<1>3. /\ i \in DOMAIN P /\ P[i].tab = n
      /\ P[k].do = "rename" => P[i].do = "create"
      /\ P[k].do = "create" => P[i].do = "copy"
      /\ P[k].do = "copy" => P[i].do = "drop"
  BY <1>1, <1>2 DEF Follows
<1> HIDE DEF i
<1>4. t = Seen(P[i], l)
  <2>1. CASE P[k].do = "rename"
    BY <1>3, <2>1 DEF Seen
  <2>2. CASE P[k].do = "create"
    BY <1>3, <2>2 DEF Seen
  <2>3. CASE P[k].do = "copy"
    BY <1>3, <2>3 DEF Seen
  <2> QED BY <2>1, <2>2, <2>3
<1>5. InTx(P[i]) /\ P[i].tab \in DOMAIN l
  BY <1>3 DEF InTx
<1>6. SettledUpTo(o, P, i, l, f)
  BY <1>1 DEF i
<1>7. Place(dl, o, P, i, t, d, f)
  BY <1>3, <1>4, <1>5, <1>6, PlaceIn
<1> QED BY <1>1, <1>7 DEF OnProc, i

LEMMA BeginKeeps ==
  ASSUME StartInv, NEW p \in Procs, Begin(p) PROVE StartInv'
<1> DEFINE P == Plans[dialect]
           k == at[p]
           d == db
           f == faults
           dl == dialect
           o == origin
<1>1. /\ AtStatement(p) /\ Statement(p).do = "begin" /\ tx' = [tx EXCEPT ![p] = db] /\ Advance(p, 1)
      /\ UNCHANGED <<dialect, db, origin, faults>>
  BY DEF Begin
<1>2. /\ dl \in DOMAIN Origins /\ f \in Nat /\ stage[p] # "down" /\ k \in DOMAIN P /\ Statement(p) = P[k]
      /\ Place(dl, o, P, k, tx[p], d, f) /\ k \in Nat
  BY <1>1, ProcIs
<1>3. Moved(p, "look", k + 1, d)
  BY <1>1 DEF Moved, Advance
<1>4. P = Plans[dl] /\ P[k].do = "begin"
  BY <1>1, <1>2
<1> HIDE DEF P, k, d, f, dl, o
<1>5. ~InTx(P[k]) /\ Rank(P[k]) >= 1 /\ Settled(o, P[k], d, f)
  BY <1>4 DEF InTx, Rank, Settled
<1>6. Sound(dl, o, d) /\ SettledUpTo(o, P, k, d, f)
  BY <1>2, <1>5, OutIs
<1>7. Names(dl) \subseteq DOMAIN d
  BY <1>2, <1>4, <1>5, <1>6, TablesThere
<1>8. d # NoTx
  <2>1. NameTable \in DOMAIN d
    BY <1>2, <1>7, OriginsAssumption, SchemaAssumption
  <2>2. DOMAIN NoTx = {}
    BY DEF NoTx
  <2> QED BY <2>1, <2>2
<1>9. OnProc(dl, o, P, "look", k + 1, d, d, f)
  BY <1>2, <1>4, <1>5, <1>6, <1>8, NextTable
<1>10. OnProc(dialect, origin, Plans[dialect], "look", k + 1, d, db', faults')
  BY <1>1, <1>9 DEF dl, o, P, d, f
<1>11. Sound(dialect, origin, db') /\ db' = db /\ faults' \in Nat /\ faults <= faults'
  BY <1>1, <1>2, <1>6 DEF dl, o, d, f
<1> QED BY <1>2, <1>3, <1>10, <1>11, StepKeeps

\* Where a process is that is at a statement of a rebuild, or at the end of the transaction.
LEMMA AtIn ==
  ASSUME StartInv, NEW p \in Procs, AtStatement(p), NEW s, s = Statement(p), InTx(s), NEW P, P = Plans[dialect]
  PROVE  /\ dialect = "sqlite" /\ tx[p] # NoTx
         /\ \E l : /\ Sound(dialect, origin, l) /\ SettledUpTo(origin, P, at[p], l, faults) /\ tx[p] = Seen(s, l)
                   /\ s.do # "commit" => s.tab \in Names(dialect) /\ s.tab \in DOMAIN l
<1> DEFINE k == at[p]
<1>1. /\ dialect \in DOMAIN Origins /\ k \in Nat
      /\ Place(dialect, origin, P, k, tx[p], db, faults)
      /\ k \in DOMAIN P /\ s = P[k] /\ IsStmt(dialect, P[k])
  BY ProcIs
<1> HIDE DEF k
<1>2. PICK l : /\ Sound(dialect, origin, l) /\ SettledUpTo(origin, P, k, l, faults)
               /\ IF k \in DOMAIN P /\ InTx(P[k])
                  THEN tx[p] # NoTx /\ tx[p] = Seen(P[k], l) /\ (P[k].do \in {"create", "copy", "drop"} => P[k].tab \in DOMAIN l)
                  ELSE tx[p] = NoTx /\ l = db
  BY <1>1 DEF Place
<1>3. tx[p] # NoTx /\ tx[p] = Seen(s, l) /\ (s.do \in {"create", "copy", "drop"} => s.tab \in DOMAIN l)
  BY <1>1, <1>2
<1>4. dialect = "sqlite" /\ (s.do \in {"rename", "create", "copy", "drop"} => s.tab \in Names(dialect))
  BY <1>1, StmtKinds
<1>5. Rank(P[k]) >= 1
  BY <1>1 DEF InTx, Rank
<1>6. Names(dialect) \subseteq DOMAIN l
  BY <1>1, <1>2, <1>5, TablesThere
<1>7. s.do # "commit" => s.tab \in Names(dialect) /\ s.tab \in DOMAIN l
  BY <1>4, <1>6 DEF InTx
<1> QED BY <1>2, <1>3, <1>4, <1>7 DEF k

LEMMA CommitKeeps ==
  ASSUME StartInv, NEW p \in Procs, Commit(p) PROVE StartInv'
<1> DEFINE P == Plans[dialect]
           k == at[p]
           s == Statement(p)
           f == faults
           dl == dialect
           o == origin
<1>1. /\ AtStatement(p) /\ s.do = "commit" /\ db' = tx[p] /\ tx' = [tx EXCEPT ![p] = NoTx] /\ Advance(p, 1)
      /\ UNCHANGED <<dialect, origin, faults>>
  BY DEF Commit
<1>2. /\ dl \in DOMAIN Origins /\ f \in Nat /\ stage[p] # "down" /\ k \in DOMAIN P /\ s = P[k] /\ P = Plans[dl]
  BY <1>1, ProcIs
<1>3. Moved(p, "look", k + 1, NoTx)
  BY <1>1 DEF Moved, Advance
<1>4. InTx(s)
  BY <1>1 DEF InTx
<1>5. dialect = "sqlite" /\ \E l : Sound(dl, o, l) /\ SettledUpTo(o, P, k, l, f) /\ tx[p] = Seen(s, l)
  <2> DEFINE S == s
  <2>1. AtStatement(p) /\ S = Statement(p) /\ InTx(S) /\ P = Plans[dialect]
    BY <1>1, <1>4
  <2> HIDE DEF S, P
  <2>2. /\ dialect = "sqlite"
        /\ \E l : /\ Sound(dialect, origin, l) /\ SettledUpTo(origin, P, at[p], l, faults) /\ tx[p] = Seen(S, l)
                  /\ S.do # "commit" => S.tab \in Names(dialect) /\ S.tab \in DOMAIN l
    BY <2>1, AtIn
  <2> QED BY <2>2 DEF S
<1> HIDE DEF P, k, s, f, dl, o
<1>6. PICK l : Sound(dl, o, l) /\ SettledUpTo(o, P, k, l, f) /\ tx[p] = Seen(s, l)
  BY <1>5
<1>7. Seen(s, l) = l /\ Settled(o, P[k], l, f) /\ (\A r : Follows(P[k], r) <=> ~InTx(r))
  BY <1>1, <1>2 DEF Seen, Settled, Follows
<1>8. /\ k + 1 \in 1 .. Len(P) + 1 /\ (k + 1 \in DOMAIN P => Follows(P[k], P[k + 1]))
      /\ SettledUpTo(o, P, k + 1, l, f)
  BY <1>2, <1>6, <1>7, NextIs
<1>9. OnProc(dl, o, P, "look", k + 1, NoTx, l, f)
  <2> DEFINE i == k + 1
  <2>1. i \in DOMAIN P => ~InTx(P[i])
    BY <1>7, <1>8
  <2>2. SettledUpTo(o, P, i, l, f)
    BY <1>8
  <2> HIDE DEF i
  <2>3. Place(dl, o, P, i, NoTx, l, f)
    BY <1>6, <2>1, <2>2, PlaceOut
  <2> QED BY <1>8, <2>3 DEF OnProc, i
<1>10. db' = l /\ faults' = faults
  BY <1>1, <1>6, <1>7
<1>11. OnProc(dialect, origin, Plans[dialect], "look", k + 1, NoTx, db', faults')
  BY <1>9, <1>10 DEF dl, o, P, f
<1>12. Sound(dialect, origin, db') /\ faults' \in Nat /\ faults <= faults'
  BY <1>2, <1>6, <1>10 DEF dl, o, f
<1> QED BY <1>2, <1>3, <1>5, <1>11, <1>12, StepKeeps

\* A table without constraints that are to go stays, and its four statements are over.
LEMMA SkipsTable ==
  ASSUME NEW dl \in DOMAIN Origins, NEW P, P = Plans[dl], NEW k \in DOMAIN P, P[k].do = "rename",
         NEW o, NEW l, NEW f, Sound(dl, o, l), SettledUpTo(o, P, k, l, f), P[k].tab \in DOMAIN l,
         l[P[k].tab].cons = {}, l # NoTx, NEW d
  PROVE  OnProc(dl, o, P, "look", k + 4, l, d, f)
<1> DEFINE n == P[k].tab
           k1 == k + 1
           k2 == k1 + 1
           k3 == k2 + 1
<1>1. /\ k1 \in DOMAIN P /\ P[k1].do = "create" /\ P[k1].tab = n /\ SettledUpTo(o, P, k1, l, f) /\ k \in Nat
  <2>1. After(P[k]) = "busy" /\ Settled(o, P[k], l, f)
    BY DEF After, Settled
  <2>2. /\ k + 1 \in DOMAIN P => Follows(P[k], P[k + 1])
        /\ After(P[k]) # "out" => k + 1 \in DOMAIN P
        /\ SettledUpTo(o, P, k + 1, l, f) /\ k \in Nat
    BY <2>1, NextIs
  <2> QED BY <2>1, <2>2 DEF Follows
<1> HIDE DEF k1, n
<1>2. /\ k2 \in DOMAIN P /\ P[k2].do = "copy" /\ P[k2].tab = n /\ SettledUpTo(o, P, k2, l, f)
  <2>1. After(P[k1]) = "busy" /\ Settled(o, P[k1], l, f)
    BY <1>1 DEF After, Settled
  <2>2. /\ k1 + 1 \in DOMAIN P => Follows(P[k1], P[k1 + 1])
        /\ After(P[k1]) # "out" => k1 + 1 \in DOMAIN P
        /\ SettledUpTo(o, P, k1 + 1, l, f)
    BY <1>1, <2>1, NextIs
  <2> QED BY <1>1, <2>1, <2>2 DEF Follows
<1> HIDE DEF k2
<1>3. /\ k3 \in DOMAIN P /\ P[k3].do = "drop" /\ P[k3].tab = n /\ SettledUpTo(o, P, k3, l, f)
  <2>1. After(P[k2]) = "busy" /\ Settled(o, P[k2], l, f)
    BY <1>2 DEF After, Settled
  <2>2. /\ k2 + 1 \in DOMAIN P => Follows(P[k2], P[k2 + 1])
        /\ After(P[k2]) # "out" => k2 + 1 \in DOMAIN P
        /\ SettledUpTo(o, P, k2 + 1, l, f)
    BY <1>2, <2>1, NextIs
  <2> QED BY <1>2, <2>1, <2>2 DEF Follows
<1> HIDE DEF k3
<1>4. Settled(o, P[k3], l, f)
  BY <1>3 DEF Settled, n
<1>5. OnProc(dl, o, P, "look", k3 + 1, l, d, f)
  BY <1>3, <1>4, NextTable
<1>6. k3 + 1 = k + 4
  BY <1>1 DEF k1, k2, k3
<1> QED BY <1>5, <1>6

\* The last of the four: the table is rebuilt.
LEMMA EndsTable ==
  ASSUME NEW P, P = Plans["sqlite"], "sqlite" \in DOMAIN Origins, NEW k \in DOMAIN P, P[k].do = "drop",
         NEW o, NEW l, NEW f \in Nat, Sound("sqlite", o, l), SettledUpTo(o, P, k, l, f),
         P[k].tab \in Names("sqlite"), P[k].tab \in DOMAIN l, NEW d,
         NEW t, t = Put(l, P[k].tab, Copied(P[k].tab, l[P[k].tab]))
  PROVE  OnProc("sqlite", o, P, "look", k + 1, t, d, f)
<1> DEFINE n == P[k].tab
           dl == "sqlite"
<1>1. Sound(dl, o, t) /\ Evolves(l, t) /\ t[n].cons = {}
  BY RebuiltIs
<1>2. n \in DOMAIN t /\ t # NoTx
  <2>1. IsPut(t, l, n, Copied(n, l[n]))
    BY PutIs
  <2>2. n \in DOMAIN t
    BY <2>1 DEF IsPut
  <2>3. DOMAIN NoTx = {}
    BY DEF NoTx
  <2> QED BY <2>2, <2>3
<1>3. Settled(o, P[k], t, f)
  BY <1>1, <1>2 DEF Settled
<1>4. \A j \in DOMAIN P : j < k => P[j].do # "index"
  <2> SUFFICES ASSUME NEW j \in DOMAIN P, j < k, P[j].do = "index" PROVE FALSE
    OBVIOUS
  <2>1. InOrder(P, 0, 5)
    BY PlanIs
  <2>2. Rank(P[j]) <= Rank(P[k])
    BY <2>1 DEF InOrder
  <2>3. Rank(P[j]) = 5 /\ Rank(P[k]) = 3
    BY DEF Rank
  <2> QED BY <2>2, <2>3
<1> HIDE DEF n, dl
<1>5. SettledUpTo(o, P, k, t, f)
  <2>1. dl \in DOMAIN Origins /\ P = Plans[dl] /\ f <= f
    BY DEF dl
  <2> QED BY <1>1, <1>4, <2>1, SettledOn
<1>6. dl \in DOMAIN Origins /\ P = Plans[dl]
  BY DEF dl
<1>7. OnProc(dl, o, P, "look", k + 1, t, d, f)
  BY <1>1, <1>2, <1>3, <1>5, <1>6, NextTable
<1> QED BY <1>7 DEF dl

LEMMA RebuildKeeps ==
  ASSUME StartInv, NEW p \in Procs, RebuildStep(p) PROVE StartInv'
<1> DEFINE s == Statement(p)
           k == at[p]
           P == Plans[dialect]
           f == faults
           o == origin
<1>1. /\ AtStatement(p) /\ s.how = "rebuild"
      /\ IF s.do = "rename" /\ ~Outdated(s.tab, Sees(p)) THEN Advance(p, 4) /\ UNCHANGED <<db, tx>>
         ELSE IF s.do = "rename" /\ ~(ColumnNames(s.tab) \subseteq Sees(p)[s.tab].cols) THEN Abort(p)
         ELSE Advance(p, 1) /\ Becomes(p, RebuildEffect(s, Sees(p)))
      /\ UNCHANGED <<dialect, origin, faults>>
  BY DEF RebuildStep
<1>2. /\ dialect \in DOMAIN Origins /\ faults \in Nat /\ Sound(dialect, origin, db)
      /\ stage[p] # "down" /\ k \in DOMAIN P /\ s = P[k] /\ IsStmt(dialect, s)
  BY <1>1, ProcIs
<1>3. s.do \in {"rename", "create", "copy", "drop"} /\ InTx(s)
  BY <1>1, <1>2, StmtKinds DEF InTx
<1>4. faults' = faults /\ faults' \in Nat /\ faults <= faults'
  BY <1>1, <1>2
<1>5. /\ dialect = "sqlite" /\ tx[p] # NoTx
      /\ \E l : /\ Sound(dialect, o, l) /\ SettledUpTo(o, P, k, l, f) /\ tx[p] = Seen(s, l)
                /\ s.tab \in Names(dialect) /\ s.tab \in DOMAIN l
  <2> DEFINE S == s
  <2>1. AtStatement(p) /\ S = Statement(p) /\ InTx(S) /\ P = Plans[dialect] /\ S.do # "commit"
    BY <1>1, <1>3
  <2> HIDE DEF S, P
  <2>2. /\ dialect = "sqlite" /\ tx[p] # NoTx
        /\ \E l : /\ Sound(dialect, origin, l) /\ SettledUpTo(origin, P, at[p], l, faults) /\ tx[p] = Seen(S, l)
                  /\ S.do # "commit" => S.tab \in Names(dialect) /\ S.tab \in DOMAIN l
    BY <2>1, AtIn
  <2> QED BY <2>1, <2>2 DEF S
<1>6. P = Plans["sqlite"] /\ "sqlite" \in DOMAIN Origins /\ Sees(p) = tx[p]
  BY <1>2, <1>5 DEF Sees
<1> HIDE DEF s, k, P, f, o
<1>7. PICK l : /\ Sound("sqlite", o, l) /\ SettledUpTo(o, P, k, l, f) /\ tx[p] = Seen(s, l)
               /\ s.tab \in Names("sqlite") /\ s.tab \in DOMAIN l
  BY <1>5
<1>8. ASSUME NEW j, NEW t, Advance(p, j), tx' = [tx EXCEPT ![p] = t], db' = db,
             OnProc("sqlite", o, P, "look", k + j, t, db, f)
      PROVE  StartInv'
  <2>1. Moved(p, "look", k + j, t)
    BY <1>1, <1>8 DEF Moved, Advance, k
  <2>2. OnProc(dialect, origin, Plans[dialect], "look", k + j, t, db', faults')
    BY <1>4, <1>5, <1>6, <1>8 DEF o, f
  <2>3. Sound(dialect, origin, db')
    BY <1>2, <1>8
  <2> DEFINE i == k + j
  <2>4. Moved(p, "look", i, t) /\ OnProc(dialect, origin, Plans[dialect], "look", i, t, db', faults')
    BY <2>1, <2>2
  <2> HIDE DEF i
  <2> QED BY <1>2, <1>4, <1>8, <2>3, <2>4, StepKeeps
<1>9. CASE s.do = "rename"
  <2>1. tx[p] = l
    BY <1>7, <1>9 DEF Seen
  <2>2. CASE ~Outdated(s.tab, l)
    <3>1. Advance(p, 4) /\ UNCHANGED <<db, tx>>
      BY <1>1, <1>6, <1>9, <2>1, <2>2
    <3>2. l[s.tab].cons = {}
      <4>1. \A c \in l[s.tab].cons : \E x \in Range(Legacy) : x[1] = s.tab /\ x[2] = c
        BY <1>7 DEF Sound, TableIn, Lawful
      <4> QED BY <2>2, <4>1 DEF Outdated
    <3>3. OnProc("sqlite", o, P, "look", k + 4, l, db, f)
      BY <1>2, <1>5, <1>6, <1>7, <1>9, <2>1, <3>2, SkipsTable
    <3>4. tx' = [tx EXCEPT ![p] = l]
      BY <2>1, <3>1, StaysMoved
    <3> QED BY <1>8, <3>1, <3>3, <3>4
  <2>3. CASE Outdated(s.tab, l) /\ ~(ColumnNames(s.tab) \subseteq l[s.tab].cols)
    <3>1. Abort(p) /\ UNCHANGED <<dialect, origin>>
      BY <1>1, <1>6, <1>9, <2>1, <2>3
    <3> QED BY <1>2, <1>4, <3>1, AbortKeeps
  <2>4. CASE Outdated(s.tab, l) /\ ColumnNames(s.tab) \subseteq l[s.tab].cols
    <3> DEFINE t == Aside(s.tab, l)
    <3>1. Advance(p, 1) /\ Becomes(p, RebuildEffect(s, l))
      BY <1>1, <1>6, <1>9, <2>1, <2>4
    <3>2. db' = db /\ tx' = [tx EXCEPT ![p] = t]
      BY <1>5, <1>9, <3>1, Renamed DEF Becomes
    <3>3. t # NoTx
      <4>1. IsAside(t, s.tab, l)
        BY <1>7, AsideIs
      <4>2. DOMAIN NoTx = {}
        BY DEF NoTx
      <4> QED BY <4>1, <4>2 DEF IsAside
    <3> HIDE DEF t
    <3>4. P[k].do \in {"rename", "create", "copy"} /\ P[k] = s /\ P[k].do = "rename" /\ P[k].tab \in DOMAIN l /\ t = Aside(P[k].tab, l)
      BY <1>2, <1>7, <1>9 DEF t
    <3>5. OnProc("sqlite", o, P, "look", k + 1, t, db, f)
      BY <1>2, <1>6, <1>7, <3>3, <3>4, NextOfTable
    <3> QED BY <1>8, <3>1, <3>2, <3>5
  <2> QED BY <2>2, <2>3, <2>4
<1>10. ASSUME s.do # "rename" PROVE Advance(p, 1) /\ db' = db /\ tx' = [tx EXCEPT ![p] = RebuildEffect(s, Seen(s, l))]
  <2>1. Advance(p, 1) /\ Becomes(p, RebuildEffect(s, Seen(s, l)))
    BY <1>1, <1>6, <1>7, <1>10
  <2> QED BY <1>5, <2>1 DEF Becomes
<1>11. CASE s.do = "create"
  <2> DEFINE t == Put(Aside(s.tab, l), s.tab, Fresh(s.tab))
  <2>1. RebuildEffect(s, Seen(s, l)) = t
    BY <1>5, <1>11, Created
  <2>2. t # NoTx
    <3>1. IsPut(t, Aside(s.tab, l), s.tab, Fresh(s.tab))
      BY PutIs
    <3>2. DOMAIN NoTx = {}
      BY DEF NoTx
    <3> QED BY <3>1, <3>2 DEF IsPut
  <2> HIDE DEF t
  <2>3. P[k].do = "create" /\ P[k] = s /\ P[k].tab \in DOMAIN l /\ t = Put(Aside(P[k].tab, l), P[k].tab, Fresh(P[k].tab))
    BY <1>2, <1>7, <1>11 DEF t
  <2>4. OnProc("sqlite", o, P, "look", k + 1, t, db, f)
    BY <1>2, <1>6, <1>7, <2>2, <2>3, NextOfTable
  <2> QED BY <1>8, <1>10, <1>11, <2>1, <2>4
<1>12. CASE s.do = "copy"
  <2> DEFINE t == Put(Aside(s.tab, l), s.tab, Copied(s.tab, l[s.tab]))
  <2>1. RebuildEffect(s, Seen(s, l)) = t
    BY <1>7, <1>12, CopiedOver
  <2>2. t # NoTx
    <3>1. IsPut(t, Aside(s.tab, l), s.tab, Copied(s.tab, l[s.tab]))
      BY PutIs
    <3>2. DOMAIN NoTx = {}
      BY DEF NoTx
    <3> QED BY <3>1, <3>2 DEF IsPut
  <2> HIDE DEF t
  <2>3. /\ P[k].do = "copy" /\ P[k] = s /\ P[k].tab \in DOMAIN l
        /\ t = Put(Aside(P[k].tab, l), P[k].tab, Copied(P[k].tab, l[P[k].tab]))
    BY <1>2, <1>7, <1>12 DEF t
  <2>4. OnProc("sqlite", o, P, "look", k + 1, t, db, f)
    BY <1>2, <1>6, <1>7, <2>2, <2>3, NextOfTable
  <2> QED BY <1>8, <1>10, <1>12, <2>1, <2>4
<1>13. CASE s.do = "drop"
  <2> DEFINE t == Put(l, s.tab, Copied(s.tab, l[s.tab]))
  <2>1. RebuildEffect(s, Seen(s, l)) = t
    BY <1>7, <1>13, Dropped
  <2> HIDE DEF t
  <2>2. /\ P[k].do = "drop" /\ P[k].tab \in Names("sqlite") /\ P[k].tab \in DOMAIN l
        /\ t = Put(l, P[k].tab, Copied(P[k].tab, l[P[k].tab])) /\ f \in Nat
    BY <1>2, <1>7, <1>13 DEF t, f
  <2>3. OnProc("sqlite", o, P, "look", k + 1, t, db, f)
    BY <1>2, <1>6, <1>7, <2>2, EndsTable
  <2> QED BY <1>8, <1>10, <1>13, <2>1, <2>3
<1> QED BY <1>3, <1>9, <1>11, <1>12, <1>13

-----------------------------------------------------------------------------
(* The theorems *)

\* A database that a release has left is one that a start may find.
LEMMA ReleasedSound ==
  ASSUME NEW dl \in DOMAIN Origins, NEW o \in Origins[dl] PROVE Sound(dl, o, o)
<1>1. ASSUME NEW n \in DOMAIN o PROVE TableIn(dl, o, n, o[n])
  <2>1. Tabular(o[n]) /\ \A m \in Names(dl) : n # Bak(m)
    BY OriginsAssumption
  <2>2. Lawful(dl, n, o[n])
    BY OriginsAssumption DEF Lawful
  <2>3. Shaped(dl, o, n, o[n])
    <3> SUFFICES ASSUME n \in Names(dl)
                 PROVE  /\ Base(o, n) \subseteq o[n].cols /\ o[n].cols \ ColumnNames(n) \subseteq Besides(dl, n)
                        /\ dl = "mysql" => Inline(n) \subseteq o[n].idx
      BY DEF Shaped
    <3>1. Base(o, n) \subseteq o[n].cols
      BY DEF Base
    <3>2. o[n].cols \ ColumnNames(n) \subseteq Besides(dl, n)
      BY OriginsAssumption DEF Besides
    <3>3. dl = "mysql" => Inline(n) \subseteq o[n].idx
      BY OriginsAssumption DEF Inline
    <3> QED BY <3>1, <3>2, <3>3
  <2> QED BY <2>1, <2>2, <2>3 DEF TableIn
<1>2. o = [n \in DOMAIN o |-> o[n]]
  BY OriginsAssumption
<1>3. Holds(o, o)
  BY CarriedSelf DEF Holds
<1> QED BY <1>1, <1>2, <1>3 DEF Sound

LEMMA StartInit ==
  ASSUME AsReleased PROVE StartInv
<1> DEFINE P == Plans[dialect]
<1>1. /\ dialect \in DOMAIN Origins /\ origin \in Origins[dialect] /\ db = origin /\ faults = 0
      /\ stage = [p \in Procs |-> "down"] /\ at = [p \in Procs |-> 1] /\ tx = [p \in Procs |-> NoTx]
  BY DEF AsReleased
<1>2. Sound(dialect, origin, db)
  BY <1>1, ReleasedSound
<1>3. Place(dialect, origin, P, 1, NoTx, db, faults)
  BY <1>1, <1>2, PlaceFirst
<1>4. 1 \in 1 .. Len(P) + 1
  BY <1>1, PlanIs
<1>5. OnProc(dialect, origin, P, "down", 1, NoTx, db, faults)
  BY <1>3, <1>4 DEF OnProc
<1>6. \A p \in Procs : OnProc(dialect, origin, P, stage[p], at[p], tx[p], db, faults)
  <2> SUFFICES ASSUME NEW p \in Procs PROVE OnProc(dialect, origin, P, stage[p], at[p], tx[p], db, faults)
    OBVIOUS
  <2>1. stage[p] = "down" /\ at[p] = 1 /\ tx[p] = NoTx
    BY <1>1
  <2> QED BY <1>5, <2>1
<1>7. \A p \in Procs : stage[p] = "down"
  BY <1>1
<1>8. /\ stage = [p \in Procs |-> stage[p]] /\ at = [p \in Procs |-> at[p]] /\ tx = [p \in Procs |-> tx[p]]
      /\ faults \in Nat
  BY <1>1
<1> QED BY <1>1, <1>2, <1>6, <1>7, <1>8 DEF StartInv

LEMMA StartStays ==
  ASSUME StartInv, UNCHANGED migrated PROVE StartInv'
<1>1. UNCHANGED <<dialect, db, stage, at, tx, origin, faults>>
  BY DEF migrated
<1>2. Plans' = Plans
  BY DEF Plans
<1> QED BY <1>1, <1>2 DEF StartInv

LEMMA StartNext ==
  ASSUME StartInv, [LNext]_lvars PROVE StartInv'
<1>1. CASE UNCHANGED lvars
  BY <1>1, StartStays DEF lvars
<1>2. ASSUME NEW p \in Procs,
             \/ Before(Open(p)) \/ Before(Look(p)) \/ Before(Exec(p)) \/ Before(Begin(p))
             \/ Before(Commit(p)) \/ Before(RebuildStep(p)) \/ Before(Up(p))
             \/ Before(Fault(p)) \/ Before(Tolerate(p))
      PROVE  StartInv'
  <2>1. \/ Open(p) \/ Look(p) \/ Exec(p) \/ Begin(p) \/ Commit(p) \/ RebuildStep(p) \/ Up(p) \/ Fault(p) \/ Tolerate(p)
    BY <1>2 DEF Before
  <2> QED BY <2>1, OpenKeeps, LookKeeps, ExecKeeps, BeginKeeps, CommitKeeps, RebuildKeeps, UpKeeps, FaultKeeps,
             TolerateKeeps
<1>3. CASE \/ \E c \in Async : Serve(AsyncCheck(c)) \/ Serve(AsyncSend(c))
           \/ \E c \in Sync : Serve(SyncCheck(c)) \/ Serve(SyncSend(c)) \/ Serve(SyncReturn(c))
           \/ Serve(Take) \/ Serve(Run) \/ Serve(SeeStop) \/ Serve(EndDrain)
           \/ \E s \in Stoppers : Serve(StopMark(s)) \/ Serve(StopClose(s)) \/ Serve(StopReturn(s))
           \/ Serve(Exit)
  <2>1. UNCHANGED migrated
    BY <1>3 DEF Serve
  <2> QED BY <2>1, StartStays
<1> QED BY <1>1, <1>2, <1>3 DEF LNext

\* What has been done when all statements are over is what the schema says.
LEMMA SettledIsCurrent ==
  ASSUME StartInv, NEW P, P = Plans[dialect], SettledUpTo(origin, P, Len(P) + 1, db, faults), ~Foreign
  PROVE  Current
<1> DEFINE N == Len(P)
           k == N + 1
<1>1. /\ dialect \in DOMAIN Origins /\ faults \in Nat /\ Sound(dialect, origin, db) /\ origin \in Origins[dialect]
  BY DEF StartInv
<1>2. /\ N \in Nat /\ DOMAIN P = 1 .. N /\ NameTable \in Names(dialect) /\ dialect \in {"sqlite", "postgres", "mysql"}
      /\ \A j \in DOMAIN P : IsStmt(dialect, P[j])
  BY <1>1, PlanIs
<1>3. Spells(dialect, P)
  BY <1>1, PlanSpells
<1>4. k \in Nat /\ k \notin DOMAIN P /\ k > Len(P) /\ \A j \in DOMAIN P : j < k
  BY <1>2
<1>5. ASSUME NEW s, Tells(P, s) PROVE Settled(origin, s, db, faults) /\ IsStmt(dialect, s)
  <2>1. PICK j \in DOMAIN P : P[j] = s
    BY <1>5 DEF Tells
  <2> QED BY <1>2, <1>4, <2>1 DEF SettledUpTo
<1>6. SettledUpTo(origin, P, k, db, faults)
  OBVIOUS
<1> HIDE DEF N, k
<1>7. Names(dialect) \subseteq DOMAIN db
  BY <1>1, <1>4, <1>6, TablesThere
<1>8. ASSUME NEW n \in DOMAIN db PROVE db[n].cons = {}
  <2>1. Lawful(dialect, n, db[n])
    BY <1>1 DEF Sound, TableIn
  <2> SUFFICES ASSUME NEW c \in db[n].cons PROVE FALSE
    OBVIOUS
  <2>2. PICK l \in Range(Legacy) : l[1] = n /\ l[2] = c
    BY <2>1 DEF Lawful
  <2>3. dialect # "mysql" /\ (dialect = "sqlite" => n \in Names(dialect))
    BY <2>1 DEF Lawful
  <2>4. CASE dialect = "postgres"
    <3> DEFINE s == Stmt("unconstrain", n, c, "if")
    <3>1. Tells(P, s)
      BY <1>3, <2>2, <2>4 DEF Spells
    <3>2. s.do = "unconstrain" /\ s.tab = n /\ s.it = c
      BY StmtHas
    <3> HIDE DEF s
    <3> QED BY <1>5, <3>1, <3>2 DEF Settled
  <2>5. CASE dialect = "sqlite"
    <3> DEFINE s == Stmt("drop", n, Active, "rebuild")
    <3>1. Tells(P, s)
      BY <1>3, <2>2, <2>3, <2>5 DEF Spells
    <3>2. s.do = "drop" /\ s.tab = n
      BY StmtHas
    <3> HIDE DEF s
    <3> QED BY <1>5, <3>1, <3>2 DEF Settled
  <2> QED BY <1>2, <2>3, <2>4, <2>5
<1>9. ASSUME NEW n \in Names(dialect) PROVE db[n].cols = ColumnNames(n)
  <2>1. /\ Base(origin, n) \subseteq db[n].cols /\ db[n].cols \ ColumnNames(n) \subseteq Besides(dialect, n)
    BY <1>1, <1>7 DEF Sound, TableIn, Shaped
  <2>2. ColumnNames(n) \intersect Declared(n).late \subseteq db[n].cols
    BY <1>1, <1>4, <1>6, ColumnsThere
  <2>3. ColumnNames(n) \ Declared(n).late \subseteq Base(origin, n)
    <3>1. CASE n \in DOMAIN origin
      <4>1. ColumnNames(n) \ Declared(n).late \subseteq origin[n].cols
        BY <3>1 DEF Foreign
      <4> QED BY <3>1, <4>1 DEF Base
    <3>2. CASE n \notin DOMAIN origin
      BY <3>2 DEF Base
    <3> QED BY <3>1, <3>2
  <2>4. ColumnNames(n) \subseteq db[n].cols
    BY <2>1, <2>2, <2>3
  <2>5. ASSUME dialect = "mysql", n = NameTable PROVE NameColumn \notin db[n].cols
    <3> DEFINE s == Stmt("uncolumn", NameTable, NameColumn, "looked")
    <3>1. Tells(P, s)
      BY <1>3, <2>5 DEF Spells
    <3>2. s.do = "uncolumn" /\ s.tab = NameTable /\ s.it = NameColumn
      BY StmtHas
    <3> HIDE DEF s
    <3> QED BY <1>5, <2>5, <3>1, <3>2 DEF Settled
  <2>6. db[n].cols \subseteq ColumnNames(n)
    BY <2>1, <2>5 DEF Besides
  <2> QED BY <2>4, <2>6
<1>10. ASSUME NEW n \in Names(dialect) PROVE NameIndex \notin db[n].idx
  <2>1. NameIndex \in db[n].idx => n = NameTable
    BY <1>1, <1>7 DEF Sound, TableIn, Lawful
  <2>2. PICK how \in {"if", "looked"} : Tells(P, Stmt("unindex", NameTable, NameIndex, how))
    BY <1>3 DEF Spells
  <2> DEFINE s == Stmt("unindex", NameTable, NameIndex, how)
  <2>3. Tells(P, s) /\ s.do = "unindex" /\ s.tab = NameTable /\ s.it = NameIndex
    BY <2>2, StmtHas
  <2> HIDE DEF s
  <2> QED BY <1>5, <2>1, <2>3 DEF Settled
<1>11. ASSUME NEW n \in Names(dialect), NEW x \in Range(Declared(n).idx)
       PROVE  \/ x.name \in db[n].idx
              \/ x.kind = "tolerant" /\ (Doubled(db[n].rows) \/ faults > 0)
  <2>1. CASE dialect = "mysql" /\ x.kind # "plain"
    <3>1. Inline(n) \subseteq db[n].idx
      BY <1>1, <1>7, <2>1 DEF Sound, TableIn, Shaped
    <3>2. x.name \in Inline(n)
      BY <2>1 DEF Inline
    <3> QED BY <3>1, <3>2
  <2>2. CASE ~(dialect = "mysql" /\ x.kind # "plain")
    <3>1. PICK how \in {"if", "looked", "tolerated"} : Tells(P, Stmt("index", n, x, how))
      BY <1>3, <2>2 DEF Spells
    <3> DEFINE s == Stmt("index", n, x, how)
    <3>2. Tells(P, s) /\ s.do = "index" /\ s.tab = n /\ s.it = x
      BY <3>1, StmtHas
    <3> HIDE DEF s
    <3>3. Settled(origin, s, db, faults) /\ IsStmt(dialect, s)
      BY <1>5, <3>2
    <3>4. \/ x.name \in db[n].idx
          \/ s.how = "tolerated" /\ (Doubled(db[n].rows) \/ faults > 0 \/ Lacks(origin, n))
      BY <3>2, <3>3 DEF Settled
    <3>5. s.how = "tolerated" => x.kind = "tolerant"
      BY <3>2, <3>3, StmtKinds
    <3>6. ~Lacks(origin, n)
      <4>1. CASE n \in DOMAIN origin
        <5>1. ColumnNames(n) \ Declared(n).late \subseteq origin[n].cols
          BY <4>1 DEF Foreign
        <5> QED BY <4>1, <5>1 DEF Base, Lacks
      <4>2. CASE n \notin DOMAIN origin
        BY <4>2 DEF Base, Lacks
      <4> QED BY <4>1, <4>2
    <3> QED BY <3>4, <3>5, <3>6
  <2> QED BY <2>1, <2>2
<1> QED BY <1>7, <1>8, <1>9, <1>10, <1>11 DEF Current

\* The invariant is one: wherever starts and faults lead, each process is at a place where all that
\* its statements so far were for has come about, and the database has what it had at first.
THEOREM StartInvAlways == LSpec => []StartInv
<1>1. LInit => StartInv
  BY StartInit DEF LInit
<1>2. StartInv /\ [LNext]_lvars => StartInv'
  BY StartNext
<1> QED BY <1>1, <1>2, PTL DEF LSpec

\* internal/db: no row and no value of a database that a release has left is ever lost, in whatever
\* order processes start, fail and start again.
THEOREM NothingLostAlways == LSpec => []NothingLost
<1>1. StartInv => NothingLost
  BY DEF StartInv, Sound, Holds, Carried, Carries, NothingLost
<1> QED BY <1>1, StartInvAlways, PTL

\* internal/db: when a process has opened the database, it has the schema of the program.
THEOREM UpIsCurrentAlways == LSpec => []UpIsCurrent
<1>1. StartInv => UpIsCurrent
  <2> SUFFICES ASSUME StartInv, NEW p \in Procs, stage[p] = "up", ~Foreign PROVE Current
    BY DEF UpIsCurrent
  <2> DEFINE P == Plans[dialect]
             k == Len(P) + 1
  <2>1. dialect \in DOMAIN Origins /\ OnProc(dialect, origin, P, stage[p], at[p], tx[p], db, faults)
    BY DEF StartInv
  <2>2. at[p] = k /\ Place(dialect, origin, P, k, tx[p], db, faults)
    BY <2>1 DEF OnProc
  <2>3. k \notin DOMAIN P
    BY <2>1, PlanIs
  <2>4. SettledUpTo(origin, P, k, db, faults)
    <3> HIDE DEF P, k
    <3> QED BY <2>2, <2>3, OutIs
  <2> QED BY <2>4, SettledIsCurrent
<1> QED BY <1>1, StartInvAlways, PTL

-----------------------------------------------------------------------------
(* The writer *)

USE CallsAssumption, CapAssumption

\* A call is sent at most once, and not before it has passed its check.
SentInv ==
  /\ \A i, j \in 1..Len(sent) : sent[i] = sent[j] => i = j
  /\ \A i \in 1..Len(sent) : pc[sent[i]] \notin {"new", "checked"}

\* Who waits has been sent, and who has returned has been refused or served.
AnswerInv ==
  \A c \in Sync :
    /\ pc[c] = "wait" /\ answer[c] # "none" => \E i \in 1..ran : sent[i] = c
    /\ pc[c] = "done" /\ answer[c] # "refused" => \E i \in 1..ran : sent[i] = c
    /\ pc[c] = "done" /\ answer[c] = "refused" => \A i \in 1..Len(sent) : sent[i] # c
    /\ pc[c] \in {"new", "checked"} => answer[c] = "none"
    /\ pc[c] = "wait" => answer[c] # "refused"

\* inflight counts the calls between their check and their return, and the loop
\* drains only when there will be no more of them.
StopInv ==
  /\ \A c \in Sync : c \in inflight <=> pc[c] \in {"checked", "wait"}
  /\ \A s \in Stoppers : pc[s] \in {"drain", "join"} => closed
  /\ stopCh => closed /\ inflight = {}
  /\ loop # "serve" => stopCh
  /\ loop = "ended" => ~Running

WInv == TypeOK /\ SentInv /\ AnswerInv /\ StopInv

LEMMA WInvInit == Init => WInv
  <1> SUFFICES ASSUME Init PROVE WInv
    OBVIOUS
  <1>1. sent \in Seq(Calls) /\ Len(sent) = 0
    BY DEF Init
  <1>2. TypeOK
    <2>1. \A i \in 1..Len(sent) : FALSE
      BY <1>1
    <2>2. /\ pc \in [Calls \union Stoppers -> {"new", "checked", "wait", "drain", "join", "done"}]
          /\ answer \in [Calls -> {"none", "ok", "failed", "refused", "dropped"}]
          /\ taken = 0 /\ ran = 0 /\ inflight = {} /\ loop = "serve"
          /\ closed = FALSE /\ stopCh = FALSE
      BY DEF Init
    <2>3. /\ taken \in Nat /\ taken <= Len(sent) /\ ran \in Nat /\ ran = taken
          /\ loop \in {"serve", "drain", "ended"}
      BY <1>1, <2>2
    <2>4. closed \in BOOLEAN /\ stopCh \in BOOLEAN /\ inflight \in SUBSET Sync
      BY <2>2
    <2> QED BY <1>1, <2>1, <2>2, <2>3, <2>4 DEF TypeOK
  <1>3. SentInv
    BY <1>1 DEF SentInv
  <1>4. AnswerInv /\ StopInv
    BY DEF Init, AnswerInv, StopInv, Running, Calls
  <1> QED BY <1>2, <1>3, <1>4 DEF WInv

\* What Append does to a sequence of calls.
LEMMA Appended ==
  ASSUME NEW S, NEW q \in Seq(S), NEW c \in S
  PROVE  /\ Append(q, c) \in Seq(S)
         /\ Len(Append(q, c)) = Len(q) + 1
         /\ \A i \in 1..Len(q) : Append(q, c)[i] = q[i]
         /\ Append(q, c)[Len(q) + 1] = c
  OBVIOUS

\* A call that sends its closure.
LEMMA SendSafe ==
  ASSUME WInv, NEW c \in Calls, pc[c] = "checked", sent' = Append(sent, c),
         c \in Sync \/ Pending < Cap,
         pc' = [pc EXCEPT ![c] = IF c \in Sync THEN "wait" ELSE "done"],
         UNCHANGED <<taken, ran, loop, closed, stopCh, inflight, answer>>
  PROVE  WInv'
  <1>1. /\ sent' \in Seq(Calls) /\ Len(sent') = Len(sent) + 1
        /\ \A i \in 1..Len(sent) : sent'[i] = sent[i]
        /\ sent'[Len(sent) + 1] = c
    BY Appended DEF WInv, TypeOK
  <1>2. Len(sent) \in Nat
    BY DEF WInv, TypeOK
  <1>3. \A i \in 1..Len(sent) : sent[i] # c
    BY DEF WInv, SentInv
  <1>4. \A i \in 1..Len(sent') : i \in 1..Len(sent) \/ i = Len(sent) + 1
    BY <1>1, <1>2
  <1>5. TypeOK'
    <2>1. \A i \in 1..Len(sent') : i > taken + Cap => sent'[i] \in Sync
      BY <1>1, <1>2, <1>4 DEF WInv, TypeOK, Pending
    <2>2. pc' \in [Calls \union Stoppers -> {"new", "checked", "wait", "drain", "join", "done"}]
      BY DEF WInv, TypeOK
    <2> QED BY <1>1, <1>2, <2>1, <2>2 DEF WInv, TypeOK
  <1>6. SentInv'
    <2>1. \A i, j \in 1..Len(sent') : sent'[i] = sent'[j] => i = j
      BY <1>1, <1>2, <1>3, <1>4 DEF WInv, SentInv
    <2>2. ASSUME NEW i \in 1..Len(sent') PROVE pc'[sent'[i]] \notin {"new", "checked"}
      <3>1. CASE i \in 1..Len(sent)
        <4>1. sent'[i] = sent[i] /\ sent[i] # c /\ sent[i] \in Calls
          BY <1>1, <1>3, <3>1 DEF WInv, TypeOK
        <4> QED BY <3>1, <4>1 DEF WInv, SentInv, TypeOK
      <3>2. CASE i = Len(sent) + 1
        BY <1>1, <3>2 DEF WInv, TypeOK
      <3> QED BY <1>4, <3>1, <3>2
    <2> QED BY <2>1, <2>2 DEF SentInv
  <1>7. AnswerInv'
    <2> SUFFICES ASSUME NEW d \in Sync
                 PROVE  /\ pc'[d] = "wait" /\ answer[d] # "none" => \E i \in 1..ran : sent'[i] = d
                        /\ pc'[d] = "done" /\ answer[d] # "refused" =>
                             \E i \in 1..ran : sent'[i] = d
                        /\ pc'[d] = "done" /\ answer[d] = "refused" =>
                             \A i \in 1..Len(sent') : sent'[i] # d
                        /\ pc'[d] \in {"new", "checked"} => answer[d] = "none"
                        /\ pc'[d] = "wait" => answer[d] # "refused"
      BY DEF AnswerInv
    <2>1. \A i \in 1..ran : i \in 1..Len(sent) /\ sent'[i] = sent[i]
      BY <1>1, <1>2 DEF WInv, TypeOK
    <2>2. CASE d # c
      <3>1. pc'[d] = pc[d]
        BY <2>2 DEF WInv, TypeOK
      <3> QED BY <1>1, <1>4, <2>1, <2>2, <3>1 DEF WInv, AnswerInv
    <2>3. CASE d = c
      <3>1. pc'[c] = "wait"
        BY <2>3 DEF WInv, TypeOK, Calls
      <3>2. answer[c] = "none"
        BY <2>3 DEF WInv, AnswerInv
      <3> QED BY <2>3, <3>1, <3>2
    <2> QED BY <2>2, <2>3
  <1>8. StopInv'
    BY DEF WInv, StopInv, TypeOK, Running, Calls
  <1> QED BY <1>5, <1>6, <1>7, <1>8 DEF WInv

\* The check of a call, and the return of one of DoSync: nothing is sent.
LEMMA CallSafe ==
  ASSUME WInv, (\E c \in Async : AsyncCheck(c)) \/ (\E c \in Sync : SyncCheck(c) \/ SyncReturn(c))
  PROVE  WInv'
  <1>1. ASSUME NEW c \in Async, AsyncCheck(c) PROVE WInv'
    <2> USE <1>1 DEF WInv, TypeOK, AsyncCheck, Calls
    <2>1. TypeOK'
      OBVIOUS
    <2>2. SentInv'
      BY DEF SentInv
    <2>3. AnswerInv'
      BY DEF AnswerInv
    <2>4. StopInv'
      BY DEF StopInv, Running
    <2> QED BY <2>1, <2>2, <2>3, <2>4
  <1>2. ASSUME NEW c \in Sync, SyncCheck(c) PROVE WInv'
    <2> USE <1>2 DEF WInv, TypeOK, SyncCheck, Calls
    <2>1. TypeOK'
      OBVIOUS
    <2>2. SentInv'
      BY DEF SentInv
    <2>3. AnswerInv'
      <3>1. \A i \in 1..Len(sent) : sent[i] # c
        BY DEF SentInv
      <3> QED BY <3>1 DEF AnswerInv
    <2>4. StopInv'
      BY DEF StopInv, Running
    <2> QED BY <2>1, <2>2, <2>3, <2>4
  <1>3. ASSUME NEW c \in Sync, SyncReturn(c) PROVE WInv'
    <2> USE <1>3 DEF WInv, TypeOK, SyncReturn, Calls
    <2>1. TypeOK'
      OBVIOUS
    <2>2. SentInv'
      BY DEF SentInv
    <2>3. AnswerInv'
      BY DEF AnswerInv
    <2>4. StopInv'
      BY DEF StopInv, Running
    <2> QED BY <2>1, <2>2, <2>3, <2>4
  <1> QED BY <1>1, <1>2, <1>3

LEMMA LoopSafe == ASSUME WInv, Loop PROVE WInv'
  <1> USE DEF WInv, TypeOK
  <1>1. CASE Take
    BY <1>1 DEF Take, Pending, Running, SentInv, AnswerInv, StopInv
  <1>2. CASE Run
    <2>1. taken \in 1..Len(sent) /\ ran + 1 = taken /\ sent[taken] \in Calls
      BY <1>2 DEF Run, Running
    <2>2. PICK res \in {"ok", "failed"} : answer' = [answer EXCEPT ![sent[taken]] = res]
      BY <1>2 DEF Run
    <2>3. TypeOK'
      BY <1>2, <2>1, <2>2 DEF Run
    <2>4. SentInv' /\ StopInv'
      BY <1>2, <2>1 DEF Run, SentInv, StopInv, Running
    <2>5. AnswerInv'
      <3> SUFFICES ASSUME NEW c \in Sync
                   PROVE  /\ pc[c] = "wait" /\ answer'[c] # "none" => \E i \in 1..taken : sent[i] = c
                          /\ pc[c] = "done" /\ answer'[c] # "refused" =>
                               \E i \in 1..taken : sent[i] = c
                          /\ pc[c] = "done" /\ answer'[c] = "refused" =>
                               \A i \in 1..Len(sent) : sent[i] # c
                          /\ pc[c] \in {"new", "checked"} => answer'[c] = "none"
                          /\ pc[c] = "wait" => answer'[c] # "refused"
        BY <1>2 DEF Run, AnswerInv
      <3>1. 1..ran \subseteq 1..taken
        BY <2>1
      <3>2. CASE c = sent[taken]
        BY <2>1, <2>2, <3>2 DEF SentInv, Calls
      <3>3. CASE c # sent[taken]
        BY <2>2, <3>1, <3>3 DEF AnswerInv, Calls
      <3> QED BY <3>2, <3>3
    <2> QED BY <2>3, <2>4, <2>5
  <1>3. CASE SeeStop
    BY <1>3 DEF SeeStop, Running, SentInv, AnswerInv, StopInv
  <1>4. CASE EndDrain
    BY <1>4 DEF EndDrain, Running, SentInv, AnswerInv, StopInv
  <1> QED BY <1>1, <1>2, <1>3, <1>4 DEF Loop

LEMMA StopSafe == ASSUME WInv, NEW s \in Stoppers, Stop1(s) PROVE WInv'
  <1> USE DEF WInv, TypeOK, Calls
  <1>1. CASE StopMark(s)
    BY <1>1 DEF StopMark, Running, SentInv, AnswerInv, StopInv
  <1>2. CASE StopClose(s)
    BY <1>2 DEF StopClose, Running, SentInv, AnswerInv, StopInv
  <1>3. CASE StopReturn(s)
    BY <1>3 DEF StopReturn, Running, SentInv, AnswerInv, StopInv
  <1> QED BY <1>1, <1>2, <1>3 DEF Stop1

LEMMA WInvNext == WInv /\ [Next]_vars => WInv'
  <1> SUFFICES ASSUME WInv, [Next]_vars PROVE WInv'
    OBVIOUS
  <1>1. ASSUME NEW c \in Async, AsyncSend(c) PROVE WInv'
    <2>1. CASE Pending < Cap
      BY <1>1, <2>1, SendSafe DEF AsyncSend, Calls
    <2>2. CASE ~(Pending < Cap)
      BY <1>1, <2>2 DEF AsyncSend, WInv, TypeOK, Calls, SentInv, AnswerInv, StopInv, Running
    <2> QED BY <2>1, <2>2
  <1>2. ASSUME NEW c \in Sync, SyncSend(c) PROVE WInv'
    BY <1>2, SendSafe DEF SyncSend, Calls
  <1>3. CASE UNCHANGED vars
    BY <1>3 DEF vars, WInv, TypeOK, SentInv, AnswerInv, StopInv, Running
  <1> QED BY <1>1, <1>2, <1>3, CallSafe, LoopSafe, StopSafe DEF Next, Async1, Sync1, Exit

\* The writer keeps its types, executes one write at a time, and only calls of
\* DoSync wait for room in the channel.
THEOREM TypeCorrect == Spec => []TypeOK
  <1>1. WInv => TypeOK
    BY DEF WInv
  <1> QED BY <1>1, WInvInit, WInvNext, PTL DEF Spec

-----------------------------------------------------------------------------
(* Refinement. *)

\* Every step is a step of WriteOrder or leaves it as it was.
LEMMA StepImplements == WInv /\ WInv' /\ [Next]_vars => [WO!Next]_WO!vars
  <1> SUFFICES ASSUME WInv, WInv', [Next]_vars PROVE [WO!Next]_WO!vars
    OBVIOUS
  <1> USE DEF WInv, TypeOK, Calls
  <1>1. ASSUME NEW c \in Async, AsyncCheck(c) PROVE UNCHANGED WO!vars
    BY <1>1 DEF AsyncCheck, Told, WO!vars
  <1>2. ASSUME NEW c \in Async, AsyncSend(c) PROVE [WO!Next]_WO!vars
    <2>1. Told' = Told
      BY <1>2 DEF AsyncSend, Told
    <2>2. \A i \in 1..Len(sent) : sent[i] # c
      BY <1>2 DEF AsyncSend, SentInv
    <2>3. CASE sent' = Append(sent, c)
      BY <1>2, <2>1, <2>2, <2>3 DEF AsyncSend, WO!Next, WO!Accept, WO!Accepted
    <2>4. CASE sent' = sent
      BY <1>2, <2>1, <2>4 DEF AsyncSend, WO!vars
    <2> QED BY <1>2, <2>3, <2>4 DEF AsyncSend
  <1>3. ASSUME NEW c \in Sync, SyncCheck(c) PROVE UNCHANGED WO!vars
    BY <1>3 DEF SyncCheck, Told, WO!vars
  <1>4. ASSUME NEW c \in Sync, SyncSend(c) PROVE WO!Next
    <2>1. Told' = Told
      BY <1>4 DEF SyncSend, Told
    <2>2. \A i \in 1..Len(sent) : sent[i] # c
      BY <1>4 DEF SyncSend, SentInv
    <2>3. loop # "ended"
      BY <1>4 DEF SyncSend, StopInv
    <2> QED BY <1>4, <2>1, <2>2, <2>3 DEF SyncSend, WO!Next, WO!Accept, WO!Accepted
  <1>5. ASSUME NEW c \in Sync, SyncReturn(c) PROVE WO!Next
    <2>1. \E i \in 1..ran : sent[i] = c
      BY <1>5 DEF SyncReturn, AnswerInv
    <2>2. Told' = Told \union {c}
      BY <1>5 DEF SyncReturn, AnswerInv, Told
    <2> QED BY <1>5, <2>1, <2>2 DEF SyncReturn, WO!Next, WO!Tell, WO!Executed
  <1>6. CASE Take \/ SeeStop
    BY <1>6 DEF Take, SeeStop, Told, WO!vars
  <1>7. CASE Run
    <2>1. taken \in 1..Len(sent) /\ ran + 1 = taken /\ sent[taken] \in Calls
      BY <1>7 DEF Run, Running
    <2>2. ASSUME sent[taken] \in Sync PROVE pc[sent[taken]] # "done"
      <3>1. \A i \in 1..ran : i \in 1..Len(sent) /\ i # taken
        BY <2>1
      <3>2. \A i \in 1..ran : sent[i] # sent[taken]
        BY <2>1, <3>1 DEF SentInv
      <3> QED BY <2>1, <2>2, <3>2 DEF AnswerInv
    <2>3. Told' = Told
      BY <1>7, <2>1, <2>2 DEF Run, Told
    <2>4. loop # "ended"
      BY <1>7 DEF Run, StopInv
    <2> QED BY <1>7, <2>1, <2>3, <2>4 DEF Run, WO!Next, WO!Execute
  <1>8. CASE EndDrain
    <2>1. ran = Len(sent)
      BY <1>8 DEF EndDrain, Running, Pending
    <2>2. WO!Accepted = WO!Executed
      BY <2>1 DEF WO!Accepted, WO!Executed
    <2> QED BY <1>8, <2>2 DEF EndDrain, Told, WO!Next, WO!Shut
  <1>9. ASSUME NEW s \in Stoppers, Stop1(s) PROVE UNCHANGED WO!vars
    BY <1>9 DEF Stop1, StopMark, StopClose, StopReturn, Told, WO!vars
  <1>10. CASE UNCHANGED vars
    BY <1>10 DEF vars, Told, WO!vars
  <1> HIDE DEF WInv, TypeOK, Calls
  <1> QED BY <1>1, <1>2, <1>3, <1>4, <1>5, <1>6, <1>7, <1>8, <1>9, <1>10
         DEF Next, Async1, Sync1, Loop, Exit

\* The writer implements WriteOrder for any calls and any buffer: writes are
\* executed once and in the order in which they were accepted, no call of DoSync
\* is told of a write that has not been executed, and Stop leaves none behind.
THEOREM Implementation == Spec => Implements
  <1>1. Init => WO!Init
    BY DEF Init, WO!Init, Told, Calls
  <1> QED BY <1>1, WInvInit, WInvNext, StepImplements, PTL DEF Spec, Implements, WO!Spec

-----------------------------------------------------------------------------
(* The writer in the life of a process *)

LEMMA WriterStep == [LNext]_lvars => [Next]_vars
  <1> SUFFICES ASSUME [LNext]_lvars PROVE [Next]_vars
    OBVIOUS
  <1>1. CASE UNCHANGED lvars
    BY <1>1 DEF lvars
  <1>2. CASE \E c \in Async : Serve(AsyncCheck(c)) \/ Serve(AsyncSend(c))
    BY <1>2 DEF Serve, Next, Async1
  <1>3. CASE \E c \in Sync : Serve(SyncCheck(c)) \/ Serve(SyncSend(c)) \/ Serve(SyncReturn(c))
    BY <1>3 DEF Serve, Next, Sync1
  <1>4. CASE Serve(Take) \/ Serve(Run) \/ Serve(SeeStop) \/ Serve(EndDrain)
    BY <1>4 DEF Serve, Next, Loop
  <1>5. CASE \E s \in Stoppers : Serve(StopMark(s)) \/ Serve(StopClose(s)) \/ Serve(StopReturn(s))
    BY <1>5 DEF Serve, Next, Stop1
  <1>6. CASE Serve(Exit)
    BY <1>6 DEF Serve, Next
  <1>7. CASE \E p \in Procs :
               \/ Before(Open(p)) \/ Before(Look(p)) \/ Before(Exec(p)) \/ Before(Begin(p))
               \/ Before(Commit(p)) \/ Before(RebuildStep(p)) \/ Before(Up(p))
               \/ Before(Fault(p)) \/ Before(Tolerate(p))
    BY <1>7 DEF Before
  <1> QED BY <1>1, <1>2, <1>3, <1>4, <1>5, <1>6, <1>7 DEF LNext

\* cmd/any-llm: starting the process neither hides a step of its writer nor adds one, so what is
\* proved of the writer holds in the life of a process; in particular the order of writes.
THEOREM WriterOfProcess == LSpec => Spec /\ Implements
  <1>1. LInit => Init
    BY DEF LInit
  <1>2. LSpec => Spec
    BY <1>1, WriterStep, PTL DEF LSpec, Spec
  <1> QED BY <1>2, Implementation
=============================================================================
