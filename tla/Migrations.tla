----------------------------- MODULE Migrations -----------------------------
(***************************************************************************)
(* Opening the database (internal/db: db.go, migrations.go, schema.go).    *)
(* Every process that starts brings the schema up to date, whatever        *)
(* release has left it and wherever an earlier start has stopped, by a     *)
(* list of statements, each of them a transaction of its own but for the   *)
(* tables SQLite rebuilds.  Where there is no IF EXISTS a query looks      *)
(* first, and another process may be faster: a statement that fails ends   *)
(* the start, and whatever runs the process tries again.                   *)
(***************************************************************************)
EXTENDS Naturals, SequencesExt

CONSTANTS
  Schema,     \* schemaTables: the name, the columns, those of them added late, indexes, only
  Legacy,     \* the constraints of old tables that go: <<table, constraint>>
  NameTable, NameIndex, NameColumn, \* the index of upstreams.name that is no more, and the
              \* column MySQL generates for it
  Active,     \* is_active
  Origins,    \* bound: the databases that releases have left, by dialect
  Procs,      \* processes that may open the database
  MaxFaults   \* bound: statements that fail by themselves and crashes together

ASSUME MigrationsAssumption == MaxFaults \in Nat

VARIABLES
  dialect,
  db,      \* per table: its columns, old constraints, indexes and rows
  stage,      \* per process: "down", before a statement ("look"), after looking ("exec"), "up"
  at,      \* per process: the statement its start has come to
  tx,      \* per process: the database as its transaction sees it, or NoTx
  origin,  \* history: the database at first
  faults
migrated == <<dialect, db, stage, at, tx, origin, faults>>

NoTx == <<>>

------------------------------------------------------------------------------
(* The statements of a start. *)

\* How: "if" it says IF (NOT) EXISTS, "looked" if a query comes first, "tolerated" if it may
\* fail, and the statements of a rebuild and of its transaction.
Stmt(do, t, it, how) == [do |-> do, tab |-> t, it |-> it, how |-> how]

tablesFor(d) == {t \in Range(Schema) : t.only \in {"all", d}}
Names(d) == {t.name : t \in tablesFor(d)}
Declared(n) == CHOOSE t \in Range(Schema) : t.name = n
ColumnNames(n) == Range(Declared(n).cols)

Bak(n) == n \o "_bak"

\* The schema names a table once, and has no copy of one and nothing that a start takes away.
ASSUME SchemaAssumption ==
  /\ Schema \in Seq(Range(Schema)) /\ Legacy \in Seq(Range(Legacy))
  /\ \A t \in Range(Schema) :
       /\ t.cols \in Seq(Range(t.cols)) /\ t.idx \in Seq(Range(t.idx)) /\ NameColumn \notin Range(t.cols)
       /\ t.late \subseteq Range(t.cols)
       /\ \A x \in Range(t.idx) :
            x.kind \in {"unique", "plain", "tolerant"} /\ x.on \subseteq Range(t.cols) /\ x.name # NameIndex
       /\ \A u \in Range(Schema) : Bak(t.name) # u.name /\ (t.name = u.name => t = u)
  /\ \A d \in DOMAIN Origins : NameTable \in Names(d)

\* Rows have their values in the columns of their table.
Tabular(t) ==
  /\ t = [cols |-> t.cols, cons |-> t.cons, idx |-> t.idx, rows |-> t.rows]
  /\ \A r \in t.rows : r = [id |-> r.id, label |-> r.label, vals |-> r.vals] /\ r.vals \subseteq t.cols
  /\ \A r, s \in t.rows : r.id = s.id => r = s

\* What releases have left has, of what the schema has not, only what a start takes away; on MySQL
\* a table has had no constraint and all its unique indexes from the beginning.
ASSUME OriginsAssumption ==
  /\ DOMAIN Origins \subseteq {"sqlite", "postgres", "mysql"}
  /\ \A d \in DOMAIN Origins : \A o \in Origins[d] :
       /\ o = [n \in DOMAIN o |-> o[n]]
       /\ \A n \in DOMAIN o :
            /\ Tabular(o[n])
            /\ \A m \in Names(d) : n # Bak(m)
            /\ \A c \in o[n].cons : \E l \in Range(Legacy) : l[1] = n /\ l[2] = c
            /\ o[n].cons # {} => d # "mysql" /\ (d = "sqlite" => n \in Names(d))
            /\ NameIndex \in o[n].idx => n = NameTable
            /\ n \in Names(d) =>
                 /\ o[n].cols \ ColumnNames(n) \subseteq IF d = "mysql" /\ n = NameTable THEN {NameColumn} ELSE {}
                 /\ d = "mysql" => {x.name : x \in {y \in Range(Declared(n).idx) : y.kind # "plain"}} \subseteq o[n].idx

\* For each table of the dialect, in the order of the schema, what S says of it.
PerTable(d, S(_)) ==
  FlattenSeq([i \in DOMAIN Schema |-> IF Schema[i] \in tablesFor(d) THEN S(Schema[i]) ELSE <<>>])

createTableStmts(d) == PerTable(d, LAMBDA t : <<Stmt("table", t.name, Active, "if")>>)

migrateExtraCols(d) ==
  PerTable(d, LAMBDA t :
    FlattenSeq([j \in DOMAIN t.cols |->
      IF t.cols[j] \in t.late THEN <<Stmt("column", t.name, t.cols[j], "looked")>> ELSE <<>>]))

IndexStmts(d, kind, how) ==
  PerTable(d, LAMBDA t :
    FlattenSeq([j \in DOMAIN t.idx |->
      IF t.idx[j].kind = kind THEN <<Stmt("index", t.name, t.idx[j], how)>> ELSE <<>>]))

migratePartialUniqueIndexes(d) == IF d = "mysql" THEN <<>> ELSE IndexStmts(d, "unique", "if")

\* Mutant of migratePlainIndexes: on MySQL they come with CREATE TABLE.
PlainIndexesInline(d) == IF d = "mysql" THEN <<>> ELSE IndexStmts(d, "plain", "if")

migratePlainIndexes(d) == IndexStmts(d, "plain", IF d = "mysql" THEN "looked" ELSE "if")

\* SQLite cannot drop a constraint.
Rebuild(d) ==
  PerTable(d, LAMBDA t : IF \E l \in Range(Legacy) : l[1] = t.name
                         THEN [i \in 1 .. 4 |-> Stmt(<<"rename", "create", "copy", "drop">>[i], t.name, Active, "rebuild")]
                         ELSE <<>>)

\* Mutant of migrateSoftDeleteSQLite: each of its statements is a transaction of its own.
SoftDeleteWithoutTx(d) == Rebuild(d) \o migratePartialUniqueIndexes(d) \o migratePlainIndexes(d)

migrateSoftDeleteSQLite(d) ==
  <<Stmt("begin", NameTable, Active, "tx")>> \o Rebuild(d) \o <<Stmt("commit", NameTable, Active, "tx")>>
  \o migratePartialUniqueIndexes(d) \o migratePlainIndexes(d)

migrateSoftDeletePG(d) ==
  PerTable(d, LAMBDA t : IF Active \in t.late THEN <<Stmt("column", t.name, Active, "if")>> ELSE <<>>)
  \o [i \in DOMAIN Legacy |-> Stmt("unconstrain", Legacy[i][1], Legacy[i][2], "if")]

migrateSoftDelete(d) == CASE d = "postgres" -> migrateSoftDeletePG(d)
                          [] d = "sqlite" -> migrateSoftDeleteSQLite(d)
                          [] d = "mysql" -> <<>>

\* MySQL: the key, and then the column generated for it.
migrateDropLegacyUpstreamNameIndex(d) ==
  IF d = "mysql" THEN <<Stmt("unindex", NameTable, NameIndex, "looked"),
                        Stmt("uncolumn", NameTable, NameColumn, "looked")>>
  ELSE <<Stmt("unindex", NameTable, NameIndex, "if")>>

\* It cannot be made while old keys share a label: the start goes on without it.
ensureExtKeyLabelIndex(d) == IF d = "mysql" THEN <<>> ELSE IndexStmts(d, "tolerant", "tolerated")

migrateAll(d) ==
  createTableStmts(d) \o migrateExtraCols(d) \o migrateSoftDelete(d) \o migratePartialUniqueIndexes(d)
  \o migratePlainIndexes(d) \o migrateDropLegacyUpstreamNameIndex(d) \o ensureExtKeyLabelIndex(d)

Plans == [d \in DOMAIN Origins |-> migrateAll(d)]

------------------------------------------------------------------------------
(* What a statement does to a database. *)

Put(d, n, table) == [k \in DOMAIN d \union {n} |-> IF k = n THEN table ELSE d[k]]
Drop(d, n) == [k \in DOMAIN d \ {n} |-> d[k]]

\* MySQL has the indexes within CREATE TABLE.
CreateTable(n) ==
  [cols |-> ColumnNames(n), cons |-> {}, rows |-> {},
   idx |-> IF dialect = "mysql" THEN {x.name : x \in Range(Declared(n).idx)} ELSE {}]

\* Two active rows share a label.
Doubled(rows) == \E r, s \in rows : r # s /\ r.label = s.label

\* There is nothing left to do for it.
Done(s, d) ==
  CASE s.do = "table" -> s.tab \in DOMAIN d
    [] s.do = "column" -> s.it \in d[s.tab].cols
    [] s.do = "index" -> s.it.name \in d[s.tab].idx
    [] s.do = "unindex" -> s.it \notin d[s.tab].idx
    [] s.do = "uncolumn" -> s.it \notin d[s.tab].cols
    [] s.do = "unconstrain" -> s.tab \notin DOMAIN d \/ s.it \notin d[s.tab].cons

\* The database would do it.
Possible(s, d) ==
  s.do = "index" =>
    s.it.on \subseteq d[s.tab].cols /\ ~(s.it.kind = "tolerant" /\ Doubled(d[s.tab].rows))

\* The rows get the default of a new column.
Effect(s, d) ==
  LET t == IF s.tab \in DOMAIN d THEN d[s.tab] ELSE CreateTable(s.tab) IN
  Put(d, s.tab,
    CASE s.do = "table" -> t
      [] s.do = "column" -> [t EXCEPT !.cols = @ \union {s.it},
                                      !.rows = {[r EXCEPT !.vals = @ \union {s.it}] : r \in @}]
      [] s.do = "index" -> [t EXCEPT !.idx = @ \union {s.it.name}]
      [] s.do = "unindex" -> [t EXCEPT !.idx = @ \ {s.it}]
      [] s.do = "uncolumn" -> [t EXCEPT !.cols = @ \ {s.it},
                                        !.rows = {[r EXCEPT !.vals = @ \ {s.it}] : r \in @}]
      [] s.do = "unconstrain" -> [t EXCEPT !.cons = @ \ {s.it}])

\* rebuildIf
Outdated(n, d) == \E l \in Range(Legacy) : l[1] = n /\ l[2] \in d[n].cons

\* The rows go over by the names of the columns.
RebuildEffect(s, d) ==
  LET n == s.tab IN
  CASE s.do = "rename" -> Put(Drop(d, n), Bak(n), d[n])
    [] s.do = "create" -> Put(d, n, CreateTable(n))
    [] s.do = "copy" -> [d EXCEPT ![n].rows = {[r EXCEPT !.vals = @ \intersect ColumnNames(n)] : r \in d[Bak(n)].rows}]
    [] s.do = "drop" -> Drop(d, Bak(n))

------------------------------------------------------------------------------
(* A start. *)

Statement(p) == Plans[dialect][at[p]]
Starting(p) == stage[p] \in {"look", "exec"}
AtStatement(p) == Starting(p) /\ at[p] <= Len(Plans[dialect])

Sees(p) == IF tx[p] = NoTx THEN db ELSE tx[p]
Becomes(p, d) == IF tx[p] = NoTx THEN db' = d /\ UNCHANGED tx
                 ELSE tx' = [tx EXCEPT ![p] = d] /\ UNCHANGED db
Advance(p, n) == at' = [at EXCEPT ![p] = @ + n] /\ stage' = [stage EXCEPT ![p] = "look"]

\* The error goes up, the database is closed and the process ends.
Abort(p) == /\ stage' = [stage EXCEPT ![p] = "down"]
            /\ at' = [at EXCEPT ![p] = 1] /\ tx' = [tx EXCEPT ![p] = NoTx]
            /\ UNCHANGED db

\* A database file of SQLite has one process.
Open(p) == /\ stage[p] = "down"
           /\ dialect = "sqlite" => \A q \in Procs : stage[q] = "down"
           /\ stage' = [stage EXCEPT ![p] = "look"]
           /\ UNCHANGED <<dialect, db, at, tx, origin, faults>>

\* Mutant of Look: it does not look.
LookAway(p) ==
  /\ AtStatement(p) /\ stage[p] = "look" /\ Statement(p).how = "looked"
  /\ stage' = [stage EXCEPT ![p] = "exec"] /\ UNCHANGED <<dialect, db, at, tx, origin, faults>>

Look(p) ==
  /\ AtStatement(p) /\ stage[p] = "look" /\ Statement(p).how = "looked"
  /\ IF Done(Statement(p), db) THEN Advance(p, 1)
     ELSE stage' = [stage EXCEPT ![p] = "exec"] /\ UNCHANGED at
  /\ UNCHANGED <<dialect, db, tx, origin, faults>>

Exec(p) ==
  LET s == Statement(p)
      finds == Done(s, db)
  IN
  /\ AtStatement(p)
  /\ s.how \in {"if", "tolerated"} \/ (s.how = "looked" /\ stage[p] = "exec")
  /\ IF finds /\ s.how # "looked" THEN Advance(p, 1) /\ UNCHANGED <<db, tx>>
     ELSE IF ~finds /\ Possible(s, db) THEN Advance(p, 1) /\ Becomes(p, Effect(s, db))
     ELSE IF s.how = "tolerated" THEN Advance(p, 1) /\ UNCHANGED <<db, tx>>
     ELSE Abort(p)
  /\ UNCHANGED <<dialect, origin, faults>>

Begin(p) == /\ AtStatement(p) /\ Statement(p).do = "begin"
            /\ tx' = [tx EXCEPT ![p] = db] /\ Advance(p, 1)
            /\ UNCHANGED <<dialect, db, origin, faults>>

Commit(p) == /\ AtStatement(p) /\ Statement(p).do = "commit"
             /\ db' = tx[p] /\ tx' = [tx EXCEPT ![p] = NoTx] /\ Advance(p, 1)
             /\ UNCHANGED <<dialect, origin, faults>>

\* A table that is up to date stays; one that lacks a column was not made by this program.
RebuildStep(p) ==
  LET s == Statement(p)
      d == Sees(p)
  IN
  /\ AtStatement(p) /\ s.how = "rebuild"
  /\ IF s.do = "rename" /\ ~Outdated(s.tab, d) THEN Advance(p, 4) /\ UNCHANGED <<db, tx>>
     ELSE IF s.do = "rename" /\ ~(ColumnNames(s.tab) \subseteq d[s.tab].cols) THEN Abort(p)
     ELSE Advance(p, 1) /\ Becomes(p, RebuildEffect(s, d))
  /\ UNCHANGED <<dialect, origin, faults>>

Up(p) == /\ Starting(p) /\ at[p] > Len(Plans[dialect])
         /\ stage' = [stage EXCEPT ![p] = "up"]
         /\ UNCHANGED <<dialect, db, at, tx, origin, faults>>

\* A statement fails by itself, or the process dies.
Fault(p) == /\ stage[p] # "down" /\ faults < MaxFaults /\ faults' = faults + 1
            /\ Abort(p) /\ UNCHANGED <<dialect, origin>>

\* The statement that may fail does.
Tolerate(p) == /\ AtStatement(p) /\ Statement(p).how = "tolerated"
               /\ faults < MaxFaults /\ faults' = faults + 1
               /\ Advance(p, 1) /\ UNCHANGED <<dialect, db, tx, origin>>

------------------------------------------------------------------------------
AsReleased ==
  /\ dialect \in DOMAIN Origins /\ db \in Origins[dialect] /\ origin = db
  /\ stage = [p \in Procs |-> "down"] /\ at = [p \in Procs |-> 1]
  /\ tx = [p \in Procs |-> NoTx] /\ faults = 0

StartStep(p) == Look(p) \/ Exec(p) \/ Begin(p) \/ Commit(p) \/ RebuildStep(p) \/ Up(p)

------------------------------------------------------------------------------
(* Properties. *)

\* A table lacks a column that all releases have had.
Foreign == \E n \in DOMAIN origin \intersect Names(dialect) :
             ~(ColumnNames(n) \ Declared(n).late \subseteq origin[n].cols)

\* What the rest of the program takes for granted.
Current ==
  /\ Names(dialect) \subseteq DOMAIN db
  /\ \A n \in DOMAIN db : db[n].cons = {}
  /\ \A n \in Names(dialect) :
       /\ db[n].cols = ColumnNames(n) /\ NameIndex \notin db[n].idx
       /\ \A x \in Range(Declared(n).idx) :
            \/ x.name \in db[n].idx
            \/ x.kind = "tolerant" /\ (Doubled(db[n].rows) \/ faults > 0)

\* A process that has started has the schema of its release before it, whatever release left
\* the database, wherever earlier starts have stopped and whoever starts at the same time.
UpIsCurrent == (\E p \in Procs : stage[p] = "up") /\ ~Foreign => Current

\* No row and no value of an old database is lost, at any moment of any start: what can be
\* seen is the table before or after its rebuild.
NothingLost ==
  \A n \in DOMAIN origin : \A r \in origin[n].rows :
    n \in DOMAIN db /\ \E s \in db[n].rows : s.id = r.id /\ s.label = r.label /\ r.vals \ {NameColumn} \subseteq s.vals

\* Whatever stopped earlier starts, and although processes get into each other's way, a start
\* succeeds in the end: no start leaves a database that none can open.
StartsSucceed ==
  \A p \in Procs : Starting(p) ~> stage[p] = "up" \/ Foreign \/ (dialect = "sqlite" /\ \E q \in Procs : stage[q] = "up")
=============================================================================
