-------------------------------- MODULE Admin --------------------------------
(***************************************************************************)
(* The administrative API over one database: the handlers of several       *)
(* administrators, who read the tables at any time and write them through  *)
(* the writer, one closure at a time.  What a handler does in one closure  *)
(* is one step, except for an import, whose parts commit one by one and    *)
(* may fail between; what a handler has read before its closure runs is    *)
(* kept in its request and may be old by then.                             *)
(***************************************************************************)
EXTENDS AdminConfig, Integers, Sequences, FiniteSets

CONSTANTS
  Admins,     \* requests that are handled at the same time
  UpNames, Formats, Patches,      \* upstreams: names, formats, bodies of a PATCH
  ModelNames, Lens, VendorLists,  \* models: names, configured lengths, what a vendor lists
  AliasNames, Bindings,           \* aliases: names, sequences of bindings in a request
  Labels,                         \* labels of keys
  Files,      \* configuration files an administrator has, beside those exported
  Scenarios,  \* bound: the start, the handlers used, and how often they write, [db, ops, writes]
  MaxFaults   \* bound: imports that fail midway and fetches that fail

ASSUME AdminAssumption ==
  /\ MaxFaults \in Nat /\ Lens \subseteq Nat
  /\ \A names \in VendorLists : IsList(names)
  /\ \A f \in Files : ValidFile(f)

\* Tables of rows with the columns of AdminStore.
IsTable(rows, columns) ==
  /\ IsList(rows)
  /\ \A i \in DOMAIN rows : DOMAIN rows[i] = columns

IsModel(row) ==
  row.active \in BOOLEAN /\ row = [c \in {"up", "name", "manual", "len", "active"} |-> row[c]]

IsDatabase(d) ==
  /\ DOMAIN d = {"ups", "models", "aliases", "keys"}
  /\ IsTable(d.ups, {"name", "format", "extra", "enabled", "active"})
  /\ IsTable(d.keys, {"label", "enabled", "active"})
  /\ IsList(d.models) /\ \A k \in DOMAIN d.models : IsModel(d.models[k])

OneEnabled(d) ==
  \A i, j \in Active(d.ups) :
    d.ups[i].enabled /\ d.ups[j].enabled /\ d.ups[i].name = d.ups[j].name => i = j

OneLabelled(d) ==
  \A i, j \in Active(d.keys) :
    d.keys[i].label = d.keys[j].label => i = j \/ d.keys[i].label = NoLabel

\* The models in the list of an upstream have different names, as the unique index wants it.
OneListed(ms) ==
  \A j, k \in Active(ms) : ms[j].up = ms[k].up /\ ms[j].name = ms[k].name => j = k

ASSUME StartAssumption ==
  \A s \in Scenarios :
    IsDatabase(s.db) /\ OneEnabled(s.db) /\ OneLabelled(s.db) /\ OneListed(s.db.models)

VARIABLES
  db,      \* see AdminStore
  ops,     \* the handlers used in this behaviour
  req,     \* per administrator: the request, with what its handler has read
  import,  \* the import in the writer
  saved,   \* the file of the last export
  goal,    \* history: what the last import is to come to
  left,    \* writes still to come, of a closure or an import
  faults
vars == <<db, ops, req, import, saved, goal, left, faults>>

Idle     == [op |-> "idle"]
NoImport == [by |-> Absent]
NoGoal   == [file |-> Absent, whole |-> FALSE]

Free == import = NoImport
At(a, op) == req[a].op = op

\* What is in force: the rows of the upstreams, their model lists, the aliases by name.
View(d) == [ups |-> d.ups, aliases |-> ListAliases(d),
            models |-> {[d.models[k] EXCEPT !.active = TRUE] : k \in Active(d.models)}]

\* The answer to a closure: done, or refused and nothing written.
Answer(r) == IF r.err = "none" THEN Idle ELSE [op |-> "refused", why |-> r.err]

\* A closure of the writer that writes r.db.
Write(r) ==
  /\ Free /\ left > 0
  /\ db' = r.db /\ left' = left - 1 /\ goal' = NoGoal
  /\ UNCHANGED <<ops, import, saved, faults>>

\* Handlers whose only step of account is their closure; one that is refused changes nothing.
Run(family, r) == family \in ops /\ r.err = "none" /\ Write(r) /\ UNCHANGED req

\* Handlers that read first, and at the end write or are refused.
Begin(a, family, r) ==
  /\ family \in ops /\ req[a].op \in {"idle", "refused"}
  /\ req' = [req EXCEPT ![a] = r]
  /\ UNCHANGED <<db, ops, import, saved, goal, left, faults>>

End(a, r) == Write(r) /\ req' = [req EXCEPT ![a] = Answer(r)]

------------------------------------------------------------------------------
(* Upstreams. *)

\* createUpstream; with fetch_models the models are fetched after the closure.
CreateUp(a, name, format, enabled, fetch) ==
  LET r == CreateUpstream(db, [name |-> name, format |-> format, extra |-> {},
                               enabled |-> enabled, active |-> TRUE])
  IN /\ "upstreams" \in ops /\ (fetch => "models" \in ops) /\ r.err = "none" /\ Write(r)
     /\ req[a].op \in {"idle", "refused"}
     /\ req' = [req EXCEPT ![a] = IF fetch THEN [op |-> "fetch", up |-> Len(r.db.ups)] ELSE Idle]

\* Fields a PATCH does not give keep the value the row has when the closure runs.
MergePatch(row, p) ==
  [row EXCEPT !.name = Given(p.name, @), !.format = Given(p.format, @),
              !.extra = Given(p.extra, @), !.enabled = Given(p.enabled, @)]

UpdateUp(i, p) ==
  /\ i \in Active(db.ups)
  /\ Run("upstreams", UpdateUpstream(db, i, MergePatch(db.ups[i], p)))

DeleteUp(i) == i \in Active(db.ups) /\ Run("upstreams", Done(DeleteUpstream(db, i)))

------------------------------------------------------------------------------
(* Models. *)

\* fetchModels: the row is read, the vendor asked, the list written.
BeginFetch(a, i) == i \in Active(db.ups) /\ Begin(a, "models", [op |-> "fetch", up |-> i])

EndFetch(a, names) == At(a, "fetch") /\ End(a, ReplaceModels(db, req[a].up, names))

FetchFails(a) ==
  /\ At(a, "fetch") /\ faults < MaxFaults
  /\ faults' = faults + 1 /\ req' = [req EXCEPT ![a] = Idle]
  /\ UNCHANGED <<db, ops, import, saved, goal, left>>

\* No handler of the models asks whether the upstream is still there.
AddMod(i, n, len) == Run("models", AddModel(db, i, [name |-> n, manual |-> TRUE, len |-> len]))
UpdateMod(i, k, len) == Run("models", UpdateModel(db, i, k, len))
DeleteMod(i, k) == Run("models", DeleteModel(db, i, k))

------------------------------------------------------------------------------
(* Aliases. *)

\* validateAliasReq, outside the writer.
BindingsValid(bind) == bind # <<>> /\ \A n \in DOMAIN bind : bind[n].up \in Active(db.ups)

BeginCreateAlias(a, name, bind) ==
  BindingsValid(bind) /\ Begin(a, "aliases", [op |-> "alias", id |-> 0, name |-> name, bind |-> bind])

\* updateAlias reads the alias, and writes back what the request does not give.
BeginUpdateAlias(a, k, name, bind) ==
  /\ k \in Active(db.aliases) /\ (bind # Absent => BindingsValid(bind))
  /\ Begin(a, "aliases", [op |-> "alias", id |-> k, name |-> Given(name, db.aliases[k].name),
                          bind |-> Given(bind, db.aliases[k].bind)])

EndAlias(a) ==
  /\ At(a, "alias")
  /\ End(a, IF req[a].id = 0 THEN CreateAlias(db, req[a].name, req[a].bind)
            ELSE UpdateAlias(db, req[a].id, req[a].name, req[a].bind))

DeleteAl(k) == k \in Active(db.aliases) /\ Run("aliases", Done(DeleteAlias(db, k)))

------------------------------------------------------------------------------
(* Keys. *)

CreateKey(label) == Run("keys", CreateExtKey(db, label))

\* updateKey reads the key outside the writer, and writes back what the PATCH does not give.
BeginUpdateKey(a, k, label, enabled) ==
  /\ k \in Active(db.keys)
  /\ Begin(a, "keys", [op |-> "key", id |-> k, label |-> Given(label, db.keys[k].label),
                       enabled |-> Given(enabled, db.keys[k].enabled)])

EndUpdateKey(a) ==
  /\ At(a, "key")
  /\ End(a, UpdateExtKey(db, req[a].id, req[a].label, req[a].enabled))

DeleteKey(k) == k \in Active(db.keys) /\ Run("keys", Done(DeleteExtKey(db, k)))

------------------------------------------------------------------------------
(* The configuration file. *)

\* handleConfigExport: three kinds of queries, and writes may come between them.
ExportUps(a) == Begin(a, "export", [op |-> "ups", ups |-> ListUpstreams(db)])

ExportAliases(a) ==
  /\ At(a, "ups")
  /\ req' = [req EXCEPT ![a] = [op |-> "aliases", ups |-> @.ups, aliases |-> ListAliases(db)]]
  /\ UNCHANGED <<db, ops, import, saved, goal, left, faults>>

ExportModels(a) ==
  /\ At(a, "aliases")
  /\ saved' = [ups |-> [n \in DOMAIN req[a].ups |->
                          Entry(req[a].ups[n].row, ListModels(db, req[a].ups[n].id))],
               aliases |-> req[a].aliases]
  /\ req' = [req EXCEPT ![a] = Idle]
  /\ UNCHANGED <<db, ops, import, goal, left, faults>>

\* An entry for one row alone that disables it leaves the name to an older twin: the
\* entry is for that one the next time.
Turns(d, f) ==
  \E i \in DOMAIN f.ups :
    /\ Cardinality(Group(f, f.ups[i].name)) = 1 /\ f.ups[i].enabled = FALSE
    /\ Len(ListUpstreamsByName(d, f.ups[i].name)) > 1

\* The import is in the writer, all its entries have a row; nothing is written yet.
BeginImport(a, f) ==
  /\ "import" \in ops /\ req[a].op \in {"idle", "refused"}
  /\ Free /\ left > 0
  /\ ValidFile(f) /\ ~RetainedConflict(db, f) /\ Steps(f) # <<>>
  /\ import' = [by |-> a, file |-> f, targets |-> Targets(db, f), id |-> 0, at |-> 1]
  /\ goal' = IF goal.file = f THEN [goal EXCEPT !.whole = FALSE]
             ELSE [file |-> f, whole |-> FALSE, turns |-> Turns(db, f),
                   view |-> View(ImportFile(db, f).db)]
  /\ left' = left - 1
  /\ req' = [req EXCEPT ![a] = [op |-> "import"]]
  /\ UNCHANGED <<db, ops, saved, faults>>

ImportStep ==
  LET f == import.file
      p == ApplyStep([db |-> db, id |-> import.id, err |-> "none"], f, import.targets,
                     Steps(f)[import.at])
      last == import.at = Len(Steps(f)) \/ p.err # "none"
  IN /\ ~Free
     /\ db' = p.db
     /\ import' = IF last THEN NoImport ELSE [import EXCEPT !.id = p.id, !.at = @ + 1]
     /\ req' = IF last THEN [req EXCEPT ![import.by] = Answer(p)] ELSE req
     /\ goal' = [goal EXCEPT !.whole = last /\ p.err = "none"]
     /\ UNCHANGED <<ops, saved, left, faults>>

\* The database fails, or the process: what has been committed stays.
ImportFails ==
  /\ ~Free /\ faults < MaxFaults
  /\ faults' = faults + 1
  /\ import' = NoImport
  /\ req' = [req EXCEPT ![import.by] = [op |-> "refused", why |-> "database"]]
  /\ UNCHANGED <<db, ops, saved, goal, left>>

------------------------------------------------------------------------------
Init ==
  /\ \E s \in Scenarios : db = s.db /\ ops = s.ops /\ left = s.writes
  /\ req = [a \in Admins |-> Idle] /\ import = NoImport
  /\ saved = Absent /\ goal = NoGoal /\ faults = 0

Next ==
  \/ \E a \in Admins, n \in UpNames, f \in Formats, e, fetch \in BOOLEAN : CreateUp(a, n, f, e, fetch)
  \/ \E i \in DOMAIN db.ups, p \in Patches : UpdateUp(i, p)
  \/ \E i \in DOMAIN db.ups : DeleteUp(i)
  \/ \E a \in Admins, i \in DOMAIN db.ups : BeginFetch(a, i)
  \/ \E a \in Admins, names \in VendorLists : EndFetch(a, names)
  \/ \E a \in Admins : FetchFails(a)
  \/ \E i \in DOMAIN db.ups, n \in ModelNames, len \in Lens : AddMod(i, n, len)
  \/ \E i \in DOMAIN db.ups, k \in DOMAIN db.models, len \in Lens : UpdateMod(i, k, len)
  \/ \E i \in DOMAIN db.ups, k \in DOMAIN db.models : DeleteMod(i, k)
  \/ \E a \in Admins, n \in AliasNames, bind \in Bindings : BeginCreateAlias(a, n, bind)
  \/ \E a \in Admins, k \in DOMAIN db.aliases, n \in AliasNames \union {Absent},
        bind \in Bindings \union {Absent} : BeginUpdateAlias(a, k, n, bind)
  \/ \E a \in Admins : EndAlias(a)
  \/ \E k \in DOMAIN db.aliases : DeleteAl(k)
  \/ \E label \in Labels : CreateKey(label)
  \/ \E a \in Admins, k \in DOMAIN db.keys, label \in Labels \union {Absent},
        e \in BOOLEAN \union {Absent} : BeginUpdateKey(a, k, label, e)
  \/ \E a \in Admins : EndUpdateKey(a)
  \/ \E k \in DOMAIN db.keys : DeleteKey(k)
  \/ \E a \in Admins : ExportUps(a)
  \/ \E a \in Admins : ExportAliases(a)
  \/ \E a \in Admins : ExportModels(a)
  \/ \E a \in Admins, f \in Files \union ({saved} \ {Absent}) : BeginImport(a, f)
  \/ ImportStep
  \/ ImportFails

Spec == Init /\ [][Next]_vars

------------------------------------------------------------------------------
\* Of the upstreams that are enabled no two have the same name, so that the gateway serves
\* a name by one row (store/upstream.go:113-124): also between the parts of an import, and
\* whatever the administrators enable and rename meanwhile.  Nothing in the database
\* guards this.
EnabledUnique == OneEnabled(db)

\* Of the keys that are not deleted no two have the same label, although a PATCH writes
\* back the label it has read before its closure runs (store/extkey.go:23-25).
LabelsUnique == OneLabelled(db)

\* What is exported at any moment is a file that can be imported, and importing it changes
\* nothing: every entry finds its own row among those of its name, every model and binding
\* is there again (adminapi/config.go:29-33).
RoundTrip ==
  LET f == ExportFile(db)
      p == ImportFile(db, f)
  IN ValidFile(f) /\ ~RetainedConflict(db, f) /\ p.err = "none" /\ View(p.db) = View(db)

\* A file imported again, after an import of it that failed midway or one that did not,
\* comes to what one import without a failure comes to (adminapi/config.go:33-34).
\* It holds but for files that disable the one row of several with a name: see Turns.
RetryConverges == goal.whole /\ ~goal.turns => View(db) = goal.view

\* Fetching the models of an upstream, with whatever list and however long ago its row was
\* read, loses nothing an administrator has configured: manual models stay as they are, a
\* model that stays in the list keeps its length (store/upstream.go:521-528).
SyncKeepsConfig ==
  [][(\E a \in Admins, names \in VendorLists : EndFetch(a, names)) =>
       \A k \in Active(db.models) :
         /\ db.models[k].manual => db'.models[k] = db.models[k]
         /\ \A j \in Listed(db'.models, db.models[k].up, db.models[k].name) :
              db'.models[j].len = db.models[k].len]_vars

\* ReplaceModelsExact and AddModel use deleted rows again, so as not to break the unique
\* index (store/upstream.go:407-409, 475-477): the models of an upstream can always be fetched.
SyncSucceeds == \A a \in Admins : At(a, "refused") => req[a].why # "conflict"
=============================================================================
