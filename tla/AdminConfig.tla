------------------------------ MODULE AdminConfig ------------------------------
(***************************************************************************)
(* The configuration file of the administrative API, as a value: what an   *)
(* export writes, which files an import accepts, the row each of its       *)
(* entries is for, and the steps in which an import writes them.           *)
(*   f.ups     entries [name, format, extra, enabled, models]              *)
(*   f.aliases entries [name, bind], bindings [up, model] by name          *)
(* Absent stands for a field the file does not give: the row keeps its own.*)
(***************************************************************************)
EXTENDS AdminStore

CONSTANT Absent

Given(value, old) == IF value = Absent THEN old ELSE value

------------------------------------------------------------------------------
(* handleConfigExport: what each of its queries returns. *)

ListUpstreams(d) == LET ids == SetToSortSeq(Active(d.ups), <)
                    IN [n \in DOMAIN ids |-> [id |-> ids[n], row |-> d.ups[ids[n]]]]

ListModels(d, u) ==
  LET ids == SetToSortSeq({k \in Active(d.models) : d.models[k].up = u}, <)
  IN [n \in DOMAIN ids |-> LET m == d.models[ids[n]]
                           IN [name |-> m.name, manual |-> m.manual, len |-> m.len]]

\* Bindings of deleted upstreams have no name to be written by.
ListAliases(d) ==
  LET ids  == SetToSortSeq(Active(d.aliases), <)
      live(b) == d.ups[b.up].active
  IN [n \in DOMAIN ids |->
       LET al == d.aliases[ids[n]]
           bs == SelectSeq(al.bind, live)
       IN [name |-> al.name,
           bind |-> [i \in DOMAIN bs |-> [up |-> d.ups[bs[i].up].name, model |-> bs[i].model]]]]

\* Every field is written, so that none is kept on import.
Entry(row, models) ==
  [name |-> row.name, format |-> row.format, extra |-> row.extra,
   enabled |-> row.enabled, models |-> models]

ExportFile(d) ==
  LET ups == ListUpstreams(d)
  IN [ups |-> [n \in DOMAIN ups |-> Entry(ups[n].row, ListModels(d, ups[n].id))],
      aliases |-> ListAliases(d)]

------------------------------------------------------------------------------
(* handleConfigImport, validateImport. *)

Group(f, name) == {i \in DOMAIN f.ups : f.ups[i].name = name}
Names(f)       == {f.ups[i].name : i \in DOMAIN f.ups}

\* Entries of one name say whether they are enabled, and at most one is.
GroupValid(f, G) ==
  \/ Cardinality(G) = 1
  \/ /\ \A i \in G : f.ups[i].enabled # Absent
     /\ Cardinality({i \in G : f.ups[i].enabled = TRUE}) <= 1

Distinct(s) == \A i, j \in DOMAIN s : s[i].name = s[j].name => i = j

\* What decodes as a file: where it has lists, they are lists.
IsFile(f) ==
  /\ IsList(f.ups) /\ IsList(f.aliases)
  /\ \A i \in DOMAIN f.ups : f.ups[i].models # Absent => IsList(f.ups[i].models)

ValidFile(f) ==
  /\ IsFile(f)
  /\ \A i \in DOMAIN f.ups :
       /\ f.ups[i].extra # Absent => ValidEndpoints(f.ups[i])
       /\ f.ups[i].models # Absent => Distinct(f.ups[i].models)
  /\ \A name \in Names(f) : GroupValid(f, Group(f, name))
  /\ Distinct(f.aliases)

------------------------------------------------------------------------------
(* resolveImportUpstreamTargets: the id of the row an entry is for, 0 for a new one. *)

\* Mutant of DisabledTarget: the rows are not used up.
DisabledTargetFirst(f, i, disabled) == IF disabled = <<>> THEN 0 ELSE Head(disabled)

\* Mutant of DisabledTarget: the enabled entry uses up a disabled row, too.
DisabledTargetSkips(f, i, disabled) ==
  LET n == Cardinality({j \in Group(f, f.ups[i].name) : j <= i})
  IN IF n \in DOMAIN disabled THEN disabled[n] ELSE 0

\* The disabled entries of a group take the disabled rows of the name in turn.
DisabledTarget(f, i, disabled) ==
  LET before == {j \in Group(f, f.ups[i].name) : j <= i /\ f.ups[j].enabled = FALSE}
      n      == Cardinality(before)
  IN IF n \in DOMAIN disabled THEN disabled[n] ELSE 0

Target(d, f, i) ==
  LET e    == f.ups[i]
      rows == ListUpstreamsByName(d, e.name)
      isOn(k) == d.ups[k].enabled
      isOff(k) == ~d.ups[k].enabled
      on   == SelectSeq(rows, isOn)
  IN CASE Cardinality(Group(f, e.name)) = 1 -> GetUpstreamByName(d, e.name)
       [] Cardinality(Group(f, e.name)) > 1 /\ e.enabled = TRUE -> IF on = <<>> THEN 0 ELSE Head(on)
       [] OTHER -> DisabledTarget(f, i, SelectSeq(rows, isOff))

Targets(d, f) == [i \in DOMAIN f.ups |-> Target(d, f, i)]

\* The pre-check: extra endpoints the file leaves alone and its format do not go together.
RetainedConflict(d, f) ==
  \E i \in DOMAIN f.ups :
    LET t == Target(d, f, i)
    IN f.ups[i].extra = Absent /\ t # 0 /\ f.ups[i].format \in d.ups[t].extra

------------------------------------------------------------------------------
(* The writes.  p.db is the database, p.id the row last written, p.err why it stopped. *)

\* applyConfigUpstream.  A new row has no extra endpoints and is enabled.
ApplyConfig(row, e) ==
  [row EXCEPT !.format = e.format, !.extra = Given(e.extra, @), !.enabled = Given(e.enabled, @)]

NewRow(e) == ApplyConfig([name |-> e.name, format |-> e.format, extra |-> {},
                          enabled |-> TRUE, active |-> TRUE], e)

\* applyImportUpstream.  Nothing else writes meanwhile: the row is as it was resolved.
ApplyUpstream(p, e, target) ==
  LET r == IF target = 0 THEN CreateUpstream(p.db, NewRow(e))
           ELSE UpdateUpstream(p.db, target, ApplyConfig(p.db.ups[target], e))
  IN [db |-> r.db, err |-> r.err, id |-> IF target = 0 THEN Len(r.db.ups) ELSE target]

ApplyModels(p, e) == [p EXCEPT !.db = ReplaceModelsExact(@, p.id, e.models)]

\* Bindings are resolved by name; an alias with none left is skipped.
ApplyAlias(p, al) ==
  LET known(b) == GetUpstreamByName(p.db, b.up) # 0
      named == SelectSeq(al.bind, known)
      bind  == [i \in DOMAIN named |-> [up |-> GetUpstreamByName(p.db, named[i].up),
                                        model |-> named[i].model]]
      rows  == GetAliasByName(p.db, al.name)
      r     == IF rows = {} THEN CreateAlias(p.db, al.name, bind)
               ELSE UpdateAlias(p.db, Max(rows), al.name, bind)
  IN IF bind = <<>> THEN p ELSE [p EXCEPT !.db = r.db, !.err = r.err]

\* Each step commits on its own: an upstream's row, its models, an alias.
Steps(f) ==
  FlattenSeq([i \in DOMAIN f.ups |->
    <<[do |-> "row", n |-> i]>> \o
    (IF f.ups[i].models = Absent THEN <<>> ELSE <<[do |-> "models", n |-> i]>>)])
  \o [j \in DOMAIN f.aliases |-> [do |-> "alias", n |-> j]]

ApplyStep(p, f, targets, step) ==
  IF p.err # "none" THEN p ELSE
  CASE step.do = "row" -> ApplyUpstream(p, f.ups[step.n], targets[step.n])
    [] step.do = "models" -> ApplyModels(p, f.ups[step.n])
    [] OTHER -> ApplyAlias(p, f.aliases[step.n])

Begun(d) == [db |-> d, id |-> 0, err |-> "none"]

\* The whole import, nothing failing.
ImportFile(d, f) ==
  FoldLeft(LAMBDA p, step : ApplyStep(p, f, Targets(d, f), step), Begun(d), Steps(f))
=============================================================================
