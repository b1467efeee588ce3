------------------------------ MODULE AdminStore ------------------------------
(***************************************************************************)
(* What the store does to the configuration tables when the administrative *)
(* API writes, as operators on a database d:                               *)
(*   d.ups     rows [name, format, extra, enabled, active] of upstreams    *)
(*   d.models  rows [up, name, manual, len, active] of upstream_models     *)
(*   d.aliases rows [name, bind, active]; bind holds the active bindings   *)
(*             [up, model] in the order of their priority                  *)
(*   d.keys    rows [label, enabled, active] of ext_keys                   *)
(* The id of a row is its place.  active is is_active: nothing is ever     *)
(* removed.  format is the primary format, extra the formats of the extra  *)
(* endpoints; len stands for what an administrator configures of a model.  *)
(* A write yields a database or the reason why it is refused.              *)
(***************************************************************************)
EXTENDS Integers, Sequences, FiniteSets, FiniteSetsExt, SequencesExt

Done(d)         == [err |-> "none", db |-> d]
Refused(d, why) == [err |-> why, db |-> d]

IsList(s) == s \in Seq({s[i] : i \in DOMAIN s})

Active(rows) == {i \in DOMAIN rows : rows[i].active}

------------------------------------------------------------------------------
(* Upstreams. *)

\* ValidateExtraEndpoints: no two endpoints of one format.
ValidEndpoints(u) == u.format \notin u.extra

\* UpstreamNameTaken: only enabled rows take their name.
UpstreamNameTaken(ups, name, self) ==
  \E i \in Active(ups) \ {self} : ups[i].enabled /\ ups[i].name = name

\* createUpstream, for CreateUpstream and CreateUpstreamDisabled.
CreateUpstream(d, u) ==
  IF ~ValidEndpoints(u) THEN Refused(d, "endpoints")
  ELSE IF u.enabled /\ UpstreamNameTaken(d.ups, u.name, 0) THEN Refused(d, "taken")
  ELSE Done([d EXCEPT !.ups = Append(@, u)])

\* The name of the row to be written must be free: it is new, or the row is enabled now.
ChecksName(cur, u) == u.enabled /\ (u.name # cur.name \/ ~cur.enabled)

\* Mutant of UpdateUpstream: the name is checked only when it is new.
UpdateRenamed(d, i, u) ==
  LET cur == d.ups[i] IN
  IF ~ValidEndpoints(u) THEN Refused(d, "endpoints")
  ELSE IF cur.active /\ u.name # cur.name /\ UpstreamNameTaken(d.ups, u.name, i) THEN Refused(d, "taken")
  ELSE Done([d EXCEPT !.ups[i] = IF cur.active THEN u ELSE cur])

\* The whole row is written; a deleted one stays as it is.
UpdateUpstream(d, i, u) ==
  LET cur == d.ups[i] IN
  IF ~ValidEndpoints(u) THEN Refused(d, "endpoints")
  ELSE IF cur.active /\ ChecksName(cur, u) /\ UpstreamNameTaken(d.ups, u.name, i) THEN Refused(d, "taken")
  ELSE Done([d EXCEPT !.ups[i] = IF cur.active THEN u ELSE cur])

\* With the models and the bindings of the upstream, in one transaction.
DeleteUpstream(d, i) ==
  [d EXCEPT
    !.ups[i].active = FALSE,
    !.models  = [k \in DOMAIN d.models |->
                  [d.models[k] EXCEPT !.active = @ /\ d.models[k].up # i]],
    !.aliases = [k \in DOMAIN d.aliases |->
                  [d.aliases[k] EXCEPT !.bind = SelectSeq(@, LAMBDA b : b.up # i)]]]

\* ListUpstreamsByName: the enabled row first, then from old to new.
ListUpstreamsByName(d, name) ==
  SetToSortSeq({i \in Active(d.ups) : d.ups[i].name = name},
    LAMBDA i, j : \/ d.ups[i].enabled /\ ~d.ups[j].enabled
                  \/ d.ups[i].enabled = d.ups[j].enabled /\ i < j)

\* GetUpstreamByName: its id, 0 if there is no such row.
GetUpstreamByName(d, name) ==
  LET rows == ListUpstreamsByName(d, name) IN IF rows = <<>> THEN 0 ELSE Head(rows)

------------------------------------------------------------------------------
(* Models: ms is the table. *)

DefaultLen == 1

\* A length that is not given, or is 0, is the default.
Configured(len) == IF len <= 0 THEN DefaultLen ELSE len

\* The rows of a name at an upstream, those in the model list and the others.
RowsOf(ms, u, n) == {k \in DOMAIN ms : ms[k].up = u /\ ms[k].name = n}
Listed(ms, u, n) == {k \in RowsOf(ms, u, n) : ms[k].active}
Dead(ms, u, n)   == {k \in RowsOf(ms, u, n) : ~ms[k].active}

\* The models of an upstream leave the model list; a fetch leaves the manual ones there.
Cleared(ms, u, manual) ==
  [k \in DOMAIN ms |-> [ms[k] EXCEPT !.active = @ /\ (ms[k].up = u => ms[k].manual /\ ~manual)]]

\* The oldest deleted row of the name is used again, or there is a new row.
Revive(ms, u, m) ==
  LET row  == [up |-> u, name |-> m.name, manual |-> m.manual,
               len |-> Configured(m.len), active |-> TRUE]
      dead == Dead(ms, u, m.name)
  IN IF dead = {} THEN Append(ms, row) ELSE [ms EXCEPT ![Min(dead)] = row]

AddModel(d, u, m) ==
  IF Listed(d.models, u, m.name) # {} THEN Refused(d, "exists")
  ELSE Done([d EXCEPT !.models = Revive(@, u, m)])

UpdateModel(d, u, k, len) ==
  IF k \notin Active(d.models) \/ d.models[k].up # u THEN Refused(d, "missing")
  ELSE Done([d EXCEPT !.models[k].len = Configured(len)])

DeleteModel(d, u, k) ==
  IF k \notin Active(d.models) \/ d.models[k].up # u THEN Refused(d, "missing")
  ELSE Done([d EXCEPT !.models[k].active = FALSE])

\* An import: the models of the upstream are those of the file and no other.
ReplaceModelsExact(d, u, models) ==
  LET table[n \in 0 .. Len(models)] ==
        IF n = 0 THEN Cleared(d.models, u, TRUE) ELSE Revive(table[n - 1], u, models[n])
  IN [d EXCEPT !.models = table[Len(models)]]

\* The snapshot a fetch takes first: what was last configured for the name, from the row
\* in the list or else from the newest one.
Snapshot(ms, u, n) ==
  LET rows == IF Listed(ms, u, n) # {} THEN Listed(ms, u, n) ELSE RowsOf(ms, u, n)
  IN IF rows = {} THEN DefaultLen ELSE ms[Max(rows)].len

KeptManual(ms, u, n) == \E k \in Listed(ms, u, n) : ms[k].manual

\* One name of the fetched list: every deleted automatic row of the name is put back in
\* the list (two would break the unique index), or there is a new row.
Sync(r, u, n, len) ==
  LET auto == {k \in Dead(r.models, u, n) : ~r.models[k].manual}
      back == [k \in DOMAIN r.models |->
                 IF k \in auto THEN [r.models[k] EXCEPT !.active = TRUE, !.len = len]
                 ELSE r.models[k]]
      row  == [up |-> u, name |-> n, manual |-> FALSE, len |-> len, active |-> TRUE]
  IN IF r.err # "none" \/ Cardinality(Listed(back, u, n)) > 1 THEN [r EXCEPT !.err = "conflict"]
     ELSE [r EXCEPT !.models = IF Listed(back, u, n) = {} THEN Append(back, row) ELSE back]

\* The fetched list in the place of the automatic models, with a length for each name.
Synced(ms, u, names, lens) ==
  LET after[n \in 0 .. Len(names)] ==
        IF n = 0 THEN [err |-> "none", models |-> Cleared(ms, u, FALSE)]
        ELSE IF KeptManual(ms, u, names[n]) THEN after[n - 1]
        ELSE Sync(after[n - 1], u, names[n], lens[names[n]])
  IN after[Len(names)]

\* Mutant of ReplaceModels: what was configured is not kept.
ReplaceModelsAfresh(d, u, names) ==
  LET r == Synced(d.models, u, names, [n \in ToSet(names) |-> DefaultLen])
  IN IF r.err = "none" THEN Done([d EXCEPT !.models = r.models]) ELSE Refused(d, r.err)

\* A fetch: the automatic models are those of the upstream's list, manual ones stay; all
\* in one transaction.
ReplaceModels(d, u, names) ==
  LET r == Synced(d.models, u, names, [n \in ToSet(names) |-> Snapshot(d.models, u, n)])
  IN IF r.err = "none" THEN Done([d EXCEPT !.models = r.models]) ELSE Refused(d, r.err)

------------------------------------------------------------------------------
(* Aliases.  The index on the names of active rows is the database's. *)

AliasNameTaken(d, name, self) ==
  \E k \in Active(d.aliases) \ {self} : d.aliases[k].name = name

GetAliasByName(d, name) == {k \in Active(d.aliases) : d.aliases[k].name = name}

CreateAlias(d, name, bind) ==
  IF AliasNameTaken(d, name, 0) THEN Refused(d, "index")
  ELSE Done([d EXCEPT !.aliases = Append(@, [name |-> name, bind |-> bind, active |-> TRUE])])

\* The bindings are written also when the alias itself has been deleted meanwhile.
UpdateAlias(d, k, name, bind) ==
  IF d.aliases[k].active /\ AliasNameTaken(d, name, k) THEN Refused(d, "index")
  ELSE Done([d EXCEPT !.aliases[k].name = IF d.aliases[k].active THEN name ELSE @,
                      !.aliases[k].bind = bind])

DeleteAlias(d, k) == [d EXCEPT !.aliases[k].active = FALSE, !.aliases[k].bind = <<>>]

------------------------------------------------------------------------------
(* Keys. *)

NoLabel == ""

\* A key without a label takes nothing.
ExtKeyLabelTaken(d, label, self) ==
  label # NoLabel /\ \E k \in Active(d.keys) \ {self} : d.keys[k].label = label

CreateExtKey(d, label) ==
  IF ExtKeyLabelTaken(d, label, 0) THEN Refused(d, "taken")
  ELSE Done([d EXCEPT !.keys = Append(@, [label |-> label, enabled |-> TRUE, active |-> TRUE])])

\* Mutant of UpdateExtKey: the label was free when the handler read it.
UpdateTrusting(d, k, label, enabled) ==
  IF ~d.keys[k].active THEN Refused(d, "missing")
  ELSE Done([d EXCEPT !.keys[k].label = label, !.keys[k].enabled = enabled])

\* The label is looked for if it differs from the row's, as it is now.
UpdateExtKey(d, k, label, enabled) ==
  IF ~d.keys[k].active THEN Refused(d, "missing")
  ELSE IF label # d.keys[k].label /\ ExtKeyLabelTaken(d, label, k) THEN Refused(d, "taken")
  ELSE Done([d EXCEPT !.keys[k].label = label, !.keys[k].enabled = enabled])

DeleteExtKey(d, k) == [d EXCEPT !.keys[k].active = FALSE]
=============================================================================
