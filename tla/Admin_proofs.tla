---------------------------- MODULE Admin_proofs ----------------------------
(***************************************************************************)
(* Whatever the administrators do, and wherever an import stops, no two    *)
(* enabled upstreams have one name, no two keys one label and no two       *)
(* models of an upstream one name; and a fetch of the models keeps what    *)
(* has been configured.                                                    *)
(***************************************************************************)
EXTENDS Admin, SequenceTheorems, Sums, TLAPS

Tables(d) ==
  /\ DOMAIN d = {"ups", "models", "aliases", "keys"}
  /\ IsTable(d.ups, {"name", "format", "extra", "enabled", "active"})
  /\ IsTable(d.keys, {"label", "enabled", "active"})

\* The upstreams and the keys are in order: the invariant, of a database.
Good(d) == Tables(d) /\ OneEnabled(d) /\ OneLabelled(d)

\* A write that leaves both tables alone.
Elsewhere(d, e) ==
  DOMAIN e = {"ups", "models", "aliases", "keys"} /\ e.ups = d.ups /\ e.keys = d.keys

\* Models and aliases are no part of it.
LEMMA ElsewhereGood ==
  ASSUME NEW d, NEW e, Good(d), Elsewhere(d, e)
  PROVE  Good(e)
BY DEF Good, Elsewhere, Tables, OneEnabled, OneLabelled

\* The writes of models touch neither upstreams nor keys.
LEMMA ModelsElsewhere ==
  ASSUME NEW d, Good(d), NEW u, NEW x, NEW k
  PROVE  /\ Elsewhere(d, AddModel(d, u, x).db)
         /\ Elsewhere(d, UpdateModel(d, u, k, x).db)
         /\ Elsewhere(d, DeleteModel(d, u, k).db)
         /\ Elsewhere(d, ReplaceModels(d, u, x).db)
         /\ Elsewhere(d, ReplaceModelsExact(d, u, x))
<1>0. DOMAIN d = {"ups", "models", "aliases", "keys"}
  BY DEF Good, Tables
<1>1. ASSUME NEW m PROVE Elsewhere(d, [d EXCEPT !.models = m])
  BY <1>0 DEF Elsewhere
<1>2. Elsewhere(d, d)
  BY <1>0 DEF Elsewhere
<1>3. Elsewhere(d, AddModel(d, u, x).db)
  BY <1>1, <1>2 DEF AddModel, Done, Refused
<1>4. Elsewhere(d, UpdateModel(d, u, k, x).db)
  BY <1>1, <1>2 DEF UpdateModel, Done, Refused
<1>5. Elsewhere(d, DeleteModel(d, u, k).db)
  BY <1>1, <1>2 DEF DeleteModel, Done, Refused
<1>6. Elsewhere(d, ReplaceModels(d, u, x).db)
  BY <1>1, <1>2 DEF ReplaceModels, Done, Refused
<1>7. Elsewhere(d, ReplaceModelsExact(d, u, x))
  BY <1>1 DEF ReplaceModelsExact
<1> QED BY <1>3, <1>4, <1>5, <1>6, <1>7

\* Nor do the writes of aliases.
LEMMA AliasesElsewhere ==
  ASSUME NEW d, Good(d), NEW k, NEW name, NEW bind
  PROVE  /\ Elsewhere(d, CreateAlias(d, name, bind).db)
         /\ Elsewhere(d, UpdateAlias(d, k, name, bind).db)
         /\ Elsewhere(d, DeleteAlias(d, k))
<1>0. DOMAIN d = {"ups", "models", "aliases", "keys"}
  BY DEF Good, Tables
<1>1. Elsewhere(d, d)
  BY <1>0 DEF Elsewhere
<1>2. Elsewhere(d, CreateAlias(d, name, bind).db)
  BY <1>0, <1>1 DEF CreateAlias, Done, Refused, Elsewhere
<1>3. Elsewhere(d, UpdateAlias(d, k, name, bind).db)
  BY <1>0, <1>1 DEF UpdateAlias, Done, Refused, Elsewhere
<1>4. Elsewhere(d, DeleteAlias(d, k))
  BY <1>0 DEF DeleteAlias, Elsewhere
<1> QED BY <1>2, <1>3, <1>4

\* A new row at the end of a table.
LEMMA AppendTable ==
  ASSUME NEW rows, NEW columns, IsTable(rows, columns), NEW r, DOMAIN r = columns
  PROVE  /\ IsTable(Append(rows, r), columns)
         /\ Len(rows) \in Nat /\ DOMAIN rows = 1 .. Len(rows)
         /\ DOMAIN Append(rows, r) = 1 .. Len(rows) + 1
         /\ \A i \in 1 .. Len(rows) : Append(rows, r)[i] = rows[i]
         /\ Append(rows, r)[Len(rows) + 1] = r
<1> DEFINE S == {rows[i] : i \in DOMAIN rows}
           T == S \union {r}
           new == Append(rows, r)
<1>1. rows \in Seq(S) /\ rows \in Seq(T) /\ Len(rows) \in Nat /\ DOMAIN rows = 1 .. Len(rows)
  BY DEF IsTable, IsList
<1>2. new \in Seq(T) /\ Len(new) = Len(rows) + 1 /\ DOMAIN new = 1 .. Len(rows) + 1
  BY <1>1
<1>3. /\ \A i \in 1 .. Len(rows) : new[i] = rows[i]
      /\ new[Len(rows) + 1] = r
  BY <1>1
<1>4. \A i \in DOMAIN new : DOMAIN new[i] = columns
  BY <1>1, <1>2, <1>3 DEF IsTable
<1>5. new \in Seq({new[i] : i \in DOMAIN new})
  BY <1>2
<1> QED BY <1>1, <1>2, <1>3, <1>4, <1>5 DEF IsTable, IsList

\* A row of a table in the place of another.
LEMMA ExceptTable ==
  ASSUME NEW rows, NEW columns, IsTable(rows, columns), NEW i, NEW r,
         i \in DOMAIN rows => DOMAIN r = columns
  PROVE  /\ IsTable([rows EXCEPT ![i] = r], columns)
         /\ DOMAIN [rows EXCEPT ![i] = r] = DOMAIN rows
         /\ \A j \in DOMAIN rows : [rows EXCEPT ![i] = r][j] = IF j = i THEN r ELSE rows[j]
<1> DEFINE S == {rows[j] : j \in DOMAIN rows}
           new == [rows EXCEPT ![i] = r]
<1>1. rows \in Seq(S) /\ Len(rows) \in Nat /\ DOMAIN rows = 1 .. Len(rows)
  BY DEF IsTable, IsList
<1>2. /\ DOMAIN new = 1 .. Len(rows)
      /\ \A j \in DOMAIN rows : new[j] = IF j = i THEN r ELSE rows[j]
      /\ new = [j \in 1 .. Len(rows) |-> new[j]]
  BY <1>1
<1>3. new \in Seq({new[j] : j \in DOMAIN new})
  <2> DEFINE R == {new[j] : j \in DOMAIN new}
  <2>1. \A j \in 1 .. Len(rows) : new[j] \in R
    BY <1>2
  <2>2. new \in [1 .. Len(rows) -> R]
    BY <1>2, <2>1
  <2> HIDE DEF R
  <2> HIDE DEF new
  <2>3. new \in Seq(R)
    BY <1>1, <2>2, SeqDef
  <2> QED BY <2>3 DEF R
<1>4. \A j \in DOMAIN new : DOMAIN new[j] = columns
  BY <1>1, <1>2 DEF IsTable
<1> QED BY <1>1, <1>2, <1>3, <1>4 DEF IsTable, IsList

\* The store's writes of upstreams and keys keep the order.
LEMMA CreateUpstreamGood ==
  ASSUME NEW d, Good(d), NEW u,
         DOMAIN u = {"name", "format", "extra", "enabled", "active"}, u.active
  PROVE  Good(CreateUpstream(d, u).db)
<1> DEFINE e == [d EXCEPT !.ups = Append(d.ups, u)]
<1>1. CASE CreateUpstream(d, u).db = d
  BY <1>1
<1>2. CASE ~(u.enabled /\ UpstreamNameTaken(d.ups, u.name, 0)) /\ CreateUpstream(d, u).db = e
  <2>1. /\ IsTable(e.ups, {"name", "format", "extra", "enabled", "active"})
        /\ Len(d.ups) \in Nat /\ DOMAIN d.ups = 1 .. Len(d.ups)
        /\ DOMAIN e.ups = 1 .. Len(d.ups) + 1
        /\ \A i \in 1 .. Len(d.ups) : e.ups[i] = d.ups[i]
        /\ e.ups[Len(d.ups) + 1] = u
    BY AppendTable DEF Good, Tables
  <2>2. DOMAIN e = {"ups", "models", "aliases", "keys"} /\ e.keys = d.keys
    BY DEF Good, Tables
  <2>3. OneEnabled(e)
    <3> SUFFICES ASSUME NEW i \in Active(e.ups), NEW j \in Active(e.ups),
                        e.ups[i].enabled, e.ups[j].enabled, e.ups[i].name = e.ups[j].name
                 PROVE  i = j
      BY DEF OneEnabled
    <3>1. CASE i \in Active(d.ups) /\ j \in Active(d.ups)
      BY <2>1, <3>1 DEF Good, OneEnabled, Active
    <3>2. \A k \in Active(d.ups) : k # 0 /\ k # Len(d.ups) + 1
      BY <2>1 DEF Active
    <3>3. \A k \in Active(e.ups) : k \in Active(d.ups) \/ k = Len(d.ups) + 1
      BY <2>1 DEF Active
    <3>4. CASE i = Len(d.ups) + 1 /\ j \in Active(d.ups)
      BY <1>2, <2>1, <3>2, <3>4 DEF UpstreamNameTaken, Active
    <3>5. CASE j = Len(d.ups) + 1 /\ i \in Active(d.ups)
      BY <1>2, <2>1, <3>2, <3>5 DEF UpstreamNameTaken, Active
    <3> QED BY <3>1, <3>3, <3>4, <3>5
  <2>4. OneLabelled(e)
    BY <2>2 DEF Good, OneLabelled
  <2> QED BY <1>2, <2>1, <2>2, <2>3, <2>4 DEF Good, Tables
<1> QED BY <1>1, <1>2 DEF CreateUpstream, Done, Refused

\* An update that enables or renames an upstream has looked for its name first.
LEMMA UpdateUpstreamGood ==
  ASSUME NEW d, Good(d), NEW i, NEW u,
         i \in DOMAIN d.ups =>
           /\ DOMAIN u = {"name", "format", "extra", "enabled", "active"}
           /\ u.active = d.ups[i].active
  PROVE  Good(UpdateUpstream(d, i, u).db)
<1> DEFINE cur == d.ups[i]
           e   == [d EXCEPT !.ups[i] = IF cur.active THEN u ELSE cur]
<1>1. CASE UpdateUpstream(d, i, u).db = d
  BY <1>1
<1>2. CASE /\ ~(cur.active /\ ChecksName(cur, u) /\ UpstreamNameTaken(d.ups, u.name, i))
           /\ UpdateUpstream(d, i, u).db = e
  <2> DEFINE r == IF cur.active THEN u ELSE cur
  <2>1. /\ e.ups = [d.ups EXCEPT ![i] = r] /\ e.keys = d.keys
        /\ DOMAIN e = {"ups", "models", "aliases", "keys"}
    BY DEF Good, Tables
  <2>2. i \in DOMAIN d.ups => DOMAIN r = {"name", "format", "extra", "enabled", "active"}
    BY DEF Good, Tables, IsTable
  <2> HIDE DEF e
  <2>3. /\ IsTable(e.ups, {"name", "format", "extra", "enabled", "active"})
        /\ DOMAIN e.ups = DOMAIN d.ups
        /\ \A j \in DOMAIN d.ups : e.ups[j] = IF j = i THEN r ELSE d.ups[j]
    <3> HIDE DEF r
    <3> QED BY <2>1, <2>2, ExceptTable DEF Good, Tables
  <2>4. OneEnabled(e)
    <3> SUFFICES ASSUME NEW j \in Active(e.ups), NEW k \in Active(e.ups),
                        e.ups[j].enabled, e.ups[k].enabled, e.ups[j].name = e.ups[k].name, j # k
                 PROVE  FALSE
      BY DEF OneEnabled
    <3>1. j \in Active(d.ups) /\ k \in Active(d.ups)
      BY <2>3 DEF Active
    <3>2. CASE j # i /\ k # i
      BY <2>3, <3>1, <3>2 DEF Good, OneEnabled, Active
    <3>3. CASE j = i
      <4>1. cur.active /\ e.ups[i] = u /\ e.ups[k] = d.ups[k] /\ k # i
        BY <2>3, <3>1, <3>3 DEF Active
      <4>2. CASE ChecksName(cur, u)
        BY <1>2, <3>1, <3>3, <4>1, <4>2 DEF UpstreamNameTaken
      <4>3. CASE ~ChecksName(cur, u)
        BY <3>1, <3>3, <4>1, <4>3 DEF ChecksName, Good, OneEnabled
      <4> QED BY <4>2, <4>3
    <3>4. CASE k = i
      <4>1. cur.active /\ e.ups[i] = u /\ e.ups[j] = d.ups[j] /\ j # i
        BY <2>3, <3>1, <3>4 DEF Active
      <4>2. CASE ChecksName(cur, u)
        BY <1>2, <3>1, <3>4, <4>1, <4>2 DEF UpstreamNameTaken
      <4>3. CASE ~ChecksName(cur, u)
        BY <3>1, <3>4, <4>1, <4>3 DEF ChecksName, Good, OneEnabled
      <4> QED BY <4>2, <4>3
    <3> QED BY <3>2, <3>3, <3>4
  <2>5. OneLabelled(e)
    BY <2>1 DEF Good, OneLabelled
  <2> QED BY <1>2, <2>1, <2>3, <2>4, <2>5 DEF Good, Tables, e
<1> QED BY <1>1, <1>2 DEF UpdateUpstream, Done, Refused

\* A deletion frees a name and takes none.
LEMMA DeleteUpstreamGood ==
  ASSUME NEW d, Good(d), NEW i \in Active(d.ups)
  PROVE  Good(DeleteUpstream(d, i))
<1> DEFINE e == DeleteUpstream(d, i)
           r == [d.ups[i] EXCEPT !.active = FALSE]
<1>1. /\ e.ups = [d.ups EXCEPT ![i] = r] /\ e.keys = d.keys
      /\ DOMAIN e = {"ups", "models", "aliases", "keys"}
  BY DEF DeleteUpstream, Good, Tables
<1>2. DOMAIN r = {"name", "format", "extra", "enabled", "active"} /\ ~r.active
  BY DEF Good, Tables, IsTable, Active
<1> HIDE DEF e, r
<1>3. /\ IsTable(e.ups, {"name", "format", "extra", "enabled", "active"})
      /\ DOMAIN e.ups = DOMAIN d.ups
      /\ \A j \in DOMAIN d.ups : e.ups[j] = IF j = i THEN r ELSE d.ups[j]
  <2> DEFINE columns == {"name", "format", "extra", "enabled", "active"}
  <2>1. IsTable(d.ups, columns) /\ DOMAIN r = columns
    BY <1>2 DEF Good, Tables
  <2> HIDE DEF columns
  <2>2. /\ IsTable(e.ups, columns) /\ DOMAIN e.ups = DOMAIN d.ups
        /\ \A j \in DOMAIN d.ups : e.ups[j] = IF j = i THEN r ELSE d.ups[j]
    BY <1>1, <2>1, ExceptTable
  <2> QED BY <2>2 DEF columns
<1>4. \A j \in Active(e.ups) : j \in Active(d.ups) /\ e.ups[j] = d.ups[j]
  BY <1>2, <1>3 DEF Active
<1>5. OneEnabled(e) /\ OneLabelled(e)
  BY <1>1, <1>4 DEF Good, OneEnabled, OneLabelled
<1> QED BY <1>1, <1>3, <1>5 DEF Good, Tables, e

\* The writes of keys look for the label in the same transaction.
LEMMA KeysGood ==
  ASSUME NEW d, Good(d), NEW k, NEW label, NEW enabled
  PROVE  /\ Good(CreateExtKey(d, label).db)
         /\ Good(UpdateExtKey(d, k, label, enabled).db)
         /\ k \in Active(d.keys) => Good(DeleteExtKey(d, k))
<1> DEFINE columns == {"label", "enabled", "active"}
           row     == [label |-> label, enabled |-> TRUE, active |-> TRUE]
<1>0. /\ DOMAIN d = {"ups", "models", "aliases", "keys"} /\ IsTable(d.keys, columns)
      /\ IsTable(d.ups, {"name", "format", "extra", "enabled", "active"})
      /\ OneEnabled(d) /\ OneLabelled(d)
  BY DEF Good, Tables
\* What is to be shown of a database that differs in its keys.
<1>1. ASSUME NEW keys, IsTable(keys, columns),
             \A i, j \in Active(keys) : keys[i].label = keys[j].label => i = j \/ keys[i].label = NoLabel
      PROVE  Good([d EXCEPT !.keys = keys])
  BY <1>0, <1>1 DEF Good, Tables, OneEnabled, OneLabelled
<1>2. Good(CreateExtKey(d, label).db)
  <2> DEFINE new == Append(d.keys, row)
  <2>1. CASE ExtKeyLabelTaken(d, label, 0)
    BY <2>1 DEF CreateExtKey, Refused
  <2>2. CASE ~ExtKeyLabelTaken(d, label, 0)
    <3>1. DOMAIN row = columns /\ row.label = label
      OBVIOUS
    <3> HIDE DEF columns, row
    <3>2. /\ IsTable(new, columns)
          /\ Len(d.keys) \in Nat /\ DOMAIN d.keys = 1 .. Len(d.keys)
          /\ DOMAIN new = 1 .. Len(d.keys) + 1
          /\ \A i \in 1 .. Len(d.keys) : new[i] = d.keys[i]
          /\ new[Len(d.keys) + 1] = row
      BY <1>0, <3>1, AppendTable
    <3> HIDE DEF new
    <3>3. \A i \in Active(new) : i = Len(d.keys) + 1 \/ (i \in Active(d.keys) /\ new[i] = d.keys[i])
      BY <3>2 DEF Active
    <3>4. \A i \in Active(d.keys) : d.keys[i].label = label => label = NoLabel
      BY <2>2, <3>2 DEF ExtKeyLabelTaken, Active
    <3>5. \A i, j \in Active(new) :
            new[i].label = new[j].label => i = j \/ new[i].label = NoLabel
      BY <1>0, <3>1, <3>2, <3>3, <3>4 DEF OneLabelled
    <3>6. Good([d EXCEPT !.keys = new])
      BY <1>1, <3>2, <3>5
    <3> QED BY <2>2, <3>6 DEF CreateExtKey, Done, new, row
  <2> QED BY <2>1, <2>2
<1>3. Good(UpdateExtKey(d, k, label, enabled).db)
  <2> DEFINE r   == [d.keys[k] EXCEPT !.label = label, !.enabled = enabled]
             new == [d.keys EXCEPT ![k] = r]
  <2>1. CASE UpdateExtKey(d, k, label, enabled).db = d
    BY <2>1
  <2>2. CASE /\ UpdateExtKey(d, k, label, enabled).db = [d EXCEPT !.keys = new]
             /\ d.keys[k].active /\ (label = d.keys[k].label \/ ~ExtKeyLabelTaken(d, label, k))
    <3>1. k \in DOMAIN d.keys => DOMAIN r = columns /\ r.label = label
      BY <1>0 DEF IsTable
    <3> HIDE DEF columns, r
    <3>2. /\ IsTable(new, columns) /\ DOMAIN new = DOMAIN d.keys
          /\ \A j \in DOMAIN d.keys : new[j] = IF j = k THEN r ELSE d.keys[j]
      BY <1>0, <3>1, ExceptTable
    <3> HIDE DEF new
    <3>3. \A i \in Active(new) : i \in Active(d.keys) /\ (i # k => new[i] = d.keys[i])
      BY <2>2, <3>2 DEF Active
    <3>4. \A i \in Active(d.keys) \ {k} :
            k \in Active(d.keys) /\ d.keys[i].label = label => label = NoLabel
      BY <1>0, <2>2 DEF ExtKeyLabelTaken, OneLabelled
    <3>5. \A i, j \in Active(new) :
            new[i].label = new[j].label => i = j \/ new[i].label = NoLabel
      <4> SUFFICES ASSUME NEW i \in Active(new), NEW j \in Active(new), i # j,
                          new[i].label = new[j].label
                   PROVE  new[i].label = NoLabel
        OBVIOUS
      <4>1. CASE i # k /\ j # k
        BY <1>0, <3>3, <4>1 DEF OneLabelled
      <4>2. CASE i = k
        BY <3>1, <3>2, <3>3, <3>4, <4>2 DEF Active
      <4>3. CASE j = k
        BY <3>1, <3>2, <3>3, <3>4, <4>3 DEF Active
      <4> QED BY <4>1, <4>2, <4>3
    <3>6. Good([d EXCEPT !.keys = new])
      BY <1>1, <3>2, <3>5
    <3> QED BY <2>2, <3>6
  <2> QED BY <2>1, <2>2, <1>0 DEF UpdateExtKey, Done, Refused
<1>4. ASSUME k \in Active(d.keys) PROVE Good(DeleteExtKey(d, k))
  <2> DEFINE r   == [d.keys[k] EXCEPT !.active = FALSE]
             new == [d.keys EXCEPT ![k] = r]
  <2>1. DOMAIN r = columns /\ ~r.active
    BY <1>0, <1>4 DEF IsTable, Active
  <2>2. DeleteExtKey(d, k) = [d EXCEPT !.keys = new]
    BY <1>0 DEF DeleteExtKey
  <2> HIDE DEF columns, r
  <2>3. /\ IsTable(new, columns) /\ DOMAIN new = DOMAIN d.keys
        /\ \A j \in DOMAIN d.keys : new[j] = IF j = k THEN r ELSE d.keys[j]
    BY <1>0, <2>1, ExceptTable
  <2> HIDE DEF new
  <2>4. \A i \in Active(new) : i \in Active(d.keys) /\ new[i] = d.keys[i]
    BY <2>1, <2>3 DEF Active
  <2>5. Good([d EXCEPT !.keys = new])
    BY <1>0, <1>1, <2>3, <2>4 DEF OneLabelled
  <2> QED BY <2>2, <2>5
<1> QED BY <1>2, <1>3, <1>4

\* The parts of an import.
LEMMA ApplyStepGood ==
  ASSUME NEW p, DOMAIN p = {"db", "id", "err"}, Good(p.db), NEW f, NEW targets, NEW step
  PROVE  Good(ApplyStep(p, f, targets, step).db)
<1>1. ASSUME NEW e, NEW t PROVE Good(ApplyUpstream(p, e, t).db)
  <2>1. CASE t = 0
    <3>1. DOMAIN NewRow(e) = {"name", "format", "extra", "enabled", "active"} /\ NewRow(e).active
      BY DEF NewRow, ApplyConfig
    <3>2. Good(CreateUpstream(p.db, NewRow(e)).db)
      BY <3>1, CreateUpstreamGood
    <3> QED BY <2>1, <3>2 DEF ApplyUpstream
  <2>2. CASE t # 0
    <3> DEFINE u == ApplyConfig(p.db.ups[t], e)
    <3>1. t \in DOMAIN p.db.ups =>
            /\ DOMAIN u = {"name", "format", "extra", "enabled", "active"}
            /\ u.active = p.db.ups[t].active
      BY DEF ApplyConfig, Good, Tables, IsTable
    <3>2. Good(UpdateUpstream(p.db, t, u).db)
      BY <3>1, UpdateUpstreamGood
    <3> QED BY <2>2, <3>2 DEF ApplyUpstream
  <2> QED BY <2>1, <2>2
<1>2. ASSUME NEW e PROVE Good(ApplyModels(p, e).db)
  <2>1. ApplyModels(p, e).db = ReplaceModelsExact(p.db, p.id, e.models)
    BY DEF ApplyModels
  <2> QED BY <2>1, ModelsElsewhere, ElsewhereGood
<1>3. ASSUME NEW al PROVE Good(ApplyAlias(p, al).db)
  <2>1. \E name, bind, k :
          ApplyAlias(p, al).db \in {p.db, CreateAlias(p.db, name, bind).db,
                                   UpdateAlias(p.db, k, name, bind).db}
    BY DEF ApplyAlias
  <2> QED BY <2>1, AliasesElsewhere, ElsewhereGood
<1> QED BY <1>1, <1>2, <1>3 DEF ApplyStep

\* What is true in every state.
Inv == Good(db)

\* It starts in order.
LEMMA InitInv == Init => Inv
BY StartAssumption DEF Init, Inv, Good, Tables, IsDatabase

\* A closure of the writer.
LEMMA WriteInv ==
  ASSUME NEW r, Good(r.db), Write(r)
  PROVE  Inv'
BY DEF Write, Inv

\* Every handler, and every part of an import, keeps the configuration in order.
LEMMA StepInv == Inv /\ [Next]_vars => Inv'
<1> SUFFICES ASSUME Inv, [Next]_vars PROVE Inv'
  OBVIOUS
<1> USE DEF Inv
<1>1. ASSUME NEW a \in Admins, NEW n \in UpNames, NEW f \in Formats,
             NEW e \in BOOLEAN, NEW fetch \in BOOLEAN, CreateUp(a, n, f, e, fetch)
      PROVE  Inv'
  <2> DEFINE u == [name |-> n, format |-> f, extra |-> {}, enabled |-> e, active |-> TRUE]
  <2>1. DOMAIN u = {"name", "format", "extra", "enabled", "active"} /\ u.active
    OBVIOUS
  <2>2. Write(CreateUpstream(db, u))
    BY <1>1 DEF CreateUp
  <2> HIDE DEF u
  <2> QED BY <2>1, <2>2, CreateUpstreamGood, WriteInv
<1>2. ASSUME NEW i \in DOMAIN db.ups, NEW p \in Patches, UpdateUp(i, p)
      PROVE  Inv'
  <2> DEFINE u == MergePatch(db.ups[i], p)
  <2>1. DOMAIN u = {"name", "format", "extra", "enabled", "active"} /\ u.active = db.ups[i].active
    BY DEF MergePatch, Good, Tables, IsTable
  <2>2. Write(UpdateUpstream(db, i, u))
    BY <1>2 DEF UpdateUp, Run
  <2> HIDE DEF u
  <2> QED BY <2>1, <2>2, UpdateUpstreamGood, WriteInv
<1>3. ASSUME NEW i \in DOMAIN db.ups, DeleteUp(i)
      PROVE  Inv'
  BY <1>3, DeleteUpstreamGood, WriteInv DEF DeleteUp, Run, Done
<1>4. ASSUME NEW a \in Admins, NEW names \in VendorLists, EndFetch(a, names)
      PROVE  Inv'
  BY <1>4, ModelsElsewhere, ElsewhereGood, WriteInv DEF EndFetch, End
<1>5. ASSUME NEW i \in DOMAIN db.ups, NEW n \in ModelNames, NEW len \in Lens, AddMod(i, n, len)
      PROVE  Inv'
  BY <1>5, ModelsElsewhere, ElsewhereGood, WriteInv DEF AddMod, Run
<1>6. ASSUME NEW i \in DOMAIN db.ups, NEW k \in DOMAIN db.models, NEW len \in Lens,
             UpdateMod(i, k, len)
      PROVE  Inv'
  BY <1>6, ModelsElsewhere, ElsewhereGood, WriteInv DEF UpdateMod, Run
<1>23. ASSUME NEW i \in DOMAIN db.ups, NEW k \in DOMAIN db.models, DeleteMod(i, k)
       PROVE  Inv'
  BY <1>23, ModelsElsewhere, ElsewhereGood, WriteInv DEF DeleteMod, Run
<1>7. ASSUME NEW a \in Admins, EndAlias(a)
      PROVE  Inv'
  BY <1>7, AliasesElsewhere, ElsewhereGood, WriteInv DEF EndAlias, End
<1>8. ASSUME NEW k \in DOMAIN db.aliases, DeleteAl(k)
      PROVE  Inv'
  BY <1>8, AliasesElsewhere, ElsewhereGood, WriteInv DEF DeleteAl, Run, Done
<1>9. ASSUME NEW label \in Labels, CreateKey(label)
      PROVE  Inv'
  BY <1>9, KeysGood, WriteInv DEF CreateKey, Run
<1>10. ASSUME NEW a \in Admins, EndUpdateKey(a)
       PROVE  Inv'
  BY <1>10, KeysGood, WriteInv DEF EndUpdateKey, End
<1>11. ASSUME NEW k \in DOMAIN db.keys, DeleteKey(k)
       PROVE  Inv'
  BY <1>11, KeysGood, WriteInv DEF DeleteKey, Run, Done
<1>12. ASSUME ImportStep
       PROVE  Inv'
  <2> DEFINE p == [db |-> db, id |-> import.id, err |-> "none"]
             q == ApplyStep(p, import.file, import.targets, Steps(import.file)[import.at])
  <2>1. db' = q.db
    BY <1>12 DEF ImportStep
  <2>2. DOMAIN p = {"db", "id", "err"} /\ Good(p.db)
    OBVIOUS
  <2> HIDE DEF p
  <2>3. Good(q.db)
    BY <2>2, ApplyStepGood
  <2> QED BY <2>1, <2>3
\* What begins, fails or exports writes nothing.
<1>13. ASSUME db' = db PROVE Inv'
  BY <1>13
<1>14. ASSUME NEW a \in Admins,
              \/ \E i \in DOMAIN db.ups : BeginFetch(a, i)
              \/ FetchFails(a)
              \/ \E n \in AliasNames, bind \in Bindings : BeginCreateAlias(a, n, bind)
              \/ \E k \in DOMAIN db.aliases, n \in AliasNames \union {Absent},
                    bind \in Bindings \union {Absent} : BeginUpdateAlias(a, k, n, bind)
              \/ \E k \in DOMAIN db.keys, label \in Labels \union {Absent},
                    e \in BOOLEAN \union {Absent} : BeginUpdateKey(a, k, label, e)
              \/ ExportUps(a) \/ ExportAliases(a) \/ ExportModels(a)
              \/ \E f \in Files \union ({saved} \ {Absent}) : BeginImport(a, f)
       PROVE  db' = db
  BY <1>14 DEF BeginFetch, FetchFails, BeginCreateAlias, BeginUpdateAlias, BeginUpdateKey,
       ExportUps, ExportAliases, ExportModels, BeginImport, Begin
<1>15. CASE ImportFails
  BY <1>15, <1>13 DEF ImportFails
<1>16. CASE UNCHANGED vars
  BY <1>16, <1>13 DEF vars
<1> HIDE DEF Inv
<1>17. ASSUME NEW a \in Admins, NEW i \in DOMAIN db.ups, BeginFetch(a, i) PROVE Inv'
  BY <1>13, <1>14, <1>17
<1>18. ASSUME NEW a \in Admins, FetchFails(a) \/ ExportUps(a) \/ ExportAliases(a) \/ ExportModels(a)
       PROVE  Inv'
  BY <1>13, <1>14, <1>18
<1>19. ASSUME NEW a \in Admins, NEW n \in AliasNames, NEW bind \in Bindings, BeginCreateAlias(a, n, bind)
       PROVE  Inv'
  BY <1>13, <1>14, <1>19
<1>20. ASSUME NEW a \in Admins, NEW k \in DOMAIN db.aliases, NEW n \in AliasNames \union {Absent},
              NEW bind \in Bindings \union {Absent}, BeginUpdateAlias(a, k, n, bind)
       PROVE  Inv'
  BY <1>13, <1>14, <1>20
<1>21. ASSUME NEW a \in Admins, NEW k \in DOMAIN db.keys, NEW label \in Labels \union {Absent},
              NEW e \in BOOLEAN \union {Absent}, BeginUpdateKey(a, k, label, e)
       PROVE  Inv'
  BY <1>13, <1>14, <1>21
<1>22. ASSUME NEW a \in Admins, NEW f \in Files \union ({saved} \ {Absent}), BeginImport(a, f)
       PROVE  Inv'
  BY <1>13, <1>14, <1>22
<1> QED BY <1>1, <1>2, <1>3, <1>4, <1>5, <1>6, <1>7, <1>8, <1>9, <1>10, <1>11, <1>12,
           <1>15, <1>16, <1>17, <1>18, <1>19, <1>20, <1>21, <1>22, <1>23, ZenonT(60) DEF Next

\* At every moment, also between the parts of an import and after one that failed, a name
\* is the name of one enabled upstream at most.
THEOREM EnabledUniqueAlways == Spec => []EnabledUnique
<1>1. Inv => EnabledUnique
  BY DEF Inv, Good, EnabledUnique
<1> QED BY <1>1, InitInv, StepInv, PTL DEF Spec

\* No label is given twice, whichever old value a PATCH writes back.
THEOREM LabelsUniqueAlways == Spec => []LabelsUnique
<1>1. Inv => LabelsUnique
  BY DEF Inv, Good, LabelsUnique
<1> QED BY <1>1, InitInv, StepInv, PTL DEF Spec

------------------------------------------------------------------------------
(* The models *)

ModelTable(ms) ==
  /\ IsList(ms) /\ OneListed(ms)
  /\ \A k \in DOMAIN ms : IsModel(ms[k])

\* A list is a function on the first numbers.
LEMMA ListIs ==
  ASSUME NEW s
  PROVE  IsList(s) <=> \E n \in Nat : s = [i \in 1 .. n |-> s[i]]
<1> DEFINE S == {s[i] : i \in DOMAIN s}
<1>1. s \in Seq(S) => \E n \in Nat : s = [i \in 1 .. n |-> s[i]]
  <2> HIDE DEF S
  <2> SUFFICES ASSUME s \in Seq(S) PROVE Len(s) \in Nat /\ s = [i \in 1 .. Len(s) |-> s[i]]
    OBVIOUS
  <2> QED OBVIOUS
<1>2. ASSUME NEW n \in Nat, s = [i \in 1 .. n |-> s[i]] PROVE s \in Seq(S)
  <2>1. DOMAIN s = 1 .. n
    BY <1>2
  <2>2. \A i \in 1 .. n : s[i] \in S
    BY <2>1
  <2> HIDE DEF S
  <2>3. s \in [1 .. n -> S]
    BY <1>2, <2>2
  <2> QED BY <2>3, SeqDef
<1> QED BY <1>1, <1>2 DEF IsList

\* Rows that change in their place.
LEMMA MappedList ==
  ASSUME NEW s, IsList(s), NEW t, t = [i \in DOMAIN s |-> t[i]]
  PROVE  IsList(t)
<1>1. PICK n \in Nat : s = [i \in 1 .. n |-> s[i]]
  BY ListIs
<1>2. DOMAIN s = 1 .. n
  BY <1>1
<1>3. t = [i \in 1 .. n |-> t[i]]
  BY <1>2
<1> QED BY <1>3, ListIs

\* A new row at the end.
LEMMA LongerList ==
  ASSUME NEW s, IsList(s), NEW r
  PROVE  /\ IsList(Append(s, r)) /\ Len(s) \in Nat /\ DOMAIN s = 1 .. Len(s)
         /\ DOMAIN Append(s, r) = 1 .. Len(s) + 1
         /\ \A i \in 1 .. Len(s) : Append(s, r)[i] = s[i]
         /\ Append(s, r)[Len(s) + 1] = r
<1> DEFINE S == {s[i] : i \in DOMAIN s}
           T == S \union {r}
           new == Append(s, r)
<1>1. s \in Seq(S)
  BY DEF IsList
<1>2. S \subseteq T /\ r \in T
  OBVIOUS
<1> HIDE DEF S, T
<1>3. s \in Seq(T) /\ Len(s) \in Nat /\ DOMAIN s = 1 .. Len(s)
  BY <1>1, <1>2
<1>4. new \in Seq(T) /\ Len(new) = Len(s) + 1 /\ DOMAIN new = 1 .. Len(s) + 1
  BY <1>2, <1>3
<1>5. /\ \A i \in 1 .. Len(s) : new[i] = s[i]
      /\ new[Len(s) + 1] = r
  BY <1>2, <1>3
<1> HIDE DEF new
<1>6. new = [i \in 1 .. Len(s) + 1 |-> new[i]] /\ Len(s) + 1 \in Nat
  <2>1. new = [i \in 1 .. Len(new) |-> new[i]]
    BY <1>4
  <2> QED BY <1>3, <1>4, <2>1
<1>7. IsList(new)
  BY <1>6, ListIs
<1> QED BY <1>3, <1>4, <1>5, <1>7 DEF new

\* Which rows stay in a list when it is emptied.
Stays(row, u, manual) == row.up = u => row.manual /\ ~manual

LEMMA ClearedTable ==
  ASSUME NEW ms, ModelTable(ms), NEW u, NEW manual \in BOOLEAN
  PROVE  LET e == Cleared(ms, u, manual) IN
         /\ ModelTable(e) /\ DOMAIN e = DOMAIN ms
         /\ \A k \in Active(e) : k \in Active(ms) /\ e[k] = ms[k] /\ Stays(ms[k], u, manual)
         /\ \A k \in Active(ms) : Stays(ms[k], u, manual) => k \in Active(e)
<1> DEFINE e == Cleared(ms, u, manual)
           row(k) == [ms[k] EXCEPT !.active = @ /\ Stays(ms[k], u, manual)]
<1>1. /\ DOMAIN e = DOMAIN ms /\ e = [k \in DOMAIN ms |-> e[k]]
      /\ \A k \in DOMAIN ms : e[k] = row(k)
  BY DEF Cleared, Stays
<1>2. ASSUME NEW k \in DOMAIN ms
      PROVE  /\ IsModel(row(k))
             /\ row(k).active <=> ms[k].active /\ Stays(ms[k], u, manual)
             /\ row(k).active => row(k) = ms[k]
  <2> DEFINE C == {"up", "name", "manual", "len", "active"}
             m == ms[k]
             b == m.active /\ Stays(m, u, manual)
  <2>1. m = [c \in C |-> m[c]] /\ m.active \in BOOLEAN
    BY DEF ModelTable, IsModel
  <2>2. b \in BOOLEAN /\ row(k) = [m EXCEPT !.active = b] /\ "active" \in C
    OBVIOUS
  <2> HIDE DEF C, m, b
  <2>3. [m EXCEPT !.active = b] = [c \in C |-> IF c = "active" THEN b ELSE m[c]]
    BY <2>1
  <2>4. [m EXCEPT !.active = b].active = b /\ (b = m.active => [m EXCEPT !.active = b] = m)
    BY <2>1, <2>2, <2>3
  <2>5. IsModel([m EXCEPT !.active = b])
    BY <2>2, <2>3, <2>4 DEF IsModel, C
  <2>6. b => b = m.active
    BY <2>1 DEF b
  <2>7. b <=> m.active /\ Stays(m, u, manual)
    BY DEF b
  <2> HIDE DEF row
  <2> QED BY <2>2, <2>4, <2>5, <2>6, <2>7 DEF m
<1> HIDE DEF e, row
<1>3. /\ \A k \in Active(e) : k \in Active(ms) /\ e[k] = ms[k] /\ Stays(ms[k], u, manual)
      /\ \A k \in Active(ms) : Stays(ms[k], u, manual) => k \in Active(e)
  BY <1>1, <1>2 DEF Active
<1>4. IsList(e)
  BY <1>1, MappedList DEF ModelTable
<1>5. ModelTable(e)
  BY <1>1, <1>2, <1>3, <1>4 DEF ModelTable, OneListed
<1> QED BY <1>1, <1>3, <1>5 DEF e

\* A row of a name that is not in the list.
LEMMA ReviveTable ==
  ASSUME NEW ms, ModelTable(ms), NEW u, NEW m, Listed(ms, u, m.name) = {}
  PROVE  LET e == Revive(ms, u, m) IN
         /\ ModelTable(e)
         /\ \E x \in Active(e) :
              /\ e[x].up = u /\ e[x].name = m.name
              /\ \A k \in Active(e) \ {x} : k \in Active(ms) /\ e[k] = ms[k]
<1> DEFINE e == Revive(ms, u, m)
           row == [up |-> u, name |-> m.name, manual |-> m.manual,
                   len |-> Configured(m.len), active |-> TRUE]
           dead == Dead(ms, u, m.name)
<1>1. IsModel(row) /\ row.active /\ row.up = u /\ row.name = m.name
  BY DEF IsModel
<1>2. IsList(ms) /\ \A k \in DOMAIN ms : IsModel(ms[k])
  BY DEF ModelTable
<1>3. PICK x : /\ IsList(e) /\ DOMAIN ms \subseteq DOMAIN e
               /\ x \in DOMAIN e /\ e[x] = row
               /\ \A k \in DOMAIN e : k # x => k \in DOMAIN ms /\ e[k] = ms[k]
  <2>1. CASE dead = {}
    <3>1. e = Append(ms, row)
      BY <2>1 DEF Revive
    <3> HIDE DEF e, row
    <3>2. /\ IsList(e) /\ Len(ms) \in Nat /\ DOMAIN ms = 1 .. Len(ms)
          /\ DOMAIN e = 1 .. Len(ms) + 1
          /\ \A i \in 1 .. Len(ms) : e[i] = ms[i]
          /\ e[Len(ms) + 1] = row
      BY <1>2, <3>1, LongerList
    <3> QED BY <3>2
  <2>2. CASE dead # {}
    <3> DEFINE x == Min(dead)
    <3>1. e = [ms EXCEPT ![x] = row]
      BY <2>2 DEF Revive
    <3>2. dead \subseteq DOMAIN ms
      BY DEF Dead, RowsOf
    <3>3. x \in dead
      <4> HIDE DEF dead
      <4>1. PICK n \in Nat : ms = [i \in 1 .. n |-> ms[i]]
        BY <1>2, ListIs
      <4>2. DOMAIN ms = 1 .. n
        BY <4>1
      <4>3. dead \subseteq Nat
        BY <3>2, <4>2
      <4>4. \E y \in dead : \A z \in dead : y <= z
        BY <2>2, <4>3, LeastNat
      <4> QED BY <4>4 DEF Min
    <3> HIDE DEF e, row, x, dead
    <3>4. /\ e = [i \in DOMAIN ms |-> e[i]] /\ DOMAIN e = DOMAIN ms /\ e[x] = row
          /\ \A k \in DOMAIN ms : k # x => e[k] = ms[k]
      BY <3>1, <3>2, <3>3
    <3>5. IsList(e)
      BY <1>2, <3>4, MappedList
    <3> QED BY <3>2, <3>3, <3>4, <3>5
  <2> QED BY <2>1, <2>2
<1> HIDE DEF e, row
<1>4. x \in Active(e) /\ \A k \in Active(e) \ {x} : k \in Active(ms) /\ e[k] = ms[k]
  BY <1>1, <1>3 DEF Active
<1>5. \A k \in Active(ms) : ~(ms[k].up = u /\ ms[k].name = m.name)
  BY DEF Listed, RowsOf, Active
<1>6. ModelTable(e)
  <2>1. \A k \in DOMAIN e : IsModel(e[k])
    BY <1>1, <1>2, <1>3
  <2>2. OneListed(e)
    <3> SUFFICES ASSUME NEW j \in Active(e), NEW k \in Active(e),
                        e[j].up = e[k].up, e[j].name = e[k].name, j # k
                 PROVE  FALSE
      BY DEF OneListed
    <3>1. CASE j # x /\ k # x
      BY <1>4, <3>1 DEF ModelTable, OneListed
    <3>2. CASE j = x
      BY <1>1, <1>3, <1>4, <1>5, <3>2
    <3>3. CASE k = x
      BY <1>1, <1>3, <1>4, <1>5, <3>3
    <3> QED BY <3>1, <3>2, <3>3
  <2> QED BY <1>3, <2>1, <2>2 DEF ModelTable
<1> QED BY <1>1, <1>3, <1>4, <1>6 DEF e

\* The first n of a list of models, put into a table that was emptied.
Revives(ms, u, list, n, g) ==
  g = [i \in 0 .. n |-> IF i = 0 THEN Cleared(ms, u, TRUE) ELSE Revive(g[i - 1], u, list[i])]

LEMMA RevivesExist == ASSUME NEW ms, NEW u, NEW list, NEW n \in Nat PROVE \E g : Revives(ms, u, list, n, g)
<1> DEFINE T == {m \in Nat : ~\E g : Revives(ms, u, list, m, g)}
           base == Cleared(ms, u, TRUE)
<1> SUFFICES ASSUME T # {} PROVE FALSE
  OBVIOUS
<1>1. PICK m \in T : \A l \in T : m <= l
  <2>1. T \subseteq Nat
    OBVIOUS
  <2> HIDE DEF T
  <2> QED BY <2>1, LeastNat
<1>2. m \in Nat /\ ~\E g : Revives(ms, u, list, m, g)
  OBVIOUS
<1> HIDE DEF base
<1>3. CASE m = 0
  <2> DEFINE g == [i \in 0 .. 0 |-> base]
  <2>1. Revives(ms, u, list, 0, g)
    BY DEF Revives, base
  <2> QED BY <1>2, <1>3, <2>1
<1>4. CASE m # 0
  <2>1. m - 1 \in Nat /\ m - 1 \notin T
    BY <1>1, <1>2, <1>4
  <2>2. PICK h : Revives(ms, u, list, m - 1, h)
    BY <2>1
  <2> DEFINE last == Revive(h[m - 1], u, list[m])
             g == [i \in 0 .. m |-> IF i = m THEN last ELSE h[i]]
  <2>3. \A i \in 0 .. m - 1 : h[i] = IF i = 0 THEN base ELSE Revive(h[i - 1], u, list[i])
    BY <2>2, <2>1 DEF Revives, base
  <2>4. ASSUME NEW i \in 0 .. m
        PROVE  g[i] = IF i = 0 THEN base ELSE Revive(g[i - 1], u, list[i])
    <3>1. CASE i = m
      <4>1. g[i] = last /\ g[i - 1] = h[m - 1] /\ i # 0
        BY <1>2, <1>4, <3>1
      <4> QED BY <3>1, <4>1
    <3>2. CASE i = 0
      BY <1>2, <1>4, <2>1, <2>3, <3>2
    <3>3. CASE i # m /\ i # 0
      <4>1. i \in 0 .. m - 1 /\ g[i] = h[i] /\ g[i - 1] = h[i - 1]
        BY <1>2, <3>3
      <4> QED BY <2>3, <3>3, <4>1
    <3> QED BY <3>1, <3>2, <3>3
  <2>5. Revives(ms, u, list, m, g)
    <3>1. g = [i \in 0 .. m |-> g[i]]
      OBVIOUS
    <3> HIDE DEF g
    <3> QED BY <2>4, <3>1 DEF Revives, base
  <2> QED BY <1>2, <2>5
<1> QED BY <1>3, <1>4

\* An import leaves no model twice.
LEMMA ReplaceExactTable ==
  ASSUME NEW d, Good(d), ModelTable(d.models), NEW u, NEW list, IsList(list), Distinct(list)
  PROVE  ModelTable(ReplaceModelsExact(d, u, list).models)
<1> DEFINE L == Len(list)
           f == CHOOSE g : Revives(d.models, u, list, L, g)
           Fine(n) == /\ ModelTable(f[n])
                      /\ \A k \in Active(f[n]) : f[n][k].up = u => \E i \in 1 .. n : f[n][k].name = list[i].name
           T == {n \in 0 .. L : ~Fine(n)}
<1>1. ReplaceModelsExact(d, u, list) = [d EXCEPT !.models = f[L]]
  BY DEF ReplaceModelsExact, Revives
<1>2. L \in Nat /\ DOMAIN list = 1 .. L
  BY LongerList
<1>3. Revives(d.models, u, list, L, f)
  BY <1>2, RevivesExist
<1> HIDE DEF f, L
<1>4. \A i \in 0 .. L : f[i] = IF i = 0 THEN Cleared(d.models, u, TRUE) ELSE Revive(f[i - 1], u, list[i])
  BY <1>3 DEF Revives
<1>5. Fine(0)
  <2>1. f[0] = Cleared(d.models, u, TRUE)
    <3>1. 0 \in 0 .. L
      BY <1>2
    <3>2. f[0] = IF 0 = 0 THEN Cleared(d.models, u, TRUE) ELSE Revive(f[0 - 1], u, list[0])
      BY <1>4, <3>1, Zenon
    <3> QED BY <3>2, Zenon
  <2>2. /\ ModelTable(f[0])
        /\ \A k \in Active(f[0]) : f[0][k] = d.models[k] /\ Stays(d.models[k], u, TRUE)
    <3> DEFINE e == Cleared(d.models, u, TRUE)
    <3>1. TRUE \in BOOLEAN
      OBVIOUS
    <3>2. ModelTable(e) /\ \A k \in Active(e) : e[k] = d.models[k] /\ Stays(d.models[k], u, TRUE)
      BY <3>1, ClearedTable
    <3> QED BY <2>1, <3>2
  <2> QED BY <2>2 DEF Stays
<1>6. ASSUME T # {} PROVE FALSE
  <2>1. PICK n \in T : \A l \in T : n <= l
    <3>1. T \subseteq Nat
      BY <1>2
    <3> HIDE DEF T
    <3> QED BY <1>6, <3>1, LeastNat
  <2>2. n \in 0 .. L /\ ~Fine(n)
    OBVIOUS
  <2>3. n # 0
    <3> HIDE DEF Fine
    <3> QED BY <1>5, <2>2
  <2>4. n \in 1 .. L /\ n - 1 \in 0 .. L /\ ~(n <= n - 1) /\ n \in Int
    BY <1>2, <2>2, <2>3
  <2>5. Fine(n - 1)
    <3> HIDE DEF Fine
    <3> QED BY <2>1, <2>4
  <2>6. f[n] = Revive(f[n - 1], u, list[n])
    BY <1>4, <2>2, <2>3
  <2>7. Listed(f[n - 1], u, list[n].name) = {}
    <3> SUFFICES ASSUME NEW k \in Listed(f[n - 1], u, list[n].name) PROVE FALSE
      OBVIOUS
    <3>1. k \in Active(f[n - 1]) /\ f[n - 1][k].up = u /\ f[n - 1][k].name = list[n].name
      BY DEF Listed, RowsOf, Active
    <3>2. PICK i \in 1 .. n - 1 : f[n - 1][k].name = list[i].name
      BY <2>5, <3>1
    <3>3. i \in 1 .. L /\ i # n
      BY <1>2, <2>4
    <3> QED BY <1>2, <2>4, <3>1, <3>2, <3>3 DEF Distinct
  <2>8. PICK x \in Active(f[n]) :
          /\ ModelTable(f[n]) /\ f[n][x].up = u /\ f[n][x].name = list[n].name
          /\ \A k \in Active(f[n]) \ {x} : k \in Active(f[n - 1]) /\ f[n][k] = f[n - 1][k]
    BY <2>5, <2>6, <2>7, ReviveTable
  <2>9. ASSUME NEW k \in Active(f[n]), f[n][k].up = u PROVE \E i \in 1 .. n : f[n][k].name = list[i].name
    <3>1. CASE k = x
      BY <2>4, <2>8, <3>1
    <3>2. CASE k # x
      <4>1. k \in Active(f[n - 1]) /\ f[n][k] = f[n - 1][k]
        BY <2>8, <3>2
      <4>2. PICK i \in 1 .. n - 1 : f[n - 1][k].name = list[i].name
        BY <2>5, <2>9, <4>1
      <4>3. i \in 1 .. n
        BY <2>4
      <4> QED BY <4>1, <4>2, <4>3
    <3> QED BY <3>1, <3>2
  <2> QED BY <2>2, <2>8, <2>9
<1>7. ModelTable(f[L])
  <2>1. L \in 0 .. L
    BY <1>2
  <2> HIDE DEF Fine
  <2>2. Fine(L)
    BY <1>6, <2>1
  <2> QED BY <2>2 DEF Fine
<1> QED BY <1>1, <1>7 DEF Good, Tables

\* One name of a fetched list: the rows in the model list stay as they are, and what comes
\* into it is of that name and length.
LEMMA SyncTable ==
  ASSUME NEW r, DOMAIN r = {"err", "models"}, ModelTable(r.models), NEW u, NEW n, NEW len
  PROVE  LET q == Sync(r, u, n, len) IN
         /\ DOMAIN q = {"err", "models"} /\ ModelTable(q.models)
         /\ \A k \in Active(r.models) : k \in Active(q.models) /\ q.models[k] = r.models[k]
         /\ \A k \in Active(q.models) :
              k \in Active(r.models)
              \/ (q.models[k].up = u /\ q.models[k].name = n /\ q.models[k].len = len)
<1> DEFINE ms == r.models
           auto == {k \in Dead(ms, u, n) : ~ms[k].manual}
           back == [k \in DOMAIN ms |-> IF k \in auto THEN [ms[k] EXCEPT !.active = TRUE, !.len = len] ELSE ms[k]]
           row == [up |-> u, name |-> n, manual |-> FALSE, len |-> len, active |-> TRUE]
           here == Listed(back, u, n)
           New(m) == m.up = u /\ m.name = n /\ m.len = len
           \* What is to be shown of the table afterwards.
           Fine(e) == /\ ModelTable(e)
                      /\ \A k \in Active(ms) : k \in Active(e) /\ e[k] = ms[k]
                      /\ \A k \in Active(e) : k \in Active(ms) \/ New(e[k])
<1>1. \/ Sync(r, u, n, len) = [r EXCEPT !.err = "conflict"]
      \/ /\ ~(Cardinality(here) > 1)
         /\ Sync(r, u, n, len) = [r EXCEPT !.models = IF here = {} THEN Append(back, row) ELSE back]
  BY DEF Sync
<1>2. IsList(ms) /\ \A k \in DOMAIN ms : IsModel(ms[k])
  BY DEF ModelTable
<1>3. /\ DOMAIN back = DOMAIN ms /\ back = [k \in DOMAIN ms |-> back[k]]
      /\ \A k \in DOMAIN ms : back[k] = IF k \in auto THEN [ms[k] EXCEPT !.active = TRUE, !.len = len] ELSE ms[k]
  OBVIOUS
<1>4. auto \subseteq DOMAIN ms \ Active(ms) /\ \A k \in auto : ms[k].up = u /\ ms[k].name = n
  BY DEF Dead, RowsOf, Active
<1>5. IsModel(row) /\ row.active /\ New(row)
  BY DEF IsModel
<1> HIDE DEF back, auto, row, ms
<1>6. ASSUME NEW k \in DOMAIN ms
      PROVE  /\ IsModel(back[k])
             /\ k \in auto => back[k].active /\ New(back[k])
             /\ k \notin auto => back[k] = ms[k]
  <2>1. CASE k \in auto
    <3> DEFINE C == {"up", "name", "manual", "len", "active"}
               m == ms[k]
               b == [m EXCEPT !.active = TRUE, !.len = len]
    <3>1. m = [c \in C |-> m[c]]
      BY <1>2 DEF IsModel
    <3>2. "up" \in C /\ "name" \in C /\ "len" \in C /\ "active" \in C
      OBVIOUS
    <3>3. back[k] = b
      BY <1>3, <2>1
    <3>4. m.up = u /\ m.name = n
      BY <1>4, <2>1
    <3> HIDE DEF C, m
    <3>5. b = [c \in C |-> b[c]] /\ b.active = TRUE /\ b.len = len /\ b.up = m.up /\ b.name = m.name
      BY <3>1, <3>2
    <3> HIDE DEF b
    <3>6. IsModel(b)
      BY <3>5 DEF IsModel, C
    <3> QED BY <2>1, <3>3, <3>4, <3>5, <3>6
  <2>2. CASE k \notin auto
    BY <1>2, <1>3, <2>2
  <2> QED BY <2>1, <2>2
<1>7. \A k \in Active(back) : k \in Active(ms) \/ (k \in auto /\ New(back[k]))
  BY <1>3, <1>6 DEF Active
<1>8. \A k \in Active(ms) : k \in Active(back) /\ back[k] = ms[k]
  BY <1>3, <1>4, <1>6 DEF Active
<1>9. IsList(back)
  BY <1>2, <1>3, MappedList
<1>10. PICK N \in Nat : DOMAIN back = 1 .. N
  <2>1. PICK N \in Nat : back = [i \in 1 .. N |-> back[i]]
    BY <1>9, ListIs
  <2> QED BY <2>1
<1>11. ASSUME ~(Cardinality(here) > 1) PROVE OneListed(back)
  <2> SUFFICES ASSUME NEW j \in Active(back), NEW k \in Active(back),
                      back[j].up = back[k].up, back[j].name = back[k].name, j # k
               PROVE  FALSE
    BY DEF OneListed
  <2>1. CASE j \in Active(ms) /\ k \in Active(ms)
    BY <1>8, <2>1 DEF ModelTable, OneListed, ms
  <2>2. CASE ~(j \in Active(ms) /\ k \in Active(ms))
    <3>1. j \in here /\ k \in here
      BY <1>7, <2>2 DEF Listed, RowsOf, Active
    <3>2. here \subseteq 1 .. N
      BY <1>10 DEF Listed, RowsOf
    <3> HIDE DEF here
    <3>3. IsFiniteSet(here)
      <4>1. IsFiniteSet(1 .. N)
        BY <1>10, FS_Interval
      <4> QED BY <3>2, <4>1, FS_Subset
    <3>4. /\ Cardinality(here) \in Nat
          /\ IsFiniteSet(here \ {j}) /\ Cardinality(here \ {j}) = Cardinality(here) - 1
          /\ Cardinality(here \ {j}) \in Nat
      BY <3>1, <3>3, FS_CardinalityType, FS_RemoveElement
    <3>5. k \in here \ {j}
      BY <3>1
    <3>6. Cardinality(here \ {j}) # 0
      BY <3>4, <3>5, FS_EmptySet
    <3> QED BY <1>11, <3>4, <3>6
  <2> QED BY <2>1, <2>2
<1>12. ASSUME ~(Cardinality(here) > 1) PROVE Fine(back)
  BY <1>3, <1>6, <1>7, <1>8, <1>9, <1>11, <1>12 DEF ModelTable
<1>13. ASSUME ~(Cardinality(here) > 1), here = {} PROVE Fine(Append(back, row))
  <2> DEFINE e == Append(back, row)
             x == Len(back) + 1
  <2>1. /\ IsList(e) /\ Len(back) \in Nat /\ DOMAIN back = 1 .. Len(back)
        /\ DOMAIN e = 1 .. Len(back) + 1
        /\ \A i \in 1 .. Len(back) : e[i] = back[i]
        /\ e[Len(back) + 1] = row
    BY <1>9, LongerList
  <2> HIDE DEF e
  <2>2. x \in Active(e) /\ \A k \in Active(e) \ {x} : k \in Active(back) /\ e[k] = back[k]
    BY <1>5, <2>1 DEF Active
  <2>3. \A k \in Active(back) : k \in Active(e) /\ k # x
    BY <2>1 DEF Active
  <2>4. \A k \in Active(back) : ~(back[k].up = u /\ back[k].name = n)
    BY <1>13 DEF Listed, RowsOf, Active
  <2>5. \A k \in DOMAIN e : IsModel(e[k])
    <3>1. \A k \in DOMAIN back : IsModel(back[k]) /\ e[k] = back[k]
      BY <1>3, <1>6, <2>1
    <3>2. \A k \in DOMAIN e : k \in DOMAIN back \/ k = x
      BY <2>1
    <3>3. IsModel(e[x])
      BY <1>5, <2>1
    <3> HIDE DEF x
    <3> QED BY <3>1, <3>2, <3>3
  <2>6. OneListed(e)
    <3> SUFFICES ASSUME NEW j \in Active(e), NEW k \in Active(e),
                        e[j].up = e[k].up, e[j].name = e[k].name, j # k
                 PROVE  FALSE
      BY DEF OneListed
    <3>1. e[x].up = u /\ e[x].name = n
      BY <1>5, <2>1
    <3>2. CASE j # x /\ k # x
      BY <1>11, <1>13, <2>2, <3>2 DEF OneListed
    <3>3. CASE j = x
      BY <2>2, <2>4, <3>1, <3>3
    <3>4. CASE k = x
      BY <2>2, <2>4, <3>1, <3>4
    <3> QED BY <3>2, <3>3, <3>4
  <2>7. Fine(e)
    <3>1. \A k \in Active(ms) : k \in Active(e) /\ e[k] = ms[k]
      BY <1>8, <2>2, <2>3
    <3>2. \A k \in Active(e) : k \in Active(ms) \/ New(e[k])
      BY <1>5, <1>7, <2>1, <2>2
    <3> QED BY <2>1, <2>5, <2>6, <3>1, <3>2 DEF ModelTable
  <2> QED BY <2>7 DEF e
<1>14. Fine(ms)
  BY DEF ms
<1>15. CASE Sync(r, u, n, len) = [r EXCEPT !.err = "conflict"]
  <2>1. DOMAIN Sync(r, u, n, len) = {"err", "models"} /\ Sync(r, u, n, len).models = ms
    BY <1>15 DEF ms
  <2> QED BY <1>14, <2>1 DEF ms
<1>16. CASE /\ ~(Cardinality(here) > 1)
            /\ Sync(r, u, n, len) = [r EXCEPT !.models = IF here = {} THEN Append(back, row) ELSE back]
  <2> DEFINE e == IF here = {} THEN Append(back, row) ELSE back
  <2>1. DOMAIN Sync(r, u, n, len) = {"err", "models"} /\ Sync(r, u, n, len).models = e
    BY <1>16
  <2>2. Fine(e)
    <3> HIDE DEF here, Fine
    <3> QED BY <1>12, <1>13, <1>16
  <2> HIDE DEF e
  <2> QED BY <2>1, <2>2 DEF ms
<1> QED BY <1>1, <1>15, <1>16

\* The first n names of a fetched list.
Following(ms, u, names, lens, i, r) ==
  IF i = 0 THEN [err |-> "none", models |-> Cleared(ms, u, FALSE)]
  ELSE IF KeptManual(ms, u, names[i]) THEN r
  ELSE Sync(r, u, names[i], lens[names[i]])

Syncs(ms, u, names, lens, n, g) ==
  g = [i \in 0 .. n |-> Following(ms, u, names, lens, i, g[i - 1])]

LEMMA SyncsExist ==
  ASSUME NEW ms, NEW u, NEW names, NEW lens, NEW n \in Nat
  PROVE  \E g : Syncs(ms, u, names, lens, n, g)
<1> DEFINE T == {m \in Nat : ~\E g : Syncs(ms, u, names, lens, m, g)}
           F(i, r) == Following(ms, u, names, lens, i, r)
<1> SUFFICES ASSUME T # {} PROVE FALSE
  OBVIOUS
<1>1. PICK m \in T : \A l \in T : m <= l
  <2>1. T \subseteq Nat
    OBVIOUS
  <2> HIDE DEF T
  <2> QED BY <2>1, LeastNat
<1>2. m \in Nat /\ ~\E g : Syncs(ms, u, names, lens, m, g)
  OBVIOUS
<1>0. \A r, q : F(0, r) = F(0, q)
  BY DEF Following
<1>3. CASE m = 0
  <2> DEFINE g == [i \in 0 .. 0 |-> F(0, 0)]
  <2>1. g = [i \in 0 .. 0 |-> F(i, g[i - 1])]
    <3>1. \A i \in 0 .. 0 : F(i, g[i - 1]) = F(0, 0)
      <4> HIDE DEF F
      <4> QED BY <1>0
    <3> HIDE DEF F
    <3> QED BY <3>1
  <2>2. Syncs(ms, u, names, lens, 0, g)
    BY <2>1 DEF Syncs
  <2> QED BY <1>2, <1>3, <2>2
<1>4. CASE m # 0
  <2>1. m - 1 \in Nat /\ m - 1 \notin T
    BY <1>1, <1>2, <1>4
  <2>2. PICK h : Syncs(ms, u, names, lens, m - 1, h)
    BY <2>1
  <2> DEFINE last == F(m, h[m - 1])
             g == [i \in 0 .. m |-> IF i = m THEN last ELSE h[i]]
  <2>3. \A i \in 0 .. m - 1 : h[i] = F(i, h[i - 1])
    BY <2>2, <2>1 DEF Syncs
  <2> HIDE DEF F
  <2>4. ASSUME NEW i \in 0 .. m PROVE g[i] = F(i, g[i - 1])
    <3>1. CASE i = m
      <4>1. g[i] = last /\ g[i - 1] = h[m - 1]
        BY <1>2, <1>4, <3>1
      <4> QED BY <3>1, <4>1
    <3>2. CASE i = 0
      <4>1. g[0] = h[0] /\ h[0] = F(0, h[0 - 1])
        BY <1>2, <1>4, <2>1, <2>3
      <4> QED BY <1>0, <3>2, <4>1
    <3>3. CASE i # m /\ i # 0
      <4>1. i \in 0 .. m - 1 /\ g[i] = h[i] /\ g[i - 1] = h[i - 1]
        BY <1>2, <3>3
      <4> QED BY <2>3, <3>3, <4>1
    <3> QED BY <3>1, <3>2, <3>3
  <2>5. Syncs(ms, u, names, lens, m, g)
    <3>1. g = [i \in 0 .. m |-> g[i]]
      OBVIOUS
    <3> HIDE DEF g
    <3> QED BY <2>4, <3>1 DEF Syncs, F
  <2> QED BY <1>2, <2>5
<1> QED BY <1>3, <1>4

\* A fetch keeps the manual models and those of other upstreams as they are; what else is
\* in the list afterwards is of the names that were fetched, each with the length given.
Fetched(ms, u, names, lens, e) ==
  /\ ModelTable(e)
  /\ \A k \in Active(ms) : (ms[k].up = u => ms[k].manual) => k \in Active(e) /\ e[k] = ms[k]
  /\ \A k \in Active(e) :
       \/ k \in Active(ms) /\ e[k] = ms[k]
       \/ e[k].up = u /\ \E i \in DOMAIN names : e[k].name = names[i] /\ e[k].len = lens[names[i]]

LEMMA SyncedTable ==
  ASSUME NEW ms, ModelTable(ms), NEW u, NEW names, IsList(names), NEW lens
  PROVE  Fetched(ms, u, names, lens, Synced(ms, u, names, lens).models)
<1> DEFINE L == Len(names)
           f == CHOOSE g : Syncs(ms, u, names, lens, L, g)
           Kept(e) == Fetched(ms, u, names, lens, e)
           Fine(n) == DOMAIN f[n] = {"err", "models"} /\ Kept(f[n].models)
           T == {n \in 0 .. L : ~Fine(n)}
<1>1. Synced(ms, u, names, lens) = f[L]
  BY DEF Synced, Syncs, Following
<1>2. L \in Nat /\ DOMAIN names = 1 .. L
  BY LongerList
<1>3. Syncs(ms, u, names, lens, L, f)
  BY <1>2, SyncsExist
<1> HIDE DEF f, L
<1>4. \A i \in 0 .. L : f[i] = Following(ms, u, names, lens, i, f[i - 1])
  BY <1>3 DEF Syncs
<1>5. Fine(0)
  <2> DEFINE e == Cleared(ms, u, FALSE)
  <2>1. 0 \in 0 .. L
    BY <1>2
  <2>2. f[0] = [err |-> "none", models |-> e]
    <3>1. f[0] = Following(ms, u, names, lens, 0, f[0 - 1])
      BY <1>4, <2>1, Zenon
    <3> QED BY <3>1, Zenon DEF Following
  <2>3. FALSE \in BOOLEAN
    OBVIOUS
  <2>4. /\ ModelTable(e)
        /\ \A k \in Active(e) : k \in Active(ms) /\ e[k] = ms[k]
        /\ \A k \in Active(ms) : (ms[k].up = u => ms[k].manual) => k \in Active(e)
    <3>1. /\ ModelTable(e)
          /\ \A k \in Active(e) : k \in Active(ms) /\ e[k] = ms[k]
          /\ \A k \in Active(ms) : Stays(ms[k], u, FALSE) => k \in Active(e)
      BY <2>3, ClearedTable
    <3> HIDE DEF e
    <3> QED BY <3>1 DEF Stays
  <2> HIDE DEF e
  <2>5. Kept(e)
    BY <2>4 DEF Fetched
  <2> HIDE DEF Kept
  <2> QED BY <2>2, <2>5
<1>6. ASSUME NEW n \in 1 .. L, Fine(n - 1) PROVE Fine(n)
  <2> DEFINE r == f[n - 1]
             q == Sync(r, u, names[n], lens[names[n]])
  <2>1. n \in 0 .. L /\ n # 0
    BY <1>2
  <2>2. f[n] = IF KeptManual(ms, u, names[n]) THEN r ELSE q
    <3>1. f[n] = Following(ms, u, names, lens, n, f[n - 1])
      BY <1>4, <2>1, Zenon
    <3> QED BY <2>1, <3>1, Zenon DEF Following
  <2>3. CASE f[n] = r
    BY <1>6, <2>3
  <2>4. CASE f[n] = q
    <3>1. DOMAIN r = {"err", "models"} /\ Kept(r.models)
      BY <1>6
    <3> HIDE DEF r
    <3>2. /\ DOMAIN q = {"err", "models"} /\ ModelTable(q.models)
          /\ \A k \in Active(r.models) : k \in Active(q.models) /\ q.models[k] = r.models[k]
          /\ \A k \in Active(q.models) :
               k \in Active(r.models)
               \/ (q.models[k].up = u /\ q.models[k].name = names[n] /\ q.models[k].len = lens[names[n]])
      BY <3>1, SyncTable DEF Fetched
    <3> HIDE DEF q
    <3>3. n \in DOMAIN names
      BY <1>2
    <3>4. Kept(q.models)
      BY <3>1, <3>2, <3>3 DEF Fetched
    <3> HIDE DEF Kept
    <3> QED BY <2>4, <3>2, <3>4
  <2> HIDE DEF r, q
  <2> QED BY <2>2, <2>3, <2>4
<1> HIDE DEF Fine
<1>7. ASSUME T # {} PROVE FALSE
  <2>1. PICK n \in T : \A l \in T : n <= l
    <3>1. T \subseteq Nat
      BY <1>2
    <3> HIDE DEF T
    <3> QED BY <1>7, <3>1, LeastNat
  <2>2. n \in 0 .. L /\ ~Fine(n)
    OBVIOUS
  <2>3. n # 0
    BY <1>5, <2>2
  <2>4. n \in 1 .. L /\ n - 1 \in 0 .. L /\ ~(n <= n - 1)
    BY <1>2, <2>2, <2>3
  <2>5. Fine(n - 1)
    BY <2>1, <2>4
  <2> QED BY <1>6, <2>2, <2>4, <2>5
<1>8. Fine(L)
  <2>1. L \in 0 .. L
    BY <1>2
  <2> QED BY <1>7, <2>1
<1> QED BY <1>1, <1>8 DEF Fine

\* Rows that keep their upstream and their name, and of which some leave the list.
LEMMA ShrunkTable ==
  ASSUME NEW ms, ModelTable(ms), NEW t, t = [k \in DOMAIN ms |-> t[k]],
         \A k \in DOMAIN ms : IsModel(t[k]),
         \A k \in Active(t) : k \in Active(ms) /\ t[k].up = ms[k].up /\ t[k].name = ms[k].name
  PROVE  ModelTable(t)
<1>1. IsList(t) /\ DOMAIN t = DOMAIN ms
  BY MappedList DEF ModelTable
<1>2. OneListed(t)
  BY DEF ModelTable, OneListed
<1> QED BY <1>1, <1>2 DEF ModelTable

\* A row with another length, or out of the list.
LEMMA RowChanges ==
  ASSUME NEW m, IsModel(m), NEW len, NEW b \in BOOLEAN
  PROVE  /\ IsModel([m EXCEPT !.len = len]) /\ IsModel([m EXCEPT !.active = b])
         /\ [m EXCEPT !.len = len].active = m.active /\ [m EXCEPT !.active = b].active = b
         /\ [m EXCEPT !.len = len].up = m.up /\ [m EXCEPT !.len = len].name = m.name
         /\ [m EXCEPT !.active = b].up = m.up /\ [m EXCEPT !.active = b].name = m.name
<1> DEFINE C == {"up", "name", "manual", "len", "active"}
           x == [m EXCEPT !.len = len]
           y == [m EXCEPT !.active = b]
<1>1. m = [c \in C |-> m[c]] /\ m.active \in BOOLEAN
  BY DEF IsModel
<1>2. "up" \in C /\ "name" \in C /\ "len" \in C /\ "active" \in C
  OBVIOUS
<1> HIDE DEF C
<1>3. /\ x = [c \in C |-> x[c]] /\ y = [c \in C |-> y[c]]
      /\ x.active = m.active /\ y.active = b /\ x.up = m.up /\ y.up = m.up
      /\ x.name = m.name /\ y.name = m.name
  BY <1>1, <1>2
<1> HIDE DEF x, y
<1>4. IsModel(x) /\ IsModel(y)
  BY <1>1, <1>3 DEF IsModel, C
<1> QED BY <1>3, <1>4 DEF x, y

LEMMA LenChanges ==
  ASSUME NEW m, IsModel(m), NEW len
  PROVE  /\ IsModel([m EXCEPT !.len = len])
         /\ [m EXCEPT !.len = len].up = m.up /\ [m EXCEPT !.len = len].name = m.name
<1>1. TRUE \in BOOLEAN
  OBVIOUS
<1> QED BY <1>1, RowChanges

LEMMA ActiveChanges ==
  ASSUME NEW m, IsModel(m), NEW b \in BOOLEAN
  PROVE  /\ IsModel([m EXCEPT !.active = b]) /\ [m EXCEPT !.active = b].active = b
         /\ [m EXCEPT !.active = b].up = m.up /\ [m EXCEPT !.active = b].name = m.name
BY RowChanges

\* What the administrators do to models keeps the table in order.
LEMMA ModelWrites ==
  ASSUME NEW d, Good(d), ModelTable(d.models), NEW u, NEW m, NEW k, NEW len
  PROVE  /\ ModelTable(AddModel(d, u, m).db.models)
         /\ ModelTable(UpdateModel(d, u, k, len).db.models)
         /\ ModelTable(DeleteModel(d, u, k).db.models)
<1>0. "models" \in DOMAIN d
  BY DEF Good, Tables
<1>1. \A t : [d EXCEPT !.models = t].models = t
  BY <1>0
<1>2. ModelTable(AddModel(d, u, m).db.models)
  <2>1. CASE Listed(d.models, u, m.name) # {}
    BY <2>1 DEF AddModel, Refused
  <2>2. CASE Listed(d.models, u, m.name) = {}
    <3>1. ModelTable(Revive(d.models, u, m))
      BY <2>2, ReviveTable
    <3>2. AddModel(d, u, m).db = [d EXCEPT !.models = Revive(d.models, u, m)]
      BY <2>2 DEF AddModel, Done
    <3> QED BY <1>1, <3>1, <3>2
  <2> QED BY <2>1, <2>2
<1>3. ASSUME NEW row, k \in Active(d.models), IsModel(row),
             row.up = d.models[k].up, row.name = d.models[k].name
      PROVE  ModelTable([d.models EXCEPT ![k] = row])
  <2> DEFINE t == [d.models EXCEPT ![k] = row]
  <2>1. t = [i \in DOMAIN d.models |-> t[i]] /\ \A i \in DOMAIN d.models : t[i] = IF i = k THEN row ELSE d.models[i]
    OBVIOUS
  <2>2. DOMAIN t = DOMAIN d.models
    OBVIOUS
  <2> HIDE DEF t
  <2>3. \A i \in DOMAIN d.models : IsModel(t[i])
    BY <1>3, <2>1 DEF ModelTable
  <2>4. \A i \in Active(t) : i \in Active(d.models) /\ t[i].up = d.models[i].up /\ t[i].name = d.models[i].name
    BY <1>3, <2>1, <2>2 DEF Active
  <2>5. ModelTable(t)
    BY <2>1, <2>3, <2>4, ShrunkTable
  <2> QED BY <2>5 DEF t
<1>4. k \in Active(d.models) => IsModel(d.models[k])
  BY DEF ModelTable, Active
<1>5. ModelTable(UpdateModel(d, u, k, len).db.models)
  <2> DEFINE row == [d.models[k] EXCEPT !.len = Configured(len)]
  <2>1. CASE UpdateModel(d, u, k, len).db = d
    BY <2>1
  <2>2. CASE k \in Active(d.models) /\ UpdateModel(d, u, k, len).db = [d EXCEPT !.models[k].len = Configured(len)]
    <3>1. UpdateModel(d, u, k, len).db = [d EXCEPT !.models = [d.models EXCEPT ![k] = row]]
      BY <1>0, <2>2
    <3>2. IsModel(row) /\ row.up = d.models[k].up /\ row.name = d.models[k].name
      BY <1>4, <2>2, LenChanges
    <3> HIDE DEF row
    <3>3. ModelTable([d.models EXCEPT ![k] = row])
      BY <1>3, <2>2, <3>2
    <3> QED BY <1>1, <3>1, <3>3
  <2> QED BY <2>1, <2>2 DEF UpdateModel, Done, Refused
<1>6. ModelTable(DeleteModel(d, u, k).db.models)
  <2> DEFINE row == [d.models[k] EXCEPT !.active = FALSE]
  <2>1. CASE DeleteModel(d, u, k).db = d
    BY <2>1
  <2>2. CASE k \in Active(d.models) /\ DeleteModel(d, u, k).db = [d EXCEPT !.models[k].active = FALSE]
    <3>1. DeleteModel(d, u, k).db = [d EXCEPT !.models = [d.models EXCEPT ![k] = row]]
      BY <1>0, <2>2
    <3>2. IsModel(row) /\ row.up = d.models[k].up /\ row.name = d.models[k].name
      <4>1. FALSE \in BOOLEAN
        OBVIOUS
      <4> QED BY <1>4, <2>2, <4>1, ActiveChanges
    <3> HIDE DEF row
    <3>3. ModelTable([d.models EXCEPT ![k] = row])
      BY <1>3, <2>2, <3>2
    <3> QED BY <1>1, <3>1, <3>3
  <2> QED BY <2>1, <2>2 DEF DeleteModel, Done, Refused
<1> QED BY <1>2, <1>5, <1>6

LEMMA DeleteUpstreamModels ==
  ASSUME NEW d, Good(d), ModelTable(d.models), NEW i
  PROVE  ModelTable(DeleteUpstream(d, i).models)
<1> DEFINE ms == d.models
           b(k) == ms[k].active /\ ms[k].up # i
           t == [k \in DOMAIN ms |-> [ms[k] EXCEPT !.active = b(k)]]
<1>1. DeleteUpstream(d, i).models = t
  BY DEF DeleteUpstream, Good, Tables
<1>2. ASSUME NEW k \in DOMAIN ms
      PROVE  /\ IsModel(t[k]) /\ t[k].up = ms[k].up /\ t[k].name = ms[k].name
             /\ t[k].active => ms[k].active
  <2>1. IsModel(ms[k])
    BY DEF ModelTable
  <2>4. b(k) \in BOOLEAN
    OBVIOUS
  <2>5. PICK v \in BOOLEAN : v = b(k)
    BY <2>4
  <2>6. t[k] = [ms[k] EXCEPT !.active = v] /\ (v => ms[k].active)
    BY <2>5
  <2> DEFINE x == [ms[k] EXCEPT !.active = v]
  <2>7. t[k] = x
    BY <2>6
  <2>8. IsModel(x) /\ x.active = v /\ x.up = ms[k].up /\ x.name = ms[k].name
    <3> HIDE DEF ms
    <3> QED BY <2>1, ActiveChanges
  <2> HIDE DEF t, b, x
  <2> QED BY <2>6, <2>7, <2>8
<1>3. DOMAIN t = DOMAIN ms /\ t = [k \in DOMAIN ms |-> t[k]]
  OBVIOUS
<1> HIDE DEF t
<1>4. \A k \in Active(t) : k \in Active(ms) /\ t[k].up = ms[k].up /\ t[k].name = ms[k].name
  BY <1>2, <1>3 DEF Active
<1> QED BY <1>1, <1>2, <1>3, <1>4, ShrunkTable

\* What a fetch promises of the tables before and after it.
Preserves(before, after) ==
  \A k \in Active(before) :
    /\ before[k].manual => after[k] = before[k]
    /\ \A j \in Listed(after, before[k].up, before[k].name) : after[j].len = before[k].len

LEMMA FetchPreserves ==
  ASSUME NEW d, Good(d), ModelTable(d.models), NEW u, NEW names, IsList(names)
  PROVE  LET e == ReplaceModels(d, u, names).db IN
         ModelTable(e.models) /\ Preserves(d.models, e.models)
<1> DEFINE ms == d.models
           lens == [n \in ToSet(names) |-> Snapshot(ms, u, n)]
           r == Synced(ms, u, names, lens)
           t == r.models
<1>1. \/ ReplaceModels(d, u, names).db = d
      \/ ReplaceModels(d, u, names).db = [d EXCEPT !.models = t]
  BY DEF ReplaceModels, Done, Refused
<1>2. Preserves(ms, ms)
  <2> SUFFICES ASSUME NEW k \in Active(ms), NEW j \in Listed(ms, ms[k].up, ms[k].name)
               PROVE  ms[j].len = ms[k].len
    BY DEF Preserves
  <2> QED BY DEF Listed, RowsOf, Active, ModelTable, OneListed
<1>3. ASSUME NEW k \in Active(ms), ms[k].up = u, ms[k].name \in ToSet(names)
      PROVE  lens[ms[k].name] = ms[k].len
  <2> DEFINE n == ms[k].name
  <2>1. Listed(ms, u, n) = {k}
    BY <1>3 DEF Listed, RowsOf, Active, ModelTable, OneListed
  <2>2. k \in Nat
    <3>1. PICK N \in Nat : ms = [i \in 1 .. N |-> ms[i]]
      BY ListIs DEF ModelTable
    <3>2. DOMAIN ms = 1 .. N
      BY <3>1
    <3> QED BY <3>2 DEF Active
  <2>3. Max({k}) = k
    BY <2>2 DEF Max
  <2>4. Snapshot(ms, u, n) = ms[k].len
    BY <2>1, <2>3 DEF Snapshot
  <2> QED BY <1>3, <2>4
<1> HIDE DEF lens
<1>4. Fetched(ms, u, names, lens, t)
  BY SyncedTable
<1> HIDE DEF r
<1>5. Preserves(ms, t)
  <2> SUFFICES ASSUME NEW k \in Active(ms)
               PROVE  /\ ms[k].manual => t[k] = ms[k]
                      /\ \A j \in Listed(t, ms[k].up, ms[k].name) : t[j].len = ms[k].len
    BY DEF Preserves
  <2>1. ms[k].manual => t[k] = ms[k]
    BY <1>4 DEF Fetched
  <2>2. ASSUME NEW j \in Listed(t, ms[k].up, ms[k].name) PROVE t[j].len = ms[k].len
    <3>1. j \in Active(t) /\ t[j].up = ms[k].up /\ t[j].name = ms[k].name
      BY DEF Listed, RowsOf, Active
    <3>2. CASE j \in Active(ms) /\ t[j] = ms[j]
      BY <3>1, <3>2 DEF ModelTable, OneListed
    <3>3. CASE t[j].up = u /\ \E i \in DOMAIN names : t[j].name = names[i] /\ t[j].len = lens[names[i]]
      <4>1. ms[k].up = u /\ ms[k].name \in ToSet(names)
        BY <3>1, <3>3 DEF ToSet
      <4> QED BY <1>3, <3>1, <3>3, <4>1
    <3> QED BY <1>4, <3>1, <3>2, <3>3 DEF Fetched
  <2> QED BY <2>1, <2>2
<1>6. "models" \in DOMAIN d
  BY DEF Good, Tables
<1> QED BY <1>1, <1>2, <1>4, <1>5, <1>6 DEF Fetched

\* The steps of an import, entry by entry.
LEMMA Flattened ==
  ASSUME NEW X, NEW n \in Nat, NEW seqs, seqs = [i \in 1 .. n |-> seqs[i]],
         \A i \in 1 .. n : seqs[i] \in Seq(X)
  PROVE  FlattenSeq(seqs) \in Seq(X)
<1> DEFINE f == CHOOSE g : Flattens(seqs, n, g)
           T == {m \in 1 .. n : f[m] \notin Seq(X)}
<1>1. Len(seqs) = n
  <2>1. seqs \in [1 .. n -> Seq(X)]
    OBVIOUS
  <2>2. seqs \in Seq(Seq(X))
    BY <2>1, SeqDef
  <2>3. DOMAIN seqs = 1 .. Len(seqs) /\ Len(seqs) \in Nat
    BY <2>2, LenProperties
  <2>4. DOMAIN seqs = 1 .. n
    BY <2>1
  <2> QED BY <2>3, <2>4
<1>2. CASE n = 0
  BY <1>1, <1>2 DEF FlattenSeq
<1>3. CASE n # 0
  <2>1. FlattenSeq(seqs) = f[n]
    BY <1>1, <1>3 DEF FlattenSeq, Flattens
  <2>2. Flattens(seqs, n, f)
    BY FlattensExist
  <2> HIDE DEF f
  <2>3. \A i \in 1 .. n : f[i] = IF i = 1 THEN seqs[i] ELSE f[i - 1] \o seqs[i]
    BY <2>2 DEF Flattens
  <2>4. ASSUME T # {} PROVE FALSE
    <3>1. PICK m \in T : \A l \in T : m <= l
      <4>1. T \subseteq Nat
        OBVIOUS
      <4> HIDE DEF T
      <4> QED BY <2>4, <4>1, LeastNat
    <3>2. m \in 1 .. n /\ f[m] \notin Seq(X) /\ seqs[m] \in Seq(X)
      OBVIOUS
    <3>3. m # 1
      BY <2>3, <3>2
    <3>4. m - 1 \in 1 .. n /\ ~(m <= m - 1)
      BY <3>2, <3>3
    <3>5. f[m - 1] \in Seq(X)
      BY <3>1, <3>4
    <3>6. f[m] = f[m - 1] \o seqs[m]
      BY <2>3, <3>2, <3>3
    <3>7. f[m - 1] \o seqs[m] \in Seq(X)
      BY <3>2, <3>5, ConcatProperties
    <3> QED BY <3>2, <3>6, <3>7
  <2>5. n \in 1 .. n
    BY <1>3
  <2>6. f[n] \in Seq(X)
    BY <2>4, <2>5
  <2> QED BY <2>1, <2>6
<1> QED BY <1>2, <1>3

\* A step of the import of a file: a row, models that are given, or an alias.
IsStep(f, step) ==
  \/ step.do = "row"
  \/ step.do = "models" /\ step.n \in DOMAIN f.ups /\ f.ups[step.n].models # Absent
  \/ step.do = "alias"

LEMMA StepsAre ==
  ASSUME NEW f, IsFile(f)
  PROVE  /\ Len(Steps(f)) \in Nat /\ (Steps(f) # <<>> => Len(Steps(f)) # 0)
         /\ \A k \in 1 .. Len(Steps(f)) : IsStep(f, Steps(f)[k])
<1> DEFINE rows == {[do |-> "row", n |-> i] : i \in DOMAIN f.ups}
           given == {i \in DOMAIN f.ups : f.ups[i].models # Absent}
           models == {[do |-> "models", n |-> i] : i \in given}
           aliases == {[do |-> "alias", n |-> j] : j \in DOMAIN f.aliases}
           X == rows \union models \union aliases
           entry(i) == <<[do |-> "row", n |-> i]>> \o
                       (IF f.ups[i].models = Absent THEN <<>> ELSE <<[do |-> "models", n |-> i]>>)
           seqs == [i \in DOMAIN f.ups |-> entry(i)]
           last == [j \in DOMAIN f.aliases |-> [do |-> "alias", n |-> j]]
<1>1. PICK n \in Nat : DOMAIN f.ups = 1 .. n
  <2>1. PICK n \in Nat : f.ups = [i \in 1 .. n |-> f.ups[i]]
    BY ListIs DEF IsFile
  <2> QED BY <2>1
<1>2. PICK m \in Nat : DOMAIN f.aliases = 1 .. m
  <2>1. PICK m \in Nat : f.aliases = [i \in 1 .. m |-> f.aliases[i]]
    BY ListIs DEF IsFile
  <2> QED BY <2>1
<1>3. ASSUME NEW i \in 1 .. n PROVE entry(i) \in Seq(X)
  <2> DEFINE a == <<[do |-> "row", n |-> i]>>
             b == IF f.ups[i].models = Absent THEN <<>> ELSE <<[do |-> "models", n |-> i]>>
  <2>1. [do |-> "row", n |-> i] \in X
    BY <1>1
  <2>2. f.ups[i].models # Absent => [do |-> "models", n |-> i] \in X
    BY <1>1
  <2> HIDE DEF X
  <2>3. a \in Seq(X)
    BY <2>1
  <2>4. b \in Seq(X)
    <3>1. CASE f.ups[i].models = Absent
      BY <3>1
    <3>2. CASE f.ups[i].models # Absent
      BY <2>2, <3>2
    <3> QED BY <3>1, <3>2
  <2> HIDE DEF a, b
  <2>5. a \o b \in Seq(X)
    BY <2>3, <2>4, ConcatProperties
  <2> QED BY <2>5 DEF a, b
<1>4. FlattenSeq(seqs) \in Seq(X)
  <2>1. \A i \in 1 .. n : seqs[i] \in Seq(X)
    <3> HIDE DEF X, entry
    <3> QED BY <1>1, <1>3
  <2>2. seqs = [i \in 1 .. n |-> seqs[i]]
    <3> HIDE DEF entry
    <3> QED BY <1>1
  <2> HIDE DEF seqs, X
  <2> QED BY <2>1, <2>2, Flattened
<1>5. last \in Seq(X)
  <2>1. \A j \in 1 .. m : last[j] \in X
    BY <1>2
  <2>2. last = [j \in 1 .. m |-> last[j]]
    BY <1>2
  <2> HIDE DEF last, X
  <2>3. last \in [1 .. m -> X]
    BY <2>1, <2>2
  <2> QED BY <2>3, SeqDef
<1>6. Steps(f) = FlattenSeq(seqs) \o last
  BY DEF Steps
<1> HIDE DEF seqs, last
<1>7. Steps(f) \in Seq(X)
  <2> HIDE DEF X
  <2> QED BY <1>4, <1>5, <1>6, ConcatProperties
<1>8. ASSUME NEW step \in X PROVE IsStep(f, step)
  <2>1. CASE step \in rows
    BY <2>1 DEF IsStep
  <2>2. CASE step \in models
    BY <2>2 DEF IsStep
  <2>3. CASE step \in aliases
    BY <2>3 DEF IsStep
  <2> QED BY <2>1, <2>2, <2>3
<1> HIDE DEF X
<1>9. \A k \in 1 .. Len(Steps(f)) : Steps(f)[k] \in X
  BY <1>7, ElementOfSeq
<1>10. Len(Steps(f)) \in Nat /\ (Steps(f) # <<>> => Len(Steps(f)) # 0)
  BY <1>7, LenProperties, EmptySeq
<1> QED BY <1>8, <1>9, <1>10

\* The other writes leave the models alone.
LEMMA ModelsUntouched ==
  ASSUME NEW d, Good(d), NEW u, NEW i, NEW name, NEW bind, NEW enabled
  PROVE  /\ CreateUpstream(d, u).db.models = d.models
         /\ UpdateUpstream(d, i, u).db.models = d.models
         /\ CreateAlias(d, name, bind).db.models = d.models
         /\ UpdateAlias(d, i, name, bind).db.models = d.models
         /\ DeleteAlias(d, i).models = d.models
         /\ CreateExtKey(d, name).db.models = d.models
         /\ UpdateExtKey(d, i, name, enabled).db.models = d.models
         /\ DeleteExtKey(d, i).models = d.models
<1>0. DOMAIN d = {"ups", "models", "aliases", "keys"}
  BY DEF Good, Tables
<1>1. CreateUpstream(d, u).db.models = d.models /\ UpdateUpstream(d, i, u).db.models = d.models
  BY <1>0 DEF CreateUpstream, UpdateUpstream, Done, Refused
<1>2. CreateAlias(d, name, bind).db.models = d.models /\ UpdateAlias(d, i, name, bind).db.models = d.models
  BY <1>0 DEF CreateAlias, UpdateAlias, Done, Refused
<1>3. DeleteAlias(d, i).models = d.models /\ DeleteExtKey(d, i).models = d.models
  BY <1>0 DEF DeleteAlias, DeleteExtKey
<1>4. CreateExtKey(d, name).db.models = d.models /\ UpdateExtKey(d, i, name, enabled).db.models = d.models
  BY <1>0 DEF CreateExtKey, UpdateExtKey, Done, Refused
<1> QED BY <1>1, <1>2, <1>3, <1>4

\* A part of an import keeps the models in order: a file that was accepted lists none twice.
LEMMA ApplyStepModels ==
  ASSUME NEW p, DOMAIN p = {"db", "id", "err"}, Good(p.db), ModelTable(p.db.models),
         NEW f, ValidFile(f), NEW targets, NEW step, IsStep(f, step)
  PROVE  ModelTable(ApplyStep(p, f, targets, step).db.models)
<1>1. ASSUME NEW e, NEW t PROVE ModelTable(ApplyUpstream(p, e, t).db.models)
  <2>1. \E i, u : ApplyUpstream(p, e, t).db \in {CreateUpstream(p.db, u).db, UpdateUpstream(p.db, i, u).db}
    BY DEF ApplyUpstream
  <2> QED BY <2>1, ModelsUntouched
<1>2. ASSUME step.do = "models" PROVE ModelTable(ApplyModels(p, f.ups[step.n]).db.models)
  <2> DEFINE list == f.ups[step.n].models
  <2>1. IsList(list) /\ Distinct(list)
    BY <1>2 DEF IsStep, ValidFile, IsFile
  <2>2. ApplyModels(p, f.ups[step.n]).db = ReplaceModelsExact(p.db, p.id, list)
    BY DEF ApplyModels
  <2> HIDE DEF list
  <2> QED BY <2>1, <2>2, ReplaceExactTable
<1>3. ASSUME NEW al PROVE ModelTable(ApplyAlias(p, al).db.models)
  <2>1. \E name, bind, k :
          ApplyAlias(p, al).db \in {p.db, CreateAlias(p.db, name, bind).db,
                                   UpdateAlias(p.db, k, name, bind).db}
    BY DEF ApplyAlias
  <2> QED BY <2>1, ModelsUntouched
<1> QED BY <1>1, <1>2, <1>3 DEF ApplyStep

\* The import in the writer is of a file that was accepted, and is at one of its steps.
Importing ==
  import # NoImport =>
    /\ DOMAIN import = {"by", "file", "targets", "id", "at"}
    /\ ValidFile(import.file) /\ import.at \in 1 .. Len(Steps(import.file))

InOrder == ModelTable(db.models) /\ Importing

LEMMA InitInOrder == Init => InOrder
BY StartAssumption DEF Init, InOrder, Importing, ModelTable, IsDatabase

\* A closure of the writer.
LEMMA WriteInOrder ==
  ASSUME NEW r, ModelTable(r.db.models), Write(r)
  PROVE  InOrder'
BY DEF Write, Free, InOrder, Importing

\* Every handler, and every part of an import, keeps the models in order.
LEMMA StepInOrder == Inv /\ InOrder /\ [Next]_vars => InOrder'
<1> SUFFICES ASSUME Inv, InOrder, [Next]_vars PROVE InOrder'
  OBVIOUS
<1>0. Good(db) /\ ModelTable(db.models)
  BY DEF Inv, InOrder
<1>1. ASSUME NEW a \in Admins, NEW n \in UpNames, NEW f \in Formats,
             NEW e \in BOOLEAN, NEW fetch \in BOOLEAN, CreateUp(a, n, f, e, fetch)
      PROVE  InOrder'
  <2> DEFINE u == [name |-> n, format |-> f, extra |-> {}, enabled |-> e, active |-> TRUE]
  <2>1. Write(CreateUpstream(db, u))
    BY <1>1 DEF CreateUp
  <2> HIDE DEF u
  <2> QED BY <1>0, <2>1, ModelsUntouched, WriteInOrder
<1>2. ASSUME NEW i \in DOMAIN db.ups, NEW p \in Patches, UpdateUp(i, p)
      PROVE  InOrder'
  <2> DEFINE u == MergePatch(db.ups[i], p)
  <2>1. Write(UpdateUpstream(db, i, u))
    BY <1>2 DEF UpdateUp, Run
  <2> HIDE DEF u
  <2> QED BY <1>0, <2>1, ModelsUntouched, WriteInOrder
<1>3. ASSUME NEW i \in DOMAIN db.ups, DeleteUp(i)
      PROVE  InOrder'
  BY <1>0, <1>3, DeleteUpstreamModels, WriteInOrder DEF DeleteUp, Run, Done
<1>4. ASSUME NEW a \in Admins, NEW names \in VendorLists, EndFetch(a, names)
      PROVE  InOrder'
  <2>1. IsList(names)
    BY AdminAssumption
  <2>2. ModelTable(ReplaceModels(db, req[a].up, names).db.models)
    BY <1>0, <2>1, FetchPreserves
  <2> QED BY <1>4, <2>2, WriteInOrder DEF EndFetch, End
<1>5. ASSUME NEW i \in DOMAIN db.ups, NEW n \in ModelNames, NEW len \in Lens, AddMod(i, n, len)
      PROVE  InOrder'
  BY <1>0, <1>5, ModelWrites, WriteInOrder DEF AddMod, Run
<1>6. ASSUME NEW i \in DOMAIN db.ups, NEW k \in DOMAIN db.models, NEW len \in Lens,
             UpdateMod(i, k, len)
      PROVE  InOrder'
  BY <1>0, <1>6, ModelWrites, WriteInOrder DEF UpdateMod, Run
<1>7. ASSUME NEW i \in DOMAIN db.ups, NEW k \in DOMAIN db.models, DeleteMod(i, k)
      PROVE  InOrder'
  BY <1>0, <1>7, ModelWrites, WriteInOrder DEF DeleteMod, Run
<1>8. ASSUME NEW a \in Admins, EndAlias(a)
      PROVE  InOrder'
  BY <1>0, <1>8, ModelsUntouched, WriteInOrder DEF EndAlias, End
<1>9. ASSUME NEW k \in DOMAIN db.aliases, DeleteAl(k)
      PROVE  InOrder'
  BY <1>0, <1>9, ModelsUntouched, WriteInOrder DEF DeleteAl, Run, Done
<1>10. ASSUME NEW label \in Labels, CreateKey(label)
       PROVE  InOrder'
  BY <1>0, <1>10, ModelsUntouched, WriteInOrder DEF CreateKey, Run
<1>11. ASSUME NEW a \in Admins, EndUpdateKey(a)
       PROVE  InOrder'
  BY <1>0, <1>11, ModelsUntouched, WriteInOrder DEF EndUpdateKey, End
<1>12. ASSUME NEW k \in DOMAIN db.keys, DeleteKey(k)
       PROVE  InOrder'
  BY <1>0, <1>12, ModelsUntouched, WriteInOrder DEF DeleteKey, Run, Done
<1>13. ASSUME ImportStep
       PROVE  InOrder'
  <2> DEFINE f == import.file
             p == [db |-> db, id |-> import.id, err |-> "none"]
             step == Steps(f)[import.at]
             q == ApplyStep(p, f, import.targets, step)
             last == import.at = Len(Steps(f)) \/ q.err # "none"
  <2>1. /\ DOMAIN import = {"by", "file", "targets", "id", "at"}
        /\ ValidFile(f) /\ import.at \in 1 .. Len(Steps(f))
    BY <1>13 DEF ImportStep, Free, InOrder, Importing
  <2>2. Len(Steps(f)) \in Nat /\ IsStep(f, step)
    BY <2>1, StepsAre DEF ValidFile
  <2>3. db' = q.db /\ import' = IF last THEN NoImport ELSE [import EXCEPT !.id = q.id, !.at = @ + 1]
    BY <1>13 DEF ImportStep
  <2>4. ModelTable(q.db.models)
    <3>1. DOMAIN p = {"db", "id", "err"} /\ Good(p.db) /\ ModelTable(p.db.models)
      BY <1>0
    <3> HIDE DEF p
    <3> QED BY <2>1, <2>2, <3>1, ApplyStepModels
  <2>5. Importing'
    <3>1. CASE last
      BY <2>3, <3>1 DEF Importing
    <3>2. CASE ~last
      <4>1. /\ DOMAIN import' = DOMAIN import /\ import'.file = f /\ import'.at = import.at + 1
        BY <2>1, <2>3, <3>2
      <4>2. import.at + 1 \in 1 .. Len(Steps(f))
        BY <2>1, <2>2, <3>2
      <4> HIDE DEF f
      <4> QED BY <2>1, <4>1, <4>2 DEF Importing
    <3> HIDE DEF last
    <3> QED BY <3>1, <3>2
  <2> QED BY <2>3, <2>4, <2>5 DEF InOrder
<1>14. ASSUME NEW a \in Admins, NEW f \in Files \union ({saved} \ {Absent}), BeginImport(a, f)
       PROVE  InOrder'
  <2>1. /\ ValidFile(f) /\ Steps(f) # <<>> /\ db' = db
        /\ import' = [by |-> a, file |-> f, targets |-> Targets(db, f), id |-> 0, at |-> 1]
    BY <1>14 DEF BeginImport
  <2>2. 1 \in 1 .. Len(Steps(f))
    BY <2>1, StepsAre DEF ValidFile
  <2> QED BY <1>0, <2>1, <2>2 DEF InOrder, Importing
\* What begins, fails or exports writes nothing.
<1>15. ASSUME db' = db, import' = import \/ import' = NoImport PROVE InOrder'
  BY <1>0, <1>15 DEF InOrder, Importing
<1>16. ASSUME NEW a \in Admins,
              \/ \E i \in DOMAIN db.ups : BeginFetch(a, i)
              \/ FetchFails(a)
              \/ \E n \in AliasNames, bind \in Bindings : BeginCreateAlias(a, n, bind)
              \/ \E k \in DOMAIN db.aliases, n \in AliasNames \union {Absent},
                    bind \in Bindings \union {Absent} : BeginUpdateAlias(a, k, n, bind)
              \/ \E k \in DOMAIN db.keys, label \in Labels \union {Absent},
                    e \in BOOLEAN \union {Absent} : BeginUpdateKey(a, k, label, e)
              \/ ExportUps(a) \/ ExportAliases(a) \/ ExportModels(a)
       PROVE  db' = db /\ import' = import
  BY <1>16 DEF BeginFetch, FetchFails, BeginCreateAlias, BeginUpdateAlias, BeginUpdateKey,
       ExportUps, ExportAliases, ExportModels, Begin
<1>17. CASE ImportFails
  BY <1>15, <1>17 DEF ImportFails
<1>18. CASE UNCHANGED vars
  BY <1>15, <1>18 DEF vars
<1> HIDE DEF InOrder
<1>19. ASSUME NEW a \in Admins, NEW i \in DOMAIN db.ups, BeginFetch(a, i) PROVE InOrder'
  BY <1>15, <1>16, <1>19
<1>20. ASSUME NEW a \in Admins, FetchFails(a) \/ ExportUps(a) \/ ExportAliases(a) \/ ExportModels(a)
       PROVE  InOrder'
  BY <1>15, <1>16, <1>20
<1>21. ASSUME NEW a \in Admins, NEW n \in AliasNames, NEW bind \in Bindings, BeginCreateAlias(a, n, bind)
       PROVE  InOrder'
  BY <1>15, <1>16, <1>21
<1>22. ASSUME NEW a \in Admins, NEW k \in DOMAIN db.aliases, NEW n \in AliasNames \union {Absent},
              NEW bind \in Bindings \union {Absent}, BeginUpdateAlias(a, k, n, bind)
       PROVE  InOrder'
  BY <1>15, <1>16, <1>22
<1>23. ASSUME NEW a \in Admins, NEW k \in DOMAIN db.keys, NEW label \in Labels \union {Absent},
              NEW e \in BOOLEAN \union {Absent}, BeginUpdateKey(a, k, label, e)
       PROVE  InOrder'
  BY <1>15, <1>16, <1>23
<1> QED BY <1>1, <1>2, <1>3, <1>4, <1>5, <1>6, <1>7, <1>8, <1>9, <1>10, <1>11, <1>12, <1>13, <1>14,
           <1>17, <1>18, <1>19, <1>20, <1>21, <1>22, <1>23, ZenonT(60) DEF Next

\* Both parts of the invariant.
LEMMA Ordered == Spec => [](Inv /\ InOrder)
BY InitInv, StepInv, InitInOrder, StepInOrder, PTL DEF Spec

\* In the list of an upstream no name is there twice, whoever adds, fetches or imports
\* models meanwhile: only a fetch can come to the unique index, which then refuses all of
\* it (store/upstream.go:407-409).
THEOREM ModelsListedOnce == Spec => [](OneListed(db.models))
<1>1. InOrder => OneListed(db.models)
  BY DEF InOrder, ModelTable
<1> QED BY <1>1, Ordered, PTL

\* A fetch keeps what the administrators have configured, with whatever list it ends and
\* however old the row is that it began with.
THEOREM SyncKeepsConfigAlways == Spec => SyncKeepsConfig
<1>1. ASSUME Inv /\ InOrder, NEW a \in Admins, NEW names \in VendorLists, EndFetch(a, names)
      PROVE  Preserves(db.models, db'.models)
  <2>1. IsList(names) /\ Good(db) /\ ModelTable(db.models)
    BY <1>1, AdminAssumption DEF Inv, InOrder
  <2>2. db' = ReplaceModels(db, req[a].up, names).db
    BY <1>1 DEF EndFetch, End, Write
  <2> QED BY <2>1, <2>2, FetchPreserves
<1>2. Inv /\ InOrder =>
        ((\E a \in Admins, names \in VendorLists : EndFetch(a, names)) =>
           \A k \in Active(db.models) :
             /\ db.models[k].manual => db'.models[k] = db.models[k]
             /\ \A j \in Listed(db'.models, db.models[k].up, db.models[k].name) :
                  db'.models[j].len = db.models[k].len)
  BY <1>1 DEF Preserves
<1> QED BY <1>2, Ordered, PTL DEF SyncKeepsConfig
=============================================================================
