----------------------------- MODULE MCLifetime -----------------------------
(* Lifetime for TLC: four tables that between them need every statement of  *)
(* a start, and the databases that releases have left.                      *)
EXTENDS Lifetime

Idx(n, kind, on) == [name |-> n, kind |-> kind, on |-> on]
MCSchema == <<
  [name |-> "upstreams", cols |-> <<"name", "is_active", "tag">>, late |-> {"is_active", "tag"}, idx |-> <<>>, only |-> "all"],
  [name |-> "ext_keys", cols |-> <<"key", "label", "is_active">>, late |-> {"is_active"}, only |-> "all",
   idx |-> <<Idx("idx_ext_keys_key", "unique", {"key", "is_active"}), Idx("idx_ext_keys_label", "tolerant", {"label", "is_active"})>>],
  [name |-> "usage_records", cols |-> <<"model", "error_code">>, late |-> {"error_code"}, only |-> "all",
   idx |-> <<Idx("idx_usage_model", "plain", {"model"})>>],
  [name |-> "id_sequences", cols |-> <<"next_id">>, late |-> {}, idx |-> <<>>, only |-> "mysql"]>>
MCLegacy == <<<<"upstreams", "check">>, <<"usage_records", "refs">>, <<"conversation_records", "refs">>, <<"upstreams", "unique">>, <<"ext_keys", "unique">>>>

Table(cols, cons, idx, labels) ==
  [cols |-> cols, cons |-> cons, idx |-> idx,
   rows |-> {[id |-> i, label |-> labels[i], vals |-> cols] : i \in DOMAIN labels}]

\* The first release, with constraints; a later one, with soft deletion and the unique names.
First(labels, keyCols) ==
  [n \in {"upstreams", "ext_keys", "usage_records"} |->
    CASE n = "upstreams" -> Table({"name"}, {"check", "unique"}, {}, <<"">>)
      [] n = "ext_keys" -> Table(keyCols, {"unique"}, {}, labels)
      [] n = "usage_records" -> Table({"model"}, {"refs"}, {}, <<"">>)]
Later(labels) ==
  [n \in {"upstreams", "ext_keys"} |->
    CASE n = "upstreams" -> Table({"name", "is_active"}, {}, {NameIndex}, <<"">>)
      [] n = "ext_keys" -> Table({"key", "label", "is_active"}, {}, {"idx_ext_keys_key"}, labels)]
OnMySQL ==
  [n \in {"upstreams", "ext_keys", "usage_records", "id_sequences"} |->
    CASE n = "upstreams" -> Table({"name", "is_active", NameColumn}, {}, {NameIndex}, <<"">>)
      [] n = "ext_keys" -> Table({"key", "label", "is_active"}, {}, {"idx_ext_keys_key", "idx_ext_keys_label"}, <<"a", "b">>)
      [] n = "usage_records" -> Table({"model"}, {}, {}, <<"">>)
      [] n = "id_sequences" -> Table({"next_id"}, {}, {}, <<>>)]
Empty == [n \in {} |-> Table({}, {}, {}, <<>>)]

MCOrigins ==
  LET old == {First(l, {"key", "label"}) : l \in {<<"a", "a">>, <<"a", "b">>}}
             \union {First(<<"a">>, {"key"}), Later(<<"a", "a">>), Later(<<"a", "b">>), Empty}
  IN [d \in {"sqlite", "postgres", "mysql"} |-> IF d = "mysql" THEN {OnMySQL, Empty} ELSE old]
=============================================================================
