------------------------------- MODULE MCAdmin -------------------------------
(***************************************************************************)
(* Instances of Admin for TLC.                                             *)
(***************************************************************************)
EXTENDS Admin, TLC

\* Administrators are interchangeable.
Symmetry == Permutations(Admins)

UpRow(name, format, extra, enabled) ==
  [name |-> name, format |-> format, extra |-> extra, enabled |-> enabled, active |-> TRUE]
ModelRow(up, name, manual, len) ==
  [up |-> up, name |-> name, manual |-> manual, len |-> len, active |-> TRUE]
Patch(name, format, extra, enabled) ==
  [name |-> name, format |-> format, extra |-> extra, enabled |-> enabled]
FileEntry(name, format, extra, enabled, models) ==
  [name |-> name, format |-> format, extra |-> extra, enabled |-> enabled, models |-> models]

Empty == [ups |-> <<>>, models |-> <<>>, aliases |-> <<>>, keys |-> <<>>]

\* A disabled twin, older than the enabled row of the name.
Twins == [Empty EXCEPT
  !.ups = <<UpRow("u", "openai", {"anthropic"}, FALSE), UpRow("u", "openai", {}, TRUE)>>,
  !.models = <<ModelRow(2, "m", FALSE, 2)>>,
  !.aliases = <<[name |-> "x", bind |-> <<[up |-> 2, model |-> "m"], [up |-> 1, model |-> "m"]>>,
                 active |-> TRUE]>>]

One == [Empty EXCEPT !.ups = <<UpRow("u", "openai", {}, TRUE)>>,
                     !.models = <<ModelRow(1, "m", TRUE, 2), ModelRow(1, "n", FALSE, 2)>>]

Keys == [Empty EXCEPT !.keys = <<[label |-> "k", enabled |-> TRUE, active |-> TRUE],
                                 [label |-> "", enabled |-> TRUE, active |-> TRUE]>>]

MCScenarios ==
  {[db |-> Twins, ops |-> {"upstreams", "import"}, writes |-> 3],
   [db |-> Twins, ops |-> {"upstreams", "export", "import"}, writes |-> 2],
   [db |-> One, ops |-> {"upstreams", "models"}, writes |-> 3],
   [db |-> Twins, ops |-> {"upstreams", "aliases"}, writes |-> 2],
   [db |-> Keys, ops |-> {"keys"}, writes |-> 3]}

MCPatches == {Patch("v", Absent, Absent, Absent), Patch("u", Absent, Absent, TRUE),
              Patch(Absent, Absent, Absent, TRUE), Patch(Absent, Absent, Absent, FALSE),
              Patch(Absent, "anthropic", {}, Absent)}

MCBindings == {<<[up |-> 1, model |-> "m"]>>, <<[up |-> 2, model |-> "m"], [up |-> 1, model |-> "n"]>>}

MCVendorLists == {<<>>, <<"m">>, <<"n", "m">>}

M(len) == [name |-> "m", manual |-> FALSE, len |-> len]

MCFiles ==
  {[ups |-> <<FileEntry("u", "openai", {}, FALSE, <<M(0)>>), FileEntry("u", "anthropic", {}, TRUE, Absent),
              FileEntry("u", "anthropic", {}, FALSE, Absent)>>,
    aliases |-> <<[name |-> "x", bind |-> <<[up |-> "u", model |-> "m"], [up |-> "w", model |-> "m"]>>]>>],
   [ups |-> <<FileEntry("u", "anthropic", Absent, FALSE, <<M(2)>>), FileEntry("v", "openai", {}, Absent, <<>>)>>,
    aliases |-> <<[name |-> "y", bind |-> <<[up |-> "v", model |-> "m"]>>],
                  [name |-> "x", bind |-> <<[up |-> "w", model |-> "m"]>>]>>]}

\* One administrator, one model: what is added, deleted, fetched, exported and imported.
SyncScenarios == {[db |-> [Empty EXCEPT !.ups = <<UpRow("u", "openai", {}, TRUE)>>],
                   ops |-> {"models", "export", "import"}, writes |-> 5]}
=============================================================================
