------------------------------- MODULE MCSchema -------------------------------
(* Two releases for TLC, and databases older releases left.                 *)
EXTENDS Schema, TLC

CONSTANTS f1

T(name, kind, cols, shape, blob) ==
  [name |-> name, kind |-> kind, cols |-> cols, shape |-> shape, blob |-> blob,
   by |-> IF name \in {"compound", "packs"} THEN "marks" ELSE "observation"]
M(id, does, on, arg) == [id |-> id, does |-> does, on |-> on, arg |-> arg]

Past ==
  << M("clear", "wipe", "cache", {}), M("edits", "drop", "edits", {}),
     M("split", "split", "files", {}), M("raw", "prune", "choices", "raw"),
     M("nocase", "rebuild", "tags", 1), M("genres", "seed", "genres", {"canonical"}),
     M("redo", "reseed", "compound", {}), M("fill", "backfill", "seen", {}) >>

\* The second release widens tables of every kind, changes a blob and adds a table.
\* "seen" is on the list and no mark makes it computed; "conflict" is not on it.
First ==
  [tables |-> << T("inodes", "Core", {"c"}, 0, 0), T("audio", "Core", {"c"}, 0, 0),
                 T("tags", "Core", {"c"}, 1, 0), T("dirty", "Core", {"c"}, 0, 0),
                 T("cache", "Core", {"c"}, 0, 0), T("genres", "Core", {"c"}, 0, 0),
                 T("choices", "Decision", {"c"}, 0, 0), T("users", "Core", {"c"}, 0, 0),
                 T("seen", "Computed", {"c"}, 0, 0), T("compound", "Computed", {"c"}, 0, 1),
                 T("conflict", "Computed", {"c"}, 0, 0) >>,
   seeds |-> {"seen", "compound"},
   migrations |-> Past]
Second ==
  [tables |-> << T("inodes", "Core", {"c"}, 0, 0), T("audio", "Core", {"c", "new"}, 0, 0),
                 T("tags", "Core", {"c"}, 1, 0), T("dirty", "Core", {"c"}, 0, 0),
                 T("cache", "Core", {"c"}, 0, 0), T("genres", "Core", {"c"}, 0, 0),
                 T("choices", "Decision", {"c", "new"}, 0, 0), T("users", "Core", {"c"}, 0, 0),
                 T("seen", "Computed", {"c", "new"}, 0, 0), T("compound", "Computed", {"c"}, 0, 2),
                 T("conflict", "Computed", {"c", "new"}, 0, 0), T("packs", "Computed", {"c"}, 0, 0) >>,
   seeds |-> {"seen", "compound", "packs"},
   migrations |-> Append(Past, M("again", "wipe", "cache", {}))]
TwoReleases == <<First, Second>>

Table(shape, cols, rows) == [shape |-> shape, cols |-> cols, rows |-> rows]
Older(index) ==
  [exists |-> TRUE, stamp |-> 0, versions |-> "compound" :> 1, applied |-> {"clear"},
   tables |->
     (index :> Table(0, {"c"}, {f1})) @@ ("audio" :> Table(0, {"c"}, {f1}))
     @@ ("tags" :> Table(0, {"c"}, {f1})) @@ ("dirty" :> Table(0, {"c"}, {}))
     @@ ("cache" :> Table(0, {"c"}, {})) @@ ("edits" :> Table(0, {"c"}, {}))
     @@ ("choices" :> Table(0, {"c", "raw"}, {"kept"})) @@ ("users" :> Table(0, {"c"}, {"first"}))
     @@ ("compound" :> Table(0, {"c"}, {Signal(f1, 1)}))]
OldDatabases == {Older("files"), Older("inodes")}

SomeInstalls == [env : BOOLEAN, writable : BOOLEAN] \ {[env |-> FALSE, writable |-> FALSE]}
=============================================================================
