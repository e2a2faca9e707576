-------------------------------- MODULE Schema --------------------------------
(***************************************************************************)
(* The database file across installations, restarts, crashes and releases: *)
(* who creates it, what a starting Witch checks in it, and how the         *)
(* reconciler brings its tables up to the schema of the release that runs. *)
(*                                                                         *)
(* Database::open creates a schema statement by statement, each committed  *)
(* on its own; the DB thread and the first-time setup may both be at it.   *)
(* The reconciler is one transaction on the DB thread, the only writer by  *)
(* then: it is one action, and failing or crashing in it changes nothing.  *)
(* A table is its columns, its shape (keys and collations) and its rows.   *)
(* The rows of app_metadata are fields of the database of their own.       *)
(* A row of a computed table is the verdict on a file, "nothing to say"     *)
(* included.  A mark names the table that is computed of the file; what     *)
(* recreating a table marks is a list of names written into the release.   *)
(***************************************************************************)
EXTENDS Integers, Sequences

CONSTANTS
  File,        \* audio files of the corpus
  Releases,    \* the releases: their tables in creation order, their migrations,
               \* and what they seed when a table is recreated
  Found,       \* databases a Witch may find at its first start
  Installs,    \* settings in the environment, and a configuration that can be written
  MaxBoots,    \* bound on starts
  MaxFailures  \* bound on reconciliations that fail

Kinds == {"Core", "Decision", "Computed"}
Does == {"wipe", "drop", "split", "prune", "rebuild", "seed", "reseed", "backfill"}

Tables(r) == {Releases[r].tables[i] : i \in DOMAIN Releases[r].tables}
Migrations(r) == {Releases[r].migrations[i] : i \in DOMAIN Releases[r].migrations}
Names(entries) == {e.name : e \in entries}
Computed(r) == {e \in Tables(r) : e.kind = "Computed"}

\* What is computed of files that are marked: the other tables get their rows
\* from the indexer, from VerifyTags and from passes over all files.
Driven(r) == {e \in Computed(r) : e.by = "marks"}
AllComputed == UNION {Names(Computed(r)) : r \in DOMAIN Releases}

\* What no release computes: files, decisions, users, and the marks.
Lasting == {"files", "inodes", "audio", "tags", "choices", "users"}
Stock == Lasting \cup {"dirty", "cache"}

IsSeq(s) == Len(s) \in Nat /\ DOMAIN s = 1..Len(s)

ASSUME ReleasesType ==
  /\ IsSeq(Releases) /\ Releases # <<>>
  /\ \A r \in DOMAIN Releases :
       /\ IsSeq(Releases[r].tables) /\ IsSeq(Releases[r].migrations)
       /\ \A e \in Tables(r) :
            e.kind \in Kinds /\ e.by \in {"marks", "observation"} /\ {e.shape, e.blob} \subseteq Nat
       /\ \A m \in Migrations(r) : m.does \in Does /\ (m.does = "rebuild" => m.arg \in Nat)

\* schema_inventory starts with inodes, and registers what seeding reads.
ASSUME InventoryStart ==
  \A r \in DOMAIN Releases :
    /\ Releases[r].tables[1].name = "inodes" /\ 1 \in DOMAIN Releases[r].tables
    /\ {"audio", "dirty", "users"} \subseteq Names(Tables(r))
    /\ "files" \notin Names(Tables(r))

\* A table has one name in a release, and in all releases one kind and one
\* shape, and a blob in all or in none.
ASSUME OneTable ==
  /\ Stock \cap AllComputed = {}
  /\ \A r, s \in DOMAIN Releases : \A e \in Tables(r), g \in Tables(s) : e.name = g.name =>
       /\ e.kind = g.kind /\ e.by = g.by /\ e.shape = g.shape
       /\ e.blob = 0 <=> g.blob = 0
       /\ r = s => e = g

\* What the migrations of a release are about: none undoes its tables, drops or
\* empties what cannot be computed again, or leaves a blob without its version.
ASSUME MigrationsFit ==
  \A r \in DOMAIN Releases : \A m \in Migrations(r) :
    /\ m.does \in {"wipe", "drop"} => m.on \notin Lasting \cup {"dirty"} \cup AllComputed
    /\ m.does = "drop" => m.on \notin Names(Tables(r))
    /\ m.does = "prune" => \A e \in Tables(r) : e.name = m.on => m.arg \notin e.cols
    /\ m.does = "rebuild" =>
         \A s \in DOMAIN Releases : \A e \in Tables(s) : e.name = m.on => e.shape = m.arg
    /\ m.does = "seed" => m.on \notin {"dirty"} \cup AllComputed
    /\ m.does = "backfill" => \A s \in DOMAIN Releases : \A e \in Tables(s) : e.name = m.on => e.blob = 0
    /\ m.does \in {"reseed", "backfill"} => m.on \in AllComputed
    /\ \A s \in DOMAIN Releases : \A k \in Migrations(s) : k.id = m.id => k = m

ASSUME InstallsType == Installs \subseteq [env : BOOLEAN, writable : BOOLEAN]
ASSUME BoundsType == {MaxBoots, MaxFailures} \subseteq Nat

VARIABLES
  db,        \* mm.db
  config,    \* config.kdl exists
  install,   \* the installation, one of Installs
  release,   \* the release that runs, or ran last
  stage,     \* startup_state, "off" when no process runs, "init_user" for --init-user
  opener,    \* how far the DB thread and the setup are in Database::open
  setup,     \* the step complete_setup_blocking is at, "none" when none runs
  failed,    \* the last reconciliation failed
  sent,      \* files indexed whose dirty marks the DB thread has not applied
  mixed,     \* signals were computed for tables of another layout
  boots, failures

process == <<release, stage, opener, setup, failed, sent, mixed>>
bounds == <<boots, failures>>
vars == <<db, config, install, process, bounds>>

-----------------------------------------------------------------------------
(* The inventory of a release and the tables of a database.                *)

EntryOf(r, name) == CHOOSE e \in Tables(r) : e.name = name
Versioned(r) == {e \in Tables(r) : e.blob > 0}

Existing(d) == DOMAIN d.tables
Rows(d, name) == IF name \in Existing(d) THEN d.tables[name].rows ELSE {}
Fresh(e) == [cols |-> e.cols, shape |-> e.shape, rows |-> {}]
SetRows(d, name, rows) == [d EXCEPT !.tables[name].rows = rows]
Grow(d, name, rows) == SetRows(d, name, Rows(d, name) \cup rows)
Signal(f, version) == [of |-> f, version |-> version]

\* Files with audio_info and a path in the corpus.
Indexed(d) == Rows(d, "audio") \cap Rows(d, "inodes")

\* What recreating a table leaves to be computed again: a table that is
\* computed of marked files, and is on the list of the releases that have it.
Owed ==
  {t \in AllComputed : \A r \in DOMAIN Releases : \A e \in Computed(r) :
     e.name = t => e \in Driven(r) /\ t \in Releases[r].seeds}

\* What is known of a file and such a table: a signal, or a dirty mark.
Known(d) ==
  {mark \in Rows(d, "dirty") : mark[2] \in Owed} \cup
    UNION {{<<row.of, t>> : row \in Rows(d, t)} : t \in Owed}

\* A table without a stored version has version 0.
Stored(d, name) == IF name \in DOMAIN d.versions THEN d.versions[name] ELSE 0

NoDatabase ==
  [exists |-> FALSE, tables |-> <<>>, stamp |-> 0, versions |-> <<>>, applied |-> {}]

IsDatabase(d) ==
  /\ DOMAIN d = DOMAIN NoDatabase
  /\ \A n \in Existing(d) : DOMAIN d.tables[n] = {"cols", "shape", "rows"} /\ d.tables[n].shape \in Nat
  /\ d.exists \in BOOLEAN /\ d.stamp \in 0..Len(Releases)
  /\ ~d.exists => d = NoDatabase

\* Signals and marks are of files that have audio_info and a path, which a
\* legacy database has in the table files.
AboutFiles(d) ==
  LET files == Rows(d, "audio") \cap (Rows(d, "inodes") \cup Rows(d, "files")) IN
  /\ \A t \in AllComputed : \A row \in Rows(d, t) : row.of \in files
  /\ \A mark \in Rows(d, "dirty") : mark[1] \in files

\* Signals have the version that is stored, and only what has a blob has one.
Dated(d) == \A t \in AllComputed : \A row \in Rows(d, t) : row.version = Stored(d, t)
BlobsOnly(d) ==
  \A r \in DOMAIN Releases : \A e \in Tables(r) : e.blob = 0 => Stored(d, e.name) = 0

\* A table of another shape is rebuilt by a migration to come.
Shaped(d) ==
  \A r \in DOMAIN Releases : \A e \in Tables(r) :
    e.kind # "Computed" /\ e.name \in Existing(d) =>
      \/ d.tables[e.name].shape = e.shape
      \/ \E m \in Migrations(r) : m.does = "rebuild" /\ m.on = e.name /\ m.id \notin d.applied

\* What the releases before these may have left.
ASSUME FoundType ==
  \A d \in Found :
    /\ IsDatabase(d) /\ d.exists /\ d.stamp = 0
    /\ {"inodes", "files"} \cap Existing(d) # {}
    /\ AboutFiles(d) /\ Dated(d) /\ BlobsOnly(d) /\ Shaped(d)

TypeOK ==
  /\ IsDatabase(db)
  /\ config \in BOOLEAN /\ install \in Installs /\ release \in DOMAIN Releases
  /\ stage \in {"off", "init_user", "setup", "checking", "reconciling", "ready"}
  /\ opener \in [{"db_thread", "setup"} ->
       [at : {"none", "start", "init", "done"}, next : 0..(Len(Releases[release].tables) + 2)]]
  /\ setup \in {"none", "config", "open", "user"}
  /\ {failed, mixed} \subseteq BOOLEAN /\ sent \subseteq File
  /\ boots \in 0..MaxBoots /\ failures \in 0..MaxFailures

NotOpen == [at |-> "none", next |-> 0]
Opening == [at |-> "start", next |-> 0]
Opened  == [at |-> "done", next |-> 0]

Init ==
  /\ install \in Installs
  /\ \/ db = NoDatabase /\ config = FALSE
     \/ db \in Found /\ config = install.writable
  /\ release = 1 /\ stage = "off" /\ setup = "none" /\ failed = FALSE /\ sent = {} /\ mixed = FALSE
  /\ opener = [w \in {"db_thread", "setup"} |-> NotOpen]
  /\ boots = 0 /\ failures = 0

-----------------------------------------------------------------------------
(* Database::open, by the DB thread and by the setup.                      *)

\* The file appears with the connection; the schema is created only when
\* neither the table of this layout nor the legacy one is there.
Open(w) ==
  /\ opener[w].at = "start"
  /\ db' = [db EXCEPT !.exists = TRUE]
  /\ opener' = [opener EXCEPT ![w] =
       IF {"inodes", "files"} \cap Existing(db) = {}
         THEN [at |-> "init", next |-> 1] ELSE Opened]
  /\ UNCHANGED <<config, install, release, stage, setup, failed, sent, mixed, bounds>>

StoreVersions(d, r) ==
  [d EXCEPT !.versions = 
     [n \in Names(Versioned(r)) \cup DOMAIN @ |->
        IF n \in Names(Versioned(r)) THEN EntryOf(r, n).blob ELSE @[n]]]
Stamp(d, r) == [d EXCEPT !.stamp = r]
Create(d, e) ==
  IF e.name \in Existing(d) THEN d 
  ELSE [d EXCEPT !.tables = [n \in Existing(d) \cup {e.name} |-> IF n = e.name THEN Fresh(e) ELSE @[n]]]

\* Mutant: off by one.
OneMoreStatement(r) == Len(Releases[r].tables) + 3

\* Creating the tables, the fingerprint and the blob versions.
LastStatement(r) == Len(Releases[r].tables) + 2

\* initialize_schema: the tables, then the fingerprint, then the blob versions.
Initialize(w) ==
  LET next == opener[w].next
      created == Len(Releases[release].tables)
  IN /\ opener[w].at = "init"
     /\ db' = CASE next <= created    -> Create(db, Releases[release].tables[next])
                [] next = created + 1 -> Stamp(db, release)
                [] OTHER              -> StoreVersions(db, release)
     /\ opener' = [opener EXCEPT ![w] =
          IF next = LastStatement(release) THEN Opened ELSE [@ EXCEPT !.next = next + 1]]
     /\ UNCHANGED <<config, install, release, stage, setup, failed, sent, mixed, bounds>>

DbThreadUp == opener["db_thread"].at = "done"

-----------------------------------------------------------------------------
(* The plan of the reconciler and what it does.                            *)

NewTables(d, r) == {e \in Tables(r) : e.name \notin Existing(d)}
Lacking(d, r) ==
  {e \in Tables(r) \ NewTables(d, r) : ~ e.cols \subseteq d.tables[e.name].cols}
NewColumns(d, r) == Lacking(d, r) \ Computed(r)

\* A new table is among them: no version is stored of it.
Unreadable(d, r) ==
  {e \in Versioned(r) \cap Computed(r) : Stored(d, e.name) # e.blob}

\* Mutant: the plan looks for missing tables and columns only.
OldVersions(d, r) == Lacking(d, r) \cap Computed(r)

Recreated(d, r) == (Lacking(d, r) \cap Computed(r)) \cup Unreadable(d, r)

Pending(d, r) == {m \in Migrations(r) : m.id \notin d.applied}
PlanEmpty(d, r) == NewTables(d, r) \cup NewColumns(d, r) \cup Recreated(d, r) = {}

\* Mutant: what is recreated is not seeded.
Unseeded(d, r) == d

\* seed_dirty_inodes_all: the names are a list of its own, which lacks computed
\* tables and has some nothing is computed for.
Seeded(d, r) == Grow(d, "dirty", Indexed(d) \X Releases[r].seeds)

Rebuilt(d, r) ==
  LET empty == Names(NewTables(d, r) \cup Recreated(d, r))
      wider == Names(NewColumns(d, r))
      table(n) ==
        IF n \in empty THEN Fresh(EntryOf(r, n))
        ELSE IF n \in wider THEN [d.tables[n] EXCEPT !.cols = @ \cup EntryOf(r, n).cols]
        ELSE d.tables[n]
  IN [d EXCEPT !.tables = [n \in Existing(d) \cup Names(Tables(r)) |-> table(n)]]

WithTables(d, r) ==
  IF Recreated(d, r) = {} THEN Rebuilt(d, r) ELSE Seeded(Rebuilt(d, r), r)

WithoutTable(d, name) == 
  [d EXCEPT !.tables = [n \in Existing(d) \ {name} |-> @[n]]]

\* Mutant: the split drops the legacy table and forgets to copy it.
SplitDrops(d) == IF "files" \in Existing(d) THEN WithoutTable(d, "files") ELSE d

Split(d) ==
  IF "files" \in Existing(d)
    THEN WithoutTable(Grow(d, "inodes", Rows(d, "files")), "files") ELSE d
Rebuild(d, m) ==
  IF d.tables[m.on].shape = m.arg THEN d ELSE [d EXCEPT !.tables[m.on].shape = m.arg]
SeedVocabulary(d, m) == IF Rows(d, m.on) = {} THEN Grow(d, m.on, m.arg) ELSE d
Reseed(d, m) == Grow(d, "dirty", {<<row.of, m.on>> : row \in Rows(d, m.on)})
Backfill(d, m) ==
  Grow(d, m.on, {Signal(f, 0) : f \in Indexed(d) \ {row.of : row \in Rows(d, m.on)}})

Effect(d, m) ==
  CASE m.does = "wipe"     -> SetRows(d, m.on, {})
    [] m.does = "drop"     -> WithoutTable(d, m.on)
    [] m.does = "split"    -> Split(d)
    [] m.does = "prune"    -> [d EXCEPT !.tables[m.on].cols = @ \ {m.arg}]
    [] m.does = "rebuild"  -> Rebuild(d, m)
    [] m.does = "seed"     -> SeedVocabulary(d, m)
    [] m.does = "reseed"   -> Reseed(d, m)
    [] m.does = "backfill" -> Backfill(d, m)
Migrated(d, m) == [Effect(d, m) EXCEPT !.applied = @ \cup {m.id}]

\* The pending migrations, one after the other.
AllMigrated(d, r) ==
  LET all == Releases[r].migrations
      after[i \in 0..Len(all)] ==
        IF i = 0 THEN d
        ELSE IF all[i] \in Pending(d, r) THEN Migrated(after[i - 1], all[i])
        ELSE after[i - 1]
  IN after[Len(all)]

Reconciled(d, r) == Stamp(StoreVersions(AllMigrated(WithTables(d, r), r), r), r)

ReconciliationSucceeds ==
  /\ stage \in {"reconciling", "ready"} /\ DbThreadUp
  /\ db' = Reconciled(db, release) /\ stage' = "ready" /\ failed' = FALSE
  /\ UNCHANGED <<config, install, release, opener, setup, sent, mixed, bounds>>

\* The transaction is rolled back, and the Witch goes on to Ready all the same.
ReconciliationFails ==
  /\ stage = "reconciling" /\ DbThreadUp /\ failures < MaxFailures
  /\ failures' = failures + 1 /\ stage' = "ready" /\ failed' = TRUE
  /\ UNCHANGED <<db, config, install, release, opener, setup, sent, mixed, boots>>

-----------------------------------------------------------------------------
(* Starting, and the first-time setup.                                     *)

\* load_config: a file, or MM_STORAGE_ROOT in the environment.
CanLoad == config \/ install.env

\* Witch::new starts the DB thread whether or not there is a database.
Boot(r) ==
  /\ stage = "off" /\ boots < MaxBoots
  /\ boots' = boots + 1 /\ release' = r
  /\ IF db.exists /\ ~CanLoad
       THEN UNCHANGED <<stage, opener>>
       ELSE /\ stage' = IF db.exists THEN "checking" ELSE "setup"
            /\ opener' = [opener EXCEPT !["db_thread"] = Opening]
  /\ UNCHANGED <<db, config, install, setup, failed, sent, mixed, failures>>

\* startup_maintenance_check, before clients can connect.
NeedsReconciliation(d, r) ==
  \/ Pending(d, r) # {}
  \/ d.stamp # r /\ ~PlanEmpty(d, r)

Check ==
  /\ stage = "checking"
  /\ stage' = IF NeedsReconciliation(db, release) THEN "reconciling" ELSE "ready"
  /\ UNCHANGED <<db, config, install, release, opener, setup, failed, sent, mixed, bounds>>

CompleteSetup ==
  /\ stage = "setup" /\ setup = "none"
  /\ setup' = "config"
  /\ UNCHANGED <<db, config, install, release, stage, opener, failed, sent, mixed, bounds>>

\* The setup goes on without a file when the environment has the settings.
SetupConfig ==
  /\ setup = "config"
  /\ config' = (config \/ install.writable)
  /\ IF config' \/ install.env
       THEN setup' = "open" /\ opener' = [opener EXCEPT !["setup"] = Opening]
       ELSE setup' = "none" /\ UNCHANGED opener
  /\ UNCHANGED <<db, install, release, stage, failed, sent, mixed, bounds>>

\* --init-user: the same two steps by a process of its own.
InitUser ==
  /\ stage = "off" /\ CanLoad /\ ~db.exists
  /\ stage' = "init_user" /\ setup' = "open"
  /\ opener' = [opener EXCEPT !["setup"] = Opening]
  /\ UNCHANGED <<db, config, install, release, failed, sent, mixed, bounds>>

SetupOpened ==
  /\ setup = "open" /\ opener["setup"].at = "done"
  /\ setup' = "user"
  /\ UNCHANGED <<db, config, install, release, stage, opener, failed, sent, mixed, bounds>>

\* Mutant: a setup that fails is in progress for ever.
SetupOverOnceReady ==
  /\ setup' = IF stage' = "setup" THEN "open" ELSE "none"
  /\ opener' = [opener EXCEPT !["setup"] = NotOpen]

\* SetupComplete lets another attempt begin, whatever this one came to.
SetupOver == setup' = "none" /\ opener' = [opener EXCEPT !["setup"] = NotOpen]

\* A request may name no user; and the table users may not be there yet, for
\* the DB thread may be the one that creates it.
SetupUser ==
  /\ setup = "user"
  /\ \/ /\ "users" \in Existing(db) /\ db' = Grow(db, "users", {"first"})
        /\ stage' = IF stage = "setup" THEN "ready" ELSE "off"
     \/ stage = "setup" /\ stage' = "ready" /\ UNCHANGED db
     \/ "users" \notin Existing(db) /\ UNCHANGED <<db, stage>>
  /\ SetupOver
  /\ UNCHANGED <<config, install, release, failed, sent, mixed, bounds>>

Crash ==
  /\ stage # "off"
  /\ stage' = "off" /\ setup' = "none" /\ sent' = {}
  /\ opener' = [w \in {"db_thread", "setup"} |-> NotOpen]
  /\ UNCHANGED <<db, config, install, release, failed, mixed, bounds>>

-----------------------------------------------------------------------------
(* The work of a ready Witch, as the DB thread commits it.                 *)

Serving == stage = "ready" /\ DbThreadUp
Complete(d, e) == e.name \in Existing(d) /\ e.cols \subseteq d.tables[e.name].cols
Writable(name) == \E e \in Tables(release) : e.name = name /\ Complete(db, e)

Index(f) ==
  /\ Serving /\ Writable("inodes") /\ Writable("audio") /\ f \notin Indexed(db)
  /\ db' = Grow(Grow(db, "inodes", {f}), "audio", {f})
  /\ sent' = sent \cup {f}
  /\ UNCHANGED <<config, install, release, stage, opener, setup, failed, mixed, bounds>>

\* What follows an indexing is sent after it, and lost with the process.
MarkDirty(f) ==
  /\ Serving /\ f \in sent /\ Writable("dirty")
  /\ db' = Grow(db, "dirty", {f} \X Names(Driven(release)))
  /\ sent' = sent \ {f}
  /\ UNCHANGED <<config, install, release, stage, opener, setup, failed, mixed, bounds>>

\* What a computation says of a file replaces what was said before.
Says(d, f, e) ==
  SetRows(d, e.name, {row \in Rows(d, e.name) : row.of # f} \cup {Signal(f, e.blob)})

\* A computation that is driven by marks takes the mark away.
Analyse(f, e) ==
  /\ Serving /\ e \in Driven(release)
  /\ <<f, e.name>> \in Rows(db, "dirty") /\ Complete(db, e)
  /\ db' = SetRows(Says(db, f, e), "dirty", Rows(db, "dirty") \ {<<f, e.name>>})
  /\ mixed' = (mixed \/ Stored(db, e.name) # e.blob)
  /\ UNCHANGED <<config, install, release, stage, opener, setup, failed, sent, bounds>>

\* The indexer, VerifyTags or a pass over all files looks at no mark.
Observe(f, e) ==
  /\ Serving /\ e \notin Driven(release)
  /\ f \in Indexed(db) /\ Complete(db, e)
  /\ db' = Says(db, f, e)
  /\ mixed' = (mixed \/ Stored(db, e.name) # e.blob)
  /\ UNCHANGED <<config, install, release, stage, opener, setup, failed, sent, bounds>>

\* The operator decides something, or a fetch is cached.
Record(e) ==
  /\ Serving /\ e.name \in {"choices", "cache"} /\ Complete(db, e)
  /\ Rows(db, e.name) = {}
  /\ db' = Grow(db, e.name, {"recorded"})
  /\ UNCHANGED <<config, install, process, bounds>>

-----------------------------------------------------------------------------

Next ==
  \/ \E w \in {"db_thread", "setup"} : Open(w) \/ Initialize(w)
  \/ \E r \in DOMAIN Releases : Boot(r)
  \/ Check \/ ReconciliationSucceeds \/ ReconciliationFails
  \/ CompleteSetup \/ SetupConfig \/ InitUser \/ SetupOpened \/ SetupUser
  \/ Crash
  \/ \E f \in File : Index(f) \/ MarkDirty(f)
  \/ \E e \in Tables(release) :
       \/ Record(e)
       \/ e.kind = "Computed" /\ \E f \in File : Analyse(f, e) \/ Observe(f, e)

\* The reconciliation is over, one way or the other.
ReconciliationOver == stage = "reconciling" /\ DbThreadUp /\ stage' = "ready"

\* A running process takes its steps, and an operator answers the setup wizard.
Spec ==
  /\ Init /\ [][Next]_vars
  /\ \A w \in {"db_thread", "setup"} : WF_vars(Open(w)) /\ WF_vars(Initialize(w))
  /\ WF_vars(Check) /\ WF_stage(ReconciliationOver)
  /\ WF_vars(CompleteSetup) /\ WF_vars(SetupConfig) /\ WF_vars(SetupOpened)
  /\ WF_vars(SetupUser)

-----------------------------------------------------------------------------

\* A Witch that is ready, and whose reconciliation did not fail, has every
\* table of its release with its columns and keys, and no blob of another
\* layout: after an installation, crash, failure or change of release.
SchemaServed ==
  Serving /\ ~failed =>
    \A e \in Tables(release) :
      /\ Complete(db, e)
      /\ e.kind # "Computed" => db.tables[e.name].shape = e.shape
      /\ e.kind = "Computed" /\ ~mixed => \A row \in Rows(db, e.name) : row.version = e.blob

\* Files, decisions and users are in the database for good: no migration,
\* recreation, failed reconciliation or crash loses one.
Irreplaceable(d) ==
  ((Rows(d, "files") \cup Rows(d, "inodes")) \X {"file"})
    \cup (Rows(d, "audio") \X {"audio"}) \cup (Rows(d, "tags") \X {"tags"})
    \cup (Rows(d, "choices") \X {"choice"}) \cup (Rows(d, "users") \X {"user"})
NothingLost == [][Irreplaceable(db) \subseteq Irreplaceable(db')]_vars

\* Signals that go are owed again: what was computed for a file, or marked
\* for computation, stays so.  Only for the tables that the releases list and
\* that marks make computed again: the others wait for what observes the file.
\* The split of a legacy database is excepted too: the marks are taken from
\* paths that only the split copies.
SignalsOwed ==
  [][("files" \in Existing(db)) \/ Known(db) \subseteq Known(db')]_vars

\* Whoever starts gets ready, however the DB thread and the setup share the
\* creation of the database, unless it crashes.
ComesUp == (stage \in {"setup", "checking", "reconciling"}) ~> (stage \in {"ready", "off"})
=============================================================================
