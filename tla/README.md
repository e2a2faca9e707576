# Verification of the music library assistant

TLA+ modules about the core of the music library assistant: its orchestrator,
the *Witch* (`src/src/witch`), the database write queue it depends on
(`src/src/db/write_thread`), the external fetch scheduler, the two protocols
that keep files and database together (tags of a corpus file, hard links of the
library), release packing, and the database file across restarts and releases.  TLC checks them on small instances; the
theorems in the `*_proofs` modules are checked by TLAPS for every value of the
constants.  `PROJECT.json` lists the components, the runs, the hazards the
properties are aimed at, and the source lines every definition stands for.

## 1. The system

One process, one orchestrator thread, and a handful of worker threads that talk
to it through channels.

| Part | State it keeps | Operations | Hard part |
|---|---|---|---|
| **Witch** run loop (`witch/mod.rs`, `state_machine.rs`, `queue.rs`) | work state with its counters, pending mutation / soft-mutation / computation phases, reasoning level, recomputation scopes, deferred-work flags | `select!` over commands, task results, watcher messages, fetch messages, offloaded results and a 100 ms tick; after each, `update_state`, `check_startup_transitions`, `maybe_trigger_derivation` | everything below arrives in any order between two ticks |
| **Transaction** (`transaction.rs`) | at most one open transaction, decisions by key | start, add, remove, confirm, discard, four batch commands | confirmation hands its work to the engine in stages |
| **Hades** (`hades.rs`, `execution.rs`) | the rayon pool | dispatch, run, catch panics, forward results | results come back in any order, tasks spawn tasks |
| **DB write thread** (`db/write_thread`) | the only write connection; `queue_depth` and `queue_empty` atomics | enqueue, apply, drain wait, synchronous operations, shutdown | lock-free counters read by other threads as a barrier |
| **Filesystem watcher** (`fs_thread.rs`) | zone states, debounce map, mode (scan, inotify, polling) | start, poll, events, fallback | overlapping scans and events, lost commands |
| **Fetch scheduler** (`external_fetch`) | batches per source, retries, rate limits | fetch, cover art, Deezer, progress and done messages | retries, late answers, batches that start while another ends |
| **Offloaded checks** (`startup.rs`, `auto_deploy.rs`, `offload_handlers.rs`) | none: each is a blocking task | auto-index, auto-deploy, sidecars, vacuum, watcher cache, setup | the answer comes back to a Witch that has moved on |
| **Tag edits** (`tag_edit.rs`, `computations/.../tags.rs`) | a file's tags on disk and in the database, `needs_disk_flush`, `pending_write`, out-of-band signals | apply, flush, restore, adopt, accept, verify, recover | two stores written one after the other, and other programs |
| **Deployment** (`auto_deploy.rs`, `deploy.rs`, `library.rs`) | hard links, their rows, deploy signals, dirty marks | stash, move, link, reconcile, derive | rows follow the disk through the watcher while tasks change it |
| **Release packing** (`release_packing/`) | candidate, score, packed-release and packing signals | pack, score, map by tiers, solve knots, find gaps | computations that share nothing but the write queue |
| **Schema** (`db/reconciler.rs`, `data_migrations.rs`) | tables, fingerprint, blob versions, applied migrations | plan, execute, migrate | crash between steps, a database of another release |
| **Cache thread** (`cache_thread.rs`) | read connection | domain queries | staleness |
| **Auth thread** (`auth_thread.rs`) | users, sessions | login, logout, user management, DB-ready notification | state before the database exists |
| **Socket** (`socket.rs`), clients (`crates/mm-tui`, `mm-web`, `mm-ui`) | connections | commands and status | I/O |

What has to be right, component by component:

- *Write queue*: the counters never drift; the flag is never left down for ever.
- *Engine*: every queued task is accounted for until its result is in; the stages
  of a transaction run in order and none is lost; each session ends.
- *Pipeline*: startup reaches Full reasoning without tripping its own assertions;
  each deferred obligation (re-derivation, analysis, packing, deployment) is met.
- *Fetch*: a batch closes only drained, and does close; nothing heard of is
  forgotten; what waits for a fetch is taken up.
- *Tag edits*: file and database agree, or the difference is on record and owed to
  somebody.
- *Deployment*: the rows are the directory, the links are where the tags ask.
- *Packing*: no file is a track of two releases; better tiers go first; the signals
  agree with each other; the solvers' picks are optimal.
- *Schema*: a Witch that is up has the tables of its own release, whatever crash or
  release came before; nothing irreplaceable is lost and what was dropped is
  computed again; a start ends in Ready.

## 2. Modules

| Module | Models | Proofs |
|---|---|---|
| `WriteBarrier` | what the DB write thread promises, abstractly | |
| `DbQueue` | `mark_enqueued`, the DB thread's loop, `wait_for_queue_drain`; implements `WriteBarrier` | `DbQueue_proofs` |
| `Engine` | transaction, phases, work state, Hades, DB queue at the grain of `WriteBarrier` | `Engine_proofs` |
| `Pipeline` | startup, reasoning level, scopes, deferred-work flags, offloaded checks, watcher modes, fetch batches, idle priority chain | `Pipeline_proofs` |
| `Fetch` | metadata batches of the fetch scheduler and the computations that wait for them | `Fetch_proofs` |
| `TagFlush` | one file's tags between edits, flushes, other programs and crashes | `TagFlush_proofs` |
| `Library` | library links between watcher, reconciliation, analysis and auto-deploy | `Library_proofs` |
| `Packing` | release packing as computations over the write queue | `Packing_proofs` |
| `Mis` | both solvers of a knot, one loop turn per step | `Packing_proofs` |
| `Schema` | the database file: creation, setup, reconciliation, migrations, crashes, changes of release | `Schema_proofs` |

`MC*` modules give the constants their values for TLC.  The components meet in
three places: `Engine` sees the write queue as `WriteBarrier` does; `Pipeline` sees
a session of `Engine` as the set of the kinds of its tasks; `Fetch`, `Library` and
`Packing` see both as "a task runs when it likes, a phase starts when nothing is
out and the queue is drained".  `Engine` establishes this as far as the flag tells the
truth: `BarrierHolds` is about tasks and a raised flag, and `DbQueue` shows that
the flag can be up while a write waits (see the divergences of section 3).  So
"the queue is empty", which those three modules put into the guards of what follows
a drain (`PackDone`, `MappingsRead` and `NextPhaseStarts` in `Packing`), is an assumption
of theirs about the code: they say nothing of a drain that returns early.

### WriteBarrier and DbQueue

Each access to one of the two atomics is an action: `MarkDepth` and `MarkFlag`
are the two halves of `mark_enqueued`, `FetchSub`, `Load` and `Store` the three
statements that retire an operation.  The channel is a sequence of writers (an
operation's payload does not matter), `unapplied` counts per writer what it sent
and is not applied.  A writer waits either in `wait_for_queue_drain` or for the
answer of a synchronous operation.  Ordering is sequentially consistent: the
code's Relaxed counters and Release/Acquire flag allow more behaviours, none
of which the pass properties rely on being absent (the depth is only ever
changed by read-modify-write operations, which are totally ordered).
Fairness: the DB thread loops on `recv`, and `mark_enqueued`/`send` never
block.  The shutdown sentinel and the statistics window are left out.

`WriteBarrier` is what those who wait may count on, and it is weaker than it
looks: seeing the count at zero and raising the flag are two steps, and a write
enqueued between them stays behind a raised flag.  `DbQueue!Barrier` is the
instance with the refinement mapping, `ImplementsBarrier` the property.

### Engine

The Witch at reasoning level Full.  `work` is `WorkState` (mode, in-flight
counter, whether something was processed), `mphases`, `sphases` and `cphases`
are the three pending deques (a transaction's stages are ordered and each occurs once, so the first
is a function of the stage), `running` and `results` are the tasks in
the pool and in Hades' channel, `backlog`, `queue_empty` and `storing` are the
write queue: `DbApply` retires an operation, and `DbStore` raises the flag in a
step of its own, which is the one interleaving of `DbQueue` the barrier can see.
`arm` is the `select!` arm: after a first message the loop drains its channel
(`Receive(a)` is enabled in the same arm) and then runs the bookkeeping
(`Bookkeep`).  Tasks are elements of disjoint finite sets and each is used once;
`used` says which are spent, and bounds the model; a behaviour may start with
some spent (`Spent`).  `batch`, `confirmed` and `confirms` are history
variables.  The environment (watcher, scheduler, auto-index, auto-deploy)
queues work at any time: that over-approximates what `Pipeline` decides.

Fairness: the 100 ms tick makes `Bookkeep` weakly fair; a task always ends and
is always answered (`catch_unwind`), so `TaskFinishes(t)` is weakly fair;
the DB thread drains an unbounded channel; `ProcessResult` is strongly
fair because `select!` chooses among the ready arms at random, so Hades' arm
cannot be passed over for ever although the loop may leave it for another arm
(between two arms it is disabled, so weak fairness would say nothing).

### Pipeline

The other half of the Witch's loop: what it decides to do next.  `startup` and
`level` are `WitchStartupState` and `ReasoningLevel`; `mode`, `age` and
`idle_since` are `WorkState` with its linger and the promotion timer;
`session_scope`, `pending_scope`, `derivation_needed`, `startup_analysis`,
`pending_work`, `incremental` are the fields of the same meaning; `offloads`
holds the blocking tasks whose answer is to come; `watcher`, `command` and `fs`
are the watcher's state as the Witch sees it, the command that waits for its
cache, and where its thread really is.  A session is the set `out` of the *kinds* of task not
answered (one kind stands for one or more tasks, `Engine` has them one by one).

`pc` is the `select!` arm and then the bookkeeping after it, in the order of
`run_loop`: `UpdateState` (one action per branch of `transition_to_completed`
and of `transition_to_idle`), `ReconciliationOver`/`StartWatching` for
`check_startup_transitions`, `MaybeTriggerDerivation`.  Each message handler is
one action, and `Continue` passes over the parts of a round that have nothing to
do.  `NothingToDo` also stands for a tick that finds the write queue
not yet empty or the promotion timer not over.

What the operator asks of a fetch comes in two forms.  A metadata fetch ends in
`AllDone`; a cover art fetch (`covering`, asked for by `CommandCoverArt`) answers with
the sidecars it replaced, and `SidecarsReplaced` queues a computation
whatever the reasoning level, before `CoverArtDone`.  Both therefore wake a Witch
that is at level None, which is the third way into the panic of section 3.

Merged: a task's kind is what the bookkeeping tells apart, so matching and packing
are "other"; a scope is `EDIT` (the code's TAGS, FILES and DEPLOY) or `EXTERNAL`;
the pending scope is there or not; and `worked` (a session has had tasks that are not
maintenance) is kept only at level None, where the assertion reads it.
`unasked` is a ghost: an analysis that `AllDone` queued took the scope of the session and
set no deployment flag.  It is lowered when a completed session queues its own analysis.

Files are followed from the disk (`created`) to the Witch's map (`observed`),
the derivation's `snapshot`, the UnindexedFile signals, the index mutation that
is out and the files table or the CorruptFile signal.  Deploy signals are
one value: unknown since the last mutation, clean, something ready, or ready
and failed once.  What an offloaded check reads is read when its answer is
handled.  What the watcher does between two messages is in `Library` (debounce,
path index) and `TagFlush` (mtimes).

Time: `Elapse` ends an interval of the polling watcher.  Its default of 900 s is
half of `LINGER_DURATION`, so `Linger` is 2.

Fairness: the tick means that rounds go on (`RoundsGoOn`: a round that began ends, a
linger that is over is noticed and a watcher that may be started is), time
passes (WF of `Elapse`), no
task, offloaded check, fetch of either kind or walk is out for ever (Hades catches
panics, `select!` picks among ready arms at random), and with nothing out the
write queue is found empty again and again (so a drained session or startup
phase is noticed), just as an idle Witch finds its promotion timer expired.
These are stated on the state, `[]<>(k \notin out)`: they hold of the code
whatever arm the loop is in, and a strong-fairness formula per kind of task
would be beyond TLC.
`SpacedSpec` adds that a polling watcher does not keep the Witch Working for
ever, without which nothing after a session could be promised in polling mode.

### Fetch

`spawned`, `active` and `pins` are the Witch's side, `commands` and `finished`
the two channels; `open`, `queue`, `flying`, `done` and `heard` are the fields of
the batch in `external_fetch/mod.rs`.  `Pop(source)` is one iteration of a
source's loop, `Replies` an answer, `Handles` what the scheduler does with it:
requeue, chain to another source, count an error, close the source or the batch.
The scheduler reads the database (`db`) behind the writes it has itself queued
(`writes`).  `ResolvePin` is the computation a client's pin queues.
Fairness: WF of each channel's receiver, of answers (every request has a
timeout), of the DB thread, of each source's pop and of `ResolvePin`.
`BatchDrains` and `PinAnswered` excuse the one way in which a batch stays open: its
last step popped a cached entity (`skipped`).

### TagFlush

One file, one multi-valued field.  A task of the pool is a record whose `kind` is
its next step, so a mutation is cut where it commits, writes the file, or sends
to the DB thread: `apply` (ApplyTagOps) spawns `flush` (FlushTagsToDisk), which
sets the pending_write marker, writes (`write`), and closes (`close`); `restore`,
`adopt` and `accept` are the three resolutions; `verify` carries the file as it
was when read.  `Crash` drops tasks and queued writes, `Restart` queues the
recovery.  `excused` records what may hide a difference: tasks that overlap, an edit
that does nothing and dismisses a signal, and a crash that loses what was not said
yet (writes not applied, or another program's change that is not reported or not
compared: the first scan after a restart takes the file as it is).  `DivergenceOwed`
says: at rest, a difference between file and database is signalled, flagged or marked,
or one of these happened.  `Report` waits while a task is between
writing and closing the file (the 200 ms debounce).

`owed` says that a derivation is to follow.  It is raised by a mutation about this file that
succeeds with a non-empty scope (`OfTags`:
ApplyTagOps, the end of a flush, an adoption).  A mutation that fails and
AcknowledgeMtimeOnly have scope EMPTY
and owe nothing.  Recovery runs at a start, after the initial scan, and with each derivation.  A derivation may come at any
quiet moment, because other files are edited and files come and go
(`Awaken`), but only one that is owed is sure to come (`Derive`).  So what
`FlagResolved` and `MarkerConsumed` promise is conditional: a flag or a marker that is there
when a derivation is owed, or the Witch is down, is resolved (`ToBeLookedAt`); one
that a failed flush leaves on an idle Witch stays until something else happens.
Fairness: WF of the DB thread, the watcher, an owed derivation, the restart and the
tasks (`Work`).

### Library

`disk` maps library paths to inodes; `pending` and `seen` are the watcher's
debounce map and path index; `db` holds library rows, deploy signals and dirty
marks; `writes` what the tasks have sent, one batch for each task, which the DB
thread applies together; `tasks` the computations and soft mutations that run, one
record each, whose `kind` is the next step; `later`, `deferred` and `plan` what waits for a
barrier; `witch` the flags that trigger the stages.  `excused` names six ways by
which the library may stay different from what is wanted (an inode with two
names, an answer overtaken by an edit, a clobbered rename, a change from
outside, a superseded link, an analysis of outdated rows or
conflicts); `LibraryCurrent` says that at rest
every file without an excuse is linked exactly where its tags ask.  A linger (30 min)
does not run out with events undelivered (200 ms).  Spec is fair
for every step but edits and other programs.

### Packing and Mis

`given` is a *catalogue*, one situation of a library: which files a release is
heard on, housed in, matched with, its tracks and score.  How scores, directories
and thresholds are computed is in these data; what is modelled is which
computation reads and writes what, when.  `db` holds the tables of release packing,
`queue` the write queue, `tasks` the computations that run, `todo` the deferred
phases.  `Repack` and `Rescore` ask for a full and an incremental run; `PackRead`,
`PackNothing`, `PackMarks`, `PackWrite`, `PackDone` are PackReleases, `ScoreCandidates` is
ScoreReleaseCandidates, `Mappings*`
ComputeReleaseMappings, `MapTier` one tier, `Resolve` the solver of a knot, `Gaps`
EmitUnmatchedSignals; each reads the committed tables and enqueues operations that
`DbApply` commits later.  `Edit` and `Drop` change the files at any step, also only by what
they send: `version` is the tags as last edited, `db.version` those the database has,
which are older until `DbApply` writes the edit (its tags, cleared signals and mark are
one operation here).  PackReleases reads matches, corpus and tags (one read here) in
`PackRead`, the dirty marks afterwards in `PackMarks`, and `PackWrite` sends a
clearing of *all* marks, whatever was marked since.  Pinned releases are proposed in
the fixed order of the code (`PinnedOrder`), the others in that of the rounds.

`seen` is a history: the
last mapping's proposals, and what happened that excuses a property (a second
repack asked for while one runs, an edit that overtakes PackReleases, an edited,
touched or dropped file, a repack that bails out because nothing is left to pack).
An edit overtakes (`overtaken`) when it is not yet written as PackReleases reads
the tags, or is made before PackReleases has sent what it made of them.
Fairness: DB thread, phases, computations.

`Mis` is the solver of one component of the conflict graph.  `Try` is a turn of
the exhaustive loop; `Prune`, `Leaf` and `Branch` are the three outcomes of a turn of
branch and bound over its stack.
`Coverage` and `Score` are operators about which only additivity is assumed, so the
theorems hold for any files and any scores in Nat.

### Schema

`db` is `mm.db`: its tables, each with columns, shape (keys and collations) and
rows, and the rows of `app_metadata` as the fields `stamp` (the fingerprint, named by
the release that wrote it), `versions` and `applied`.  A release is data: its
inventory in creation order and its migrations, each one of the eight things that
those of the code do to tables.  `Boot(r)` starts release `r`, later or earlier than the last.

`Open(w)` and `Initialize(w)` are `Database::open` by the DB thread and by the
setup, one committed statement a step, since no transaction encloses them; `stage`
is the startup state, `setup` where `complete_setup_blocking` (or `--init-user`) is.
A reconciliation is one transaction of the only writer: one action that does
everything in the order of `execute_inner`, or one that does nothing and goes on to
Ready, as `check_startup_transitions` does.  `Crash` ends the process at any step.
When ready, `Index`, `MarkDirty`, `Analyse`, `Observe` and `Record` fill the tables, so that there
is something to lose.  A computed table is filled by a computation that consumes
dirty marks (`Driven`, `Analyse`) or by something that has seen a file: the watcher,
the indexer, a packing (`Observe`).  What a computation stores is its verdict, "nothing to say"
included.  A release also has its `seeds`, the hard-coded list of fourteen names that
`seed_dirty_inodes_all` marks every inode with: not every computed table is in it,
and some of its names are consumed by nobody.  `Owed` are the tables in the list that
a computation does fill, and `SignalsOwed` is about those.  `failed` says that the last reconciliation failed, `mixed`
that signals were computed after that under versions that are not theirs; both
are histories that qualify `SchemaServed`.
Fairness: a running process takes its steps, and somebody answers the setup
wizard.  A reconciliation ends, with either outcome.

## 3. Runs

| Run | Question | Result |
|---|---|---|
| `db_queue` | counts exact, barrier implemented | holds: two writers, depth at most 3 |
| `engine` | a three-stage transaction with index mutations, spawned mutations and an outside write, or soft and deferred phases: counter, order, nothing confirmed lost, phases start quiet, sessions end | holds |
| `engine_confirm_twice` | is a confirmed mutation ever dropped? | violated with two confirmations |
| `pipeline` | the assertion on level None, deployments tried, reaches Full, files indexed, changes derived, incremental packing reconciled by a full one | holds: four installations (inotify, deployment and maintenance; polling and mutations; an AcoustID key with fetches, cover art, mutations and packings; a key and deployment, with a mutation that meets a fetch), one file, one event, every startup state |
| `fetch` | a request finds no batch open, nothing heard of is forgotten, batches close, pinned releases are taken up | holds: one file, three entities, one Discogs release, three databases |
| `tag_flush` | disk never ahead, differences on record, flags and markers resolved | holds: three events |
| `tag_dismissed` | is an out-of-band signal kept until somebody looks at the file? | violated by an edit that is skipped |
| `library` | rows match the directory, files where their tags ask, comes to rest | holds: two files, one foreign file, three paths, one event |
| `library_missing` | is a file that is in no library ready to be deployed? | violated after a stash |
| `mis` | picks optimal | holds: 2 to 4 releases over three files, three scorings |
| `packing` | picks disjoint, signals agree, better tiers first, scores fresh, runs end | holds: eight libraries |
| `schema` | the schema of the release is served, nothing lost, listed signals owed again, every start gets ready | holds: two releases, two old databases or none, three starts, one failure |

Bounds.

- `MaxDepth = 3` lets one writer sit between the halves of `mark_enqueued` while
  another's operation is retired and a third waits in the channel; more depth
  repeats the same three roles.
- `engine` has one mutation in each of three stages, so that two stages are left
  to advance to after the first, all of them free to be auto-indexed or spawned
  instead; with those spent, both soft phases and two computations, enough for a
  deferred deque of length two.  `MaxConfirms` bounds confirmations: one in the
  passing run (`ConfirmedNotLost` is false from two on, which is what
  `engine_confirm_twice` shows), two there.  The run may stop (`used` runs out),
  but `Bookkeep` ticks for ever, so deadlock checking stays on.
- `MaxEvents` of `Pipeline` bounds operator commands and changes on disk together:
  one, whose consequences, with every interleaving of answers, are some
  thirty steps.  One file is enough for the hand-over from disk to
  index, since files do not interact there.  A configuration lists the commands that its
  operator may give; "disk" among them lets other programs change files, and
  "midfetch" allows mutations only while a fetch runs, which is when the scope of a
  session can be taken by `AllDone`.  The run does not check for
  deadlock: packing, fetching or replacing cover art at level None ends in the panic
  described below, and then the Witch has stopped.
- `fetch`: `MaxErrors` 1 (3 in the code) so that giving up happens after one
  retry; `MaxTrouble` 2 errors or rate-limit answers; `MaxRequests` 2, so that a
  second request meets the first one's batch; `MaxLag` 2 unapplied writes.
- `tag_flush`: `MaxEvents` 3 edits, resolutions, changes by other programs or
  crashes; a lost difference needs two events and an answer.  `MaxLag` 4 is one
  mutation's writes and another's.  A difference that is hidden by a crash *after* it was
  compared once needs a fourth event, which is how the proof, whose number of events is
  any, found that the excuse for crashes had to cover comparisons under way.
- `library`: one edit (of both files' tags) or one change by another program,
  from every deployed library over three paths, so that a swap and a chain of
  moves occur; `MaxLag` 2.  The safety part was also checked for two to four events, and,
  as far as nothing is excused, for three files and four paths, which takes too long to
  keep.  The third file mattered: see the reconciliation below.
- `mis`: `ExhaustiveLimit` 3 (25 in the code), so both solvers run on small graphs.
- `packing`: the catalogues are an album with partial rivals, two whole rivals, a
  knot of three (with and without the discography rule), pinned, nested pins,
  elimination with a file to be matched later, and a slot that moves;
  `KnotLimit` 2, one incremental rescoring, two edits or drops, and `MaxEvents` 4
  in all, a full repack counting twice.  One knot of three releases is the
  smallest that is one.
- `schema`: the second release widens a table of every kind, changes a blob and adds a
  table and a migration.  `MaxBoots` 3 is an upgrade that fails, a start that goes back
  and one that returns; `MaxFailures` 1.  Four starts and two failures (656,000 states)
  were checked as well.  One file: what the reconciler does to files is uniform.
  A machine that is out of starts has come to rest, so deadlock is not checked.

The runs without deadlock checking model parts that may come to rest: a fetch
scheduler with no requests, a file nobody edits, a solved component.

The violations are findings; `PROJECT.json` quotes the sentence of the
repository each one contradicts.

### Other divergences TLC showed

No run is kept for these; each is a property to restore should the code
change.

Write queue and Witch:

- `wait_for_queue_drain` (`db/write_thread/mod.rs:69-90`) can return with the
  caller's own write unapplied: the DB thread's late `store(true)` for an older
  operation falls between the caller's enqueue and its execution.  A phase may so
  start before the writes of the phase before it are applied (`Engine`'s barrier).
- "With in_flight==0 ... the queue stays empty" (`state_machine.rs:367-369`)
  does not hold: the fetch scheduler and the Witch's own signal clearing write
  with no task in flight.
- A second mutation session inside one linger overwrites the scope of the first
  before its content analysis ran; and any session without a scope consumes the
  pending one (`state_machine.rs:284`), so the content analysis can run before
  the re-derivation it should follow.
- A fetch batch that starts or ends between a session's mutations and its end
  clears the session's scope: no re-derivation follows.  In the other order, a
  session that completes between a match and the end of its batch takes the
  EXTERNAL scope away and no packing follows (`event_handlers.rs:370`).
- With the default intervals a polling watcher wakes the Witch in every linger, so
  idle-time work (full repack, vacuum) never happens.
- When packing, a fetch that matches something, or a cover art fetch that replaces a
  sidecar (`event_handlers.rs:409-421`) is asked for before the initial
  scan, the assertion on level None fails (TLC reaches `Panicked`).  The
  theorem `OnlyEarlyWorkPanics` says that nothing else does it: who asks for no packing
  and no fetch of either kind never sees the panic.
- If every startup index mutation fails, the content analysis the startup owes
  is never run (`offload_handlers.rs:79-81`, `state_machine.rs:280`).
- The sidecar check is requested in the call that queues the analysis it should
  follow (`state_machine.rs:341-345`).
- A file flagged corrupt is signalled unindexed by the next derivation and
  queued again (`execution.rs:135-158`).
- The analysis after a fetch sets no deployment flag, so what it finds
  deployable waits for a later analysis (`event_handlers.rs:353-397`), also when it
  took the scope of a mutation session that would have set one.  `DeployTried` excepts
  exactly this, through `unasked`.

Watcher:

- What changes between the scan and the watch is seen by neither
  (`fs_thread.rs`, 414-465); a rescan's Start is consumed, against the comment
  "re-run with fresh inotify watches" (536-538); only MaxFilesWatch falls back to
  polling (982-1000).

Fetch:

- "When all entities are fetched (or confirmed cached), the `then` computations
  are queued": a batch whose last entities are popped as cached never closes
  (`external_fetch/mod.rs:266`), and what waits for it is stranded.
  `BatchDrains` shows that this is the only way.
- A batch with nothing but Discogs releases to ask for ends at once.
- `AdaptiveRateLimiter::new` uses max(max_rps, 4.0), against the "hard cap" of its
  comment (`external_fetch/mod.rs:636-639`).
- A request task that panics is never counted down.  A pinned release that
  MusicBrainz does not have is asked for again for ever.

Tags:

- A crash between the two commits of an edit (tags, then flag) leaves file and
  database different with no record (`docs/MUTATION_REFERENCE.md:87-88`, 263).
- Two changes by other programs in a row, whose verdicts are applied out of
  order, lose the conflict signal; so does a mutation that ends while VerifyTags runs.
- `replace` with a value the field already has violates the primary key: the
  whole batch of operations is dropped, the flush then fails and recovery lowers the
  flag, so the edit is lost without a word (`tag_edit.rs`, "same read transaction
  — no race condition").
- After a restart the first scan takes every file as it is (`fs_thread.rs`, 387-425) and
  says "Derivation will schedule verification for mismatched files" (1188), but derivation
  schedules none: a change made while the Witch was down, or reported and not
  yet compared when it went down, is not looked at until the file changes again.
- AcknowledgeMtimeOnly accepts the mtime the file has when it runs (`indexing.rs`,
  705-744), not the one that was compared; only the watcher's report of the later
  change keeps it from being accepted unseen.
- Recovery comes only with a start or a derivation (`state_machine.rs:466-469`).  The marker
  that a failed ApplyDbTagsToDisk leaves (scope EMPTY, `execution.rs:195-199`) therefore
  stays until the next of these, and so does a flag whose mismatch of mtimes
  AcknowledgeMtimeOnly accepts: VerifyTags raises that signal without clearing the
  flag.  `FlagResolved` and `MarkerConsumed` promise no more (`ToBeLookedAt`).
- The program's own write is reported as MtimeOnlyMismatch when an older
  VerifyTags has consumed the marker (`tags.rs:317-319`).

Library:

- A link and a move of one plan run concurrently, so the move can carry the new
  link away while the file counts as deployed.
- DetectDeployConflicts and DeriveDeployHealthSignals run in parallel and each
  reads what the other writes (`deploy.rs`, around 110-116).
- A reconciliation that was queued before a move and ends after the move's follow-ups
  adds the old path's row again: it compares what the watcher knew when it was queued
 .  The health analysis of the same round takes
  the ghost for a file that holds its path, and leaves a third file where it is; a later
  reconciliation repairs the row, but asks for no analysis.  The proof of
  `LibraryCurrent` came upon it; two files are too few to show it.
- The check that a target does not exist and the rename are two steps: a file put
  there by another program is overwritten (`file_ops.rs:353`, "MM never
  unlinks/destroys data").
- A library link removed by another program is never deployed again.
- A dirty mark is lost when an edit overtakes DeriveCorpusDeployStatus.
- For an inode with two library names, reconciliation deletes the row of the one
  the watcher does not know, at every tick.  A late WatcherUpsert leaves a second
  row for the path of a replaced file.
- `drop_from_index` wipes corpus signals of a file stashed from a library,
  although `execution.rs:217-220` says it skips "corpus-only concerns".

Packing (`docs/RELEASE_PACKING_ALGORITHM.md`):

- A second full repack requested while the first maps interleaves its phases with
  the first one's, against "Stages are barrier-separated"; its truncation makes the
  first run's tiers panic or emit nothing, and the first run's scoring tasks add
  rows after it.
  One that finds nothing to pack takes the claims back between two tiers, and a file
  is packed twice; one that ends with other rows leaves claims of the first.
- A file that a knot leaves contested can be claimed by a later tier, although
  `components.rs` (around 465) says "Contested inodes remain unclaimed".
- Of two pinned directories one inside the other, both releases are emitted
  though they share files.
- Early returns of PackReleases clear only one of the signals, so packed rows
  stay; with nothing scored the gap analysis is skipped.
- `clear_all_dirty_inodes` (`stage_scoring.rs:528`, 586, 762) wipes every mark set since
  the tags were read (283), those of an edit that was already queued when PackReleases
  started too, provided another file was marked; the release keeps candidates
  with the old tags and no mark.  `ScoresFresh` excepts it (`overtaken`).
- The document (lines 16 and 170) and `types.rs:213-215` say that knots are resolved
  greedily.  The code picks none of a knot, and neither does `MapTier`.
- A tag edit clears the inode's claim until the next full repack; in the middle
  of a run a later tier can claim the file again.
- A file dropped in the middle of a run makes the mapping task panic: later tiers
  never run, after the signals were cleared.
- Incremental rescoring reaches only releases that a match leads to.
- The default of singles-before-incompletes is stated both ways in the document.

Schema (`Schema` shows the first seven; the others lie outside it):

- The DB thread is spawned in AwaitingSetup too and creates `mm.db` itself.  A restart
  before the operator has answered, or a crash between the configuration and the
  first user, therefore finds a database: without a configuration the program
  exits, with one in the environment it is Ready without users, refuses CompleteSetup
  and skips `--init-user` ("if no DB exists, boots in `AwaitingSetup`",
  `witch/mod.rs:455-457`).
- `initialize_schema` marks no migration as applied: the second start of a fresh
  installation runs all of them and wipes the MusicBrainz caches.  This also repairs what
  a crash inside `initialize_schema`, which is no transaction, left out.
- `seed_dirty_inodes_all` runs before the split migration has filled `inode_paths`:
  when a legacy database is upgraded, recreated tables are not seeded, against
  `reconciler.rs:236-237`; `SignalsOwed` excepts this step.
- A failed reconciliation is logged as complete and the Witch is Ready on the old
  schema (`state_machine.rs:45-56`).
- After such a failed upgrade the new release writes blobs under the old version.
  Going back to the old release finds versions that match, so these blobs are
  neither readable nor replaced, not even by a reconciliation the operator asks for;
  `SchemaServed` is qualified by `mixed` for this.
- A computed table that is new and has no blob is not seeded: its signals wait for
  other causes.
- `seed_dirty_inodes_all` marks inodes for a hard-coded list of computations
  (`reconciler.rs:458-473`).  Computed tables outside it, such as those of packed_release,
  moved_file, oob_tag_conflict and mtime_only_mismatch, are owed nothing after they were
  recreated, against "Re-seeds dirty inodes for any recreated signal tables so computations
  re-run" (236-237); and some listed names are consumed by no computation.
  `SignalsOwed` is about the tables that are both listed and computed of marks (`Owed`).
- A computed table that loses columns or changes a constraint is not recreated, against
  `table_schema.rs:15-16`.
- A column that is NOT NULL without a default makes ADD COLUMN, and so the
  reconciliation, fail at every start (`reconciler.rs:393-402`).
- An error when the fingerprint is stored or in COMMIT leaves the transaction open:
  only errors of `execute_inner` are rolled back (`reconciler.rs:246-258`).
- A database that the startup check cannot read counts as up to date
  (`startup.rs:162-165`).

## 4. Proofs

`DbQueue_proofs`: the inductive invariant is `TypeOK /\ DepthExact /\
FlagNotStuck`; `DepthExact` gives `queue_depth > 0` when the DB thread is about to
subtract, which is what keeps it in `Nat`.  `QueueAccounting`, `QueueTypes` and
`FlagOwned` read its parts off.  `QueueIsBarrier` is the refinement: under the same
invariant every step of the queue is, through the mapping of `DbQueue!Barrier`, a
step of `WriteBarrier` or a stutter (a write counts from the moment its writer has
lowered the flag, so `MarkDepth` is a stutter and `MarkFlag` enqueues).  That
covers the safety part; the liveness part of `ImplementsBarrier` is TLC's.

`Engine_proofs`: `TypeCorrect`, `CounterIsExact`, `SessionsClose` and
`BarrierHolds`.  The first two are not inductive on their own:

    IInv == TypeOK /\ InFlightExact /\ RestMeansDrained /\ WorkingCanFinish /\ Accounted

`InFlightExact` needs `RestMeansDrained` (waking up resets the counter, which is
exact only if nothing was out), `RestMeansDrained` needs the completion guard
together with `InFlightExact` (in_flight = 0 must mean nothing is out), and
`Accounted` says that what is used is not offered again, so that a dispatched
set is disjoint from what is out and cardinalities add up.  `BarrierHolds` then
follows from `InFlightExact` at every step that moves a pending task to the pool.
Assumptions: the task sets are finite and disjoint, nothing else; the bound
`MaxConfirms` is any natural number, so these hold across any number of confirmations.
`StagesInOrder` adds `Ordered`: what waits in a bucket is of the current transaction and
of that stage, and a mutation is out or waiting only while all of the stages after it wait.
The conclusion of `StageOrder` alone says nothing of a transaction that replaces another
one, so `Ordered` is stated on the buckets.  `ConfirmedNotLost` is no invariant;
`OnlyConfirmingLoses` proves which step breaks it (a confirmation while
stages wait) and that no other does, and `FirstIsNotLost` that the first transaction is safe.

`Pipeline_proofs`: `TypeCorrect`, `ReasoningNeedsReady`, `StartDelivered`,
`FullNeedsDerivation` and `OnlyEarlyWorkPanics`, from three inductive invariants:

    HandOver == /\ level # "None" \/ fs # "idle" \/ command # "none" => watcher # "NotStarted"
                /\ watcher # "NotStarted" => startup = "Ready"
                /\ "vacuum" \in offloads => startup = "Reconciling"
                /\ "setup" \in offloads => startup = "AwaitingSetup"
                /\ StartNotLost

`LevelNeedsReady` alone is not inductive: a scan raises the level, so the watcher
must know the startup is over, and an answer to the vacuum check would undo
Ready were one still out.  `Derived` (before level Full, stale signals mean that
a derivation is out) gives `FullAfterDerivation`, since a session completes with
nothing out.  `Early` (at level None there is no work but maintenance, no flag,
no check but the startup's own) gives `NeverPanics` under the assumption that
the operator asks for no packing and no fetch of either kind, which `NeverPanics` itself states;
without it there is the panic described above.  Only the named ASSUMEs of `Pipeline` are
used: the theorems hold for any set of files, any linger, any configuration and
any bound on events.

`Packing_proofs`: `PackingTypes`, `NoFileTwice`, `ClaimsTellTheSame`, `BetterTierFirst`,
`GapsAreExact` and `MarksAreKept`, all safety properties of `Packing`, for any releases,
files and libraries and any number of repacks, rescorings, edits and drops.  None of them but
the types is inductive: each speaks of a quiet state or of what is packed, and what leads there is
spread over the tables, the write queue, the computations and the deferred phases.  One
invariant carries them all:

    IInv == Typed /\ Phased /\ Apart /\ Gapped /\ Tagged /\ Fresh /\ ListedRight
            /\ Truncated /\ Proposed /\ Single /\ Matching /\ Manifested /\ Ordering

- `Phased`: a mapping, a tier and a gap analysis run alone and start with nothing to emit in
  the queue; solvers are followed by a phase; a mapping that reads has its clearing behind it.
- `Apart`, for `PicksDisjoint`: it counts what waits in the queue as packed, says that packed
  releases hold their files (so that the next tier finds them claimed), and that solvers of one
  tier share no file with each other nor with what is picked, which is what connected components of the
  conflict graph are for.
- `Gapped`, for `UnmatchedExact`: a gap analysis is still to come, or what is recorded, with its
  writes on the way, is right of every untouched file.
- `Fresh`, with `Tagged` and `ListedRight`, for `ScoresFresh`.  `Tagged`: the database has the tags of
  the last edit, or that edit is the last in the queue.  `Fresh` is about runs that no edit
  overtakes.  Once an edit is written, its mark is there, whatever clears the marks comes
  after the release is forgotten, and an incremental run that read the marks has this one
  (`Marked`); while tags are read and not used no edit waits, and marks are cleared and
  listings written before any edit that does (`Current`).
- `Matching`, with `Truncated`, for `ClaimsMatch`: outside the span in which a full repack has truncated
  packed rows and not yet cleared claims (`Remapping`), the two agree in every committed state.
- `Ordering`, for `NothingJumped`: each proposal is picked, served, or waits in a tier or a solver that is
  still to come, and everything picked is of a tier before those.  It needs `Single` (one run
  at a time, everything of the last mapping), `Proposed` (one proposal for each release) and `Manifested`
  (what is scored is in the manifest, so that no winner is dropped unnamed).

That a solver leaves only proposals that lose a file to its pick is `BestTakes`: adding a proposal that
competes with nothing covers more files, where it matters that files are finitely many.  That a tier
picks, knots or sends to a solver each proposal it keeps is `KeptGoes`.
The assumptions are `CataloguesType` (typed catalogues, and only pinned releases house files),
`FinitelyMany` and `BoundsType`.  Looking for the invariant showed three things the bounded
runs did not, and the properties now say so: a repack that bails out
between two tiers of another takes the claims back, so a later tier packs a file twice
(`PicksDisjoint` has the excuse `bailed`); two overlapping runs may pack a release twice, under different tiers
or with different rows, and claims of the first time stay (`ClaimsMatch`, `overlapped`); and a
proposal that was deduplicated away is not itself in the knot of the one that stands for it (`NothingJumped`).

`Packing_proofs`, the part about `Mis`: `MisTypes`, `Feasible` and `Optimal`, from the
inductive `MisInv`.  For
branch and bound its heart is `NothingLost`: every independent set is beaten or
equalled by the best pick found, or still lies under a node of the stack, between
its `selected` and `selected \cup candidates`; `Entries` says what a node is.  Pruning keeps it because coverage
and score are additive, hence monotone; branching because a pick either has the
pivot or has not.  When the stack is empty only the first case is left.  For the
exhaustive solver it is `Tried`: the best pick beats or equals every independent
subset whose mask has been passed.  `EverySubset` says that each subset but the
empty one has a mask below `1 << n`, an induction over the bits in which `1 << n` doubles
(`BitDoubles`, `LowerBits`); mask 0 is never tried, and the empty subset loses to that
of the first release.  That is where the assumption that a component is not empty is needed; the
code returns early without candidates, and a component has the release it was grown from.

`SolverServesPacking` joins the two: where the solver's component is a set of proposals
(`Represents`: conflicts are shared files, a proposal weighs as many files as it wants, scores
are summed), the pick it ends with is a member of `Best`, the set from which `Resolve` takes its choice.
`Best` counts the files of a choice and the solver adds up coverages; over picks that share no file these are the
same (`CoverageIsCovered`, an induction over the numbering of the component).

`Fetch_proofs`: `OneBatchAtATime`, `FetchTypes` and `NothingIsForgotten`.
`StartFindsNoBatch` is not inductive; `OneToken` is: `batch_active` is one token, which is
the Start command in the channel, then the open batch, then the AllDone message, and
nothing is in flight without a batch, so that no late answer ends one twice.
`TypeOK` is inductive, and so is `NothingForgotten` given it and `OneToken`: `Start` puts what it
counts as heard of into the queues, `Pop` moves an item into flight or settles it, an
answer keeps its item, and handling one puts it back unless it is settled while what
is new is queued.  Assumed: the ASSUMEs of `Fetch`, that is, typed
relations between finite sets.  `BatchDrains` and `PinAnswered` are TLC's.

`TagFlush_proofs`: `TypeCorrect`, `DbLeads` and `DifferencesAreOwed`, for any values, edits,
number of events and lag.  `DiskNeverAhead` becomes inductive as `Behind`: what a task is
about to write was committed, because FlushTagsToDisk compares with the
committed rows behind the drained queue.  For `DivergenceOwed` the invariant is

    Lone == excused = {} => Alone

`Alone`: without an excuse at most one task is out, and it is `Fine`.  `Fine` says for each
kind of task what it has still to do: with the writes it sends or has sent applied in
order (`Leads`), the rows end up with a flag, a marker or a signal, or with the file's tags.
That is a statement about where a queue leads, carried by lemmas on how
one write, and a sequence put behind another, changes it.  `Sure` restricts it to what this program or the
watcher knows of the file.

`Schema_proofs`: `TypeCorrect`, `SchemaIsServed`, `NothingIsLost` and `SignalsAreOwed`, for any
number of releases with any tables and migrations, any databases found, any
sequence of starts, crashes, failures and changes of release.  The invariant is

    IInv == TypeOK /\ Startup /\ Halfway /\ Ready /\ Sound(db, mixed) /\ sent \subseteq Indexed(db)

`Startup` relates the stage, the setup and the two openers; `Halfway` says what a
creation under way has made, by whichever of the two; `Ready` that the database is
served unless it is being created; `Sound` what is true of every database, a rolled
back or an interrupted one too: marks and signals are of indexed files, signals have the
stored version, a table of another shape has its migration to come, and a fingerprint
is only on a database that has the tables of its release.  A reconciliation is
followed by `Along`, which relates a database to a later one of the same transaction:
nothing irreplaceable is lost, what was known is still known, every table of the
release stays complete.  Each effect of a migration is `Along` (`EffectAlong`); that all pending
ones are, whatever their number, is an induction (`AllMigratedAlong`) over the recursive
function that applies them.  `Reconciled` then leaves the release served
(`ReconciliationServes`).

The assumptions are about data, and `schema_inventory` and `all_data_migrations` meet them:
`InventoryStart` (the first entry is `inodes`, and the tables that seeding reads are
registered), `OneTable` (a table has one kind, one filler and one set of keys in the releases; older databases
may have others, to be rebuilt),
`MigrationsFit` (no migration drops or empties a table of files, decisions or users, prunes a
column of its own release, or leaves a blob without its version) and `FoundType` (what the
releases before these left).  They are the rules that whoever adds a table or a
migration has to keep; TLC evaluates them on every run of `MCSchema`.

`Library_proofs`: `TypeCorrect`, `RowsAreRight` and `LibraryIsCurrent`, for any corpus, paths, foreign files, number of
events and lag.  `RowsMatchDisk` speaks of a quiet library only; what makes it so is

    IInv == TypeOK /\ Resting /\ Watched /\ Owed

`Watched`: while no inode has two names, the watcher's index is right about every path that is not
pending, since `Becomes` reports all that changes and names stay single under renames over
other names.  Rows may be wrong for long: events, looks and stashes write them in any order.
`Owed` says what for: unless a derivation is owed (`rederive`, or `mutated`, which owes one when the work completes),
no task is out that writes rows on its own, no write on its way adds a row the
watcher does not know or removes one it knows (`Harmless`), and either a reconciliation with
exactly what the watcher knows is out, or with what has been sent the rows agree with it
(`Coming`).  A derivation starts with nothing running (`Resting`), which is
what makes its reconciliation the only task about rows; an event that settles in the
meantime either changes what the watcher knows, and then owes another one, or
nothing.  That the DB thread brings about what is `Coming` is an induction over the writes of a
batch (`BatchAdds`, `BatchClears`); that every task does no more than `Works` says is proved
task by task (`TasksWork`).  Assumed are only the ASSUMEs of `Library`: the corpus is a
list of different files, and no path or file is called none.

`LibraryIsCurrent` is the main theorem about the library: for any number of files, paths and
edits, what is at rest is what the tags ask for, or one of six excuses has happened.  No
single step brings that about, so the invariant `excused = {} => Round` follows the whole
way from an edit to rest:

    Round == Tagging \/ Mutating \/ Analysing \/ Planning \/ Starting \/ Settled

Each mode says which tasks may be in the pool, which batches may wait for the DB thread, which
flags of the Witch are up, and what the library owes:

- `Tagging`: tag operations are out or unapplied; a file is marked or will be.
- `Mutating`: mutations and their follow-ups run; all they stash has lost its claim, a file
  whose readiness they take back has a name, and an analysis is owed (`mutated`, then
  `pendingScope`; a Witch that is done before that owes a derivation, which wakes it).
- `Analysing`: what the four computations have applied, sent or have still to read is what
  the directory calls for: `TrueLeft`, `TrueStale`, and a readiness for every file in
  `Wanting`.  Here the excuse "outdated" is needed: their inputs have to be right.
- `Planning`, `Starting`: the plan only stashes what lost, and nothing has changed since, so
  its first task succeeds (`Able`), which is what leads on to `Mutating`.  A plan all of
  whose tasks failed would mutate nothing and owe no second analysis.
- `Settled`: an analysis planned nothing (`PlanCovers`: then the library is as wanted), or the
  model has just started.

In every mode but `Tagging`, `Noticed` says that a file with a claim and no name is ready
or that a mark is left, so the next analysis is not skipped for it.  Events, row tasks,
reconciliations and derivations run beside every mode and change nothing of it (`Beside`,
`RoundKept`); each other action has a lemma (`TagOpsKeepsRound` ... `DeployKeepsRound`), and
`RoundSteps` puts them together.  That the analysis finds the truth when rows and losers
are right is `HealthRight`; that a batch of mutations does not touch what `Noticed` is about is
an induction over its writes (`MutationsKeep`).

Proved but not checked by a run of its own: the type invariants of `DbQueue`,
`Engine`, `Pipeline` and `Mis`, `FlagNotStuck`, `RestMeansDrained`, `WorkingCanFinish`,
`LevelNeedsReady`, `StartNotLost`, `FullAfterDerivation` and `BestIsFeasible`.  Every invariant
that a passing run checks is a theorem (`ConfirmedNotLost` for the first transaction, the only
one of that run).  Model-checked
only: all liveness properties, which are out of the prover's reach, as is ENABLED.  The
library's induction theorems take an operator, which the provers cannot
instantiate; inductions over numbers (in `Schema_proofs`, `Library_proofs` and `Packing_proofs`) use its well-founded minimum of a set
of numbers instead.

## 5. Not modelled, and the plan

Left out of the modelled parts: labels and display counters, configuration
updates carried by a result, Hades' pool rebuild, the shutdown path, coalescing of
overlapping tag edits and the batch_* commands; the scheduler's side of cover art and
Deezer batches (one queue, one request at a time, no chain; the Witch's side of cover art is in
`Pipeline`); directory events and the corpus zone's
hash cache of the watcher; tag formats, unreadable files and writes that replace an
inode; sidecar images, corpus moves, several libraries and the deploy-path
template; score computation, directory choice, low-confidence categories,
alternatives, artist overrides and AcoustID submissions of packing, and the
warm path of a pin (`pinned.rs`); f64 rounding in the solvers, and more than one
component at a time; indices, ADD COLUMN that fails, transactions left open and
VACUUM in the schema.

Not modelled at all: the rate limiter (wall-clock arithmetic on floats); the cache
thread (each query opens its own read, and its invalidation and reconnect
messages do nothing, so there is no state to go stale); authentication (a map of
users and one of sessions, no expiry); socket, clients, configuration parsing
and SQL queries (I/O and text); the derive macros.

Plan, most important first: a `Watch` module for the corpus zone of the watcher
thread; the cover art queue in `Fetch`; coalescing of
tag operations against a reference definition.
