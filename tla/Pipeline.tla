------------------------------- MODULE Pipeline -------------------------------
(***************************************************************************)
(* What the Witch decides to do next: startup (Reconciling, Vacuuming,     *)
(* Ready), the reasoning level (None, Inodes, Full), the recomputation     *)
(* scopes mutations leave behind, the checks it offloads to blocking       *)
(* tasks, the watcher it starts, fetch batches, and the priority chain it  *)
(* runs down when a finished session has lingered.                         *)
(*                                                                         *)
(* A session is abstract here: `out` holds the kinds of task that are out, *)
(* each standing for one or several tasks (module Engine has the counters, *)
(* the phases and the write queue).  Time is counted in intervals of the   *)
(* watcher's polling fallback; a linger lasts Linger of them.              *)
(***************************************************************************)
EXTENDS Integers, FiniteSets

CONSTANTS
  File,        \* corpus audio files
  Linger,      \* LINGER_DURATION, in polling intervals
  Settings,    \* the installations considered
  MaxEvents    \* bound on commands and on watcher events

\* Packing, matching and the rest are "other": their end decides nothing here.
Kind == {"maintenance", "derive", "analysis", "index", "mutation", "audio", "sidecar",
         "other"}
Command == {"maintenance", "packing", "fetch", "covers", "mutation", "midfetch", "disk"}

ASSUME LingerPositive == Linger \in Nat \ {0}
\* What the operator may ask for (mutations at any time, or only while a fetch runs),
\* and whether other programs change files; whether an AcoustID key is configured;
\* opinions.auto_deploy; whether idle_full_repack_after is not zero; and whether
\* inotify watches can be had.
ASSUME SettingsType ==
  Settings \subseteq [commands : SUBSET Command, api : BOOLEAN, auto : BOOLEAN,
                     repack : BOOLEAN, inotify : BOOLEAN]
ASSUME MaxEventsNat == MaxEvents \in Nat

\* RecomputationScope: EDIT stands for TAGS, FILES and DEPLOY, which no decision here
\* tells apart.
Scope == {"EDIT", "EXTERNAL"}

Flag == {"FETCH", "PACKING", "AUDIO_DEPLOY", "SIDECAR_DEPLOY"}

\* Blocking tasks whose answer is still to come.  vacuum_check_pending,
\* watcher_cache_loading and setup_in_progress say that theirs is.
Offload == {"setup", "vacuum", "cache", "index_transition", "index_steady",
            "audio", "sidecar"}

VARIABLES
  config,        \* the installation, fixed
  pc,            \* the run_loop arm, then its bookkeeping; "panicked"
  startup,       \* WitchStartupState
  level,         \* ReasoningLevel
  mode,          \* WorkState
  out,           \* kinds of the tasks not answered yet
  worked,        \* level is None and kind_counts has more than maintenance
  age,           \* how long the Witch has been Done
  idle_since,    \* last_idle_entry_at is set
  session_scope, \* session_recomputation_scope, {} for EMPTY
  pending_scope, \* pending_recomputation_scope is some scope
  derivation_needed,   \* watcher_derivation_needed
  startup_analysis,    \* pending_startup_content_analysis
  pending_work,
  offloads,
  watcher,       \* WatcherState
  command,       \* pending_watcher_command
  fs,            \* where the watcher thread is
  polled,        \* it has re-walked in this interval
  fetching,      \* a fetch batch is active
  covering,      \* a cover art batch is active
  incremental,   \* incremental_since_full_repack, where FullRepack has it read
  created,       \* files on disk
  observed,      \* observed_inodes.corpus
  snapshot,      \* the copy of it the derivation that is out was given
  indexed,       \* the files table
  unindexed, corrupt,   \* UnindexedFile and CorruptFile signals
  indexing,      \* files an index mutation is out for
  deploy,        \* what the deploy signals say of the library
  stale,         \* ghost: signals lag behind the last mutations
  changed,       \* ghost: a mutation of this session changed something
  unasked,       \* ghost: the last analysis asked for no deploy check
  matched,       \* this batch has reported a match (one report per batch)
  events         \* commands and watcher events so far

Commands == config.commands
ApiKey == config.api
AutoDeploy == config.auto
FullRepack == config.repack
Inotify == config.inotify

session == <<mode, out, worked, age, idle_since>>
scopes == <<session_scope, pending_scope, derivation_needed, startup_analysis>>
watch == <<watcher, command, fs, polled>>
signals == <<indexed, unindexed, corrupt>>
batches == <<fetching, covering>>
files == <<created, observed, snapshot, signals, indexing>>
ghosts == <<stale, changed, unasked, matched>>
vars == <<config, pc, startup, level, session, scopes, pending_work, offloads, watch,
          batches, incremental, files, deploy, ghosts, events>>

Arm == {"select", "cmd", "hades", "watch", "fetch", "offload"}
PC == Arm \cup {"startup", "derive", "panicked"}

TypeOK ==
  /\ config \in Settings
  /\ pc \in PC
  /\ startup \in {"AwaitingSetup", "Reconciling", "Vacuuming", "Ready"}
  /\ level \in {"None", "Inodes", "Full"}
  /\ mode \in {"Idle", "Working", "Done"}
  /\ out \subseteq Kind
  /\ worked \in BOOLEAN /\ idle_since \in BOOLEAN
  /\ derivation_needed \in BOOLEAN /\ startup_analysis \in BOOLEAN
  /\ polled \in BOOLEAN /\ incremental \in BOOLEAN
  /\ fetching \in BOOLEAN /\ covering \in BOOLEAN
  /\ stale \in BOOLEAN /\ changed \in BOOLEAN
  /\ unasked \in BOOLEAN /\ matched \in BOOLEAN
  /\ age \in 0..Linger
  /\ session_scope \subseteq Scope /\ pending_scope \in BOOLEAN
  /\ pending_work \subseteq Flag
  /\ offloads \subseteq Offload
  /\ watcher \in {"NotStarted", "InitialScan", "Watching", "Polling"}
  /\ command \in {"none", "Start", "Poll"}
  /\ fs \in {"idle", "scanning", "announcing", "monitoring", "polling"}
  /\ created \subseteq File /\ observed \subseteq File /\ snapshot \subseteq File
  /\ indexed \subseteq File /\ unindexed \subseteq File /\ corrupt \subseteq File
  /\ indexing \subseteq File
  /\ deploy \in {"clean", "unknown", "ready", "failed"}
  /\ events \in Nat

\* Witch::run finds no database, or an outdated schema, or a fragmented file,
\* or none of these.
Init ==
  /\ config \in Settings
  /\ pc = "select"
  /\ startup \in {"AwaitingSetup", "Reconciling", "Vacuuming", "Ready"}
  /\ level = "None"
  /\ out = IF startup \in {"Reconciling", "Vacuuming"} THEN {"maintenance"} ELSE {}
  /\ mode = IF out = {} THEN "Idle" ELSE "Working"
  /\ worked = FALSE /\ age = 0 /\ idle_since = FALSE
  /\ session_scope = {} /\ pending_scope = FALSE
  /\ derivation_needed = FALSE /\ startup_analysis = FALSE
  /\ pending_work = {} /\ offloads = {}
  /\ watcher = "NotStarted" /\ command = "none" /\ fs = "idle" /\ polled = FALSE
  /\ fetching = FALSE /\ covering = FALSE /\ incremental = FALSE
  /\ created \in SUBSET File /\ indexed \in SUBSET created
  /\ observed = {} /\ snapshot = {} /\ indexing = {}
  /\ unindexed = {} /\ corrupt = {}
  /\ deploy = "unknown"
  /\ stale = TRUE /\ changed = FALSE /\ unasked = FALSE /\ matched = FALSE
  /\ events = 0

-----------------------------------------------------------------------------
(* Queueing.                                                               *)

Receive(a) == pc \in {"select", a} /\ pc' = a

Event == events < MaxEvents /\ events' = events + 1

\* The session when tasks K replace `out`: any task wakes the Witch, and
\* leaving Idle or Done clears last_idle_entry_at.
SessionGoesOn(K, done) ==
  /\ out' = (out \ done) \cup K
  /\ mode' = IF K = {} THEN mode ELSE "Working"
  /\ idle_since' = (idle_since /\ (K = {} \/ mode = "Working"))
  /\ age' = IF K = {} THEN age ELSE 0

Queue(K) == SessionGoesOn(K, {}) /\ UNCHANGED worked

\* queue_awakening_computations gives the derivation a snapshot, two that are
\* out at once both of theirs; recovery of tag flushes may come with it.
QueueDerivation(seen) ==
  /\ \E recovery \in SUBSET {"other"} : Queue({"derive"} \cup recovery)
  /\ snapshot' = seen \cup (IF "derive" \in out THEN snapshot ELSE {})

-----------------------------------------------------------------------------
(* Commands of the operator.                                               *)

\* QueueTask SchemaReconciliation or Vacuum: accepted at any level.
CommandMaintenance ==
  /\ Receive("cmd") /\ Event
  /\ startup # "AwaitingSetup"
  /\ "maintenance" \in Commands
  /\ Queue({"maintenance"})
  /\ UNCHANGED <<startup, level, scopes, pending_work, offloads, watch, batches,
                 incremental, files, deploy, ghosts>>

\* QueueTask ReleasePacking: request_release_packing(false), at any level.
CommandPacking ==
  /\ Receive("cmd") /\ Event
  /\ startup # "AwaitingSetup"
  /\ "packing" \in Commands
  /\ Queue({"other"})
  /\ incremental' = FALSE
  /\ UNCHANGED <<startup, level, scopes, pending_work, offloads, watch, batches,
                 files, deploy, ghosts>>

\* QueueTask ExternalFetch: request_external_fetch.
CommandFetch ==
  /\ Receive("cmd") /\ Event
  /\ startup # "AwaitingSetup"
  /\ "fetch" \in Commands
  /\ ApiKey /\ ~fetching
  /\ fetching' = TRUE
  /\ UNCHANGED <<startup, level, session, scopes, pending_work, offloads, watch,
                 covering, incremental, files, deploy, ghosts>>

\* QueueTask CoverArtFetch: request_cover_art_fetch; it needs no key.
CommandCoverArt ==
  /\ Receive("cmd") /\ Event
  /\ startup # "AwaitingSetup"
  /\ "covers" \in Commands
  /\ ~covering
  /\ covering' = TRUE
  /\ UNCHANGED <<startup, level, session, scopes, pending_work, offloads, watch,
                 fetching, incremental, files, deploy, ghosts>>

\* Mutant: confirmed at any level.
ConfirmAnyTime ==
  /\ Receive("cmd") /\ Event
  /\ startup # "AwaitingSetup"
  /\ "mutation" \in Commands
  /\ Queue({"mutation"})
  /\ UNCHANGED <<startup, level, scopes, pending_work, offloads, watch, batches,
                 incremental, files, deploy, ghosts>>

\* Transaction Confirm, when accepting_mutations.
CommandConfirm ==
  /\ Receive("cmd") /\ Event
  /\ "mutation" \in Commands \/ ("midfetch" \in Commands /\ fetching)
  /\ level = "Full"
  /\ Queue({"mutation"})
  /\ UNCHANGED <<startup, level, scopes, pending_work, offloads, watch, batches,
                 incremental, files, deploy, ghosts>>

CompleteSetup ==
  /\ Receive("cmd")
  /\ startup = "AwaitingSetup"
  /\ "setup" \notin offloads
  /\ offloads' = offloads \cup {"setup"}
  /\ UNCHANGED <<startup, level, session, scopes, pending_work, watch, batches,
                 incremental, files, deploy, ghosts, events>>

-----------------------------------------------------------------------------
(* Results of tasks: process_task_result.                                  *)

\* Kind k is answered; what it spawned joins the session.
Answered(k, spawn) ==
  /\ Receive("hades")
  /\ k \in out
  /\ SessionGoesOn(spawn, {k})
  /\ worked' = (worked \/ (level = "None" /\ k # "maintenance"))

\* Computations leave no scope.
ComputationDone(k) ==
  /\ k \in {"maintenance", "other"}
  /\ Answered(k, {})
  /\ UNCHANGED <<startup, level, scopes, pending_work, offloads, watch, batches,
                 incremental, files, deploy, ghosts, events>>

\* DeriveCorpusSignals: what is observed and not indexed is unindexed, and
\* signals of files that are neither observed nor indexed are collected.
DeriveDone ==
  /\ Answered("derive", {})
  /\ unindexed' = snapshot \ indexed
  /\ corrupt' = corrupt \cap (snapshot \cup indexed)
  /\ snapshot' = {}
  /\ stale' = FALSE
  /\ UNCHANGED <<startup, level, scopes, pending_work, offloads, watch, batches,
                 incremental, created, observed, indexed, indexing, deploy,
                 changed, unasked, matched, events>>

\* ScheduleContentAnalysis and all it spawned: the deploy signals are current.
AnalysisDone ==
  /\ Answered("analysis", {})
  /\ deploy' \in IF deploy = "unknown" THEN {"clean", "ready"} ELSE {deploy}
  /\ UNCHANGED <<startup, level, scopes, pending_work, offloads, watch, batches,
                 incremental, files, ghosts, events>>

\* A mutation that succeeded adds its scope to the session's, a failed one
\* EMPTY; either may leave follow-up computations.
MutationAnswered(k, scope, spawn) ==
  /\ Answered(k, spawn)
  /\ spawn \subseteq {"other"}
  /\ session_scope' = session_scope \cup scope
  /\ changed' = (changed \/ scope # {})
  /\ UNCHANGED <<pending_scope, derivation_needed, startup_analysis, stale, unasked,
                 matched>>

\* Indexing: of the files still there some are indexed, and the others become
\* corrupt instead of unindexed.
IndexDone(ok, spawn) ==
  LET tried == indexing \cap created
  IN
  /\ ok \subseteq tried
  /\ MutationAnswered("index", IF ok = {} THEN {} ELSE {"EDIT"}, spawn)
  /\ indexed' = indexed \cup ok
  /\ unindexed' = unindexed \ tried
  /\ corrupt' = (corrupt \cup tried) \ ok
  /\ indexing' = {}
  /\ deploy' = IF ok = {} THEN deploy ELSE "unknown"
  /\ UNCHANGED <<startup, level, pending_work, offloads, watch, batches,
                 incremental, created, observed, snapshot, events>>

\* request_watcher_poll_with_cache, when a mutation carried a new config.
RequestPoll(reconfigured) ==
  IF reconfigured /\ watcher = "Polling"
  THEN command' = "Poll" /\ offloads' = offloads \cup {"cache"}
  ELSE UNCHANGED <<command, offloads>>

OperatorMutationDone(scope, spawn, reconfigured) ==
  /\ scope \in {{}, {"EDIT"}}
  /\ MutationAnswered("mutation", scope, spawn)
  /\ RequestPoll(reconfigured)
  /\ deploy' = IF scope = {} THEN deploy ELSE "unknown"
  /\ UNCHANGED <<startup, level, pending_work, watcher, fs, polled, batches,
                 incremental, files, events>>

\* Soft mutations do what the deploy signals ask for.  Those that fail leave
\* theirs and succeed or fail the next time; a sidecar check deals with the
\* sidecars only.
SoftDone(k, scope, spawn) ==
  /\ k \in {"audio", "sidecar"}
  /\ scope \in {{}, {"EDIT"}}
  /\ MutationAnswered(k, scope, spawn)
  /\ deploy' \in IF deploy \notin {"ready", "failed"} THEN {deploy}
                 ELSE IF scope = {} THEN {IF k = "audio" THEN "failed" ELSE deploy}
                 ELSE IF deploy = "failed" THEN {"clean"}
                 ELSE {"clean", IF k = "audio" THEN "failed" ELSE "ready"}
  /\ UNCHANGED <<startup, level, pending_work, offloads, watch, batches,
                 incremental, files, events>>

TaskResult ==
  \/ \E k \in Kind : ComputationDone(k)
  \/ DeriveDone
  \/ AnalysisDone
  \/ \E ok \in SUBSET File, spawn \in SUBSET {"other"} : IndexDone(ok, spawn)
  \/ \E scope \in SUBSET Scope, spawn \in SUBSET {"other"} :
       \/ \E reconfigured \in BOOLEAN : OperatorMutationDone(scope, spawn, reconfigured)
       \/ \E k \in Kind : SoftDone(k, scope, spawn)

-----------------------------------------------------------------------------
(* The watcher thread and its messages: process_watcher_message.           *)

\* AllInitialScansComplete, when the Witch has observed the files seen: the
\* level goes up at the first one.
AllInitialScansComplete(seen) ==
  /\ level' = IF level = "None" THEN "Inodes" ELSE level
  /\ observed' = seen
  /\ QueueDerivation(seen)

ScanDone ==
  /\ Receive("watch")
  /\ fs = "scanning"
  /\ fs' = "announcing"
  /\ AllInitialScansComplete(created)
  /\ UNCHANGED <<startup, scopes, pending_work, offloads, watcher, command, polled,
                 batches, incremental, created, signals, indexing, deploy,
                 ghosts, events>>

\* run_polling_loop starts by sleeping through an interval.
InotifyFailed ==
  /\ Receive("watch")
  /\ ~Inotify /\ fs \in {"announcing", "monitoring"}
  /\ fs' = "polling" /\ polled' = TRUE
  /\ watcher' = "Polling"
  /\ observed' = {}
  /\ UNCHANGED <<startup, level, session, scopes, pending_work, offloads, command,
                 batches, incremental, created, snapshot, signals, indexing,
                 deploy, ghosts, events>>

MonitoringActive ==
  /\ Receive("watch")
  /\ fs = "announcing"
  /\ fs' = "monitoring"
  /\ watcher' = IF watcher = "Polling" THEN watcher ELSE "Watching"
  /\ UNCHANGED <<startup, level, session, scopes, pending_work, offloads, command,
                 polled, batches, incremental, files, deploy, ghosts, events>>

\* A re-walk only adds to what the Witch has observed.
PollDone ==
  /\ Receive("watch")
  /\ fs = "polling" /\ ~polled
  /\ polled' = TRUE
  /\ AllInitialScansComplete(observed \cup created)
  /\ UNCHANGED <<startup, scopes, pending_work, offloads, watcher, command, fs,
                 batches, incremental, created, signals, indexing, deploy,
                 ghosts, events>>

\* FileCreated and FileRemoved, in the corpus.
FilesChanged(now) ==
  /\ Receive("watch") /\ Event
  /\ "disk" \in Commands
  /\ fs = "monitoring"
  /\ created' = now
  /\ observed' = (observed \cup (now \ created)) \ (created \ now)
  /\ derivation_needed' = TRUE
  /\ UNCHANGED <<startup, level, session, session_scope, pending_scope,
                 startup_analysis, pending_work, offloads, watch, batches,
                 incremental, snapshot, signals, indexing, deploy, ghosts>>

FileCreated == \E f \in File \ created : FilesChanged(created \cup {f})
FileRemoved == \E f \in created : FilesChanged(created \ {f})

\* FileChanged: VerifyTags, or the row of a library file.
FileChanged ==
  /\ Receive("watch") /\ Event
  /\ "disk" \in Commands
  /\ fs = "monitoring"
  /\ Queue({"other"})
  /\ UNCHANGED <<startup, level, scopes, pending_work, offloads, watch, batches,
                 incremental, files, deploy, ghosts>>

\* Nobody is told while the watcher polls.
DiskChanges ==
  /\ pc = "select" /\ Event
  /\ "disk" \in Commands
  /\ fs = "polling"
  /\ \E f \in File : created' \in {created \cup {f}, created \ {f}}
  /\ UNCHANGED <<pc, startup, level, session, scopes, pending_work, offloads, watch,
                 batches, incremental, observed, snapshot, signals, indexing,
                 deploy, ghosts>>

WatcherMessage ==
  ScanDone \/ InotifyFailed \/ MonitoringActive \/ PollDone
    \/ FileCreated \/ FileRemoved \/ FileChanged

\* An interval ends; a polling watcher re-walks once in each.
Elapse ==
  /\ pc # "panicked"
  /\ (mode = "Done" /\ age < Linger) \/ polled
  /\ fs = "polling" => polled
  /\ age' = IF mode = "Done" /\ age < Linger THEN age + 1 ELSE age
  /\ polled' = FALSE
  /\ UNCHANGED <<pc, startup, level, mode, out, worked, idle_since, scopes,
                 pending_work, offloads, watcher, command, fs, batches,
                 incremental, files, deploy, ghosts, events>>

-----------------------------------------------------------------------------
(* The fetch scheduler's messages: process_scheduler_message.              *)

\* SourceDone with matches.
SourceMatched ==
  /\ Receive("fetch")
  /\ fetching /\ ~matched
  /\ session_scope' = session_scope \cup {"EXTERNAL"}
  /\ matched' = TRUE
  /\ UNCHANGED <<startup, level, session, pending_scope, derivation_needed,
                 startup_analysis, pending_work, offloads, watch, batches,
                 incremental, files, deploy, stale, changed, unasked, events>>

\* AllDone: the analysis takes the whole session's scope, and on EXTERNAL alone
\* it only matches; it sets no deploy flag.
AllDone ==
  LET external == "EXTERNAL" \in session_scope
      analysis == IF session_scope = {"EXTERNAL"} THEN "other" ELSE "analysis"
  IN
  /\ Receive("fetch")
  /\ fetching /\ fetching' = FALSE
  /\ Queue(IF external THEN {analysis} ELSE {})
  /\ session_scope' = IF external THEN {} ELSE session_scope
  /\ pending_work' = pending_work \cup (IF external THEN {"PACKING"} ELSE {})
  /\ matched' = FALSE
  /\ unasked' = (unasked \/ (/\ external /\ analysis = "analysis"
                             /\ "AUDIO_DEPLOY" \notin pending_work))
  /\ UNCHANGED <<startup, level, pending_scope, derivation_needed, startup_analysis,
                 offloads, watch, covering, incremental, files, deploy, stale, changed,
                 events>>

\* SidecarReplacements: the sidecars a cover art batch has superseded are stashed
\* by a computation, whatever the level.
SidecarsReplaced ==
  /\ Receive("fetch")
  /\ covering
  /\ Queue({"other"})
  /\ UNCHANGED <<startup, level, scopes, pending_work, offloads, watch, batches,
                 incremental, files, deploy, ghosts, events>>

CoverArtDone ==
  /\ Receive("fetch")
  /\ covering /\ covering' = FALSE
  /\ UNCHANGED <<startup, level, session, scopes, pending_work, offloads, watch,
                 fetching, incremental, files, deploy, ghosts, events>>

FetchMessage == SourceMatched \/ AllDone \/ SidecarsReplaced \/ CoverArtDone

-----------------------------------------------------------------------------
(* Answers of offloaded tasks: handle_offload_result.  What a task read is  *)
(* read here when its answer is handled.                                    *)

Answer(o) == Receive("offload") /\ o \in offloads

SetupComplete ==
  /\ Answer("setup")
  /\ offloads' = offloads \ {"setup"}
  /\ startup' \in {startup, "Ready"}
  /\ UNCHANGED <<level, session, scopes, pending_work, watch, batches,
                 incremental, files, deploy, ghosts, events>>

\* Mutant: no transition when no vacuum is needed.
VacuumForgotten(needed) ==
  /\ Answer("vacuum")
  /\ offloads' = offloads \ {"vacuum"}
  /\ startup' = IF needed THEN "Vacuuming" ELSE startup
  /\ Queue(IF needed THEN {"maintenance"} ELSE {})
  /\ UNCHANGED <<level, scopes, pending_work, watch, batches, incremental, files,
                 deploy, ghosts, events>>

VacuumChecked(needed) ==
  /\ Answer("vacuum")
  /\ offloads' = offloads \ {"vacuum"}
  /\ startup' = IF needed THEN "Vacuuming" ELSE "Ready"
  /\ Queue(IF needed THEN {"maintenance"} ELSE {})
  /\ UNCHANGED <<level, scopes, pending_work, watch, batches, incremental, files,
                 deploy, ghosts, events>>

\* WatcherDbCache: the command that waited for it is sent.
CacheReady ==
  /\ Answer("cache")
  /\ offloads' = offloads \ {"cache"}
  /\ command' = "none"
  /\ fs' = IF command = "Start" THEN "scanning" ELSE fs
  /\ polled' = (polled /\ ~(command = "Poll" /\ fs = "polling"))
  /\ UNCHANGED <<startup, level, session, scopes, pending_work, watcher, batches,
                 incremental, files, deploy, ghosts, events>>

\* Mutant: only the sidecars are deployed after an analysis.
SidecarsOnly == {"SIDECAR_DEPLOY"}

AnalysisFlags == {"AUDIO_DEPLOY", "SIDECAR_DEPLOY"}

\* queue_content_analysis from AutoIndexResult.
AnalyseAtOnce ==
  /\ Queue({"analysis"})
  /\ pending_scope' = FALSE
  /\ pending_work' = pending_work \cup AnalysisFlags
  /\ unasked' = FALSE
  /\ UNCHANGED <<indexing, startup_analysis>>

IndexFiles(found, transition) ==
  /\ Queue({"index"})
  /\ indexing' = indexing \cup found
  /\ pending_work' = pending_work \cup {"FETCH"}
  /\ startup_analysis' = (startup_analysis \/ transition)
  /\ UNCHANGED <<pending_scope, unasked>>

\* AutoIndexResult: signals of files that are gone are cleared.
IndexChecked(transition) ==
  LET check == IF transition THEN "index_transition" ELSE "index_steady"
      found == unindexed \cap created
  IN
  /\ Answer(check)
  /\ offloads' = offloads \ {check}
  /\ unindexed' = found
  /\ \/ found # {} /\ IndexFiles(found, transition)
     \/ found = {} /\ transition /\ AnalyseAtOnce
     \/ found = {} /\ ~transition
          /\ UNCHANGED <<session, indexing, pending_work, startup_analysis,
                         pending_scope, unasked>>
  /\ UNCHANGED <<startup, level, session_scope, derivation_needed, watch, batches,
                 incremental, created, observed, snapshot, indexed, corrupt, deploy,
                 stale, changed, matched, events>>

\* AutoDeployResult and SidecarDeployResult.
DeployChecked(k) ==
  /\ Answer(k)
  /\ offloads' = offloads \ {k}
  /\ Queue(IF deploy \in {"ready", "failed"} THEN {k} ELSE {})
  /\ UNCHANGED <<startup, level, scopes, pending_work, watch, batches, incremental,
                 files, deploy, ghosts, events>>

OffloadAnswer ==
  \/ SetupComplete
  \/ \E needed \in BOOLEAN : VacuumChecked(needed)
  \/ CacheReady
  \/ \E transition \in BOOLEAN : IndexChecked(transition)
  \/ \E k \in {"audio", "sidecar"} : DeployChecked(k)

-----------------------------------------------------------------------------
(* Bookkeeping after every round, and every 100 ms: update_state.          *)

Quiet == out = {}

Update == pc \in Arm /\ startup # "AwaitingSetup"

CanStartWatching == watcher = "NotStarted" /\ "cache" \notin offloads

DeriveDue == derivation_needed /\ mode = "Idle" /\ level = "Full"

\* The parts of the round that have nothing to do are passed over.
Continue ==
  pc' = IF startup' # "Ready" \/ CanStartWatching' THEN "startup"
        ELSE IF DeriveDue' THEN "derive" ELSE "select"

AwaitSetup ==
  /\ pc \in Arm \ {"select"} /\ pc' = "select"
  /\ startup = "AwaitingSetup"
  /\ UNCHANGED <<startup, level, session, scopes, pending_work, offloads, watch,
                 batches, incremental, files, deploy, ghosts, events>>

\* The end of transition_to_completed: Done, or the analysis is queued; the
\* sidecars do not wait for the linger.
Finish(analysis, checks) ==
  LET flags == pending_work \cup (IF analysis THEN AnalysisFlags ELSE {})
      sidecar == AutoDeploy /\ "SIDECAR_DEPLOY" \in flags
  IN
  /\ out' = IF analysis THEN {"analysis"} ELSE {}
  /\ mode' = IF analysis THEN "Working" ELSE "Done"
  /\ age' = 0 /\ worked' = FALSE /\ UNCHANGED idle_since
  /\ session_scope' = {}
  /\ pending_work' = flags \ (IF sidecar THEN {"SIDECAR_DEPLOY"} ELSE {})
  /\ offloads' = offloads \cup checks \cup (IF sidecar THEN {"sidecar"} ELSE {})
  /\ changed' = FALSE
  /\ unasked' = (unasked /\ ~analysis)
  /\ UNCHANGED <<startup, watch, batches, incremental, files, deploy, matched, events>>

Completed(l) ==
  /\ Update
  /\ mode = "Working" /\ Quiet
  /\ level = l

\* Only maintenance is legal this early.
Panic ==
  /\ Completed("None") /\ worked
  /\ pc' = "panicked"
  /\ UNCHANGED <<startup, level, session, scopes, pending_work, offloads, watch,
                 batches, incremental, files, deploy, ghosts, events>>

CompleteNone ==
  /\ Completed("None") /\ ~worked
  /\ Finish(FALSE, {})
  /\ UNCHANGED <<level, pending_scope, derivation_needed, startup_analysis, stale>>

CompleteInodes ==
  /\ Completed("Inodes")
  /\ level' = "Full"
  /\ Finish(FALSE, {"index_transition"})
  /\ UNCHANGED <<pending_scope, derivation_needed, startup_analysis, stale>>

\* Mutations ran: their scope waits for the derivation, except at startup.
CompleteMutations ==
  /\ Completed("Full") /\ session_scope # {}
  /\ pending_scope' = ~startup_analysis
  /\ derivation_needed' = TRUE
  /\ startup_analysis' = FALSE
  /\ stale' = TRUE
  /\ Finish(startup_analysis, {})
  /\ UNCHANGED level

\* Mutant: unindexed files are looked for at startup only.
NoSteadyCheck ==
  /\ Completed("Full") /\ session_scope = {}
  /\ pending_scope' = FALSE
  /\ Finish(pending_scope, {})
  /\ UNCHANGED <<level, derivation_needed, startup_analysis, stale>>

\* No mutations ran: a scope that waited is analysed.
CompleteOthers ==
  /\ Completed("Full") /\ session_scope = {}
  /\ pending_scope' = FALSE
  /\ Finish(pending_scope, IF pending_scope THEN {} ELSE {"index_steady"})
  /\ UNCHANGED <<level, derivation_needed, startup_analysis, stale>>

Complete == CompleteNone \/ CompleteInodes \/ CompleteMutations \/ CompleteOthers

\* decide_idle_action, the promotion timer being over.
IdleAction ==
  IF "FETCH" \in pending_work /\ ApiKey /\ ~fetching THEN "TriggerFetch"
  ELSE IF "PACKING" \in pending_work THEN "TriggerPacking"
  ELSE IF "AUDIO_DEPLOY" \in pending_work /\ AutoDeploy THEN "TriggerAutoDeploy"
  ELSE IF incremental /\ idle_since THEN "TriggerFullRepack"
  ELSE "GoIdle"

\* transition_to_idle: a fetch that cannot start is not tried again.
Lingered(action, flag) ==
  /\ Update
  /\ mode = "Done" /\ age >= Linger
  /\ IdleAction = action
  /\ pending_work' = pending_work \ {"FETCH", flag}
  /\ UNCHANGED <<startup, level, scopes, watch, files, deploy, ghosts, events>>

TriggerFetch ==
  /\ Lingered("TriggerFetch", "FETCH")
  /\ fetching' = TRUE
  /\ UNCHANGED <<session, offloads, covering, incremental>>

TriggerPacking ==
  /\ Lingered("TriggerPacking", "PACKING")
  /\ Queue({"other"}) /\ incremental' = FullRepack
  /\ UNCHANGED <<offloads, batches>>

TriggerAutoDeploy ==
  /\ Lingered("TriggerAutoDeploy", "AUDIO_DEPLOY")
  /\ offloads' = offloads \cup {"audio"}
  /\ UNCHANGED <<session, batches, incremental>>

\* Mutant: last_idle_entry_at is not set.
GoIdleUntimed ==
  /\ Lingered("GoIdle", "FETCH")
  /\ mode' = "Idle" /\ age' = 0
  /\ UNCHANGED <<out, worked, idle_since, offloads, batches, incremental>>

GoIdle ==
  /\ Lingered("GoIdle", "FETCH")
  /\ mode' = "Idle" /\ idle_since' = TRUE /\ age' = 0
  /\ UNCHANGED <<out, worked, offloads, batches, incremental>>

\* maybe_run_idle_promotion, at any time after enough of idling.
IdlePromotion ==
  /\ Update
  /\ mode = "Idle" /\ IdleAction = "TriggerFullRepack"
  /\ Queue({"other"}) /\ incremental' = FALSE
  /\ UNCHANGED <<startup, level, scopes, pending_work, offloads, watch, batches,
                 files, deploy, ghosts, events>>

\* Tasks are out or the write queue is not empty, the linger or the promotion
\* timer is not over, or there is nothing to do.
NothingToDo ==
  /\ Update
  /\ mode = "Done" => age < Linger
  /\ UNCHANGED <<startup, level, session, scopes, pending_work, offloads, watch,
                 batches, incremental, files, deploy, ghosts, events>>

UpdateState ==
  /\ \/ Complete \/ TriggerFetch \/ TriggerPacking \/ TriggerAutoDeploy \/ GoIdle
     \/ IdlePromotion \/ NothingToDo
  /\ Continue

-----------------------------------------------------------------------------
(* check_startup_transitions, then maybe_trigger_derivation.               *)

CheckStartup ==
  /\ pc = "startup" /\ pc' = "derive"
  /\ UNCHANGED <<level, session, scopes, pending_work, fs, polled, batches,
                 incremental, created, snapshot, signals, indexing, deploy, ghosts,
                 events>>

ReconciliationOver ==
  /\ CheckStartup
  /\ startup = "Reconciling" /\ Quiet /\ "vacuum" \notin offloads
  /\ offloads' = offloads \cup {"vacuum"}
  /\ UNCHANGED <<startup, watcher, command, observed>>

\* Ready, or the vacuum is over: start_watching, once.
StartWatching ==
  /\ CheckStartup
  /\ startup = "Ready" \/ (startup = "Vacuuming" /\ Quiet)
  /\ startup' = "Ready"
  /\ IF CanStartWatching
     THEN /\ watcher' = "InitialScan" /\ command' = "Start" /\ observed' = {}
          /\ offloads' = offloads \cup {"cache"}
     ELSE UNCHANGED <<watcher, command, observed, offloads>>

StillStarting ==
  /\ CheckStartup
  /\ startup \in {"Reconciling", "Vacuuming"}
  /\ UNCHANGED <<startup, watcher, command, observed, offloads>>

\* Mutant: where nothing is observed, nothing is derived.
DerivationForgotten ==
  /\ pc = "derive" /\ pc' = "select"
  /\ derivation_needed' = (derivation_needed /\ ~DeriveDue)
  /\ IF DeriveDue /\ observed # {} THEN QueueDerivation(observed)
     ELSE UNCHANGED <<session, snapshot>>
  /\ UNCHANGED <<startup, level, session_scope, pending_scope, startup_analysis,
                 pending_work, offloads, watch, batches, incremental, created,
                 observed, signals, indexing, deploy, ghosts, events>>

MaybeTriggerDerivation ==
  /\ pc = "derive" /\ pc' = "select"
  /\ IF DeriveDue
     THEN derivation_needed' = FALSE /\ QueueDerivation(observed)
     ELSE UNCHANGED <<derivation_needed, session, snapshot>>
  /\ UNCHANGED <<startup, level, session_scope, pending_scope, startup_analysis,
                 pending_work, offloads, watch, batches, incremental, created,
                 observed, signals, indexing, deploy, ghosts, events>>

Bookkeeping ==
  AwaitSetup \/ Panic \/ UpdateState \/ ReconciliationOver \/ StartWatching \/ StillStarting
    \/ MaybeTriggerDerivation

-----------------------------------------------------------------------------

OperatorCommand ==
  CommandMaintenance \/ CommandPacking \/ CommandFetch \/ CommandCoverArt
    \/ CommandConfirm \/ CompleteSetup

Step ==
  \/ OperatorCommand
  \/ TaskResult
  \/ WatcherMessage \/ DiskChanges \/ Elapse
  \/ FetchMessage
  \/ OffloadAnswer
  \/ Bookkeeping

Next == Step /\ UNCHANGED config

\* Hades answers every task, every blocking task ends and a fetch batch too, the
\* watcher thread's walks end, and select! gives each arm its turn.
AllAnswered ==
  /\ \A k \in Kind : []<>(k \notin out)
  /\ \A o \in Offload : []<>(o \notin offloads)
  /\ []<>(fs \notin {"scanning", "announcing"})
  /\ []<>(fs = "polling" => polled)
  /\ []<>~fetching /\ []<>~covering

\* With no task out the write queue runs dry; an idle Witch sees the promotion
\* timer expire.
QueueRunsDry ==
  /\ []<>~(mode = "Working" /\ Quiet)
  /\ []<>~(startup \in {"Reconciling", "Vacuuming"} /\ Quiet /\ "vacuum" \notin offloads)
  /\ []<>~(mode = "Idle" /\ IdleAction = "TriggerFullRepack")

\* The loop comes round every 100 ms: a round that has begun ends, and what one
\* would do about a linger that is over or a watcher to start is not put off.
RoundsGoOn ==
  /\ []<>(pc \in {"select", "panicked"})
  /\ []<>~(mode = "Done" /\ age >= Linger)
  /\ []<>~(startup = "Ready" /\ CanStartWatching)

Spec ==
  /\ Init /\ [][Next]_vars
  /\ WF_vars(Elapse /\ UNCHANGED config)
  /\ RoundsGoOn /\ AllAnswered /\ QueueRunsDry

\* And a polling watcher does not keep the Witch Working for ever.
SpacedSpec == Spec /\ []<>(Inotify \/ mode # "Working")

-----------------------------------------------------------------------------
(* Properties.                                                             *)

\* Reasoning (AllInitialScansComplete raises the level) only starts on a database
\* that check_startup_transitions has seen set up, reconciled and vacuumed.
LevelNeedsReady == level # "None" => startup = "Ready"

\* start_watching is called once, so the Start command must survive whatever
\* else asks for the watcher's cache until the thread has it.
StartNotLost == watcher = "InitialScan" /\ fs = "idle" => "cache" \in offloads /\ command = "Start"

\* transition_to_completed accepts mutations (level Full) only once a derivation
\* has run over the files of the initial scan.
FullAfterDerivation == [][level # "Full" /\ level' = "Full" => ~stale]_vars

\* The assertion of transition_to_completed, that the session which completes at
\* level None was maintenance, is only tripped by a packing, a fetch or a cover art
\* fetch that the operator asks for: all other work waits for the initial scan.
Panicked == pc = "panicked"
NeverPanics == Commands \cap {"packing", "fetch", "covers"} = {} => ~Panicked

\* A session in which a mutation changed something schedules a derivation when
\* transition_to_completed ends it.
MutationsNoticed == [][changed /\ ~changed' => derivation_needed']_vars

\* Once set up, the Witch gets through check_startup_transitions, the initial scan
\* and the first derivation to accepting mutations, unless it panics.
EventuallyFull == startup # "AwaitingSetup" ~> level = "Full" \/ Panicked

\* A file the Witch has observed is indexed, flagged corrupt or gone in the end,
\* whichever of the two auto-index checks finds it.
FilesIndexed ==
  \A f \in File : f \in observed ~> f \in indexed \cup corrupt \/ f \notin created \/ Panicked

\* A change seen by the watcher or made by a mutation is derived from in the end:
\* maybe_trigger_derivation keeps the flag until the Witch is Idle at Full.
DerivationHappens == derivation_needed ~> "derive" \in out \/ Panicked

\* What an analysis found deployable is tried by an auto-deploy or sidecar check,
\* whichever flag of pending_work asks for it, unless the analysis was AllDone's: that
\* one takes the scope of the mutations of its session and sets neither flag, so what
\* they made deployable waits for the next analysis that does.
DeployTried ==
  AutoDeploy /\ deploy = "ready" /\ ~unasked ~> deploy # "ready" \/ unasked

\* An incremental packing is followed by a full one (fire_idle_full_repack, unless
\* the configuration turns it off), or by one the operator asks for.
RepackCatchesUp == FullRepack /\ incremental ~> ~incremental \/ Panicked
=============================================================================
