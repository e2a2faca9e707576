-------------------------------- MODULE Engine --------------------------------
(***************************************************************************)
(* The Witch as a task engine: the operator's transaction, the staged      *)
(* mutation phases, the soft-mutation and computation phases, the work     *)
(* state with its in-flight counter, Hades' worker pool and the results it *)
(* sends back, and the DB write queue the barriers wait for.               *)
(*                                                                         *)
(* The engine is modelled from the moment reasoning is Full (the only      *)
(* level at which confirm_transaction is accepted, and one the Witch never *)
(* leaves); module Pipeline models how it gets there and what it decides   *)
(* to queue.  Here the watcher, the fetch scheduler, the auto-indexer and  *)
(* the auto-deployer are an environment that queues work at any time.      *)
(*                                                                         *)
(* Every queued task is a distinct element of Task, used once: `used`      *)
(* bounds the model and names no part of the code's state.  A behaviour    *)
(* may start with some tasks used already: it then never queues those.     *)
(***************************************************************************)
EXTENDS Integers, Sequences, FiniteSets

CONSTANTS
  Mutation,     \* mutations: staged, auto-indexed or spawned by others
  Soft,         \* soft mutations (auto-deploy)
  Comp,         \* computations and maintenance tasks
  Other,        \* writes the fetch scheduler and the Witch itself enqueue
  StageOf,      \* a mutation's MutationExecutionStage
  PhaseOf,      \* a soft mutation's SoftMutationPhase
  Key,          \* decision keys
  Spent,        \* what a behaviour may leave out: sets of tasks taken as used
  MaxConfirms   \* bound on the number of confirmed transactions

Task == Mutation \cup Soft \cup Comp

\* Config < DB < DiskFlush < DiskDeploy, by declaration order.
Stage == 0..3
\* SoftMutationPhase: Cleanup < Deploy.
Cleanup == 0
Deploy == 1

ASSUME StageType == StageOf \in [Mutation -> Stage]
ASSUME PhaseType == PhaseOf \in [Soft -> {Cleanup, Deploy}]
ASSUME KindsDisjoint == /\ Mutation \cap Soft = {}
                        /\ Mutation \cap Comp = {}
                        /\ Soft \cap Comp = {}
                        /\ Task \cap Other = {}
ASSUME TaskFinite == IsFiniteSet(Task)
ASSUME SpentType == Spent \subseteq SUBSET (Task \cup Other)
ASSUME MaxConfirmsNat == MaxConfirms \in Nat

VARIABLES
  arm,          \* the run_loop arm being drained, "select" between two
  work,         \* WorkState
  active,       \* a transaction is open
  decisions,    \* its decisions, per key
  mphases,      \* pending_mutation_phases: what is left of each stage
  sphases,      \* pending_soft_mutation_phases
  cphases,      \* pending_computation_phases
  running,      \* tasks Hades has and has not answered
  results,      \* tasks whose result is in Hades' message channel
  backlog,      \* who has writes enqueued on the DB thread
  queue_empty,  \* the flag the DB thread publishes
  storing,      \* the DB thread read depth zero and is about to set the flag
  used,         \* tasks queued and outside writes made so far
  batch,        \* mutations of the last confirmed transaction
  confirmed,    \* confirmed mutations whose result is not in yet
  confirms      \* transactions confirmed so far

txn_vars == <<active, decisions>>
phase_vars == <<mphases, sphases, cphases>>
db_vars == <<backlog, queue_empty, storing>>
ghosts == <<batch, confirmed, confirms>>
vars == <<arm, work, active, decisions, mphases, sphases, cphases, running,
          results, backlog, queue_empty, storing, used, batch, confirmed,
          confirms>>

Arm == {"select", "cmd", "hades", "events", "offload"}

Work == [mode : {"Idle", "Working", "Done"}, in_flight : Nat, processed : BOOLEAN]

Resting(mode) == [mode |-> mode, in_flight |-> 0, processed |-> FALSE]

NoPhases == [s \in Stage |-> {}]
NoDecisions == [k \in Key |-> {}]

NonEmptySubset(S) == (SUBSET S) \ {{}}

Staged == UNION {decisions[k] : k \in Key}
Fresh == Task \ (used \cup Staged)
Outstanding == running \cup results

TypeOK ==
  /\ arm \in Arm
  /\ work \in Work
  /\ active \in BOOLEAN
  /\ decisions \in [Key -> SUBSET Mutation]
  /\ mphases \in [Stage -> SUBSET Mutation]
  /\ sphases \in Seq(SUBSET Soft)
  /\ cphases \in Seq(SUBSET Comp)
  /\ running \subseteq Task
  /\ results \subseteq Task
  /\ backlog \subseteq Task \cup Other
  /\ queue_empty \in BOOLEAN
  /\ storing \in BOOLEAN
  /\ used \subseteq Task \cup Other
  /\ batch \subseteq Mutation
  /\ confirmed \subseteq Mutation
  /\ confirms \in Nat

Init ==
  /\ arm = "select"
  /\ work = Resting("Idle")
  /\ active = FALSE
  /\ decisions = NoDecisions
  /\ mphases = NoPhases
  /\ sphases = <<>>
  /\ cphases = <<>>
  /\ running = {}
  /\ results = {}
  /\ backlog = {}
  /\ queue_empty = TRUE
  /\ storing = FALSE
  /\ used \in Spent
  /\ batch = {}
  /\ confirmed = {}
  /\ confirms = 0

-----------------------------------------------------------------------------
(* Queueing: queue.rs and WorkState's counters.                            *)

\* transition_to_working: the counters start over unless already Working.
ToWorking(w) ==
  IF w.mode = "Working" THEN w
  ELSE [mode |-> "Working", in_flight |-> 0, processed |-> FALSE]

\* inc_in_flight, n times: a no-op outside Working.
IncInFlight(w, n) ==
  IF w.mode = "Working" THEN [w EXCEPT !.in_flight = @ + n] ELSE w

\* Mutant: the result is handled without taking the task off the counter.
ForgetsDecrement(w) ==
  IF w.mode = "Working" THEN [w EXCEPT !.processed = TRUE] ELSE w

\* Mutant: inc_processed is skipped, as on an early return.
ForgetsProcessed(w) ==
  IF w.mode = "Working" THEN [w EXCEPT !.in_flight = IF @ > 0 THEN @ - 1 ELSE 0] ELSE w

\* dec_in_flight (saturating) and inc_processed: no-ops outside Working.
OneProcessed(w) ==
  IF w.mode = "Working"
  THEN [w EXCEPT !.in_flight = IF @ > 0 THEN @ - 1 ELSE 0, !.processed = TRUE]
  ELSE w

\* queue_*_internal: wake up, then enqueue_one for each task of S.
Queued(w, S) == IF S = {} THEN w ELSE IncInFlight(ToWorking(w), Cardinality(S))

\* enqueue_one's dispatch to Hades.
Dispatch(S) == running' = running \cup S /\ used' = used \cup S

Receive(a) == arm \in {"select", a} /\ arm' = a

-----------------------------------------------------------------------------
(* The transaction: commands of the operator.                              *)

\* (The bound on confirmations bounds the transactions too.)
StartTransaction ==
  /\ Receive("cmd")
  /\ ~active
  /\ confirms < MaxConfirms
  /\ active' = TRUE
  /\ decisions' = NoDecisions
  /\ UNCHANGED <<work, phase_vars, running, results, db_vars, used, ghosts>>

\* A decision replaces the one staged under the same key.
AddDecision(k, ms) ==
  /\ Receive("cmd")
  /\ active
  /\ ms \subseteq Fresh
  /\ decisions' = [decisions EXCEPT ![k] = ms]
  /\ UNCHANGED <<work, active, phase_vars, running, results, db_vars, used, ghosts>>

RemoveDecision(k) ==
  /\ Receive("cmd")
  /\ active
  /\ decisions' = [decisions EXCEPT ![k] = {}]
  /\ UNCHANGED <<work, active, phase_vars, running, results, db_vars, used, ghosts>>

Discard ==
  /\ Receive("cmd")
  /\ active
  /\ active' = FALSE
  /\ decisions' = NoDecisions
  /\ UNCHANGED <<work, phase_vars, running, results, db_vars, used, ghosts>>

Bucket(ms, s) == {m \in ms : StageOf[m] = s}

FirstStage(ms) == CHOOSE s \in Stage :
                    /\ Bucket(ms, s) # {}
                    /\ \A r \in Stage : r < s => Bucket(ms, r) = {}

\* Mutant: the stages after the second are not stashed.
StashOne(ms) ==
  [s \in Stage |-> IF s = FirstStage(ms) + 1 THEN Bucket(ms, s) ELSE {}]

\* What confirm_transaction leaves in pending_mutation_phases: the buckets
\* after the first.  Whatever was pending there is replaced.
Stash(ms) ==
  [s \in Stage |-> IF s = FirstStage(ms) THEN {} ELSE Bucket(ms, s)]

ConfirmTransaction ==
  /\ Receive("cmd")
  /\ active
  /\ confirms < MaxConfirms
  /\ confirms' = confirms + 1
  /\ active' = FALSE
  /\ decisions' = NoDecisions
  /\ LET first == Bucket(Staged, FirstStage(Staged)) IN
     IF Staged = {}
     THEN UNCHANGED <<work, mphases, running, used, batch, confirmed>>
     ELSE /\ mphases' = Stash(Staged)
          /\ work' = Queued(work, first)
          /\ running' = running \cup first
          /\ used' = used \cup Staged
          /\ batch' = Staged
          /\ confirmed' = confirmed \cup Staged
  /\ UNCHANGED <<sphases, cphases, results, db_vars>>

-----------------------------------------------------------------------------
(* Work queued by the rest of the Witch.                                   *)

\* Watcher events, scheduler messages and operator requests queue one
\* computation (or maintenance task) each.
QueueComputation(a, c) ==
  /\ Receive(a)
  /\ work' = Queued(work, {c})
  /\ Dispatch({c})
  /\ UNCHANGED <<txn_vars, phase_vars, results, db_vars, ghosts>>

\* AutoIndexResult: index mutations go straight to the pool, past the
\* transaction and past the pending phases.
QueueMutations(S) ==
  /\ Receive("offload")
  /\ work' = Queued(work, S)
  /\ Dispatch(S)
  /\ UNCHANGED <<txn_vars, phase_vars, results, db_vars, ghosts>>

\* queue_soft_mutations_internal: the lowest phase present now, the other
\* appended to what is already pending.
QueueSoft(S) ==
  /\ Receive("offload")
  /\ LET clean == {t \in S : PhaseOf[t] = Cleanup}
         now   == IF clean # {} THEN clean ELSE S
     IN /\ work' = Queued(work, now)
        /\ running' = running \cup now
        /\ used' = used \cup S
        /\ sphases' = IF S = now THEN sphases ELSE Append(sphases, S \ now)
  /\ UNCHANGED <<txn_vars, mphases, cphases, results, db_vars, ghosts>>

-----------------------------------------------------------------------------
(* Hades' workers and the DB thread.                                       *)

\* A worker enqueues writes while it runs its task...
TaskWrites(t) ==
  /\ t \in running \ backlog
  /\ backlog' = backlog \cup {t}
  /\ queue_empty' = FALSE
  /\ UNCHANGED <<arm, work, txn_vars, phase_vars, running, results, storing, used, ghosts>>

\* ... and always answers, a panic included.
TaskFinishes(t) ==
  /\ t \in running
  /\ running' = running \ {t}
  /\ results' = results \cup {t}
  /\ UNCHANGED <<arm, work, txn_vars, phase_vars, db_vars, used, ghosts>>

\* The fetch scheduler stores what it fetched, and the Witch clears stale
\* signals, whether or not a session is running: nobody counts these.
OthersWrite(o) ==
  /\ o \in Other \ used
  /\ backlog' = backlog \cup {o}
  /\ queue_empty' = FALSE
  /\ used' = used \cup {o}
  /\ UNCHANGED <<arm, work, txn_vars, phase_vars, running, results, storing, ghosts>>

\* The DB thread retires an operation; if none is left it goes on to raise the
\* flag, a step of its own (module DbQueue has the atomics one by one).
DbApply(t) ==
  /\ ~storing
  /\ t \in backlog
  /\ backlog' = backlog \ {t}
  /\ storing' = (backlog' = {})
  /\ UNCHANGED <<arm, work, txn_vars, phase_vars, running, results, queue_empty, used, ghosts>>

DbStore ==
  /\ storing
  /\ storing' = FALSE
  /\ queue_empty' = TRUE
  /\ UNCHANGED <<arm, work, txn_vars, phase_vars, running, results, backlog, used, ghosts>>

-----------------------------------------------------------------------------
(* process_task_result.                                                    *)

\* Spawned computations wake the Witch, spawned mutations do not.
AfterResult(w, comps, muts) ==
  IncInFlight(Queued(OneProcessed(w), comps), Cardinality(muts))

\* A failed task spawns nothing; a mutation may spawn computations and further
\* mutations, a soft mutation computations, a computation computations at
\* once and deferred phases of them.
ProcessTaskResult(t, comps, muts, deferred) ==
  /\ Receive("hades")
  /\ t \in results
  /\ t \notin Mutation => muts = {}
  /\ t \notin Comp => deferred = <<>>
  /\ work' = AfterResult(work, comps, muts)
  /\ running' = running \cup comps \cup muts
  /\ results' = results \ {t}
  /\ cphases' = cphases \o deferred
  /\ used' = used \cup comps \cup muts \cup UNION {deferred[i] : i \in DOMAIN deferred}
  /\ confirmed' = confirmed \ {t}
  /\ UNCHANGED <<txn_vars, mphases, sphases, db_vars, batch, confirms>>

-----------------------------------------------------------------------------
(* update_state, after every drained arm and every 100 ms.                 *)

Drained == work.in_flight = 0 /\ queue_empty

\* Mutant: the barrier looks at the write queue only.
DrainedWritesOnly == queue_empty

PhasesPending == mphases # NoPhases \/ sphases # <<>> \/ cphases # <<>>

NextStage == CHOOSE s \in Stage :
               /\ mphases[s] # {}
               /\ \A r \in Stage : r < s => mphases[r] = {}

\* Mutant: the back of the deque is popped instead of the front.
LastStage == CHOOSE s \in Stage :
               /\ mphases[s] # {}
               /\ \A r \in Stage : r > s => mphases[r] = {}

PopStage == NextStage

\* The barrier in front of every pending phase.
Barrier == Drained

AdvanceMutations ==
  /\ work.mode = "Working" /\ Barrier
  /\ mphases # NoPhases
  /\ mphases' = [mphases EXCEPT ![PopStage] = {}]
  /\ work' = Queued(work, mphases[PopStage])
  /\ Dispatch(mphases[PopStage])
  /\ UNCHANGED <<txn_vars, sphases, cphases, results, db_vars, ghosts>>

AdvanceSoft ==
  /\ work.mode = "Working" /\ Barrier
  /\ mphases = NoPhases /\ sphases # <<>>
  /\ sphases' = Tail(sphases)
  /\ work' = IncInFlight(work, Cardinality(Head(sphases)))
  /\ Dispatch(Head(sphases))
  /\ UNCHANGED <<txn_vars, mphases, cphases, results, db_vars, ghosts>>

AdvanceComputations ==
  /\ work.mode = "Working" /\ Barrier
  /\ mphases = NoPhases /\ sphases = <<>> /\ cphases # <<>>
  /\ cphases' = Tail(cphases)
  /\ work' = Queued(work, Head(cphases))
  /\ Dispatch(Head(cphases))
  /\ UNCHANGED <<txn_vars, mphases, sphases, results, db_vars, ghosts>>

\* ~has_pending(): the pending phases count as pending work.
NothingPending == Drained /\ ~PhasesPending

\* transition_to_completed; follow is the content analysis it may queue once
\* the counters are reset (at most one computation).
CompleteSession(follow) ==
  /\ work.mode = "Working"
  /\ NothingPending
  /\ work.processed
  /\ work' = Queued(Resting("Done"), follow)
  /\ Dispatch(follow)
  /\ UNCHANGED <<txn_vars, phase_vars, results, db_vars, ghosts>>

\* transition_to_idle when the linger is over: go idle, queue a release
\* packing, or stay Done (a fetch or a deploy check was requested).
LingerOver(follow) ==
  /\ work.mode = "Done"
  /\ work' \in IF follow = {} THEN {work, Resting("Idle")} ELSE {Queued(work, follow)}
  /\ Dispatch(follow)
  /\ UNCHANGED <<txn_vars, phase_vars, results, db_vars, ghosts>>

\* maybe_run_idle_promotion and maybe_trigger_derivation queue from Idle.
IdleTrigger(follow) ==
  /\ work.mode = "Idle"
  /\ work' = Queued(work, follow)
  /\ Dispatch(follow)
  /\ UNCHANGED <<txn_vars, phase_vars, results, db_vars, ghosts>>

\* Working, and some task or write is still out; or nothing is due.
NothingToDo ==
  work.mode = "Working" =>
    /\ ~(Barrier /\ PhasesPending)
    /\ ~(NothingPending /\ work.processed)

StayPut ==
  /\ NothingToDo
  /\ UNCHANGED <<work, txn_vars, phase_vars, running, results, db_vars, used, ghosts>>

UpdateState ==
  \/ AdvanceMutations
  \/ AdvanceSoft
  \/ AdvanceComputations
  \/ \E follow \in {{}} \cup {{c} : c \in Comp \cap Fresh} :
       CompleteSession(follow) \/ LingerOver(follow) \/ IdleTrigger(follow)
  \/ StayPut

Bookkeep == arm' = "select" /\ UpdateState

-----------------------------------------------------------------------------

Operator ==
  \/ StartTransaction
  \/ \E k \in Key, ms \in SUBSET (Mutation \cap Fresh) : AddDecision(k, ms)
  \/ \E k \in Key : RemoveDecision(k)
  \/ Discard
  \/ ConfirmTransaction

Environment ==
  \/ \E a \in {"cmd", "events"}, c \in Comp \cap Fresh : QueueComputation(a, c)
  \/ \E S \in NonEmptySubset(Mutation \cap Fresh) : QueueMutations(S)
  \/ \E S \in NonEmptySubset(Soft \cap Fresh) : QueueSoft(S)

\* The deferred phases a computation may return: none, one or two.
DeferredPhases(S) ==
  {<<>>} \cup {<<p>> : p \in NonEmptySubset(S)}
         \cup {<<p, q>> : p \in NonEmptySubset(S), q \in NonEmptySubset(S)}

ProcessResult ==
  \E t \in results, comps \in SUBSET (Comp \cap Fresh),
     muts \in SUBSET (Mutation \cap Fresh) :
    \E deferred \in {d \in DeferredPhases((Comp \cap Fresh) \ comps) :
                       Len(d) = 2 => d[1] \cap d[2] = {}} :
      ProcessTaskResult(t, comps, muts, deferred)

Workers == \/ \E t \in Task : TaskWrites(t) \/ TaskFinishes(t)
           \/ \E o \in Other : OthersWrite(o)

DbThread == DbStore \/ \E t \in Task \cup Other : DbApply(t)

Next == Operator \/ Environment \/ Workers \/ DbThread \/ ProcessResult \/ Bookkeep

\* The housekeeping tick runs update_state for ever, every worker answers (a
\* panic is answered too) and the DB thread drains its channel.  Hades' arm can
\* be passed over while other arms are served, but tokio's select! picks among
\* the ready arms at random, so it is not passed over for ever.
Fairness ==
  /\ WF_vars(Bookkeep)
  /\ SF_vars(ProcessResult)
  /\ WF_vars(DbThread)
  /\ \A t \in Task : WF_vars(TaskFinishes(t))

Spec == Init /\ [][Next]_vars /\ Fairness

-----------------------------------------------------------------------------
(* Properties.                                                             *)

Pending == (UNION {mphases[s] : s \in Stage})
           \cup (UNION {sphases[i] : i \in DOMAIN sphases})
           \cup (UNION {cphases[i] : i \in DOMAIN cphases})

\* While Working, in_flight counts exactly the tasks Hades has or has answered
\* without the Witch looking yet: spawned mutations, which do not wake the
\* Witch, are counted, no reset on the way into Working loses a task, and
\* the saturating decrement never saturates.
InFlightExact ==
  /\ running \cap results = {}
  /\ work.mode = "Working" =>
       work.in_flight = Cardinality(running) + Cardinality(results)

\* Outside Working nothing is out and no phase is pending.  (A result that came
\* in then would not be counted, and a pending phase would wait for a wake-up
\* that has nothing to do with it.)
RestMeansDrained ==
  work.mode # "Working" => Outstanding = {} /\ ~PhasesPending

\* A session that has nothing out has processed something, so the test
\* `processed > 0` of update_state never holds the Witch in Working.
WorkingCanFinish ==
  work.mode = "Working" /\ Outstanding = {} => work.processed

\* A task leaves the pending phases for the pool only when the pool is idle
\* and every result has been taken in: the drain barrier.
PhaseStartsQuiet ==
  [][Pending \cap (running' \ running) # {} => Outstanding = {}]_vars

\* The mutations of a confirmed transaction run stage by stage: when one has
\* been dispatched, all those of the stages before it are over and done with.
StageOrder ==
  \A m, n \in batch :
    StageOf[m] < StageOf[n] /\ n \notin Pending => m \notin Pending \cup Outstanding

\* confirm_transaction "queue[s] all mutations for execution": until its result
\* is in, a confirmed mutation is pending, in the pool or in the channel.
ConfirmedNotLost == confirmed \subseteq Pending \cup Outstanding

\* Every session ends: Working is left, whatever fails, as long as tasks end.
WorkSettles == work.mode = "Working" ~> work.mode # "Working"
=============================================================================
