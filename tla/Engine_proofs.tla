----------------------------- MODULE Engine_proofs -----------------------------
(* For any finite set of tasks, any assignment of stages and phases and any *)
(* number of transactions: the in-flight counter is exact, nothing is left  *)
(* behind outside Working, a drained session can always close, and a phase  *)
(* starts only on a quiet pool.                                             *)
(*                                                                          *)
(* InFlightExact is not inductive by itself.  A wake-up resets the counter, *)
(* so it needs RestMeansDrained: nothing is out when the Witch wakes up.    *)
(* RestMeansDrained needs InFlightExact in turn (a zero counter means that  *)
(* nothing is out), and both need to know that no task is dispatched while  *)
(* it is already out: the sets of tasks are Accounted for by `used`.        *)
EXTENDS Engine, FiniteSetTheorems, SequenceTheorems, TLAPS

\* Every task that is out or pending has been used, no staged one has.
Accounted ==
  /\ Outstanding \subseteq used
  /\ mphases \in [Stage -> SUBSET used]
  /\ sphases \in Seq(SUBSET used)
  /\ cphases \in Seq(SUBSET used)
  /\ \A k \in Key : decisions[k] \cap used = {}

IInv == /\ TypeOK
        /\ InFlightExact
        /\ RestMeansDrained
        /\ WorkingCanFinish
        /\ Accounted

-----------------------------------------------------------------------------
(* Counting.                                                               *)

\* Sets of tasks can be counted.
LEMMA TasksAreFinite ==
  ASSUME NEW S \in SUBSET Task
  PROVE  IsFiniteSet(S) /\ Cardinality(S) \in Nat /\ (Cardinality(S) = 0 <=> S = {})
  BY TaskFinite, FS_Subset, FS_CardinalityType, FS_EmptySet

\* Tasks of two kinds count as many as each of them together.
LEMMA DisjointUnionCounts ==
  ASSUME NEW S \in SUBSET Task, NEW T \in SUBSET Task, S \cap T = {}
  PROVE  Cardinality(S \cup T) = Cardinality(S) + Cardinality(T)
<1>1. IsFiniteSet(S) /\ IsFiniteSet(T)
  BY TasksAreFinite
<1>2. Cardinality(S \cap T) = 0
  BY FS_EmptySet
<1>3. Cardinality(S \cup T) = Cardinality(S) + Cardinality(T) - Cardinality(S \cap T)
  BY <1>1, FS_Union
<1>4. Cardinality(S) \in Nat /\ Cardinality(T) \in Nat
  BY TasksAreFinite
<1> QED
  BY <1>2, <1>3, <1>4

\* One task less counts one less.
LEMMA RemovalCounts ==
  ASSUME NEW S \in SUBSET Task, NEW t \in S
  PROVE  Cardinality(S \ {t}) = Cardinality(S) - 1 /\ Cardinality(S) > 0
<1>1. IsFiniteSet(S) /\ Cardinality(S) \in Nat /\ S # {}
  BY TasksAreFinite
<1>2. Cardinality(S) # 0
  BY <1>1, TasksAreFinite
<1>3. Cardinality(S \ {t}) = Cardinality(S) - 1
  BY <1>1, FS_RemoveElement
<1> QED
  BY <1>1, <1>2, <1>3

\* Dispatching adds to what is in flight and leaves the rest of the work alone.
LEMMA IncrementAdds ==
  ASSUME NEW w \in Work, NEW n \in Nat, w.mode = "Working"
  PROVE  /\ IncInFlight(w, n) \in Work
         /\ IncInFlight(w, n).mode = "Working"
         /\ IncInFlight(w, n).in_flight = w.in_flight + n
         /\ IncInFlight(w, n).processed = w.processed
  BY DEF IncInFlight, Work

\* A counter at zero means that nothing is out.
LEMMA ZeroMeansQuiet ==
  ASSUME IInv, work.mode = "Working", work.in_flight = 0
  PROVE  Outstanding = {}
<1>1. running \subseteq Task /\ results \subseteq Task
  BY DEF IInv, TypeOK
<1>2. 0 = Cardinality(running) + Cardinality(results)
  BY DEF IInv, InFlightExact
<1>3. Cardinality(running) = 0 /\ Cardinality(results) = 0
  BY <1>1, <1>2, TasksAreFinite
<1> QED
  BY <1>1, <1>3, TasksAreFinite DEF Outstanding

\* Waking up with nothing out: the counter starts at the number of tasks queued.
LEMMA WakingCounts ==
  ASSUME NEW S \in SUBSET Task, Outstanding = {},
         NEW w \in Work, w.mode # "Working", w.in_flight = 0,
         work' = Queued(w, S), running' = running \cup S, results' = results
  PROVE  /\ work' \in Work
         /\ InFlightExact'
         /\ WorkingCanFinish'
         /\ S # {} => work'.mode = "Working"
         /\ S = {} => work' = w
<1>1. running = {} /\ results = {} /\ running' = S /\ results' = {}
  BY DEF Outstanding
<1>2. Cardinality(S) \in Nat /\ Cardinality(results') = 0
  BY <1>1, TasksAreFinite, FS_EmptySet
<1>3. CASE S = {}
  <2>1. work' = w
    BY <1>3 DEF Queued
  <2> QED
    BY <2>1, <1>1, <1>3 DEF InFlightExact, WorkingCanFinish
<1>4. CASE S # {}
  <2>1. ToWorking(w) = [mode |-> "Working", in_flight |-> 0, processed |-> FALSE]
    BY DEF ToWorking
  <2>2. /\ ToWorking(w) \in Work /\ ToWorking(w).mode = "Working"
        /\ ToWorking(w).in_flight = 0
    BY <2>1 DEF Work
  <2>3. work' = IncInFlight(ToWorking(w), Cardinality(S))
    BY <1>4 DEF Queued
  <2>4. /\ work' \in Work /\ work'.mode = "Working"
        /\ work'.in_flight = 0 + Cardinality(S)
    BY <2>2, <2>3, <1>2, IncrementAdds
  <2>5. InFlightExact'
    BY <2>4, <1>1, <1>2 DEF InFlightExact
  <2> QED
    BY <2>4, <2>5, <1>1, <1>4 DEF WorkingCanFinish, Outstanding
<1> QED
  BY <1>3, <1>4

\* Queueing tasks that are not out keeps the counter exact, whatever the
\* state the Witch is woken up from.
LEMMA QueueingKeepsCount ==
  ASSUME IInv, NEW S \in SUBSET Task, S \cap Outstanding = {},
         work' = Queued(work, S), running' = running \cup S, results' = results
  PROVE  /\ work' \in Work
         /\ InFlightExact'
         /\ WorkingCanFinish'
         /\ S # {} => work'.mode = "Working"
         /\ S = {} => work' = work
<1>1. /\ running \in SUBSET Task /\ results \in SUBSET Task
      /\ work.mode \in {"Idle", "Working", "Done"}
      /\ work.in_flight \in Nat /\ work.processed \in BOOLEAN
      /\ work \in Work
  BY DEF IInv, TypeOK, Work
<1>2. Cardinality(running \cup S) = Cardinality(running) + Cardinality(S)
  BY <1>1, DisjointUnionCounts DEF Outstanding
<1>3. /\ Cardinality(S) \in Nat /\ Cardinality(running) \in Nat
      /\ Cardinality(results) \in Nat
  BY <1>1, TasksAreFinite
<1>4. CASE S = {}
  <2>1. work' = work /\ running' = running
    BY <1>4 DEF Queued
  <2> QED
    BY <2>1, <1>1, <1>4 DEF IInv, InFlightExact, WorkingCanFinish, Outstanding
<1>5. CASE S # {} /\ work.mode = "Working"
  <2>1. work' = IncInFlight(work, Cardinality(S))
    BY <1>5 DEF Queued, ToWorking
  <2>2. /\ work' \in Work /\ work'.mode = "Working"
        /\ work'.in_flight = work.in_flight + Cardinality(S)
    BY <2>1, <1>1, <1>3, <1>5, IncrementAdds
  <2>3. work.in_flight = Cardinality(running) + Cardinality(results)
    BY <1>5 DEF IInv, InFlightExact
  <2>4. InFlightExact'
    BY <2>2, <2>3, <1>2, <1>3, <1>1 DEF IInv, InFlightExact, Outstanding
  <2> QED
    BY <2>2, <2>4, <1>5 DEF WorkingCanFinish, Outstanding
<1>6. CASE S # {} /\ work.mode # "Working"
  <2>1. Outstanding = {}
    BY <1>6 DEF IInv, RestMeansDrained
  <2>2. ToWorking(work) = ToWorking(Resting("Done")) /\ Resting("Done") \in Work
    BY <1>6 DEF ToWorking, Resting, Work
  <2>3. work' = Queued(Resting("Done"), S)
    BY <1>6, <2>2 DEF Queued
  <2>4. Resting("Done").mode # "Working" /\ Resting("Done").in_flight = 0
    BY DEF Resting
  <2> QED
    BY <1>6, <2>1, <2>2, <2>3, <2>4, WakingCounts
<1> QED
  BY <1>4, <1>5, <1>6

-----------------------------------------------------------------------------
(* The transaction.                                                        *)

\* Using more tasks keeps the pending phases accounted for.
LEMMA UsedGrows ==
  ASSUME IInv, used \subseteq used'
  PROVE  /\ Outstanding \subseteq used'
         /\ mphases \in [Stage -> SUBSET used']
         /\ sphases \in Seq(SUBSET used')
         /\ cphases \in Seq(SUBSET used')
<1>1. SUBSET used \subseteq SUBSET used'
  OBVIOUS
<1>2. Seq(SUBSET used) \subseteq Seq(SUBSET used')
  BY <1>1, SeqMonotonic
<1> QED
  BY <1>1, <1>2 DEF IInv, Accounted

\* A step that leaves the work and the tasks alone, and stages only fresh ones.
LEMMA StagingStep ==
  ASSUME IInv,
         UNCHANGED <<work, phase_vars, running, results, db_vars, used, ghosts>>,
         arm' \in Arm, active' \in BOOLEAN,
         decisions' \in [Key -> SUBSET Mutation],
         \A k \in Key : decisions'[k] \cap used = {}
  PROVE  IInv'
<1> USE DEF phase_vars, db_vars, ghosts
<1>1. TypeOK'
  BY DEF IInv, TypeOK
<1>2. InFlightExact' /\ WorkingCanFinish'
  BY DEF IInv, InFlightExact, WorkingCanFinish, Outstanding
<1>3. RestMeansDrained'
  BY DEF IInv, RestMeansDrained, Outstanding, PhasesPending
<1>4. Accounted'
  BY DEF IInv, Accounted, Outstanding
<1> QED
  BY <1>1, <1>2, <1>3, <1>4 DEF IInv

\* What an operator stages stays apart from what has been queued.
LEMMA OperatorStages ==
  ASSUME IInv,
         \/ StartTransaction
         \/ \E k \in Key, ms \in SUBSET (Mutation \cap Fresh) : AddDecision(k, ms)
         \/ \E k \in Key : RemoveDecision(k)
         \/ Discard
  PROVE  IInv'
<1>1. arm' \in Arm
  BY DEF StartTransaction, AddDecision, RemoveDecision, Discard, Receive, Arm
<1>2. UNCHANGED <<work, phase_vars, running, results, db_vars, used, ghosts>>
  BY DEF StartTransaction, AddDecision, RemoveDecision, Discard
<1>3. decisions \in [Key -> SUBSET Mutation] /\ active \in BOOLEAN
  BY DEF IInv, TypeOK
<1>4. \A k \in Key : decisions[k] \cap used = {}
  BY DEF IInv, Accounted
<1>5. /\ active' \in BOOLEAN
      /\ decisions' \in [Key -> SUBSET Mutation]
      /\ \A k \in Key : decisions'[k] \cap used = {}
  <2>1. CASE StartTransaction \/ Discard
    BY <2>1 DEF StartTransaction, Discard, NoDecisions
  <2>2. CASE \E k \in Key, ms \in SUBSET (Mutation \cap Fresh) : AddDecision(k, ms)
    BY <2>2, <1>3, <1>4 DEF AddDecision, Fresh
  <2>3. CASE \E k \in Key : RemoveDecision(k)
    BY <2>3, <1>3, <1>4 DEF RemoveDecision
  <2> QED
    BY <2>1, <2>2, <2>3
<1> QED
  BY <1>1, <1>2, <1>5, StagingStep

\* The first stage of a non-empty transaction is not empty.
LEMMA FirstStageInhabited ==
  ASSUME NEW ms \in SUBSET Mutation, ms # {}
  PROVE  FirstStage(ms) \in Stage /\ Bucket(ms, FirstStage(ms)) # {}
<1>1. PICK m \in ms : StageOf[m] \in Stage
  BY StageType
<1>2. \E s \in Stage : Bucket(ms, s) # {}
  BY <1>1 DEF Bucket
<1>3. \E s \in Stage : /\ Bucket(ms, s) # {}
                       /\ \A r \in Stage : r < s => Bucket(ms, r) = {}
  <2>1. Stage = {0, 1, 2, 3}
    BY DEF Stage
  <2> QED
    BY <2>1, <1>2
<1> QED
  BY <1>3 DEF FirstStage

\* confirm_transaction queues the stages and starts the first.
LEMMA ConfirmStep ==
  ASSUME IInv, ConfirmTransaction
  PROVE  IInv'
<1>1. Staged \subseteq Mutation /\ Staged \cap used = {} /\ Staged \subseteq Task
  BY DEF IInv, TypeOK, Accounted, Staged, Task
<1>2. /\ arm' \in Arm /\ active' = FALSE /\ decisions' = NoDecisions
      /\ confirms' = confirms + 1
      /\ UNCHANGED <<sphases, cphases, results, backlog, queue_empty, storing>>
  BY DEF ConfirmTransaction, Receive, Arm, db_vars
<1>3. NoDecisions \in [Key -> SUBSET Mutation] /\ \A k \in Key : NoDecisions[k] = {}
  BY DEF NoDecisions
<1>4. CASE Staged = {}
  <2>1. UNCHANGED <<work, mphases, running, used, batch, confirmed>>
    BY <1>4 DEF ConfirmTransaction
  <2>2. TypeOK'
    <3>1. decisions' \in [Key -> SUBSET Mutation] /\ active' \in BOOLEAN
      BY <1>2, <1>3
    <3>2. confirms' \in Nat
      BY <1>2 DEF IInv, TypeOK
    <3> QED
      BY <1>2, <2>1, <3>1, <3>2 DEF IInv, TypeOK
  <2>3. InFlightExact' /\ WorkingCanFinish' /\ RestMeansDrained'
    BY <1>2, <2>1 DEF IInv, InFlightExact, WorkingCanFinish, RestMeansDrained,
                      Outstanding, PhasesPending
  <2>4. Accounted'
    BY <1>2, <1>3, <2>1 DEF IInv, Accounted, Outstanding
  <2> QED
    BY <2>2, <2>3, <2>4 DEF IInv
<1>5. CASE Staged # {}
  <2> DEFINE first == Bucket(Staged, FirstStage(Staged))
  <2>1. /\ mphases' = Stash(Staged)
        /\ work' = Queued(work, first)
        /\ running' = running \cup first
        /\ used' = used \cup Staged
        /\ batch' = Staged
        /\ confirmed' = confirmed \cup Staged
    BY <1>5 DEF ConfirmTransaction
  <2>2. first \subseteq Staged /\ first # {}
    BY <1>1, <1>5, FirstStageInhabited DEF Bucket
  <2>3. first \in SUBSET Task /\ first \cap Outstanding = {}
    BY <1>1, <2>2 DEF IInv, Accounted
  <2>4. /\ work' \in Work /\ InFlightExact' /\ WorkingCanFinish'
        /\ work'.mode = "Working"
    <3> HIDE DEF first
    <3> QED
      BY <1>2, <2>1, <2>2, <2>3, QueueingKeepsCount
  <2>5. Stash(Staged) \in [Stage -> SUBSET Staged]
    BY DEF Stash, Bucket
  <2>6. TypeOK'
    <3>1. mphases' \in [Stage -> SUBSET Mutation]
      BY <2>1, <2>5, <1>1
    <3>2. running' \subseteq Task /\ used' \subseteq Task \cup Other
      BY <2>1, <2>3, <1>1 DEF IInv, TypeOK
    <3>3. batch' \subseteq Mutation /\ confirmed' \subseteq Mutation /\ confirms' \in Nat
      BY <2>1, <1>1, <1>2 DEF IInv, TypeOK
    <3> QED
      BY <1>2, <1>3, <2>4, <3>1, <3>2, <3>3 DEF IInv, TypeOK
  <2>7. RestMeansDrained'
    BY <2>4 DEF RestMeansDrained
  <2>8. Accounted'
    <3>1. used \subseteq used'
      BY <2>1
    <3>2. Outstanding' \subseteq used'
      BY <1>2, <2>1, <2>2, <3>1, UsedGrows DEF Outstanding
    <3>3. mphases' \in [Stage -> SUBSET used']
      BY <2>1, <2>5
    <3>4. sphases' \in Seq(SUBSET used') /\ cphases' \in Seq(SUBSET used')
      BY <1>2, <3>1, UsedGrows
    <3> QED
      BY <1>2, <1>3, <3>2, <3>3, <3>4 DEF Accounted
  <2> QED
    BY <2>4, <2>6, <2>7, <2>8 DEF IInv
<1> QED
  BY <1>4, <1>5

-----------------------------------------------------------------------------
(* Work queued by the rest of the Witch.                                   *)

\* A step that queues fresh tasks and leaves the phases and the results alone.
LEMMA QueueFreshStep ==
  ASSUME IInv, NEW S \in SUBSET Task, S \cap used = {}, S \cap Staged = {},
         work' = Queued(work, S), Dispatch(S), arm' \in Arm,
         UNCHANGED <<txn_vars, phase_vars, results, db_vars, ghosts>>
  PROVE  IInv'
<1> USE DEF txn_vars, phase_vars, db_vars, ghosts
<1>1. running' = running \cup S /\ used' = used \cup S
  BY DEF Dispatch
<1>2. S \cap Outstanding = {}
  BY DEF IInv, Accounted
<1>3. /\ work' \in Work /\ InFlightExact' /\ WorkingCanFinish'
      /\ S # {} => work'.mode = "Working"
      /\ S = {} => work' = work
  BY <1>1, <1>2, QueueingKeepsCount
<1>4. TypeOK'
  <2>1. running' \subseteq Task /\ used' \subseteq Task \cup Other
    BY <1>1 DEF IInv, TypeOK
  <2> QED
    BY <2>1, <1>3 DEF IInv, TypeOK
<1>5. RestMeansDrained'
  <2>1. CASE S = {}
    BY <2>1, <1>1, <1>3 DEF IInv, RestMeansDrained, Outstanding, PhasesPending
  <2>2. CASE S # {}
    BY <2>2, <1>3 DEF RestMeansDrained
  <2> QED
    BY <2>1, <2>2
<1>6. Accounted'
  <2>1. used \subseteq used'
    BY <1>1
  <2>2. Outstanding' \subseteq used'
    BY <1>1, <2>1, UsedGrows DEF Outstanding
  <2>3. \A k \in Key : decisions'[k] \cap used' = {}
    BY <1>1 DEF IInv, Accounted, Staged
  <2> QED
    BY <2>1, <2>2, <2>3, UsedGrows DEF Accounted
<1> QED
  BY <1>3, <1>4, <1>5, <1>6 DEF IInv

\* A computation or a batch of mutations of another origin is queued.
LEMMA EnvironmentQueues ==
  ASSUME IInv,
         \/ \E a \in {"cmd", "events"}, c \in Comp \cap Fresh : QueueComputation(a, c)
         \/ \E S \in NonEmptySubset(Mutation \cap Fresh) : QueueMutations(S)
  PROVE  IInv'
<1>1. CASE \E a \in {"cmd", "events"}, c \in Comp \cap Fresh : QueueComputation(a, c)
  <2> PICK a \in {"cmd", "events"}, c \in Comp \cap Fresh : QueueComputation(a, c)
    BY <1>1
  <2>1. /\ {c} \in SUBSET Task /\ {c} \cap used = {} /\ {c} \cap Staged = {}
    BY DEF Fresh, Task
  <2>2. /\ work' = Queued(work, {c}) /\ Dispatch({c}) /\ arm' \in Arm
        /\ UNCHANGED <<txn_vars, phase_vars, results, db_vars, ghosts>>
    BY DEF QueueComputation, Receive, Arm
  <2> QED
    BY <2>1, <2>2, QueueFreshStep
<1>2. CASE \E S \in NonEmptySubset(Mutation \cap Fresh) : QueueMutations(S)
  <2> PICK S \in NonEmptySubset(Mutation \cap Fresh) : QueueMutations(S)
    BY <1>2
  <2>1. /\ S \in SUBSET Task /\ S \cap used = {} /\ S \cap Staged = {}
    BY DEF Fresh, Task, NonEmptySubset
  <2>2. /\ work' = Queued(work, S) /\ Dispatch(S) /\ arm' \in Arm
        /\ UNCHANGED <<txn_vars, phase_vars, results, db_vars, ghosts>>
    BY DEF QueueMutations, Receive, Arm
  <2> QED
    BY <2>1, <2>2, QueueFreshStep
<1> QED
  BY <1>1, <1>2

\* Soft mutations start at once, or after the clean-up among them.
LEMMA QueueSoftStep ==
  ASSUME IInv, NEW S \in SUBSET (Soft \cap Fresh), S # {}, QueueSoft(S)
  PROVE  IInv'
<1> DEFINE clean == {t \in S : PhaseOf[t] = Cleanup}
           now == IF clean # {} THEN clean ELSE S
<1>1. now \subseteq S /\ now # {}
  OBVIOUS
<1>2. /\ work' = Queued(work, now)
      /\ running' = running \cup now
      /\ used' = used \cup S
      /\ sphases' = IF S = now THEN sphases ELSE Append(sphases, S \ now)
      /\ UNCHANGED <<txn_vars, mphases, cphases, results, db_vars, ghosts>>
      /\ arm' \in Arm
  BY DEF QueueSoft, Receive, Arm
<1> HIDE DEF now
<1> USE DEF txn_vars, db_vars, ghosts
<1>3. now \in SUBSET Task /\ now \cap Outstanding = {} /\ S \subseteq Soft
  BY <1>1 DEF Fresh, Task, IInv, Accounted
<1>4. /\ work' \in Work /\ InFlightExact' /\ WorkingCanFinish'
      /\ work'.mode = "Working"
  BY <1>1, <1>2, <1>3, QueueingKeepsCount
<1>5. TypeOK'
  <2>1. sphases' \in Seq(SUBSET Soft)
    BY <1>2, <1>3, AppendProperties DEF IInv, TypeOK
  <2>2. running' \subseteq Task /\ used' \subseteq Task \cup Other
    BY <1>2, <1>3 DEF IInv, TypeOK, Task
  <2> QED
    BY <2>1, <2>2, <1>2, <1>4 DEF IInv, TypeOK
<1>6. RestMeansDrained'
  BY <1>4 DEF RestMeansDrained
<1>7. Accounted'
  <2>1. used \subseteq used'
    BY <1>2
  <2>2. Outstanding' \subseteq used'
    BY <1>1, <1>2, <2>1, UsedGrows DEF Outstanding
  <2>3. sphases' \in Seq(SUBSET used')
    <3>1. sphases \in Seq(SUBSET used')
      BY <2>1, UsedGrows
    <3>2. S \ now \in SUBSET used'
      BY <1>2
    <3> QED
      BY <3>1, <3>2, <1>2, AppendProperties
  <2>4. \A k \in Key : decisions'[k] \cap used' = {}
    BY <1>2 DEF IInv, Accounted, Fresh, Staged
  <2> QED
    BY <2>1, <2>2, <2>3, <2>4, <1>2, UsedGrows DEF Accounted
<1> QED
  BY <1>4, <1>5, <1>6, <1>7 DEF IInv

-----------------------------------------------------------------------------
(* Workers, the DB thread and outside writers.                             *)

\* A worker hands in a result: what runs becomes what has a result.
LEMMA TaskFinishesStep ==
  ASSUME IInv, NEW t \in Task, TaskFinishes(t)
  PROVE  IInv'
<1> USE DEF txn_vars, phase_vars, db_vars, ghosts
<1>1. /\ t \in running /\ running' = running \ {t} /\ results' = results \cup {t}
      /\ UNCHANGED <<arm, work, txn_vars, phase_vars, db_vars, used, ghosts>>
  BY DEF TaskFinishes
<1>2. running \in SUBSET Task /\ results \in SUBSET Task /\ running \cap results = {}
  BY DEF IInv, TypeOK, InFlightExact
<1>3. TypeOK'
  BY <1>1 DEF IInv, TypeOK
<1>4. Outstanding' = Outstanding
  BY <1>1 DEF Outstanding
<1>5. InFlightExact'
  <2>1. Cardinality(running') = Cardinality(running) - 1
    BY <1>1, <1>2, RemovalCounts
  <2>2. {t} \in SUBSET Task /\ results \cap {t} = {}
    BY <1>1, <1>2
  <2>3. Cardinality({t}) = 1
    BY FS_Singleton
  <2>4. Cardinality(results') = Cardinality(results) + 1
    BY <1>1, <1>2, <2>2, <2>3, DisjointUnionCounts
  <2>5. Cardinality(results) \in Nat /\ Cardinality(running) \in Nat
    BY <1>2, TasksAreFinite
  <2>6. running' \cap results' = {}
    BY <1>1, <1>2
  <2> QED
    BY <1>1, <2>1, <2>4, <2>5, <2>6 DEF IInv, InFlightExact
<1>6. RestMeansDrained' /\ WorkingCanFinish'
  BY <1>1, <1>4 DEF IInv, RestMeansDrained, WorkingCanFinish, PhasesPending
<1>7. Accounted'
  BY <1>1, <1>4 DEF IInv, Accounted
<1> QED
  BY <1>3, <1>5, <1>6, <1>7 DEF IInv

\* The write queue is no part of what is counted.
LEMMA WriteStep ==
  ASSUME IInv,
         \/ \E t \in Task : TaskWrites(t)
         \/ \E o \in Other : OthersWrite(o)
         \/ DbThread
  PROVE  IInv'
<1> USE DEF txn_vars, phase_vars, ghosts
<1>1. /\ UNCHANGED <<arm, work, txn_vars, phase_vars, running, results, ghosts>>
      /\ used \subseteq used' /\ used' \subseteq used \cup Other
  BY DEF TaskWrites, OthersWrite, DbThread, DbStore, DbApply
<1>2. backlog' \subseteq Task \cup Other /\ queue_empty' \in BOOLEAN /\ storing' \in BOOLEAN
  BY DEF TaskWrites, OthersWrite, DbThread, DbStore, DbApply, IInv, TypeOK
<1>3. TypeOK'
  BY <1>1, <1>2 DEF IInv, TypeOK
<1>4. InFlightExact' /\ WorkingCanFinish' /\ RestMeansDrained'
  BY <1>1 DEF IInv, InFlightExact, WorkingCanFinish, RestMeansDrained,
              Outstanding, PhasesPending
<1>5. Accounted'
  <2>1. \A k \in Key : decisions'[k] \cap used' = {}
    <3>1. \A k \in Key : decisions[k] \cap Other = {}
      BY KindsDisjoint DEF IInv, TypeOK, Task
    <3> QED
      BY <1>1, <3>1 DEF IInv, Accounted
  <2>2. Outstanding' \subseteq used'
    BY <1>1, UsedGrows DEF Outstanding
  <2> QED
    BY <1>1, <2>1, <2>2, UsedGrows DEF Accounted
<1> QED
  BY <1>3, <1>4, <1>5 DEF IInv

-----------------------------------------------------------------------------
(* Results.                                                                *)

\* A result that is processed takes one from what is in flight ...
LEMMA ResultCounts ==
  ASSUME NEW w \in Work, w.mode = "Working", w.in_flight > 0
  PROVE  /\ OneProcessed(w) \in Work
         /\ OneProcessed(w).mode = "Working"
         /\ OneProcessed(w).in_flight = w.in_flight - 1
         /\ OneProcessed(w).processed = TRUE
<1>1. w.in_flight \in Nat /\ w.in_flight - 1 \in Nat
  BY DEF Work
<1>2. OneProcessed(w) = [w EXCEPT !.in_flight = w.in_flight - 1, !.processed = TRUE]
  BY DEF OneProcessed
<1> QED
  BY <1>1, <1>2 DEF Work

\* ... and what it spawns adds to it again.
LEMMA AfterResultCounts ==
  ASSUME NEW comps \in SUBSET Task, NEW muts \in SUBSET Task,
         work \in Work, work.mode = "Working", work.in_flight > 0
  PROVE  /\ AfterResult(work, comps, muts) \in Work
         /\ AfterResult(work, comps, muts).mode = "Working"
         /\ AfterResult(work, comps, muts).processed = TRUE
         /\ AfterResult(work, comps, muts).in_flight
              = work.in_flight - 1 + Cardinality(comps) + Cardinality(muts)
<1> DEFINE w1 == OneProcessed(work)
           w2 == Queued(w1, comps)
<1>1. /\ w1 \in Work /\ w1.mode = "Working" /\ w1.processed = TRUE
      /\ w1.in_flight = work.in_flight - 1
  BY ResultCounts
<1>2. /\ Cardinality(comps) \in Nat /\ Cardinality(muts) \in Nat
      /\ comps = {} => Cardinality(comps) = 0
  BY TasksAreFinite
<1>3. work.in_flight \in Nat
  BY DEF Work
<1> HIDE DEF w1
<1>4. /\ w2 \in Work /\ w2.mode = "Working" /\ w2.processed = TRUE
      /\ w2.in_flight = w1.in_flight + Cardinality(comps)
  <2>1. CASE comps = {}
    <3>1. w2 = w1
      BY <2>1 DEF Queued
    <3>2. w1.in_flight \in Nat
      BY <1>1 DEF Work
    <3> QED
      BY <2>1, <3>1, <3>2, <1>1, <1>2
  <2>2. CASE comps # {}
    <3>1. w2 = IncInFlight(w1, Cardinality(comps))
      BY <2>2, <1>1 DEF Queued, ToWorking
    <3> QED
      BY <3>1, <1>1, <1>2, IncrementAdds
  <2> QED
    BY <2>1, <2>2
<1>5. AfterResult(work, comps, muts) = IncInFlight(w2, Cardinality(muts))
  BY DEF AfterResult, w1
<1> HIDE DEF w2
<1>6. /\ IncInFlight(w2, Cardinality(muts)) \in Work
      /\ IncInFlight(w2, Cardinality(muts)).mode = "Working"
      /\ IncInFlight(w2, Cardinality(muts)).processed = TRUE
      /\ IncInFlight(w2, Cardinality(muts)).in_flight = w2.in_flight + Cardinality(muts)
  BY <1>4, <1>2, IncrementAdds
<1> QED
  BY <1>1, <1>2, <1>3, <1>4, <1>5, <1>6

\* The phases a result defers are sets of the tasks it may defer.
LEMMA DeferredAreFresh ==
  ASSUME NEW S, NEW d \in DeferredPhases(S)
  PROVE  d \in Seq(SUBSET S)
<1>1. CASE d = <<>>
  BY <1>1
<1>2. CASE \E p \in SUBSET S : d = <<p>>
  BY <1>2
<1>3. CASE \E p \in SUBSET S, q \in SUBSET S : d = <<p, q>>
  BY <1>3
<1> QED
  BY <1>1, <1>2, <1>3 DEF DeferredPhases, NonEmptySubset

\* process_task_result: one task less in flight, and what it spawned.
LEMMA ProcessResultStep ==
  ASSUME IInv, NEW t \in results,
         NEW comps \in SUBSET (Comp \cap Fresh),
         NEW muts \in SUBSET (Mutation \cap Fresh),
         NEW deferred \in Seq(SUBSET ((Comp \cap Fresh) \ comps)),
         ProcessTaskResult(t, comps, muts, deferred)
  PROVE  IInv'
<1> DEFINE later == UNION {deferred[i] : i \in DOMAIN deferred}
<1>1. /\ arm' \in Arm
      /\ work' = AfterResult(work, comps, muts)
      /\ running' = running \cup comps \cup muts
      /\ results' = results \ {t}
      /\ cphases' = cphases \o deferred
      /\ used' = used \cup comps \cup muts \cup later
      /\ confirmed' = confirmed \ {t}
      /\ UNCHANGED <<active, decisions, mphases, sphases, backlog, queue_empty,
                     storing, batch, confirms>>
  BY DEF ProcessTaskResult, Receive, Arm, txn_vars, db_vars
<1>2. /\ running \in SUBSET Task /\ results \in SUBSET Task /\ running \cap results = {}
      /\ work \in Work
  BY DEF IInv, TypeOK, InFlightExact
<1>3. /\ work.mode = "Working"
      /\ work.in_flight = Cardinality(running) + Cardinality(results)
  BY DEF IInv, RestMeansDrained, InFlightExact, Outstanding
<1>4. /\ Cardinality(results') = Cardinality(results) - 1 /\ Cardinality(results) > 0
      /\ Cardinality(running) \in Nat /\ Cardinality(results) \in Nat
  BY <1>1, <1>2, RemovalCounts, TasksAreFinite
<1>5. /\ comps \in SUBSET Task /\ muts \in SUBSET Task /\ comps \cap muts = {}
      /\ (comps \cup muts) \cap used = {}
      /\ (comps \cup muts) \cap Outstanding = {}
  BY KindsDisjoint DEF Fresh, Task, IInv, Accounted
<1>6. /\ work' \in Work /\ work'.mode = "Working" /\ work'.processed = TRUE
      /\ work'.in_flight = work.in_flight - 1 + Cardinality(comps) + Cardinality(muts)
  <2>1. work.in_flight > 0
    BY <1>3, <1>4
  <2> QED
    BY <1>1, <1>2, <1>3, <1>5, <2>1, AfterResultCounts
<1>7. later \subseteq Comp \cap Fresh
  <2>1. \A i \in DOMAIN deferred : deferred[i] \subseteq Comp \cap Fresh
    BY ElementOfSeq
  <2> QED
    BY <2>1
<1>8. deferred \in Seq(SUBSET later) /\ deferred \in Seq(SUBSET Comp)
  <2>1. \A i \in 1..Len(deferred) : deferred[i] \in SUBSET later /\ deferred[i] \in SUBSET Comp
    BY <1>7
  <2> QED
    BY <2>1
<1> HIDE DEF later
<1>9. TypeOK'
  <2>1. cphases' \in Seq(SUBSET Comp)
    BY <1>1, <1>8, ConcatProperties DEF IInv, TypeOK
  <2>2. running' \subseteq Task /\ results' \subseteq Task
    BY <1>1, <1>2, <1>5
  <2>3. used' \subseteq Task \cup Other
    BY <1>1, <1>5, <1>7 DEF IInv, TypeOK, Task
  <2>4. confirmed' \subseteq Mutation
    BY <1>1 DEF IInv, TypeOK
  <2> QED
    BY <1>1, <1>6, <2>1, <2>2, <2>3, <2>4 DEF IInv, TypeOK
<1>10. InFlightExact'
  <2>1. Cardinality(comps \cup muts) = Cardinality(comps) + Cardinality(muts)
    BY <1>5, DisjointUnionCounts
  <2>2. Cardinality(running') = Cardinality(running) + Cardinality(comps \cup muts)
    <3>1. running' = running \cup (comps \cup muts)
      BY <1>1
    <3>2. comps \cup muts \in SUBSET Task /\ running \cap (comps \cup muts) = {}
      BY <1>5 DEF Outstanding
    <3> QED
      BY <1>2, <3>1, <3>2, DisjointUnionCounts
  <2>3. Cardinality(comps) \in Nat /\ Cardinality(muts) \in Nat
    BY <1>5, TasksAreFinite
  <2>4. running' \cap results' = {}
    BY <1>1, <1>2, <1>5 DEF Outstanding
  <2> QED
    BY <1>3, <1>4, <1>6, <2>1, <2>2, <2>3, <2>4 DEF InFlightExact
<1>11. RestMeansDrained' /\ WorkingCanFinish'
  BY <1>6 DEF RestMeansDrained, WorkingCanFinish
<1>12. Accounted'
  <2>1. used \subseteq used'
    BY <1>1
  <2>2. Outstanding' \subseteq used'
    BY <1>1, <2>1, UsedGrows DEF Outstanding
  <2>3. cphases' \in Seq(SUBSET used')
    <3>1. cphases \in Seq(SUBSET used')
      BY <2>1, UsedGrows
    <3>2. SUBSET later \subseteq SUBSET used'
      BY <1>1
    <3>3. deferred \in Seq(SUBSET used')
      BY <1>8, <3>2, SeqMonotonic
    <3> QED
      BY <1>1, <3>1, <3>3, ConcatProperties
  <2>4. \A k \in Key : decisions'[k] \cap used' = {}
    BY <1>1, <1>7 DEF IInv, Accounted, Fresh, Staged
  <2> QED
    BY <1>1, <2>1, <2>2, <2>3, <2>4, UsedGrows DEF Accounted
<1> QED
  BY <1>9, <1>10, <1>11, <1>12 DEF IInv

-----------------------------------------------------------------------------
(* update_state.                                                           *)

\* Popping a phase: the pool is quiet, so no task of the phase can be out.
LEMMA AdvanceStep ==
  ASSUME IInv, work.mode = "Working", Barrier,
         NEW S \in SUBSET Task, S \subseteq used,
         work' = Queued(work, S), Dispatch(S), arm' \in Arm,
         mphases' \in [Stage -> SUBSET Mutation], mphases' \in [Stage -> SUBSET used],
         sphases' \in Seq(SUBSET Soft), sphases' \in Seq(SUBSET used),
         cphases' \in Seq(SUBSET Comp), cphases' \in Seq(SUBSET used),
         UNCHANGED <<txn_vars, results, db_vars, ghosts>>
  PROVE  IInv'
<1> USE DEF txn_vars, db_vars, ghosts
<1>1. Outstanding = {}
  BY ZeroMeansQuiet DEF Barrier, Drained
<1>2. running' = running \cup S /\ used' = used
  BY DEF Dispatch
<1>3. /\ work' \in Work /\ InFlightExact' /\ WorkingCanFinish'
      /\ work'.mode = "Working"
  BY <1>1, <1>2, QueueingKeepsCount
<1>4. TypeOK'
  BY <1>2, <1>3 DEF IInv, TypeOK
<1>5. RestMeansDrained'
  BY <1>3 DEF RestMeansDrained
<1>6. Accounted'
  BY <1>2 DEF IInv, Accounted, Outstanding
<1> QED
  BY <1>3, <1>4, <1>5, <1>6 DEF IInv

\* The stage that is popped is the first that has mutations.
LEMMA NextStageInhabited ==
  ASSUME IInv, mphases # NoPhases
  PROVE  PopStage \in Stage /\ mphases[PopStage] # {}
<1>1. \E s \in Stage : mphases[s] # {}
  BY DEF IInv, TypeOK, NoPhases
<1>2. \E s \in Stage : /\ mphases[s] # {}
                       /\ \A r \in Stage : r < s => mphases[r] = {}
  <2>1. Stage = {0, 1, 2, 3}
    BY DEF Stage
  <2> QED
    BY <2>1, <1>1
<1> QED
  BY <1>2 DEF PopStage, NextStage

\* The three advances: a phase leaves its queue and is in flight.
LEMMA AdvanceMutationsStep ==
  ASSUME IInv, AdvanceMutations, arm' \in Arm
  PROVE  IInv'
<1> DEFINE S == mphases[PopStage]
<1>1. PopStage \in Stage
  BY NextStageInhabited DEF AdvanceMutations
<1>2. mphases \in [Stage -> SUBSET Mutation] /\ mphases \in [Stage -> SUBSET used]
  BY DEF IInv, TypeOK, Accounted
<1>3. S \in SUBSET Task /\ S \subseteq used
  BY <1>1, <1>2 DEF Task
<1>4. /\ mphases' \in [Stage -> SUBSET Mutation]
      /\ mphases' \in [Stage -> SUBSET used]
  BY <1>1, <1>2 DEF AdvanceMutations
<1>5. /\ work.mode = "Working" /\ Barrier /\ work' = Queued(work, S) /\ Dispatch(S)
      /\ UNCHANGED <<txn_vars, sphases, cphases, results, db_vars, ghosts>>
  BY DEF AdvanceMutations
<1>6. /\ sphases \in Seq(SUBSET Soft) /\ sphases \in Seq(SUBSET used)
      /\ cphases \in Seq(SUBSET Comp) /\ cphases \in Seq(SUBSET used)
  BY DEF IInv, TypeOK, Accounted
<1> HIDE DEF S
<1> QED
  BY <1>3, <1>4, <1>5, <1>6, AdvanceStep

\* The second phase of the soft mutations.
LEMMA AdvanceSoftStep ==
  ASSUME IInv, AdvanceSoft, arm' \in Arm
  PROVE  IInv'
<1> DEFINE S == Head(sphases)
<1>1. /\ sphases # <<>> /\ work.mode = "Working" /\ Barrier
      /\ sphases' = Tail(sphases) /\ Dispatch(S)
      /\ work' = IncInFlight(work, Cardinality(S))
      /\ UNCHANGED <<txn_vars, mphases, cphases, results, db_vars, ghosts>>
  BY DEF AdvanceSoft
<1>2. /\ sphases \in Seq(SUBSET Soft) /\ sphases \in Seq(SUBSET used)
      /\ cphases \in Seq(SUBSET Comp) /\ cphases \in Seq(SUBSET used)
      /\ mphases \in [Stage -> SUBSET Mutation] /\ mphases \in [Stage -> SUBSET used]
      /\ work \in Work
  BY DEF IInv, TypeOK, Accounted
<1>3. /\ S \in SUBSET Soft /\ sphases' \in Seq(SUBSET Soft)
      /\ S \in SUBSET used /\ sphases' \in Seq(SUBSET used)
  BY <1>1, <1>2, HeadTailProperties
<1> HIDE DEF S
<1>4. S \in SUBSET Task
  BY <1>3 DEF Task
<1>5. work' = Queued(work, S)
  <2>1. CASE S = {}
    <3>1. Cardinality(S) = 0
      BY <2>1, FS_EmptySet
    <3>2. IncInFlight(work, 0) = work
      BY <1>1, <1>2 DEF IncInFlight, Work
    <3> QED
      BY <2>1, <3>1, <3>2, <1>1 DEF Queued
  <2>2. CASE S # {}
    BY <2>2, <1>1 DEF Queued, ToWorking
  <2> QED
    BY <2>1, <2>2
<1> QED
  BY <1>1, <1>2, <1>3, <1>4, <1>5, AdvanceStep

\* The deferred computations.
LEMMA AdvanceComputationsStep ==
  ASSUME IInv, AdvanceComputations, arm' \in Arm
  PROVE  IInv'
<1> DEFINE S == Head(cphases)
<1>1. /\ cphases # <<>> /\ work.mode = "Working" /\ Barrier
      /\ cphases' = Tail(cphases) /\ Dispatch(S)
      /\ work' = Queued(work, S)
      /\ UNCHANGED <<txn_vars, mphases, sphases, results, db_vars, ghosts>>
  BY DEF AdvanceComputations
<1>2. /\ sphases \in Seq(SUBSET Soft) /\ sphases \in Seq(SUBSET used)
      /\ cphases \in Seq(SUBSET Comp) /\ cphases \in Seq(SUBSET used)
      /\ mphases \in [Stage -> SUBSET Mutation] /\ mphases \in [Stage -> SUBSET used]
  BY DEF IInv, TypeOK, Accounted
<1>3. /\ S \in SUBSET Comp /\ cphases' \in Seq(SUBSET Comp)
      /\ S \in SUBSET used /\ cphases' \in Seq(SUBSET used)
  BY <1>1, <1>2, HeadTailProperties
<1> HIDE DEF S
<1>4. S \in SUBSET Task
  BY <1>3 DEF Task
<1> QED
  BY <1>1, <1>2, <1>3, <1>4, AdvanceStep

\* The session ends, and content analysis may open the next one at once.
LEMMA CompleteSessionStep ==
  ASSUME IInv, arm' \in Arm, NEW follow \in SUBSET (Comp \cap Fresh),
         CompleteSession(follow)
  PROVE  IInv'
<1> USE DEF txn_vars, phase_vars, db_vars, ghosts
<1>1. /\ work.mode = "Working" /\ NothingPending
      /\ work' = Queued(Resting("Done"), follow)
      /\ running' = running \cup follow /\ used' = used \cup follow
      /\ UNCHANGED <<txn_vars, phase_vars, results, db_vars, ghosts>>
  BY DEF CompleteSession, Dispatch
<1>2. Outstanding = {} /\ ~PhasesPending
  BY <1>1, ZeroMeansQuiet DEF NothingPending, Drained
<1>3. follow \in SUBSET Task /\ follow \cap used = {}
  BY DEF Fresh, Task
<1>4. Resting("Done") \in Work /\ Resting("Done").mode = "Done"
      /\ Resting("Done").in_flight = 0
  BY DEF Resting, Work
<1>5. /\ work' \in Work /\ InFlightExact' /\ WorkingCanFinish'
      /\ follow # {} => work'.mode = "Working"
  BY <1>1, <1>2, <1>3, <1>4, WakingCounts
<1>6. TypeOK'
  <2>1. running' \subseteq Task /\ used' \subseteq Task \cup Other
    BY <1>1, <1>3 DEF IInv, TypeOK
  <2> QED
    BY <1>1, <1>5, <2>1 DEF IInv, TypeOK
<1>7. RestMeansDrained'
  <2>1. ~PhasesPending'
    BY <1>1, <1>2 DEF PhasesPending
  <2>2. follow = {} => Outstanding' = {}
    BY <1>1, <1>2 DEF Outstanding
  <2> QED
    BY <1>5, <2>1, <2>2 DEF RestMeansDrained
<1>8. Accounted'
  <2>1. used \subseteq used'
    BY <1>1
  <2>2. Outstanding' \subseteq used'
    BY <1>1, <2>1, UsedGrows DEF Outstanding
  <2>3. \A k \in Key : decisions'[k] \cap used' = {}
    BY <1>1 DEF IInv, Accounted, Fresh, Staged
  <2> QED
    BY <1>1, <2>1, <2>2, <2>3, UsedGrows DEF Accounted
<1> QED
  BY <1>5, <1>6, <1>7, <1>8 DEF IInv

\* What follows a completed or an idle phase.
LEMMA RestingStep ==
  ASSUME IInv, arm' \in Arm, NEW follow \in SUBSET (Comp \cap Fresh),
         LingerOver(follow) \/ IdleTrigger(follow)
  PROVE  IInv'
<1>1. /\ follow \in SUBSET Task /\ follow \cap used = {} /\ follow \cap Staged = {}
  BY DEF Fresh, Task
<1>2. /\ Dispatch(follow)
      /\ UNCHANGED <<txn_vars, phase_vars, results, db_vars, ghosts>>
  BY DEF LingerOver, IdleTrigger
<1>3. CASE work' = Queued(work, follow)
  BY <1>1, <1>2, <1>3, QueueFreshStep
<1>4. CASE follow = {} /\ work' = work
  BY <1>1, <1>2, <1>4, QueueFreshStep DEF Queued
<1>5. CASE follow = {} /\ work' = Resting("Idle") /\ work.mode = "Done"
  <2> USE DEF txn_vars, phase_vars, db_vars, ghosts
  <2>1. running' = running /\ used' = used
    BY <1>2, <1>5 DEF Dispatch
  <2>2. work' \in Work /\ work'.mode = "Idle"
    BY <1>5 DEF Resting, Work
  <2>3. TypeOK'
    BY <1>2, <2>1, <2>2 DEF IInv, TypeOK
  <2>4. InFlightExact' /\ WorkingCanFinish'
    BY <1>2, <2>1, <2>2 DEF IInv, InFlightExact, WorkingCanFinish
  <2>5. RestMeansDrained'
    BY <1>2, <1>5, <2>1 DEF IInv, RestMeansDrained, Outstanding, PhasesPending
  <2>6. Accounted'
    BY <1>2, <2>1 DEF IInv, Accounted, Outstanding
  <2> QED
    BY <2>3, <2>4, <2>5, <2>6 DEF IInv
<1> QED
  BY <1>3, <1>4, <1>5 DEF LingerOver, IdleTrigger

\* update_state, whichever of its branches is taken.
LEMMA BookkeepStep ==
  ASSUME IInv, Bookkeep
  PROVE  IInv'
<1>1. arm' \in Arm
  BY DEF Bookkeep, Arm
<1>2. CASE AdvanceMutations
  BY <1>1, <1>2, AdvanceMutationsStep
<1>3. CASE AdvanceSoft
  BY <1>1, <1>3, AdvanceSoftStep
<1>4. CASE AdvanceComputations
  BY <1>1, <1>4, AdvanceComputationsStep
<1>5. CASE \E follow \in {{}} \cup {{c} : c \in Comp \cap Fresh} :
             CompleteSession(follow) \/ LingerOver(follow) \/ IdleTrigger(follow)
  <2> PICK follow \in {{}} \cup {{c} : c \in Comp \cap Fresh} :
             CompleteSession(follow) \/ LingerOver(follow) \/ IdleTrigger(follow)
    BY <1>5
  <2>1. follow \in SUBSET (Comp \cap Fresh)
    OBVIOUS
  <2> QED
    BY <1>1, <2>1, CompleteSessionStep, RestingStep
<1>6. CASE StayPut
  <2>1. UNCHANGED <<work, txn_vars, phase_vars, running, results, db_vars, used, ghosts>>
    BY <1>6 DEF StayPut
  <2> QED
    BY <1>1, <2>1, StagingStep DEF IInv, TypeOK, Accounted, txn_vars
<1> QED
  BY <1>2, <1>3, <1>4, <1>5, <1>6 DEF Bookkeep, UpdateState

-----------------------------------------------------------------------------
(* The theorems.                                                           *)

\* The inductive invariant holds at first ...
LEMMA InitIInv == Init => IInv
<1> SUFFICES ASSUME Init PROVE IInv
  OBVIOUS
<1>1. TypeOK
  <2>1. work \in Work
    BY DEF Init, Resting, Work
  <2>2. /\ decisions \in [Key -> SUBSET Mutation]
        /\ mphases \in [Stage -> SUBSET Mutation]
    BY DEF Init, NoDecisions, NoPhases
  <2>3. sphases \in Seq(SUBSET Soft) /\ cphases \in Seq(SUBSET Comp)
    BY DEF Init
  <2>4. arm \in Arm /\ active \in BOOLEAN /\ storing \in BOOLEAN /\ queue_empty \in BOOLEAN
    BY DEF Init, Arm
  <2>5. /\ running = {} /\ results = {} /\ backlog = {} /\ batch = {}
        /\ used \subseteq Task \cup Other /\ confirmed = {} /\ confirms \in Nat
    BY SpentType DEF Init
  <2> QED
    BY <2>1, <2>2, <2>3, <2>4, <2>5 DEF TypeOK
<1>2. work.mode = "Idle"
  BY DEF Init, Resting
<1>3. InFlightExact /\ WorkingCanFinish
  BY <1>2 DEF Init, InFlightExact, WorkingCanFinish
<1>4. RestMeansDrained
  BY DEF Init, RestMeansDrained, Outstanding, PhasesPending
<1>5. Accounted
  BY DEF Init, Accounted, Outstanding, NoPhases, NoDecisions
<1> QED
  BY <1>1, <1>3, <1>4, <1>5 DEF IInv

\* ... and every step keeps it.
LEMMA NextIInv == IInv /\ [Next]_vars => IInv'
<1> SUFFICES ASSUME IInv, [Next]_vars PROVE IInv'
  OBVIOUS
<1>1. CASE Operator
  BY <1>1, OperatorStages, ConfirmStep DEF Operator
<1>2. CASE Environment
  <2>1. CASE \E S \in NonEmptySubset(Soft \cap Fresh) : QueueSoft(S)
    <3>1. PICK S \in NonEmptySubset(Soft \cap Fresh) : QueueSoft(S)
      BY <2>1
    <3>2. S \in SUBSET (Soft \cap Fresh) /\ S # {}
      BY <3>1 DEF NonEmptySubset
    <3> QED
      BY <3>1, <3>2, QueueSoftStep
  <2> QED
    BY <1>2, <2>1, EnvironmentQueues DEF Environment
<1>3. CASE Workers
  BY <1>3, TaskFinishesStep, WriteStep DEF Workers
<1>4. CASE DbThread
  BY <1>4, WriteStep
<1>5. CASE ProcessResult
  BY <1>5, ProcessResultStep, DeferredAreFresh DEF ProcessResult
<1>6. CASE Bookkeep
  BY <1>6, BookkeepStep
<1>7. CASE UNCHANGED vars
  BY <1>7, StagingStep DEF vars, phase_vars, db_vars, ghosts, IInv, TypeOK, Accounted
<1> QED
  BY <1>1, <1>2, <1>3, <1>4, <1>5, <1>6, <1>7 DEF Next

\* The types of WorkState and of the queues hold in every execution.
THEOREM TypeCorrect == Spec => []TypeOK
<1>1. IInv => TypeOK
  BY DEF IInv
<1> QED
  BY InitIInv, NextIInv, <1>1, PTL DEF Spec

\* WorkState's in_flight is exact whenever it means anything.
THEOREM CounterIsExact == Spec => []InFlightExact
<1>1. IInv => InFlightExact
  BY DEF IInv
<1> QED
  BY InitIInv, NextIInv, <1>1, PTL DEF Spec

\* The Witch rests only when nothing is out and nothing is pending, and a
\* session with nothing out never waits on `processed > 0`.
THEOREM SessionsClose == Spec => [](RestMeansDrained /\ WorkingCanFinish)
<1>1. IInv => RestMeansDrained /\ WorkingCanFinish
  BY DEF IInv
<1> QED
  BY InitIInv, NextIInv, <1>1, PTL DEF Spec

\* Nothing pending is dispatched outside update_state: what the other actions
\* dispatch has not been used yet, and what is pending has.
LEMMA PendingIsUsed ==
  ASSUME IInv
  PROVE  Pending \subseteq used
<1>1. \A s \in Stage : mphases[s] \subseteq used
  BY DEF IInv, Accounted
<1>2. \A i \in DOMAIN sphases : sphases[i] \subseteq used
  BY ElementOfSeq DEF IInv, Accounted
<1>3. \A i \in DOMAIN cphases : cphases[i] \subseteq used
  BY ElementOfSeq DEF IInv, Accounted
<1>4. (UNION {mphases[s] : s \in Stage}) \subseteq used
  BY <1>1
<1>5. (UNION {sphases[i] : i \in DOMAIN sphases}) \subseteq used
  BY <1>2
<1>6. (UNION {cphases[i] : i \in DOMAIN cphases}) \subseteq used
  BY <1>3
<1> QED
  BY <1>4, <1>5, <1>6 DEF Pending

\* A task that waited starts only when nothing else is outstanding.
LEMMA DispatchFromPending ==
  ASSUME IInv, [Next]_vars, Pending \cap (running' \ running) # {}
  PROVE  Outstanding = {}
<1>1. SUFFICES ASSUME Outstanding # {} PROVE FALSE
  OBVIOUS
<1>2. PICK t \in running' \ running : t \in used
  BY PendingIsUsed
<1>3. CASE Operator
  <2>1. ConfirmTransaction
    BY <1>2, <1>3 DEF Operator, StartTransaction, AddDecision, RemoveDecision, Discard
  <2>2. t \in Staged
    BY <1>2, <2>1 DEF ConfirmTransaction, Bucket
  <2> QED
    BY <1>2, <2>2 DEF IInv, Accounted, Staged
<1>4. CASE Environment
  <2>1. CASE \E a \in {"cmd", "events"}, c \in Comp \cap Fresh : QueueComputation(a, c)
    BY <1>2, <2>1 DEF QueueComputation, Dispatch, Fresh
  <2>2. CASE \E S \in NonEmptySubset(Mutation \cap Fresh) : QueueMutations(S)
    BY <1>2, <2>2 DEF QueueMutations, Dispatch, Fresh, NonEmptySubset
  <2>3. CASE \E S \in NonEmptySubset(Soft \cap Fresh) : QueueSoft(S)
    BY <1>2, <2>3 DEF QueueSoft, Fresh, NonEmptySubset
  <2> QED
    BY <1>4, <2>1, <2>2, <2>3 DEF Environment
<1>5. CASE Workers \/ DbThread
  BY <1>2, <1>5 DEF Workers, DbThread, TaskWrites, TaskFinishes, OthersWrite,
                    DbStore, DbApply
<1>6. CASE ProcessResult
  <2>1. \E comps \in SUBSET (Comp \cap Fresh), muts \in SUBSET (Mutation \cap Fresh) :
          running' = running \cup comps \cup muts
    BY <1>6 DEF ProcessResult, ProcessTaskResult
  <2> QED
    BY <1>2, <2>1 DEF Fresh
<1>7. CASE Bookkeep
  <2>1. CASE AdvanceMutations \/ AdvanceSoft \/ AdvanceComputations
    <3>1. work.mode = "Working" /\ Barrier
      BY <2>1 DEF AdvanceMutations, AdvanceSoft, AdvanceComputations
    <3> QED
      BY <1>1, <3>1, ZeroMeansQuiet DEF Barrier, Drained
  <2>2. CASE \E follow \in {{}} \cup {{c} : c \in Comp \cap Fresh} :
               CompleteSession(follow) \/ LingerOver(follow) \/ IdleTrigger(follow)
    BY <1>2, <2>2 DEF CompleteSession, LingerOver, IdleTrigger, Dispatch, Fresh
  <2>3. CASE StayPut
    BY <1>2, <2>3 DEF StayPut
  <2> QED
    BY <1>7, <2>1, <2>2, <2>3 DEF Bookkeep, UpdateState
<1>8. CASE UNCHANGED vars
  BY <1>2, <1>8 DEF vars
<1> QED
  BY <1>3, <1>4, <1>5, <1>6, <1>7, <1>8 DEF Next

\* The drain barrier: a pending phase is opened only on a quiet pool.
THEOREM BarrierHolds == Spec => PhaseStartsQuiet
<1>1. IInv /\ [Next]_vars
        => [Pending \cap (running' \ running) # {} => Outstanding = {}]_vars
  BY DispatchFromPending
<1> QED
  BY InitIInv, NextIInv, <1>1, PTL DEF Spec, PhaseStartsQuiet

-----------------------------------------------------------------------------
(* The stages of a transaction.                                            *)

Waiting == UNION {mphases[s] : s \in Stage}

\* What waits by stage is part of the last confirmed transaction, and its stages
\* go in their order.
Ordered ==
  /\ batch \subseteq used
  /\ \A s \in Stage : mphases[s] \subseteq Bucket(batch, s)
  /\ \A m, n \in batch : StageOf[m] < StageOf[n] /\ n \notin Waiting
                            => m \notin Waiting \cup Outstanding

\* Confirmed mutations are pending, in the pool or in the channel.
Held == confirmed \subseteq Waiting \cup Outstanding

\* The mutations among the pending tasks are those that wait by stage.
LEMMA PendingMutations ==
  ASSUME IInv
  PROVE  Pending \cap Mutation = Waiting
<1>1. \A i \in DOMAIN sphases : sphases[i] \subseteq Soft
  BY ElementOfSeq DEF IInv, TypeOK
<1>2. \A i \in DOMAIN cphases : cphases[i] \subseteq Comp
  BY ElementOfSeq DEF IInv, TypeOK
<1>3. (UNION {sphases[i] : i \in DOMAIN sphases}) \cap Mutation = {}
  BY <1>1, KindsDisjoint
<1>4. (UNION {cphases[i] : i \in DOMAIN cphases}) \cap Mutation = {}
  BY <1>2, KindsDisjoint
<1>5. Waiting \subseteq Mutation
  BY DEF IInv, TypeOK, Waiting
<1> QED
  BY <1>3, <1>4, <1>5 DEF Pending, Waiting

\* What a step does that neither confirms a transaction nor opens a stage: the
\* stages stay, no mutation that was used before comes back, and a confirmed one
\* goes only when its result is in.
Keeps ==
  /\ mphases' = mphases /\ batch' = batch /\ used \subseteq used'
  /\ \A m \in Mutation \cap used : m \in Outstanding' => m \in Outstanding
  /\ confirmed' \subseteq confirmed
  /\ \A m \in confirmed' : m \in Outstanding => m \in Outstanding'

\* Queueing what has not been used is such a step.
LEMMA DispatchKeeps ==
  ASSUME NEW S, S \cap used = {}, running' = running \cup S, used \subseteq used',
         UNCHANGED <<mphases, results, batch, confirmed>>
  PROVE  Keeps
BY DEF Keeps, Outstanding

\* No step but a confirmation or an advance changes what waits in a stage.
LEMMA OthersKeep ==
  ASSUME IInv, [Next]_vars, ~(ConfirmTransaction /\ Staged # {}),
         ~(Bookkeep /\ AdvanceMutations)
  PROVE  Keeps
<1> USE DEF txn_vars, phase_vars, db_vars, ghosts
<1>1. CASE Operator
  <2>1. CASE ConfirmTransaction
    BY <2>1 DEF ConfirmTransaction, Keeps, Outstanding
  <2>2. CASE ~ConfirmTransaction
    <3>1. UNCHANGED <<phase_vars, running, results, used, ghosts>>
      BY <1>1, <2>2 DEF Operator, StartTransaction, AddDecision, RemoveDecision, Discard
    <3> QED
      BY <3>1 DEF Keeps, Outstanding
  <2> QED
    BY <2>1, <2>2
<1>2. CASE Environment
  <2>1. CASE \E a \in {"cmd", "events"}, c \in Comp \cap Fresh : QueueComputation(a, c)
    <3>1. PICK c \in Fresh : Dispatch({c}) /\ UNCHANGED <<mphases, results, batch, confirmed>>
      BY <2>1 DEF QueueComputation
    <3> QED
      BY <3>1, DispatchKeeps DEF Dispatch, Fresh
  <2>2. CASE \E S \in NonEmptySubset(Mutation \cap Fresh) : QueueMutations(S)
    <3>1. PICK S \in SUBSET Fresh : Dispatch(S) /\ UNCHANGED <<mphases, results, batch, confirmed>>
      BY <2>2 DEF QueueMutations, NonEmptySubset
    <3> QED
      BY <3>1, DispatchKeeps DEF Dispatch, Fresh
  <2>3. CASE \E S \in NonEmptySubset(Soft \cap Fresh) : QueueSoft(S)
    <3>1. \E T \in SUBSET Fresh : running' = running \cup T
      BY <2>3 DEF QueueSoft, NonEmptySubset
    <3>2. used \subseteq used' /\ UNCHANGED <<mphases, results, batch, confirmed>>
      BY <2>3 DEF QueueSoft
    <3> QED
      BY <3>1, <3>2, DispatchKeeps DEF Fresh
  <2> QED
    BY <1>2, <2>1, <2>2, <2>3 DEF Environment
<1>3. CASE Workers
  <2>1. CASE \E t \in Task : TaskFinishes(t)
    BY <2>1 DEF TaskFinishes, Keeps, Outstanding
  <2>2. CASE \E t \in Task : TaskWrites(t)
    BY <2>2 DEF TaskWrites, Keeps, Outstanding
  <2>3. CASE \E o \in Other : OthersWrite(o)
    BY <2>3 DEF OthersWrite, Keeps, Outstanding
  <2> QED
    BY <1>3, <2>1, <2>2, <2>3 DEF Workers
<1>4. CASE DbThread
  BY <1>4 DEF DbThread, DbStore, DbApply, Keeps, Outstanding
<1>5. CASE ProcessResult
  <2>1. PICK t \in results, comps \in SUBSET (Comp \cap Fresh),
             muts \in SUBSET (Mutation \cap Fresh) :
          /\ running' = running \cup comps \cup muts
          /\ results' = results \ {t} /\ confirmed' = confirmed \ {t}
          /\ used \subseteq used' /\ UNCHANGED <<mphases, batch>>
    BY <1>5 DEF ProcessResult, ProcessTaskResult
  <2>2. (comps \cup muts) \cap used = {}
    BY DEF Fresh
  <2> QED
    BY <2>1, <2>2 DEF Keeps, Outstanding
<1>6. CASE Bookkeep
  <2>1. CASE AdvanceSoft
    <3>1. Head(sphases) \subseteq Soft
      BY <2>1, HeadTailProperties DEF AdvanceSoft, IInv, TypeOK
    <3>2. Head(sphases) \cap Mutation = {}
      BY <3>1, KindsDisjoint
    <3> QED
      BY <2>1, <3>2 DEF AdvanceSoft, Dispatch, Keeps, Outstanding
  <2>2. CASE AdvanceComputations
    <3>1. Head(cphases) \subseteq Comp
      BY <2>2, HeadTailProperties DEF AdvanceComputations, IInv, TypeOK
    <3>2. Head(cphases) \cap Mutation = {}
      BY <3>1, KindsDisjoint
    <3> QED
      BY <2>2, <3>2 DEF AdvanceComputations, Dispatch, Keeps, Outstanding
  <2>3. CASE \E follow \in {{}} \cup {{c} : c \in Comp \cap Fresh} :
               CompleteSession(follow) \/ LingerOver(follow) \/ IdleTrigger(follow)
    <3>1. PICK follow \in {{}} \cup {{c} : c \in Comp \cap Fresh} :
            Dispatch(follow) /\ UNCHANGED <<mphases, results, batch, confirmed>>
      BY <2>3 DEF CompleteSession, LingerOver, IdleTrigger
    <3>2. follow \cap used = {}
      BY DEF Fresh
    <3> QED
      BY <3>1, <3>2, DispatchKeeps DEF Dispatch
  <2>4. CASE StayPut
    BY <2>4 DEF StayPut, Keeps, Outstanding
  <2> QED
    BY <1>6, <2>1, <2>2, <2>3, <2>4 DEF Bookkeep, UpdateState
<1>7. CASE UNCHANGED vars
  BY <1>7 DEF vars, Keeps, Outstanding
<1> QED
  BY <1>1, <1>2, <1>3, <1>4, <1>5, <1>6, <1>7 DEF Next

\* The first stage is the lowest that the transaction has.
LEMMA FirstStageLowest ==
  ASSUME NEW ms \in SUBSET Mutation, NEW m \in ms
  PROVE  FirstStage(ms) <= StageOf[m] /\ StageOf[m] \in Stage
<1>1. StageOf[m] \in Stage
  BY StageType
<1>2. \E s \in Stage : Bucket(ms, s) # {}
  BY <1>1 DEF Bucket
<1>3. \E s \in Stage : /\ Bucket(ms, s) # {}
                       /\ \A r \in Stage : r < s => Bucket(ms, r) = {}
  <2>1. Stage = {0, 1, 2, 3}
    BY DEF Stage
  <2> QED
    BY <2>1, <1>2
<1>4. /\ FirstStage(ms) \in Stage
      /\ \A r \in Stage : r < FirstStage(ms) => Bucket(ms, r) = {}
  BY <1>3 DEF FirstStage
<1>5. Bucket(ms, StageOf[m]) # {}
  BY DEF Bucket
<1> QED
  BY <1>1, <1>4, <1>5 DEF Stage

\* A transaction that is confirmed leaves every stage but the first waiting.
LEMMA ConfirmOrders ==
  ASSUME IInv, ConfirmTransaction, Staged # {}
  PROVE  /\ Ordered'
         /\ batch' \subseteq Waiting' \cup Outstanding'
         /\ confirmed' = confirmed \cup batch'
         /\ Outstanding \subseteq Outstanding'
         /\ confirms' = confirms + 1
<1> DEFINE f == FirstStage(Staged)
<1>1. Staged \in SUBSET Mutation
  BY DEF IInv, TypeOK, Staged
<1>2. /\ mphases' = Stash(Staged) /\ running' = running \cup Bucket(Staged, f)
      /\ used' = used \cup Staged /\ batch' = Staged /\ confirmed' = confirmed \cup Staged
      /\ results' = results /\ confirms' = confirms + 1
  BY DEF ConfirmTransaction
<1>3. \A m \in Staged : StageOf[m] \in Stage /\ f <= StageOf[m]
  BY <1>1, FirstStageLowest
<1>4. \A m \in Staged : m \in Waiting' <=> StageOf[m] # f
  BY <1>2, <1>3 DEF Waiting, Stash, Bucket
<1>5. f \in Stage
  BY <1>1, FirstStageInhabited
<1> HIDE DEF f
<1>6. batch' \subseteq used' /\ \A s \in Stage : mphases'[s] \subseteq Bucket(batch', s)
  BY <1>2 DEF Stash, Bucket
<1>7. ASSUME NEW m \in batch', NEW n \in batch', StageOf[m] < StageOf[n], n \notin Waiting'
      PROVE  FALSE
  <2>1. StageOf[n] = f
    BY <1>2, <1>4, <1>7
  <2>2. f <= StageOf[m] /\ StageOf[m] \in Stage
    BY <1>2, <1>3
  <2> QED
    BY <1>5, <1>7, <2>1, <2>2 DEF Stage
<1>8. Ordered'
  BY <1>6, <1>7 DEF Ordered
<1>9. batch' \subseteq Waiting' \cup Outstanding'
  BY <1>2, <1>4 DEF Bucket, Outstanding, f
<1> QED
  BY <1>2, <1>8, <1>9 DEF Outstanding

\* The stage that is opened is the lowest that waits, and nothing is out.
LEMMA AdvanceOrders ==
  ASSUME IInv, Ordered, Bookkeep, AdvanceMutations
  PROVE  Ordered' /\ Waiting' \cup Outstanding' = Waiting \cup Outstanding
<1> DEFINE s == PopStage
<1>1. Outstanding = {}
  BY ZeroMeansQuiet DEF AdvanceMutations, Barrier, Drained
<1>2. /\ mphases # NoPhases /\ mphases' = [mphases EXCEPT ![s] = {}]
      /\ running' = running \cup mphases[s] /\ used' = used \cup mphases[s]
      /\ batch' = batch /\ results' = results
  BY DEF AdvanceMutations, Dispatch, ghosts
<1>3. mphases \in [Stage -> SUBSET Mutation]
  BY DEF IInv, TypeOK
<1>4. s \in Stage /\ \A r \in Stage : r < s => mphases[r] = {}
  <2>1. \E r \in Stage : mphases[r] # {}
    BY <1>2, <1>3 DEF NoPhases
  <2>2. \E r \in Stage : /\ mphases[r] # {}
                         /\ \A q \in Stage : q < r => mphases[q] = {}
    <3>1. Stage = {0, 1, 2, 3}
      BY DEF Stage
    <3> QED
      BY <2>1, <3>1
  <2> QED
    BY <2>2 DEF PopStage, NextStage
<1> HIDE DEF s
<1>5. /\ \A r \in Stage : mphases'[r] = IF r = s THEN {} ELSE mphases[r]
      /\ Outstanding' = mphases[s]
  BY <1>1, <1>2, <1>3, <1>4 DEF Outstanding
<1>6. \A r \in Stage : \A m \in mphases[r] : m \in batch /\ StageOf[m] = r
  BY DEF Ordered, Bucket
<1>7. \A m \in Waiting : /\ m \in mphases[StageOf[m]] /\ StageOf[m] \in Stage
                         /\ StageOf[m] >= s
  <2> TAKE m \in Waiting
  <2>1. PICK r \in Stage : m \in mphases[r]
    BY DEF Waiting
  <2>2. StageOf[m] = r /\ ~(r < s)
    BY <1>4, <1>6, <2>1
  <2> QED
    BY <1>4, <2>1, <2>2 DEF Stage
<1>8. \A m : m \in Waiting' <=> m \in Waiting /\ StageOf[m] # s
  <2> TAKE m
  <2>1. ASSUME m \in Waiting' PROVE m \in Waiting /\ StageOf[m] # s
    <3>1. PICK r \in Stage : m \in mphases'[r]
      BY <2>1 DEF Waiting
    <3>2. r # s /\ m \in mphases[r]
      BY <1>5, <3>1
    <3> QED
      BY <1>6, <3>1, <3>2 DEF Waiting
  <2>2. ASSUME m \in Waiting, StageOf[m] # s PROVE m \in Waiting'
    BY <1>5, <1>7, <2>2 DEF Waiting
  <2> QED
    BY <2>1, <2>2
<1>9. \A m : m \in Outstanding' <=> m \in Waiting /\ StageOf[m] = s
  BY <1>4, <1>5, <1>6, <1>7 DEF Waiting
<1>10. Waiting' \cup Outstanding' = Waiting \cup Outstanding
  BY <1>1, <1>8, <1>9
<1>11. ASSUME NEW m \in batch, NEW n \in batch, StageOf[m] < StageOf[n], n \notin Waiting'
       PROVE  m \notin Waiting' \cup Outstanding'
  <2>1. CASE n \notin Waiting
    BY <1>10, <1>11, <2>1 DEF Ordered
  <2>2. CASE n \in Waiting
    <3>1. StageOf[n] = s
      BY <1>8, <1>11, <2>2
    <3>2. m \in Waiting => StageOf[m] >= s /\ StageOf[m] \in Stage
      BY <1>7
    <3>3. m \notin Waiting
      BY <1>4, <1>11, <3>1, <3>2 DEF Stage
    <3> QED
      BY <1>1, <1>10, <3>3
  <2> QED
    BY <2>1, <2>2
<1>12. \A r \in Stage : mphases'[r] \subseteq Bucket(batch', r)
  BY <1>2, <1>5 DEF Ordered
<1>13. batch' \subseteq used'
  BY <1>2 DEF Ordered
<1> QED
  BY <1>2, <1>10, <1>11, <1>12, <1>13 DEF Ordered

\* Every step keeps the stages in order.
LEMMA NextOrdered == IInv /\ Ordered /\ [Next]_vars => Ordered'
<1> SUFFICES ASSUME IInv, Ordered, [Next]_vars PROVE Ordered'
  OBVIOUS
<1>1. CASE ConfirmTransaction /\ Staged # {}
  BY <1>1, ConfirmOrders
<1>2. CASE Bookkeep /\ AdvanceMutations
  BY <1>2, AdvanceOrders
<1>3. CASE Keeps
  <2>1. Waiting' = Waiting
    BY <1>3 DEF Keeps, Waiting
  <2>2. \A m \in batch : m \in Outstanding' => m \in Outstanding
    BY <1>3 DEF Keeps, Ordered, IInv, TypeOK
  <2> QED
    BY <1>3, <2>1, <2>2 DEF Keeps, Ordered
<1> QED
  BY <1>1, <1>2, <1>3, OthersKeep

\* Nothing is staged at first.
LEMMA InitOrdered == Init => Ordered /\ Held
BY DEF Init, Ordered, Held, Waiting, NoPhases

\* confirm_transaction: the mutations of a transaction run stage by stage, whatever
\* the indexer, other mutations and other transactions queue in between, and even
\* if the transaction replaced what was left of the one before it.
THEOREM StagesInOrder == Spec => []StageOrder
<1>1. IInv /\ Ordered => StageOrder
  <2> SUFFICES ASSUME IInv, Ordered, NEW m \in batch, NEW n \in batch,
                      StageOf[m] < StageOf[n], n \notin Pending
               PROVE  m \notin Pending \cup Outstanding
    BY DEF StageOrder
  <2>1. batch \subseteq Mutation
    BY DEF IInv, TypeOK
  <2>2. n \notin Waiting
    BY <2>1, PendingMutations
  <2>3. m \notin Waiting \cup Outstanding
    BY <2>2 DEF Ordered
  <2> QED
    BY <2>1, <2>3, PendingMutations
<1> QED
  BY InitIInv, NextIInv, InitOrdered, NextOrdered, <1>1, PTL DEF Spec

-----------------------------------------------------------------------------
(* Confirmed mutations.                                                    *)

\* The only step that can lose a confirmed mutation.
Overwrites == ConfirmTransaction /\ mphases # NoPhases

\* Every other step keeps what was confirmed.
LEMMA NextHeld == IInv /\ Ordered /\ Held /\ [Next]_vars => Held' \/ Overwrites
<1> SUFFICES ASSUME IInv, Ordered, Held, [Next]_vars, ~Overwrites PROVE Held'
  OBVIOUS
<1>1. CASE ConfirmTransaction /\ Staged # {}
  <2>1. Waiting = {}
    BY <1>1 DEF Overwrites, Waiting, NoPhases
  <2> QED
    BY <1>1, <2>1, ConfirmOrders DEF Held
<1>2. CASE Bookkeep /\ AdvanceMutations
  <2>1. confirmed' = confirmed
    BY <1>2 DEF AdvanceMutations, ghosts
  <2> QED
    BY <1>2, <2>1, AdvanceOrders DEF Held
<1>3. CASE Keeps
  <2>1. Waiting' = Waiting
    BY <1>3 DEF Keeps, Waiting
  <2> QED
    BY <1>3, <2>1 DEF Keeps, Held
<1> QED
  BY <1>1, <1>2, <1>3, OthersKeep

\* What is held is not lost.
LEMMA HeldIsNotLost == IInv => (Held <=> ConfirmedNotLost)
<1> SUFFICES ASSUME IInv PROVE Held <=> ConfirmedNotLost
  OBVIOUS
<1>1. confirmed \subseteq Mutation
  BY DEF IInv, TypeOK
<1> QED
  BY <1>1, PendingMutations DEF Held, ConfirmedNotLost

\* process_task_result, update_state, confirm_transaction: no failure, no work queued
\* by others and no order of results loses a confirmed mutation; the one step that
\* can is the confirmation of a transaction while stages of another one wait.
THEOREM OnlyConfirmingLoses ==
  Spec => [][ConfirmedNotLost => ConfirmedNotLost' \/ Overwrites]_vars
<1>1. IInv /\ Ordered /\ [Next]_vars /\ IInv'
        => [ConfirmedNotLost => ConfirmedNotLost' \/ Overwrites]_vars
  <2>1. IInv' => (Held' <=> ConfirmedNotLost')
    BY HeldIsNotLost, PTL
  <2> QED
    BY <2>1, NextHeld, HeldIsNotLost
<1> QED
  BY InitIInv, NextIInv, InitOrdered, NextOrdered, <1>1, PTL DEF Spec

\* Before the first confirmation nothing waits by stage.
FirstWaits == confirms = 0 => mphases = NoPhases

\* So the mutations of the first transaction are never lost: each is pending, in the
\* pool or in the channel until its result is in.
THEOREM FirstIsNotLost == Spec => [](confirms <= 1 => ConfirmedNotLost)
<1> DEFINE H == FirstWaits /\ (confirms <= 1 => Held)
<1>1. Init => H
  BY InitOrdered DEF Init, FirstWaits
<1>2. IInv /\ Ordered /\ H /\ [Next]_vars => H'
  <2> SUFFICES ASSUME IInv, Ordered, H, [Next]_vars PROVE H'
    OBVIOUS
  <2>1. confirms \in Nat
    BY DEF IInv, TypeOK
  <2>2. confirms' = confirms \/ (ConfirmTransaction /\ confirms' = confirms + 1)
    <3> USE DEF ghosts
    <3>1. CASE Operator
      BY <3>1 DEF Operator, ConfirmTransaction, StartTransaction, AddDecision, RemoveDecision, Discard
    <3>2. CASE Environment
      BY <3>2 DEF Environment, QueueComputation, QueueMutations, QueueSoft
    <3>3. CASE Workers \/ DbThread
      BY <3>3 DEF Workers, DbThread, TaskWrites, TaskFinishes, OthersWrite, DbStore, DbApply
    <3>4. CASE ProcessResult
      BY <3>4 DEF ProcessResult, ProcessTaskResult
    <3>5. CASE Bookkeep
      BY <3>5 DEF Bookkeep, UpdateState, AdvanceMutations, AdvanceSoft, AdvanceComputations,
                  CompleteSession, LingerOver, IdleTrigger, StayPut
    <3>6. CASE UNCHANGED vars
      BY <3>6 DEF vars
    <3> QED
      BY <3>1, <3>2, <3>3, <3>4, <3>5, <3>6 DEF Next
  <2>3. FirstWaits'
    <3>1. CASE confirms' = 0
      <4>1. confirms = 0 /\ ~ConfirmTransaction
        BY <2>1, <2>2, <3>1 DEF ConfirmTransaction
      <4>2. mphases = NoPhases
        BY <4>1 DEF FirstWaits
      <4>3. ~AdvanceMutations
        BY <4>2 DEF AdvanceMutations
      <4> QED
        BY <4>1, <4>2, <4>3, OthersKeep DEF Keeps, FirstWaits
    <3> QED
      BY <3>1 DEF FirstWaits
  <2>4. ASSUME confirms' <= 1 PROVE Held'
    <3>1. confirms <= 1 /\ ~Overwrites
      BY <2>1, <2>2, <2>4 DEF Overwrites, FirstWaits, ConfirmTransaction
    <3> QED
      BY <3>1, NextHeld
  <2> QED
    BY <2>3, <2>4
<1>3. IInv /\ H => (confirms <= 1 => ConfirmedNotLost)
  BY HeldIsNotLost
<1> QED
  BY InitIInv, NextIInv, InitOrdered, NextOrdered, <1>1, <1>2, <1>3, PTL DEF Spec
=============================================================================
