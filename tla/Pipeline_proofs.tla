---------------------------- MODULE Pipeline_proofs ----------------------------
(* For any set of files, any linger, any configuration and any number of    *)
(* commands and events: every variable of the pipeline keeps its type, the  *)
(* startup hands over to the watcher in order, mutations are accepted only  *)
(* on derived signals, and the assertion on level None can only be tripped  *)
(* by a packing, a fetch or a cover art fetch asked for early.                                *)
(*                                                                          *)
(* Three inductive invariants are enough.  HandOver ties the level, the     *)
(* watcher and its command to the startup state and says which answers can  *)
(* still be out in which state; Derived says that before level Full stale   *)
(* signals mean a derivation is out; Early says that at level None there is *)
(* no work but maintenance.                                                 *)
EXTENDS Pipeline, TLAPS

USE DEF session, scopes, watch, batches, signals, files, ghosts

-----------------------------------------------------------------------------
(* Typing.                                                                 *)

SessionType ==
  /\ out \subseteq Kind
  /\ mode \in {"Idle", "Working", "Done"}
  /\ idle_since \in BOOLEAN
  /\ age \in 0..Linger

\* Whatever joins a session, and whatever leaves it, its variables stay typed.
LEMMA SessionTyped ==
  ASSUME TypeOK, NEW K \in SUBSET Kind, NEW done, SessionGoesOn(K, done)
  PROVE  SessionType'
<1>1. out' \subseteq Kind
  BY DEF TypeOK, SessionGoesOn
<1>2. mode' \in {"Idle", "Working", "Done"}
  BY DEF TypeOK, SessionGoesOn
<1>3. idle_since' \in BOOLEAN
  BY DEF TypeOK, SessionGoesOn
<1>4. age' \in 0..Linger
  BY LingerPositive DEF TypeOK, SessionGoesOn
<1> QED
  BY <1>1, <1>2, <1>3, <1>4 DEF SessionType

\* So they do when it completes, and what completion asks for is typed.
LEMMA FinishTyped ==
  ASSUME TypeOK, NEW analysis \in BOOLEAN, NEW checks \in SUBSET Offload,
         Finish(analysis, checks)
  PROVE  /\ SessionType'
         /\ pending_work' \subseteq Flag
         /\ offloads' \subseteq Offload
         /\ worked' \in BOOLEAN /\ changed' \in BOOLEAN /\ unasked' \in BOOLEAN
<1>1. out' \subseteq Kind
  BY DEF Finish, Kind
<1>2. mode' \in {"Idle", "Working", "Done"}
  BY DEF Finish
<1>3. age' \in 0..Linger
  BY LingerPositive DEF Finish
<1>4. idle_since' \in BOOLEAN
  BY DEF TypeOK, Finish
<1>5. pending_work' \subseteq Flag
  BY DEF TypeOK, Finish, Flag, AnalysisFlags
<1>6. offloads' \subseteq Offload
  BY DEF TypeOK, Finish, Offload
<1>7. worked' \in BOOLEAN /\ changed' \in BOOLEAN /\ unasked' \in BOOLEAN
  BY Zenon DEF Finish
<1> QED
  BY <1>1, <1>2, <1>3, <1>4, <1>5, <1>6, <1>7 DEF SessionType

LEMMA InitTypeOK == Init => TypeOK
<1> SUFFICES ASSUME Init PROVE TypeOK
  OBVIOUS
<1>1. /\ worked \in BOOLEAN /\ idle_since \in BOOLEAN
      /\ derivation_needed \in BOOLEAN /\ startup_analysis \in BOOLEAN
      /\ polled \in BOOLEAN /\ incremental \in BOOLEAN /\ pending_scope \in BOOLEAN
      /\ fetching \in BOOLEAN /\ covering \in BOOLEAN
      /\ stale \in BOOLEAN /\ changed \in BOOLEAN /\ unasked \in BOOLEAN
      /\ matched \in BOOLEAN
  BY Zenon DEF Init
<1>2. out \subseteq Kind /\ mode \in {"Idle", "Working", "Done"}
  BY DEF Init, Kind
<1> QED
  BY <1>1, <1>2, LingerPositive DEF Init, TypeOK, PC, Arm

LEMMA NextTypeOK == TypeOK /\ [Next]_vars => TypeOK'
<1> SUFFICES ASSUME TypeOK, [Next]_vars PROVE TypeOK'
  OBVIOUS
<1>0. config' \in Settings
  BY DEF TypeOK, Next, vars
<1> USE <1>0, LingerPositive, MaxEventsNat DEF PC, Arm
<1>1. CASE CommandMaintenance
  <2>1. SessionType'
    BY <1>1, SessionTyped DEF CommandMaintenance, Queue, Kind
  <2> QED
    BY <1>1, <2>1 DEF TypeOK, SessionType, CommandMaintenance, Receive, Event, Queue
<1>2. CASE CommandPacking
  <2>1. SessionType'
    BY <1>2, SessionTyped DEF CommandPacking, Queue, Kind
  <2>2. incremental' \in BOOLEAN
    BY <1>2, Zenon DEF CommandPacking
  <2> QED
    BY <1>2, <2>1, <2>2 DEF TypeOK, SessionType, CommandPacking, Receive, Event, Queue
<1>3. CASE CommandFetch
  BY <1>3 DEF TypeOK, CommandFetch, Receive, Event
<1>43. CASE CommandCoverArt
  <2>1. covering' \in BOOLEAN
    BY <1>43, Zenon DEF CommandCoverArt
  <2> QED
    BY <1>43, <2>1 DEF TypeOK, CommandCoverArt, Receive, Event
<1>4. CASE CommandConfirm
  <2>1. SessionType'
    BY <1>4, SessionTyped DEF CommandConfirm, Queue, Kind
  <2> QED
    BY <1>4, <2>1 DEF TypeOK, SessionType, CommandConfirm, Receive, Event, Queue
<1>5. CASE CompleteSetup
  BY <1>5 DEF TypeOK, CompleteSetup, Receive, Offload
<1>6. CASE \E k \in Kind : ComputationDone(k)
  <2>1. SessionType'
    BY <1>6, SessionTyped DEF ComputationDone, Answered
  <2>2. worked' \in BOOLEAN
    BY <1>6, Zenon DEF ComputationDone, Answered
  <2> QED
    BY <1>6, <2>1, <2>2 DEF TypeOK, SessionType, ComputationDone, Answered, Receive
<1>7. CASE DeriveDone
  <2>1. SessionType'
    BY <1>7, SessionTyped DEF DeriveDone, Answered
  <2>2. worked' \in BOOLEAN /\ stale' \in BOOLEAN
    BY <1>7, Zenon DEF DeriveDone, Answered
  <2> QED
    BY <1>7, <2>1, <2>2 DEF TypeOK, SessionType, DeriveDone, Answered, Receive
<1>8. CASE AnalysisDone
  <2>1. SessionType'
    BY <1>8, SessionTyped DEF AnalysisDone, Answered
  <2>2. worked' \in BOOLEAN
    BY <1>8, Zenon DEF AnalysisDone, Answered
  <2> QED
    BY <1>8, <2>1, <2>2 DEF TypeOK, SessionType, AnalysisDone, Answered, Receive
<1>9. ASSUME NEW ok \in SUBSET File, NEW spawn \in SUBSET {"other"}, IndexDone(ok, spawn)
      PROVE  TypeOK'
  <2>1. SessionType'
    BY <1>9, SessionTyped DEF IndexDone, MutationAnswered, Answered, Kind
  <2>2. worked' \in BOOLEAN /\ changed' \in BOOLEAN
    BY <1>9, Zenon DEF IndexDone, MutationAnswered, Answered
  <2> QED
    BY <1>9, <2>1, <2>2 DEF TypeOK, SessionType, IndexDone, MutationAnswered, Answered,
                            Receive, Scope
<1>10. ASSUME NEW scope \in SUBSET Scope, NEW spawn \in SUBSET {"other"},
              NEW reconfigured \in BOOLEAN, OperatorMutationDone(scope, spawn, reconfigured)
       PROVE  TypeOK'
  <2>1. SessionType'
    BY <1>10, SessionTyped DEF OperatorMutationDone, MutationAnswered, Answered, Kind
  <2>2. worked' \in BOOLEAN /\ changed' \in BOOLEAN
    BY <1>10, Zenon DEF OperatorMutationDone, MutationAnswered, Answered
  <2>3. command' \in {"none", "Start", "Poll"} /\ offloads' \subseteq Offload
    BY <1>10 DEF TypeOK, OperatorMutationDone, RequestPoll, Offload
  <2> QED
    BY <1>10, <2>1, <2>2, <2>3 DEF TypeOK, SessionType, OperatorMutationDone,
                                   MutationAnswered, Answered, Receive
<1>11. ASSUME NEW k \in Kind, NEW scope \in SUBSET Scope, NEW spawn \in SUBSET {"other"},
              SoftDone(k, scope, spawn)
       PROVE  TypeOK'
  <2>1. SessionType'
    BY <1>11, SessionTyped DEF SoftDone, MutationAnswered, Answered, Kind
  <2>2. worked' \in BOOLEAN /\ changed' \in BOOLEAN
    BY <1>11, Zenon DEF SoftDone, MutationAnswered, Answered
  <2>3. deploy' \in {"clean", "unknown", "ready", "failed"}
    BY <1>11 DEF TypeOK, SoftDone
  <2> QED
    BY <1>11, <2>1, <2>2, <2>3 DEF TypeOK, SessionType, SoftDone, MutationAnswered,
                                   Answered, Receive
<1>12. CASE ScanDone
  <2>1. SessionType'
    BY <1>12, SessionTyped DEF ScanDone, AllInitialScansComplete, QueueDerivation, Queue, Kind
  <2> QED
    BY <1>12, <2>1 DEF TypeOK, SessionType, ScanDone, AllInitialScansComplete,
                       QueueDerivation, Queue, Receive
<1>13. CASE InotifyFailed
  BY <1>13 DEF TypeOK, InotifyFailed, Receive
<1>14. CASE MonitoringActive
  BY <1>14 DEF TypeOK, MonitoringActive, Receive
<1>15. CASE PollDone
  <2>1. SessionType'
    BY <1>15, SessionTyped DEF PollDone, AllInitialScansComplete, QueueDerivation, Queue, Kind
  <2> QED
    BY <1>15, <2>1 DEF TypeOK, SessionType, PollDone, AllInitialScansComplete,
                       QueueDerivation, Queue, Receive
<1>16. ASSUME NEW now \in SUBSET File, FilesChanged(now)
       PROVE  TypeOK'
  <2>1. derivation_needed' \in BOOLEAN
    BY <1>16, Zenon DEF FilesChanged
  <2> QED
    BY <1>16, <2>1 DEF TypeOK, FilesChanged, Receive, Event
<1>17. CASE FileChanged
  <2>1. SessionType'
    BY <1>17, SessionTyped DEF FileChanged, Queue, Kind
  <2> QED
    BY <1>17, <2>1 DEF TypeOK, SessionType, FileChanged, Receive, Event, Queue
<1>18. CASE DiskChanges
  BY <1>18 DEF TypeOK, DiskChanges, Event
<1>19. CASE Elapse
  <2>1. age' \in 0..Linger
    BY <1>19 DEF TypeOK, Elapse
  <2>2. polled' \in BOOLEAN
    BY <1>19, Zenon DEF Elapse
  <2> QED
    BY <1>19, <2>1, <2>2 DEF TypeOK, Elapse
<1>20. CASE SourceMatched
  BY <1>20 DEF TypeOK, SourceMatched, Receive, Scope
<1>21. CASE AllDone
  <2>1. SessionType'
    BY <1>21, SessionTyped DEF AllDone, Queue, Kind
  <2>2. fetching' \in BOOLEAN /\ matched' \in BOOLEAN /\ unasked' \in BOOLEAN
    BY <1>21, Zenon DEF AllDone
  <2>3. pending_work' \subseteq Flag
    BY <1>21 DEF TypeOK, AllDone, Flag
  <2>4. session_scope' \subseteq Scope
    BY <1>21 DEF TypeOK, AllDone
  <2> QED
    BY <1>21, <2>1, <2>2, <2>3, <2>4 DEF TypeOK, SessionType, AllDone, Receive, Queue
<1>44. CASE SidecarsReplaced
  <2>1. SessionType'
    BY <1>44, SessionTyped DEF SidecarsReplaced, Queue, Kind
  <2> QED
    BY <1>44, <2>1 DEF TypeOK, SessionType, SidecarsReplaced, Receive, Queue
<1>45. CASE CoverArtDone
  <2>1. covering' \in BOOLEAN
    BY <1>45, Zenon DEF CoverArtDone
  <2> QED
    BY <1>45, <2>1 DEF TypeOK, CoverArtDone, Receive
<1>22. CASE SetupComplete
  BY <1>22 DEF TypeOK, SetupComplete, Answer, Receive
<1>23. ASSUME NEW needed \in BOOLEAN, VacuumChecked(needed)
       PROVE  TypeOK'
  <2>1. SessionType'
    BY <1>23, SessionTyped DEF VacuumChecked, Queue, Kind
  <2> QED
    BY <1>23, <2>1 DEF TypeOK, SessionType, VacuumChecked, Answer, Receive, Queue
<1>24. CASE CacheReady
  <2>1. polled' \in BOOLEAN
    BY <1>24, Zenon DEF CacheReady
  <2> QED
    BY <1>24, <2>1 DEF TypeOK, CacheReady, Answer, Receive
<1>25. ASSUME NEW transition \in BOOLEAN, IndexChecked(transition)
       PROVE  TypeOK'
  <2>1. SessionType' /\ worked' \in BOOLEAN
    BY <1>25, SessionTyped DEF TypeOK, SessionType, IndexChecked, IndexFiles, AnalyseAtOnce,
                               Queue, Kind
  <2>2. startup_analysis' \in BOOLEAN /\ pending_scope' \in BOOLEAN /\ unasked' \in BOOLEAN
    BY <1>25, Zenon DEF TypeOK, IndexChecked, IndexFiles, AnalyseAtOnce
  <2>3. pending_work' \subseteq Flag
    BY <1>25 DEF TypeOK, IndexChecked, IndexFiles, AnalyseAtOnce, AnalysisFlags, Flag
  <2>4. indexing' \subseteq File /\ unindexed' \subseteq File
    BY <1>25 DEF TypeOK, IndexChecked, IndexFiles, AnalyseAtOnce
  <2> QED
    BY <1>25, <2>1, <2>2, <2>3, <2>4 DEF TypeOK, SessionType, IndexChecked, Answer, Receive
<1>26. CASE \E k \in {"audio", "sidecar"} : DeployChecked(k)
  <2>1. SessionType'
    BY <1>26, SessionTyped DEF DeployChecked, Queue, Kind
  <2> QED
    BY <1>26, <2>1 DEF TypeOK, SessionType, DeployChecked, Answer, Receive, Queue
<1>27. CASE AwaitSetup
  BY <1>27 DEF TypeOK, AwaitSetup
<1>46. CASE Panic
  BY <1>46 DEF TypeOK, Panic
<1>47. ASSUME Continue PROVE pc' \in PC
  BY <1>47 DEF Continue
<1>48. config.repack \in BOOLEAN
  BY SettingsType DEF TypeOK
<1>28. CASE CompleteNone /\ Continue
  <2>1. Finish(FALSE, {})
    BY <1>28 DEF CompleteNone
  <2>2. /\ SessionType' /\ pending_work' \subseteq Flag /\ offloads' \subseteq Offload
        /\ worked' \in BOOLEAN /\ changed' \in BOOLEAN /\ unasked' \in BOOLEAN
    BY <2>1, FinishTyped
  <2>3. session_scope' \subseteq Scope
    BY <2>1 DEF Finish
  <2> QED
    BY <1>28, <1>47, <2>2, <2>3 DEF TypeOK, SessionType, CompleteNone, Finish
<1>29. CASE CompleteInodes /\ Continue
  <2>1. Finish(FALSE, {"index_transition"})
    BY <1>29 DEF CompleteInodes
  <2>2. /\ SessionType' /\ pending_work' \subseteq Flag /\ offloads' \subseteq Offload
        /\ worked' \in BOOLEAN /\ changed' \in BOOLEAN /\ unasked' \in BOOLEAN
    BY <2>1, FinishTyped DEF Offload
  <2> QED
    BY <1>29, <1>47, <2>2 DEF TypeOK, SessionType, CompleteInodes, Finish
<1>30. CASE CompleteMutations /\ Continue
  <2>1. Finish(startup_analysis, {})
    BY <1>30 DEF CompleteMutations
  <2>2. /\ SessionType' /\ pending_work' \subseteq Flag /\ offloads' \subseteq Offload
        /\ worked' \in BOOLEAN /\ changed' \in BOOLEAN /\ unasked' \in BOOLEAN
    BY <2>1, FinishTyped DEF TypeOK
  <2>3. pending_scope' \in BOOLEAN
    BY <1>30, Zenon DEF CompleteMutations
  <2>4. derivation_needed' \in BOOLEAN /\ startup_analysis' \in BOOLEAN /\ stale' \in BOOLEAN
    BY <1>30, Zenon DEF CompleteMutations
  <2> QED
    BY <1>30, <1>47, <2>2, <2>3, <2>4 DEF TypeOK, SessionType, CompleteMutations, Finish
<1>31. CASE CompleteOthers /\ Continue
  <2>1. Finish(pending_scope, IF pending_scope THEN {} ELSE {"index_steady"})
    BY <1>31 DEF CompleteOthers
  <2>3. pending_scope \in BOOLEAN /\ pending_scope' \in BOOLEAN
    BY <1>31, Zenon DEF TypeOK, CompleteOthers
  <2>2. /\ SessionType' /\ pending_work' \subseteq Flag /\ offloads' \subseteq Offload
        /\ worked' \in BOOLEAN /\ changed' \in BOOLEAN /\ unasked' \in BOOLEAN
    BY <2>1, <2>3, FinishTyped DEF Offload
  <2> QED
    BY <1>31, <1>47, <2>2, <2>3 DEF TypeOK, SessionType, CompleteOthers, Finish
<1>32. CASE TriggerFetch /\ Continue
  BY <1>32, <1>47 DEF TypeOK, TriggerFetch, Lingered, Update
<1>33. CASE TriggerPacking /\ Continue
  <2>1. SessionType'
    BY <1>33, SessionTyped DEF TriggerPacking, Queue, Kind
  <2>2. incremental' \in BOOLEAN
    BY <1>33, <1>48, Zenon DEF TriggerPacking, FullRepack
  <2> QED
    BY <1>33, <1>47, <2>1, <2>2 DEF TypeOK, SessionType, TriggerPacking, Lingered, Update, Queue
<1>34. CASE TriggerAutoDeploy /\ Continue
  BY <1>34, <1>47 DEF TypeOK, TriggerAutoDeploy, Lingered, Update, Offload
<1>35. CASE GoIdle /\ Continue
  BY <1>35, <1>47 DEF TypeOK, GoIdle, Lingered, Update
<1>36. CASE IdlePromotion /\ Continue
  <2>1. SessionType'
    BY <1>36, SessionTyped DEF IdlePromotion, Queue, Kind
  <2>2. incremental' \in BOOLEAN
    BY <1>36, Zenon DEF IdlePromotion
  <2> QED
    BY <1>36, <1>47, <2>1, <2>2 DEF TypeOK, SessionType, IdlePromotion, Update, Queue
<1>37. CASE NothingToDo /\ Continue
  BY <1>37, <1>47 DEF TypeOK, NothingToDo, Update
<1>38. CASE ReconciliationOver
  BY <1>38 DEF TypeOK, ReconciliationOver, CheckStartup, Offload
<1>39. CASE StartWatching
  <2>1. /\ watcher' \in {"NotStarted", "InitialScan", "Watching", "Polling"}
        /\ command' \in {"none", "Start", "Poll"}
        /\ observed' \subseteq File /\ offloads' \subseteq Offload
    BY <1>39 DEF TypeOK, StartWatching, Offload
  <2> QED
    BY <1>39, <2>1 DEF TypeOK, StartWatching, CheckStartup
<1>40. CASE StillStarting
  BY <1>40 DEF TypeOK, StillStarting, CheckStartup
<1>41. CASE MaybeTriggerDerivation
  <2>1. SessionType' /\ worked' \in BOOLEAN
    BY <1>41, SessionTyped DEF TypeOK, SessionType, MaybeTriggerDerivation,
                               QueueDerivation, Queue, Kind
  <2>2. derivation_needed' \in BOOLEAN
    BY <1>41, Zenon DEF TypeOK, MaybeTriggerDerivation
  <2>3. snapshot' \subseteq File
    BY <1>41 DEF TypeOK, MaybeTriggerDerivation, QueueDerivation
  <2> QED
    BY <1>41, <2>1, <2>2, <2>3 DEF TypeOK, SessionType, MaybeTriggerDerivation
<1>42. CASE UNCHANGED vars
  BY <1>42 DEF TypeOK, vars
<1> QED
  <2>1. CASE OperatorCommand
    BY <1>1, <1>2, <1>3, <1>4, <1>5, <1>43, <2>1 DEF OperatorCommand
  <2>2. CASE TaskResult
    BY <1>6, <1>7, <1>8, <1>9, <1>10, <1>11, <2>2 DEF TaskResult
  <2>3. CASE FileCreated \/ FileRemoved
    BY <1>16, <2>3 DEF TypeOK, FileCreated, FileRemoved
  <2>4. CASE WatcherMessage
    BY <1>12, <1>13, <1>14, <1>15, <1>17, <2>3, <2>4 DEF WatcherMessage
  <2>5. CASE OffloadAnswer
    BY <1>22, <1>23, <1>24, <1>25, <1>26, <2>5 DEF OffloadAnswer
  <2>6. CASE UpdateState
    BY <1>28, <1>29, <1>30, <1>31, <1>32, <1>33, <1>34, <1>35, <1>36, <1>37, <2>6
    DEF UpdateState, Complete
  <2>7. CASE Bookkeeping
    BY <1>27, <1>38, <1>39, <1>40, <1>41, <1>46, <2>6, <2>7 DEF Bookkeeping
  <2> QED
    BY <1>18, <1>19, <1>20, <1>21, <1>42, <1>44, <1>45, <2>1, <2>2, <2>4, <2>5, <2>7
    DEF Next, Step, FetchMessage

\* Every field of the Witch keeps its type, whatever is asked of it, whatever
\* the watcher sees and in whatever order answers come.
THEOREM TypeCorrect == Spec => []TypeOK
  BY InitTypeOK, NextTypeOK, PTL DEF Spec

-----------------------------------------------------------------------------
(* Startup.  The level is raised by the watcher's scans, the watcher is    *)
(* started by check_startup_transitions, and only an answer to the vacuum  *)
(* check or to the setup wizard leaves the states before Ready: each step  *)
(* of the hand-over must know that the one before it is over.              *)

HandOver ==
  /\ level # "None" \/ fs # "idle" \/ command # "none" => watcher # "NotStarted"
  /\ watcher # "NotStarted" => startup = "Ready"
  /\ "vacuum" \in offloads => startup = "Reconciling"
  /\ "setup" \in offloads => startup = "AwaitingSetup"
  /\ StartNotLost

LEMMA InitHandOver == Init => HandOver
  BY DEF Init, HandOver, StartNotLost

LEMMA NextHandOver == HandOver /\ [Next]_vars => HandOver'
<1> SUFFICES ASSUME HandOver, [Next]_vars PROVE HandOver'
  OBVIOUS
<1> USE DEF HandOver, StartNotLost
<1>1. CASE OperatorCommand
  BY <1>1 DEF OperatorCommand, CommandMaintenance, CommandPacking, CommandFetch,
              CommandCoverArt, CommandConfirm, CompleteSetup
<1>2. CASE TaskResult
  BY <1>2 DEF TaskResult, ComputationDone, DeriveDone, AnalysisDone, IndexDone,
              OperatorMutationDone, RequestPoll, SoftDone
<1>3. CASE WatcherMessage
  BY <1>3 DEF WatcherMessage, ScanDone, InotifyFailed, MonitoringActive, PollDone,
              FileCreated, FileRemoved, FilesChanged, FileChanged, AllInitialScansComplete
<1>4. CASE DiskChanges \/ Elapse \/ FetchMessage
  BY <1>4 DEF DiskChanges, Elapse, FetchMessage, SourceMatched, AllDone, SidecarsReplaced,
              CoverArtDone
<1>5. CASE SetupComplete
  BY <1>5 DEF SetupComplete, Answer
<1>6. CASE \E needed \in BOOLEAN : VacuumChecked(needed)
  BY <1>6 DEF VacuumChecked, Answer
<1>7. CASE CacheReady
  BY <1>7 DEF CacheReady
<1>8. CASE \E transition \in BOOLEAN : IndexChecked(transition)
  BY <1>8 DEF IndexChecked
<1>9. CASE \E k \in {"audio", "sidecar"} : DeployChecked(k)
  BY <1>9 DEF DeployChecked
<1>10. CASE Complete
  BY <1>10 DEF Complete, CompleteNone, CompleteInodes, CompleteMutations, CompleteOthers,
               Completed, Finish
<1>11. CASE TriggerFetch \/ TriggerPacking \/ TriggerAutoDeploy \/ GoIdle
  BY <1>11 DEF TriggerFetch, TriggerPacking, TriggerAutoDeploy, GoIdle, Lingered
<1>12. CASE AwaitSetup \/ Panic \/ IdlePromotion \/ NothingToDo \/ StillStarting \/ MaybeTriggerDerivation
  BY <1>12 DEF AwaitSetup, Panic, IdlePromotion, NothingToDo, StillStarting, CheckStartup,
               MaybeTriggerDerivation
<1>13. CASE ReconciliationOver
  BY <1>13 DEF ReconciliationOver, CheckStartup
<1>14. CASE StartWatching
  BY <1>14 DEF StartWatching, CheckStartup, CanStartWatching
<1>15. CASE UNCHANGED vars
  BY <1>15 DEF vars
<1> QED
  BY <1>1, <1>2, <1>3, <1>4, <1>5, <1>6, <1>7, <1>8, <1>9, <1>10, <1>11, <1>12, <1>13,
     <1>14, <1>15
  DEF Next, Step, OffloadAnswer, Bookkeeping, UpdateState

LEMMA HandOverHolds == Spec => []HandOver
  BY InitHandOver, NextHandOver, PTL DEF Spec

\* Reasoning starts only on a database that check_startup_transitions has seen
\* set up, reconciled and vacuumed.
THEOREM ReasoningNeedsReady == Spec => []LevelNeedsReady
<1>1. HandOver => LevelNeedsReady
  BY DEF HandOver, LevelNeedsReady
<1> QED
  BY <1>1, HandOverHolds, PTL

\* The one Start command reaches the watcher thread: no poll request and no
\* cache answer takes its place.
THEOREM StartDelivered == Spec => []StartNotLost
<1>1. HandOver => StartNotLost
  BY DEF HandOver
<1> QED
  BY <1>1, HandOverHolds, PTL

-----------------------------------------------------------------------------
(* The first derivation.                                                   *)

\* Between the scan and level Full the derivation of the scan is out or over.
Derived == level = "Inodes" /\ stale => "derive" \in out

LEMMA InitDerived == Init => Derived
  BY DEF Init, Derived

LEMMA NextDerived == Derived /\ [Next]_vars => Derived'
<1> SUFFICES ASSUME Derived, [Next]_vars PROVE Derived'
  OBVIOUS
<1> USE DEF Derived
<1>1. CASE OperatorCommand
  BY <1>1 DEF OperatorCommand, CommandMaintenance, CommandPacking, CommandFetch,
              CommandCoverArt, CommandConfirm, CompleteSetup, Queue, SessionGoesOn
<1>2. CASE DeriveDone
  BY <1>2 DEF DeriveDone
<1>3. CASE \E k \in Kind : ComputationDone(k)
  BY <1>3 DEF ComputationDone, Answered, SessionGoesOn
<1>4. CASE AnalysisDone
  BY <1>4 DEF AnalysisDone, Answered, SessionGoesOn
<1>5. CASE TaskResult /\ ~DeriveDone /\ ~AnalysisDone /\ ~\E k \in Kind : ComputationDone(k)
  <2>1. ASSUME NEW ok, NEW spawn, IndexDone(ok, spawn) PROVE Derived'
    BY <2>1 DEF IndexDone, MutationAnswered, Answered, SessionGoesOn
  <2>2. ASSUME NEW scope, NEW spawn, NEW reconfigured,
               OperatorMutationDone(scope, spawn, reconfigured)
        PROVE  Derived'
    BY <2>2 DEF OperatorMutationDone, MutationAnswered, Answered, SessionGoesOn
  <2>3. ASSUME NEW k \in Kind, NEW scope, NEW spawn, SoftDone(k, scope, spawn)
        PROVE  Derived'
    BY <2>3 DEF SoftDone, MutationAnswered, Answered, SessionGoesOn
  <2> QED
    BY <1>5, <2>1, <2>2, <2>3 DEF TaskResult
<1>6. CASE ScanDone \/ PollDone
  BY <1>6 DEF ScanDone, PollDone, AllInitialScansComplete, QueueDerivation, Queue,
              SessionGoesOn
<1>7. CASE InotifyFailed \/ MonitoringActive \/ FileCreated \/ FileRemoved \/ FileChanged
  BY <1>7 DEF InotifyFailed, MonitoringActive, FileCreated, FileRemoved, FilesChanged,
              FileChanged, Queue, SessionGoesOn
<1>8. CASE DiskChanges \/ Elapse \/ FetchMessage
  BY <1>8 DEF DiskChanges, Elapse, FetchMessage, SourceMatched, AllDone, SidecarsReplaced,
              CoverArtDone, Queue, SessionGoesOn
<1>9. CASE OffloadAnswer
  BY <1>9 DEF OffloadAnswer, SetupComplete, VacuumChecked, CacheReady, IndexChecked,
              IndexFiles, AnalyseAtOnce, DeployChecked, Queue, SessionGoesOn
<1>10. CASE Complete
  BY <1>10 DEF Complete, CompleteNone, CompleteInodes, CompleteMutations, CompleteOthers,
               Completed
<1>11. CASE TriggerFetch \/ TriggerPacking \/ TriggerAutoDeploy \/ GoIdle \/ IdlePromotion
  BY <1>11 DEF TriggerFetch, TriggerPacking, TriggerAutoDeploy, GoIdle, IdlePromotion,
               Lingered, Queue, SessionGoesOn
<1>12. CASE AwaitSetup \/ Panic \/ NothingToDo \/ ReconciliationOver \/ StartWatching \/ StillStarting
  BY <1>12 DEF AwaitSetup, Panic, NothingToDo, ReconciliationOver, StartWatching, StillStarting,
               CheckStartup
<1>13. CASE MaybeTriggerDerivation
  BY <1>13 DEF MaybeTriggerDerivation, QueueDerivation, Queue, SessionGoesOn
<1>14. CASE UNCHANGED vars
  BY <1>14 DEF vars
<1> QED
  BY <1>1, <1>2, <1>3, <1>4, <1>5, <1>6, <1>7, <1>8, <1>9, <1>10, <1>11, <1>12, <1>13, <1>14
  DEF Next, Step, TaskResult, WatcherMessage, Bookkeeping, UpdateState

LEMMA FullIsDerived ==
  ASSUME Derived, [Next]_vars, level # "Full", level' = "Full"
  PROVE  ~stale
<1>1. level' # level
  OBVIOUS
<1>2. CompleteInodes
  <2>1. ~OperatorCommand /\ ~OffloadAnswer /\ ~(UNCHANGED vars)
    BY <1>1 DEF OperatorCommand, CommandMaintenance, CommandPacking, CommandFetch,
                CommandCoverArt, CommandConfirm, CompleteSetup, OffloadAnswer, SetupComplete, VacuumChecked,
                CacheReady, IndexChecked, DeployChecked, vars
  <2>2. ~TaskResult
    BY <1>1 DEF TaskResult, ComputationDone, DeriveDone, AnalysisDone, IndexDone,
                OperatorMutationDone, SoftDone
  <2>3. ~WatcherMessage
    BY DEF WatcherMessage, ScanDone, InotifyFailed, MonitoringActive, PollDone, FileCreated,
           FileRemoved, FilesChanged, FileChanged, AllInitialScansComplete
  <2>4. ~DiskChanges /\ ~Elapse /\ ~FetchMessage
    BY <1>1 DEF DiskChanges, Elapse, FetchMessage, SourceMatched, AllDone,
                SidecarsReplaced, CoverArtDone
  <2>5. ~CompleteNone /\ ~CompleteMutations /\ ~CompleteOthers
    BY <1>1 DEF CompleteNone, CompleteMutations, CompleteOthers
  <2>6. ~TriggerFetch /\ ~TriggerPacking /\ ~TriggerAutoDeploy /\ ~GoIdle /\ ~IdlePromotion
          /\ ~NothingToDo
    BY <1>1 DEF TriggerFetch, TriggerPacking, TriggerAutoDeploy, GoIdle, Lingered,
                IdlePromotion, NothingToDo
  <2>7. ~AwaitSetup /\ ~Panic /\ ~ReconciliationOver /\ ~StartWatching /\ ~StillStarting
          /\ ~MaybeTriggerDerivation
    BY <1>1 DEF AwaitSetup, Panic, ReconciliationOver, StartWatching, StillStarting, CheckStartup,
                MaybeTriggerDerivation
  <2> QED
    BY <2>1, <2>2, <2>3, <2>4, <2>5, <2>6, <2>7 DEF Next, Step, Bookkeeping, UpdateState, Complete
<1> QED
  BY <1>2 DEF CompleteInodes, Completed, Quiet, Derived

\* Mutations are accepted only after a derivation has run over the files of the
\* initial scan.
THEOREM FullNeedsDerivation == Spec => FullAfterDerivation
<1>1. Derived /\ [Next]_vars => [level # "Full" /\ level' = "Full" => ~stale]_vars
  BY FullIsDerived
<1> QED
  BY <1>1, InitDerived, NextDerived, PTL DEF Spec, FullAfterDerivation

-----------------------------------------------------------------------------
(* The assertion on level None.                                            *)

\* Before the scan there is nothing but maintenance and the startup's own
\* offloaded tasks.
Early ==
  level = "None" =>
    /\ out \subseteq {"maintenance"} /\ ~worked
    /\ ~fetching /\ ~covering /\ ~incremental /\ pending_work = {}
    /\ offloads \subseteq {"setup", "vacuum", "cache"}
    /\ fs \in {"idle", "scanning"}

\* An installation whose operator asks for no packing and no fetch of either kind.
Untroubled == Commands \cap {"packing", "fetch", "covers"} = {}

LEMMA InitEarly == Init => Early /\ ~Panicked
  BY DEF Init, Early, Panicked

LEMMA NextEarly ==
  ASSUME Untroubled, Early, ~Panicked, [Next]_vars
  PROVE  Early' /\ ~Panicked'
<1> USE DEF Early, Panicked, Untroubled
<1>1. CASE OperatorCommand
  BY <1>1 DEF OperatorCommand, CommandMaintenance, CommandPacking, CommandFetch,
              CommandCoverArt, CommandConfirm, CompleteSetup, Receive, Queue, SessionGoesOn
<1>2. ASSUME NEW k \in Kind, ComputationDone(k)
      PROVE  Early' /\ ~Panicked'
  <2>1. level = "None" => k = "maintenance" /\ ~worked
    BY <1>2 DEF ComputationDone, Answered
  <2>2. worked' = (worked \/ (level = "None" /\ k # "maintenance"))
    BY <1>2 DEF ComputationDone, Answered
  <2>3. level = "None" => ~worked'
    BY <2>1, <2>2, Zenon
  <2> QED
    BY <1>2, <2>3 DEF ComputationDone, Answered, Receive, SessionGoesOn
<1>3. CASE DeriveDone \/ AnalysisDone
  BY <1>3 DEF DeriveDone, AnalysisDone, Answered, Receive
<1>4. CASE TaskResult /\ ~DeriveDone /\ ~AnalysisDone /\ ~\E k \in Kind : ComputationDone(k)
  BY <1>4 DEF TaskResult, IndexDone, OperatorMutationDone, SoftDone, MutationAnswered,
              Answered, Receive
<1>5. CASE ScanDone \/ PollDone
  BY <1>5 DEF ScanDone, PollDone, AllInitialScansComplete, Receive
<1>6. CASE InotifyFailed \/ MonitoringActive \/ FileCreated \/ FileRemoved \/ FileChanged
  BY <1>6 DEF InotifyFailed, MonitoringActive, FileCreated, FileRemoved, FilesChanged,
              FileChanged, Receive
<1>7. CASE DiskChanges \/ Elapse
  BY <1>7 DEF DiskChanges, Elapse
<1>8. CASE FetchMessage
  BY <1>8 DEF FetchMessage, SourceMatched, AllDone, SidecarsReplaced, CoverArtDone, Receive
<1>9. CASE SetupComplete \/ CacheReady
  BY <1>9 DEF SetupComplete, CacheReady, Answer, Receive
<1>10. CASE \E needed \in BOOLEAN : VacuumChecked(needed)
  BY <1>10 DEF VacuumChecked, Answer, Receive, Queue, SessionGoesOn
<1>11. CASE \E transition \in BOOLEAN : IndexChecked(transition)
  BY <1>11 DEF IndexChecked, Answer, Receive
<1>12. CASE \E k \in {"audio", "sidecar"} : DeployChecked(k)
  BY <1>12 DEF DeployChecked, Answer, Receive
<1>20. ~Panic
  BY DEF Panic, Completed
<1>21. ASSUME Continue PROVE ~Panicked'
  BY <1>21 DEF Continue
<1>13. CASE CompleteNone /\ Continue
  BY <1>13, <1>21 DEF CompleteNone, Completed, Finish
<1>14. CASE (CompleteInodes \/ CompleteMutations \/ CompleteOthers) /\ Continue
  BY <1>14, <1>21 DEF CompleteInodes, CompleteMutations, CompleteOthers, Completed
<1>15. CASE (TriggerFetch \/ TriggerPacking \/ TriggerAutoDeploy \/ GoIdle) /\ Continue
  BY <1>15, <1>21 DEF TriggerFetch, TriggerPacking, TriggerAutoDeploy, GoIdle, IdleAction,
               Lingered, Update
<1>16. CASE IdlePromotion /\ Continue
  BY <1>16, <1>21 DEF IdlePromotion, IdleAction, Update
<1>22. CASE NothingToDo /\ Continue
  BY <1>22, <1>21 DEF NothingToDo, Update
<1>17. CASE AwaitSetup \/ ReconciliationOver \/ StartWatching \/ StillStarting
  BY <1>17 DEF AwaitSetup, ReconciliationOver, StartWatching, StillStarting,
               CheckStartup, Update
<1>18. CASE MaybeTriggerDerivation
  BY <1>18 DEF MaybeTriggerDerivation, DeriveDue
<1>19. CASE UNCHANGED vars
  BY <1>19 DEF vars
<1> QED
  BY <1>1, <1>2, <1>3, <1>4, <1>5, <1>6, <1>7, <1>8, <1>9, <1>10, <1>11, <1>12, <1>13,
     <1>14, <1>15, <1>16, <1>17, <1>18, <1>19, <1>20, <1>22
  DEF Next, Step, TaskResult, WatcherMessage, OffloadAnswer, Bookkeeping, UpdateState, Complete

\* Nothing the Witch does by itself trips the assertion of transition_to_completed,
\* nor does maintenance or a mutation asked for at any time: only a packing, a fetch
\* or a cover art fetch asked for before the initial scan is over can.
THEOREM OnlyEarlyWorkPanics == Spec => []NeverPanics
<1> DEFINE Inv == Untroubled => Early /\ ~Panicked
<1>1. Init => Inv
  BY InitEarly
<1>2. Inv /\ [Next]_vars => Inv'
  <2> SUFFICES ASSUME Inv, [Next]_vars, Untroubled' PROVE Early' /\ ~Panicked'
    OBVIOUS
  <2>1. Untroubled
    BY DEF Untroubled, Commands, Next, vars
  <2> QED
    BY <2>1, NextEarly
<1>3. Inv => NeverPanics
  BY DEF Untroubled, NeverPanics
<1> QED
  BY <1>1, <1>2, <1>3, PTL DEF Spec
=============================================================================
