-------------------------------- MODULE Library --------------------------------
(***************************************************************************)
(* The library: the directory of hard links to corpus files that the Witch *)
(* keeps at the paths their tags ask for.                                  *)
(*                                                                         *)
(* The watcher turns changes of the directory into rows of the database, a *)
(* reconciliation repairs the rows, the content analysis derives from rows *)
(* and tags what is left over, stale or missing, and the auto-deploy turns *)
(* that into stashes, moves and links, which the watcher sees again.  All  *)
(* tasks run on the pool at the same time; the Witch separates the stages  *)
(* by waiting until the pool and the write queue are empty.                *)
(***************************************************************************)
EXTENDS Integers, Sequences, Bags, Functions

CONSTANTS
  Corpus,     \* audio files of the corpus, healthy and of one source, in the
              \* order of their corpus paths; a file stands for its inode
  Foreign,    \* inodes that other programs put into the library
  Path,       \* paths of the library
  Wants,      \* the deploy paths the files may have when the model starts
  MaxEvents,  \* bound on edits and on changes by other programs
  MaxLag      \* bound on the tasks whose writes are not applied

None == "none"
File == Range(Corpus)
Inode == File \cup Foreign

ASSUME CorpusType ==
  Len(Corpus) \in Nat /\ DOMAIN Corpus = 1..Len(Corpus) /\ IsInjective(Corpus)
ASSUME WantsType == Wants \subseteq [File -> Path]
ASSUME NoneIsNoPath == None \notin Path \cup Inode
ASSUME BoundsType == {MaxEvents, MaxLag} \subseteq Nat

VARIABLES
  disk,     \* the inode that each path names
  stash,    \* the inodes in the stash
  pending,  \* the paths whose events have not settled
  seen,     \* the path at which the watcher knows an inode
  db,       \* the committed rows and signals
  writes,   \* what the tasks have sent and the DB thread has not applied
  tasks,    \* the tasks of the pool: a bag
  later,    \* the second phase of the soft mutations
  deferred, \* DeriveCorpusDeployStatus waits behind its barrier
  plan,     \* the answer of the auto-deploy query
  witch,    \* the flags of the Witch
  events,
  excused   \* what happened that may keep the library from what is wanted

stages == <<later, deferred, plan>>
vars == <<disk, stash, pending, seen, db, writes, tasks, stages, witch, events, excused>>

\* The tasks.
Upsert(p, i)    == [kind |-> "upsert", path |-> p, inode |-> i]
Delete(p)       == [kind |-> "delete", path |-> p]
Reconcile(s)    == [kind |-> "reconcile", seen |-> s]
TagOps(f, p)    == [kind |-> "tagops", file |-> f, path |-> p]
Conflicts       == [kind |-> "conflicts"]
Overlaps        == [kind |-> "overlaps"]
Health          == [kind |-> "health"]
Status          == [kind |-> "status"]
Stash(p)        == [kind |-> "stash", path |-> p]
Move(p, q)      == [kind |-> "move", path |-> p, to |-> q]
Rename(p, q)    == [kind |-> "rename", path |-> p, to |-> q]
Link(f, p)      == [kind |-> "link", file |-> f, path |-> p]
Look(p)         == [kind |-> "look", path |-> p]
Deployed(f, p)  == [kind |-> "deployed", file |-> f, path |-> p]

Is(kind) == {t \in BagToSet(tasks) : t.kind = kind}

Task ==
  [kind : {"upsert"}, path : Path, inode : Inode]
    \cup [kind : {"delete", "stash", "look"}, path : Path]
    \cup [kind : {"reconcile"}, seen : [Inode -> Path \cup {None}]]
    \cup [kind : {"tagops", "link", "deployed"}, file : File, path : Path]
    \cup [kind : {"conflicts", "overlaps", "health", "status"}]
    \cup [kind : {"move", "rename"}, path : Path, to : Path]

\* A write: the column it is for and its value.
Write(column, value) == [column |-> column, value |-> value]

\* Values for some of the files, or for one.
Only(f, value) == [g \in {f} |-> value]
ForSome(values) == UNION {[some -> values] : some \in SUBSET File}
Writes ==
  [column : {"rows"}, value : SUBSET (Path \X Inode)]
    \cup [column : {"no rows", "leftover"}, value : SUBSET Path]
    \cup [column : {"drop"}, value : Inode]
    \cup [column : {"want"}, value : ForSome(Path)]
    \cup [column : {"ready"}, value : ForSome(Path \cup {None})]
    \cup [column : {"deployed"}, value : ForSome(BOOLEAN)]
    \cup [column : {"no leftover", "no stale"}, value : Path]
    \cup [column : {"stale"}, value : [Path -> Path \cup {None}]]
    \cup [column : {"mark"}, value : File]
    \cup [column : {"losers", "dirty"}, value : SUBSET File]

Db == [rows : SUBSET (Path \X Inode), want : [File -> Path], losers : SUBSET File,
       leftover : SUBSET Path, stale : [Path -> Path \cup {None}], dirty : SUBSET File,
       ready : [File -> Path \cup {None}], deployed : [File -> BOOLEAN]]

\* Besides the types: the watcher never knows two inodes at one path, and
\* only moves and links wait for the second phase.
TypeOK ==
  /\ disk \in [Path -> Inode \cup {None}] /\ stash \subseteq Inode
  /\ pending \subseteq Path /\ seen \in [Inode -> Path \cup {None}]
  /\ \A i, j \in Inode : seen[i] = seen[j] /\ i # j => seen[i] = None
  /\ db \in Db
  /\ writes \in Seq(Seq(Writes)) /\ Len(writes) <= MaxLag
  /\ IsABag(tasks) /\ BagToSet(tasks) \cup later \cup plan \subseteq Task
  /\ \A t \in later : t.kind \in {"move", "link"}
  /\ \A t \in plan : t.kind \in {"stash", "move", "link"}
  /\ deferred \in BOOLEAN
  /\ witch \in [work : {"working", "done", "idle"}, mutated : BOOLEAN, rederive : BOOLEAN,
                pendingScope : BOOLEAN, deploy : BOOLEAN]
  /\ events \in 0..MaxEvents
  /\ excused \subseteq {"doubled", "overtaken", "clobbered", "outside", "superseded", "outdated"}

\* The file that gets a path that several ask for, and the others.
Rank(f) == CHOOSE k \in DOMAIN Corpus : Corpus[k] = f
Winner(want, f) == \A g \in File : want[g] = want[f] => Rank(f) <= Rank(g)
Winners(want, p) == {f \in File : want[f] = p /\ Winner(want, f)}

\* Every file that is not refused is deployed.
Init ==
  \E want \in Wants :
    /\ disk = [p \in Path |-> IF Winners(want, p) = {} THEN None ELSE CHOOSE f \in Winners(want, p) : TRUE]
    /\ seen = [i \in Inode |-> IF i \in File /\ Winner(want, i) THEN want[i] ELSE None]
    /\ db = [rows |-> {<<want[f], f>> : f \in {g \in File : Winner(want, g)}},
             want |-> want, losers |-> {f \in File : ~Winner(want, f)},
             leftover |-> {}, stale |-> [p \in Path |-> None], dirty |-> {},
             ready |-> [f \in File |-> None], deployed |-> [f \in File |-> Winner(want, f)]]
    /\ stash = {} /\ pending = {} /\ writes = <<>> /\ tasks = EmptyBag
    /\ later = {} /\ deferred = FALSE /\ plan = {} /\ events = 0 /\ excused = {}
    /\ witch = [work |-> "idle", mutated |-> FALSE, rederive |-> FALSE,
                pendingScope |-> FALSE, deploy |-> FALSE]

-----------------------------------------------------------------------------
(* The DB thread.  What one task sends is applied together: nothing that   *)
(* runs in the same stage reads two of its parts.                          *)

Update(old, changes) ==
  [x \in DOMAIN old |-> IF x \in DOMAIN changes THEN changes[x] ELSE old[x]]
Changes(old, new) == [x \in {y \in DOMAIN old : old[y] # new[y]} |-> new[x]]

\* DropFromIndex forgets the library's rows of an inode and all of the
\* signals of the corpus file that shares it.
Dropped(d, i) ==
  [d EXCEPT !.rows = {r \in @ : r[2] # i},
            !.ready = [f \in File |-> IF f = i THEN None ELSE @[f]],
            !.deployed = [f \in File |-> f # i /\ @[f]]]

Applied(d, w) ==
  CASE w.column = "rows"     -> [d EXCEPT !.rows = @ \cup w.value]
    [] w.column = "no rows"  -> [d EXCEPT !.rows = {r \in @ : r[1] \notin w.value}]
    [] w.column = "drop"     -> Dropped(d, w.value)
    [] w.column = "want"     -> [d EXCEPT !.want = Update(@, w.value)]
    [] w.column = "no leftover" -> [d EXCEPT !.leftover = @ \ {w.value}]
    [] w.column = "no stale" -> [d EXCEPT !.stale[w.value] = None]
    [] w.column \in {"ready", "deployed"} -> [d EXCEPT ![w.column] = Update(@, w.value)]
    [] w.column = "mark"     -> [d EXCEPT !.dirty = @ \cup {w.value}]
    [] OTHER                 -> [d EXCEPT ![w.column] = w.value]

AllApplied(d, ws) ==
  LET after[k \in 0..Len(ws)] == IF k = 0 THEN d ELSE Applied(after[k - 1], ws[k])
  IN after[Len(ws)]

DbApply ==
  /\ writes # <<>>
  /\ db' = AllApplied(db, Head(writes))
  /\ writes' = Tail(writes)
  /\ UNCHANGED <<disk, stash, pending, seen, tasks, stages, witch, events, excused>>

-----------------------------------------------------------------------------
(* The directory, and what the watcher makes of its events.                *)

Names(d, i) == {p \in Path : d[p] = i}
Excuse(what, when) == IF when THEN {what} ELSE {}
Doubled(d) == Excuse("doubled", \E p, q \in Path : p # q /\ d[p] # None /\ d[p] = d[q])

\* The directory becomes d; inotify reports the paths that changed.
Becomes(d) ==
  /\ disk' = d
  /\ pending' = pending \cup {p \in Path : d[p] # disk[p]}

Renamed(p, q) == IF disk[p] = disk[q] THEN disk ELSE [disk EXCEPT ![p] = None, ![q] = disk[p]]

Happens == events < MaxEvents /\ events' = events + 1
Drained == tasks = EmptyBag /\ writes = <<>>

\* Another program puts a file of its own, removes a name or renames one.
Outside ==
  /\ Happens
  /\ \/ \E i \in Foreign, p \in Path : Names(disk, i) = {} /\ Becomes([disk EXCEPT ![p] = i])
     \/ \E p \in Path : disk[p] # None /\ Becomes([disk EXCEPT ![p] = None])
     \/ \E p, q \in Path : p # q /\ disk[p] # None /\ Becomes(Renamed(p, q))
  /\ excused' = excused \cup {"outside"}
  /\ UNCHANGED <<stash, seen, db, writes, tasks, stages, witch>>

Queue(ts) == tasks' = tasks (+) SetToBag(ts)
Working == witch' = [witch EXCEPT !.work = "working"]

\* Mutant: a replaced inode keeps its path.
SettleKeepsOld ==
  \E p \in pending :
    LET come == {disk[p]} \ {None} IN
    /\ pending' = pending \ {p}
    /\ seen' = [i \in Inode |-> IF i \in come THEN p ELSE seen[i]]
    /\ Queue({Upsert(p, i) : i \in come})
    /\ witch' = [witch EXCEPT !.work = "working", !.rederive = TRUE]
    /\ UNCHANGED <<disk, stash, db, writes, stages, events, excused>>

\* process_settled_event and the Witch's handling of its messages.
Settle ==
  \E p \in pending :
    LET old == {i \in Inode : seen[i] = p}
        new == {disk[p]} \ {None}
        gone == old \ new
        come == new \ old IN
    /\ pending' = pending \ {p}
    /\ seen' = [i \in Inode |-> IF i \in gone THEN None ELSE IF i \in come THEN p ELSE seen[i]]
    /\ IF gone \cup come = {} THEN UNCHANGED <<tasks, witch>>
       ELSE /\ Queue({Delete(p) : i \in gone} \cup {Upsert(p, i) : i \in come})
            /\ witch' = [witch EXCEPT !.work = "working", !.rederive = TRUE]
    /\ UNCHANGED <<disk, stash, db, writes, stages, events, excused>>

-----------------------------------------------------------------------------
(* Tasks.  One reads, writes the directory and sends in a single step.     *)

\* Task t ends: it has sent ws and spawned ts.
Ends(t, ts, ws) ==
  /\ tasks' = (tasks (-) SetToBag({t})) (+) SetToBag(ts)
  /\ ws # <<>> => Len(writes) < MaxLag
  /\ writes' = IF ws = <<>> THEN writes ELSE Append(writes, ws)
  /\ UNCHANGED <<seen, db, later, plan, events>>

Mutated == witch' = [witch EXCEPT !.mutated = TRUE]

\* A task that only reads and sends.
Computes(t, ts, ws) ==
  /\ Ends(t, ts, ws)
  /\ UNCHANGED <<disk, stash, pending, deferred, witch, excused>>

RowRead ==
  \/ \E t \in Is("upsert") : Computes(t, {}, <<Write("rows", {<<t.path, t.inode>>})>>)
  \/ \E t \in Is("delete") : Computes(t, {}, <<Write("no rows", {t.path})>>)

\* Mutant: rows of paths that are gone stay.
SurplusKept(s) == {}

\* ReconcileLibraryFiles: rows as the watcher knew them when it was queued.
\* Of two rows of a path, either may be the one it compares.
Known(s) == {<<s[i], i>> : i \in {j \in Inode : s[j] # None}}
Surplus(s) == {p \in Path : p \notin Range(s) /\ \E i \in Inode : <<p, i>> \in db.rows}

ReconcileRead ==
  \E t \in Is("reconcile") :
    LET missing == Known(t.seen) \ db.rows
        surplus == Surplus(t.seen) IN
    Computes(t, {}, IF missing \cup surplus = {} THEN <<>>
                    ELSE <<Write("rows", missing), Write("no rows", surplus)>>)

\* Mutant: an edit of the tags does not mark the file.
TagOpsUnmarked ==
  \E t \in Is("tagops") :
    /\ Ends(t, {}, <<Write("want", Only(t.file, t.path))>>)
    /\ Mutated
    /\ UNCHANGED <<disk, stash, pending, deferred, excused>>

\* ApplyTagOps: the tags ask for another path.
TagOpsRead ==
  \E t \in Is("tagops") :
    /\ Ends(t, {}, <<Write("want", Only(t.file, t.path)), Write("ready", Only(t.file, None)),
                     Write("deployed", Only(t.file, FALSE)), Write("mark", t.file)>>)
    /\ Mutated
    /\ UNCHANGED <<disk, stash, pending, deferred, excused>>

Losers == {f \in File : ~Winner(db.want, f)}

ConflictsRead ==
  \E t \in Is("conflicts") : Computes(t, {}, <<Write("losers", Losers)>>)

\* DetectReleaseOverlaps; with one source there is no overlap.
OverlapsRead ==
  \E t \in Is("overlaps") :
    /\ Ends(t, {}, <<>>) /\ deferred' = TRUE
    /\ UNCHANGED <<disk, stash, pending, witch, excused>>

\* classify_library_file, for the row that says i is at p.
At(i, p) == <<p, i>> \in db.rows
Occupied(p) == {i \in Inode : At(i, p)}
Phase(i, p) ==
  IF i \notin File \/ i \in db.losers THEN "leftover"
  ELSE IF db.want[i] = p \/ Occupied(db.want[i]) \ {i} # {} THEN "healthy"
  ELSE IF At(i, db.want[i]) THEN "leftover"
  ELSE "stale"

Classified(phase) == {r \in db.rows : Phase(r[2], r[1]) = phase}

\* The rows that the directory calls for.
Shown == {<<p, disk[p]>> : p \in {q \in Path : disk[q] # None}}

HealthRead ==
  \E t \in Is("health") :
    LET stale(p) == {i \in Inode : <<p, i>> \in Classified("stale")} IN
    /\ Ends(t, {}, <<
         Write("leftover", {r[1] : r \in Classified("leftover")}),
         Write("stale", [p \in Path |->
           IF stale(p) = {} THEN None ELSE db.want[CHOOSE i \in stale(p) : TRUE]])>>)
    /\ excused' = excused \cup Excuse("outdated", db.losers # Losers \/ db.rows # Shown)
    /\ UNCHANGED <<disk, stash, pending, deferred, witch>>

\* DeriveCorpusDeployStatus, which a run without marks leaves out.
Skips(d) == d.dirty = {} /\ \E f \in File : d.ready[f] # None \/ d.deployed[f]

StatusRead ==
  \E t \in Is("status") :
    LET placed(f) == {p \in Path : At(f, p)}
        ready == [f \in File |->
          IF placed(f) = {} /\ Winner(db.want, f) THEN db.want[f] ELSE None]
        deployed == [f \in File |-> db.want[f] \in placed(f) /\ Winner(db.want, f)] IN
    /\ Ends(t, {}, IF Skips(db) THEN <<>>
      ELSE <<Write("ready", Changes(db.ready, ready)),
             Write("deployed", Changes(db.deployed, deployed)), Write("dirty", {})>>)
    /\ excused' = excused \cup Excuse("outdated", ~Skips(db) /\ db.rows # Shown)
    /\ UNCHANGED <<disk, stash, pending, deferred, witch>>

-----------------------------------------------------------------------------
(* The soft mutations.  One that fails changes and spawns nothing.         *)

Fails(t) == Computes(t, {}, <<>>)

StashFile ==
  \E t \in Is("stash") :
    LET i == disk[t.path] IN
    IF i = None THEN Fails(t)
    ELSE /\ Becomes([disk EXCEPT ![t.path] = None])
         /\ stash' = stash \cup {i}
         /\ Ends(t, {}, <<Write("drop", i), Write("no leftover", t.path)>>)
         /\ Mutated
         /\ UNCHANGED <<deferred, excused>>

\* execute_library_move_impl looks at the destination before it renames.
Moved(t) ==
  /\ Ends(t, {Look(t.path), Look(t.to)}, <<Write("no stale", t.path)>>)
  /\ Mutated

MoveChecks ==
  \E t \in Is("move") :
    IF disk[t.to] = None
    THEN /\ Ends(t, {Rename(t.path, t.to)}, <<>>)
         /\ UNCHANGED <<disk, stash, pending, deferred, witch, excused>>
    ELSE IF disk[t.to] = disk[t.path]
    THEN Moved(t) /\ UNCHANGED <<disk, stash, pending, deferred, excused>>
    ELSE Fails(t)

MoveFile ==
  \E t \in Is("rename") :
    IF disk[t.path] = None THEN Fails(t)
    ELSE /\ Becomes(Renamed(t.path, t.to))
         /\ Moved(t)
         /\ excused' = excused \cup Excuse("clobbered", disk[t.to] \notin {None, disk[t.path]})
         /\ UNCHANGED <<stash, deferred>>

LinkFile ==
  \E t \in Is("link") :
    IF disk[t.path] \notin {None, t.file} THEN Fails(t)
    ELSE /\ Becomes([disk EXCEPT ![t.path] = t.file])
         /\ Ends(t, {Look(t.path), Deployed(t.file, t.path)}, <<>>)
         /\ Mutated
         /\ excused' = excused \cup Doubled(disk')
         /\ UNCHANGED <<stash, deferred>>

\* UpdateLibraryFileSignals and UpdateDeploySignals.
LookRead ==
  \E t \in Is("look") :
    Computes(t, {}, IF disk[t.path] = None THEN <<Write("no rows", {t.path})>>
      ELSE <<Write("rows", {<<t.path, disk[t.path]>>}),
             Write("no leftover", t.path), Write("no stale", t.path)>>)

DeployedRead ==
  \E t \in Is("deployed") :
    Computes(t, {}, <<Write("no leftover", t.path), Write("no stale", t.path),
                      Write("ready", Only(t.file, None)), Write("deployed", Only(t.file, TRUE))>>)

-----------------------------------------------------------------------------
(* The Witch.                                                              *)

Quiet ==
  /\ Drained /\ pending = {} /\ later = {} /\ ~deferred /\ plan = {}
  /\ witch.work = "idle" /\ ~witch.rederive

\* The operator confirms edits, after which the files want other paths.
Edit ==
  \E want \in [File -> Path] \ {db.want} :
    /\ Happens
    /\ Queue({TagOps(f, want[f]) : f \in {g \in File : want[g] # db.want[g]}}) /\ Working
    /\ excused' = excused \cup Excuse("overtaken", ~Quiet)
    /\ UNCHANGED <<disk, stash, pending, seen, db, writes, stages>>

\* update_state, when the pool and the write queue are empty.
NextStage ==
  /\ witch.work = "working" /\ Drained
  /\ \/ /\ later # {} /\ Queue(later) /\ later' = {}
        /\ UNCHANGED <<deferred, witch>>
     \/ /\ later = {} /\ deferred /\ Queue({Status}) /\ deferred' = FALSE
        /\ UNCHANGED <<later, witch>>
  /\ UNCHANGED <<disk, stash, pending, seen, db, writes, plan, events, excused>>

Completed ==
  /\ witch.work = "working" /\ Drained /\ later = {} /\ ~deferred
  /\ IF witch.mutated
     THEN /\ witch' = [witch EXCEPT !.work = "done", !.mutated = FALSE,
                                    !.pendingScope = TRUE, !.rederive = TRUE]
          /\ UNCHANGED tasks
     ELSE IF witch.pendingScope
     THEN /\ witch' = [witch EXCEPT !.pendingScope = FALSE, !.deploy = TRUE]
          /\ Queue({Conflicts, Overlaps, Health})
     ELSE witch' = [witch EXCEPT !.work = "done"] /\ UNCHANGED tasks
  /\ UNCHANGED <<disk, stash, pending, seen, db, writes, stages, events, excused>>

\* The auto-deploy query: what it stashes, then what it moves and links.
Superseded(f) == disk[db.ready[f]] \notin {None, f}
Ready == {f \in File : db.ready[f] # None}
Planned ==
  {Stash(p) : p \in db.leftover}
  \cup {Stash(db.ready[f]) : f \in {g \in Ready : Superseded(g)}}
  \cup {Move(p, db.stale[p]) : p \in {q \in Path : db.stale[q] # None}}
  \cup {Link(f, db.ready[f]) : f \in Ready}

Lingered ==
  /\ witch.work = "done" /\ pending = {}
  /\ IF witch.deploy
     THEN /\ plan = {} /\ plan' = Planned
          /\ witch' = [witch EXCEPT !.deploy = FALSE]
          /\ excused' = excused \cup Excuse("superseded", \E f \in Ready : Superseded(f))
     ELSE witch' = [witch EXCEPT !.work = "idle"] /\ UNCHANGED <<plan, excused>>
  /\ UNCHANGED <<disk, stash, pending, seen, db, writes, tasks, later, deferred, events>>

\* Its answer arrives: cleanup first, deployment behind a barrier.
Deploy ==
  LET cleanup == {t \in plan : t.kind = "stash"} IN
  /\ plan # {} /\ plan' = {}
  /\ Working
  /\ IF cleanup = {} THEN Queue(plan) /\ UNCHANGED later
     ELSE Queue(cleanup) /\ later' = later \cup (plan \ cleanup)
  /\ UNCHANGED <<disk, stash, pending, seen, db, writes, deferred, events, excused>>

\* Mutant: what owed the derivation is not taken back.
DeriveKeepsOwing ==
  /\ witch.work = "idle" /\ witch.rederive
  /\ witch' = [witch EXCEPT !.work = "working"]
  /\ Queue({Reconcile(seen)})
  /\ UNCHANGED <<disk, stash, pending, seen, db, writes, stages, events, excused>>

Derive ==
  /\ witch.work = "idle" /\ witch.rederive
  /\ witch' = [witch EXCEPT !.work = "working", !.rederive = FALSE]
  /\ Queue({Reconcile(seen)})
  /\ UNCHANGED <<disk, stash, pending, seen, db, writes, stages, events, excused>>

-----------------------------------------------------------------------------
Work ==
  \/ RowRead \/ ReconcileRead \/ TagOpsRead
  \/ ConflictsRead \/ OverlapsRead \/ HealthRead \/ StatusRead
  \/ StashFile \/ MoveChecks \/ MoveFile \/ LinkFile \/ LookRead \/ DeployedRead

Machine == NextStage \/ Completed \/ Lingered \/ Deploy \/ Derive

Next == Outside \/ Edit \/ Settle \/ DbApply \/ Work \/ Machine

Fairness ==
  /\ WF_vars(Settle) /\ WF_vars(DbApply) /\ WF_vars(Work)
  /\ WF_vars(NextStage) /\ WF_vars(Completed) /\ WF_vars(Lingered)
  /\ WF_vars(Deploy) /\ WF_vars(Derive)

Spec == Init /\ [][Next]_vars /\ Fairness

-----------------------------------------------------------------------------
(* Properties.  The library is Quiet when no event is left to settle, no   *)
(* write to apply, no task to run and nothing owed.  Six things may then   *)
(* keep it from what the tags ask for, and are named when they happen:     *)
(* "doubled", a link gives an inode a second name; "overtaken", an edit    *)
(* while another round runs; "clobbered", a rename over a name that came   *)
(* after the check; "outside", a change by another program; "superseded",  *)
(* the plan stashes what it also moves; "outdated", the analysis read the  *)
(* rows before they were right or the conflicts before they were applied.  *)

\* The rows of a quiet library are right: a path that exists has a row for
\* the inode it names, and a path that does not has none.  The watcher,
\* the mutations and the reconciliation all write rows, in any order.
RowsMatchDisk ==
  Quiet /\ "doubled" \notin excused =>
    \A p \in Path :
      /\ disk[p] # None => <<p, disk[p]>> \in db.rows
      /\ disk[p] = None => Occupied(p) = {}

\* A file is masked while another occupies the path it wants.
Masked(f) == disk[db.want[f]] \notin {None, f}

\* A quiet library is current: every name in it is the path its file wants,
\* held by the file that has the claim, unless that path is taken; and
\* every path that some file claims has a file.  Nobody asks for a second
\* round: one derivation and one deployment after an edit have to do.
LibraryCurrent ==
  Quiet /\ excused = {} =>
    /\ \A p \in Path : disk[p] # None =>
         Masked(disk[p]) \/ (db.want[disk[p]] = p /\ Winner(db.want, disk[p]))
    /\ \A f \in File : Winner(db.want, f) => disk[db.want[f]] # None

\* The dirty set covers every change that can make a file ready, as the
\* comment at its test says: a file with a claim that is nowhere in the
\* library is ready once the system is quiet.  The code breaks this.
MissingIsReady ==
  Quiet /\ "outside" \notin excused => \A f \in File :
    Winner(db.want, f) /\ (\A p \in Path : ~At(f, p)) => db.ready[f] # None

\* The rounds of events, derivation, analysis and deployment, each of which
\* causes the next, come to an end, with an inode of two names excepted:
\* the rows of its names replace each other for ever.
Settles == <>[](Quiet \/ "doubled" \in excused)
===============================================================================
