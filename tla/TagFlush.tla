------------------------------- MODULE TagFlush --------------------------------
(***************************************************************************)
(* One audio file of the corpus and its tags in the database: how an edit  *)
(* reaches the database and then the file, and how the two are compared    *)
(* again afterwards.                                                       *)
(*                                                                         *)
(* ApplyTagOps commits the edit and raises needs_disk_flush, then spawns   *)
(* FlushTagsToDisk, which writes the file under a pending_write marker and *)
(* lowers the flag.  The watcher reports the write, VerifyTags compares    *)
(* file and database, and signals a difference.  All of them run on the    *)
(* pool, at the same time; the database changes when the DB thread applies *)
(* what they sent.  A crash loses the tasks and what was sent.             *)
(***************************************************************************)
EXTENDS Integers, Sequences, FiniteSets, Bags

CONSTANTS
  Value,        \* values of one tag field
  Edits,        \* the TagOps a client may stage
  Found,        \* the tags the file may have when the model starts
  MaxEvents,    \* bound on edits, changes by other programs and crashes
  MaxLag        \* bound on the writes the DB thread has not applied

None == "none"

ASSUME EditsType == Edits \subseteq [old : Value \cup {None}, new : Value \cup {None}]
ASSUME NoneIsNoValue == None \notin Value
ASSUME FoundType == Found \subseteq SUBSET Value
ASSUME BoundsType == {MaxEvents, MaxLag} \subseteq Nat

VARIABLES
  file,      \* the file: its tags and mtime
  db,        \* the committed rows about it
  writes,    \* what the DB thread has not applied
  tasks,     \* the tasks of the pool: a bag
  up,        \* the process runs
  noted,     \* the mtime the watcher's thread has cached
  owed,      \* a derivation is to follow what was done since the last one
  events,
  touched,   \* another program has changed the file
  committed, \* tag sets the database has had
  excused    \* what happened that may hide a difference

history == <<touched, committed, excused>>
vars == <<file, db, writes, tasks, up, noted, owed, events, history>>

Tags == SUBSET Value
Signal == {"conflict", "sync", "mtime"}
OutOfBand == {"conflict", "sync"}

\* A write: the column it is for and its value.
Write(column, value) == [column |-> column, value |-> value]
Lower(signals) == Write("lower", signals)

\* The tasks.  "at" says what a task has done already.
ApplyTask(op)      == [kind |-> "apply", op |-> op]
FlushTask(tags)    == [kind |-> "flush", expected |-> tags]
RestoreTask        == [kind |-> "restore"]
AdoptTask          == [kind |-> "adopt"]
AcceptTask         == [kind |-> "accept"]
VerifyTask(f)      == [kind |-> "verify", seen |-> f]
RecoverTask        == [kind |-> "recover"]
WriteTask(tags)    == [kind |-> "write", tags |-> tags]
CloseTask          == [kind |-> "close"]
SendTask(sent, spawn) == [kind |-> "send", writes |-> sent, spawn |-> spawn]

One(t) == SetToBag({t})
Is(kind) == {t \in BagToSet(tasks) : t.kind = kind}
Finish(t) == tasks (-) One(t)
Replace(t, new) == Finish(t) (+) One(new)

File == [tags : Tags, mtime : Nat]

Writes ==
  [column : {"op"}, value : Edits] \cup [column : {"tags"}, value : Tags]
    \cup [column : {"mtime"}, value : Nat] \cup [column : {"flag", "pending"}, value : BOOLEAN]
    \cup [column : {"raise", "lower"}, value : SUBSET Signal]

Rows == [tags : Tags, flag : BOOLEAN, pending : BOOLEAN, mtime : Nat, signals : SUBSET Signal]

Flushes == [kind : {"flush"}, expected : Tags]
Task ==
  [kind : {"apply"}, op : Edits] \cup [kind : {"write"}, tags : Tags]
    \cup [kind : {"verify"}, seen : File] \cup Flushes
    \cup [kind : {"restore", "adopt", "accept", "recover", "close"}]
    \cup [kind : {"send"}, writes : Seq(Writes), spawn : SUBSET Flushes]

TypeOK ==
  /\ file \in File /\ db \in Rows
  /\ writes \in Seq(Writes) /\ Len(writes) <= MaxLag
  /\ IsABag(tasks) /\ BagToSet(tasks) \subseteq Task
  /\ up \in BOOLEAN /\ owed \in BOOLEAN /\ noted \in Nat
  /\ events \in 0..MaxEvents /\ touched \in BOOLEAN
  /\ committed \subseteq Tags /\ excused \subseteq {"torn", "overlap", "dismissed"}

Init ==
  /\ \E tags \in Found :
       /\ file = [tags |-> tags, mtime |-> 0]
       /\ db = [tags |-> tags, flag |-> FALSE, pending |-> FALSE, mtime |-> 0, signals |-> {}]
       /\ committed = {tags}
  /\ writes = <<>> /\ tasks = EmptyBag /\ up = TRUE /\ noted = 0 /\ owed = FALSE
  /\ events = 0 /\ touched = FALSE
  /\ excused = {}

-----------------------------------------------------------------------------
(* The DB thread applies one write and commits it.                         *)

\* A replacement updates the row: it fails when the new value has one already.
Fails(op, tags) == {op.old, op.new} \subseteq tags /\ op.old # op.new

\* Mutant: a drop has a new value too.
DropsInsert(op, tags) == (tags \ {op.old}) \cup {op.new}

Edited(op, tags) == (tags \ {op.old}) \cup ({op.new} \ {None})

\* execute_apply_index_tag_ops: what does not match a row changes nothing.
CommittedTags(op, tags) ==
  IF Fails(op, tags) \/ op.old \notin tags \cup {None} THEN tags
  ELSE Edited(op, tags)

Applied(d, w) ==
  CASE w.column = "op"    -> [d EXCEPT !.tags = CommittedTags(w.value, @)]
    [] w.column = "raise" -> [d EXCEPT !.signals = @ \cup w.value]
    [] w.column = "lower" -> [d EXCEPT !.signals = @ \ w.value]
    [] OTHER              -> [d EXCEPT ![w.column] = w.value]

DbApply ==
  /\ writes # <<>>
  /\ db' = Applied(db, Head(writes))
  /\ writes' = Tail(writes)
  /\ committed' = committed \cup {db'.tags}
  /\ UNCHANGED <<file, tasks, up, noted, owed, events, touched, excused>>

Send(ws) == Len(writes) + Len(ws) <= MaxLag /\ writes' = writes \o ws

-----------------------------------------------------------------------------
(* Mutations.                                                              *)

Signalled == db.signals \cap OutOfBand # {}

Begin(t) ==
  /\ tasks' = tasks (+) One(t)
  /\ excused' = IF tasks = EmptyBag /\ writes = <<>> THEN excused
                ELSE excused \cup {"overlap"}

\* Something happens to the system.
Happens == events < MaxEvents /\ events' = events + 1

\* A client confirms an edit, or decides about a difference it is shown:
\* overwrite the file, adopt its tags, or accept its new mtime.
Queue(t) ==
  /\ up /\ Happens
  /\ Begin(t)
  /\ UNCHANGED <<file, db, writes, up, noted, owed, touched, committed>>

Decide ==
  \/ \E op \in Edits : Queue(ApplyTask(op))
  \/ Signalled /\ (Queue(RestoreTask) \/ Queue(AdoptTask))
  \/ "mtime" \in db.signals /\ Queue(AcceptTask)

\* Every corpus mutation that succeeds loses the file's mutable signals.
ClearMutable == <<Lower(Signal)>>

Stale(op) == op.old \notin db.tags \cup {None}

\* A mutation of non-empty scope that succeeds: a derivation is to follow, which
\* waits for every task.  AcknowledgeMtimeOnly and a mutation that fails have the
\* empty scope.
OfTags == owed' = TRUE

\* ApplyTagOps reads the committed tags.  An op whose old value is not among
\* them is stale, one that changes nothing is dropped.
ApplyRead(t) ==
  /\ t.kind = "apply"
  /\ IF Stale(t.op) \/ t.op.old = t.op.new
     THEN /\ tasks' = Replace(t, SendTask(ClearMutable, {}))
          /\ excused' = IF Signalled THEN excused \cup {"dismissed"} ELSE excused
     ELSE /\ tasks' = Replace(t, SendTask(<<Write("op", t.op), Write("flag", TRUE)>> \o ClearMutable,
                                         {FlushTask(Edited(t.op, db.tags))}))
          /\ UNCHANGED excused
  /\ OfTags
  /\ UNCHANGED <<file, db, writes, up, noted, events, touched, committed>>

\* What a task that has read everything it needs sends; its spawned mutation is
\* queued when the Witch has its result.
Sent(t) ==
  /\ t.kind = "send"
  /\ Send(t.writes)
  /\ tasks' = IF t.spawn = {} THEN Finish(t)
              ELSE Replace(t, CHOOSE s \in t.spawn : TRUE)
  /\ UNCHANGED <<file, db, up, noted, owed, events, history>>

\* Mutant: the expected tags are written without waiting or comparing.
FlushUnchecked(t) ==
  /\ t.kind = "flush"
  /\ tasks' = Replace(t, WriteTask(t.expected))
  /\ UNCHANGED <<file, db, writes, up, noted, owed, events, history>>

\* FlushTagsToDisk waits for the write queue and compares the committed tags
\* with what the edit expected; when they differ it fails.
FlushRead(t) ==
  /\ t.kind = "flush" /\ writes = <<>>
  /\ tasks' = IF db.tags = t.expected THEN Replace(t, WriteTask(db.tags))
              ELSE Finish(t)
  /\ UNCHANGED <<file, db, writes, up, noted, owed, events, history>>

\* ApplyDbTagsToDisk reads the committed tags as they are.
RestoreRead(t) ==
  /\ t.kind = "restore"
  /\ tasks' = Replace(t, WriteTask(db.tags))
  /\ UNCHANGED <<file, db, writes, up, noted, owed, events, history>>

\* write_file_tags: the marker is sent before the file is written.
WriteFile(t) ==
  /\ t.kind = "write"
  /\ Send(<<Write("pending", TRUE)>>)
  /\ file' = [tags |-> t.tags, mtime |-> file.mtime + 1]
  /\ tasks' = Replace(t, CloseTask)
  /\ UNCHANGED <<db, up, noted, owed, events, history>>

\* The file cannot be opened, or not be saved.
WriteFails(t) ==
  /\ t.kind = "write"
  /\ Send(<<Write("pending", TRUE)>>)
  /\ tasks' = Finish(t)
  /\ UNCHANGED <<file, db, up, noted, owed, events, history>>

\* The flag is lowered once the file is written.
CloseFile(t) ==
  /\ t.kind = "close"
  /\ Send(<<Write("flag", FALSE)>> \o ClearMutable)
  /\ tasks' = Finish(t)
  /\ OfTags
  /\ UNCHANGED <<file, db, up, noted, events, history>>

\* AssimilateDiskTagsToDb takes the file's tags; AcknowledgeMtimeOnly its mtime.
AdoptRead(t) ==
  /\ t.kind = "adopt"
  /\ tasks' = Replace(t, SendTask(<<Write("tags", file.tags), Write("mtime", file.mtime)>>
                                  \o ClearMutable, {}))
  /\ OfTags
  /\ UNCHANGED <<file, db, writes, up, noted, events, history>>

AcceptRead(t) ==
  /\ t.kind = "accept"
  /\ tasks' = Replace(t, SendTask(<<Write("mtime", file.mtime)>> \o ClearMutable, {}))
  /\ UNCHANGED <<file, db, writes, up, noted, owed, events, history>>

-----------------------------------------------------------------------------
(* The watcher reports a change, VerifyTags compares.                      *)

\* A change is reported DEBOUNCE_DURATION after it, a task ends as soon as it has
\* written the file: its end comes first.
Report ==
  /\ up /\ file.mtime # noted
  /\ Is("close") = {}
  /\ noted' = file.mtime
  /\ Begin(VerifyTask(file))
  /\ UNCHANGED <<file, db, writes, up, owed, events, touched, committed>>

Difference(tags) ==
  IF tags # {} /\ db.tags # {} THEN "conflict" ELSE "sync"

LowerStale(signals) ==
  IF db.signals \cap signals = {} THEN <<>> ELSE <<Lower(db.signals \cap signals)>>

\* Mutant: a marker is taken to say that the write succeeded.
TrustsMarker(f) ==
  IF f.tags # db.tags /\ ~db.pending
  THEN LowerStale(Signal) \o <<Write("raise", {Difference(f.tags)})>>
  ELSE LowerStale(Signal) \o <<Write("flag", FALSE)>>

\* What execute_verify_tags says of tags and an mtime seen earlier.
Verdict(f) ==
  CASE f.tags # db.tags ->
         LowerStale(Signal) \o <<Write("raise", {Difference(f.tags)})>>
    [] f.tags = db.tags /\ (db.pending \/ f.mtime = db.mtime) ->
         LowerStale(Signal) \o <<Write("flag", FALSE)>>
    [] OTHER ->
         <<Write("raise", {"mtime"})>> \o LowerStale(OutOfBand)

\* Mutant: the marker stays when the write did not succeed.
ConsumeIfClean(f) ==
  IF db.pending /\ f.tags = db.tags THEN <<Write("pending", FALSE)>> ELSE <<>>

\* The marker is consumed whatever the outcome.
Consume(f) == IF db.pending THEN <<Write("pending", FALSE)>> ELSE <<>>

\* The write queue is empty when it reads, so a marker that was sent before the
\* file was written is there.
VerifyRead(t) ==
  /\ t.kind = "verify" /\ writes = <<>>
  /\ tasks' = Replace(t, SendTask(Verdict(t.seen) \o Consume(t.seen)
                                  \o <<Write("mtime", t.seen.mtime)>>, {}))
  /\ UNCHANGED <<file, db, writes, up, noted, owed, events, history>>

\* VerifyPendingWrite reads the file itself.
RecoverRead(t) ==
  /\ t.kind = "recover"
  /\ tasks' = Replace(t, VerifyTask(file))
  /\ UNCHANGED <<file, db, writes, up, noted, owed, events, history>>

\* Mutant: a flag without a marker is not looked at.
OnlyPending == db.pending

Unreconciled == db.flag \/ db.pending

\* queue_stale_flush_recovery, at a derivation: after a session of non-empty
\* scope, or one that is owed to other files, or to a file that came or went.
Awaken ==
  /\ up /\ tasks = EmptyBag /\ writes = <<>>
  /\ owed' = FALSE
  /\ tasks' = IF Unreconciled THEN tasks (+) One(RecoverTask) ELSE tasks
  /\ UNCHANGED <<file, db, writes, up, noted, events, history>>

-----------------------------------------------------------------------------
(* The world outside.                                                      *)

Touch(tags) ==
  /\ up /\ Happens
  /\ touched' = TRUE
  /\ file' = [tags |-> tags, mtime |-> file.mtime + 1]
  /\ UNCHANGED <<db, writes, tasks, up, noted, owed, committed, excused>>

\* A comparison that has not been sent.
Comparing ==
  \E t \in BagToSet(tasks) :
    \/ t.kind = "verify"
    \/ t.kind = "send" /\ \E i \in DOMAIN t.writes : t.writes[i].column = "raise"

\* What a crash loses for good: what the DB thread has not applied, and another
\* program's change that is not reported or not compared.
Unsaid == writes # <<>> \/ (touched /\ (file.mtime # noted \/ Comparing))

Crash ==
  /\ up /\ Happens
  /\ up' = FALSE /\ owed' = FALSE
  /\ writes' = <<>> /\ tasks' = EmptyBag
  /\ excused' = IF Unsaid THEN excused \cup {"torn"} ELSE excused
  /\ UNCHANGED <<file, db, noted, touched, committed>>

\* The first scan takes every file as it is; then stale flushes are recovered.
Restart ==
  /\ ~up /\ up' = TRUE
  /\ noted' = file.mtime
  /\ tasks' = IF Unreconciled THEN tasks (+) One(RecoverTask) ELSE tasks
  /\ UNCHANGED <<file, db, writes, owed, events, history>>

Step(t) ==
  \/ ApplyRead(t) \/ Sent(t) \/ FlushRead(t) \/ RestoreRead(t)
  \/ WriteFile(t) \/ WriteFails(t) \/ CloseFile(t) \/ AdoptRead(t) \/ AcceptRead(t)
  \/ VerifyRead(t) \/ RecoverRead(t)

Work == \E t \in BagToSet(tasks) : Step(t)

Next ==
  \/ Decide \/ Work \/ DbApply \/ Report \/ Awaken
  \/ \E tags \in Tags : Touch(tags)
  \/ Crash \/ Restart

\* Only a derivation that is owed is sure to come.
Derive == owed /\ Awaken

Fairness ==
  /\ WF_vars(DbApply) /\ WF_vars(Report) /\ WF_vars(Derive) /\ WF_vars(Restart)
  /\ WF_vars(Work)

Spec == Init /\ [][Next]_vars /\ Fairness

-----------------------------------------------------------------------------
(* Properties.                                                             *)

Quiet == up /\ tasks = EmptyBag /\ writes = <<>> /\ file.mtime = noted
Diverged == file.tags # db.tags
OnRecord == Unreconciled \/ Signalled

\* "DB is always ahead of or in sync with disk": unless another program changes
\* it, the file holds tags the database has committed, whatever crashes, fails
\* or overlaps.
DiskNeverAhead == ~touched => file.tags \in committed

\* A file that differs from the database is on record as a flag, a marker or a
\* signal, whatever fails in between, if the tasks about it did not overlap, no
\* crash lost what was on its way to the database and no edit that did nothing
\* dismissed the signal.
DivergenceOwed == Quiet /\ excused = {} /\ Diverged => OnRecord

\* "OutOfBandTagSync: cleared by VerifyTags, resolution mutations": an edit that
\* changes nothing leaves a difference on record.
SignalKept == Quiet /\ excused \subseteq {"dismissed"} /\ Diverged => OnRecord

\* Somebody will look: a derivation is to follow, or a start.
ToBeLookedAt == owed \/ ~up

\* A flag does not stay up unseen, whatever fails after it was raised: the edit is
\* flushed, found to be on disk, or signalled as a difference of tags or of mtime.
\* A flag that outlives the mtime the operator accepts waits for the next one.
FlagResolved == db.flag /\ ToBeLookedAt ~> ~db.flag \/ db.signals # {}

\* A marker is consumed by some comparison, after a crash too.  The one that a
\* failed ApplyDbTagsToDisk leaves behind waits for the next derivation.
MarkerConsumed == db.pending /\ ToBeLookedAt ~> ~db.pending
=============================================================================
