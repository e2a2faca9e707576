---------------------------- MODULE TagFlush_proofs ----------------------------
(***************************************************************************)
(* Proofs about TagFlush, for any values, edits and number of events.      *)
(***************************************************************************)
EXTENDS TagFlush, SequenceTheorems, FiniteSetTheorems, TLAPS

-----------------------------------------------------------------------------
(* Facts about bags of tasks and about the writes they send.               *)

\* Adding a task keeps a bag a bag that has it.
LEMMA BagAdds ==
  ASSUME NEW B, IsABag(B), NEW x
  PROVE  IsABag(B (+) One(x)) /\ BagToSet(B (+) One(x)) = BagToSet(B) \cup {x}
BY DEF IsABag, (+), One, SetToBag, BagToSet

\* Removing one copy of a task adds nothing.
LEMMA BagRemoves ==
  ASSUME NEW B, IsABag(B), NEW x
  PROVE  IsABag(B (-) One(x)) /\ BagToSet(B (-) One(x)) \subseteq BagToSet(B)
BY DEF IsABag, (-), One, SetToBag, BagToSet

\* The empty bag is a bag without tasks.
LEMMA BagEmpty == IsABag(EmptyBag) /\ BagToSet(EmptyBag) = {}
BY DEF IsABag, EmptyBag, SetToBag, BagToSet

\* A bag with one task: what is added to nothing, removed again, or replaced.
LEMMA BagOfOne ==
  ASSUME NEW x
  PROVE  /\ EmptyBag (+) One(x) = One(x)
         /\ One(x) (-) One(x) = EmptyBag
         /\ BagToSet(One(x)) = {x}
         /\ One(x) # EmptyBag
<1>1. BagToSet(One(x)) = {x} /\ One(x)[x] = 1
  BY DEF One, SetToBag, BagToSet
<1>2. DOMAIN EmptyBag = {}
  BY DEF EmptyBag, SetToBag
<1>3. EmptyBag (+) One(x) = One(x)
  BY <1>2 DEF (+), One, SetToBag
<1>4. One(x) (-) One(x) = EmptyBag
  BY DEF (-), One, SetToBag, EmptyBag
<1> QED
  BY <1>1, <1>2, <1>3, <1>4 DEF BagToSet

\* The writes that the tasks send, one by one.
LEMMA WritesTyped ==
  /\ \A op \in Edits : Write("op", op) \in Writes
  /\ \A tags \in Tags : Write("tags", tags) \in Writes
  /\ \A n \in Nat : Write("mtime", n) \in Writes
  /\ \A b \in BOOLEAN : Write("flag", b) \in Writes /\ Write("pending", b) \in Writes
  /\ \A S \in SUBSET Signal : Write("raise", S) \in Writes /\ Write("lower", S) \in Writes
BY DEF Write, Writes

\* A sequence of one or two writes, and one put after another.
LEMMA FewWrites ==
  /\ <<>> \in Seq(Writes)
  /\ \A a \in Writes : <<a>> \in Seq(Writes)
  /\ \A a, b \in Writes : <<a, b>> \in Seq(Writes)
  /\ \A p, q \in Seq(Writes) : p \o q \in Seq(Writes)
<1>1. <<>> \in Seq(Writes)
  BY EmptySeq
<1>2. \A a \in Writes : <<a>> \in Seq(Writes)
  OBVIOUS
<1>3. \A a, b \in Writes : <<a, b>> \in Seq(Writes)
  OBVIOUS
<1>4. \A p, q \in Seq(Writes) : p \o q \in Seq(Writes)
  BY ConcatProperties
<1> QED
  BY <1>1, <1>2, <1>3, <1>4

\* What comes of a write to the rows of a file are rows of a file.
LEMMA AppliedTyped ==
  ASSUME NEW d \in Rows, NEW w \in Writes
  PROVE  Applied(d, w) \in Rows
<1>1. CASE w.column = "op"
  <2>1. w.value \in Edits
    BY <1>1 DEF Writes
  <2>2. CommittedTags(w.value, d.tags) \in Tags
    BY <2>1, EditsType DEF CommittedTags, Edited, Rows, Tags
  <2> QED
    BY <1>1, <2>2 DEF Applied, Rows
<1>2. CASE w.column = "raise"
  BY <1>2 DEF Applied, Rows, Writes
<1>3. CASE w.column = "lower"
  BY <1>3 DEF Applied, Rows, Writes
<1>4. CASE w.column = "tags"
  <2>1. w.value \in Tags
    BY <1>4 DEF Writes
  <2> QED
    BY <1>4, <2>1 DEF Applied, Rows
<1>5. CASE w.column = "mtime"
  <2>1. w.value \in Nat
    BY <1>5 DEF Writes
  <2> QED
    BY <1>5, <2>1 DEF Applied, Rows
<1>6. CASE w.column = "flag"
  <2>1. w.value \in BOOLEAN
    BY <1>6 DEF Writes
  <2> QED
    BY <1>6, <2>1 DEF Applied, Rows
<1>7. CASE w.column = "pending"
  <2>1. w.value \in BOOLEAN
    BY <1>7 DEF Writes
  <2> QED
    BY <1>7, <2>1 DEF Applied, Rows
<1> QED
  BY <1>1, <1>2, <1>3, <1>4, <1>5, <1>6, <1>7 DEF Writes

-----------------------------------------------------------------------------
(* Types.                                                                  *)

\* What a comparison sends are writes.
LEMMA VerdictTyped ==
  ASSUME db \in Rows, NEW f \in File
  PROVE  /\ \A S \in SUBSET Signal : LowerStale(S) \in Seq(Writes)
         /\ Verdict(f) \in Seq(Writes)
         /\ Consume(f) \in Seq(Writes)
<1>1. ASSUME NEW S \in SUBSET Signal PROVE LowerStale(S) \in Seq(Writes)
  BY WritesTyped, FewWrites DEF LowerStale, Lower
<1>2. Difference(f.tags) \in Signal
  BY DEF Difference, Signal
<1>3. <<Write("raise", {Difference(f.tags)})>> \in Seq(Writes)
  BY <1>2, WritesTyped, FewWrites
<1>4. <<Write("raise", {"mtime"})>> \in Seq(Writes)
  BY WritesTyped, FewWrites DEF Signal
<1>5. <<Write("flag", FALSE)>> \in Seq(Writes)
  BY WritesTyped, FewWrites
<1>6. LowerStale(Signal) \in Seq(Writes) /\ LowerStale(OutOfBand) \in Seq(Writes)
  BY <1>1 DEF OutOfBand, Signal
<1>7. Verdict(f) \in Seq(Writes)
  BY <1>3, <1>4, <1>5, <1>6, FewWrites DEF Verdict
<1>8. Consume(f) \in Seq(Writes)
  BY WritesTyped, FewWrites DEF Consume
<1> QED
  BY <1>1, <1>7, <1>8

\* Initially the file has one of the tags it may have.
LEMMA InitType == Init => TypeOK
<1> SUFFICES ASSUME Init PROVE TypeOK
  OBVIOUS
<1>1. file \in File /\ db \in Rows /\ committed \subseteq Tags
  BY FoundType DEF Init, File, Rows, Tags
<1>2. writes \in Seq(Writes) /\ Len(writes) <= MaxLag
  BY EmptySeq, BoundsType DEF Init
<1>3. IsABag(tasks) /\ BagToSet(tasks) \subseteq Task
  BY BagEmpty DEF Init
<1>4. events \in 0..MaxEvents
  BY BoundsType DEF Init
<1> QED
  BY <1>1, <1>2, <1>3, <1>4 DEF Init, TypeOK

\* The tasks stay typed when one is added, replaced or finished.
LEMMA TasksTyped ==
  ASSUME IsABag(tasks), BagToSet(tasks) \subseteq Task, NEW t, NEW new \in Task
  PROVE  /\ IsABag(tasks (+) One(new)) /\ BagToSet(tasks (+) One(new)) \subseteq Task
         /\ IsABag(Finish(t)) /\ BagToSet(Finish(t)) \subseteq Task
         /\ IsABag(Replace(t, new)) /\ BagToSet(Replace(t, new)) \subseteq Task
<1>1. IsABag(tasks (+) One(new)) /\ BagToSet(tasks (+) One(new)) \subseteq Task
  BY BagAdds
<1>2. IsABag(Finish(t)) /\ BagToSet(Finish(t)) \subseteq Task
  BY BagRemoves DEF Finish
<1>3. IsABag(Replace(t, new)) /\ BagToSet(Replace(t, new)) \subseteq Task
  BY <1>2, BagAdds DEF Replace
<1> QED
  BY <1>1, <1>2, <1>3

\* What is sent is queued as it is, within the bound.
LEMMA SendTyped ==
  ASSUME writes \in Seq(Writes), NEW ws \in Seq(Writes), Send(ws)
  PROVE  writes' \in Seq(Writes) /\ Len(writes') <= MaxLag
BY ConcatProperties DEF Send

\* A step of a task leaves everything typed.
LEMMA StepType ==
  ASSUME TypeOK, NEW t \in BagToSet(tasks), Step(t)
  PROVE  TypeOK'
<1>1. t \in Task
  BY DEF TypeOK
<1> USE DEF TypeOK, history
<1>2. CASE ApplyRead(t)
  <2>1. t.kind = "apply" /\ t.op \in Edits
    BY <1>1, <1>2 DEF ApplyRead, Task, Flushes
  <2>2. ClearMutable \in Seq(Writes)
    BY WritesTyped, FewWrites DEF ClearMutable, Lower
  <2>3. <<Write("op", t.op), Write("flag", TRUE)>> \o ClearMutable \in Seq(Writes)
    BY <2>1, <2>2, WritesTyped, FewWrites
  <2>4. FlushTask(Edited(t.op, db.tags)) \in Flushes
    BY <2>1, EditsType DEF FlushTask, Flushes, Edited, Rows, Tags
  <2>5. SendTask(ClearMutable, {}) \in Task
    BY <2>2 DEF SendTask, Task
  <2>6. SendTask(<<Write("op", t.op), Write("flag", TRUE)>> \o ClearMutable,
                 {FlushTask(Edited(t.op, db.tags))}) \in Task
    BY <2>3, <2>4 DEF SendTask, Task
  <2>7. IsABag(tasks') /\ BagToSet(tasks') \subseteq Task
    BY <1>2, <2>5, <2>6, TasksTyped DEF ApplyRead
  <2>8. excused' \subseteq {"torn", "overlap", "dismissed"}
    BY <1>2 DEF ApplyRead
  <2> QED
    BY <1>2, <2>7, <2>8 DEF ApplyRead, OfTags
<1>3. CASE Sent(t)
  <2>1. t.kind = "send" /\ t.writes \in Seq(Writes) /\ t.spawn \in SUBSET Flushes
    BY <1>1, <1>3 DEF Sent, Task, Flushes
  <2>2. writes' \in Seq(Writes) /\ Len(writes') <= MaxLag
    BY <1>3, <2>1, SendTyped DEF Sent
  <2>3. IsABag(tasks') /\ BagToSet(tasks') \subseteq Task
    <3>1. CASE t.spawn = {}
      BY <1>1, <1>3, <3>1, TasksTyped DEF Sent
    <3>2. CASE t.spawn # {}
      <4>1. (CHOOSE s \in t.spawn : TRUE) \in Task
        BY <2>1, <3>2 DEF Task
      <4> QED
        BY <1>3, <3>2, <4>1, TasksTyped DEF Sent
    <3> QED
      BY <3>1, <3>2
  <2> QED
    BY <1>3, <2>2, <2>3 DEF Sent
<1>4. CASE FlushRead(t)
  <2>1. WriteTask(db.tags) \in Task
    BY DEF WriteTask, Task, Rows
  <2>2. IsABag(tasks') /\ BagToSet(tasks') \subseteq Task
    BY <1>4, <2>1, TasksTyped DEF FlushRead
  <2> QED
    BY <1>4, <2>2 DEF FlushRead
<1>5. CASE RestoreRead(t)
  <2>1. WriteTask(db.tags) \in Task
    BY DEF WriteTask, Task, Rows
  <2>2. IsABag(tasks') /\ BagToSet(tasks') \subseteq Task
    BY <1>5, <2>1, TasksTyped DEF RestoreRead
  <2> QED
    BY <1>5, <2>2 DEF RestoreRead
<1>6. CASE WriteFile(t) \/ WriteFails(t)
  <2>1. t.kind = "write" /\ t.tags \in Tags
    BY <1>1, <1>6 DEF WriteFile, WriteFails, Task, Flushes
  <2>2. <<Write("pending", TRUE)>> \in Seq(Writes)
    BY WritesTyped, FewWrites
  <2>3. writes' \in Seq(Writes) /\ Len(writes') <= MaxLag
    BY <1>6, <2>2, SendTyped DEF WriteFile, WriteFails
  <2>4. CloseTask \in Task
    BY DEF CloseTask, Task
  <2>5. IsABag(tasks') /\ BagToSet(tasks') \subseteq Task
    BY <1>6, <2>4, TasksTyped DEF WriteFile, WriteFails
  <2>6. file' \in File
    BY <1>6, <2>1 DEF WriteFile, WriteFails, File
  <2> QED
    BY <1>6, <2>3, <2>5, <2>6 DEF WriteFile, WriteFails
<1>7. CASE CloseFile(t)
  <2>1. <<Write("flag", FALSE)>> \o ClearMutable \in Seq(Writes)
    BY WritesTyped, FewWrites DEF ClearMutable, Lower
  <2>2. writes' \in Seq(Writes) /\ Len(writes') <= MaxLag
    BY <1>7, <2>1, SendTyped DEF CloseFile
  <2>3. IsABag(tasks') /\ BagToSet(tasks') \subseteq Task
    BY <1>1, <1>7, TasksTyped DEF CloseFile
  <2> QED
    BY <1>7, <2>2, <2>3 DEF CloseFile, OfTags
<1>8. CASE AdoptRead(t) \/ AcceptRead(t)
  <2>1. file.tags \in Tags /\ file.mtime \in Nat
    BY DEF File
  <2>2. <<Write("tags", file.tags), Write("mtime", file.mtime)>> \o ClearMutable \in Seq(Writes)
    BY <2>1, WritesTyped, FewWrites DEF ClearMutable, Lower
  <2>3. <<Write("mtime", file.mtime)>> \o ClearMutable \in Seq(Writes)
    BY <2>1, WritesTyped, FewWrites DEF ClearMutable, Lower
  <2>4. \A ws \in Seq(Writes) : SendTask(ws, {}) \in Task
    BY DEF SendTask, Task
  <2>5. IsABag(tasks') /\ BagToSet(tasks') \subseteq Task
    BY <1>8, <2>2, <2>3, <2>4, TasksTyped DEF AdoptRead, AcceptRead
  <2> QED
    BY <1>8, <2>5 DEF AdoptRead, AcceptRead, OfTags
<1>9. CASE VerifyRead(t)
  <2>1. t.kind = "verify" /\ t.seen \in File
    BY <1>1, <1>9 DEF VerifyRead, Task, Flushes
  <2>2. t.seen.mtime \in Nat
    BY <2>1 DEF File
  <2>3. Verdict(t.seen) \o Consume(t.seen) \o <<Write("mtime", t.seen.mtime)>> \in Seq(Writes)
    BY <2>1, <2>2, VerdictTyped, WritesTyped, FewWrites
  <2>4. SendTask(Verdict(t.seen) \o Consume(t.seen) \o <<Write("mtime", t.seen.mtime)>>, {})
          \in Task
    BY <2>3 DEF SendTask, Task
  <2>5. IsABag(tasks') /\ BagToSet(tasks') \subseteq Task
    BY <1>9, <2>4, TasksTyped DEF VerifyRead
  <2> QED
    BY <1>9, <2>5 DEF VerifyRead
<1>10. CASE RecoverRead(t)
  <2>1. VerifyTask(file) \in Task
    BY DEF VerifyTask, Task
  <2>2. IsABag(tasks') /\ BagToSet(tasks') \subseteq Task
    BY <1>10, <2>1, TasksTyped DEF RecoverRead
  <2> QED
    BY <1>10, <2>2 DEF RecoverRead
<1> QED
  BY <1>2, <1>3, <1>4, <1>5, <1>6, <1>7, <1>8, <1>9, <1>10 DEF Step

\* Every other step, too.
LEMMA NextType == TypeOK /\ [Next]_vars => TypeOK'
<1> SUFFICES ASSUME TypeOK, [Next]_vars PROVE TypeOK'
  OBVIOUS
<1> USE DEF TypeOK, history
<1>1. ASSUME NEW t \in Task, Begin(t)
      PROVE  /\ IsABag(tasks') /\ BagToSet(tasks') \subseteq Task
             /\ excused' \subseteq {"torn", "overlap", "dismissed"}
  BY <1>1, BagAdds DEF Begin
<1>2. Happens => events' \in 0..MaxEvents
  BY BoundsType DEF Happens
<1>3. ASSUME NEW t \in Task, Queue(t) PROVE TypeOK'
  BY <1>1, <1>3, <1>2 DEF Queue
<1>4. CASE Decide
  <2>1. \A op \in Edits : ApplyTask(op) \in Task
    BY DEF ApplyTask, Task
  <2>2. RestoreTask \in Task /\ AdoptTask \in Task /\ AcceptTask \in Task
    BY DEF RestoreTask, AdoptTask, AcceptTask, Task
  <2> QED
    BY <1>3, <1>4, <2>1, <2>2 DEF Decide
<1>5. CASE Work
  BY <1>5, StepType DEF Work
<1>6. CASE DbApply
  <2>1. Head(writes) \in Writes /\ Tail(writes) \in Seq(Writes) /\ Len(Tail(writes)) = Len(writes) - 1
    BY <1>6, HeadTailProperties DEF DbApply
  <2>2. Len(writes) \in Nat /\ MaxLag \in Nat
    BY LenProperties, BoundsType
  <2>3. db' \in Rows
    BY <1>6, <2>1, AppliedTyped DEF DbApply
  <2>4. committed' \subseteq Tags
    BY <1>6, <2>3 DEF DbApply, Rows
  <2>5. writes' \in Seq(Writes) /\ Len(writes') <= MaxLag
    BY <1>6, <2>1, <2>2 DEF DbApply
  <2> QED
    BY <1>6, <2>3, <2>4, <2>5 DEF DbApply
<1>7. CASE Report
  <2>1. VerifyTask(file) \in Task /\ file.mtime \in Nat
    BY DEF VerifyTask, Task, File
  <2> QED
    BY <1>1, <1>7, <2>1 DEF Report
<1>8. CASE Awaken
  <2>1. RecoverTask \in Task
    BY DEF RecoverTask, Task
  <2> QED
    BY <1>8, <2>1, TasksTyped DEF Awaken
<1>9. ASSUME NEW tags \in Tags, Touch(tags) PROVE TypeOK'
  <2>1. file' \in File
    BY <1>9 DEF Touch, File
  <2> QED
    BY <1>9, <1>2, <2>1 DEF Touch
<1>10. CASE Crash
  <2>1. writes' \in Seq(Writes) /\ Len(writes') <= MaxLag
    BY <1>10, EmptySeq, BoundsType DEF Crash
  <2>2. IsABag(tasks') /\ BagToSet(tasks') \subseteq Task
    BY <1>10, BagEmpty DEF Crash
  <2>3. excused' \subseteq {"torn", "overlap", "dismissed"}
    BY <1>10 DEF Crash
  <2> QED
    BY <1>10, <1>2, <2>1, <2>2, <2>3 DEF Crash
<1>11. CASE Restart
  <2>1. RecoverTask \in Task /\ file.mtime \in Nat
    BY DEF RecoverTask, Task, File
  <2> QED
    BY <1>11, <2>1, TasksTyped DEF Restart
<1>12. CASE UNCHANGED vars
  BY <1>12 DEF vars
<1> QED
  BY <1>4, <1>5, <1>6, <1>7, <1>8, <1>9, <1>10, <1>11, <1>12 DEF Next

\* tag_edit.rs, indexing.rs: whatever the tasks send, and in whatever order it is
\* applied, the rows of a file have tags, flags, signals and an mtime; an edit that
\* drops a tag never puts the absence of one among the tags.
THEOREM TypeCorrect == Spec => []TypeOK
BY InitType, NextType, PTL DEF Spec

-----------------------------------------------------------------------------
(* The file is never ahead.  What is about to be written to it was read    *)
(* from the rows, and the rows hold committed tags.                        *)

Behind ==
  /\ db.tags \in committed
  /\ ~touched => file.tags \in committed
  /\ \A t \in BagToSet(tasks) : t.kind = "write" => t.tags \in committed

\* The invariant is kept by a step that forgets nothing and writes nothing, when
\* the tasks it adds have nothing to write that was not committed.
LEMMA StillBehind ==
  ASSUME Behind, NEW new,
         new.kind = "write" => new.tags \in committed,
         BagToSet(tasks') \subseteq BagToSet(tasks) \cup {new},
         db'.tags \in committed', committed \subseteq committed',
         \/ file' = file /\ (touched => touched')
         \/ touched'
         \/ file'.tags \in committed
  PROVE  Behind'
BY DEF Behind

\* Which tasks there are after a step that adds one, replaces or finishes one.
LEMMA TasksAfter ==
  ASSUME IsABag(tasks), NEW t, NEW new
  PROVE  /\ BagToSet(tasks (+) One(new)) \subseteq BagToSet(tasks) \cup {new}
         /\ BagToSet(Finish(t)) \subseteq BagToSet(tasks)
         /\ BagToSet(Replace(t, new)) \subseteq BagToSet(tasks) \cup {new}
<1>1. IsABag(Finish(t)) /\ BagToSet(Finish(t)) \subseteq BagToSet(tasks)
  BY BagRemoves DEF Finish
<1>2. BagToSet(Replace(t, new)) \subseteq BagToSet(tasks) \cup {new}
  BY <1>1, BagAdds DEF Replace
<1>3. BagToSet(tasks (+) One(new)) \subseteq BagToSet(tasks) \cup {new}
  BY BagAdds
<1> QED
  BY <1>1, <1>2, <1>3

\* Every step of a task keeps the file behind the database.
LEMMA StepBehind ==
  ASSUME TypeOK, Behind, NEW t \in BagToSet(tasks), Step(t)
  PROVE  Behind'
<1>1. t \in Task /\ IsABag(tasks)
  BY DEF TypeOK
<1> USE DEF history
<1>2. ASSUME NEW new, new.kind = "write" => new.tags \in committed,
             tasks' \in {Finish(t), Replace(t, new)},
             UNCHANGED <<db, committed, touched>>,
             file' = file \/ file'.tags \in committed
      PROVE  Behind'
  <2>1. BagToSet(tasks') \subseteq BagToSet(tasks) \cup {new}
    BY <1>1, <1>2, TasksAfter
  <2>2. db'.tags \in committed'
    BY <1>2 DEF Behind
  <2> QED
    BY <1>2, <2>1, <2>2, StillBehind
<1>3. CASE ApplyRead(t)
  BY <1>2, <1>3 DEF ApplyRead, SendTask
<1>4. CASE Sent(t)
  <2>1. t.spawn \in SUBSET Flushes
    BY <1>1, <1>4 DEF Sent, Task, Flushes
  <2>2. CASE t.spawn = {}
    BY <1>2, <1>4, <2>2 DEF Sent, RestoreTask
  <2>3. CASE t.spawn # {}
    <3>1. (CHOOSE s \in t.spawn : TRUE).kind = "flush"
      BY <2>1, <2>3 DEF Flushes
    <3> QED
      BY <1>2, <1>4, <2>3, <3>1 DEF Sent
  <2> QED
    BY <2>2, <2>3
<1>5. CASE FlushRead(t) \/ RestoreRead(t)
  <2>1. WriteTask(db.tags).kind = "write" => WriteTask(db.tags).tags \in committed
    BY DEF WriteTask, Behind
  <2> QED
    BY <1>2, <1>5, <2>1 DEF FlushRead, RestoreRead
<1>6. CASE WriteFile(t)
  <2>1. file'.tags \in committed
    BY <1>6 DEF WriteFile, Behind
  <2> QED
    BY <1>2, <1>6, <2>1 DEF WriteFile, CloseTask
<1>7. CASE WriteFails(t) \/ CloseFile(t)
  <2>1. RestoreTask.kind # "write"
    BY DEF RestoreTask
  <2>2. tasks' = Finish(t) /\ UNCHANGED <<db, committed, touched, file>>
    BY <1>7 DEF WriteFails, CloseFile
  <2> QED
    BY <1>2, <2>1, <2>2
<1>8. CASE AdoptRead(t) \/ AcceptRead(t)
  BY <1>2, <1>8 DEF AdoptRead, AcceptRead, SendTask
<1>9. CASE VerifyRead(t) \/ RecoverRead(t)
  BY <1>2, <1>9 DEF VerifyRead, RecoverRead, SendTask, VerifyTask
<1> QED
  BY <1>3, <1>4, <1>5, <1>6, <1>7, <1>8, <1>9 DEF Step

\* So does every other step: what the DB thread commits is committed, and what
\* another program writes is its own affair.
LEMMA NextBehind == TypeOK /\ Behind /\ [Next]_vars => Behind'
<1> SUFFICES ASSUME TypeOK, Behind, [Next]_vars PROVE Behind'
  OBVIOUS
<1> USE DEF history
<1>1. IsABag(tasks)
  BY DEF TypeOK
<1>2. ASSUME NEW new, new.kind # "write",
             BagToSet(tasks') \subseteq BagToSet(tasks) \cup {new},
             UNCHANGED <<db, file, committed, touched>>
      PROVE  Behind'
  <2>1. db'.tags \in committed'
    BY <1>2 DEF Behind
  <2> QED
    BY <1>2, <2>1, StillBehind
<1>3. ASSUME NEW t, t.kind # "write", Begin(t), UNCHANGED <<db, file, committed, touched>>
      PROVE  Behind'
  BY <1>1, <1>2, <1>3, TasksAfter DEF Begin
<1>4. CASE Decide
  BY <1>3, <1>4 DEF Decide, Queue, ApplyTask, RestoreTask, AdoptTask, AcceptTask
<1>5. CASE Work
  BY <1>5, StepBehind DEF Work
<1>6. CASE DbApply
  BY <1>6 DEF DbApply, Behind
<1>7. CASE Report
  BY <1>3, <1>7 DEF Report, VerifyTask
<1>8. CASE Awaken
  <2>1. RecoverTask.kind # "write"
    BY DEF RecoverTask
  <2>2. BagToSet(tasks') \subseteq BagToSet(tasks) \cup {RecoverTask}
    BY <1>1, <1>8, TasksAfter DEF Awaken
  <2> QED
    BY <1>2, <1>8, <2>1, <2>2 DEF Awaken
<1>9. ASSUME NEW tags \in Tags, Touch(tags) PROVE Behind'
  BY <1>9 DEF Touch, Behind
<1>10. CASE Crash
  BY <1>10, BagEmpty DEF Crash, Behind
<1>11. CASE Restart
  BY <1>1, <1>2, <1>11, TasksAfter DEF Restart, RecoverTask
<1>12. CASE UNCHANGED vars
  BY <1>12 DEF vars, Behind
<1> QED
  BY <1>4, <1>5, <1>6, <1>7, <1>8, <1>9, <1>10, <1>11, <1>12 DEF Next

\* execute_flush_tags_to_disk, execute_apply_db_tags_to_disk: unless another
\* program changes it, the file holds tags that the database has had, whatever
\* crashes, fails or overlaps.
THEOREM DbLeads == Spec => []DiskNeverAhead
<1>1. Init => Behind
  BY BagEmpty DEF Init, Behind
<1>2. Behind => DiskNeverAhead
  BY DEF Behind, DiskNeverAhead
<1> QED
  BY InitType, NextType, NextBehind, <1>1, <1>2, PTL DEF Spec

-----------------------------------------------------------------------------
(* What the writes on their way come to.                                   *)

\* The DB thread makes e of d when it applies q: h are the rows in between.
Reaches(d, q, e) ==
  \E h \in [0..Len(q) -> Rows] :
    /\ h[0] = d /\ h[Len(q)] = e
    /\ \A i \in 1..Len(q) : h[i] = Applied(h[i - 1], q[i])

\* Without a write nothing changes.
LEMMA ReachesItself ==
  ASSUME NEW d \in Rows, NEW e
  PROVE  Reaches(d, <<>>, e) <=> e = d
<1>1. ASSUME Reaches(d, <<>>, e) PROVE e = d
  BY <1>1 DEF Reaches
<1>2. ASSUME e = d PROVE Reaches(d, <<>>, e)
  <2> DEFINE h == [i \in 0..0 |-> d]
  <2>1. Len(<<>>) = 0 /\ 1..0 = {}
    OBVIOUS
  <2>2. h \in [0..0 -> Rows] /\ h[0] = d
    OBVIOUS
  <2> QED
    BY <1>2, <2>1, <2>2 DEF Reaches
<1> QED
  BY <1>1, <1>2

\* One write.
LEMMA ReachesNext ==
  ASSUME NEW d \in Rows, NEW w \in Writes
  PROVE  Reaches(d, <<w>>, Applied(d, w))
<1> DEFINE e == Applied(d, w)
           h == [i \in 0..1 |-> IF i = 0 THEN d ELSE e]
<1>1. e \in Rows
  BY AppliedTyped
<1>2. Len(<<w>>) = 1 /\ <<w>>[1] = w
  OBVIOUS
<1>3. h \in [0..1 -> Rows] /\ h[0] = d /\ h[1] = e
  BY <1>1
<1>4. \A i \in 1..1 : h[i] = Applied(h[i - 1], <<w>>[i])
  <2> TAKE i \in 1..1
  <2>1. i = 1 /\ i - 1 = 0
    OBVIOUS
  <2> QED
    BY <1>2, <1>3, <2>1
<1>5. h \in [0..Len(<<w>>) -> Rows] /\ h[Len(<<w>>)] = e
  BY <1>2, <1>3
<1>6. \A i \in 1..Len(<<w>>) : h[i] = Applied(h[i - 1], <<w>>[i])
  BY <1>2, <1>4
<1> HIDE DEF h
<1> QED
  BY <1>3, <1>5, <1>6 DEF Reaches

\* Two writes.
LEMMA ReachesTwice ==
  ASSUME NEW d \in Rows, NEW a \in Writes, NEW b \in Writes
  PROVE  Reaches(d, <<a, b>>, Applied(Applied(d, a), b))
<1> DEFINE e == Applied(d, a)
           f == Applied(e, b)
           h == [i \in 0..2 |-> IF i = 0 THEN d ELSE IF i = 1 THEN e ELSE f]
<1>1. e \in Rows /\ f \in Rows
  BY AppliedTyped
<1>2. Len(<<a, b>>) = 2 /\ <<a, b>>[1] = a /\ <<a, b>>[2] = b
  OBVIOUS
<1>3. h \in [0..2 -> Rows] /\ h[0] = d /\ h[1] = e /\ h[2] = f
  BY <1>1
<1>4. \A i \in 1..2 : h[i] = Applied(h[i - 1], <<a, b>>[i])
  <2> TAKE i \in 1..2
  <2>1. (i = 1 /\ i - 1 = 0) \/ (i = 2 /\ i - 1 = 1)
    OBVIOUS
  <2> QED
    BY <1>2, <1>3, <2>1
<1>5. Len(<<a, b>>) \in Nat /\ h[Len(<<a, b>>)] = f
  BY <1>2, <1>3
<1>6. h \in [0..Len(<<a, b>>) -> Rows]
  BY <1>2, <1>3
<1>7. \A i \in 1..Len(<<a, b>>) : h[i] = Applied(h[i - 1], <<a, b>>[i])
  BY <1>2, <1>4
<1> HIDE DEF h
<1>8. Reaches(d, <<a, b>>, f)
  BY <1>3, <1>5, <1>6, <1>7 DEF Reaches
<1> QED
  BY <1>8

\* One sequence after another.
LEMMA ReachesOn ==
  ASSUME NEW d, NEW p \in Seq(Writes), NEW e, NEW q \in Seq(Writes), NEW f,
         Reaches(d, p, e), Reaches(e, q, f)
  PROVE  Reaches(d, p \o q, f)
<1> DEFINE m == Len(p)
           n == Len(q)
<1>1. PICK h \in [0..m -> Rows] :
        /\ h[0] = d /\ h[m] = e
        /\ \A i \in 1..m : h[i] = Applied(h[i - 1], p[i])
  BY DEF Reaches
<1>2. PICK g \in [0..n -> Rows] :
        /\ g[0] = e /\ g[n] = f
        /\ \A i \in 1..n : g[i] = Applied(g[i - 1], q[i])
  BY DEF Reaches
<1>3. m \in Nat /\ n \in Nat
  BY LenProperties
<1>4. Len(p \o q) = m + n
      /\ \A i \in 1..(m + n) : (p \o q)[i] = IF i <= m THEN p[i] ELSE q[i - m]
  BY ConcatProperties
<1> DEFINE k == [i \in 0..(m + n) |-> IF i <= m THEN h[i] ELSE g[i - m]]
<1>5. k \in [0..(m + n) -> Rows]
  BY <1>3
<1>6. k[0] = d
  BY <1>1, <1>3
<1>7. k[m + n] = f
  <2>1. CASE n = 0
    <3>1. m + n = m /\ m \in 0..(m + n)
      BY <1>3, <2>1
    <3>2. k[m + n] = h[m]
      BY <3>1
    <3> QED
      BY <1>1, <1>2, <2>1, <3>2
  <2>2. CASE n # 0
    <3>1. ~(m + n <= m) /\ (m + n) - m = n /\ m + n \in 0..(m + n)
      BY <1>3, <2>2
    <3>2. k[m + n] = g[n]
      BY <3>1
    <3> QED
      BY <1>2, <3>2
  <2> QED
    BY <2>1, <2>2
<1>8. ASSUME NEW i \in 1..(m + n) PROVE k[i] = Applied(k[i - 1], (p \o q)[i])
  <2>1. CASE i <= m
    <3>1. k[i] = h[i] /\ k[i - 1] = h[i - 1] /\ (p \o q)[i] = p[i] /\ i \in 1..m
      BY <1>3, <1>4, <2>1
    <3> QED
      BY <1>1, <3>1
  <2>2. CASE ~(i <= m)
    <3>1. k[i] = g[i - m] /\ (p \o q)[i] = q[i - m] /\ i - m \in 1..n
      BY <1>3, <1>4, <2>2
    <3>2. k[i - 1] = g[(i - m) - 1]
      <4>1. CASE i - 1 <= m
        <5>1. i - 1 = m /\ (i - m) - 1 = 0
          BY <1>3, <2>2, <4>1
        <5>2. k[i - 1] = h[m]
          BY <1>3, <5>1
        <5> QED
          BY <1>1, <1>2, <5>1, <5>2
      <4>2. CASE ~(i - 1 <= m)
        <5>1. i - 1 \in 0..(m + n) /\ (i - 1) - m = (i - m) - 1
          BY <1>3
        <5> QED
          BY <4>2, <5>1
      <4> QED
        BY <4>1, <4>2
    <3> QED
      BY <1>2, <3>1, <3>2
  <2> QED
    BY <2>1, <2>2
<1> QED
  BY <1>4, <1>5, <1>6, <1>7, <1>8 DEF Reaches

\* The DB thread's step is the first of them.
LEMMA ReachesOff ==
  ASSUME NEW d, NEW q \in Seq(Writes), NEW e, q # <<>>, Reaches(d, q, e)
  PROVE  Reaches(Applied(d, Head(q)), Tail(q), e)
<1> DEFINE n == Len(q)
<1>1. PICK h \in [0..n -> Rows] :
        /\ h[0] = d /\ h[n] = e
        /\ \A i \in 1..n : h[i] = Applied(h[i - 1], q[i])
  BY DEF Reaches
<1>2. n \in Nat /\ n >= 1 /\ Head(q) = q[1]
  BY LenProperties, EmptySeq
<1>3. Len(Tail(q)) = n - 1 /\ \A i \in 1..(n - 1) : Tail(q)[i] = q[i + 1]
  BY HeadTailProperties
<1> DEFINE k == [i \in 0..(n - 1) |-> h[i + 1]]
<1>4. k \in [0..(n - 1) -> Rows]
  BY <1>2
<1>5. k[0] = Applied(d, Head(q))
  <2>1. h[1] = Applied(h[0], q[1])
    BY <1>1, <1>2
  <2> QED
    BY <1>1, <1>2, <2>1
<1>6. k[n - 1] = e
  BY <1>1, <1>2
<1>7. ASSUME NEW i \in 1..(n - 1) PROVE k[i] = Applied(k[i - 1], Tail(q)[i])
  <2>1. i + 1 \in 1..n /\ k[i] = h[i + 1] /\ k[i - 1] = h[i] /\ (i + 1) - 1 = i
    BY <1>2
  <2> QED
    BY <1>1, <1>3, <2>1
<1> QED
  BY <1>3, <1>4, <1>5, <1>6, <1>7 DEF Reaches

\* A difference is on record for good: nothing that a client may decide, except
\* about the difference itself, takes it off the record.
Told(d, tags) ==
  d.tags # tags =>
    d.flag \/ d.pending \/ (d.signals \cap OutOfBand # {} /\ "mtime" \notin d.signals)

Marked(d, tags) == d.tags # tags => d.flag \/ d.pending

Leads(d, q, tags) == \E e \in Rows : Reaches(d, q, e) /\ Told(e, tags)

\* When nothing is on its way the rows are as they are.
LEMMA LeadsNowhere ==
  ASSUME NEW d \in Rows, NEW tags
  PROVE  Leads(d, <<>>, tags) <=> Told(d, tags)
BY ReachesItself DEF Leads

\* The DB thread leads on.
LEMMA LeadsOff ==
  ASSUME NEW d, NEW q \in Seq(Writes), q # <<>>, NEW tags, Leads(d, q, tags)
  PROVE  Leads(Applied(d, Head(q)), Tail(q), tags)
BY ReachesOff DEF Leads

\* What each write does to the rows.
LEMMA AppliedWrites ==
  ASSUME NEW d \in Rows
  PROVE  /\ \A b \in BOOLEAN : Applied(d, Write("flag", b)) = [d EXCEPT !.flag = b]
         /\ \A b \in BOOLEAN : Applied(d, Write("pending", b)) = [d EXCEPT !.pending = b]
         /\ \A tags \in Tags : Applied(d, Write("tags", tags)) = [d EXCEPT !.tags = tags]
         /\ \A n \in Nat : Applied(d, Write("mtime", n)) = [d EXCEPT !.mtime = n]
         /\ \A S : Applied(d, Write("raise", S)) = [d EXCEPT !.signals = @ \cup S]
         /\ \A S : Applied(d, Write("lower", S)) = [d EXCEPT !.signals = @ \ S]
BY DEF Applied, Write

\* A write before a sequence.
LEMMA ReachesMore ==
  ASSUME NEW d \in Rows, NEW w \in Writes, NEW q \in Seq(Writes), NEW e,
         Reaches(Applied(d, w), q, e)
  PROVE  Reaches(d, <<w>> \o q, e)
<1>1. Reaches(d, <<w>>, Applied(d, w)) /\ <<w>> \in Seq(Writes)
  BY ReachesNext, FewWrites
<1> QED
  BY <1>1, ReachesOn

\* ClearMutable lowers every signal, and that is all it does.
LEMMA ClearReaches ==
  ASSUME NEW d \in Rows
  PROVE  /\ ClearMutable \in Seq(Writes)
         /\ [d EXCEPT !.signals = @ \ Signal] \in Rows
         /\ Reaches(d, ClearMutable, [d EXCEPT !.signals = @ \ Signal])
<1>1. Lower(Signal) \in Writes /\ Applied(d, Lower(Signal)) = [d EXCEPT !.signals = @ \ Signal]
  BY WritesTyped, AppliedWrites DEF Lower
<1> QED
  BY <1>1, ReachesNext, AppliedTyped, FewWrites DEF ClearMutable

\* An edit that does something leaves a flag.
LEMMA EditLeads ==
  ASSUME NEW d \in Rows, NEW op \in Edits, NEW tags
  PROVE  Leads(d, <<Write("op", op), Write("flag", TRUE)>> \o ClearMutable, tags)
<1> DEFINE a == Write("op", op)
           b == Write("flag", TRUE)
           d1 == Applied(d, a)
           d2 == Applied(d1, b)
           d3 == [d2 EXCEPT !.signals = @ \ Signal]
<1>1. a \in Writes /\ b \in Writes
  BY WritesTyped
<1>2. d1 \in Rows /\ d2 \in Rows
  BY <1>1, AppliedTyped
<1>3. d2.flag = TRUE
  <2>1. d2 = [d1 EXCEPT !.flag = TRUE]
    BY <1>2, AppliedWrites
  <2> QED
    BY <1>2, <2>1 DEF Rows
<1>4. d3 \in Rows /\ Reaches(d2, ClearMutable, d3) /\ ClearMutable \in Seq(Writes)
  BY <1>2, ClearReaches
<1>5. d3.flag = TRUE
  BY <1>2, <1>3 DEF Rows
<1>6. Reaches(d, <<a, b>>, d2) /\ <<a, b>> \in Seq(Writes)
  BY <1>1, ReachesTwice, FewWrites
<1>7. Reaches(d, <<a, b>> \o ClearMutable, d3)
  BY <1>4, <1>6, ReachesOn
<1>8. Told(d3, tags)
  BY <1>5 DEF Told
<1> QED
  BY <1>4, <1>7, <1>8 DEF Leads

\* Clearing the signals is harmless when a flag or a marker says the same.
LEMMA ClearLeads ==
  ASSUME NEW d \in Rows, NEW tags, Marked(d, tags)
  PROVE  Leads(d, ClearMutable, tags)
<1>1. Told([d EXCEPT !.signals = @ \ Signal], tags)
  BY DEF Told, Marked, Rows
<1> QED
  BY <1>1, ClearReaches DEF Leads

\* So is taking over the mtime of the file on the way,
LEMMA AcceptLeads ==
  ASSUME NEW d \in Rows, NEW tags, NEW n \in Nat, Marked(d, tags)
  PROVE  Leads(d, <<Write("mtime", n)>> \o ClearMutable, tags)
<1> DEFINE d1 == Applied(d, Write("mtime", n))
           d2 == [d1 EXCEPT !.signals = @ \ Signal]
<1>1. Write("mtime", n) \in Writes /\ d1 \in Rows /\ d1 = [d EXCEPT !.mtime = n]
  BY WritesTyped, AppliedTyped, AppliedWrites
<1>2. d2 \in Rows /\ Reaches(d1, ClearMutable, d2) /\ ClearMutable \in Seq(Writes)
  BY <1>1, ClearReaches
<1>3. Reaches(d, <<Write("mtime", n)>> \o ClearMutable, d2)
  BY <1>1, <1>2, ReachesMore
<1>4. Told(d2, tags)
  BY <1>1 DEF Told, Marked, Rows
<1> QED
  BY <1>2, <1>3, <1>4 DEF Leads

\* and taking over its tags settles the difference.
LEMMA AdoptLeads ==
  ASSUME NEW d \in Rows, NEW tags \in Tags, NEW n \in Nat
  PROVE  Leads(d, <<Write("tags", tags), Write("mtime", n)>> \o ClearMutable, tags)
<1> DEFINE a == Write("tags", tags)
           b == Write("mtime", n)
           d1 == Applied(d, a)
           d2 == Applied(d1, b)
           d3 == [d2 EXCEPT !.signals = @ \ Signal]
<1>1. a \in Writes /\ b \in Writes
  BY WritesTyped
<1>2. d1 \in Rows /\ d2 \in Rows
  BY <1>1, AppliedTyped
<1>3. d2.tags = tags
  BY <1>2, AppliedWrites DEF Rows
<1>4. d3 \in Rows /\ Reaches(d2, ClearMutable, d3) /\ ClearMutable \in Seq(Writes)
  BY <1>2, ClearReaches
<1>5. d3.tags = tags
  BY <1>2, <1>3 DEF Rows
<1>6. Reaches(d, <<a, b>>, d2) /\ <<a, b>> \in Seq(Writes)
  BY <1>1, ReachesTwice, FewWrites
<1>7. Reaches(d, <<a, b>> \o ClearMutable, d3)
  BY <1>4, <1>6, ReachesOn
<1>8. Told(d3, tags)
  BY <1>5 DEF Told
<1> QED
  BY <1>4, <1>7, <1>8 DEF Leads

\* A marker is a record.
LEMMA MarkerLeads ==
  ASSUME NEW d \in Rows, NEW tags
  PROVE  Leads(d, <<Write("pending", TRUE)>>, tags)
<1> DEFINE e == Applied(d, Write("pending", TRUE))
<1>1. Write("pending", TRUE) \in Writes /\ e \in Rows /\ e = [d EXCEPT !.pending = TRUE]
  BY WritesTyped, AppliedTyped, AppliedWrites
<1>2. Reaches(d, <<Write("pending", TRUE)>>, e)
  BY <1>1, ReachesNext
<1>3. e.pending = TRUE
  BY <1>1 DEF Rows
<1>4. Told(e, tags)
  BY <1>3 DEF Told
<1> QED
  BY <1>1, <1>2, <1>4 DEF Leads

\* The end of a file write lowers the flag of tags that are the file's, behind the
\* marker if that has not been applied.
LEMMA CloseLeads ==
  ASSUME NEW d \in Rows, NEW q \in {<<>>, <<Write("pending", TRUE)>>}
  PROVE  Leads(d, q \o (<<Write("flag", FALSE)>> \o ClearMutable), d.tags)
<1> DEFINE b == Write("flag", FALSE)
           close == <<b>> \o ClearMutable
<1>1. b \in Writes /\ Write("pending", TRUE) \in Writes
  BY WritesTyped
<1>2. q \in Seq(Writes) /\ \E e \in Rows : Reaches(d, q, e) /\ e.tags = d.tags
  <2>1. CASE q = <<>>
    BY <2>1, ReachesItself, FewWrites
  <2>2. CASE q = <<Write("pending", TRUE)>>
    <3> DEFINE e == Applied(d, Write("pending", TRUE))
    <3>1. e \in Rows /\ e = [d EXCEPT !.pending = TRUE] /\ Reaches(d, q, e)
      BY <1>1, <2>2, AppliedTyped, AppliedWrites, ReachesNext
    <3>2. e.tags = d.tags
      BY <3>1 DEF Rows
    <3> QED
      BY <1>1, <2>2, <3>1, <3>2, FewWrites
  <2> QED
    BY <2>1, <2>2
<1>3. PICK e \in Rows : Reaches(d, q, e) /\ e.tags = d.tags
  BY <1>2
<1> DEFINE e1 == Applied(e, b)
           e2 == [e1 EXCEPT !.signals = @ \ Signal]
<1>4. e1 \in Rows /\ e1 = [e EXCEPT !.flag = FALSE]
  BY <1>1, AppliedTyped, AppliedWrites
<1>5. e2 \in Rows /\ Reaches(e1, ClearMutable, e2) /\ ClearMutable \in Seq(Writes)
  BY <1>4, ClearReaches
<1>6. Reaches(e, close, e2) /\ close \in Seq(Writes)
  BY <1>1, <1>5, ReachesMore, FewWrites
<1>7. Reaches(d, q \o close, e2)
  BY <1>2, <1>3, <1>6, ReachesOn
<1>8. e2.tags = d.tags
  BY <1>3, <1>4 DEF Rows
<1>9. Told(e2, d.tags)
  BY <1>8 DEF Told
<1> QED
  BY <1>5, <1>7, <1>9 DEF Leads

\* A comparison lowers what it found on record, which may be nothing.
LEMMA StaleReaches ==
  ASSUME db \in Rows, NEW d \in Rows, NEW S \in SUBSET Signal
  PROVE  \E e \in Rows : /\ Reaches(d, LowerStale(S), e)
                         /\ e = [d EXCEPT !.signals = @ \ (db.signals \cap S)]
<1> DEFINE T == db.signals \cap S
           e == [d EXCEPT !.signals = @ \ T]
<1>1. e \in Rows
  BY DEF Rows
<1>2. CASE T = {}
  <2>1. e = d
    BY <1>2 DEF Rows
  <2>2. LowerStale(S) = <<>>
    BY <1>2 DEF LowerStale
  <2>3. Reaches(d, LowerStale(S), e)
    BY <2>1, <2>2, ReachesItself
  <2> QED
    BY <1>1, <2>3
<1>3. CASE T # {}
  <2>1. Lower(T) \in Writes /\ Applied(d, Lower(T)) = e
    BY WritesTyped, AppliedWrites DEF Lower
  <2>2. LowerStale(S) = <<Lower(T)>>
    BY <1>3 DEF LowerStale
  <2>3. Reaches(d, LowerStale(S), e)
    BY <2>1, <2>2, ReachesNext
  <2> QED
    BY <1>1, <2>3
<1> QED
  BY <1>2, <1>3

\* What is said of a file with other tags is that it has other tags, and nothing
\* else.
LEMMA VerdictReaches ==
  ASSUME db \in Rows, NEW f \in File
  PROVE  \E e \in Rows :
           /\ Reaches(db, Verdict(f), e) /\ e.tags = db.tags
           /\ f.tags # db.tags => e.signals = {Difference(f.tags)}
<1>1. Signal \in SUBSET Signal /\ OutOfBand \in SUBSET Signal
  BY DEF Signal, OutOfBand
<1>2. LowerStale(Signal) \in Seq(Writes) /\ LowerStale(OutOfBand) \in Seq(Writes)
  BY <1>1, VerdictTyped
<1>3. PICK e \in Rows : /\ Reaches(db, LowerStale(Signal), e)
                        /\ e = [db EXCEPT !.signals = @ \ (db.signals \cap Signal)]
  BY <1>1, StaleReaches
<1>4. e.signals = {} /\ e.tags = db.tags
  BY <1>3 DEF Rows
<1>5. CASE f.tags # db.tags
  <2> DEFINE w == Write("raise", {Difference(f.tags)})
             e1 == Applied(e, w)
  <2>1. {Difference(f.tags)} \in SUBSET Signal
    BY DEF Difference, Signal
  <2>2. w \in Writes /\ e1 \in Rows /\ Reaches(e, <<w>>, e1) /\ <<w>> \in Seq(Writes)
    BY <2>1, WritesTyped, AppliedTyped, ReachesNext, FewWrites
  <2>3. e1 = [e EXCEPT !.signals = @ \cup {Difference(f.tags)}]
    BY AppliedWrites
  <2>4. e1.signals = {Difference(f.tags)} /\ e1.tags = db.tags
    BY <1>4, <2>3 DEF Rows
  <2>5. Verdict(f) = LowerStale(Signal) \o <<w>>
    BY <1>5 DEF Verdict
  <2>6. Reaches(db, LowerStale(Signal) \o <<w>>, e1)
    <3>1. Reaches(db, LowerStale(Signal), e) /\ Reaches(e, <<w>>, e1)
      BY <1>3, <2>2
    <3> QED
      BY <1>2, <2>2, <3>1, ReachesOn
  <2>7. Reaches(db, Verdict(f), e1)
    BY <2>5, <2>6
  <2> QED
    BY <2>2, <2>4, <2>7
<1>6. CASE f.tags = db.tags /\ (db.pending \/ f.mtime = db.mtime)
  <2> DEFINE w == Write("flag", FALSE)
             e1 == Applied(e, w)
  <2>1. w \in Writes /\ e1 \in Rows /\ Reaches(e, <<w>>, e1) /\ <<w>> \in Seq(Writes)
    BY WritesTyped, AppliedTyped, ReachesNext, FewWrites
  <2>2. e1 = [e EXCEPT !.flag = FALSE]
    BY AppliedWrites
  <2>3. e1.tags = db.tags
    BY <1>4, <2>2 DEF Rows
  <2>4. Verdict(f) = LowerStale(Signal) \o <<w>>
    BY <1>6 DEF Verdict
  <2>5. Reaches(db, LowerStale(Signal) \o <<w>>, e1)
    <3>1. Reaches(db, LowerStale(Signal), e) /\ Reaches(e, <<w>>, e1)
      BY <1>3, <2>1
    <3> QED
      BY <1>2, <2>1, <3>1, ReachesOn
  <2>6. Reaches(db, Verdict(f), e1)
    BY <2>4, <2>5
  <2> QED
    BY <1>6, <2>1, <2>3, <2>6
<1>7. CASE f.tags = db.tags /\ ~(db.pending \/ f.mtime = db.mtime)
  <2> DEFINE w == Write("raise", {"mtime"})
             d == Applied(db, w)
  <2>1. w \in Writes /\ d \in Rows /\ d = [db EXCEPT !.signals = @ \cup {"mtime"}]
    BY WritesTyped, AppliedTyped, AppliedWrites DEF Signal
  <2>2. PICK e1 \in Rows : /\ Reaches(d, LowerStale(OutOfBand), e1)
                           /\ e1 = [d EXCEPT !.signals = @ \ (db.signals \cap OutOfBand)]
    BY <1>1, <2>1, StaleReaches
  <2>3. e1.tags = db.tags
    BY <2>1, <2>2 DEF Rows
  <2>4. Verdict(f) = <<w>> \o LowerStale(OutOfBand)
    BY <1>7 DEF Verdict
  <2>5. Reaches(db, Verdict(f), e1)
    BY <1>2, <2>1, <2>2, <2>4, ReachesMore
  <2> QED
    BY <1>7, <2>3, <2>5
<1> QED
  BY <1>5, <1>6, <1>7

\* A comparison puts a difference on record, and only that.
LEMMA VerdictLeads ==
  ASSUME db \in Rows, NEW f \in File
  PROVE  Leads(db, Verdict(f) \o Consume(f) \o <<Write("mtime", f.mtime)>>, f.tags)
<1>1. Verdict(f) \in Seq(Writes) /\ Consume(f) \in Seq(Writes)
      /\ Verdict(f) \o Consume(f) \in Seq(Writes)
  BY VerdictTyped, FewWrites
<1>2. PICK e \in Rows : /\ Reaches(db, Verdict(f), e) /\ e.tags = db.tags
                        /\ f.tags # db.tags => e.signals = {Difference(f.tags)}
  BY VerdictReaches
<1>3. \E e1 \in Rows : Reaches(e, Consume(f), e1) /\ e1.tags = e.tags /\ e1.signals = e.signals
  <2>1. CASE db.pending
    <3> DEFINE w == Write("pending", FALSE)
               e1 == Applied(e, w)
    <3>1. w \in Writes /\ e1 \in Rows /\ e1 = [e EXCEPT !.pending = FALSE]
      BY WritesTyped, AppliedTyped, AppliedWrites
    <3>2. Reaches(e, <<w>>, e1) /\ Consume(f) = <<w>>
      BY <2>1, <3>1, ReachesNext DEF Consume
    <3>3. e1.tags = e.tags /\ e1.signals = e.signals
      BY <3>1 DEF Rows
    <3> QED
      BY <3>1, <3>2, <3>3
  <2>2. CASE ~db.pending
    BY <2>2, ReachesItself DEF Consume
  <2> QED
    BY <2>1, <2>2
<1>4. PICK e1 \in Rows : /\ Reaches(e, Consume(f), e1)
                         /\ e1.tags = e.tags /\ e1.signals = e.signals
  BY <1>3
<1> DEFINE w == Write("mtime", f.mtime)
           e2 == Applied(e1, w)
<1>5. f.mtime \in Nat
  BY DEF File
<1>6. w \in Writes /\ e2 \in Rows /\ e2 = [e1 EXCEPT !.mtime = f.mtime]
  BY <1>5, WritesTyped, AppliedTyped, AppliedWrites
<1>7. Reaches(e1, <<w>>, e2) /\ <<w>> \in Seq(Writes)
  BY <1>6, ReachesNext, FewWrites
<1>8. Reaches(db, Verdict(f) \o Consume(f), e1)
  <2>1. Reaches(db, Verdict(f), e) /\ Reaches(e, Consume(f), e1)
    BY <1>2, <1>4
  <2> QED
    BY <1>1, <2>1, ReachesOn
<1>9. Reaches(db, Verdict(f) \o Consume(f) \o <<w>>, e2)
  <2> HIDE DEF w, e2
  <2> QED
    BY <1>1, <1>7, <1>8, ReachesOn
<1>10. e2.tags = db.tags /\ e2.signals = e.signals
  <2>1. e1.tags = db.tags /\ e1.signals = e.signals
    BY <1>2, <1>4
  <2>2. e2.tags = e1.tags /\ e2.signals = e1.signals
    BY <1>6 DEF Rows
  <2> QED
    BY <2>1, <2>2
<1>11. Told(e2, f.tags)
  <2>1. ASSUME e2.tags # f.tags PROVE e2.signals = {Difference(f.tags)}
    BY <1>2, <1>10, <2>1
  <2>2. {Difference(f.tags)} \cap OutOfBand # {} /\ "mtime" \notin {Difference(f.tags)}
    BY DEF Difference, OutOfBand
  <2> QED
    BY <2>1, <2>2 DEF Told
<1> QED
  BY <1>6, <1>9, <1>11 DEF Leads

-----------------------------------------------------------------------------
(* A difference is on record.  As long as there is no excuse at most one   *)
(* task is about the file, and what is on its way comes of that task or of *)
(* the one before it.                                                      *)

\* The watcher's thread has seen the file as it is, or nobody but this program has
\* changed it.
Sure == ~touched \/ file.mtime = noted

OnTheWay(q) == Sure => Leads(db, q, file.tags)

\* What holds while a task is at work.
Fine(t) ==
  /\ t.kind \notin {"flush", "close"} => writes = <<>>
  /\ t.kind \in {"apply", "restore", "adopt", "accept", "recover", "write"}
       => (Sure => Told(db, file.tags))
  /\ t.kind = "accept" => "mtime" \in db.signals
  /\ t.kind = "flush" => OnTheWay(writes)
  /\ t.kind = "write" => t.tags = db.tags
  /\ t.kind = "close" => /\ writes \in {<<>>, <<Write("pending", TRUE)>>}
                         /\ noted < file.mtime
                         /\ ~touched => file.tags = db.tags
  /\ t.kind = "verify" => /\ Sure => t.seen = file
                          /\ ~touched => Told(db, file.tags)
  /\ t.kind = "send" => /\ OnTheWay(t.writes)
                        /\ (Sure => Told(db, file.tags))
                             \/ (touched /\ \E i \in DOMAIN t.writes : t.writes[i].column = "raise")

Alone ==
  /\ noted <= file.mtime
  /\ \/ tasks = EmptyBag /\ OnTheWay(writes)
     \/ \E t \in Task : tasks = One(t) /\ Fine(t)
  /\ ~up => Sure /\ tasks = EmptyBag /\ writes = <<>>

Lone == excused = {} => Alone

\* The task at work is the only one, and the process runs.
LEMMA OnlyTask ==
  ASSUME Alone, NEW t \in BagToSet(tasks)
  PROVE  tasks = One(t) /\ Fine(t) /\ t \in Task /\ up
<1>1. tasks # EmptyBag
  BY BagEmpty
<1>2. PICK s \in Task : tasks = One(s) /\ Fine(s)
  BY <1>1 DEF Alone
<1>3. t = s
  BY <1>2, BagOfOne
<1> QED
  BY <1>1, <1>2, <1>3 DEF Alone

\* It is replaced by its successor, or leaves what it sent.
LEMMA OnlyTaskAfter ==
  ASSUME NEW t, tasks = One(t), NEW s
  PROVE  Replace(t, s) = One(s) /\ Finish(t) = EmptyBag
BY BagOfOne DEF Replace, Finish

\* ApplyTagOps.  An edit that does something leaves a flag; one that does nothing
\* clears the signals, which is excused when there is a difference among them.
LEMMA ApplyAlone ==
  ASSUME TypeOK, Alone, NEW t \in BagToSet(tasks), ApplyRead(t), excused' = {}
  PROVE  Alone'
<1> USE DEF history
<1>1. tasks = One(t) /\ Fine(t) /\ t \in Task /\ up
  BY OnlyTask
<1>2. t.kind = "apply" /\ t.op \in Edits
  BY <1>1 DEF ApplyRead, Task, Flushes
<1>3. writes = <<>> /\ (Sure => Told(db, file.tags))
  BY <1>1, <1>2 DEF Fine
<1>4. db \in Rows /\ file.tags \in Tags
  BY DEF TypeOK, File
<1>5. UNCHANGED <<file, db, writes, up, noted, touched>>
  BY DEF ApplyRead
<1>6. ASSUME NEW s \in Task, s.kind = "send", OnTheWay(s.writes), tasks' = One(s)
      PROVE  Alone'
  <2>1. Fine(s)'
    BY <1>3, <1>5, <1>6 DEF Fine, OnTheWay, Sure
  <2> QED
    BY <1>1, <1>5, <1>6, <2>1 DEF Alone
<1>7. CASE Stale(t.op) \/ t.op.old = t.op.new
  <2>1. ~Signalled
    BY <1>7 DEF ApplyRead
  <2>2. Sure => Marked(db, file.tags)
    BY <1>3, <2>1 DEF Told, Marked, Signalled
  <2>3. OnTheWay(ClearMutable)
    BY <1>4, <2>2, ClearLeads DEF OnTheWay
  <2>4. PICK s \in Task : s = SendTask(ClearMutable, {})
    <3>1. ClearMutable \in Seq(Writes)
      BY <1>4, ClearReaches
    <3> QED
      BY <3>1 DEF SendTask, Task
  <2>5. tasks' = One(s)
    BY <1>1, <1>7, <2>4, OnlyTaskAfter DEF ApplyRead
  <2> QED
    BY <1>6, <2>3, <2>4, <2>5 DEF SendTask
<1>8. CASE ~(Stale(t.op) \/ t.op.old = t.op.new)
  <2> DEFINE q == <<Write("op", t.op), Write("flag", TRUE)>> \o ClearMutable
             flush == FlushTask(Edited(t.op, db.tags))
  <2>1. OnTheWay(q)
    BY <1>2, <1>4, EditLeads DEF OnTheWay
  <2>2. PICK s \in Task : s = SendTask(q, {flush})
    <3>1. q \in Seq(Writes)
      BY <1>2, <1>4, ClearReaches, WritesTyped, FewWrites
    <3>2. flush \in Flushes
      BY <1>2, <1>4, EditsType DEF FlushTask, Flushes, Edited, Rows, Tags
    <3> QED
      BY <3>1, <3>2 DEF SendTask, Task
  <2>3. tasks' = One(s)
    BY <1>1, <1>8, <2>2, OnlyTaskAfter DEF ApplyRead
  <2> QED
    BY <1>6, <2>1, <2>2, <2>3 DEF SendTask
<1> QED
  BY <1>7, <1>8

\* What was to be sent is on the way.
LEMMA SentAlone ==
  ASSUME TypeOK, Alone, NEW t \in BagToSet(tasks), Sent(t)
  PROVE  Alone'
<1> USE DEF history
<1>1. tasks = One(t) /\ Fine(t) /\ t \in Task /\ up
  BY OnlyTask
<1>2. t.kind = "send" /\ t.writes \in Seq(Writes) /\ t.spawn \in SUBSET Flushes
  BY <1>1 DEF Sent, Task, Flushes
<1>3. writes = <<>> /\ OnTheWay(t.writes)
  BY <1>1, <1>2 DEF Fine
<1>4. writes' = t.writes
  BY <1>2, <1>3, ConcatEmptySeq DEF Sent, Send
<1>5. UNCHANGED <<file, db, up, noted, touched>>
  BY DEF Sent
<1>6. OnTheWay(writes)'
  BY <1>3, <1>4, <1>5 DEF OnTheWay, Sure
<1>7. CASE t.spawn = {}
  <2>1. tasks' = EmptyBag
    BY <1>1, <1>7, OnlyTaskAfter DEF Sent
  <2> QED
    BY <1>1, <1>5, <1>6, <2>1 DEF Alone
<1>8. CASE t.spawn # {}
  <2>1. PICK s \in Flushes : s = CHOOSE f \in t.spawn : TRUE
    BY <1>2, <1>8
  <2>2. tasks' = One(s) /\ s \in Task /\ s.kind = "flush"
    BY <1>1, <1>8, <2>1, OnlyTaskAfter DEF Sent, Task, Flushes
  <2>3. Fine(s)'
    BY <1>6, <2>2 DEF Fine
  <2> QED
    BY <1>1, <1>5, <2>2, <2>3 DEF Alone
<1> QED
  BY <1>7, <1>8

\* Everything is applied when a flush or a restore reads the rows it will write.
LEMMA ReadAlone ==
  ASSUME TypeOK, Alone, NEW t \in BagToSet(tasks), FlushRead(t) \/ RestoreRead(t)
  PROVE  Alone'
<1> USE DEF history
<1>1. tasks = One(t) /\ Fine(t) /\ t \in Task /\ up
  BY OnlyTask
<1>2. db \in Rows /\ writes = <<>>
  BY <1>1 DEF TypeOK, FlushRead, RestoreRead, Fine
<1>3. Sure => Told(db, file.tags)
  BY <1>1, <1>2, LeadsNowhere DEF FlushRead, RestoreRead, Fine, OnTheWay
<1>4. UNCHANGED <<file, db, writes, up, noted, touched>>
  BY DEF FlushRead, RestoreRead
<1>5. CASE tasks' = Replace(t, WriteTask(db.tags))
  <2>1. PICK s \in Task : s = WriteTask(db.tags)
    BY <1>2 DEF WriteTask, Task, Rows
  <2>2. tasks' = One(s)
    BY <1>1, <1>5, <2>1, OnlyTaskAfter
  <2>3. s.kind = "write" /\ s.tags = db.tags
    BY <2>1 DEF WriteTask
  <2>4. Fine(s)'
    BY <1>2, <1>3, <1>4, <2>3 DEF Fine, Sure
  <2> QED
    BY <1>1, <1>4, <2>2, <2>4 DEF Alone
<1>6. CASE tasks' = Finish(t)
  <2>1. tasks' = EmptyBag
    BY <1>1, <1>6, OnlyTaskAfter
  <2>2. OnTheWay(writes)'
    BY <1>2, <1>3, <1>4, LeadsNowhere DEF OnTheWay, Sure
  <2> QED
    BY <1>1, <1>4, <2>1, <2>2 DEF Alone
<1> QED
  BY <1>5, <1>6 DEF FlushRead, RestoreRead

\* The file has the tags of the rows once it is written, and nobody has noted that
\* yet; when it cannot be written the marker is the record.
LEMMA WriteAlone ==
  ASSUME TypeOK, Alone, NEW t \in BagToSet(tasks), WriteFile(t) \/ WriteFails(t)
  PROVE  Alone'
<1> USE DEF history
<1>1. tasks = One(t) /\ Fine(t) /\ t \in Task /\ up
  BY OnlyTask
<1>2. writes = <<>> /\ t.tags = db.tags /\ db \in Rows
  BY <1>1 DEF TypeOK, WriteFile, WriteFails, Fine
<1>3. noted \in Nat /\ file.mtime \in Nat /\ noted <= file.mtime
  BY DEF TypeOK, File, Alone
<1>4. writes' = <<Write("pending", TRUE)>>
  <2>1. <<Write("pending", TRUE)>> \in Seq(Writes)
    BY WritesTyped, FewWrites
  <2> QED
    BY <1>2, <2>1, ConcatEmptySeq DEF WriteFile, WriteFails, Send
<1>5. UNCHANGED <<db, up, noted, touched>>
  BY DEF WriteFile, WriteFails
<1>6. CASE WriteFile(t)
  <2>1. file'.tags = db.tags /\ file'.mtime = file.mtime + 1
    BY <1>2, <1>6 DEF WriteFile
  <2>2. noted' < file'.mtime /\ noted' <= file'.mtime
    BY <1>3, <1>5, <2>1
  <2>3. PICK s \in Task : s = CloseTask
    BY DEF CloseTask, Task
  <2>4. tasks' = One(s) /\ s.kind = "close"
    BY <1>1, <1>6, <2>3, OnlyTaskAfter DEF WriteFile, CloseTask
  <2>5. Fine(s)'
    BY <1>4, <1>5, <2>1, <2>2, <2>4 DEF Fine
  <2> QED
    BY <1>1, <1>5, <2>2, <2>4, <2>5 DEF Alone
<1>7. CASE WriteFails(t)
  <2>1. tasks' = EmptyBag /\ file' = file
    BY <1>1, <1>7, OnlyTaskAfter DEF WriteFails
  <2>2. OnTheWay(writes)'
    BY <1>2, <1>4, <1>5, MarkerLeads DEF OnTheWay
  <2> QED
    BY <1>1, <1>3, <1>5, <2>1, <2>2 DEF Alone
<1> QED
  BY <1>6, <1>7

\* The flag is lowered for tags that are the file's, unless another program has
\* changed it since, which nobody has noted yet.
LEMMA CloseAlone ==
  ASSUME TypeOK, Alone, NEW t \in BagToSet(tasks), CloseFile(t)
  PROVE  Alone'
<1> USE DEF history
<1>1. tasks = One(t) /\ Fine(t) /\ t \in Task /\ up
  BY OnlyTask
<1>2. /\ writes \in {<<>>, <<Write("pending", TRUE)>>} /\ db \in Rows
      /\ noted < file.mtime /\ noted <= file.mtime
      /\ ~touched => file.tags = db.tags
  BY <1>1 DEF TypeOK, CloseFile, Fine, Alone
<1>3. noted \in Nat /\ file.mtime \in Nat
  BY DEF TypeOK, File
<1>4. UNCHANGED <<file, db, up, noted, touched>>
  BY DEF CloseFile
<1>5. tasks' = EmptyBag
  BY <1>1, OnlyTaskAfter DEF CloseFile
<1>6. writes' = writes \o (<<Write("flag", FALSE)>> \o ClearMutable)
  BY DEF CloseFile, Send
<1>7. Leads(db, writes', db.tags)
  BY <1>2, <1>6, CloseLeads
<1>8. Sure' => ~touched
  BY <1>2, <1>3, <1>4 DEF Sure
<1>9. OnTheWay(writes)'
  BY <1>2, <1>4, <1>7, <1>8 DEF OnTheWay
<1> QED
  BY <1>1, <1>2, <1>4, <1>5, <1>9 DEF Alone

\* AssimilateDiskTagsToDb takes the file as it is; AcknowledgeMtimeOnly is for a
\* file without another record than a flag or a marker.
LEMMA ResolveAlone ==
  ASSUME TypeOK, Alone, NEW t \in BagToSet(tasks), AdoptRead(t) \/ AcceptRead(t)
  PROVE  Alone'
<1> USE DEF history
<1>1. tasks = One(t) /\ Fine(t) /\ t \in Task /\ up
  BY OnlyTask
<1>2. db \in Rows /\ file.tags \in Tags /\ file.mtime \in Nat
  BY DEF TypeOK, File
<1>3. writes = <<>> /\ (Sure => Told(db, file.tags))
  BY <1>1 DEF AdoptRead, AcceptRead, Fine
<1>4. UNCHANGED <<file, db, writes, up, noted, touched>>
  BY DEF AdoptRead, AcceptRead
<1>5. ASSUME NEW q \in Seq(Writes), OnTheWay(q), tasks' = Replace(t, SendTask(q, {}))
      PROVE  Alone'
  <2>1. PICK s \in Task : s = SendTask(q, {})
    BY DEF SendTask, Task
  <2>2. tasks' = One(s) /\ s.kind = "send" /\ s.writes = q
    BY <1>1, <1>5, <2>1, OnlyTaskAfter DEF SendTask
  <2>3. Fine(s)'
    BY <1>3, <1>4, <1>5, <2>2 DEF Fine, OnTheWay, Sure
  <2> QED
    BY <1>1, <1>4, <2>2, <2>3 DEF Alone
<1>6. CASE AdoptRead(t)
  <2> DEFINE q == <<Write("tags", file.tags), Write("mtime", file.mtime)>> \o ClearMutable
  <2>1. q \in Seq(Writes)
    BY <1>2, ClearReaches, WritesTyped, FewWrites
  <2>2. OnTheWay(q)
    BY <1>2, AdoptLeads DEF OnTheWay
  <2> QED
    BY <1>5, <1>6, <2>1, <2>2 DEF AdoptRead
<1>7. CASE AcceptRead(t)
  <2> DEFINE q == <<Write("mtime", file.mtime)>> \o ClearMutable
  <2>1. q \in Seq(Writes)
    BY <1>2, ClearReaches, WritesTyped, FewWrites
  <2>2. "mtime" \in db.signals
    BY <1>1, <1>7 DEF AcceptRead, Fine
  <2>3. Sure => Marked(db, file.tags)
    BY <1>3, <2>2 DEF Told, Marked
  <2>4. OnTheWay(q)
    BY <1>2, <2>3, AcceptLeads DEF OnTheWay
  <2> QED
    BY <1>5, <1>7, <2>1, <2>4 DEF AcceptRead
<1> QED
  BY <1>6, <1>7

\* The writes raise a signal.
Raises(q) == \E i \in DOMAIN q : q[i].column = "raise"

\* A sequence of writes raises a signal if one of its parts does.
LEMMA RaisesOn ==
  ASSUME NEW p \in Seq(Writes), NEW q \in Seq(Writes), Raises(p) \/ Raises(q)
  PROVE  Raises(p \o q)
<1>1. /\ DOMAIN p = 1..Len(p) /\ DOMAIN q = 1..Len(q)
      /\ Len(p) \in Nat /\ Len(q) \in Nat
  BY LenProperties
<1>2. p \o q \in Seq(Writes) /\ Len(p \o q) = Len(p) + Len(q)
  BY ConcatProperties
<1>3. DOMAIN (p \o q) = 1..(Len(p) + Len(q))
  BY <1>2, LenProperties
<1>4. \A i \in 1..(Len(p) + Len(q)) : (p \o q)[i] = IF i <= Len(p) THEN p[i] ELSE q[i - Len(p)]
  BY ConcatProperties
<1>5. CASE Raises(p)
  <2>1. PICK i \in 1..Len(p) : p[i].column = "raise"
    BY <1>1, <1>5 DEF Raises
  <2>2. i \in 1..(Len(p) + Len(q)) /\ (p \o q)[i] = p[i]
    BY <1>1, <1>4
  <2> QED
    BY <1>3, <2>1, <2>2 DEF Raises
<1>6. CASE Raises(q)
  <2>1. PICK i \in 1..Len(q) : q[i].column = "raise"
    BY <1>1, <1>6 DEF Raises
  <2>2. i + Len(p) \in 1..(Len(p) + Len(q)) /\ ~(i + Len(p) <= Len(p)) /\ (i + Len(p)) - Len(p) = i
    BY <1>1
  <2>3. (p \o q)[i + Len(p)] = q[i]
    BY <1>4, <2>2
  <2> QED
    BY <1>3, <2>1, <2>2, <2>3 DEF Raises
<1> QED
  BY <1>5, <1>6

\* A comparison that finds other tags says so.
LEMMA VerdictRaises ==
  ASSUME db \in Rows, NEW f \in File, f.tags # db.tags
  PROVE  Raises(Verdict(f) \o Consume(f) \o <<Write("mtime", f.mtime)>>)
<1> DEFINE w == Write("raise", {Difference(f.tags)})
<1>1. Signal \in SUBSET Signal /\ {Difference(f.tags)} \in SUBSET Signal /\ f.mtime \in Nat
  BY DEF Difference, Signal, File
<1>2. w \in Writes /\ <<w>> \in Seq(Writes) /\ <<Write("mtime", f.mtime)>> \in Seq(Writes)
  BY <1>1, WritesTyped, FewWrites
<1>3. LowerStale(Signal) \in Seq(Writes) /\ Verdict(f) \in Seq(Writes) /\ Consume(f) \in Seq(Writes)
  BY <1>1, VerdictTyped
<1>4. Raises(<<w>>)
  <2>1. 1 \in DOMAIN <<w>> /\ <<w>>[1].column = "raise"
    BY DEF Write
  <2> QED
    BY <2>1 DEF Raises
<1>5. Verdict(f) = LowerStale(Signal) \o <<w>>
  BY DEF Verdict
<1>6. Raises(Verdict(f))
  BY <1>2, <1>3, <1>4, <1>5, RaisesOn
<1>7. Raises(Verdict(f) \o Consume(f)) /\ Verdict(f) \o Consume(f) \in Seq(Writes)
  BY <1>3, <1>6, RaisesOn, FewWrites
<1> QED
  BY <1>2, <1>7, RaisesOn

\* VerifyTags says what it has seen, which is the file if nothing has changed it;
\* VerifyPendingWrite looks at the file first.
LEMMA CompareAlone ==
  ASSUME TypeOK, Alone, NEW t \in BagToSet(tasks), VerifyRead(t) \/ RecoverRead(t)
  PROVE  Alone'
<1> USE DEF history
<1>1. tasks = One(t) /\ Fine(t) /\ t \in Task /\ up
  BY OnlyTask
<1>2. db \in Rows /\ file \in File /\ writes = <<>>
  BY <1>1 DEF TypeOK, VerifyRead, RecoverRead, Fine
<1>3. UNCHANGED <<file, db, writes, up, noted, touched>>
  BY DEF VerifyRead, RecoverRead
<1>4. CASE VerifyRead(t)
  <2>1. t.kind = "verify" /\ t.seen \in File
    BY <1>1, <1>4 DEF VerifyRead, Task, Flushes
  <2>2. (Sure => t.seen = file) /\ (~touched => Told(db, file.tags))
    BY <1>1, <2>1 DEF Fine
  <2> DEFINE q == Verdict(t.seen) \o Consume(t.seen) \o <<Write("mtime", t.seen.mtime)>>
  <2>3. OnTheWay(q)
    BY <1>2, <2>1, <2>2, VerdictLeads DEF OnTheWay
  <2>4. (Sure => Told(db, file.tags)) \/ (touched /\ Raises(q))
    <3>1. CASE t.seen.tags # db.tags
      BY <1>2, <2>1, <2>2, <3>1, VerdictRaises
    <3>2. CASE t.seen.tags = db.tags
      BY <2>2, <3>2 DEF Told
    <3> QED
      BY <3>1, <3>2
  <2>5. q \in Seq(Writes)
    <3>1. t.seen.mtime \in Nat
      BY <2>1 DEF File
    <3> QED
      BY <1>2, <2>1, <3>1, VerdictTyped, WritesTyped, FewWrites
  <2>6. PICK s \in Task : s = SendTask(q, {})
    BY <2>5 DEF SendTask, Task
  <2>7. tasks' = One(s) /\ s.kind = "send" /\ s.writes = q
    BY <1>1, <1>4, <2>6, OnlyTaskAfter DEF VerifyRead, SendTask
  <2> HIDE DEF q
  <2>8. Fine(s)'
    BY <1>2, <1>3, <2>3, <2>4, <2>7 DEF Fine, OnTheWay, Sure, Raises
  <2> QED
    BY <1>1, <1>3, <2>7, <2>8 DEF Alone
<1>5. CASE RecoverRead(t)
  <2>1. Sure => Told(db, file.tags)
    BY <1>1, <1>5 DEF RecoverRead, Fine
  <2>2. PICK s \in Task : s = VerifyTask(file)
    BY <1>2 DEF VerifyTask, Task
  <2>3. tasks' = One(s) /\ s.kind = "verify" /\ s.seen = file
    BY <1>1, <1>5, <2>2, OnlyTaskAfter DEF RecoverRead, VerifyTask
  <2>4. Fine(s)'
    BY <1>2, <1>3, <2>1, <2>3 DEF Fine, Sure
  <2> QED
    BY <1>1, <1>3, <2>3, <2>4 DEF Alone
<1> QED
  BY <1>4, <1>5

\* A task begins alone, or is an excuse.
LEMMA BeginAlone ==
  ASSUME Alone, NEW t, Begin(t), excused' = {}
  PROVE  tasks = EmptyBag /\ writes = <<>> /\ tasks' = One(t)
BY BagOfOne DEF Begin

\* Every step, if there is still no excuse after it, leaves at most one task with
\* what is on its way.
LEMMA NextLone == TypeOK /\ Lone /\ [Next]_vars => Lone'
<1> SUFFICES ASSUME TypeOK, Lone, [Next]_vars, excused' = {} PROVE Alone'
  BY DEF Lone
<1> USE DEF history
<1>1. excused = {}
  BY DEF Next, Decide, Queue, Begin, Work, Step, ApplyRead, Sent, FlushRead, RestoreRead,
         WriteFile, WriteFails, CloseFile, AdoptRead, AcceptRead, VerifyRead, RecoverRead,
         DbApply, Report, Awaken, Touch, Crash, Restart, vars
<1>2. Alone
  BY <1>1 DEF Lone
<1>3. /\ db \in Rows /\ file \in File /\ file.mtime \in Nat /\ noted \in Nat
      /\ noted <= file.mtime /\ writes \in Seq(Writes)
  BY <1>2 DEF TypeOK, Alone, File
<1>4. ASSUME tasks = EmptyBag, writes = <<>> PROVE Sure => Told(db, file.tags)
  <2>1. OnTheWay(writes)
    BY <1>2, <1>4, BagOfOne DEF Alone
  <2> QED
    BY <1>3, <1>4, <2>1, LeadsNowhere DEF OnTheWay
<1>5. ASSUME NEW t \in Task, Queue(t), t.kind \in {"apply", "restore", "adopt", "accept"},
             t.kind = "accept" => "mtime" \in db.signals
      PROVE  Alone'
  <2>1. tasks = EmptyBag /\ writes = <<>> /\ tasks' = One(t)
    BY <1>2, <1>5, BeginAlone DEF Queue
  <2>2. Fine(t)'
    BY <1>4, <1>5, <2>1 DEF Queue, Fine, Sure
  <2> QED
    BY <1>3, <1>5, <2>1, <2>2 DEF Queue, Alone
<1>6. CASE Decide
  <2>1. ASSUME NEW op \in Edits, Queue(ApplyTask(op)) PROVE Alone'
    <3>1. PICK t \in Task : t = ApplyTask(op)
      BY DEF ApplyTask, Task
    <3>2. Queue(t) /\ t.kind = "apply"
      BY <2>1, <3>1 DEF ApplyTask
    <3> QED
      BY <1>5, <3>2
  <2>2. CASE Queue(RestoreTask) \/ Queue(AdoptTask)
    <3>1. PICK t \in Task : t \in {RestoreTask, AdoptTask} /\ Queue(t)
      BY <2>2 DEF RestoreTask, AdoptTask, Task
    <3>2. t.kind \in {"restore", "adopt"}
      BY <3>1 DEF RestoreTask, AdoptTask
    <3> QED
      BY <1>5, <3>1, <3>2
  <2>3. CASE "mtime" \in db.signals /\ Queue(AcceptTask)
    <3>1. PICK t \in Task : t = AcceptTask
      BY DEF AcceptTask, Task
    <3>2. Queue(t) /\ t.kind = "accept"
      BY <2>3, <3>1 DEF AcceptTask
    <3> QED
      BY <1>5, <2>3, <3>2
  <2> QED
    BY <1>6, <2>1, <2>2, <2>3 DEF Decide
<1>7. CASE Work
  BY <1>2, <1>7, ApplyAlone, SentAlone, ReadAlone, WriteAlone, CloseAlone, ResolveAlone,
     CompareAlone DEF Work, Step
<1>8. CASE DbApply
  <2>1. UNCHANGED <<file, tasks, up, noted, touched>> /\ writes # <<>>
    BY <1>8 DEF DbApply
  <2>2. ASSUME OnTheWay(writes) PROVE OnTheWay(writes)'
    BY <1>3, <1>8, <2>1, <2>2, LeadsOff DEF OnTheWay, Sure, DbApply
  <2>3. CASE tasks = EmptyBag
    <3>1. OnTheWay(writes)
      BY <1>2, <2>3, BagOfOne DEF Alone
    <3> QED
      BY <1>2, <2>1, <2>2, <2>3, <3>1 DEF Alone
  <2>4. CASE tasks # EmptyBag
    <3>1. PICK t \in Task : tasks = One(t) /\ Fine(t)
      BY <1>2, <2>4 DEF Alone
    <3>2. t.kind \in {"flush", "close"}
      BY <2>1, <3>1 DEF Fine
    <3>3. CASE t.kind = "flush"
      <4>1. OnTheWay(writes)'
        BY <2>2, <3>1, <3>3 DEF Fine
      <4>2. Fine(t)'
        BY <3>3, <4>1 DEF Fine
      <4> QED
        BY <1>2, <2>1, <2>4, <3>1, <4>2 DEF Alone
    <3>4. CASE t.kind = "close"
      <4>1. writes = <<Write("pending", TRUE)>>
        BY <2>1, <3>1, <3>4 DEF Fine
      <4>2. writes' = <<>> /\ db' = Applied(db, Write("pending", TRUE))
        BY <1>8, <4>1 DEF DbApply
      <4>3. db'.tags = db.tags
        BY <1>3, <4>2, AppliedWrites DEF Rows
      <4>4. Fine(t)'
        BY <2>1, <3>1, <3>4, <4>2, <4>3 DEF Fine
      <4> QED
        BY <1>2, <2>1, <2>4, <3>1, <4>4 DEF Alone
    <3> QED
      BY <3>2, <3>3, <3>4
  <2> QED
    BY <2>3, <2>4
<1>9. CASE Report
  <2>1. PICK t \in Task : t = VerifyTask(file)
    BY <1>3 DEF VerifyTask, Task
  <2>2. tasks = EmptyBag /\ writes = <<>> /\ tasks' = One(t)
    BY <1>2, <1>9, <2>1, BeginAlone DEF Report
  <2>3. t.kind = "verify" /\ t.seen = file
    BY <2>1 DEF VerifyTask
  <2>4. UNCHANGED <<file, db, writes, up, touched>> /\ noted' = file.mtime /\ up
    BY <1>9 DEF Report
  <2>5. ~touched => Told(db, file.tags)
    BY <1>4, <2>2 DEF Sure
  <2>6. Fine(t)'
    BY <2>2, <2>3, <2>4, <2>5 DEF Fine
  <2> QED
    BY <1>3, <2>2, <2>4, <2>6 DEF Alone
<1>10. ASSUME tasks = EmptyBag, writes = <<>>, UNCHANGED <<file, db, writes, touched>>, up',
              noted' <= file.mtime, Sure' => Sure, tasks' = tasks (+) One(RecoverTask)
       PROVE  Alone'
  <2>1. PICK t \in Task : t = RecoverTask
    BY DEF RecoverTask, Task
  <2>2. tasks' = One(t) /\ t.kind = "recover"
    BY <1>10, <2>1, BagOfOne DEF RecoverTask
  <2>3. Fine(t)'
    BY <1>4, <1>10, <2>2 DEF Fine
  <2> QED
    BY <1>10, <2>2, <2>3 DEF Alone
<1>16. ASSUME UNCHANGED <<file, db, writes, tasks, up, noted, touched>> PROVE Alone'
  <2>2. CASE tasks = EmptyBag
    <3>1. OnTheWay(writes)
      BY <1>2, <2>2, BagOfOne DEF Alone
    <3> QED
      BY <1>2, <1>16, <2>2, <3>1 DEF Alone, OnTheWay, Sure
  <2>3. CASE tasks # EmptyBag
    <3>1. PICK t \in Task : tasks = One(t) /\ Fine(t)
      BY <1>2, <2>3 DEF Alone
    <3>2. Fine(t)'
      BY <1>16, <3>1 DEF Fine, OnTheWay, Sure
    <3> QED
      BY <1>2, <1>16, <2>3, <3>1, <3>2 DEF Alone
  <2> QED
    BY <2>2, <2>3
<1>11. CASE Awaken
  <2>1. CASE Unreconciled
    BY <1>3, <1>10, <1>11, <2>1 DEF Awaken, Sure
  <2>2. CASE ~Unreconciled
    BY <1>11, <1>16, <2>2 DEF Awaken
  <2> QED
    BY <2>1, <2>2
<1>12. ASSUME NEW tags \in Tags, Touch(tags) PROVE Alone'
  <2>1. /\ touched' /\ noted' = noted /\ file'.mtime = file.mtime + 1 /\ up /\ up'
        /\ UNCHANGED <<db, writes, tasks>>
    BY <1>12 DEF Touch
  <2>2. ~Sure' /\ noted' < file'.mtime /\ noted' <= file'.mtime
    BY <1>3, <2>1 DEF Sure
  <2>3. CASE tasks = EmptyBag
    BY <2>1, <2>2, <2>3 DEF Alone, OnTheWay
  <2>4. CASE tasks # EmptyBag
    <3>1. PICK t \in Task : tasks = One(t) /\ Fine(t)
      BY <1>2, <2>4 DEF Alone
    <3>2. Fine(t)'
      BY <2>1, <2>2, <3>1 DEF Fine, OnTheWay
    <3> QED
      BY <2>1, <2>2, <3>1, <3>2 DEF Alone
  <2> QED
    BY <2>3, <2>4
<1>13. CASE Crash
  <2>1. ~Unsaid
    BY <1>13 DEF Crash
  <2>2. writes = <<>> /\ Sure /\ ~(touched /\ Comparing)
    BY <2>1 DEF Unsaid, Sure
  <2>3. UNCHANGED <<file, db, noted, touched>> /\ writes' = <<>> /\ tasks' = EmptyBag
    BY <1>13 DEF Crash
  <2>4. Told(db, file.tags)
    <3>1. CASE tasks = EmptyBag
      BY <1>4, <2>2, <3>1
    <3>2. CASE tasks # EmptyBag
      <4>1. PICK t \in Task : tasks = One(t) /\ Fine(t)
        BY <1>2, <3>2 DEF Alone
      <4>2. t \in BagToSet(tasks)
        BY <4>1, BagOfOne
      <4>3. touched => /\ t.kind # "verify"
                       /\ ~(t.kind = "send" /\ \E i \in DOMAIN t.writes : t.writes[i].column = "raise")
        BY <2>2, <4>2 DEF Comparing
      <4>4. CASE t.kind = "flush"
        BY <1>3, <2>2, <4>1, <4>4, LeadsNowhere DEF Fine, OnTheWay
      <4>5. CASE t.kind = "close"
        <5>1. ~touched /\ file.tags = db.tags
          BY <1>3, <2>2, <4>1, <4>5 DEF Fine, Sure
        <5> QED
          BY <5>1 DEF Told
      <4>6. CASE t.kind \in {"verify", "send"}
        BY <2>2, <4>1, <4>3, <4>6 DEF Fine
      <4>7. CASE t.kind \in {"apply", "restore", "adopt", "accept", "recover", "write"}
        BY <2>2, <4>1, <4>7 DEF Fine
      <4> QED
        BY <4>4, <4>5, <4>6, <4>7 DEF Task, Flushes
    <3> QED
      BY <3>1, <3>2
  <2>5. OnTheWay(writes)'
    BY <1>3, <2>3, <2>4, LeadsNowhere DEF OnTheWay
  <2> QED
    BY <1>3, <2>2, <2>3, <2>5 DEF Alone, Sure
<1>14. CASE Restart
  <2>1. Sure /\ tasks = EmptyBag /\ writes = <<>>
    BY <1>2, <1>14 DEF Restart, Alone
  <2>2. UNCHANGED <<file, db, writes, touched>> /\ noted' = file.mtime /\ up'
    BY <1>14 DEF Restart
  <2>3. CASE tasks' = tasks (+) One(RecoverTask)
    BY <1>3, <1>10, <2>1, <2>2, <2>3
  <2>4. CASE tasks' = tasks
    <3>1. OnTheWay(writes)'
      BY <1>3, <1>4, <2>1, <2>2, LeadsNowhere DEF OnTheWay
    <3> QED
      BY <1>3, <2>1, <2>2, <2>4, <3>1 DEF Alone
  <2> QED
    BY <1>14, <2>3, <2>4 DEF Restart
<1>15. CASE UNCHANGED vars
  BY <1>15, <1>16 DEF vars
<1> QED
  BY <1>6, <1>7, <1>8, <1>9, <1>11, <1>12, <1>13, <1>14, <1>15 DEF Next

\* execute_verify_tags, apply_post_execution, queue_stale_flush_recovery: a file that
\* differs from the database is on record as a flag, a marker or a signal, whatever
\* fails in between and however often, if the tasks about it did not overlap, no crash
\* lost what was not said yet, and no edit that did nothing dismissed the signal.
THEOREM DifferencesAreOwed == Spec => []DivergenceOwed
<1>1. Init => Lone
  <2> SUFFICES ASSUME Init PROVE Alone
    BY DEF Lone
  <2>1. db \in Rows
    BY InitType DEF TypeOK
  <2>2. db.tags = file.tags /\ file.mtime = 0 /\ noted = 0
    BY DEF Init
  <2>3. writes = <<>> /\ tasks = EmptyBag /\ up
    BY DEF Init
  <2>4. OnTheWay(writes)
    BY <2>1, <2>2, <2>3, LeadsNowhere DEF OnTheWay, Told
  <2> QED
    BY <2>2, <2>3, <2>4 DEF Alone
<1>2. TypeOK /\ Lone => DivergenceOwed
  <2> SUFFICES ASSUME TypeOK, Lone, Quiet, excused = {}, Diverged PROVE OnRecord
    BY DEF DivergenceOwed
  <2>1. OnTheWay(writes) /\ Sure /\ db \in Rows /\ writes = <<>>
    BY BagOfOne DEF Lone, Alone, Quiet, Sure, TypeOK
  <2>2. Told(db, file.tags)
    BY <2>1, LeadsNowhere DEF OnTheWay
  <2> QED
    BY <2>2 DEF Told, Diverged, OnRecord, Unreconciled, Signalled
<1> QED
  BY InitType, NextType, NextLone, <1>1, <1>2, PTL DEF Spec

=============================================================================
