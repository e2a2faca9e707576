----------------------------- MODULE Library_proofs -----------------------------
(***************************************************************************)
(* Proofs about Library, for any files, paths and number of events.        *)
(***************************************************************************)
EXTENDS Library, TLAPS, WellFoundedInduction

-----------------------------------------------------------------------------
(* Induction.                                                              *)

\* A set of numbers has a least one.
LEMMA Least ==
  ASSUME NEW S \in SUBSET Nat, S # {}
  PROVE  \E m \in S : \A k \in S : m <= k
<1>1. IsWellFoundedOn(OpToRel(<, Nat), Nat)
  BY NatLessThanWellFounded
<1>2. PICK m \in S : \A k \in S : <<k, m>> \notin OpToRel(<, Nat)
  BY <1>1, WFMin
<1>3. \A k \in S : <<k, m>> \in Nat \X Nat /\ ~(k < m)
  BY <1>2 DEF OpToRel
<1>4. \A k \in S : k \in Nat /\ m \in Nat /\ ~(k < m)
  BY <1>3
<1>5. \A k \in S : m <= k
  BY <1>4
<1> QED
  BY <1>5

\* A set that has 0, and with each number up to n its successor, has all up to n.
LEMMA SetInduction ==
  ASSUME NEW n \in Nat, NEW S, 0 \in S, \A i \in 1..n : i - 1 \in S => i \in S
  PROVE  0..n \subseteq S
<1> SUFFICES ASSUME 0..n \ S # {} PROVE FALSE
  OBVIOUS
<1>1. 0..n \ S \in SUBSET Nat
  OBVIOUS
<1>2. PICK m \in 0..n \ S : \A k \in 0..n \ S : m <= k
  BY <1>1, Least
<1>3. m \in 1..n
  BY <1>2
<1>4. m - 1 \in 0..n /\ ~(m <= m - 1)
  BY <1>3
<1>5. m - 1 \in S
  BY <1>2, <1>4
<1> QED
  BY <1>2, <1>3, <1>5

-----------------------------------------------------------------------------
-----------------------------------------------------------------------------
(* Bags of tasks.                                                          *)

\* The empty bag is a bag without tasks.
LEMMA BagEmpty == IsABag(EmptyBag) /\ BagToSet(EmptyBag) = {}
BY DEF IsABag, EmptyBag, SetToBag, BagToSet

\* A set of tasks, put into the bag.
LEMMA BagQueues ==
  ASSUME NEW B, IsABag(B), NEW S
  PROVE  IsABag(B (+) SetToBag(S)) /\ BagToSet(B (+) SetToBag(S)) = BagToSet(B) \cup S
BY DEF IsABag, (+), SetToBag, BagToSet

\* A task taken out of the bag: the others stay.
LEMMA BagTakes ==
  ASSUME NEW B, IsABag(B), NEW t
  PROVE  /\ IsABag(B (-) SetToBag({t}))
         /\ BagToSet(B (-) SetToBag({t})) \subseteq BagToSet(B)
         /\ BagToSet(B) \subseteq BagToSet(B (-) SetToBag({t})) \cup {t}
BY DEF IsABag, (-), SetToBag, BagToSet

-----------------------------------------------------------------------------
(* What the DB thread applies together.                                    *)

\* Values for some files are values for the files they are for.
LEMMA UpdateTyped ==
  ASSUME NEW V, NEW old \in [File -> V], NEW changes \in ForSome(V)
  PROVE  Update(old, changes) \in [File -> V]
<1>1. PICK some \in SUBSET File : changes \in [some -> V]
  BY DEF ForSome
<1>2. \A f \in File : (IF f \in DOMAIN changes THEN changes[f] ELSE old[f]) \in V
  BY <1>1
<1> QED
  BY <1>2 DEF Update

\* A write keeps the types of the rows and signals.
LEMMA AppliedTyped ==
  ASSUME NEW d \in Db, NEW w \in Writes
  PROVE  Applied(d, w) \in Db
<1>1. CASE w.column \in {"rows", "no rows"}
  <2>1. w.column = "rows" => w.value \in SUBSET (Path \X Inode)
    BY DEF Writes
  <2>2. {r \in d.rows : r[1] \notin w.value} \in SUBSET (Path \X Inode)
    BY DEF Db
  <2> QED
    BY <1>1, <2>1, <2>2 DEF Applied, Db
<1>2. CASE w.column = "drop"
  <2>1. {r \in d.rows : r[2] # w.value} \in SUBSET (Path \X Inode)
    BY DEF Db
  <2>2. [f \in File |-> IF f = w.value THEN None ELSE d.ready[f]] \in [File -> Path \cup {None}]
    BY DEF Db
  <2>3. [f \in File |-> f # w.value /\ d.deployed[f]] \in [File -> BOOLEAN]
    BY DEF Db
  <2> QED
    BY <1>2, <2>1, <2>2, <2>3 DEF Applied, Dropped, Db
<1>3. CASE w.column = "want"
  <2>1. Update(d.want, w.value) \in [File -> Path]
    BY <1>3, UpdateTyped DEF Writes, Db
  <2> QED
    BY <1>3, <2>1 DEF Applied, Db
<1>4. CASE w.column = "ready"
  <2>1. Update(d.ready, w.value) \in [File -> Path \cup {None}]
    BY <1>4, UpdateTyped DEF Writes, Db
  <2> QED
    BY <1>4, <2>1 DEF Applied, Db
<1>5. CASE w.column = "deployed"
  <2>1. Update(d.deployed, w.value) \in [File -> BOOLEAN]
    BY <1>5, UpdateTyped DEF Writes, Db
  <2> QED
    BY <1>5, <2>1 DEF Applied, Db
<1>6. CASE w.column = "no stale"
  <2>1. [d.stale EXCEPT ![w.value] = None] \in [Path -> Path \cup {None}]
    BY DEF Db
  <2> QED
    BY <1>6, <2>1 DEF Applied, Db
<1>7. CASE w.column \in {"no leftover", "mark"}
  <2>1. d.leftover \ {w.value} \in SUBSET Path
    BY DEF Db
  <2>2. w.column = "mark" => d.dirty \cup {w.value} \in SUBSET File
    BY DEF Db, Writes
  <2> QED
    BY <1>7, <2>1, <2>2 DEF Applied, Db
<1>8. CASE w.column \in {"losers", "leftover", "stale", "dirty"}
  <2>1. w.column \in {"losers", "dirty"} => w.value \in SUBSET File
    BY DEF Writes
  <2>2. w.column = "leftover" => w.value \in SUBSET Path
    BY DEF Writes
  <2>3. w.column = "stale" => w.value \in [Path -> Path \cup {None}]
    BY DEF Writes
  <2> QED
    BY <1>8, <2>1, <2>2, <2>3 DEF Applied, Db
<1> QED
  BY <1>1, <1>2, <1>3, <1>4, <1>5, <1>6, <1>7, <1>8 DEF Writes

\* A write changes the rows only as its column says.
LEMMA RowsAfter ==
  ASSUME NEW d \in Db, NEW w \in Writes
  PROVE  /\ w.column = "rows" => Applied(d, w).rows = d.rows \cup w.value
         /\ w.column = "no rows" => Applied(d, w).rows = {r \in d.rows : r[1] \notin w.value}
         /\ w.column \notin {"rows", "no rows", "drop"} => Applied(d, w).rows = d.rows
<1>1. CASE w.column \in {"rows", "no rows", "drop"}
  BY <1>1 DEF Applied, Db
<1>2. CASE w.column \in {"want", "ready", "deployed", "no leftover", "no stale", "mark"}
  BY <1>2 DEF Applied, Db
<1>3. CASE w.column \in {"losers", "leftover", "stale", "dirty"}
  BY <1>3 DEF Applied, Db
<1> QED
  BY <1>1, <1>2, <1>3 DEF Writes

\* The states in which the writes of ws leave d, one after the other.
Follows(after, d, ws) ==
  /\ AllApplied(d, ws) = after[Len(ws)]
  /\ after[0] = d
  /\ \A k \in 1..Len(ws) : after[k] = Applied(after[k - 1], ws[k])

\* AllApplied is what its recursive definition says.
LEMMA BatchRecursion ==
  ASSUME NEW d, NEW ws \in Seq(Writes)
  PROVE  \E after : Follows(after, d, ws)
<1> DEFINE n == Len(ws)
           Fits(g, k) == /\ g = [i \in 0..k |-> g[i]] /\ g[0] = d
                         /\ \A i \in 1..k : g[i] = Applied(g[i - 1], ws[i])
           Rec(g) == g = [k \in 0..n |-> IF k = 0 THEN d ELSE Applied(g[k - 1], ws[k])]
<1>1. n \in Nat
  OBVIOUS
<1>2. AllApplied(d, ws) = (CHOOSE g : Rec(g))[n]
  BY DEF AllApplied
<1> HIDE DEF n
<1>3. \E g : Rec(g)
  <2> DEFINE S == {k \in 0..n : \E g : Fits(g, k)}
  <2>1. 0 \in S
    <3> DEFINE g == [i \in 0..0 |-> d]
    <3>1. Fits(g, 0)
      OBVIOUS
    <3> HIDE DEF Fits, g
    <3>2. 0 \in 0..n /\ \E f : Fits(f, 0)
      BY <1>1, <3>1
    <3> QED
      BY <3>2
  <2>2. ASSUME NEW k \in 1..n, k - 1 \in S PROVE k \in S
    <3>1. PICK f : Fits(f, k - 1)
      BY <2>2
    <3> DEFINE g == [i \in 0..k |-> IF i = k THEN Applied(f[k - 1], ws[k]) ELSE f[i]]
    <3>2. k \in Nat /\ k # 0 /\ k \in 0..n /\ k - 1 \in Nat /\ 0 \in 0..k
      BY <1>1
    <3>3. g = [i \in 0..k |-> g[i]]
      OBVIOUS
    <3>4. g[0] = d
      BY <3>1, <3>2
    <3>5. ASSUME NEW i \in 1..k PROVE g[i] = Applied(g[i - 1], ws[i])
      <4>1. i \in 0..k /\ i - 1 \in 0..k /\ i - 1 # k
        BY <3>2
      <4>2. g[i - 1] = f[i - 1]
        BY <4>1
      <4>3. CASE i = k
        BY <4>1, <4>2, <4>3
      <4>4. CASE i # k
        <5>1. i \in 1..(k - 1)
          BY <3>2, <4>4
        <5>2. g[i] = f[i] /\ f[i] = Applied(f[i - 1], ws[i])
          BY <3>1, <4>1, <4>4, <5>1
        <5> QED
          BY <4>2, <5>2
      <4> QED
        BY <4>3, <4>4
    <3> HIDE DEF g
    <3>6. Fits(g, k)
      BY <3>3, <3>4, <3>5
    <3> HIDE DEF Fits
    <3> QED
      BY <3>2, <3>6
  <2> HIDE DEF S
  <2>3. 0..n \subseteq S
    BY <1>1, <2>1, <2>2, SetInduction
  <2>4. n \in S
    BY <1>1, <2>3
  <2>5. PICK g : Fits(g, n)
    BY <2>4 DEF S
  <2>6. Rec(g)
    <3> DEFINE body(i) == IF i = 0 THEN d ELSE Applied(g[i - 1], ws[i])
    <3>1. ASSUME NEW i \in 0..n PROVE g[i] = body(i)
      <4>1. i = 0 \/ (i \in 1..n /\ i # 0)
        BY <1>1
      <4>2. CASE i = 0
        BY <2>5, <4>2
      <4>3. CASE i \in 1..n /\ i # 0
        BY <2>5, <4>3
      <4> QED
        BY <4>1, <4>2, <4>3
    <3>2. g = [i \in 0..n |-> g[i]]
      BY <2>5
    <3> HIDE DEF body
    <3>3. [i \in 0..n |-> g[i]] = [i \in 0..n |-> body(i)]
      BY <3>1
    <3>4. g = [i \in 0..n |-> body(i)]
      BY <3>2, <3>3
    <3> QED
      BY <3>4 DEF body
  <2> QED
    BY <2>6
<1> DEFINE after == CHOOSE g : Rec(g)
<1>4. Rec(after)
  BY <1>3
<1> HIDE DEF after
<1>5. after[0] = d /\ \A i \in 1..n : after[i] = Applied(after[i - 1], ws[i])
  BY <1>1, <1>4
<1> QED
  BY <1>2, <1>5 DEF after, n, Follows

\* A batch keeps the types of the rows and signals.
LEMMA AllAppliedTyped ==
  ASSUME NEW d \in Db, NEW ws \in Seq(Writes)
  PROVE  AllApplied(d, ws) \in Db
<1> DEFINE n == Len(ws)
<1> PICK after : Follows(after, d, ws)
  BY BatchRecursion
<1>1. /\ AllApplied(d, ws) = after[n] /\ after[0] = d
      /\ \A k \in 1..n : after[k] = Applied(after[k - 1], ws[k])
  BY DEF Follows
<1>2. n \in Nat /\ \A k \in 1..n : ws[k] \in Writes
  OBVIOUS
<1> DEFINE S == {k \in 0..n : after[k] \in Db}
<1> HIDE DEF n
<1>3. 0 \in S
  BY <1>1, <1>2
<1>4. ASSUME NEW k \in 1..n, k - 1 \in S PROVE k \in S
  <2>1. k \in 0..n /\ after[k] = Applied(after[k - 1], ws[k]) /\ after[k - 1] \in Db
    BY <1>1, <1>2, <1>4
  <2> QED
    BY <1>2, <2>1, AppliedTyped
<1> HIDE DEF S
<1>5. 0..n \subseteq S
  BY <1>2, <1>3, <1>4, SetInduction
<1>6. n \in S
  BY <1>2, <1>5
<1> QED
  BY <1>1, <1>6 DEF S

-----------------------------------------------------------------------------
(* Rows.                                                                   *)

\* A batch that neither adds a row the watcher does not know nor removes one of a
\* path it knows.
Harmless(ws) ==
  \A k \in DOMAIN ws :
    /\ ws[k].column # "drop"
    /\ ws[k].column = "rows" => ws[k].value \subseteq Known(seen)
    /\ ws[k].column = "no rows" => ws[k].value \cap Range(seen) = {}

Adds(ws, w) == \E k \in DOMAIN ws : ws[k].column = "rows" /\ w \in ws[k].value
Clears(ws, p) == \E k \in DOMAIN ws : ws[k].column = "no rows" /\ p \in ws[k].value

\* A row that the watcher knows is there after a harmless batch if it was before, or
\* is added by it.
LEMMA BatchAdds ==
  ASSUME NEW d \in Db, NEW ws \in Seq(Writes), Harmless(ws),
         seen \in [Inode -> Path \cup {None}],
         NEW w \in Known(seen), w \in d.rows \/ Adds(ws, w)
  PROVE  w \in AllApplied(d, ws).rows
<1> DEFINE n == Len(ws)
           Added(k) == \E j \in 1..k : ws[j].column = "rows" /\ w \in ws[j].value
<1> PICK after : Follows(after, d, ws)
  BY BatchRecursion
<1>1. /\ AllApplied(d, ws) = after[n] /\ after[0] = d
      /\ \A k \in 1..n : after[k] = Applied(after[k - 1], ws[k])
  BY DEF Follows
<1>2. n \in Nat /\ DOMAIN ws = 1..n /\ \A k \in 1..n : ws[k] \in Writes
  OBVIOUS
<1>3. w[1] \in Range(seen)
  BY DEF Known, Range
<1> DEFINE S == {k \in 0..n : after[k] \in Db /\ (w \in d.rows \/ Added(k) => w \in after[k].rows)}
<1> HIDE DEF n
<1>4. 0 \in S
  BY <1>1, <1>2
<1>5. ASSUME NEW k \in 1..n, k - 1 \in S PROVE k \in S
  <2> DEFINE c == ws[k].column
             v == ws[k].value
  <2>1. k \in 0..n /\ after[k] = Applied(after[k - 1], ws[k]) /\ ws[k] \in Writes
    BY <1>1, <1>2
  <2>2. after[k - 1] \in Db /\ (w \in d.rows \/ Added(k - 1) => w \in after[k - 1].rows)
    BY <1>5
  <2>3. after[k] \in Db
    BY <2>1, <2>2, AppliedTyped
  <2>4. /\ c = "rows" => after[k].rows = after[k - 1].rows \cup v
        /\ c = "no rows" => after[k].rows = {r \in after[k - 1].rows : r[1] \notin v}
        /\ c \notin {"rows", "no rows", "drop"} => after[k].rows = after[k - 1].rows
    <3> DEFINE e == after[k - 1]
               x == ws[k]
    <3>1. e \in Db /\ x \in Writes /\ after[k] = Applied(e, x)
      BY <2>1, <2>2
    <3> HIDE DEF e, x
    <3>2. /\ x.column = "rows" => Applied(e, x).rows = e.rows \cup x.value
          /\ x.column = "no rows" => Applied(e, x).rows = {r \in e.rows : r[1] \notin x.value}
          /\ x.column \notin {"rows", "no rows", "drop"} => Applied(e, x).rows = e.rows
      BY <3>1, RowsAfter
    <3> QED
      BY <3>1, <3>2 DEF e, x
  <2>5. c # "drop" /\ (c = "no rows" => w[1] \notin v)
    BY <1>2, <1>3 DEF Harmless
  <2>6. Added(k) => Added(k - 1) \/ (c = "rows" /\ w \in v)
    <3>1. \A j \in 1..k : j \in 1..(k - 1) \/ j = k
      BY <1>2
    <3> QED
      BY <3>1
  <2>7. w \in d.rows \/ Added(k) => w \in after[k].rows
    BY <2>2, <2>4, <2>5, <2>6
  <2> QED
    BY <2>1, <2>3, <2>7
<1> HIDE DEF S
<1>6. 0..n \subseteq S
  BY <1>2, <1>4, <1>5, SetInduction
<1>7. n \in S
  BY <1>2, <1>6
<1>8. w \in d.rows \/ Added(n)
  BY <1>2 DEF Adds
<1> HIDE DEF Added
<1> QED
  BY <1>1, <1>7, <1>8 DEF S

\* A row that is there after a harmless batch is of a path that the watcher knows,
\* or was there and is not cleared.
LEMMA BatchClears ==
  ASSUME NEW d \in Db, NEW ws \in Seq(Writes), Harmless(ws),
         seen \in [Inode -> Path \cup {None}],
         NEW w \in AllApplied(d, ws).rows
  PROVE  w[1] \in Range(seen) \/ (w \in d.rows /\ ~Clears(ws, w[1]))
<1> DEFINE n == Len(ws)
           Cleared(k) == \E j \in 1..k : ws[j].column = "no rows" /\ w[1] \in ws[j].value
           Old(k) == w[1] \in Range(seen) \/ (w \in d.rows /\ ~Cleared(k))
<1> PICK after : Follows(after, d, ws)
  BY BatchRecursion
<1>1. /\ AllApplied(d, ws) = after[n] /\ after[0] = d
      /\ \A k \in 1..n : after[k] = Applied(after[k - 1], ws[k])
  BY DEF Follows
<1>2. n \in Nat /\ DOMAIN ws = 1..n /\ \A k \in 1..n : ws[k] \in Writes
  OBVIOUS
<1>3. \A r \in Known(seen) : r[1] \in Range(seen)
  BY DEF Known, Range
<1> DEFINE S == {k \in 0..n : after[k] \in Db /\ (w \in after[k].rows => Old(k))}
<1> HIDE DEF n
<1>4. 0 \in S
  <2>1. ~Cleared(0)
    OBVIOUS
  <2> HIDE DEF Cleared
  <2> QED
    BY <1>1, <1>2, <2>1
<1>5. ASSUME NEW k \in 1..n, k - 1 \in S PROVE k \in S
  <2> DEFINE c == ws[k].column
             v == ws[k].value
  <2>1. k \in 0..n /\ after[k] = Applied(after[k - 1], ws[k]) /\ ws[k] \in Writes
    BY <1>1, <1>2
  <2>2. after[k - 1] \in Db /\ (w \in after[k - 1].rows => Old(k - 1))
    BY <1>5
  <2>3. after[k] \in Db
    BY <2>1, <2>2, AppliedTyped
  <2>4. /\ c = "rows" => after[k].rows = after[k - 1].rows \cup v
        /\ c = "no rows" => after[k].rows = {r \in after[k - 1].rows : r[1] \notin v}
        /\ c \notin {"rows", "no rows", "drop"} => after[k].rows = after[k - 1].rows
    <3> DEFINE e == after[k - 1]
               x == ws[k]
    <3>1. e \in Db /\ x \in Writes /\ after[k] = Applied(e, x)
      BY <2>1, <2>2
    <3> HIDE DEF e, x
    <3>2. /\ x.column = "rows" => Applied(e, x).rows = e.rows \cup x.value
          /\ x.column = "no rows" => Applied(e, x).rows = {r \in e.rows : r[1] \notin x.value}
          /\ x.column \notin {"rows", "no rows", "drop"} => Applied(e, x).rows = e.rows
      BY <3>1, RowsAfter
    <3> QED
      BY <3>1, <3>2 DEF e, x
  <2>5. c # "drop" /\ (c = "rows" => v \subseteq Known(seen))
    BY <1>2 DEF Harmless
  <2>6. Cleared(k) => Cleared(k - 1) \/ (c = "no rows" /\ w[1] \in v)
    <3>1. \A j \in 1..k : j \in 1..(k - 1) \/ j = k
      BY <1>2
    <3> QED
      BY <3>1
  <2> HIDE DEF Cleared
  <2>7. w \in after[k].rows => Old(k)
    BY <1>3, <2>2, <2>4, <2>5, <2>6
  <2> QED
    BY <2>1, <2>3, <2>7
<1> HIDE DEF S
<1>6. 0..n \subseteq S
  BY <1>2, <1>4, <1>5, SetInduction
<1>7. n \in S
  BY <1>2, <1>6
<1>8. Clears(ws, w[1]) => Cleared(n)
  BY <1>2 DEF Clears
<1> HIDE DEF Cleared
<1> QED
  BY <1>1, <1>7, <1>8 DEF S

-----------------------------------------------------------------------------
(* What a task does.                                                       *)

\* What each kind of task is about.
LEMMA TaskFields ==
  ASSUME NEW t \in Task
  PROVE  /\ t.kind = "upsert" => t.path \in Path /\ t.inode \in Inode
         /\ t.kind \in {"delete", "stash", "look"} => t.path \in Path
         /\ t.kind = "reconcile" => t.seen \in [Inode -> Path \cup {None}]
         /\ t.kind \in {"tagops", "link", "deployed"} => t.file \in File /\ t.path \in Path
         /\ t.kind \in {"move", "rename"} => t.path \in Path /\ t.to \in Path
BY DEF Task

\* The tasks that are queued or spawned.
LEMMA TasksTyped ==
  /\ \A p \in Path, i \in Inode : Upsert(p, i) \in Task
  /\ \A p \in Path : Delete(p) \in Task /\ Stash(p) \in Task /\ Look(p) \in Task
  /\ \A s \in [Inode -> Path \cup {None}] : Reconcile(s) \in Task
  /\ \A f \in File, p \in Path : TagOps(f, p) \in Task /\ Link(f, p) \in Task /\ Deployed(f, p) \in Task
  /\ {Conflicts, Overlaps, Health, Status} \subseteq Task
  /\ \A p, q \in Path : Move(p, q) \in Task /\ Rename(p, q) \in Task
BY DEF Task, Upsert, Delete, Stash, Look, Reconcile, TagOps, Link, Deployed, Conflicts, Overlaps,
       Health, Status, Move, Rename

\* The writes that tasks send.
LEMMA WritesTyped ==
  /\ \A R \in SUBSET (Path \X Inode) : Write("rows", R) \in Writes
  /\ \A P \in SUBSET Path : Write("no rows", P) \in Writes /\ Write("leftover", P) \in Writes
  /\ \A i \in Inode : Write("drop", i) \in Writes
  /\ \A c \in ForSome(Path) : Write("want", c) \in Writes
  /\ \A c \in ForSome(Path \cup {None}) : Write("ready", c) \in Writes
  /\ \A c \in ForSome(BOOLEAN) : Write("deployed", c) \in Writes
  /\ \A p \in Path : Write("no leftover", p) \in Writes /\ Write("no stale", p) \in Writes
  /\ \A s \in [Path -> Path \cup {None}] : Write("stale", s) \in Writes
  /\ \A f \in File : Write("mark", f) \in Writes
  /\ \A F \in SUBSET File : Write("losers", F) \in Writes /\ Write("dirty", F) \in Writes
BY DEF Write, Writes

\* One file's value, or those that change.
LEMMA ForSomeTyped ==
  ASSUME NEW V
  PROVE  /\ \A f \in File : \A v \in V : Only(f, v) \in ForSome(V)
         /\ \A old \in [File -> V], new \in [File -> V] : Changes(old, new) \in ForSome(V)
<1>1. ASSUME NEW f \in File, NEW v \in V PROVE Only(f, v) \in ForSome(V)
  <2>1. Only(f, v) \in [{f} -> V] /\ {f} \in SUBSET File
    BY DEF Only
  <2> QED
    BY <2>1 DEF ForSome
<1>2. ASSUME NEW old \in [File -> V], NEW new \in [File -> V] PROVE Changes(old, new) \in ForSome(V)
  <2> DEFINE some == {f \in DOMAIN old : old[f] # new[f]}
  <2>1. some \in SUBSET File /\ Changes(old, new) \in [some -> V]
    BY DEF Changes
  <2> QED
    BY <2>1 DEF ForSome
<1> QED
  BY <1>1, <1>2

\* Up to four writes are a batch.
LEMMA Batches ==
  /\ <<>> \in Seq(Writes)
  /\ \A a \in Writes : <<a>> \in Seq(Writes)
  /\ \A a, b \in Writes : <<a, b>> \in Seq(Writes)
  /\ \A a, b, c \in Writes : <<a, b, c>> \in Seq(Writes)
  /\ \A a, b, c, d \in Writes : <<a, b, c, d>> \in Seq(Writes)
<1>1. <<>> \in Seq(Writes)
  OBVIOUS
<1>2. \A a \in Writes : <<a>> \in Seq(Writes)
  OBVIOUS
<1>3. \A a, b \in Writes : <<a, b>> \in Seq(Writes)
  OBVIOUS
<1>4. \A a, b, c \in Writes : <<a, b, c>> \in Seq(Writes)
  OBVIOUS
<1>5. \A a, b, c, d \in Writes : <<a, b, c, d>> \in Seq(Writes)
  OBVIOUS
<1> QED
  BY <1>1, <1>2, <1>3, <1>4, <1>5

OneName == \A p, q \in Path : disk[p] # None /\ disk[p] = disk[q] => p = q
RowColumns == {"rows", "no rows", "drop"}

\* A reconciliation that ends.
Reconciles(t, ts, ws) ==
  /\ t.kind = "reconcile" /\ ts = {}
  /\ LET missing == Known(t.seen) \ db.rows
         surplus == Surplus(t.seen)
     IN ws = IF missing \cup surplus = {} THEN <<>>
             ELSE <<Write("rows", missing), Write("no rows", surplus)>>

\* A task that does not mutate has nothing to do with rows, unless it is about them.
Plain(t, ts, ws) ==
  \/ t.kind \in {"upsert", "delete", "look"}
  \/ Reconciles(t, ts, ws)
  \/ /\ t.kind # "reconcile"
     /\ \A u \in ts : u.kind = "rename"
     /\ \A k \in DOMAIN ws : ws[k].column \notin RowColumns

Excuses == {"doubled", "overtaken", "clobbered", "outside", "superseded", "outdated"}

\* Task t does its work: it spawns ts and sends ws.
Works(t, ts, ws) ==
  /\ t \in BagToSet(tasks) /\ ts \in SUBSET Task /\ ws \in Seq(Writes)
  /\ Ends(t, ts, ws)
  /\ witch' \in {witch, [witch EXCEPT !.mutated = TRUE]}
  /\ deferred' \in BOOLEAN /\ stash' \subseteq Inode
  /\ disk' \in [Path -> Inode \cup {None}] /\ Becomes(disk')
  /\ excused \subseteq excused' /\ excused' \subseteq Excuses
  /\ "doubled" \notin excused' /\ OneName => OneName'
  /\ ~witch'.mutated => Plain(t, ts, ws)

\* A batch of up to four writes that are not about rows.
LEMMA PlainBatch ==
  ASSUME NEW t, t.kind # "reconcile",
         NEW a, NEW b, NEW c, NEW d,
         \A w \in {a, b, c, d} : w.column \notin RowColumns
  PROVE  /\ Plain(t, {}, <<>>) /\ Plain(t, {}, <<a>>) /\ Plain(t, {}, <<a, b>>)
         /\ Plain(t, {}, <<a, b, c>>) /\ Plain(t, {}, <<a, b, c, d>>)
<1> DEFINE Fine(ws) == \A k \in DOMAIN ws : ws[k].column \notin RowColumns
<1>1. Fine(<<>>)
  OBVIOUS
<1>2. Fine(<<a>>)
  <2>1. \A k \in DOMAIN <<a>> : k = 1
    OBVIOUS
  <2> QED
    BY <2>1
<1>3. Fine(<<a, b>>)
  <2>1. \A k \in DOMAIN <<a, b>> : k \in {1, 2}
    OBVIOUS
  <2>2. <<a, b>>[1] = a /\ <<a, b>>[2] = b
    OBVIOUS
  <2> QED
    BY <2>1, <2>2
<1>4. Fine(<<a, b, c>>)
  <2>1. \A k \in DOMAIN <<a, b, c>> : k \in {1, 2, 3}
    OBVIOUS
  <2>2. <<a, b, c>>[1] = a /\ <<a, b, c>>[2] = b /\ <<a, b, c>>[3] = c
    OBVIOUS
  <2> QED
    BY <2>1, <2>2
<1>5. Fine(<<a, b, c, d>>)
  <2>1. \A k \in DOMAIN <<a, b, c, d>> : k \in {1, 2, 3, 4}
    OBVIOUS
  <2>2. /\ <<a, b, c, d>>[1] = a /\ <<a, b, c, d>>[2] = b
        /\ <<a, b, c, d>>[3] = c /\ <<a, b, c, d>>[4] = d
    OBVIOUS
  <2> QED
    BY <2>1, <2>2
<1>6. \A ws : Fine(ws) => Plain(t, {}, ws)
  BY DEF Plain
<1> HIDE DEF Fine
<1> QED
  BY <1>1, <1>2, <1>3, <1>4, <1>5, <1>6

\* A directory that stays as it is becomes what it is.
LEMMA StaysAsItIs ==
  ASSUME TypeOK, UNCHANGED <<disk, pending>>
  PROVE  /\ disk' \in [Path -> Inode \cup {None}] /\ Becomes(disk')
         /\ OneName => OneName'
BY DEF TypeOK, Becomes, OneName

\* A task that only reads and sends, and is not about rows.
LEMMA ComputesWorks ==
  ASSUME TypeOK, NEW t \in BagToSet(tasks), NEW ts \in SUBSET Task, NEW ws \in Seq(Writes),
         Ends(t, ts, ws), Plain(t, ts, ws),
         UNCHANGED <<disk, stash, pending, witch>>, deferred' \in BOOLEAN,
         excused \subseteq excused', excused' \subseteq Excuses
  PROVE  Works(t, ts, ws)
<1>1. disk' \in [Path -> Inode \cup {None}] /\ Becomes(disk') /\ (OneName => OneName')
  BY StaysAsItIs
<1> QED
  BY <1>1 DEF Works, TypeOK

\* A name goes, or moves: an inode with one name has no more.
LEMMA NameGoes ==
  ASSUME TypeOK, NEW p \in Path, Becomes([disk EXCEPT ![p] = None])
  PROVE  /\ disk' \in [Path -> Inode \cup {None}] /\ Becomes(disk')
         /\ OneName => OneName'
BY DEF TypeOK, Becomes, OneName

\* A rename, over another name too, leaves an inode with one name one name.
LEMMA NameMoves ==
  ASSUME TypeOK, NEW p \in Path, NEW q \in Path, Becomes(Renamed(p, q))
  PROVE  /\ disk' \in [Path -> Inode \cup {None}] /\ Becomes(disk')
         /\ OneName => OneName'
<1>1. CASE disk[p] = disk[q]
  BY <1>1 DEF TypeOK, Becomes, OneName, Renamed
<1>2. CASE disk[p] # disk[q]
  <2>1. disk' = [disk EXCEPT ![p] = None, ![q] = disk[p]] /\ p # q
    BY <1>2 DEF Becomes, Renamed
  <2>2. disk' \in [Path -> Inode \cup {None}]
    BY <2>1 DEF TypeOK
  <2>3. \A r \in Path : disk'[r] = IF r = q THEN disk[p] ELSE IF r = p THEN None ELSE disk[r]
    BY <2>1 DEF TypeOK
  <2>4. OneName => OneName'
    BY <2>3 DEF OneName
  <2>5. Becomes(disk')
    BY DEF Becomes
  <2> QED
    BY <2>2, <2>4, <2>5
<1> QED
  BY <1>1, <1>2

\* The excuses of a state are among those there are.
LEMMA ExcusesTyped ==
  ASSUME TypeOK
  PROVE  /\ excused \subseteq Excuses
         /\ \A what \in Excuses : \A when \in BOOLEAN :
              excused \cup Excuse(what, when) \subseteq Excuses
BY DEF TypeOK, Excuse, Excuses

\* A soft mutation that fails.
LEMMA FailsWorks ==
  ASSUME TypeOK, NEW t \in BagToSet(tasks), t.kind # "reconcile", Fails(t)
  PROVE  Works(t, {}, <<>>)
<1>1. Plain(t, {}, <<>>)
  BY DEF Plain
<1>2. <<>> \in Seq(Writes) /\ excused \subseteq Excuses
  BY Batches, ExcusesTyped
<1> QED
  BY <1>1, <1>2, ComputesWorks DEF Fails, Computes, TypeOK

\* The watcher's rows.
LEMMA RowReadWorks ==
  ASSUME TypeOK, RowRead
  PROVE  \E t, ts, ws : Works(t, ts, ws)
<1>1. PICK t \in BagToSet(tasks), ws \in Seq(Writes) :
        t.kind \in {"upsert", "delete"} /\ Computes(t, {}, ws)
  <2>1. CASE \E t \in Is("upsert") : Computes(t, {}, <<Write("rows", {<<t.path, t.inode>>})>>)
    <3>1. PICK t \in Is("upsert") : Computes(t, {}, <<Write("rows", {<<t.path, t.inode>>})>>)
      BY <2>1
    <3>2. t \in BagToSet(tasks) /\ t.kind = "upsert" /\ t.path \in Path /\ t.inode \in Inode
      BY TaskFields DEF Is, TypeOK
    <3>3. <<Write("rows", {<<t.path, t.inode>>})>> \in Seq(Writes)
      <4>1. {<<t.path, t.inode>>} \in SUBSET (Path \X Inode)
        BY <3>2
      <4>2. Write("rows", {<<t.path, t.inode>>}) \in Writes
        BY <4>1, WritesTyped
      <4> QED
        BY <4>2, Batches
    <3> QED
      BY <3>1, <3>2, <3>3
  <2>2. CASE \E t \in Is("delete") : Computes(t, {}, <<Write("no rows", {t.path})>>)
    <3>1. PICK t \in Is("delete") : Computes(t, {}, <<Write("no rows", {t.path})>>)
      BY <2>2
    <3>2. t \in BagToSet(tasks) /\ t.kind = "delete" /\ t.path \in Path
      BY TaskFields DEF Is, TypeOK
    <3>3. <<Write("no rows", {t.path})>> \in Seq(Writes)
      BY <3>2, WritesTyped, Batches
    <3> QED
      BY <3>1, <3>2, <3>3
  <2> QED
    BY <2>1, <2>2 DEF RowRead
<1>2. Works(t, {}, ws)
  <2>1. Plain(t, {}, ws)
    BY <1>1 DEF Plain
  <2> QED
    BY <1>1, <2>1, ExcusesTyped, ComputesWorks DEF Computes, TypeOK
<1> QED
  BY <1>2

\* A reconciliation.
LEMMA ReconcileReadWorks ==
  ASSUME TypeOK, ReconcileRead
  PROVE  \E t, ts, ws : Works(t, ts, ws)
<1>1. PICK t \in Is("reconcile") :
        LET missing == Known(t.seen) \ db.rows
            surplus == Surplus(t.seen) IN
        Computes(t, {}, IF missing \cup surplus = {} THEN <<>>
                        ELSE <<Write("rows", missing), Write("no rows", surplus)>>)
  BY DEF ReconcileRead
<1> DEFINE missing == Known(t.seen) \ db.rows
           surplus == Surplus(t.seen)
           ws == IF missing \cup surplus = {} THEN <<>>
                 ELSE <<Write("rows", missing), Write("no rows", surplus)>>
<1>2. t \in BagToSet(tasks) /\ t.kind = "reconcile" /\ t.seen \in [Inode -> Path \cup {None}]
  BY TaskFields DEF Is, TypeOK
<1>3. missing \in SUBSET (Path \X Inode)
  BY <1>2 DEF Known
<1>4. surplus \in SUBSET Path
  BY DEF Surplus
<1>5. ws \in Seq(Writes)
  BY <1>3, <1>4, WritesTyped, Batches
<1>6. Plain(t, {}, ws)
  BY <1>2 DEF Plain, Reconciles
<1>7. Computes(t, {}, ws)
  BY <1>1
<1> HIDE DEF ws
<1>8. Works(t, {}, ws)
  BY <1>2, <1>5, <1>6, <1>7, ExcusesTyped, ComputesWorks DEF Computes, TypeOK
<1> QED
  BY <1>8

\* An edit of the tags.
LEMMA TagOpsReadWorks ==
  ASSUME TypeOK, TagOpsRead
  PROVE  \E t, ts, ws : Works(t, ts, ws)
<1>1. PICK t \in Is("tagops") :
        /\ Ends(t, {}, <<Write("want", Only(t.file, t.path)), Write("ready", Only(t.file, None)),
                         Write("deployed", Only(t.file, FALSE)), Write("mark", t.file)>>)
        /\ Mutated
        /\ UNCHANGED <<disk, stash, pending, deferred, excused>>
  BY DEF TagOpsRead
<1> DEFINE a == Write("want", Only(t.file, t.path))
           b == Write("ready", Only(t.file, None))
           c == Write("deployed", Only(t.file, FALSE))
           d == Write("mark", t.file)
<1>2. t \in BagToSet(tasks) /\ t.file \in File /\ t.path \in Path
  BY TaskFields DEF Is, TypeOK
<1>3. a \in Writes /\ b \in Writes /\ c \in Writes /\ d \in Writes
  <2>1. Only(t.file, t.path) \in ForSome(Path)
    BY <1>2, ForSomeTyped
  <2>2. Only(t.file, None) \in ForSome(Path \cup {None})
    BY <1>2, ForSomeTyped
  <2>3. Only(t.file, FALSE) \in ForSome(BOOLEAN)
    BY <1>2, ForSomeTyped
  <2> QED
    BY <1>2, <2>1, <2>2, <2>3, WritesTyped
<1>4. <<a, b, c, d>> \in Seq(Writes)
  BY <1>3, Batches
<1>5. disk' \in [Path -> Inode \cup {None}] /\ Becomes(disk') /\ (OneName => OneName')
  BY <1>1, StaysAsItIs
<1>6. witch' = [witch EXCEPT !.mutated = TRUE] /\ witch'.mutated
  BY <1>1 DEF Mutated, TypeOK
<1> DEFINE ws == <<a, b, c, d>>
<1>7. Ends(t, {}, ws) /\ ws \in Seq(Writes)
  BY <1>1, <1>4
<1> HIDE DEF ws
<1>8. Works(t, {}, ws)
  BY <1>1, <1>2, <1>5, <1>6, <1>7, ExcusesTyped DEF Works, TypeOK
<1> QED
  BY <1>8

\* The computations of the content analysis.
LEMMA AnalysisWorks ==
  ASSUME TypeOK, ConflictsRead \/ OverlapsRead \/ HealthRead \/ StatusRead
  PROVE  \E t, ts, ws : Works(t, ts, ws)
<1>1. CASE ConflictsRead
  <2>1. PICK t \in Is("conflicts") : Computes(t, {}, <<Write("losers", Losers)>>)
    BY <1>1 DEF ConflictsRead
  <2> DEFINE w == Write("losers", Losers)
  <2>2. w \in Writes
    BY WritesTyped DEF Losers
  <2>3. <<w>> \in Seq(Writes)
    BY <2>2, Batches
  <2>4. Plain(t, {}, <<w>>)
    <3>1. w.column \notin RowColumns /\ t.kind # "reconcile"
      BY <2>1 DEF Is, Write, RowColumns
    <3> HIDE DEF w
    <3> QED
      BY <3>1, PlainBatch
  <2> HIDE DEF w
  <2>5. Works(t, {}, <<w>>)
    BY <2>1, <2>3, <2>4, ExcusesTyped, ComputesWorks DEF Computes, Is, TypeOK, w
  <2> QED
    BY <2>5
<1>2. CASE OverlapsRead
  <2>1. PICK t \in Is("overlaps") :
          /\ Ends(t, {}, <<>>) /\ deferred' = TRUE
          /\ UNCHANGED <<disk, stash, pending, witch, excused>>
    BY <1>2 DEF OverlapsRead
  <2>2. Plain(t, {}, <<>>)
    BY DEF Plain, Is
  <2>3. Works(t, {}, <<>>)
    BY <2>1, <2>2, ExcusesTyped, Batches, ComputesWorks DEF Is
  <2> QED
    BY <2>3
<1>3. CASE HealthRead
  <2> DEFINE stale(p) == {i \in Inode : <<p, i>> \in Classified("stale")}
             to == [p \in Path |->
                      IF stale(p) = {} THEN None ELSE db.want[CHOOSE i \in stale(p) : TRUE]]
             a == Write("leftover", {r[1] : r \in Classified("leftover")})
             b == Write("stale", to)
             ws == <<a, b>>
  <2>1. PICK t \in Is("health") :
          /\ Ends(t, {}, ws)
          /\ excused' = excused \cup Excuse("outdated", db.losers # Losers \/ db.rows # Shown)
          /\ UNCHANGED <<disk, stash, pending, deferred, witch>>
    BY <1>3 DEF HealthRead
  <2>2. {r[1] : r \in Classified("leftover")} \in SUBSET Path
    BY DEF Classified, TypeOK, Db
  <2>3. to \in [Path -> Path \cup {None}]
    <3>1. ASSUME NEW p \in Path, stale(p) # {} PROVE db.want[CHOOSE i \in stale(p) : TRUE] \in Path
      <4>1. (CHOOSE i \in stale(p) : TRUE) \in stale(p)
        BY <3>1
      <4>2. \A i \in stale(p) : i \in File
        BY DEF Classified, Phase
      <4> HIDE DEF stale
      <4> QED
        BY <4>1, <4>2 DEF TypeOK, Db
    <3> HIDE DEF stale
    <3> QED
      BY <3>1
  <2>4. a \in Writes /\ b \in Writes
    BY <2>2, <2>3, WritesTyped
  <2>5. ws \in Seq(Writes)
    <3> HIDE DEF a, b
    <3> QED
      BY <2>4, Batches
  <2>6. Plain(t, {}, ws)
    <3>1. a.column = "leftover" /\ b.column = "stale"
      BY DEF Write
    <3> HIDE DEF a, b
    <3> QED
      BY <2>1, <3>1, PlainBatch DEF Is, RowColumns
  <2>7. excused \subseteq excused' /\ excused' \subseteq Excuses
    BY <2>1, ExcusesTyped DEF Excuses
  <2> HIDE DEF ws
  <2>8. Works(t, {}, ws)
    BY <2>1, <2>5, <2>6, <2>7, ComputesWorks DEF Is, TypeOK
  <2> QED
    BY <2>8
<1>4. CASE StatusRead
  <2> DEFINE placed(f) == {p \in Path : At(f, p)}
             ready == [f \in File |->
               IF placed(f) = {} /\ Winner(db.want, f) THEN db.want[f] ELSE None]
             deployed == [f \in File |-> db.want[f] \in placed(f) /\ Winner(db.want, f)]
             a == Write("ready", Changes(db.ready, ready))
             b == Write("deployed", Changes(db.deployed, deployed))
             c == Write("dirty", {})
             ws == IF Skips(db) THEN <<>> ELSE <<a, b, c>>
  <2>1. PICK t \in Is("status") :
          /\ Ends(t, {}, ws)
          /\ excused' = excused \cup Excuse("outdated", ~Skips(db) /\ db.rows # Shown)
          /\ UNCHANGED <<disk, stash, pending, deferred, witch>>
    BY <1>4 DEF StatusRead
  <2>2. ready \in [File -> Path \cup {None}]
    BY DEF TypeOK, Db
  <2>3. deployed \in [File -> BOOLEAN]
    <3>1. \A f \in File : (db.want[f] \in placed(f) /\ Winner(db.want, f)) \in BOOLEAN
      BY DEF Winner
    <3> QED
      BY <3>1
  <2>4. a \in Writes
    <3> HIDE DEF ready
    <3>1. Changes(db.ready, ready) \in ForSome(Path \cup {None})
      BY <2>2, ForSomeTyped DEF TypeOK, Db
    <3> QED
      BY <3>1, WritesTyped
  <2>5. b \in Writes
    <3> HIDE DEF deployed
    <3>1. Changes(db.deployed, deployed) \in ForSome(BOOLEAN)
      BY <2>3, ForSomeTyped DEF TypeOK, Db
    <3> QED
      BY <3>1, WritesTyped
  <2>6. c \in Writes
    BY WritesTyped
  <2>7. a.column = "ready" /\ b.column = "deployed" /\ c.column = "dirty"
    BY DEF Write
  <2> HIDE DEF a, b, c
  <2>8. ws \in Seq(Writes)
    BY <2>4, <2>5, <2>6, Batches
  <2>9. Plain(t, {}, ws)
    <3>1. t.kind # "reconcile" /\ (ws = <<>> \/ ws = <<a, b, c>>)
      BY <2>1 DEF Is
    <3>2. \A w \in {a, b, c, c} : w.column \notin RowColumns
      BY <2>7 DEF RowColumns
    <3>3. Plain(t, {}, <<>>) /\ Plain(t, {}, <<a, b, c>>)
      BY <3>1, <3>2, PlainBatch
    <3> QED
      BY <3>1, <3>3
  <2>10. excused \subseteq excused' /\ excused' \subseteq Excuses
    BY <2>1, ExcusesTyped DEF Excuses
  <2> HIDE DEF ws
  <2>11. Works(t, {}, ws)
    BY <2>1, <2>8, <2>9, <2>10, ComputesWorks DEF Is, TypeOK
  <2> QED
    BY <2>11
<1> QED
  BY <1>1, <1>2, <1>3, <1>4

\* What the looks and the signals of a deployed file send.
LEMMA FollowUpWorks ==
  ASSUME TypeOK, LookRead \/ DeployedRead
  PROVE  \E t, ts, ws : Works(t, ts, ws)
<1>1. CASE LookRead
  <2>1. PICK t \in Is("look") :
          Computes(t, {}, IF disk[t.path] = None THEN <<Write("no rows", {t.path})>>
            ELSE <<Write("rows", {<<t.path, disk[t.path]>>}),
                   Write("no leftover", t.path), Write("no stale", t.path)>>)
    BY <1>1 DEF LookRead
  <2> DEFINE a == Write("no rows", {t.path})
             b == Write("rows", {<<t.path, disk[t.path]>>})
             c == Write("no leftover", t.path)
             d == Write("no stale", t.path)
             ws == IF disk[t.path] = None THEN <<a>> ELSE <<b, c, d>>
  <2>2. t \in BagToSet(tasks) /\ t.kind = "look" /\ t.path \in Path
    BY TaskFields DEF Is, TypeOK
  <2>3. a \in Writes /\ c \in Writes /\ d \in Writes
    BY <2>2, WritesTyped
  <2>4. disk[t.path] # None => b \in Writes
    <3>1. disk[t.path] # None => {<<t.path, disk[t.path]>>} \in SUBSET (Path \X Inode)
      BY <2>2 DEF TypeOK
    <3> QED
      BY <3>1, WritesTyped
  <2> HIDE DEF a, b, c, d
  <2>5. ws \in Seq(Writes)
    BY <2>3, <2>4, Batches
  <2>6. Computes(t, {}, ws)
    BY <2>1 DEF a, b, c, d
  <2>7. Plain(t, {}, ws)
    BY <2>2 DEF Plain
  <2> HIDE DEF ws
  <2>8. Works(t, {}, ws)
    BY <2>2, <2>5, <2>6, <2>7, ExcusesTyped, ComputesWorks DEF Computes, TypeOK
  <2> QED
    BY <2>8
<1>2. CASE DeployedRead
  <2>1. PICK t \in Is("deployed") :
          Computes(t, {}, <<Write("no leftover", t.path), Write("no stale", t.path),
                            Write("ready", Only(t.file, None)),
                            Write("deployed", Only(t.file, TRUE))>>)
    BY <1>2 DEF DeployedRead
  <2> DEFINE a == Write("no leftover", t.path)
             b == Write("no stale", t.path)
             c == Write("ready", Only(t.file, None))
             d == Write("deployed", Only(t.file, TRUE))
             ws == <<a, b, c, d>>
  <2>2. t \in BagToSet(tasks) /\ t.kind = "deployed" /\ t.path \in Path /\ t.file \in File
    BY TaskFields DEF Is, TypeOK
  <2>3. a \in Writes /\ b \in Writes
    BY <2>2, WritesTyped
  <2>4. c \in Writes
    <3>1. Only(t.file, None) \in ForSome(Path \cup {None})
      BY <2>2, ForSomeTyped
    <3> QED
      BY <3>1, WritesTyped
  <2>5. d \in Writes
    <3>1. Only(t.file, TRUE) \in ForSome(BOOLEAN)
      BY <2>2, ForSomeTyped
    <3> QED
      BY <3>1, WritesTyped
  <2>6. /\ a.column = "no leftover" /\ b.column = "no stale"
        /\ c.column = "ready" /\ d.column = "deployed"
    BY DEF Write
  <2>7. Computes(t, {}, ws)
    BY <2>1
  <2> HIDE DEF a, b, c, d
  <2>8. ws \in Seq(Writes)
    BY <2>3, <2>4, <2>5, Batches
  <2>9. Plain(t, {}, ws)
    BY <2>2, <2>6, PlainBatch DEF RowColumns
  <2> HIDE DEF ws
  <2>10. Works(t, {}, ws)
    BY <2>2, <2>7, <2>8, <2>9, ExcusesTyped, ComputesWorks DEF Computes, TypeOK
  <2> QED
    BY <2>10
<1> QED
  BY <1>1, <1>2

\* A mutation that succeeds: it has mutated, so nothing is asked of what it sends.
LEMMA MutatesWorks ==
  ASSUME TypeOK, NEW t \in BagToSet(tasks), NEW ts \in SUBSET Task, NEW ws \in Seq(Writes),
         Ends(t, ts, ws), Mutated,
         deferred' = deferred, stash' \subseteq Inode,
         disk' \in [Path -> Inode \cup {None}], Becomes(disk'),
         excused \subseteq excused', excused' \subseteq Excuses,
         "doubled" \notin excused' /\ OneName => OneName'
  PROVE  Works(t, ts, ws)
<1>1. witch' = [witch EXCEPT !.mutated = TRUE] /\ witch'.mutated
  BY DEF Mutated, TypeOK
<1> QED
  BY <1>1 DEF Works, TypeOK

\* Stashing a library file.
LEMMA StashFileWorks ==
  ASSUME TypeOK, StashFile
  PROVE  \E t, ts, ws : Works(t, ts, ws)
<1>1. PICK t \in Is("stash") :
        LET i == disk[t.path] IN
        IF i = None THEN Fails(t)
        ELSE /\ Becomes([disk EXCEPT ![t.path] = None])
             /\ stash' = stash \cup {i}
             /\ Ends(t, {}, <<Write("drop", i), Write("no leftover", t.path)>>)
             /\ Mutated
             /\ UNCHANGED <<deferred, excused>>
  BY DEF StashFile
<1>2. t \in BagToSet(tasks) /\ t.kind = "stash" /\ t.path \in Path
  BY TaskFields DEF Is, TypeOK
<1>3. CASE disk[t.path] = None
  BY <1>1, <1>2, <1>3, FailsWorks
<1>4. CASE disk[t.path] # None
  <2> DEFINE a == Write("drop", disk[t.path])
             b == Write("no leftover", t.path)
             ws == <<a, b>>
  <2>1. disk[t.path] \in Inode
    BY <1>2, <1>4 DEF TypeOK
  <2>2. a \in Writes /\ b \in Writes
    BY <1>2, <2>1, WritesTyped
  <2>3. /\ Becomes([disk EXCEPT ![t.path] = None]) /\ Ends(t, {}, ws) /\ Mutated
        /\ stash' = stash \cup {disk[t.path]} /\ UNCHANGED <<deferred, excused>>
    BY <1>1, <1>4
  <2> HIDE DEF a, b
  <2>4. ws \in Seq(Writes)
    BY <2>2, Batches
  <2> HIDE DEF ws
  <2>5. /\ disk' \in [Path -> Inode \cup {None}] /\ Becomes(disk')
        /\ OneName => OneName'
    BY <1>2, <2>3, NameGoes
  <2>6. stash' \subseteq Inode
    BY <2>1, <2>3 DEF TypeOK
  <2>7. Works(t, {}, ws)
    BY <1>2, <2>3, <2>4, <2>5, <2>6, ExcusesTyped, MutatesWorks
  <2> QED
    BY <2>7
<1> QED
  BY <1>3, <1>4

\* What a move spawns and sends.
LEMMA MovedSends ==
  ASSUME NEW t \in Task, t.kind \in {"move", "rename"}
  PROVE  {Look(t.path), Look(t.to)} \in SUBSET Task /\ <<Write("no stale", t.path)>> \in Seq(Writes)
<1>1. t.path \in Path /\ t.to \in Path
  BY TaskFields
<1>2. Write("no stale", t.path) \in Writes
  BY <1>1, WritesTyped
<1> QED
  BY <1>1, <1>2, TasksTyped, Batches

\* A move looks at its destination.
LEMMA MoveChecksWorks ==
  ASSUME TypeOK, MoveChecks
  PROVE  \E t, ts, ws : Works(t, ts, ws)
<1>1. PICK t \in Is("move") :
        IF disk[t.to] = None
        THEN /\ Ends(t, {Rename(t.path, t.to)}, <<>>)
             /\ UNCHANGED <<disk, stash, pending, deferred, witch, excused>>
        ELSE IF disk[t.to] = disk[t.path]
        THEN Moved(t) /\ UNCHANGED <<disk, stash, pending, deferred, excused>>
        ELSE Fails(t)
  BY DEF MoveChecks
<1>2. t \in BagToSet(tasks) /\ t \in Task /\ t.kind = "move" /\ t.path \in Path /\ t.to \in Path
  BY TaskFields DEF Is, TypeOK
<1>3. CASE disk[t.to] = None
  <2> DEFINE ts == {Rename(t.path, t.to)}
  <2>1. ts \in SUBSET Task
    BY <1>2, TasksTyped
  <2>2. \A u \in ts : u.kind = "rename"
    BY DEF Rename
  <2>3. Ends(t, ts, <<>>) /\ UNCHANGED <<disk, stash, pending, deferred, witch, excused>>
    BY <1>1, <1>3
  <2> HIDE DEF ts
  <2>4. Plain(t, ts, <<>>)
    BY <1>2, <2>2 DEF Plain
  <2>5. Works(t, ts, <<>>)
    BY <1>2, <2>1, <2>3, <2>4, Batches, ExcusesTyped, ComputesWorks DEF TypeOK
  <2> QED
    BY <2>5
<1>4. CASE disk[t.to] # None /\ disk[t.to] = disk[t.path]
  <2> DEFINE ts == {Look(t.path), Look(t.to)}
             ws == <<Write("no stale", t.path)>>
  <2>1. Ends(t, ts, ws) /\ Mutated /\ UNCHANGED <<disk, stash, pending, deferred, excused>>
    BY <1>1, <1>4 DEF Moved
  <2>2. ts \in SUBSET Task /\ ws \in Seq(Writes)
    BY <1>2, MovedSends
  <2> HIDE DEF ts, ws
  <2>3. disk' \in [Path -> Inode \cup {None}] /\ Becomes(disk') /\ (OneName => OneName')
    BY <2>1, StaysAsItIs
  <2>4. Works(t, ts, ws)
    BY <1>2, <2>1, <2>2, <2>3, ExcusesTyped, MutatesWorks DEF TypeOK
  <2> QED
    BY <2>4
<1>5. CASE disk[t.to] # None /\ disk[t.to] # disk[t.path]
  BY <1>1, <1>2, <1>5, FailsWorks
<1> QED
  BY <1>3, <1>4, <1>5

\* It renames what it has looked at.
LEMMA MoveFileWorks ==
  ASSUME TypeOK, MoveFile
  PROVE  \E t, ts, ws : Works(t, ts, ws)
<1>1. PICK t \in Is("rename") :
        IF disk[t.path] = None THEN Fails(t)
        ELSE /\ Becomes(Renamed(t.path, t.to))
             /\ Moved(t)
             /\ excused' = excused \cup Excuse("clobbered", disk[t.to] \notin {None, disk[t.path]})
             /\ UNCHANGED <<stash, deferred>>
  BY DEF MoveFile
<1>2. t \in BagToSet(tasks) /\ t \in Task /\ t.kind = "rename" /\ t.path \in Path /\ t.to \in Path
  BY TaskFields DEF Is, TypeOK
<1>3. CASE disk[t.path] = None
  BY <1>1, <1>2, <1>3, FailsWorks
<1>4. CASE disk[t.path] # None
  <2> DEFINE ts == {Look(t.path), Look(t.to)}
             ws == <<Write("no stale", t.path)>>
  <2>1. /\ Ends(t, ts, ws) /\ Mutated /\ Becomes(Renamed(t.path, t.to))
        /\ excused' = excused \cup Excuse("clobbered", disk[t.to] \notin {None, disk[t.path]})
        /\ UNCHANGED <<stash, deferred>>
    BY <1>1, <1>4 DEF Moved
  <2>2. ts \in SUBSET Task /\ ws \in Seq(Writes)
    BY <1>2, MovedSends
  <2> HIDE DEF ts, ws
  <2>3. disk' \in [Path -> Inode \cup {None}] /\ Becomes(disk') /\ (OneName => OneName')
    BY <1>2, <2>1, NameMoves
  <2>4. excused \subseteq excused' /\ excused' \subseteq Excuses
    BY <2>1, ExcusesTyped DEF Excuses
  <2>5. Works(t, ts, ws)
    BY <1>2, <2>1, <2>2, <2>3, <2>4, MutatesWorks DEF TypeOK
  <2> QED
    BY <2>5
<1> QED
  BY <1>3, <1>4

\* A hard link, which is excused when it gives an inode a second name.
LEMMA LinkFileWorks ==
  ASSUME TypeOK, LinkFile
  PROVE  \E t, ts, ws : Works(t, ts, ws)
<1>1. PICK t \in Is("link") :
        IF disk[t.path] \notin {None, t.file} THEN Fails(t)
        ELSE /\ Becomes([disk EXCEPT ![t.path] = t.file])
             /\ Ends(t, {Look(t.path), Deployed(t.file, t.path)}, <<>>)
             /\ Mutated
             /\ excused' = excused \cup Doubled(disk')
             /\ UNCHANGED <<stash, deferred>>
  BY DEF LinkFile
<1>2. t \in BagToSet(tasks) /\ t.kind = "link" /\ t.path \in Path /\ t.file \in File
  BY TaskFields DEF Is, TypeOK
<1>3. CASE disk[t.path] \notin {None, t.file}
  BY <1>1, <1>2, <1>3, FailsWorks
<1>4. CASE disk[t.path] \in {None, t.file}
  <2> DEFINE ts == {Look(t.path), Deployed(t.file, t.path)}
  <2>1. /\ Ends(t, ts, <<>>) /\ Mutated /\ Becomes([disk EXCEPT ![t.path] = t.file])
        /\ excused' = excused \cup Doubled(disk') /\ UNCHANGED <<stash, deferred>>
    BY <1>1, <1>4
  <2>2. ts \in SUBSET Task
    BY <1>2, TasksTyped
  <2> HIDE DEF ts
  <2>3. disk' \in [Path -> Inode \cup {None}] /\ Becomes(disk')
    BY <1>2, <2>1 DEF Becomes, TypeOK, Inode
  <2>4. excused \subseteq excused' /\ excused' \subseteq Excuses
    <3>1. Doubled(disk') \subseteq {"doubled"}
      BY DEF Doubled, Excuse
    <3> QED
      BY <2>1, <3>1, ExcusesTyped DEF Excuses
  <2>5. "doubled" \notin excused' => OneName'
    <3>1. "doubled" \notin excused' => "doubled" \notin Doubled(disk')
      BY <2>1
    <3>2. "doubled" \notin Doubled(disk') => OneName'
      BY DEF Doubled, Excuse, OneName
    <3> QED
      BY <3>1, <3>2
  <2>6. Works(t, ts, <<>>)
    BY <1>2, <2>1, <2>2, <2>3, <2>4, <2>5, Batches, MutatesWorks DEF TypeOK
  <2> QED
    BY <2>6
<1> QED
  BY <1>3, <1>4

\* Whatever a task does, it works as described.
LEMMA TasksWork ==
  ASSUME TypeOK, Work
  PROVE  \E t, ts, ws : Works(t, ts, ws)
BY RowReadWorks, ReconcileReadWorks, TagOpsReadWorks, AnalysisWorks, FollowUpWorks, StashFileWorks,
   MoveChecksWorks, MoveFileWorks, LinkFileWorks DEF Work

-----------------------------------------------------------------------------
(* Types.                                                                  *)

\* Of the files that want a path, one has the claim.
LEMMA OneWinner ==
  ASSUME NEW want, NEW f \in File, NEW g \in File, want[f] = want[g], Winner(want, f), Winner(want, g)
  PROVE  f = g
<1>1. ASSUME NEW h \in File PROVE Rank(h) \in Nat /\ Corpus[Rank(h)] = h
  <2>1. \E k \in DOMAIN Corpus : Corpus[k] = h
    BY DEF File, Range
  <2>2. Rank(h) \in DOMAIN Corpus /\ Corpus[Rank(h)] = h
    BY <2>1 DEF Rank
  <2> QED
    BY <2>2, CorpusType
<1>2. Rank(f) <= Rank(g) /\ Rank(g) <= Rank(f)
  BY DEF Winner
<1>3. Rank(f) = Rank(g)
  BY <1>1, <1>2
<1> QED
  BY <1>1, <1>3

\* The names with which the model starts, and what the watcher knows of them.
LEMMA FirstNames ==
  ASSUME NEW want \in Wants,
         disk = [p \in Path |-> IF Winners(want, p) = {} THEN None ELSE CHOOSE f \in Winners(want, p) : TRUE],
         seen = [i \in Inode |-> IF i \in File /\ Winner(want, i) THEN want[i] ELSE None]
  PROVE  /\ disk \in [Path -> Inode \cup {None}]
         /\ seen \in [Inode -> Path \cup {None}]
         /\ \A i, j \in Inode : seen[i] = seen[j] /\ i # j => seen[i] = None
         /\ OneName
         /\ \A p \in Path : \A i \in Inode : disk[p] = i <=> seen[i] = p
<1>1. want \in [File -> Path]
  BY WantsType
<1>2. \A p \in Path : p # None /\ \A i \in Inode : i # None
  BY NoneIsNoPath
<1>3. \A f \in File : f \in Inode
  BY DEF Inode
<1>4. ASSUME NEW p \in Path
      PROVE  \/ Winners(want, p) = {} /\ disk[p] = None
             \/ disk[p] \in Winners(want, p)
  <2>1. CASE Winners(want, p) = {}
    BY <2>1
  <2>2. CASE Winners(want, p) # {}
    <3>1. (CHOOSE f \in Winners(want, p) : TRUE) \in Winners(want, p)
      BY <2>2
    <3> QED
      BY <2>2, <3>1
  <2> QED
    BY <2>1, <2>2
<1>5. \A p \in Path : \A f \in Winners(want, p) : f \in File /\ want[f] = p /\ Winner(want, f)
  BY DEF Winners
<1>6. \A i \in Inode : seen[i] = None \/ (i \in File /\ Winner(want, i) /\ seen[i] = want[i])
  OBVIOUS
<1>7. disk \in [Path -> Inode \cup {None}]
  BY <1>3, <1>4, <1>5
<1>8. seen \in [Inode -> Path \cup {None}]
  BY <1>1
<1>9. ASSUME NEW i \in Inode, NEW j \in Inode, seen[i] = seen[j], i # j PROVE seen[i] = None
  BY <1>6, <1>9, OneWinner
<1>10. OneName
  BY <1>2, <1>3, <1>4, <1>5 DEF OneName
<1>11. ASSUME NEW p \in Path, NEW i \in Inode PROVE disk[p] = i <=> seen[i] = p
  <2>1. ASSUME disk[p] = i PROVE seen[i] = p
    <3>1. i \in File /\ want[i] = p /\ Winner(want, i)
      BY <1>2, <1>4, <1>5, <2>1
    <3> QED
      BY <3>1
  <2>2. ASSUME seen[i] = p PROVE disk[p] = i
    <3>1. i \in File /\ Winner(want, i) /\ want[i] = p
      BY <1>2, <1>6, <2>2
    <3>2. i \in Winners(want, p)
      BY <3>1 DEF Winners
    <3>3. disk[p] \in File /\ want[disk[p]] = p /\ Winner(want, disk[p])
      BY <1>4, <1>5, <3>2
    <3> QED
      BY <3>1, <3>3, OneWinner
  <2> QED
    BY <2>1, <2>2
<1> QED
  BY <1>7, <1>8, <1>9, <1>10, <1>11

\* The initial states have the types.
LEMMA InitTyped == Init => TypeOK
<1> SUFFICES ASSUME Init PROVE TypeOK
  OBVIOUS
<1>1. PICK want \in Wants :
    /\ disk = [p \in Path |-> IF Winners(want, p) = {} THEN None ELSE CHOOSE f \in Winners(want, p) : TRUE]
    /\ seen = [i \in Inode |-> IF i \in File /\ Winner(want, i) THEN want[i] ELSE None]
    /\ db = [rows |-> {<<want[f], f>> : f \in {g \in File : Winner(want, g)}},
             want |-> want, losers |-> {f \in File : ~Winner(want, f)},
             leftover |-> {}, stale |-> [p \in Path |-> None], dirty |-> {},
             ready |-> [f \in File |-> None], deployed |-> [f \in File |-> Winner(want, f)]]
  BY DEF Init
<1>2. /\ stash = {} /\ pending = {} /\ writes = <<>> /\ tasks = EmptyBag
      /\ later = {} /\ deferred = FALSE /\ plan = {} /\ events = 0 /\ excused = {}
      /\ witch = [work |-> "idle", mutated |-> FALSE, rederive |-> FALSE,
                  pendingScope |-> FALSE, deploy |-> FALSE]
  BY DEF Init
<1>3. db \in Db
  <2>1. want \in [File -> Path]
    BY WantsType
  <2>2. {<<want[f], f>> : f \in {g \in File : Winner(want, g)}} \in SUBSET (Path \X Inode)
    BY <2>1 DEF Inode
  <2>3. [f \in File |-> Winner(want, f)] \in [File -> BOOLEAN]
    <3>1. \A f \in File : Winner(want, f) \in BOOLEAN
      BY DEF Winner
    <3> QED
      BY <3>1
  <2> QED
    BY <1>1, <2>1, <2>2, <2>3 DEF Db
<1>4. MaxLag \in Nat /\ MaxEvents \in Nat
  BY BoundsType
<1>5. writes \in Seq(Seq(Writes)) /\ Len(writes) <= MaxLag
  BY <1>2, <1>4
<1>6. events \in 0..MaxEvents
  BY <1>2, <1>4
<1>7. IsABag(tasks) /\ BagToSet(tasks) = {}
  BY <1>2, BagEmpty
<1>8. witch \in [work : {"working", "done", "idle"}, mutated : BOOLEAN, rederive : BOOLEAN,
                pendingScope : BOOLEAN, deploy : BOOLEAN]
  BY <1>2
<1>9. /\ disk \in [Path -> Inode \cup {None}] /\ seen \in [Inode -> Path \cup {None}]
      /\ \A i, j \in Inode : seen[i] = seen[j] /\ i # j => seen[i] = None
  BY <1>1, FirstNames
<1> QED
  BY <1>2, <1>3, <1>5, <1>6, <1>7, <1>8, <1>9 DEF TypeOK

WitchType ==
  [work : {"working", "done", "idle"}, mutated : BOOLEAN, rederive : BOOLEAN,
   pendingScope : BOOLEAN, deploy : BOOLEAN]

\* What is queued joins the tasks.
LEMMA QueueTyped ==
  ASSUME TypeOK, NEW ts \in SUBSET Task, Queue(ts)
  PROVE  IsABag(tasks') /\ BagToSet(tasks') = BagToSet(tasks) \cup ts /\ BagToSet(tasks') \subseteq Task
<1>1. IsABag(tasks) /\ BagToSet(tasks) \subseteq Task
  BY DEF TypeOK
<1> QED
  BY <1>1, BagQueues DEF Queue

\* A task that ends leaves what it has spawned and, last of the writes, what it has sent.
LEMMA EndsTyped ==
  ASSUME TypeOK, NEW t \in BagToSet(tasks), NEW ts \in SUBSET Task, NEW ws \in Seq(Writes),
         Ends(t, ts, ws)
  PROVE  /\ IsABag(tasks') /\ BagToSet(tasks') \subseteq Task
         /\ BagToSet(tasks') \subseteq BagToSet(tasks) \cup ts
         /\ BagToSet(tasks) \subseteq BagToSet(tasks') \cup {t}
         /\ writes' \in Seq(Seq(Writes)) /\ Len(writes') <= MaxLag
         /\ ws = <<>> => writes' = writes
         /\ ws # <<>> => writes' = Append(writes, ws)
<1> DEFINE rest == tasks (-) SetToBag({t})
<1>1. IsABag(tasks) /\ BagToSet(tasks) \subseteq Task /\ tasks' = rest (+) SetToBag(ts)
  BY DEF TypeOK, Ends
<1>2. /\ IsABag(rest) /\ BagToSet(rest) \subseteq BagToSet(tasks)
      /\ BagToSet(tasks) \subseteq BagToSet(rest) \cup {t}
  BY <1>1, BagTakes
<1> HIDE DEF rest
<1>3. IsABag(tasks') /\ BagToSet(tasks') = BagToSet(rest) \cup ts
  BY <1>1, <1>2, BagQueues
<1>4. writes \in Seq(Seq(Writes)) /\ Len(writes) <= MaxLag /\ MaxLag \in Nat
  BY BoundsType DEF TypeOK
<1>5. CASE ws = <<>>
  BY <1>1, <1>2, <1>3, <1>4, <1>5 DEF Ends
<1>6. CASE ws # <<>>
  <2>1. writes' = Append(writes, ws) /\ Len(writes) < MaxLag
    BY <1>6 DEF Ends
  <2>2. Append(writes, ws) \in Seq(Seq(Writes)) /\ Len(Append(writes, ws)) <= MaxLag
    BY <1>4, <2>1
  <2> QED
    BY <1>1, <1>2, <1>3, <1>6, <2>1, <2>2
<1> QED
  BY <1>5, <1>6

\* A task keeps the types.
LEMMA WorksTyped ==
  ASSUME TypeOK, NEW t, NEW ts, NEW ws, Works(t, ts, ws)
  PROVE  TypeOK'
<1>1. /\ t \in BagToSet(tasks) /\ ts \in SUBSET Task /\ ws \in Seq(Writes) /\ Ends(t, ts, ws)
      /\ deferred' \in BOOLEAN /\ stash' \subseteq Inode
      /\ disk' \in [Path -> Inode \cup {None}]
  BY DEF Works
<1>2. /\ IsABag(tasks') /\ BagToSet(tasks') \subseteq Task
      /\ writes' \in Seq(Seq(Writes)) /\ Len(writes') <= MaxLag
  BY <1>1, EndsTyped
<1>3. UNCHANGED <<seen, db, later, plan, events>>
  BY <1>1 DEF Ends
<1>4. pending' \subseteq Path
  BY DEF Works, Becomes, TypeOK
<1>5. witch' \in WitchType
  BY DEF Works, TypeOK, WitchType
<1>6. excused' \subseteq {"doubled", "overtaken", "clobbered", "outside", "superseded", "outdated"}
  BY DEF Works, Excuses
<1> QED
  BY <1>1, <1>2, <1>3, <1>4, <1>5, <1>6 DEF TypeOK, WitchType

\* So does the DB thread.
LEMMA DbApplyTyped ==
  ASSUME TypeOK, DbApply
  PROVE  TypeOK'
<1>1. /\ writes # <<>> /\ db' = AllApplied(db, Head(writes)) /\ writes' = Tail(writes)
      /\ UNCHANGED <<disk, stash, pending, seen, tasks, later, deferred, plan, witch, events, excused>>
  BY DEF DbApply, stages
<1>2. /\ db \in Db /\ writes \in Seq(Seq(Writes)) /\ Len(writes) <= MaxLag /\ MaxLag \in Nat
  BY BoundsType DEF TypeOK
<1>3. Head(writes) \in Seq(Writes)
  BY <1>1, <1>2
<1>4. db' \in Db
  BY <1>1, <1>2, <1>3, AllAppliedTyped
<1>5. Tail(writes) \in Seq(Seq(Writes)) /\ Len(Tail(writes)) <= MaxLag
  BY <1>1, <1>2
<1> QED
  BY <1>1, <1>4, <1>5 DEF TypeOK

\* So do other programs.
LEMMA OutsideTyped ==
  ASSUME TypeOK, Outside
  PROVE  TypeOK' /\ Becomes(disk') /\ (OneName => OneName')
<1>1. /\ Happens /\ excused' = excused \cup {"outside"}
      /\ UNCHANGED <<stash, seen, db, writes, tasks, later, deferred, plan, witch>>
  BY DEF Outside, stages
<1>2. disk' \in [Path -> Inode \cup {None}] /\ Becomes(disk') /\ (OneName => OneName')
  <2>1. CASE \E i \in Foreign, p \in Path : Names(disk, i) = {} /\ Becomes([disk EXCEPT ![p] = i])
    BY <2>1 DEF TypeOK, Becomes, OneName, Names, Inode
  <2>2. CASE \E p \in Path : disk[p] # None /\ Becomes([disk EXCEPT ![p] = None])
    BY <2>2, NameGoes
  <2>3. CASE \E p, q \in Path : p # q /\ disk[p] # None /\ Becomes(Renamed(p, q))
    BY <2>3, NameMoves
  <2> QED
    BY <2>1, <2>2, <2>3 DEF Outside
<1>3. pending' \subseteq Path
  BY <1>2 DEF Becomes, TypeOK
<1>4. events' \in 0..MaxEvents
  BY <1>1, BoundsType DEF Happens, TypeOK
<1> QED
  BY <1>1, <1>2, <1>3, <1>4 DEF TypeOK

\* An event that settles moves what the watcher knows, and queues tasks about rows
\* when it does.
LEMMA SettleTyped ==
  ASSUME TypeOK, Settle
  PROVE  /\ TypeOK'
         /\ UNCHANGED <<disk, stash, db, writes, stages, events, excused>>
         /\ \E p \in pending :
              /\ pending' = pending \ {p}
              /\ \A i \in Inode : seen'[i] = IF disk[p] = i THEN p
                                             ELSE IF seen[i] = p THEN None ELSE seen[i]
              /\ \/ seen' = seen /\ UNCHANGED <<tasks, witch>>
                 \/ witch' = [witch EXCEPT !.work = "working", !.rederive = TRUE]
<1> DEFINE old(p) == {i \in Inode : seen[i] = p}
           new(p) == {disk[p]} \ {None}
           gone(p) == old(p) \ new(p)
           come(p) == new(p) \ old(p)
           now(p) == [i \in Inode |-> IF i \in gone(p) THEN None ELSE IF i \in come(p) THEN p ELSE seen[i]]
           ts(p) == {Delete(p) : i \in gone(p)} \cup {Upsert(p, i) : i \in come(p)}
<1>1. PICK p \in pending :
    /\ pending' = pending \ {p}
    /\ seen' = now(p)
    /\ IF gone(p) \cup come(p) = {} THEN UNCHANGED <<tasks, witch>>
       ELSE /\ Queue(ts(p))
            /\ witch' = [witch EXCEPT !.work = "working", !.rederive = TRUE]
    /\ UNCHANGED <<disk, stash, db, writes, stages, events, excused>>
  BY DEF Settle
<1>2. /\ p \in Path /\ p # None /\ disk[p] \in Inode \cup {None} /\ None \notin Inode
      /\ seen \in [Inode -> Path \cup {None}]
  BY NoneIsNoPath DEF TypeOK
<1>3. gone(p) \subseteq Inode /\ come(p) \subseteq Inode
  BY <1>2
<1>4. \A i \in Inode : now(p)[i] = IF disk[p] = i THEN p
                                   ELSE IF seen[i] = p THEN None ELSE seen[i]
  BY <1>2
<1>5. now(p) \in [Inode -> Path \cup {None}]
  BY <1>2
<1>6. gone(p) \cup come(p) = {} => now(p) = seen
  BY <1>2
<1>7. ASSUME NEW i \in Inode, NEW j \in Inode, now(p)[i] = now(p)[j], i # j
      PROVE  now(p)[i] = None
  <2>1. \A a, b \in Inode : seen[a] = seen[b] /\ a # b => seen[a] = None
    BY DEF TypeOK
  <2> HIDE DEF now
  <2> QED
    BY <1>2, <1>4, <1>7, <2>1
<1>8. ts(p) \in SUBSET Task
  BY <1>2, <1>3, TasksTyped
<1> HIDE DEF now, ts, gone, come
<1>9. IsABag(tasks') /\ BagToSet(tasks') \subseteq Task
  BY <1>1, <1>8, QueueTyped DEF TypeOK
<1>10. witch' \in WitchType
  BY <1>1 DEF TypeOK, WitchType
<1>11. TypeOK'
  BY <1>1, <1>5, <1>7, <1>9, <1>10 DEF TypeOK, WitchType, stages
<1> QED
  BY <1>1, <1>4, <1>6, <1>11

\* An edit queues the tag operations.
LEMMA EditTyped ==
  ASSUME TypeOK, Edit
  PROVE  /\ TypeOK'
         /\ \E ts : Queue(ts) /\ \A t \in ts : t.kind = "tagops"
         /\ witch' = [witch EXCEPT !.work = "working"]
         /\ excused \subseteq excused'
         /\ UNCHANGED <<disk, stash, pending, seen, db, writes, stages>>
<1>1. PICK want \in [File -> Path] \ {db.want} :
    /\ Happens
    /\ Queue({TagOps(f, want[f]) : f \in {g \in File : want[g] # db.want[g]}}) /\ Working
    /\ excused' = excused \cup Excuse("overtaken", ~Quiet)
    /\ UNCHANGED <<disk, stash, pending, seen, db, writes, stages>>
  BY DEF Edit
<1> DEFINE ts == {TagOps(f, want[f]) : f \in {g \in File : want[g] # db.want[g]}}
<1>2. ts \in SUBSET Task
  BY TasksTyped
<1>3. \A t \in ts : t.kind = "tagops"
  BY DEF TagOps
<1>4. Queue(ts)
  BY <1>1
<1> HIDE DEF ts
<1>5. IsABag(tasks') /\ BagToSet(tasks') \subseteq Task
  BY <1>2, <1>4, QueueTyped
<1>6. witch' = [witch EXCEPT !.work = "working"] /\ witch' \in WitchType
  BY <1>1 DEF Working, TypeOK, WitchType
<1>7. events' \in 0..MaxEvents
  BY <1>1, BoundsType DEF Happens, TypeOK
<1>8. excused \subseteq excused'
      /\ excused' \subseteq {"doubled", "overtaken", "clobbered", "outside", "superseded", "outdated"}
  BY <1>1 DEF Excuse, TypeOK
<1>9. TypeOK'
  BY <1>1, <1>5, <1>6, <1>7, <1>8 DEF TypeOK, WitchType, stages
<1> QED
  BY <1>1, <1>3, <1>4, <1>6, <1>8, <1>9

\* The next stage starts.
LEMMA NextStageTyped ==
  ASSUME TypeOK, NextStage
  PROVE  /\ TypeOK'
         /\ \E ts : Queue(ts) /\ \A t \in ts : t.kind \in {"move", "link", "status"}
         /\ witch.work = "working"
         /\ UNCHANGED <<disk, stash, pending, seen, db, writes, plan, witch, events, excused>>
<1>1. PICK ts \in {later, {Status}} :
        /\ Queue(ts) /\ later' \in {later, {}} /\ deferred' \in BOOLEAN
        /\ UNCHANGED <<disk, stash, pending, seen, db, writes, plan, witch, events, excused>>
  BY DEF NextStage, TypeOK
<1>2. ts \in SUBSET Task /\ \A t \in ts : t.kind \in {"move", "link", "status"}
  BY TasksTyped DEF TypeOK, Status
<1>3. IsABag(tasks') /\ BagToSet(tasks') \subseteq Task
  BY <1>1, <1>2, QueueTyped
<1>4. later' \subseteq Task /\ \A t \in later' : t.kind \in {"move", "link"}
  BY <1>1 DEF TypeOK
<1>5. TypeOK'
  BY <1>1, <1>3, <1>4 DEF TypeOK
<1> QED
  BY <1>1, <1>2, <1>5 DEF NextStage

\* The work completes: it mutated, it owed an analysis, or it is done.
LEMMA CompletedTyped ==
  ASSUME TypeOK, Completed
  PROVE  /\ TypeOK'
         /\ witch.work = "working" /\ Drained /\ later = {} /\ ~deferred
         /\ UNCHANGED <<disk, stash, pending, seen, db, writes, stages, events, excused>>
         /\ \/ witch'.work = "done" /\ ~witch'.mutated /\ witch'.rederive /\ UNCHANGED tasks
            \/ /\ ~witch.mutated /\ witch'.work = "working"
               /\ witch'.mutated = witch.mutated /\ witch'.rederive = witch.rederive
               /\ \E ts : Queue(ts) /\ \A t \in ts : t.kind \in {"conflicts", "overlaps", "health"}
            \/ /\ ~witch.mutated /\ witch'.work = "done" /\ UNCHANGED tasks
               /\ witch'.mutated = witch.mutated /\ witch'.rederive = witch.rederive
<1>1. /\ witch.work = "working" /\ Drained /\ later = {} /\ ~deferred
      /\ UNCHANGED <<disk, stash, pending, seen, db, writes, stages, events, excused>>
  BY DEF Completed
<1>2. witch \in WitchType
  BY DEF TypeOK, WitchType
<1>3. CASE witch.mutated
  <2>1. /\ witch' = [witch EXCEPT !.work = "done", !.mutated = FALSE,
                                  !.pendingScope = TRUE, !.rederive = TRUE]
        /\ UNCHANGED tasks
    BY <1>3 DEF Completed
  <2>2. witch' \in WitchType /\ witch'.work = "done" /\ ~witch'.mutated /\ witch'.rederive
    BY <1>2, <2>1 DEF WitchType
  <2>3. TypeOK'
    BY <1>1, <2>1, <2>2 DEF TypeOK, WitchType, stages
  <2> QED
    BY <1>1, <2>1, <2>2, <2>3
<1>4. CASE ~witch.mutated /\ witch.pendingScope
  <2> DEFINE ts == {Conflicts, Overlaps, Health}
  <2>1. witch' = [witch EXCEPT !.pendingScope = FALSE, !.deploy = TRUE] /\ Queue(ts)
    BY <1>4 DEF Completed
  <2>2. ts \in SUBSET Task /\ \A t \in ts : t.kind \in {"conflicts", "overlaps", "health"}
    BY TasksTyped DEF Conflicts, Overlaps, Health
  <2> HIDE DEF ts
  <2>3. /\ witch' \in WitchType /\ witch'.work = "working"
        /\ witch'.mutated = witch.mutated /\ witch'.rederive = witch.rederive
    BY <1>1, <1>2, <2>1 DEF WitchType
  <2>4. IsABag(tasks') /\ BagToSet(tasks') \subseteq Task
    BY <2>1, <2>2, QueueTyped
  <2>5. TypeOK'
    BY <1>1, <2>3, <2>4 DEF TypeOK, WitchType, stages
  <2> QED
    BY <1>1, <1>4, <2>1, <2>2, <2>3, <2>5
<1>5. CASE ~witch.mutated /\ ~witch.pendingScope
  <2>1. witch' = [witch EXCEPT !.work = "done"] /\ UNCHANGED tasks
    BY <1>5 DEF Completed
  <2>2. /\ witch' \in WitchType /\ witch'.work = "done"
        /\ witch'.mutated = witch.mutated /\ witch'.rederive = witch.rederive
    BY <1>2, <2>1 DEF WitchType
  <2>3. TypeOK'
    BY <1>1, <2>1, <2>2 DEF TypeOK, WitchType, stages
  <2> QED
    BY <1>1, <1>5, <2>1, <2>2, <2>3
<1> QED
  BY <1>3, <1>4, <1>5

\* What the query finds to stash, to move and to link.
LEMMA PlannedTyped ==
  ASSUME TypeOK
  PROVE  Planned \subseteq Task /\ \A t \in Planned : t.kind \in {"stash", "move", "link"}
<1>1. db \in Db
  BY DEF TypeOK
<1>2. \A p \in db.leftover : p \in Path
  BY <1>1 DEF Db
<1>3. \A f \in Ready : f \in File /\ db.ready[f] \in Path
  BY <1>1 DEF Db, Ready
<1>4. \A p \in Path : db.stale[p] # None => db.stale[p] \in Path
  BY <1>1 DEF Db
<1>5. ASSUME NEW t \in Planned PROVE t \in Task /\ t.kind \in {"stash", "move", "link"}
  <2>1. \/ \E p \in Path : t = Stash(p)
        \/ \E p, q \in Path : t = Move(p, q)
        \/ \E f \in File, p \in Path : t = Link(f, p)
    BY <1>2, <1>3, <1>4 DEF Planned
  <2> QED
    BY <2>1, TasksTyped DEF Stash, Move, Link
<1> QED
  BY <1>5

\* The rest after the work is over, or a plan is made.
LEMMA LingeredTyped ==
  ASSUME TypeOK, Lingered
  PROVE  /\ TypeOK'
         /\ witch.work = "done" /\ witch'.work \in {"done", "idle"}
         /\ witch'.mutated = witch.mutated /\ witch'.rederive = witch.rederive
         /\ excused \subseteq excused'
         /\ UNCHANGED <<disk, stash, pending, seen, db, writes, tasks, later, deferred, events>>
<1>1. /\ witch.work = "done"
      /\ UNCHANGED <<disk, stash, pending, seen, db, writes, tasks, later, deferred, events>>
  BY DEF Lingered
<1>2. witch \in WitchType
  BY DEF TypeOK, WitchType
<1>3. CASE witch.deploy
  <2>1. /\ plan' = Planned
        /\ witch' = [witch EXCEPT !.deploy = FALSE]
        /\ excused' = excused \cup Excuse("superseded", \E f \in Ready : Superseded(f))
    BY <1>3 DEF Lingered
  <2>2. /\ witch' \in WitchType /\ witch'.work = "done"
        /\ witch'.mutated = witch.mutated /\ witch'.rederive = witch.rederive
    BY <1>1, <1>2, <2>1 DEF WitchType
  <2>3. excused \subseteq excused'
        /\ excused' \subseteq {"doubled", "overtaken", "clobbered", "outside", "superseded", "outdated"}
    BY <2>1 DEF Excuse, TypeOK
  <2>4. plan' \subseteq Task /\ \A t \in plan' : t.kind \in {"stash", "move", "link"}
    BY <2>1, PlannedTyped
  <2>5. TypeOK'
    BY <1>1, <2>2, <2>3, <2>4 DEF TypeOK, WitchType
  <2> QED
    BY <1>1, <2>2, <2>3, <2>5
<1>4. CASE ~witch.deploy
  <2>1. witch' = [witch EXCEPT !.work = "idle"] /\ UNCHANGED <<plan, excused>>
    BY <1>4 DEF Lingered
  <2>2. /\ witch' \in WitchType /\ witch'.work = "idle"
        /\ witch'.mutated = witch.mutated /\ witch'.rederive = witch.rederive
    BY <1>1, <1>2, <2>1 DEF WitchType
  <2>3. TypeOK'
    BY <1>1, <2>1, <2>2 DEF TypeOK, WitchType
  <2> QED
    BY <1>1, <2>1, <2>2, <2>3
<1> QED
  BY <1>3, <1>4

\* The plan is carried out: stashes first, or what else there is.
LEMMA DeployTyped ==
  ASSUME TypeOK, Deploy
  PROVE  /\ TypeOK'
         /\ \E ts : Queue(ts) /\ \A t \in ts : t.kind \in {"stash", "move", "link"}
         /\ witch' = [witch EXCEPT !.work = "working"]
         /\ UNCHANGED <<disk, stash, pending, seen, db, writes, deferred, events, excused>>
<1> DEFINE cleanup == {t \in plan : t.kind = "stash"}
<1>1. /\ plan' = {} /\ Working
      /\ IF cleanup = {} THEN Queue(plan) /\ UNCHANGED later
         ELSE Queue(cleanup) /\ later' = later \cup (plan \ cleanup)
      /\ UNCHANGED <<disk, stash, pending, seen, db, writes, deferred, events, excused>>
  BY DEF Deploy
<1>2. plan \subseteq Task /\ \A t \in plan : t.kind \in {"stash", "move", "link"}
  BY DEF TypeOK
<1>3. later' \subseteq Task /\ \A t \in later' : t.kind \in {"move", "link"}
  BY <1>1, <1>2 DEF TypeOK
<1>4. PICK ts \in SUBSET plan : Queue(ts)
  BY <1>1
<1>5. ts \in SUBSET Task /\ \A t \in ts : t.kind \in {"stash", "move", "link"}
  BY <1>2
<1>6. IsABag(tasks') /\ BagToSet(tasks') \subseteq Task
  BY <1>4, <1>5, QueueTyped
<1>7. witch' = [witch EXCEPT !.work = "working"] /\ witch' \in WitchType
  BY <1>1 DEF Working, TypeOK, WitchType
<1>8. TypeOK'
  BY <1>1, <1>3, <1>6, <1>7 DEF TypeOK, WitchType
<1> QED
  BY <1>1, <1>4, <1>5, <1>7, <1>8

\* A derivation starts with a reconciliation.
LEMMA DeriveTyped ==
  ASSUME TypeOK, Derive
  PROVE  /\ TypeOK'
         /\ witch.work = "idle" /\ Queue({Reconcile(seen)})
         /\ witch' = [witch EXCEPT !.work = "working", !.rederive = FALSE]
         /\ UNCHANGED <<disk, stash, pending, seen, db, writes, stages, events, excused>>
<1>1. /\ witch.work = "idle" /\ Queue({Reconcile(seen)})
      /\ witch' = [witch EXCEPT !.work = "working", !.rederive = FALSE]
      /\ UNCHANGED <<disk, stash, pending, seen, db, writes, stages, events, excused>>
  BY DEF Derive
<1>2. {Reconcile(seen)} \in SUBSET Task
  BY TasksTyped DEF TypeOK
<1>3. IsABag(tasks') /\ BagToSet(tasks') \subseteq Task
  BY <1>1, <1>2, QueueTyped
<1>4. witch' \in WitchType
  BY <1>1 DEF TypeOK, WitchType
<1>5. TypeOK'
  BY <1>1, <1>3, <1>4 DEF TypeOK, WitchType, stages
<1> QED
  BY <1>1, <1>5

\* Every step keeps the types.
LEMMA StepTyped ==
  ASSUME TypeOK, [Next]_vars
  PROVE  TypeOK'
<1>1. CASE Work
  BY <1>1, TasksWork, WorksTyped
<1>2. CASE Outside \/ Edit \/ Settle \/ DbApply
  BY <1>2, OutsideTyped, EditTyped, SettleTyped, DbApplyTyped
<1>3. CASE Machine
  BY <1>3, NextStageTyped, CompletedTyped, LingeredTyped, DeployTyped, DeriveTyped DEF Machine
<1>4. CASE UNCHANGED vars
  BY <1>4 DEF vars, stages, TypeOK
<1> QED
  BY <1>1, <1>2, <1>3, <1>4 DEF Next

\* The tasks, what waits behind the barriers, the rows, the signals and the writes that
\* the DB thread has not applied have their types; at most MaxLag batches wait; and
\* whatever events settle in whatever order, the watcher never knows two inodes at one
\* path.
THEOREM TypeCorrect == Spec => []TypeOK
<1>1. Init => TypeOK
  BY InitTyped
<1>2. TypeOK /\ [Next]_vars => TypeOK'
  BY StepTyped
<1> QED
  BY <1>1, <1>2, PTL DEF Spec

-----------------------------------------------------------------------------
(* Rows.                                                                   *)

\* A Witch that rests has nothing running or waiting, and nothing it would notice late.
Resting ==
  witch.work \in {"done", "idle"} => Drained /\ later = {} /\ ~deferred /\ ~witch.mutated

\* While no inode has two names, the watcher knows the names whose events have settled.
Watched ==
  "doubled" \notin excused =>
    OneName /\ \A p \in Path \ pending : \A i \in Inode : disk[p] = i <=> seen[i] = p

\* With what the tasks have sent, every file that the watcher knows has its row and every
\* row is of a path that the watcher knows.
Coming ==
  /\ \A w \in Known(seen) : w \in db.rows \/ \E k \in DOMAIN writes : Adds(writes[k], w)
  /\ \A w \in db.rows : w[1] \in Range(seen) \/ \E k \in DOMAIN writes : Clears(writes[k], w[1])

\* Unless a derivation is owed, or will be for what was mutated, no task is left that writes
\* rows on its own, no write does harm, and a reconciliation with what the watcher knows is
\* to come or has made the rows right.
Owed ==
  ~witch.rederive /\ ~witch.mutated =>
    /\ \A t \in BagToSet(tasks) : t.kind \notin {"upsert", "delete", "look"}
    /\ \A t \in Is("reconcile") : t.seen = seen
    /\ \A k \in DOMAIN writes : Harmless(writes[k])
    /\ Is("reconcile") # {} \/ Coming

IInv == TypeOK /\ Resting /\ Watched /\ Owed

\* Nobody but the watcher knows more, and all that changes is reported.
LEMMA WatchedKept ==
  ASSUME TypeOK, Watched, Becomes(disk'), seen' = seen, excused \subseteq excused',
         "doubled" \notin excused' /\ OneName => OneName'
  PROVE  Watched'
<1> SUFFICES ASSUME "doubled" \notin excused' PROVE Watched'
  BY DEF Watched
<1>1. OneName /\ \A p \in Path \ pending : \A i \in Inode : disk[p] = i <=> seen[i] = p
  BY DEF Watched
<1>2. \A p \in Path \ pending' : p \in Path \ pending /\ disk'[p] = disk[p]
  BY DEF Becomes
<1>3. \A p \in Path \ pending' : \A i \in Inode : disk'[p] = i <=> seen'[i] = p
  BY <1>1, <1>2
<1> QED
  BY <1>1, <1>3 DEF Watched

\* An event that settles tells the watcher the name.
LEMMA WatchedSettles ==
  ASSUME TypeOK, Watched, Settle
  PROVE  Watched'
<1>1. UNCHANGED <<disk, excused>>
  BY SettleTyped
<1>2. PICK p \in pending :
        /\ pending' = pending \ {p}
        /\ \A i \in Inode : seen'[i] = IF disk[p] = i THEN p
                                       ELSE IF seen[i] = p THEN None ELSE seen[i]
  BY SettleTyped
<1> SUFFICES ASSUME "doubled" \notin excused PROVE Watched'
  BY <1>1 DEF Watched
<1>3. OneName /\ \A a \in Path \ pending : \A i \in Inode : disk[a] = i <=> seen[i] = a
  BY DEF Watched
<1>4. p \in Path /\ (\A a \in Path : a # None) /\ (\A i \in Inode : i # None)
  BY NoneIsNoPath DEF TypeOK
<1>5. ASSUME NEW a \in Path \ pending', NEW i \in Inode PROVE disk[a] = i <=> seen'[i] = a
  <2>1. CASE a = p
    BY <1>2, <1>4, <2>1
  <2>2. CASE a # p
    <3>1. a \in Path \ pending
      BY <1>2, <2>2
    <3>2. disk[a] = i <=> seen[i] = a
      BY <1>3, <3>1
    <3>3. disk[a] = i => disk[p] # i
      BY <1>3, <1>4, <2>2 DEF OneName
    <3> QED
      BY <1>2, <1>4, <2>2, <3>1, <3>2, <3>3
  <2> QED
    BY <2>1, <2>2
<1> QED
  BY <1>1, <1>3, <1>5 DEF Watched, OneName

\* What is queued that has nothing to do with rows changes nothing of what is owed.
LEMMA OwedKept ==
  ASSUME TypeOK, Owed, UNCHANGED <<seen, db, writes>>, NEW ts,
         BagToSet(tasks') = BagToSet(tasks) \cup ts,
         \A t \in ts : t.kind \notin {"upsert", "delete", "look", "reconcile"},
         witch'.rederive = witch.rederive, witch'.mutated = witch.mutated
  PROVE  Owed'
<1> SUFFICES ASSUME ~witch.rederive, ~witch.mutated PROVE Owed'
  BY DEF Owed
<1>1. /\ \A t \in BagToSet(tasks) : t.kind \notin {"upsert", "delete", "look"}
      /\ \A t \in Is("reconcile") : t.seen = seen
      /\ \A k \in DOMAIN writes : Harmless(writes[k])
      /\ Is("reconcile") # {} \/ Coming
  BY DEF Owed
<1>2. Is("reconcile")' = Is("reconcile")
  BY DEF Is
<1>3. \A t \in BagToSet(tasks') : t.kind \notin {"upsert", "delete", "look"}
  BY <1>1
<1>4. \A k \in DOMAIN writes' : Harmless(writes[k])'
  BY <1>1 DEF Harmless, Known
<1>5. Coming => Coming'
  BY DEF Coming, Known
<1> QED
  BY <1>1, <1>2, <1>3, <1>4, <1>5 DEF Owed

\* Nor does a step that queues nothing.
LEMMA OwedStays ==
  ASSUME TypeOK, Owed, UNCHANGED <<seen, db, writes, tasks>>,
         witch'.rederive = witch.rederive, witch'.mutated = witch.mutated
  PROVE  Owed'
<1> DEFINE ts == {}
<1>1. BagToSet(tasks') = BagToSet(tasks) \cup ts
  OBVIOUS
<1>2. \A t \in ts : t.kind \notin {"upsert", "delete", "look", "reconcile"}
  OBVIOUS
<1> HIDE DEF ts
<1> QED
  BY <1>1, <1>2, OwedKept

\* A reconciliation with what the watcher knows does no harm, and makes the rows right.
LEMMA ReconcilesRight ==
  ASSUME TypeOK, NEW t, NEW ts, NEW ws, t.seen = seen, Reconciles(t, ts, ws)
  PROVE  /\ Harmless(ws)
         /\ \A w \in Known(seen) : w \in db.rows \/ Adds(ws, w)
         /\ \A w \in db.rows : w[1] \in Range(seen) \/ Clears(ws, w[1])
<1> DEFINE missing == Known(seen) \ db.rows
           surplus == Surplus(seen)
           a == Write("rows", missing)
           b == Write("no rows", surplus)
<1>1. ws = IF missing \cup surplus = {} THEN <<>> ELSE <<a, b>>
  BY DEF Reconciles
<1>2. /\ a.column = "rows" /\ a.value = missing
      /\ b.column = "no rows" /\ b.value = surplus
  BY DEF Write
<1>3. missing \subseteq Known(seen) /\ surplus \cap Range(seen) = {}
  BY DEF Surplus
<1>4. \A w \in db.rows : w[1] \in Range(seen) \/ w[1] \in surplus
  <2>1. \A w \in db.rows : w[1] \in Path /\ w[2] \in Inode /\ w = <<w[1], w[2]>>
    BY DEF TypeOK, Db
  <2> QED
    BY <2>1 DEF Surplus
<1>5. \A w \in Known(seen) : w \in db.rows \/ w \in missing
  OBVIOUS
<1> HIDE DEF missing, surplus, a, b
<1>6. CASE missing \cup surplus = {}
  BY <1>1, <1>4, <1>5, <1>6 DEF Harmless
<1>7. CASE missing \cup surplus # {}
  <2>1. DOMAIN ws = {1, 2} /\ ws[1] = a /\ ws[2] = b
    <3>1. ws = <<a, b>>
      BY <1>1, <1>7
    <3> QED
      BY <3>1
  <2>2. Harmless(ws)
    BY <1>2, <1>3, <2>1 DEF Harmless
  <2>3. \A w \in missing : Adds(ws, w)
    BY <1>2, <2>1 DEF Adds
  <2>4. \A p \in surplus : Clears(ws, p)
    BY <1>2, <2>1 DEF Clears
  <2> QED
    BY <1>4, <1>5, <2>2, <2>3, <2>4
<1> QED
  BY <1>6, <1>7

\* A task keeps what is owed.
LEMMA OwedWorks ==
  ASSUME TypeOK, Owed, NEW t, NEW ts, NEW ws, Works(t, ts, ws)
  PROVE  Owed'
<1>1. /\ t \in BagToSet(tasks) /\ ts \in SUBSET Task /\ ws \in Seq(Writes) /\ Ends(t, ts, ws)
      /\ witch' \in {witch, [witch EXCEPT !.mutated = TRUE]}
      /\ ~witch'.mutated => Plain(t, ts, ws)
  BY DEF Works
<1>2. seen' = seen /\ db' = db
  BY <1>1 DEF Ends
<1> SUFFICES ASSUME ~witch'.rederive, ~witch'.mutated PROVE Owed'
  BY DEF Owed
<1>3. ~witch.rederive /\ ~witch.mutated
  BY <1>1 DEF TypeOK
<1>4. /\ \A u \in BagToSet(tasks) : u.kind \notin {"upsert", "delete", "look"}
      /\ \A u \in Is("reconcile") : u.seen = seen
      /\ \A k \in DOMAIN writes : Harmless(writes[k])
      /\ Is("reconcile") # {} \/ Coming
  BY <1>3 DEF Owed
<1>5. /\ BagToSet(tasks') \subseteq BagToSet(tasks) \cup ts
      /\ BagToSet(tasks) \subseteq BagToSet(tasks') \cup {t}
      /\ ws = <<>> => writes' = writes
      /\ ws # <<>> => writes' = Append(writes, ws)
  BY <1>1, EndsTyped
<1>6. Reconciles(t, ts, ws) \/ (/\ t.kind # "reconcile"
                                /\ \A u \in ts : u.kind = "rename"
                                /\ \A k \in DOMAIN ws : ws[k].column \notin RowColumns)
  BY <1>1, <1>4 DEF Plain
<1>7. \A u \in ts : u.kind = "rename"
  BY <1>6 DEF Reconciles
<1>8. \A u \in BagToSet(tasks') : u.kind \notin {"upsert", "delete", "look"}
  BY <1>4, <1>5, <1>7
<1>9. \A u \in Is("reconcile")' : u.seen = seen'
  BY <1>2, <1>4, <1>5, <1>7 DEF Is
<1>10. Harmless(ws)
  <2>1. CASE Reconciles(t, ts, ws)
    <3>1. t.seen = seen
      BY <1>1, <1>4, <2>1 DEF Is, Reconciles
    <3> QED
      BY <2>1, <3>1, ReconcilesRight
  <2>2. CASE \A k \in DOMAIN ws : ws[k].column \notin RowColumns
    BY <2>2 DEF Harmless, RowColumns
  <2> QED
    BY <1>6, <2>1, <2>2
<1>11. /\ \A k \in DOMAIN writes' : (k \in DOMAIN writes /\ writes'[k] = writes[k]) \/ writes'[k] = ws
       /\ \A k \in DOMAIN writes : k \in DOMAIN writes' /\ writes'[k] = writes[k]
       /\ ws # <<>> => \E k \in DOMAIN writes' : writes'[k] = ws
  <2>1. writes \in Seq(Seq(Writes))
    BY DEF TypeOK
  <2>2. CASE ws = <<>>
    BY <1>5, <2>2
  <2>3. CASE ws # <<>>
    <3>1. /\ DOMAIN Append(writes, ws) = 1..(Len(writes) + 1) /\ DOMAIN writes = 1..Len(writes)
          /\ \A k \in 1..Len(writes) : Append(writes, ws)[k] = writes[k]
          /\ Append(writes, ws)[Len(writes) + 1] = ws
          /\ Len(writes) \in Nat
      BY <1>1, <2>1
    <3>2. \A k \in 1..(Len(writes) + 1) : k \in 1..Len(writes) \/ k = Len(writes) + 1
      BY <3>1
    <3>3. /\ \A k \in 1..Len(writes) : k \in 1..(Len(writes) + 1)
          /\ Len(writes) + 1 \in 1..(Len(writes) + 1)
      BY <3>1
    <3>4. writes' = Append(writes, ws)
      BY <1>5, <2>3
    <3> QED
      BY <3>1, <3>2, <3>3, <3>4
  <2> QED
    BY <2>2, <2>3
<1>12. \A k \in DOMAIN writes' : Harmless(writes[k])'
  <2>1. \A k \in DOMAIN writes' : Harmless(writes'[k])
    BY <1>4, <1>10, <1>11
  <2> QED
    BY <1>2, <2>1 DEF Harmless, Known
<1>13. Coming => Coming'
  <2>1. \A w : (\E k \in DOMAIN writes : Adds(writes[k], w)) => \E k \in DOMAIN writes' : Adds(writes'[k], w)
    BY <1>11
  <2>2. \A p : (\E k \in DOMAIN writes : Clears(writes[k], p)) => \E k \in DOMAIN writes' : Clears(writes'[k], p)
    BY <1>11
  <2> QED
    BY <1>2, <2>1, <2>2 DEF Coming, Known
<1>14. Is("reconcile")' # {} \/ Coming'
  <2>1. CASE Reconciles(t, ts, ws)
    <3>1. t.seen = seen
      BY <1>1, <1>4, <2>1 DEF Is, Reconciles
    <3>2. /\ \A w \in Known(seen) : w \in db.rows \/ Adds(ws, w)
          /\ \A w \in db.rows : w[1] \in Range(seen) \/ Clears(ws, w[1])
      BY <2>1, <3>1, ReconcilesRight
    <3>3. /\ \A w : Adds(ws, w) => ws # <<>>
          /\ \A p : Clears(ws, p) => ws # <<>>
      <4>1. DOMAIN <<>> = {}
        OBVIOUS
      <4> QED
        BY <4>1 DEF Adds, Clears
    <3>4. /\ \A w \in Known(seen) : w \in db.rows \/ \E k \in DOMAIN writes' : Adds(writes'[k], w)
          /\ \A w \in db.rows : w[1] \in Range(seen) \/ \E k \in DOMAIN writes' : Clears(writes'[k], w[1])
      BY <1>11, <3>2, <3>3
    <3> QED
      BY <1>2, <3>4 DEF Coming, Known
  <2>2. CASE t.kind # "reconcile"
    <3>1. Is("reconcile") \subseteq Is("reconcile")'
      BY <1>5, <2>2 DEF Is
    <3> QED
      BY <1>4, <1>13, <3>1
  <2> QED
    BY <1>6, <2>1, <2>2
<1> QED
  BY <1>8, <1>9, <1>12, <1>14 DEF Owed

\* So does the DB thread.
LEMMA OwedApplies ==
  ASSUME TypeOK, Owed, DbApply
  PROVE  Owed'
<1>1. /\ writes # <<>> /\ db' = AllApplied(db, Head(writes)) /\ writes' = Tail(writes)
      /\ UNCHANGED <<seen, tasks, witch>>
  BY DEF DbApply
<1> SUFFICES ASSUME ~witch.rederive, ~witch.mutated PROVE Owed'
  BY <1>1 DEF Owed
<1>2. /\ \A t \in BagToSet(tasks) : t.kind \notin {"upsert", "delete", "look"}
      /\ \A t \in Is("reconcile") : t.seen = seen
      /\ \A k \in DOMAIN writes : Harmless(writes[k])
      /\ Is("reconcile") # {} \/ Coming
  BY DEF Owed
<1> DEFINE ws == Head(writes)
<1>3. writes \in Seq(Seq(Writes)) /\ db \in Db /\ seen \in [Inode -> Path \cup {None}]
  BY DEF TypeOK
<1>4. /\ 1 \in DOMAIN writes /\ writes[1] = ws
      /\ DOMAIN Tail(writes) = 1..(Len(writes) - 1) /\ DOMAIN writes = 1..Len(writes)
      /\ \A k \in 1..(Len(writes) - 1) : Tail(writes)[k] = writes[k + 1]
      /\ Len(writes) \in Nat
  BY <1>1, <1>3
<1>5. /\ \A k \in 1..(Len(writes) - 1) : k + 1 \in 1..Len(writes)
      /\ \A k \in 1..Len(writes) : k = 1 \/ (k - 1 \in 1..(Len(writes) - 1) /\ (k - 1) + 1 = k)
  BY <1>4
<1>6. \A k \in DOMAIN writes' : \E j \in DOMAIN writes : writes'[k] = writes[j]
  BY <1>1, <1>4, <1>5
<1>7. \A j \in DOMAIN writes : writes[j] = ws \/ \E k \in DOMAIN writes' : writes'[k] = writes[j]
  BY <1>1, <1>4, <1>5
<1>8. ws \in Seq(Writes) /\ Harmless(ws)
  BY <1>1, <1>2, <1>3, <1>4
<1> HIDE DEF ws
<1>9. \A k \in DOMAIN writes' : Harmless(writes[k])'
  <2>1. \A k \in DOMAIN writes' : Harmless(writes'[k])
    BY <1>2, <1>6
  <2>2. seen' = seen
    BY <1>1
  <2> QED
    BY <2>1, <2>2 DEF Harmless, Known
<1>10. Is("reconcile")' = Is("reconcile")
  BY <1>1 DEF Is
<1>11. Coming => Coming'
  <2> SUFFICES ASSUME Coming PROVE Coming'
    OBVIOUS
  <2>1. db' = AllApplied(db, ws)
    BY <1>1 DEF ws
  <2>2. ASSUME NEW w \in Known(seen)
        PROVE  w \in db'.rows \/ \E k \in DOMAIN writes' : Adds(writes'[k], w)
    <3>1. (w \in db.rows \/ Adds(ws, w)) \/ \E k \in DOMAIN writes' : Adds(writes'[k], w)
      BY <1>7 DEF Coming
    <3>2. w \in db.rows \/ Adds(ws, w) => w \in db'.rows
      BY <1>3, <1>8, <2>1, BatchAdds
    <3> QED
      BY <3>1, <3>2
  <2>3. ASSUME NEW w \in db'.rows
        PROVE  w[1] \in Range(seen) \/ \E k \in DOMAIN writes' : Clears(writes'[k], w[1])
    <3>1. w[1] \in Range(seen) \/ (w \in db.rows /\ ~Clears(ws, w[1]))
      BY <1>3, <1>8, <2>1, BatchClears
    <3>2. w \in db.rows => \/ w[1] \in Range(seen) \/ Clears(ws, w[1])
                           \/ \E k \in DOMAIN writes' : Clears(writes'[k], w[1])
      BY <1>7 DEF Coming
    <3> QED
      BY <3>1, <3>2
  <2> QED
    BY <1>1, <2>2, <2>3 DEF Coming, Known
<1> QED
  BY <1>1, <1>2, <1>9, <1>10, <1>11 DEF Owed

\* A derivation starts when nothing else runs: what is owed is its reconciliation.
LEMMA OwedDerives ==
  ASSUME TypeOK, Resting, Derive
  PROVE  Owed'
<1>1. /\ witch.work = "idle" /\ Queue({Reconcile(seen)})
      /\ UNCHANGED <<seen, writes>>
  BY DeriveTyped
<1>2. tasks = EmptyBag /\ writes = <<>>
  BY <1>1 DEF Resting, Drained
<1>3. BagToSet(tasks') = {Reconcile(seen)}
  <2>1. {Reconcile(seen)} \in SUBSET Task
    BY TasksTyped DEF TypeOK
  <2> QED
    BY <1>1, <1>2, <2>1, QueueTyped, BagEmpty
<1>4. Reconcile(seen).kind = "reconcile" /\ Reconcile(seen).seen = seen
  BY DEF Reconcile
<1>5. \A t \in BagToSet(tasks') : t.kind \notin {"upsert", "delete", "look"}
  BY <1>3, <1>4
<1>6. Is("reconcile")' = {Reconcile(seen)}
  BY <1>3, <1>4 DEF Is
<1>7. DOMAIN writes' = {}
  <2>1. DOMAIN <<>> = {}
    OBVIOUS
  <2> QED
    BY <1>1, <1>2, <2>1
<1> QED
  BY <1>1, <1>4, <1>5, <1>6, <1>7 DEF Owed

\* While a task runs, the Witch works.
LEMMA RestingWorks ==
  ASSUME TypeOK, Resting, NEW t, NEW ts, NEW ws, Works(t, ts, ws)
  PROVE  Resting'
<1>1. t \in BagToSet(tasks) /\ witch' \in {witch, [witch EXCEPT !.mutated = TRUE]}
  BY DEF Works
<1>2. tasks # EmptyBag
  BY <1>1, BagEmpty
<1>3. witch.work \notin {"done", "idle"}
  BY <1>2 DEF Resting, Drained
<1>4. witch'.work = witch.work
  BY <1>1 DEF TypeOK
<1> QED
  BY <1>3, <1>4 DEF Resting

\* The rest of the steps leave a Witch that rests at rest.
LEMMA RestingKept ==
  ASSUME TypeOK, Resting, Outside \/ Edit \/ Settle \/ DbApply \/ Machine
  PROVE  Resting'
<1> USE DEF Resting, Drained
<1>1. CASE Outside
  BY <1>1 DEF Outside, stages
<1>2. CASE Edit
  BY <1>2, EditTyped DEF TypeOK
<1>3. CASE Settle
  BY <1>3, SettleTyped DEF TypeOK, stages
<1>4. CASE DbApply
  BY <1>4 DEF DbApply, stages
<1>5. CASE Machine
  <2>1. CASE NextStage
    BY <2>1, NextStageTyped DEF TypeOK
  <2>2. CASE Completed
    BY <2>2, CompletedTyped DEF stages
  <2>3. CASE Lingered
    BY <2>3, LingeredTyped
  <2>4. CASE Deploy
    BY <2>4, DeployTyped DEF TypeOK
  <2>5. CASE Derive
    BY <2>5, DeriveTyped DEF TypeOK
  <2> QED
    BY <1>5, <2>1, <2>2, <2>3, <2>4, <2>5 DEF Machine
<1> QED
  BY <1>1, <1>2, <1>3, <1>4, <1>5

\* Every step keeps the invariant.
LEMMA StepKeeps ==
  ASSUME IInv, [Next]_vars
  PROVE  IInv'
<1>1. TypeOK /\ Resting /\ Watched /\ Owed /\ TypeOK'
  BY StepTyped DEF IInv
<1>2. ASSUME Outside PROVE Resting' /\ Watched' /\ Owed'
  <2>1. /\ Becomes(disk') /\ (OneName => OneName')
        /\ UNCHANGED <<seen, db, writes, tasks, witch>> /\ excused' = excused \cup {"outside"}
    BY <1>1, <1>2, OutsideTyped DEF Outside
  <2>2. Owed'
    BY <1>1, <2>1, OwedStays
  <2> QED
    BY <1>1, <1>2, <2>1, <2>2, WatchedKept, RestingKept
<1>3. ASSUME Edit PROVE Resting' /\ Watched' /\ Owed'
  <2>1. /\ witch' = [witch EXCEPT !.work = "working"] /\ excused \subseteq excused'
        /\ UNCHANGED <<disk, pending, seen, db, writes>>
    BY <1>1, <1>3, EditTyped
  <2>2. PICK ts : Queue(ts) /\ \A t \in ts : t.kind = "tagops"
    BY <1>1, <1>3, EditTyped
  <2>3. BagToSet(tasks') = BagToSet(tasks) \cup ts
    BY <1>1, <2>2, BagQueues DEF Queue, TypeOK
  <2>4. witch'.rederive = witch.rederive /\ witch'.mutated = witch.mutated
    BY <1>1, <2>1 DEF TypeOK
  <2>5. Owed'
    BY <1>1, <2>1, <2>2, <2>3, <2>4, OwedKept
  <2>6. Becomes(disk') /\ (OneName => OneName')
    BY <1>1, <2>1, StaysAsItIs
  <2> QED
    BY <1>1, <1>3, <2>1, <2>5, <2>6, WatchedKept, RestingKept
<1>4. ASSUME Settle PROVE Resting' /\ Watched' /\ Owed'
  <2>1. Owed'
    <3>1. CASE seen' = seen /\ UNCHANGED <<tasks, witch>>
      <4>1. UNCHANGED <<db, writes>>
        BY <1>1, <1>4, SettleTyped
      <4> QED
        BY <1>1, <3>1, <4>1, OwedStays
    <3>2. CASE witch' = [witch EXCEPT !.work = "working", !.rederive = TRUE]
      <4>1. witch'.rederive
        BY <1>1, <3>2 DEF TypeOK
      <4> QED
        BY <4>1 DEF Owed
    <3> QED
      BY <1>1, <1>4, <3>1, <3>2, SettleTyped
  <2> QED
    BY <1>1, <1>4, <2>1, WatchedSettles, RestingKept
<1>5. ASSUME DbApply PROVE Resting' /\ Watched' /\ Owed'
  <2>1. UNCHANGED <<disk, pending, seen, excused>>
    BY <1>5 DEF DbApply
  <2>2. Becomes(disk') /\ (OneName => OneName')
    BY <1>1, <2>1, StaysAsItIs
  <2> QED
    BY <1>1, <1>5, <2>1, <2>2, WatchedKept, OwedApplies, RestingKept
<1>6. ASSUME Work PROVE Resting' /\ Watched' /\ Owed'
  <2>1. PICK t, ts, ws : Works(t, ts, ws)
    BY <1>1, <1>6, TasksWork
  <2>2. /\ Becomes(disk') /\ seen' = seen /\ excused \subseteq excused'
        /\ "doubled" \notin excused' /\ OneName => OneName'
    BY <2>1 DEF Works, Ends
  <2> QED
    BY <1>1, <2>1, <2>2, WatchedKept, OwedWorks, RestingWorks
<1>7. ASSUME NextStage \/ Deploy PROVE Resting' /\ Watched' /\ Owed'
  <2>1. UNCHANGED <<disk, pending, seen, db, writes, excused>>
    BY <1>1, <1>7, NextStageTyped, DeployTyped
  <2>2. witch'.rederive = witch.rederive /\ witch'.mutated = witch.mutated
    BY <1>1, <1>7, NextStageTyped, DeployTyped DEF TypeOK
  <2>3. PICK ts : Queue(ts) /\ \A t \in ts : t.kind \in {"stash", "move", "link", "status"}
    BY <1>1, <1>7, NextStageTyped, DeployTyped
  <2>4. BagToSet(tasks') = BagToSet(tasks) \cup ts
    BY <1>1, <2>3, BagQueues DEF Queue, TypeOK
  <2>5. Owed'
    BY <1>1, <2>1, <2>2, <2>3, <2>4, OwedKept
  <2>6. Becomes(disk') /\ (OneName => OneName')
    BY <1>1, <2>1, StaysAsItIs
  <2> QED
    BY <1>1, <1>7, <2>1, <2>5, <2>6, WatchedKept, RestingKept DEF Machine
<1>8. ASSUME Completed PROVE Resting' /\ Watched' /\ Owed'
  <2>1. UNCHANGED <<disk, pending, seen, db, writes, excused>>
    BY <1>1, <1>8, CompletedTyped
  <2>2. Owed'
    <3>1. CASE witch'.rederive
      BY <3>1 DEF Owed
    <3>2. CASE UNCHANGED tasks /\ witch'.mutated = witch.mutated /\ witch'.rederive = witch.rederive
      BY <1>1, <2>1, <3>2, OwedStays
    <3>3. CASE /\ witch'.mutated = witch.mutated /\ witch'.rederive = witch.rederive
               /\ \E ts : Queue(ts) /\ \A t \in ts : t.kind \in {"conflicts", "overlaps", "health"}
      <4>1. PICK ts : Queue(ts) /\ \A t \in ts : t.kind \in {"conflicts", "overlaps", "health"}
        BY <3>3
      <4>2. BagToSet(tasks') = BagToSet(tasks) \cup ts
        BY <1>1, <4>1, BagQueues DEF Queue, TypeOK
      <4> QED
        BY <1>1, <2>1, <3>3, <4>1, <4>2, OwedKept
    <3> QED
      BY <1>1, <1>8, <3>1, <3>2, <3>3, CompletedTyped
  <2>3. Becomes(disk') /\ (OneName => OneName')
    BY <1>1, <2>1, StaysAsItIs
  <2> QED
    BY <1>1, <1>8, <2>1, <2>2, <2>3, WatchedKept, RestingKept DEF Machine
<1>9. ASSUME Lingered PROVE Resting' /\ Watched' /\ Owed'
  <2>1. /\ UNCHANGED <<disk, pending, seen, db, writes, tasks>> /\ excused \subseteq excused'
        /\ witch'.mutated = witch.mutated /\ witch'.rederive = witch.rederive
    BY <1>1, <1>9, LingeredTyped
  <2>2. Becomes(disk') /\ (OneName => OneName')
    BY <1>1, <2>1, StaysAsItIs
  <2>3. Owed'
    BY <1>1, <2>1, OwedStays
  <2> QED
    BY <1>1, <1>9, <2>1, <2>2, <2>3, WatchedKept, RestingKept DEF Machine
<1>10. ASSUME Derive PROVE Resting' /\ Watched' /\ Owed'
  <2>1. UNCHANGED <<disk, pending, seen, excused>>
    BY <1>1, <1>10, DeriveTyped
  <2>2. Becomes(disk') /\ (OneName => OneName')
    BY <1>1, <2>1, StaysAsItIs
  <2> QED
    BY <1>1, <1>10, <2>1, <2>2, WatchedKept, OwedDerives, RestingKept DEF Machine
<1>11. ASSUME UNCHANGED vars PROVE Resting' /\ Watched' /\ Owed'
  <2>1. UNCHANGED <<disk, pending, seen, db, writes, tasks, later, deferred, witch, excused>>
    BY <1>11 DEF vars, stages
  <2>2. Becomes(disk') /\ (OneName => OneName')
    BY <1>1, <2>1, StaysAsItIs
  <2>3. Owed'
    BY <1>1, <2>1, OwedStays
  <2>4. Resting'
    BY <1>1, <2>1 DEF Resting, Drained
  <2> QED
    BY <1>1, <2>1, <2>2, <2>3, <2>4, WatchedKept
<1> QED
  BY <1>1, <1>2, <1>3, <1>4, <1>5, <1>6, <1>7, <1>8, <1>9, <1>10, <1>11 DEF Next, Machine, IInv

\* The rows are right when the model starts.
LEMMA InitKeeps == Init => IInv
<1> SUFFICES ASSUME Init PROVE IInv
  OBVIOUS
<1>1. TypeOK
  BY InitTyped
<1>2. Resting
  BY DEF Init, Resting, Drained
<1>3. PICK want \in Wants :
    /\ disk = [p \in Path |-> IF Winners(want, p) = {} THEN None ELSE CHOOSE f \in Winners(want, p) : TRUE]
    /\ seen = [i \in Inode |-> IF i \in File /\ Winner(want, i) THEN want[i] ELSE None]
    /\ db = [rows |-> {<<want[f], f>> : f \in {g \in File : Winner(want, g)}},
             want |-> want, losers |-> {f \in File : ~Winner(want, f)},
             leftover |-> {}, stale |-> [p \in Path |-> None], dirty |-> {},
             ready |-> [f \in File |-> None], deployed |-> [f \in File |-> Winner(want, f)]]
  BY DEF Init
<1>4. Watched
  BY <1>3, FirstNames DEF Watched
<1>5. tasks = EmptyBag /\ writes = <<>>
  BY DEF Init
<1>6. BagToSet(tasks) = {} /\ DOMAIN writes = {}
  <2>1. DOMAIN <<>> = {}
    OBVIOUS
  <2> QED
    BY <1>5, <2>1, BagEmpty
<1>7. Known(seen) \subseteq db.rows
  BY <1>3 DEF Known
<1>8. \A w \in db.rows : w[1] \in Range(seen)
  <2>1. \A f \in File : Winner(want, f) => f \in DOMAIN seen /\ seen[f] = want[f]
    BY <1>3 DEF Inode
  <2> QED
    BY <1>3, <2>1 DEF Range
<1>9. Coming
  BY <1>7, <1>8 DEF Coming
<1>10. Owed
  BY <1>6, <1>9 DEF Owed, Is
<1> QED
  BY <1>1, <1>2, <1>4, <1>10 DEF IInv

\* In a quiet library nothing is left that would make the rows right.
LEMMA QuietIsRight ==
  ASSUME IInv
  PROVE  RowsMatchDisk
<1> SUFFICES ASSUME Quiet, "doubled" \notin excused, NEW p \in Path
             PROVE  /\ disk[p] # None => <<p, disk[p]>> \in db.rows
                    /\ disk[p] = None => Occupied(p) = {}
  BY DEF RowsMatchDisk
<1>1. /\ tasks = EmptyBag /\ writes = <<>> /\ pending = {}
      /\ ~witch.rederive /\ witch.work = "idle"
  BY DEF Quiet, Drained
<1>2. ~witch.mutated
  BY <1>1 DEF IInv, Resting
<1>3. Is("reconcile") = {} /\ DOMAIN writes = {}
  <2>1. DOMAIN <<>> = {}
    OBVIOUS
  <2> QED
    BY <1>1, <2>1, BagEmpty DEF Is
<1>4. Coming
  BY <1>1, <1>2, <1>3 DEF IInv, Owed
<1>5. Known(seen) \subseteq db.rows /\ \A w \in db.rows : w[1] \in Range(seen)
  BY <1>3, <1>4 DEF Coming
<1>6. \A i \in Inode : disk[p] = i <=> seen[i] = p
  BY <1>1 DEF IInv, Watched
<1>7. /\ disk[p] \in Inode \cup {None} /\ p # None /\ None \notin Inode
      /\ seen \in [Inode -> Path \cup {None}]
  BY NoneIsNoPath DEF IInv, TypeOK
<1>8. ASSUME disk[p] # None PROVE <<p, disk[p]>> \in db.rows
  <2>1. disk[p] \in Inode /\ seen[disk[p]] = p
    BY <1>6, <1>7, <1>8
  <2>2. <<p, disk[p]>> \in Known(seen)
    BY <1>7, <2>1 DEF Known
  <2> QED
    BY <1>5, <2>2
<1>9. ASSUME disk[p] = None, NEW i \in Occupied(p) PROVE FALSE
  <2>1. p \in Range(seen)
    BY <1>5 DEF Occupied, At
  <2>2. PICK j \in Inode : seen[j] = p
    BY <1>7, <2>1 DEF Range
  <2> QED
    BY <1>6, <1>7, <1>9, <2>2
<1> QED
  BY <1>8, <1>9

\* The rows of a quiet library are right, however many events, mutations, reconciliations
\* and derivations wrote them, in whatever order the pool ran them and the DB thread
\* applied what they sent, unless a link gave an inode a second name.
THEOREM RowsAreRight == Spec => []RowsMatchDisk
<1>1. Init => IInv
  BY InitKeeps
<1>2. IInv /\ [Next]_vars => IInv'
  BY StepKeeps
<1>3. IInv => RowsMatchDisk
  BY QuietIsRight
<1> QED
  BY <1>1, <1>2, <1>3, PTL DEF Spec


-----------------------------------------------------------------------------
(* The round: where the library is on its way from an edit to being        *)
(* current, as long as nothing that excuses it has happened.  The tags are *)
(* applied (Tagging), files are mutated (Mutating), what that leaves is    *)
(* analysed (Analysing), the answer of the analysis waits (Planning) and   *)
(* its tasks begin (Starting), which leads to mutations again; or there is *)
(* nothing left to do (Settled).  Each names the tasks and the writes that *)
(* may then be left, and what the library owes.                            *)

\* A file that has the claim to its path is to be linked when it has no name at all.
Somewhere(f) == \E p \in Path : disk[p] = f
Lost(i) == i \notin File \/ ~Winner(db.want, i)
Wanting == {f \in File : Winner(db.want, f) /\ ~Somewhere(f)}
ReadyCovered == \A f \in Wanting : db.ready[f] # None
Noticed == db.dirty # {} \/ ReadyCovered

\* What the analysis finds where the rows and the conflicts are right.
TrueLeft == {p \in Path : disk[p] # None /\ Lost(disk[p])}
TrueStale ==
  [p \in Path |->
     IF /\ disk[p] # None /\ ~Lost(disk[p])
        /\ db.want[disk[p]] # p /\ disk[db.want[disk[p]]] = None
     THEN db.want[disk[p]] ELSE None]

\* The tasks, and what they have sent and the DB thread has not applied.
Pool == BagToSet(tasks)
Sent == {writes[k] : k \in DOMAIN writes}

RowKinds == {"upsert", "delete", "reconcile"}
Has(kind) == \E t \in Pool : t.kind = kind
Kinds(K) == \A t \in Pool : t.kind \in K

RowBatch(ws) == \A j \in DOMAIN ws : ws[j].column \in {"rows", "no rows"}
TagBatch(ws) ==
  /\ Len(ws) = 4
  /\ ws[1].column = "want" /\ ws[2].column = "ready"
  /\ ws[3].column = "deployed" /\ ws[4].column = "mark"
LosersBatch(ws) == Len(ws) = 1 /\ ws[1].column = "losers"
HealthBatch(ws) ==
  Len(ws) = 2 /\ ws[1] = Write("leftover", TrueLeft) /\ ws[2] = Write("stale", TrueStale)
StatusBatch(ws) ==
  /\ Len(ws) = 3
  /\ ws[1].column = "ready" /\ ws[2].column = "deployed" /\ ws[3].column = "dirty"
  /\ \A f \in Wanting : (IF f \in DOMAIN ws[1].value THEN ws[1].value[f] ELSE db.ready[f]) # None
MutationBatch(ws) ==
  \A j \in DOMAIN ws :
    /\ ws[j].column \in {"rows", "no rows", "drop", "no leftover", "no stale", "ready", "deployed"}
    /\ ws[j].column = "drop" => Lost(ws[j].value)
    /\ ws[j].column = "ready" => \A f \in DOMAIN ws[j].value : f \in File => Somewhere(f)

\* A mutation that will succeed if the directory stays as it is.
Able(t) ==
  /\ t.kind = "stash" => disk[t.path] # None
  /\ t.kind \in {"move", "rename"} => disk[t.path] # None /\ disk[t.to] \in {None, disk[t.path]}
  /\ t.kind = "link" => disk[t.path] \in {None, t.file}
StashesLost(T) == \A t \in T : t.kind = "stash" => disk[t.path] = None \/ Lost(disk[t.path])
CleanupAlone ==
  Has("stash") =>
    /\ \A t \in Pool : t.kind \notin {"move", "rename", "link", "deployed"}
    /\ \A ws \in Sent : \A j \in DOMAIN ws : ws[j].column # "ready"

AsWanted ==
  /\ \A p \in Path : disk[p] # None =>
       Masked(disk[p]) \/ (db.want[disk[p]] = p /\ Winner(db.want, disk[p]))
  /\ \A f \in File : Winner(db.want, f) => disk[db.want[f]] # None

Unscoped == ~witch.mutated /\ ~witch.pendingScope

Tagging ==
  /\ Kinds(RowKinds \cup {"tagops"})
  /\ \A ws \in Sent : RowBatch(ws) \/ TagBatch(ws)
  /\ db.dirty # {} \/ Has("tagops") \/ \E ws \in Sent : TagBatch(ws)
  /\ witch.mutated \/ Has("tagops")
  /\ later = {} /\ plan = {} /\ ~deferred /\ ~witch.deploy /\ ~witch.pendingScope
  /\ witch.work = "working"

\* Mutations are carried out.
Carrying ==
  /\ Kinds(RowKinds \cup {"look", "stash", "move", "rename", "link", "deployed"})
  /\ \A ws \in Sent : MutationBatch(ws)
  /\ \A t \in Pool : t.kind = "deployed" => Somewhere(t.file)
  /\ StashesLost(Pool) /\ CleanupAlone
  /\ plan = {} /\ ~deferred /\ ~witch.deploy
  /\ Noticed

Mutating ==
  /\ Carrying
  /\ witch.mutated \/ witch.pendingScope
  /\ witch.work # "working" => witch.rederive

Analysing ==
  /\ Kinds(RowKinds \cup {"conflicts", "overlaps", "health", "status"})
  /\ \A ws \in Sent : RowBatch(ws) \/ LosersBatch(ws) \/ HealthBatch(ws) \/ StatusBatch(ws)
  /\ \/ Has("health") \/ \E ws \in Sent : HealthBatch(ws)
     \/ db.leftover = TrueLeft /\ db.stale = TrueStale
  /\ \/ Has("overlaps") \/ deferred \/ Has("status")
     \/ \E ws \in Sent : StatusBatch(ws)
     \/ ReadyCovered
  /\ later = {} /\ plan = {} /\ witch.deploy /\ Unscoped
  /\ witch.work # "idle"
  /\ Noticed

Planning ==
  /\ Kinds(RowKinds) /\ \A ws \in Sent : RowBatch(ws)
  /\ plan # {} /\ StashesLost(plan) /\ \A t \in plan : Able(t)
  /\ later = {} /\ ~deferred /\ ~witch.deploy /\ Unscoped
  /\ Noticed

Starting ==
  /\ Carrying
  /\ Kinds(RowKinds \cup {"stash", "move", "rename", "link"})
  /\ \A ws \in Sent : RowBatch(ws)
  /\ Has("stash") \/ Has("move") \/ Has("rename") \/ Has("link")
  /\ \A t \in Pool : Able(t)
  /\ Unscoped

Settled ==
  /\ Kinds(RowKinds) /\ \A ws \in Sent : RowBatch(ws)
  /\ later = {} /\ plan = {} /\ ~deferred /\ ~witch.deploy /\ Unscoped
  /\ AsWanted
  /\ Noticed

Round == Tagging \/ Mutating \/ Analysing \/ Planning \/ Starting \/ Settled

-----------------------------------------------------------------------------
(* Lemmas: what writes and batches change.                                 *)

\* Of the state d, x leaves what the column of w does not name.
Signals(d, w, x) ==
  /\ w.column # "want" => x.want = d.want
  /\ w.column \notin {"mark", "dirty"} => x.dirty = d.dirty
  /\ w.column = "mark" => x.dirty = d.dirty \cup {w.value}
  /\ w.column \notin {"leftover", "no leftover"} => x.leftover = d.leftover
  /\ w.column = "leftover" => x.leftover = w.value
  /\ w.column \notin {"stale", "no stale"} => x.stale = d.stale
  /\ w.column = "stale" => x.stale = w.value
  /\ w.column \notin {"ready", "drop"} => x.ready = d.ready
  /\ w.column = "ready" => x.ready = Update(d.ready, w.value)
  /\ w.column = "drop" => \A f \in File : f # w.value => x.ready[f] = d.ready[f]

\* A write changes the signals only as its column says.
LEMMA SignalsAfter ==
  ASSUME NEW d \in Db, NEW w \in Writes
  PROVE  Applied(d, w) \in Db /\ Signals(d, w, Applied(d, w))
<1>0. Applied(d, w) \in Db
  BY AppliedTyped
<1> SUFFICES Signals(d, w, Applied(d, w))
  BY <1>0
<1> USE DEF Signals
<1>1. CASE w.column \in {"rows", "no rows", "drop"}
  BY <1>1 DEF Applied, Db, Dropped
<1>2. CASE w.column \in {"want", "ready", "deployed"}
  BY <1>2 DEF Applied, Db
<1>3. CASE w.column \in {"no leftover", "no stale", "mark"}
  BY <1>3 DEF Applied, Db
<1>4. CASE w.column \in {"losers", "leftover", "stale", "dirty"}
  BY <1>4 DEF Applied, Db
<1> QED
  BY <1>1, <1>2, <1>3, <1>4 DEF Writes

\* A short batch is one write after the other.
LEMMA ShortBatch ==
  ASSUME NEW d, NEW ws \in Seq(Writes)
  PROVE  /\ Len(ws) = 1 => AllApplied(d, ws) = Applied(d, ws[1])
         /\ Len(ws) = 2 => AllApplied(d, ws) = Applied(Applied(d, ws[1]), ws[2])
         /\ Len(ws) = 3 => AllApplied(d, ws) = Applied(Applied(Applied(d, ws[1]), ws[2]), ws[3])
         /\ Len(ws) = 4 =>
              AllApplied(d, ws) = Applied(Applied(Applied(Applied(d, ws[1]), ws[2]), ws[3]), ws[4])
<1> PICK after : Follows(after, d, ws)
  BY BatchRecursion
<1>1. /\ AllApplied(d, ws) = after[Len(ws)] /\ after[0] = d
      /\ \A k \in 1..Len(ws) : after[k] = Applied(after[k - 1], ws[k])
  BY DEF Follows
<1>2. 1 \in 1..Len(ws) => after[1] = Applied(d, ws[1])
  BY <1>1
<1>3. 2 \in 1..Len(ws) => after[2] = Applied(after[1], ws[2])
  BY <1>1
<1>4. 3 \in 1..Len(ws) => after[3] = Applied(after[2], ws[3])
  BY <1>1
<1>5. 4 \in 1..Len(ws) => after[4] = Applied(after[3], ws[4])
  BY <1>1
<1> QED
  BY <1>1, <1>2, <1>3, <1>4, <1>5

MutationColumns == {"rows", "no rows", "drop", "no leftover", "no stale", "ready", "deployed"}

\* What mutations and their follow-ups send leaves the wants and the marks as they are,
\* and what is ready of files that they are not about.
LEMMA MutationsKeep ==
  ASSUME NEW d \in Db, NEW ws \in Seq(Writes), NEW X \in SUBSET File,
         \A j \in DOMAIN ws :
           /\ ws[j].column \in MutationColumns
           /\ ws[j].column = "drop" => ws[j].value \notin X
           /\ ws[j].column = "ready" => \A f \in DOMAIN ws[j].value : f \notin X
  PROVE  /\ AllApplied(d, ws).want = d.want /\ AllApplied(d, ws).dirty = d.dirty
         /\ \A f \in X : AllApplied(d, ws).ready[f] = d.ready[f]
<1> DEFINE n == Len(ws)
           Kept(e) == /\ e \in Db /\ e.want = d.want /\ e.dirty = d.dirty
                      /\ \A f \in X : e.ready[f] = d.ready[f]
<1> PICK after : Follows(after, d, ws)
  BY BatchRecursion
<1>1. /\ AllApplied(d, ws) = after[Len(ws)] /\ after[0] = d
      /\ \A k \in 1..Len(ws) : after[k] = Applied(after[k - 1], ws[k])
  BY DEF Follows
<1>2. n \in Nat /\ DOMAIN ws = 1..n /\ \A k \in 1..n : ws[k] \in Writes
  OBVIOUS
<1>3. AllApplied(d, ws) = after[n] /\ \A k \in 1..n : after[k] = Applied(after[k - 1], ws[k])
  BY <1>1
<1> DEFINE S == {k \in 0..n : Kept(after[k])}
<1> HIDE DEF n
<1>4. 0 \in S
  BY <1>1, <1>2
<1>5. ASSUME NEW k \in 1..n, k - 1 \in S PROVE k \in S
  <2> DEFINE e == after[k - 1]
             w == ws[k]
  <2>1. /\ k \in 0..n /\ after[k] = Applied(e, w) /\ w \in Writes /\ w.column \in MutationColumns
        /\ w.column = "drop" => w.value \notin X
        /\ w.column = "ready" => \A f \in DOMAIN w.value : f \notin X
    BY <1>2, <1>3
  <2>2. Kept(e)
    BY <1>5
  <2>3. e \in Db
    BY <2>2
  <2> HIDE DEF e, w
  <2>4. after[k] \in Db /\ Signals(e, w, after[k])
    BY <2>1, <2>3, SignalsAfter
  <2>5. after[k].want = e.want /\ after[k].dirty = e.dirty
    BY <2>1, <2>4 DEF MutationColumns, Signals
  <2>6. \A f \in X : after[k].ready[f] = e.ready[f]
    <3>1. CASE w.column = "ready"
      <4>1. after[k].ready = Update(e.ready, w.value) /\ DOMAIN e.ready = File
        BY <2>3, <2>4, <3>1 DEF Db, Signals
      <4> QED
        BY <2>1, <3>1, <4>1 DEF Update
    <3>2. CASE w.column = "drop"
      <4>1. \A f \in File : f # w.value => after[k].ready[f] = e.ready[f]
        BY <2>4, <3>2 DEF Signals
      <4> QED
        BY <2>1, <3>2, <4>1
    <3>3. CASE w.column \notin {"ready", "drop"}
      BY <2>4, <3>3 DEF Signals
    <3> QED
      BY <3>1, <3>2, <3>3
  <2> QED
    BY <2>1, <2>2, <2>4, <2>5, <2>6
<1> HIDE DEF S
<1>6. 0..n \subseteq S
  BY <1>2, <1>4, <1>5, SetInduction
<1>7. n \in S
  BY <1>2, <1>6
<1> QED
  BY <1>3, <1>7 DEF S

\* What is only about rows changes no signal.
LEMMA RowsKeep ==
  ASSUME NEW d \in Db, NEW ws \in Seq(Writes), RowBatch(ws)
  PROVE  /\ AllApplied(d, ws).want = d.want /\ AllApplied(d, ws).dirty = d.dirty
         /\ AllApplied(d, ws).ready = d.ready /\ AllApplied(d, ws).leftover = d.leftover
         /\ AllApplied(d, ws).stale = d.stale
<1> DEFINE n == Len(ws)
           Kept(e) == /\ e \in Db /\ e.want = d.want /\ e.dirty = d.dirty /\ e.ready = d.ready
                      /\ e.leftover = d.leftover /\ e.stale = d.stale
<1> PICK after : Follows(after, d, ws)
  BY BatchRecursion
<1>1. /\ AllApplied(d, ws) = after[Len(ws)] /\ after[0] = d
      /\ \A k \in 1..Len(ws) : after[k] = Applied(after[k - 1], ws[k])
  BY DEF Follows
<1>2. n \in Nat /\ DOMAIN ws = 1..n /\ \A k \in 1..n : ws[k] \in Writes
  OBVIOUS
<1>3. AllApplied(d, ws) = after[n] /\ \A k \in 1..n : after[k] = Applied(after[k - 1], ws[k])
  BY <1>1
<1> DEFINE S == {k \in 0..n : Kept(after[k])}
<1> HIDE DEF n
<1>4. 0 \in S
  BY <1>1, <1>2
<1>5. ASSUME NEW k \in 1..n, k - 1 \in S PROVE k \in S
  <2> DEFINE e == after[k - 1]
             w == ws[k]
  <2>1. k \in 0..n /\ after[k] = Applied(e, w) /\ w \in Writes
        /\ w.column \in {"rows", "no rows"}
    <3>1. k \in DOMAIN ws
      BY <1>2
    <3>2. w.column \in {"rows", "no rows"}
      BY <3>1 DEF RowBatch
    <3>3. k \in 0..n
      BY <1>2
    <3>4. after[k] = Applied(e, w)
      BY <1>3
    <3>5. w \in Writes
      BY <1>2
    <3> QED
      BY <3>2, <3>3, <3>4, <3>5
  <2>2. Kept(e)
    BY <1>5
  <2>3. e \in Db
    BY <2>2
  <2> HIDE DEF e, w
  <2>4. after[k] \in Db /\ Signals(e, w, after[k])
    BY <2>1, <2>3, SignalsAfter
  <2>5. /\ after[k].want = e.want /\ after[k].dirty = e.dirty /\ after[k].ready = e.ready
        /\ after[k].leftover = e.leftover /\ after[k].stale = e.stale
    BY <2>1, <2>4 DEF Signals
  <2> QED
    BY <2>1, <2>2, <2>4, <2>5
<1> HIDE DEF S
<1>6. 0..n \subseteq S
  BY <1>2, <1>4, <1>5, SetInduction
<1>7. n \in S
  BY <1>2, <1>6
<1> QED
  BY <1>3, <1>7 DEF S

-----------------------------------------------------------------------------
(* Lemmas: what a step leaves of the tasks and of what they have sent.     *)

\* What is excused stays excused.
LEMMA ExcusedStays ==
  ASSUME TypeOK, [Next]_vars
  PROVE  excused \subseteq excused'
<1>1. CASE Work
  BY <1>1, TasksWork DEF Works
<1>2. CASE Outside
  BY <1>2 DEF Outside
<1>3. CASE Edit \/ Lingered
  BY <1>3, EditTyped, LingeredTyped
<1>4. CASE Settle \/ DbApply
  BY <1>4 DEF Settle, DbApply
<1>5. CASE NextStage \/ Completed \/ Deploy \/ Derive
  BY <1>5 DEF NextStage, Completed, Deploy, Derive
<1>6. CASE UNCHANGED vars
  BY <1>6 DEF vars
<1> QED
  BY <1>1, <1>2, <1>3, <1>4, <1>5, <1>6 DEF Next, Machine

\* The first of what is sent is a batch; the rest waits on.
LEMMA SentApplied ==
  ASSUME TypeOK, DbApply
  PROVE  /\ Head(writes) \in Seq(Writes) /\ Head(writes) \in Sent
         /\ db' = AllApplied(db, Head(writes))
         /\ Sent' \subseteq Sent /\ Sent \subseteq Sent' \cup {Head(writes)}
<1>1. writes # <<>> /\ db' = AllApplied(db, Head(writes)) /\ writes' = Tail(writes)
  BY DEF DbApply
<1>2. writes \in Seq(Seq(Writes))
  BY DEF TypeOK
<1> DEFINE ws == Head(writes)
<1>3. /\ 1 \in DOMAIN writes /\ writes[1] = ws
      /\ DOMAIN Tail(writes) = 1..(Len(writes) - 1) /\ DOMAIN writes = 1..Len(writes)
      /\ \A k \in 1..(Len(writes) - 1) : Tail(writes)[k] = writes[k + 1]
      /\ Len(writes) \in Nat
  BY <1>1, <1>2
<1>4. /\ \A k \in 1..(Len(writes) - 1) : k + 1 \in 1..Len(writes)
      /\ \A k \in 1..Len(writes) : k = 1 \/ (k - 1 \in 1..(Len(writes) - 1) /\ (k - 1) + 1 = k)
  BY <1>3
<1>5. \A k \in DOMAIN writes' : \E j \in DOMAIN writes : writes'[k] = writes[j]
  BY <1>1, <1>3, <1>4
<1>6. \A j \in DOMAIN writes : writes[j] = ws \/ \E k \in DOMAIN writes' : writes'[k] = writes[j]
  BY <1>1, <1>3, <1>4
<1>7. ws \in Seq(Writes) /\ ws \in Sent
  BY <1>2, <1>3 DEF Sent
<1> HIDE DEF ws
<1>8. Sent' \subseteq Sent /\ Sent \subseteq Sent' \cup {ws}
  BY <1>5, <1>6 DEF Sent
<1> QED
  BY <1>1, <1>7, <1>8 DEF ws

\* What a task has sent when it ends waits with the rest.
LEMMA SentEnds ==
  ASSUME TypeOK, NEW t \in Pool, NEW ts \in SUBSET Task, NEW ws \in Seq(Writes), Ends(t, ts, ws)
  PROVE  /\ \A u \in Pool' : u \in Pool \/ u \in ts
         /\ \A u \in Pool : u \in Pool' \/ u = t
         /\ \A u \in ts : u \in Pool'
         /\ Sent \subseteq Sent' /\ \A b \in Sent' : b \in Sent \/ (b = ws /\ ws # <<>>)
         /\ ws # <<>> => ws \in Sent'
         /\ UNCHANGED <<seen, db, later, plan, events>>
<1>1. t \in BagToSet(tasks) /\ IsABag(tasks)
  BY DEF Pool, TypeOK
<1>2. /\ Pool' \subseteq Pool \cup ts /\ Pool \subseteq Pool' \cup {t}
      /\ ws = <<>> => writes' = writes
      /\ ws # <<>> => writes' = Append(writes, ws)
  BY <1>1, EndsTyped DEF Pool
<1>3. ts \subseteq Pool'
  <2> DEFINE rest == tasks (-) SetToBag({t})
  <2>1. IsABag(rest) /\ tasks' = rest (+) SetToBag(ts)
    BY <1>1, BagTakes DEF Ends
  <2> HIDE DEF rest
  <2> QED
    BY <2>1, BagQueues DEF Pool
<1>4. Sent \subseteq Sent' /\ (\A b \in Sent' : b \in Sent \/ (b = ws /\ ws # <<>>)) /\ (ws # <<>> => ws \in Sent')
  <2>1. CASE ws = <<>>
    BY <1>2, <2>1 DEF Sent
  <2>2. CASE ws # <<>>
    <3>1. writes \in Seq(Seq(Writes)) /\ writes' = Append(writes, ws)
      BY <1>2, <2>2 DEF TypeOK
    <3>2. /\ DOMAIN Append(writes, ws) = 1..(Len(writes) + 1) /\ DOMAIN writes = 1..Len(writes)
          /\ \A k \in 1..Len(writes) : Append(writes, ws)[k] = writes[k]
          /\ Append(writes, ws)[Len(writes) + 1] = ws
          /\ Len(writes) \in Nat
      BY <3>1
    <3>3. \A k \in 1..(Len(writes) + 1) : k \in 1..Len(writes) \/ k = Len(writes) + 1
      BY <3>2
    <3>4. /\ \A k \in 1..Len(writes) : k \in 1..(Len(writes) + 1)
          /\ Len(writes) + 1 \in 1..(Len(writes) + 1)
      BY <3>2
    <3>5. /\ \A k \in DOMAIN writes' : (k \in DOMAIN writes /\ writes'[k] = writes[k]) \/ writes'[k] = ws
          /\ \A k \in DOMAIN writes : k \in DOMAIN writes' /\ writes'[k] = writes[k]
          /\ \E k \in DOMAIN writes' : writes'[k] = ws
      BY <3>1, <3>2, <3>3, <3>4
    <3> QED
      BY <2>2, <3>5 DEF Sent
  <2> QED
    BY <2>1, <2>2
<1> QED
  BY <1>2, <1>3, <1>4 DEF Ends

\* What is queued joins the tasks.
LEMMA PoolQueues ==
  ASSUME TypeOK, NEW ts \in SUBSET Task, Queue(ts)
  PROVE  Pool' = Pool \cup ts
BY QueueTyped DEF Pool

\* Where nothing runs or waits there are no tasks and no batches.
LEMMA NothingLeft ==
  ASSUME Drained
  PROVE  Pool = {} /\ Sent = {}
<1>1. DOMAIN <<>> = {}
  OBVIOUS
<1> QED
  BY <1>1, BagEmpty DEF Drained, Pool, Sent

\* What the directory and the wants say, as long as neither changes.
LEMMA ViewsKept ==
  ASSUME disk' = disk, db'.want = db.want
  PROVE  /\ Wanting' = Wanting /\ TrueLeft' = TrueLeft /\ TrueStale' = TrueStale
         /\ \A i : Lost(i)' <=> Lost(i)
         /\ \A f : Somewhere(f)' <=> Somewhere(f)
         /\ AsWanted' <=> AsWanted
<1>1. \A i : Lost(i)' <=> Lost(i)
  BY DEF Lost
<1>2. \A f : Somewhere(f)' <=> Somewhere(f)
  BY DEF Somewhere
<1>3. Wanting' = Wanting
  BY <1>2 DEF Wanting
<1>4. TrueLeft' = TrueLeft
  BY <1>1 DEF TrueLeft
<1>5. TrueStale' = TrueStale
  BY <1>1 DEF TrueStale
<1>6. AsWanted' <=> AsWanted
  BY DEF AsWanted, Masked
<1> QED
  BY <1>1, <1>2, <1>3, <1>4, <1>5, <1>6

\* A batch is of one kind.
LEMMA BatchKinds ==
  ASSUME NEW ws \in Seq(Writes)
  PROVE  /\ TagBatch(ws) => ~RowBatch(ws) /\ ~LosersBatch(ws)
         /\ HealthBatch(ws) => ~RowBatch(ws) /\ ~LosersBatch(ws)
         /\ StatusBatch(ws) => ~RowBatch(ws) /\ ~LosersBatch(ws)
<1>1. DOMAIN ws = 1..Len(ws) /\ Len(ws) \in Nat
  OBVIOUS
<1>2. Len(ws) \in {2, 3, 4} => 1 \in DOMAIN ws
  BY <1>1
<1>3. ASSUME Len(ws) \in {2, 3, 4}, ws[1].column \notin {"rows", "no rows"}
      PROVE  ~RowBatch(ws) /\ ~LosersBatch(ws)
  <2>1. ASSUME RowBatch(ws) PROVE FALSE
    BY <1>2, <1>3, <2>1 DEF RowBatch
  <2>2. ASSUME LosersBatch(ws) PROVE FALSE
    BY <1>3, <2>2 DEF LosersBatch
  <2> QED
    BY <2>1, <2>2
<1>4. TagBatch(ws) => Len(ws) \in {2, 3, 4} /\ ws[1].column \notin {"rows", "no rows"}
  BY DEF TagBatch
<1>5. HealthBatch(ws) => Len(ws) \in {2, 3, 4} /\ ws[1].column \notin {"rows", "no rows"}
  BY DEF HealthBatch, Write
<1>6. StatusBatch(ws) => Len(ws) \in {2, 3, 4} /\ ws[1].column \notin {"rows", "no rows"}
  BY DEF StatusBatch
<1> QED
  BY <1>3, <1>4, <1>5, <1>6, Zenon

\* Work that is only about rows, or about who lost, beside the round.
Beside ==
  /\ disk' = disk
  /\ db'.want = db.want /\ db'.dirty = db.dirty /\ db'.ready = db.ready
  /\ db'.leftover = db.leftover /\ db'.stale = db.stale
  /\ UNCHANGED <<later, plan, deferred>>
  /\ witch'.mutated = witch.mutated /\ witch'.pendingScope = witch.pendingScope
  /\ witch'.deploy = witch.deploy
  /\ Tagging => witch'.work = "working"
  /\ Mutating => (witch'.work # "working" => witch'.rederive)
  /\ Analysing => witch'.work # "idle"
  /\ \A t \in Pool' : t \in Pool \/ t.kind \in RowKinds
  /\ \A t \in Pool : t \in Pool' \/ t.kind \in RowKinds
  /\ \A ws \in Sent' : ws \in Sent \/ RowBatch(ws)
  /\ \A ws \in Sent : ws \in Sent' \/ RowBatch(ws) \/ LosersBatch(ws)

\* It does not disturb the round.
LEMMA RoundKept ==
  ASSUME TypeOK, Round, Beside
  PROVE  Round'
<1>1. /\ Wanting' = Wanting /\ TrueLeft' = TrueLeft /\ TrueStale' = TrueStale
      /\ \A i : Lost(i)' <=> Lost(i)
      /\ \A f : Somewhere(f)' <=> Somewhere(f)
      /\ AsWanted' <=> AsWanted
  BY ViewsKept DEF Beside
<1>2. Noticed' <=> Noticed
  BY <1>1 DEF Noticed, ReadyCovered, Beside
<1>3. \A ws \in Sent : ws \in Seq(Writes)
  <2>1. writes \in Seq(Seq(Writes))
    BY DEF TypeOK
  <2> QED
    BY <2>1 DEF Sent
<1>4. \A kind : kind \notin RowKinds => (Has(kind)' <=> Has(kind))
  BY DEF Has, Beside
<1>5. ASSUME NEW K, RowKinds \subseteq K, Kinds(K) PROVE Kinds(K)'
  BY <1>5 DEF Kinds, Beside
<1>6. (\A ws \in Sent : RowBatch(ws)) => \A ws \in Sent' : RowBatch(ws)
  BY DEF Beside
<1>7. Unscoped' <=> Unscoped
  BY DEF Unscoped, Beside
<1>8. /\ (\A ws \in Sent : MutationBatch(ws)) => \A ws \in Sent' : MutationBatch(ws)'
  <2>1. \A ws : MutationBatch(ws)' <=> MutationBatch(ws)
    BY <1>1 DEF MutationBatch
  <2>2. \A ws : RowBatch(ws) => MutationBatch(ws)
    BY DEF RowBatch, MutationBatch
  <2> QED
    BY <2>1, <2>2 DEF Beside
<1>9. Carrying => Carrying'
  <2> SUFFICES ASSUME Carrying PROVE Carrying'
    OBVIOUS
  <2>1. Kinds(RowKinds \cup {"look", "stash", "move", "rename", "link", "deployed"})'
    <3>1. Kinds(RowKinds \cup {"look", "stash", "move", "rename", "link", "deployed"})
      BY DEF Carrying
    <3> QED
      BY <1>5, <3>1
  <2>2. \A t \in Pool' : t.kind = "deployed" => Somewhere(t.file)'
    BY <1>1 DEF Carrying, Beside, RowKinds
  <2>3. StashesLost(Pool)'
    BY <1>1 DEF Carrying, StashesLost, Beside, RowKinds
  <2>4. CleanupAlone'
    <3>1. Has("stash")' => Has("stash")
      BY <1>4 DEF RowKinds
    <3>2. \A t \in Pool' : t \in Pool \/ t.kind \notin {"move", "rename", "link", "deployed"}
      BY DEF Beside, RowKinds
    <3>3. \A ws \in Sent' : ws \in Sent \/ \A j \in DOMAIN ws : ws[j].column # "ready"
      BY DEF Beside, RowBatch
    <3>4. CleanupAlone
      BY DEF Carrying
    <3> QED
      BY <3>1, <3>2, <3>3, <3>4 DEF CleanupAlone
  <2> QED
    BY <1>2, <1>8, <2>1, <2>2, <2>3, <2>4 DEF Carrying, Beside
<1>10. CASE Tagging
  <2>1. Kinds(RowKinds \cup {"tagops"})'
    BY <1>5, <1>10 DEF Tagging
  <2>2. \A ws \in Sent' : RowBatch(ws) \/ TagBatch(ws)
    BY <1>10 DEF Tagging, Beside
  <2>3. (\E ws \in Sent : TagBatch(ws)) => \E ws \in Sent' : TagBatch(ws)
    BY <1>3, BatchKinds DEF Beside
  <2>4. Has("tagops")' <=> Has("tagops")
    BY <1>4 DEF RowKinds
  <2>5. Tagging'
    BY <1>10, <2>1, <2>2, <2>3, <2>4 DEF Tagging, Beside
  <2> QED
    BY <2>5 DEF Round
<1>11. CASE Mutating
  <2>1. Mutating'
    BY <1>9, <1>11 DEF Mutating, Beside
  <2> QED
    BY <2>1 DEF Round
<1>12. CASE Analysing
  <2>1. Kinds(RowKinds \cup {"conflicts", "overlaps", "health", "status"})'
    <3>1. Kinds(RowKinds \cup {"conflicts", "overlaps", "health", "status"})
      BY <1>12 DEF Analysing
    <3> QED
      BY <1>5, <3>1
  <2>2. \A ws : (HealthBatch(ws)' <=> HealthBatch(ws)) /\ (StatusBatch(ws)' <=> StatusBatch(ws))
    BY <1>1 DEF HealthBatch, StatusBatch, Beside
  <2>3. \A ws \in Sent' : RowBatch(ws) \/ LosersBatch(ws) \/ HealthBatch(ws)' \/ StatusBatch(ws)'
    BY <1>12, <2>2 DEF Analysing, Beside
  <2>4. (\E ws \in Sent : HealthBatch(ws)) => \E ws \in Sent' : HealthBatch(ws)'
    BY <1>3, <2>2, BatchKinds DEF Beside
  <2>5. (\E ws \in Sent : StatusBatch(ws)) => \E ws \in Sent' : StatusBatch(ws)'
    BY <1>3, <2>2, BatchKinds DEF Beside
  <2>6. /\ Has("health")' <=> Has("health")
        /\ Has("overlaps")' <=> Has("overlaps")
        /\ Has("status")' <=> Has("status")
    BY <1>4 DEF RowKinds
  <2>7. ReadyCovered' <=> ReadyCovered
    BY <1>1 DEF ReadyCovered, Beside
  <2>8. (db.leftover = TrueLeft /\ db.stale = TrueStale) => (db'.leftover = TrueLeft' /\ db'.stale = TrueStale')
    BY <1>1 DEF Beside
  <2>9. Analysing'
    BY <1>2, <1>7, <1>12, <2>1, <2>3, <2>4, <2>5, <2>6, <2>7, <2>8 DEF Analysing, Beside
  <2> QED
    BY <2>9 DEF Round
<1>13. CASE Planning
  <2>1. Kinds(RowKinds)'
    BY <1>5, <1>13 DEF Planning
  <2>2. StashesLost(plan)'
    BY <1>1, <1>13 DEF Planning, StashesLost, Beside
  <2>3. (\A t \in plan : Able(t))'
    BY <1>13 DEF Planning, Able, Beside
  <2>4. Planning'
    BY <1>2, <1>6, <1>7, <1>13, <2>1, <2>2, <2>3 DEF Planning, Beside
  <2> QED
    BY <2>4 DEF Round
<1>14. CASE Starting
  <2>1. Kinds(RowKinds \cup {"stash", "move", "rename", "link"})'
    <3>1. Kinds(RowKinds \cup {"stash", "move", "rename", "link"})
      BY <1>14 DEF Starting
    <3> QED
      BY <1>5, <3>1
  <2>2. /\ Has("stash")' <=> Has("stash")
        /\ Has("move")' <=> Has("move")
        /\ Has("rename")' <=> Has("rename")
        /\ Has("link")' <=> Has("link")
    BY <1>4 DEF RowKinds
  <2>3. (\A t \in Pool : Able(t))'
    BY <1>14 DEF Starting, Able, Beside, RowKinds
  <2>4. Starting'
    BY <1>6, <1>7, <1>9, <1>14, <2>1, <2>2, <2>3 DEF Starting
  <2> QED
    BY <2>4 DEF Round
<1>15. CASE Settled
  <2>1. Kinds(RowKinds)'
    BY <1>5, <1>15 DEF Settled
  <2>2. Settled'
    BY <1>1, <1>2, <1>6, <1>7, <1>15, <2>1 DEF Settled, Beside
  <2> QED
    BY <2>2 DEF Round
<1> QED
  BY <1>10, <1>11, <1>12, <1>13, <1>14, <1>15 DEF Round

-----------------------------------------------------------------------------
(* Steps beside the round.                                                 *)

\* A Witch that stays as it is suits the round.
LEMMA WitchStays ==
  /\ Tagging => witch.work = "working"
  /\ Mutating => (witch.work # "working" => witch.rederive)
  /\ Analysing => witch.work # "idle"
BY DEF Tagging, Mutating, Analysing

\* The tasks that read events, and the reconciliation.
LEMMA RowTasksBeside ==
  ASSUME TypeOK, RowRead \/ ReconcileRead
  PROVE  Beside
<1> DEFINE none == {}
<1>1. PICK t \in Pool, ws \in Seq(Writes) :
        t.kind \in RowKinds /\ Computes(t, none, ws) /\ RowBatch(ws)
  <2>1. CASE \E t \in Is("upsert") : Computes(t, {}, <<Write("rows", {<<t.path, t.inode>>})>>)
    <3>1. PICK t \in Is("upsert") : Computes(t, {}, <<Write("rows", {<<t.path, t.inode>>})>>)
      BY <2>1
    <3>2. t \in Pool /\ t.kind = "upsert" /\ t.path \in Path /\ t.inode \in Inode
      BY TaskFields DEF Is, TypeOK, Pool
    <3> DEFINE w == Write("rows", {<<t.path, t.inode>>})
    <3>3. w \in Writes /\ w.column = "rows"
      <4>1. {<<t.path, t.inode>>} \in SUBSET (Path \X Inode)
        BY <3>2
      <4> QED
        BY <4>1, WritesTyped DEF Write
    <3> HIDE DEF w
    <3>4. <<w>> \in Seq(Writes) /\ RowBatch(<<w>>)
      <4>1. (\A k \in DOMAIN <<w>> : k = 1) /\ <<w>>[1] = w
        OBVIOUS
      <4> QED
        BY <3>3, <4>1, Batches DEF RowBatch
    <3> QED
      BY <3>1, <3>2, <3>4 DEF w, RowKinds
  <2>2. CASE \E t \in Is("delete") : Computes(t, {}, <<Write("no rows", {t.path})>>)
    <3>1. PICK t \in Is("delete") : Computes(t, {}, <<Write("no rows", {t.path})>>)
      BY <2>2
    <3>2. t \in Pool /\ t.kind = "delete" /\ t.path \in Path
      BY TaskFields DEF Is, TypeOK, Pool
    <3> DEFINE w == Write("no rows", {t.path})
    <3>3. w \in Writes /\ w.column = "no rows"
      BY <3>2, WritesTyped DEF Write
    <3> HIDE DEF w
    <3>4. <<w>> \in Seq(Writes) /\ RowBatch(<<w>>)
      <4>1. (\A k \in DOMAIN <<w>> : k = 1) /\ <<w>>[1] = w
        OBVIOUS
      <4> QED
        BY <3>3, <4>1, Batches DEF RowBatch
    <3> QED
      BY <3>1, <3>2, <3>4 DEF w, RowKinds
  <2>3. CASE ReconcileRead
    <3>1. PICK t \in Is("reconcile") :
            LET missing == Known(t.seen) \ db.rows
                surplus == Surplus(t.seen) IN
            Computes(t, {}, IF missing \cup surplus = {} THEN <<>>
                            ELSE <<Write("rows", missing), Write("no rows", surplus)>>)
      BY <2>3 DEF ReconcileRead
    <3> DEFINE missing == Known(t.seen) \ db.rows
               surplus == Surplus(t.seen)
               a == Write("rows", missing)
               b == Write("no rows", surplus)
               ws == IF missing \cup surplus = {} THEN <<>> ELSE <<a, b>>
    <3>2. t \in Pool /\ t.kind = "reconcile" /\ t.seen \in [Inode -> Path \cup {None}]
      BY TaskFields DEF Is, TypeOK, Pool
    <3>3. missing \in SUBSET (Path \X Inode) /\ surplus \in SUBSET Path
      BY <3>2 DEF Known, Surplus
    <3>4. a \in Writes /\ b \in Writes /\ a.column = "rows" /\ b.column = "no rows"
      BY <3>3, WritesTyped DEF Write
    <3>5. Computes(t, {}, ws)
      BY <3>1
    <3> HIDE DEF a, b, missing, surplus
    <3>6. ws \in Seq(Writes)
      BY <3>4, Batches
    <3>7. RowBatch(ws)
      <4>1. RowBatch(<<>>)
        <5>1. DOMAIN <<>> = {}
          OBVIOUS
        <5> QED
          BY <5>1 DEF RowBatch
      <4>2. RowBatch(<<a, b>>)
        <5>1. \A k \in DOMAIN <<a, b>> : k \in {1, 2}
          OBVIOUS
        <5>2. <<a, b>>[1] = a /\ <<a, b>>[2] = b
          OBVIOUS
        <5> QED
          BY <3>4, <5>1, <5>2 DEF RowBatch
      <4> QED
        BY <4>1, <4>2
    <3> HIDE DEF ws
    <3> QED
      BY <3>2, <3>5, <3>6, <3>7 DEF RowKinds
  <2> QED
    BY <2>1, <2>2, <2>3 DEF RowRead
<1>2. none \in SUBSET Task /\ \A u : u \notin none
  OBVIOUS
<1>3. Ends(t, none, ws) /\ UNCHANGED <<disk, stash, pending, deferred, witch, excused>>
  BY <1>1 DEF Computes
<1> HIDE DEF none
<1>4. /\ \A u \in Pool' : u \in Pool
      /\ \A u \in Pool : u \in Pool' \/ u = t
      /\ Sent \subseteq Sent' /\ \A b \in Sent' : b \in Sent \/ b = ws
      /\ UNCHANGED <<db, later, plan>>
  BY <1>2, <1>3, SentEnds
<1> QED
  BY <1>1, <1>3, <1>4, WitchStays DEF Beside

\* An event that settles.
LEMMA SettleBeside ==
  ASSUME TypeOK, Settle
  PROVE  Beside
<1> DEFINE old(p) == {i \in Inode : seen[i] = p}
           new(p) == {disk[p]} \ {None}
           gone(p) == old(p) \ new(p)
           come(p) == new(p) \ old(p)
           ts(p) == {Delete(p) : i \in gone(p)} \cup {Upsert(p, i) : i \in come(p)}
<1>1. UNCHANGED <<disk, stash, db, writes, later, deferred, plan>>
  BY SettleTyped DEF stages
<1>2. PICK p \in pending : \/ UNCHANGED <<tasks, witch>>
                           \/ Queue(ts(p)) /\ witch' = [witch EXCEPT !.work = "working", !.rederive = TRUE]
  BY DEF Settle
<1>3. p \in Path /\ disk[p] \in Inode \cup {None}
  BY DEF TypeOK
<1>4. ts(p) \in SUBSET Task
  BY <1>3, TasksTyped
<1>5. \A t \in ts(p) : t.kind \in RowKinds
  BY DEF Delete, Upsert, RowKinds
<1> HIDE DEF ts
<1>6. /\ \A t \in Pool' : t \in Pool \/ t.kind \in RowKinds
      /\ \A t \in Pool : t \in Pool'
  <2>1. CASE UNCHANGED tasks
    BY <2>1 DEF Pool
  <2>2. CASE Queue(ts(p))
    BY <1>4, <1>5, <2>2, PoolQueues
  <2> QED
    BY <1>2, <2>1, <2>2
<1>7. Sent' = Sent
  BY <1>1 DEF Sent
<1>8. CASE UNCHANGED witch
  BY <1>1, <1>6, <1>7, <1>8, WitchStays DEF Beside
<1>9. CASE witch' = [witch EXCEPT !.work = "working", !.rederive = TRUE]
  <2>1. /\ witch'.work = "working" /\ witch'.rederive /\ witch'.mutated = witch.mutated
        /\ witch'.pendingScope = witch.pendingScope /\ witch'.deploy = witch.deploy
    BY <1>9 DEF TypeOK
  <2> QED
    BY <1>1, <1>6, <1>7, <2>1 DEF Beside
<1> QED
  BY <1>2, <1>8, <1>9

\* A derivation that starts.
LEMMA DeriveBeside ==
  ASSUME TypeOK, Derive
  PROVE  Beside
<1>1. /\ witch.work = "idle" /\ Queue({Reconcile(seen)})
      /\ witch' = [witch EXCEPT !.work = "working", !.rederive = FALSE]
      /\ UNCHANGED <<disk, stash, pending, seen, db, writes, later, deferred, plan, events, excused>>
  BY DeriveTyped DEF stages
<1>2. Reconcile(seen) \in Task /\ Reconcile(seen).kind \in RowKinds
  BY TasksTyped DEF TypeOK, Reconcile, RowKinds
<1>3. Pool' = Pool \cup {Reconcile(seen)}
  BY <1>1, <1>2, PoolQueues
<1>4. Sent' = Sent
  BY <1>1 DEF Sent
<1>5. /\ witch'.work = "working" /\ witch'.mutated = witch.mutated
      /\ witch'.pendingScope = witch.pendingScope /\ witch'.deploy = witch.deploy
  BY <1>1 DEF TypeOK
<1> QED
  BY <1>1, <1>2, <1>3, <1>4, <1>5 DEF Beside

\* A Witch that is done and has nothing to deploy comes to rest; and nothing happens.
LEMMA RestBeside ==
  ASSUME TypeOK,
         \/ Lingered /\ ~witch.deploy
         \/ Completed /\ Unscoped
         \/ UNCHANGED vars
  PROVE  Beside
<1>1. CASE Lingered /\ ~witch.deploy
  <2>1. /\ witch.work = "done" /\ witch' = [witch EXCEPT !.work = "idle"]
        /\ UNCHANGED <<disk, db, writes, tasks, later, deferred, plan>>
    BY <1>1 DEF Lingered
  <2>2. /\ witch'.work = "idle" /\ witch'.mutated = witch.mutated /\ witch'.rederive = witch.rederive
        /\ witch'.pendingScope = witch.pendingScope /\ witch'.deploy = witch.deploy
    BY <2>1 DEF TypeOK
  <2>3. ~Analysing /\ ~Tagging
    BY <1>1, <2>1 DEF Analysing, Tagging
  <2>4. Sent' = Sent /\ Pool' = Pool
    BY <2>1 DEF Sent, Pool
  <2>5. Mutating => witch'.rederive
    BY <2>1, <2>2 DEF Mutating
  <2> QED
    BY <2>1, <2>2, <2>3, <2>4, <2>5 DEF Beside
<1>2. CASE Completed /\ Unscoped
  <2>1. /\ witch' = [witch EXCEPT !.work = "done"]
        /\ UNCHANGED <<disk, db, writes, tasks, later, deferred, plan>>
    BY <1>2 DEF Completed, Unscoped, stages
  <2>2. /\ witch'.work = "done" /\ witch'.mutated = witch.mutated
        /\ witch'.pendingScope = witch.pendingScope /\ witch'.deploy = witch.deploy
    BY <2>1 DEF TypeOK
  <2>3. ~Mutating /\ ~Tagging
    <3>1. ~Has("tagops")
      BY <1>2, NothingLeft DEF Completed, Has
    <3> QED
      BY <1>2, <3>1 DEF Mutating, Tagging, Unscoped
  <2>4. Sent' = Sent /\ Pool' = Pool
    BY <2>1 DEF Sent, Pool
  <2> QED
    BY <2>1, <2>2, <2>3, <2>4 DEF Beside
<1>3. CASE UNCHANGED vars
  <2>1. UNCHANGED <<disk, db, writes, tasks, later, deferred, plan, witch>>
    BY <1>3 DEF vars, stages
  <2>2. Sent' = Sent /\ Pool' = Pool
    BY <2>1 DEF Sent, Pool
  <2> QED
    BY <2>1, <2>2, WitchStays DEF Beside
<1> QED
  BY <1>1, <1>2, <1>3

-----------------------------------------------------------------------------
(* What the DB thread applies.                                             *)

\* What each batch of the analysis and of an edit leaves.
LEMMA BatchesAfter ==
  ASSUME TypeOK, NEW ws \in Seq(Writes)
  PROVE  /\ LosersBatch(ws) =>
              /\ AllApplied(db, ws).want = db.want /\ AllApplied(db, ws).dirty = db.dirty
              /\ AllApplied(db, ws).ready = db.ready /\ AllApplied(db, ws).leftover = db.leftover
              /\ AllApplied(db, ws).stale = db.stale
         /\ HealthBatch(ws) =>
              /\ AllApplied(db, ws).want = db.want /\ AllApplied(db, ws).dirty = db.dirty
              /\ AllApplied(db, ws).ready = db.ready /\ AllApplied(db, ws).leftover = TrueLeft
              /\ AllApplied(db, ws).stale = TrueStale
         /\ StatusBatch(ws) =>
              /\ AllApplied(db, ws).want = db.want
              /\ AllApplied(db, ws).ready = Update(db.ready, ws[1].value)
              /\ AllApplied(db, ws).leftover = db.leftover
              /\ AllApplied(db, ws).stale = db.stale
         /\ TagBatch(ws) => AllApplied(db, ws).dirty # {}
<1>1. db \in Db /\ \A k \in 1..Len(ws) : ws[k] \in Writes
  BY DEF TypeOK
<1> DEFINE a == ws[1]
           b == ws[2]
           c == ws[3]
           d == ws[4]
           x1 == Applied(db, a)
           x2 == Applied(x1, b)
           x3 == Applied(x2, c)
           x4 == Applied(x3, d)
<1>2. Len(ws) \in {1, 2, 3, 4} => a \in Writes /\ x1 \in Db /\ Signals(db, a, x1)
  <2>1. Len(ws) \in {1, 2, 3, 4} => a \in Writes
    BY <1>1
  <2> HIDE DEF a
  <2> QED
    BY <1>1, <2>1, SignalsAfter
<1>3. Len(ws) \in {2, 3, 4} => b \in Writes /\ x2 \in Db /\ Signals(x1, b, x2)
  <2>1. Len(ws) \in {2, 3, 4} => b \in Writes /\ x1 \in Db
    BY <1>1, <1>2
  <2> HIDE DEF a, b, x1
  <2> QED
    BY <2>1, SignalsAfter
<1>4. Len(ws) \in {3, 4} => c \in Writes /\ x3 \in Db /\ Signals(x2, c, x3)
  <2>1. Len(ws) \in {3, 4} => c \in Writes /\ x2 \in Db
    BY <1>1, <1>3
  <2> HIDE DEF a, b, c, x1, x2
  <2> QED
    BY <2>1, SignalsAfter
<1>5. Len(ws) = 4 => d \in Writes /\ x4 \in Db /\ Signals(x3, d, x4)
  <2>1. Len(ws) = 4 => d \in Writes /\ x3 \in Db
    BY <1>1, <1>4
  <2> HIDE DEF a, b, c, d, x1, x2, x3
  <2> QED
    BY <2>1, SignalsAfter
<1> DEFINE after == AllApplied(db, ws)
<1>6. /\ Len(ws) = 1 => after = x1
      /\ Len(ws) = 2 => after = x2
      /\ Len(ws) = 3 => after = x3
      /\ Len(ws) = 4 => after = x4
  BY ShortBatch
<1> HIDE DEF x1, x2, x3, x4, after
<1>7. LosersBatch(ws) => /\ after.want = db.want /\ after.dirty = db.dirty /\ after.ready = db.ready
                         /\ after.leftover = db.leftover /\ after.stale = db.stale
  <2> SUFFICES ASSUME LosersBatch(ws) PROVE after = x1 /\ a.column = "losers" /\ Signals(db, a, x1)
    BY DEF Signals
  <2> QED
    BY <1>2, <1>6 DEF LosersBatch
<1>8. HealthBatch(ws) => /\ after.want = db.want /\ after.dirty = db.dirty /\ after.ready = db.ready
                         /\ after.leftover = TrueLeft /\ after.stale = TrueStale
  <2> SUFFICES ASSUME HealthBatch(ws)
               PROVE  /\ after = x2 /\ Signals(db, a, x1) /\ Signals(x1, b, x2)
                      /\ a.column = "leftover" /\ a.value = TrueLeft
                      /\ b.column = "stale" /\ b.value = TrueStale
    BY DEF Signals
  <2> QED
    BY <1>2, <1>3, <1>6 DEF HealthBatch, Write
<1>9. StatusBatch(ws) => /\ after.want = db.want /\ after.ready = Update(db.ready, a.value)
                         /\ after.leftover = db.leftover /\ after.stale = db.stale
  <2> SUFFICES ASSUME StatusBatch(ws)
               PROVE  /\ after = x3 /\ Signals(db, a, x1) /\ Signals(x1, b, x2) /\ Signals(x2, c, x3)
                      /\ a.column = "ready" /\ b.column = "deployed" /\ c.column = "dirty"
    BY DEF Signals
  <2> QED
    BY <1>2, <1>3, <1>4, <1>6 DEF StatusBatch
<1>10. TagBatch(ws) => after.dirty # {}
  <2> SUFFICES ASSUME TagBatch(ws) PROVE after = x4 /\ Signals(x3, d, x4) /\ d.column = "mark"
    BY DEF Signals
  <2> QED
    BY <1>5, <1>6 DEF TagBatch
<1> QED
  BY <1>7, <1>8, <1>9, <1>10 DEF after

\* Batches about rows, or about who lost, are beside the round.
LEMMA ApplyBeside ==
  ASSUME TypeOK, DbApply, RowBatch(Head(writes)) \/ LosersBatch(Head(writes))
  PROVE  Beside
<1> DEFINE ws == Head(writes)
<1>1. /\ ws \in Seq(Writes) /\ db' = AllApplied(db, ws)
      /\ Sent' \subseteq Sent /\ Sent \subseteq Sent' \cup {ws}
  BY SentApplied
<1>2. UNCHANGED <<disk, tasks, later, deferred, plan, witch>>
  BY DEF DbApply, stages
<1>3. RowBatch(ws) \/ LosersBatch(ws)
  OBVIOUS
<1> HIDE DEF ws
<1>4. db \in Db
  BY DEF TypeOK
<1>5. /\ db'.want = db.want /\ db'.dirty = db.dirty /\ db'.ready = db.ready
      /\ db'.leftover = db.leftover /\ db'.stale = db.stale
  <2>1. CASE RowBatch(ws)
    BY <1>1, <1>4, <2>1, RowsKeep
  <2>2. CASE LosersBatch(ws)
    BY <1>1, <2>2, BatchesAfter
  <2> QED
    BY <1>3, <2>1, <2>2
<1>6. Pool' = Pool
  BY <1>2 DEF Pool
<1> QED
  BY <1>1, <1>2, <1>3, <1>5, <1>6, WitchStays DEF Beside

\* So no batch that is applied disturbs the round.
LEMMA ApplyKeepsRound ==
  ASSUME TypeOK, Round, DbApply
  PROVE  Round'
<1> DEFINE ws == Head(writes)
<1>1. /\ ws \in Seq(Writes) /\ ws \in Sent /\ db' = AllApplied(db, ws)
      /\ Sent' \subseteq Sent /\ Sent \subseteq Sent' \cup {ws}
  BY SentApplied
<1>2. UNCHANGED <<disk, tasks, later, deferred, plan, witch>>
  BY DEF DbApply, stages
<1>3. CASE RowBatch(ws) \/ LosersBatch(ws)
  BY <1>3, ApplyBeside, RoundKept
<1> HIDE DEF ws
<1>4. db \in Db
  BY DEF TypeOK
<1>5. /\ Pool' = Pool
      /\ Unscoped' <=> Unscoped
      /\ \A kind : Has(kind)' <=> Has(kind)
  BY <1>2 DEF Pool, Has, Unscoped
<1>6. ASSUME NEW K PROVE Kinds(K)' <=> Kinds(K)
  BY <1>5 DEF Kinds
<1>7. CASE Tagging /\ TagBatch(ws)
  <2>1. db'.dirty # {}
    BY <1>1, <1>7, BatchesAfter
  <2>2. Tagging'
    BY <1>1, <1>2, <1>5, <1>6, <1>7, <2>1 DEF Tagging
  <2> QED
    BY <2>2 DEF Round
<1>8. CASE Mutating
  <2>0. Carrying
    BY <1>8 DEF Mutating
  <2>1. Carrying => MutationBatch(ws)
    BY <1>1 DEF Carrying
  <2>2. /\ db'.want = db.want /\ db'.dirty = db.dirty
        /\ \A f \in Wanting : db'.ready[f] = db.ready[f]
    <3>1. Wanting \in SUBSET File
      BY DEF Wanting
    <3>2. \A j \in DOMAIN ws :
            /\ ws[j].column \in MutationColumns
            /\ ws[j].column = "drop" => ws[j].value \notin Wanting
            /\ ws[j].column = "ready" => \A f \in DOMAIN ws[j].value : f \notin Wanting
      BY <2>0, <2>1 DEF MutationBatch, MutationColumns, Wanting, Lost
    <3> QED
      BY <1>1, <1>4, <3>1, <3>2, MutationsKeep
  <2>3. /\ Wanting' = Wanting
        /\ \A i : Lost(i)' <=> Lost(i)
        /\ \A f : Somewhere(f)' <=> Somewhere(f)
    BY <1>2, <2>2, ViewsKept
  <2>4. Noticed'
    BY <2>0, <2>2, <2>3 DEF Carrying, Noticed, ReadyCovered
  <2>5. \A b \in Sent' : MutationBatch(b)'
    BY <1>1, <2>0, <2>3 DEF Carrying, MutationBatch
  <2>6. StashesLost(Pool)'
    BY <1>2, <1>5, <2>0, <2>3 DEF Carrying, StashesLost
  <2>7. CleanupAlone'
    BY <1>1, <1>5, <2>0 DEF Carrying, CleanupAlone
  <2>8. Kinds(RowKinds \cup {"look", "stash", "move", "rename", "link", "deployed"})'
    BY <1>6, <2>0 DEF Carrying
  <2>9. \A t \in Pool' : t.kind = "deployed" => Somewhere(t.file)'
    BY <1>5, <2>0, <2>3 DEF Carrying
  <2>10. Carrying'
    BY <1>2, <2>0, <2>4, <2>5, <2>6, <2>7, <2>8, <2>9 DEF Carrying
  <2>11. Mutating'
    BY <1>2, <1>8, <2>10 DEF Mutating
  <2> QED
    BY <2>11 DEF Round
<1>9. CASE Analysing /\ HealthBatch(ws)
  <2>1. /\ db'.want = db.want /\ db'.dirty = db.dirty /\ db'.ready = db.ready
        /\ db'.leftover = TrueLeft /\ db'.stale = TrueStale
    BY <1>1, <1>9, BatchesAfter
  <2>2. Wanting' = Wanting /\ TrueLeft' = TrueLeft /\ TrueStale' = TrueStale
    BY <1>2, <2>1, ViewsKept
  <2>3. \A b : (HealthBatch(b)' <=> HealthBatch(b)) /\ (StatusBatch(b)' <=> StatusBatch(b))
    BY <2>1, <2>2 DEF HealthBatch, StatusBatch
  <2>4. ReadyCovered' <=> ReadyCovered
    BY <2>1, <2>2 DEF ReadyCovered
  <2>5. Noticed'
    BY <1>9, <2>1, <2>4 DEF Analysing, Noticed
  <2>6. ~StatusBatch(ws)
    BY <1>9 DEF HealthBatch, StatusBatch
  <2>7. (\E b \in Sent : StatusBatch(b)) => \E b \in Sent' : StatusBatch(b)'
    BY <1>1, <2>3, <2>6
  <2>8. \A b \in Sent' : RowBatch(b) \/ LosersBatch(b) \/ HealthBatch(b)' \/ StatusBatch(b)'
    BY <1>1, <1>9, <2>3 DEF Analysing
  <2>9. Analysing'
    BY <1>2, <1>5, <1>6, <1>9, <2>1, <2>2, <2>4, <2>5, <2>7, <2>8 DEF Analysing
  <2> QED
    BY <2>9 DEF Round
<1>10. CASE Analysing /\ StatusBatch(ws)
  <2>1. /\ db'.want = db.want /\ db'.ready = Update(db.ready, ws[1].value)
        /\ db'.leftover = db.leftover /\ db'.stale = db.stale
    BY <1>1, <1>10, BatchesAfter
  <2>2. Wanting' = Wanting /\ TrueLeft' = TrueLeft /\ TrueStale' = TrueStale
    BY <1>2, <2>1, ViewsKept
  <2>3. \A f \in Wanting : db'.ready[f] # None
    <3>1. \A f \in Wanting : f \in DOMAIN db.ready
      BY <1>4 DEF Wanting, Db
    <3> QED
      BY <1>10, <2>1, <3>1 DEF StatusBatch, Update
  <2>4. ReadyCovered' /\ Noticed'
    BY <2>2, <2>3 DEF ReadyCovered, Noticed
  <2>5. \A b : HealthBatch(b)' <=> HealthBatch(b)
    BY <2>2 DEF HealthBatch
  <2>6. \A b : StatusBatch(b) => StatusBatch(b)'
    BY <2>2, <2>3 DEF StatusBatch
  <2>7. ~HealthBatch(ws)
    BY <1>10 DEF HealthBatch, StatusBatch
  <2>8. (\E b \in Sent : HealthBatch(b)) => \E b \in Sent' : HealthBatch(b)'
    BY <1>1, <2>5, <2>7
  <2>9. \A b \in Sent' : RowBatch(b) \/ LosersBatch(b) \/ HealthBatch(b)' \/ StatusBatch(b)'
    BY <1>1, <1>10, <2>5, <2>6 DEF Analysing
  <2>10. Analysing'
    BY <1>2, <1>5, <1>6, <1>10, <2>1, <2>2, <2>4, <2>8, <2>9 DEF Analysing
  <2> QED
    BY <2>10 DEF Round
<1>11. \/ RowBatch(ws) \/ LosersBatch(ws)
       \/ Tagging /\ TagBatch(ws)
       \/ Mutating
       \/ Analysing /\ (HealthBatch(ws) \/ StatusBatch(ws))
  BY <1>1 DEF Round, Tagging, Mutating, Analysing, Planning, Starting, Settled, Unscoped
<1> QED
  BY <1>3, <1>7, <1>8, <1>9, <1>10, <1>11 DEF ws

-----------------------------------------------------------------------------
(* Tasks of an edit and of the analysis.                                   *)

\* Where the rows are right, a row says what the directory says.
LEMMA RowsShown ==
  ASSUME TypeOK, db.rows = Shown
  PROVE  /\ \A p \in Path, i \in Inode : At(i, p) <=> disk[p] = i
         /\ \A r \in db.rows : r[1] \in Path /\ r[2] = disk[r[1]] /\ r[2] # None /\ r = <<r[1], r[2]>>
         /\ \A p \in Path : disk[p] # None => disk[p] \in Inode /\ <<p, disk[p]>> \in db.rows
BY NoneIsNoPath DEF Shown, At, TypeOK

\* What the health of a file is, where rows and conflicts are right.
LEMMA PhaseRight ==
  ASSUME TypeOK, OneName, db.rows = Shown, db.losers = Losers, NEW p \in Path, disk[p] # None
  PROVE  /\ Phase(disk[p], p) = "leftover" <=> Lost(disk[p])
         /\ Phase(disk[p], p) = "stale" <=>
              ~Lost(disk[p]) /\ db.want[disk[p]] # p /\ disk[db.want[disk[p]]] = None
<1> DEFINE i == disk[p]
<1>1. i \in Inode /\ None \notin Inode
  BY NoneIsNoPath DEF TypeOK
<1>2. Lost(i) <=> i \notin File \/ i \in db.losers
  BY DEF Lost, Losers
<1>3. CASE Lost(i)
  BY <1>2, <1>3 DEF Phase
<1>4. CASE ~Lost(i)
  <2> DEFINE q == db.want[i]
  <2>1. i \in File /\ i \notin db.losers
    BY <1>2, <1>4
  <2>2. q \in Path
    BY <2>1 DEF TypeOK, Db
  <2>3. At(i, q) <=> disk[q] = i
    BY <1>1, <2>2, RowsShown
  <2>4. Occupied(q) \ {i} # {} <=> disk[q] \notin {None, i}
    <3>1. Occupied(q) = {j \in Inode : disk[q] = j}
      BY <2>2, RowsShown DEF Occupied
    <3>2. disk[q] \in Inode \cup {None}
      BY <2>2 DEF TypeOK
    <3> QED
      BY <1>1, <3>1, <3>2
  <2>5. disk[q] = i => q = p
    BY <2>2 DEF OneName
  <2>6. Phase(i, p) = IF q = p \/ Occupied(q) \ {i} # {} THEN "healthy"
                      ELSE IF At(i, q) THEN "leftover" ELSE "stale"
    BY <2>1 DEF Phase
  <2> HIDE DEF i, q
  <2>7. CASE q = p \/ disk[q] \notin {None, i}
    BY <1>1, <1>4, <2>3, <2>4, <2>5, <2>6, <2>7 DEF i, q
  <2>8. CASE q # p /\ disk[q] = None
    <3>1. ~At(i, q)
      BY <1>1, <2>3, <2>8
    <3>2. Phase(i, p) = "stale"
      BY <2>4, <2>6, <2>8, <3>1
    <3> QED
      BY <1>4, <2>8, <3>2 DEF i, q
  <2> QED
    BY <2>5, <2>7, <2>8
<1> QED
  BY <1>3, <1>4

\* The analysis finds what there is.
LEMMA HealthRight ==
  ASSUME TypeOK, OneName, db.rows = Shown, db.losers = Losers
  PROVE  /\ {r[1] : r \in Classified("leftover")} = TrueLeft
         /\ [p \in Path |->
              IF {i \in Inode : <<p, i>> \in Classified("stale")} = {} THEN None
              ELSE db.want[CHOOSE i \in {i \in Inode : <<p, i>> \in Classified("stale")} : TRUE]]
            = TrueStale
<1>1. \A r \in db.rows : r[1] \in Path /\ r[2] = disk[r[1]] /\ r[2] # None /\ r = <<r[1], r[2]>>
  BY RowsShown
<1>2. \A p \in Path : disk[p] # None => disk[p] \in Inode /\ <<p, disk[p]>> \in db.rows
  BY RowsShown
<1>3. {r[1] : r \in Classified("leftover")} = TrueLeft
  <2>1. ASSUME NEW r \in Classified("leftover") PROVE r[1] \in TrueLeft
    <3>1. r \in db.rows /\ Phase(r[2], r[1]) = "leftover"
      BY DEF Classified
    <3>2. r[1] \in Path /\ disk[r[1]] # None /\ Phase(disk[r[1]], r[1]) = "leftover"
      BY <1>1, <3>1
    <3> QED
      BY <3>2, PhaseRight DEF TrueLeft
  <2>2. ASSUME NEW p \in TrueLeft PROVE p \in {r[1] : r \in Classified("leftover")}
    <3>1. p \in Path /\ disk[p] # None /\ Lost(disk[p])
      BY DEF TrueLeft
    <3>2. Phase(disk[p], p) = "leftover"
      BY <3>1, PhaseRight
    <3> DEFINE r == <<p, disk[p]>>
    <3>3. r \in Classified("leftover") /\ r[1] = p
      BY <1>2, <3>1, <3>2 DEF Classified
    <3> HIDE DEF r
    <3> QED
      BY <3>3
  <2> QED
    BY <2>1, <2>2
<1> DEFINE stale(p) == {i \in Inode : <<p, i>> \in Classified("stale")}
           to(p) == IF stale(p) = {} THEN None ELSE db.want[CHOOSE i \in stale(p) : TRUE]
           true(p) == IF /\ disk[p] # None /\ ~Lost(disk[p])
                         /\ db.want[disk[p]] # p /\ disk[db.want[disk[p]]] = None
                      THEN db.want[disk[p]] ELSE None
<1>4. ASSUME NEW p \in Path PROVE to(p) = true(p)
  <2>1. ASSUME NEW i \in stale(p)
        PROVE  /\ i = disk[p] /\ disk[p] # None /\ ~Lost(disk[p])
               /\ db.want[disk[p]] # p /\ disk[db.want[disk[p]]] = None
    <3> DEFINE r == <<p, i>>
    <3>1. r \in db.rows /\ Phase(i, p) = "stale" /\ r[1] = p /\ r[2] = i
      BY DEF Classified
    <3> HIDE DEF r
    <3>2. i = disk[p] /\ disk[p] # None
      BY <1>1, <3>1
    <3> QED
      BY <3>1, <3>2, PhaseRight
  <2>2. ASSUME disk[p] # None, ~Lost(disk[p]), db.want[disk[p]] # p, disk[db.want[disk[p]]] = None
        PROVE  disk[p] \in stale(p)
    <3>1. Phase(disk[p], p) = "stale"
      BY <2>2, PhaseRight
    <3>2. <<p, disk[p]>> \in db.rows /\ disk[p] \in Inode
      BY <1>2, <2>2
    <3>3. <<p, disk[p]>>[1] = p /\ <<p, disk[p]>>[2] = disk[p]
      OBVIOUS
    <3> QED
      BY <3>1, <3>2, <3>3 DEF Classified
  <2> DEFINE S == stale(p)
  <2>3. /\ \A i \in S : /\ i = disk[p] /\ disk[p] # None /\ ~Lost(disk[p])
                        /\ db.want[disk[p]] # p /\ disk[db.want[disk[p]]] = None
        /\ disk[p] # None /\ ~Lost(disk[p]) /\ db.want[disk[p]] # p /\ disk[db.want[disk[p]]] = None
             => disk[p] \in S
    BY <2>1, <2>2
  <2> HIDE DEF S
  <2>4. CASE S = {}
    <3>1. to(p) = None
      BY <2>4 DEF S
    <3>2. true(p) = None
      BY <2>3, <2>4
    <3> QED
      BY <3>1, <3>2
  <2>5. CASE S # {}
    <3> DEFINE c == CHOOSE i \in S : TRUE
    <3>1. c \in S
      BY <2>5
    <3>2. to(p) = db.want[c]
      BY <2>5 DEF S
    <3> HIDE DEF c, to
    <3> QED
      BY <2>3, <3>1, <3>2
  <2> QED
    BY <2>4, <2>5
<1>5. [p \in Path |-> to(p)] = [p \in Path |-> true(p)]
  <2> HIDE DEF to, true
  <2> QED
    BY <1>4
<1>6. TrueStale = [p \in Path |-> true(p)]
  BY DEF TrueStale
<1> QED
  BY <1>3, <1>5, <1>6

\* The kinds of the tasks tell the mode.
LEMMA KindTells ==
  ASSUME Round, NEW t \in Pool
  PROVE  /\ t.kind = "tagops" => Tagging
         /\ t.kind \in {"conflicts", "overlaps", "health", "status"} => Analysing
         /\ t.kind \in {"stash", "move", "rename", "link", "look", "deployed"} => Mutating \/ Starting
<1>1. Tagging => t.kind \in RowKinds \cup {"tagops"}
  BY DEF Tagging, Kinds
<1>2. Mutating \/ Starting =>
        t.kind \in RowKinds \cup {"look", "stash", "move", "rename", "link", "deployed"}
  BY DEF Mutating, Starting, Carrying, Kinds
<1>3. Analysing => t.kind \in RowKinds \cup {"conflicts", "overlaps", "health", "status"}
  BY DEF Analysing, Kinds
<1>4. Planning \/ Settled => t.kind \in RowKinds
  BY DEF Planning, Settled, Kinds
<1> QED
  BY <1>1, <1>2, <1>3, <1>4 DEF Round, RowKinds

\* An edit of the tags is carried out.
LEMMA TagOpsKeepsRound ==
  ASSUME TypeOK, Round, TagOpsRead
  PROVE  Round'
<1>1. PICK t \in Is("tagops") :
        /\ Ends(t, {}, <<Write("want", Only(t.file, t.path)), Write("ready", Only(t.file, None)),
                         Write("deployed", Only(t.file, FALSE)), Write("mark", t.file)>>)
        /\ Mutated
        /\ UNCHANGED <<disk, stash, pending, deferred, excused>>
  BY DEF TagOpsRead
<1> DEFINE a == Write("want", Only(t.file, t.path))
           b == Write("ready", Only(t.file, None))
           c == Write("deployed", Only(t.file, FALSE))
           d == Write("mark", t.file)
           none == {}
<1>2. t \in Pool /\ t.kind = "tagops" /\ t.file \in File /\ t.path \in Path
  BY TaskFields DEF Is, TypeOK, Pool
<1>3. a \in Writes /\ b \in Writes /\ c \in Writes /\ d \in Writes
  <2>1. Only(t.file, t.path) \in ForSome(Path)
    BY <1>2, ForSomeTyped
  <2>2. Only(t.file, None) \in ForSome(Path \cup {None})
    BY <1>2, ForSomeTyped
  <2>3. Only(t.file, FALSE) \in ForSome(BOOLEAN)
    BY <1>2, ForSomeTyped
  <2> QED
    BY <1>2, <2>1, <2>2, <2>3, WritesTyped
<1>4. a.column = "want" /\ b.column = "ready" /\ c.column = "deployed" /\ d.column = "mark"
  BY DEF Write
<1> DEFINE ws == <<a, b, c, d>>
<1>5. Ends(t, none, ws)
  BY <1>1
<1>6. none \in SUBSET Task /\ \A u : u \notin none
  OBVIOUS
<1> HIDE DEF none, a, b, c, d
<1>7. ws \in Seq(Writes) /\ TagBatch(ws)
  <2>1. ws \in Seq(Writes)
    BY <1>3, Batches
  <2>2. Len(ws) = 4 /\ ws[1] = a /\ ws[2] = b /\ ws[3] = c /\ ws[4] = d
    OBVIOUS
  <2> QED
    BY <1>4, <2>1, <2>2 DEF TagBatch
<1>8. ws # <<>>
  OBVIOUS
<1> HIDE DEF ws
<1>9. /\ \A u \in Pool' : u \in Pool
      /\ Sent \subseteq Sent' /\ (\A e \in Sent' : e \in Sent \/ e = ws) /\ ws \in Sent'
      /\ UNCHANGED <<db, later, plan>>
  BY <1>2, <1>5, <1>6, <1>7, <1>8, SentEnds
<1>10. Tagging
  BY <1>2, KindTells
<1>11. /\ witch'.mutated /\ witch'.work = witch.work /\ witch'.deploy = witch.deploy
       /\ witch'.pendingScope = witch.pendingScope
  BY <1>1 DEF Mutated, TypeOK
<1>12. Kinds(RowKinds \cup {"tagops"})'
  BY <1>9, <1>10 DEF Tagging, Kinds
<1>13. Tagging'
  BY <1>1, <1>7, <1>9, <1>10, <1>11, <1>12 DEF Tagging
<1> QED
  BY <1>13 DEF Round

\* A task of the analysis that ends.
Analyses(t, ws) ==
  /\ t \in Pool /\ ws \in Seq(Writes) /\ Ends(t, {}, ws)
  /\ t.kind \in {"conflicts", "overlaps", "health", "status"}
  /\ ws = <<>> \/ LosersBatch(ws) \/ HealthBatch(ws) \/ StatusBatch(ws)
  /\ t.kind = "overlaps" => deferred'
  /\ t.kind = "health" => HealthBatch(ws)
  /\ t.kind = "status" => StatusBatch(ws) \/ (ws = <<>> /\ ReadyCovered)
  /\ deferred => deferred'
  /\ UNCHANGED <<disk, witch>>

\* It keeps the round: what it owed, it has sent.
LEMMA AnalysesKeepsRound ==
  ASSUME TypeOK, Round, NEW t, NEW ws, Analyses(t, ws)
  PROVE  Round'
<1> DEFINE none == {}
<1>1. none \in SUBSET Task /\ (\A u : u \notin none) /\ t \in Pool /\ ws \in Seq(Writes) /\ Ends(t, none, ws)
  BY DEF Analyses
<1> HIDE DEF none
<1>2. /\ \A u \in Pool' : u \in Pool
      /\ \A u \in Pool : u \in Pool' \/ u = t
      /\ Sent \subseteq Sent' /\ \A e \in Sent' : e \in Sent \/ (e = ws /\ ws # <<>>)
      /\ ws # <<>> => ws \in Sent'
      /\ UNCHANGED <<db, later, plan>>
  BY <1>1, SentEnds
<1>3. /\ t.kind \in {"conflicts", "overlaps", "health", "status"}
      /\ ws = <<>> \/ LosersBatch(ws) \/ HealthBatch(ws) \/ StatusBatch(ws)
      /\ t.kind = "overlaps" => deferred'
      /\ t.kind = "health" => HealthBatch(ws)
      /\ t.kind = "status" => StatusBatch(ws) \/ (ws = <<>> /\ ReadyCovered)
      /\ deferred => deferred'
      /\ UNCHANGED <<disk, witch>>
  BY DEF Analyses
<1>4. Analysing
  BY <1>1, <1>3, KindTells
<1>5. Wanting' = Wanting /\ TrueLeft' = TrueLeft /\ TrueStale' = TrueStale
  BY <1>2, <1>3, ViewsKept
<1>6. ReadyCovered' <=> ReadyCovered
  BY <1>2, <1>5 DEF ReadyCovered
<1>7. Noticed'
  BY <1>2, <1>4, <1>6 DEF Analysing, Noticed
<1>8. \A b : (HealthBatch(b)' <=> HealthBatch(b)) /\ (StatusBatch(b)' <=> StatusBatch(b))
  BY <1>2, <1>5 DEF HealthBatch, StatusBatch
<1>9. HealthBatch(ws) \/ StatusBatch(ws) => ws \in Sent'
  <2>1. Len(<<>>) = 0
    OBVIOUS
  <2> QED
    BY <1>2, <2>1 DEF HealthBatch, StatusBatch
<1>10. Kinds(RowKinds \cup {"conflicts", "overlaps", "health", "status"})'
  BY <1>2, <1>4 DEF Analysing, Kinds
<1>11. \A b \in Sent' : RowBatch(b) \/ LosersBatch(b) \/ HealthBatch(b)' \/ StatusBatch(b)'
  BY <1>2, <1>3, <1>4, <1>8 DEF Analysing
<1>12. \/ Has("health")' \/ \E b \in Sent' : HealthBatch(b)'
       \/ db'.leftover = TrueLeft' /\ db'.stale = TrueStale'
  <2>1. Has("health") => Has("health")' \/ HealthBatch(ws)
    BY <1>2, <1>3 DEF Has
  <2> QED
    BY <1>2, <1>4, <1>5, <1>8, <1>9, <2>1 DEF Analysing
<1>13. \/ Has("overlaps")' \/ deferred' \/ Has("status")'
       \/ \E b \in Sent' : StatusBatch(b)'
       \/ ReadyCovered'
  <2>1. Has("overlaps") => Has("overlaps")' \/ deferred'
    BY <1>2, <1>3 DEF Has
  <2>2. Has("status") => Has("status")' \/ StatusBatch(ws) \/ ReadyCovered
    BY <1>2, <1>3 DEF Has
  <2> QED
    BY <1>2, <1>3, <1>4, <1>6, <1>8, <1>9, <2>1, <2>2 DEF Analysing
<1>14. Analysing'
  BY <1>2, <1>3, <1>4, <1>7, <1>10, <1>11, <1>12, <1>13 DEF Analysing, Unscoped
<1> QED
  BY <1>14 DEF Round

\* The tasks of the analysis do, where no excuse is left to them.
LEMMA AnalysisKeepsRound ==
  ASSUME TypeOK, OneName, Round, ConflictsRead \/ OverlapsRead \/ HealthRead \/ StatusRead,
         excused' = {}
  PROVE  Round'
<1>1. CASE ConflictsRead
  <2>1. PICK t \in Is("conflicts") : Computes(t, {}, <<Write("losers", Losers)>>)
    BY <1>1 DEF ConflictsRead
  <2> DEFINE w == Write("losers", Losers)
             ws == <<w>>
  <2>2. w \in Writes /\ w.column = "losers"
    BY WritesTyped DEF Losers, Write
  <2>3. Computes(t, {}, ws)
    BY <2>1
  <2> HIDE DEF w
  <2>4. ws \in Seq(Writes) /\ LosersBatch(ws)
    BY <2>2, Batches DEF LosersBatch
  <2> HIDE DEF ws
  <2>5. Analyses(t, ws)
    BY <2>1, <2>3, <2>4 DEF Analyses, Computes, Is, Pool
  <2> QED
    BY <2>5, AnalysesKeepsRound
<1>2. CASE OverlapsRead
  <2> DEFINE ws == <<>>
  <2>1. PICK t \in Is("overlaps") :
          /\ Ends(t, {}, ws) /\ deferred' = TRUE
          /\ UNCHANGED <<disk, stash, pending, witch, excused>>
    BY <1>2 DEF OverlapsRead
  <2>2. ws \in Seq(Writes) /\ ws = <<>>
    BY Batches
  <2> HIDE DEF ws
  <2>3. Analyses(t, ws)
    BY <2>1, <2>2 DEF Analyses, Is, Pool
  <2> QED
    BY <2>3, AnalysesKeepsRound
<1>3. CASE HealthRead
  <2> DEFINE stale(p) == {i \in Inode : <<p, i>> \in Classified("stale")}
             to == [p \in Path |->
                      IF stale(p) = {} THEN None ELSE db.want[CHOOSE i \in stale(p) : TRUE]]
             left == {r[1] : r \in Classified("leftover")}
  <2>1. PICK t \in Is("health") :
          /\ Ends(t, {}, <<Write("leftover", left), Write("stale", to)>>)
          /\ excused' = excused \cup Excuse("outdated", db.losers # Losers \/ db.rows # Shown)
          /\ UNCHANGED <<disk, stash, pending, deferred, witch>>
    BY <1>3 DEF HealthRead
  <2>2. db.losers = Losers /\ db.rows = Shown
    BY <2>1 DEF Excuse
  <2>3. left = TrueLeft /\ to = TrueStale
    BY <2>2, HealthRight
  <2> HIDE DEF left, to
  <2> DEFINE a == Write("leftover", left)
             b == Write("stale", to)
             ws == <<a, b>>
  <2>4. ws \in Seq(Writes)
    <3>1. TrueLeft \in SUBSET Path
      BY DEF TrueLeft
    <3>2. TrueStale \in [Path -> Path \cup {None}]
      <4>1. \A p \in Path : disk[p] # None /\ ~Lost(disk[p]) => db.want[disk[p]] \in Path
        BY DEF Lost, TypeOK, Db
      <4> QED
        BY <4>1 DEF TrueStale
    <3>3. a \in Writes /\ b \in Writes
      BY <2>3, <3>1, <3>2, WritesTyped
    <3> HIDE DEF a, b
    <3> QED
      BY <3>3, Batches
  <2>5. HealthBatch(ws)
    <3>1. a = Write("leftover", TrueLeft) /\ b = Write("stale", TrueStale)
      BY <2>3
    <3> HIDE DEF a, b
    <3>2. Len(ws) = 2 /\ ws[1] = a /\ ws[2] = b
      OBVIOUS
    <3> QED
      BY <3>1, <3>2 DEF HealthBatch
  <2>6. Ends(t, {}, ws)
    BY <2>1
  <2> HIDE DEF ws
  <2>7. Analyses(t, ws)
    BY <2>1, <2>4, <2>5, <2>6 DEF Analyses, Is, Pool
  <2> QED
    BY <2>7, AnalysesKeepsRound
<1>4. CASE StatusRead
  <2> DEFINE placed(f) == {p \in Path : At(f, p)}
             ready == [f \in File |->
               IF placed(f) = {} /\ Winner(db.want, f) THEN db.want[f] ELSE None]
             deployed == [f \in File |-> db.want[f] \in placed(f) /\ Winner(db.want, f)]
             a == Write("ready", Changes(db.ready, ready))
             b == Write("deployed", Changes(db.deployed, deployed))
             c == Write("dirty", {})
             ws == IF Skips(db) THEN <<>> ELSE <<a, b, c>>
  <2>1. PICK t \in Is("status") :
          /\ Ends(t, {}, ws)
          /\ excused' = excused \cup Excuse("outdated", ~Skips(db) /\ db.rows # Shown)
          /\ UNCHANGED <<disk, stash, pending, deferred, witch>>
    BY <1>4 DEF StatusRead
  <2>2. t \in Pool /\ t.kind = "status"
    BY DEF Is, Pool
  <2>3. ready \in [File -> Path \cup {None}] /\ db.ready \in [File -> Path \cup {None}]
    BY DEF TypeOK, Db
  <2>4. deployed \in [File -> BOOLEAN] /\ db.deployed \in [File -> BOOLEAN]
    <3>1. \A f \in File : (db.want[f] \in placed(f) /\ Winner(db.want, f)) \in BOOLEAN
      BY DEF Winner
    <3> QED
      BY <3>1 DEF TypeOK, Db
  <2>5. ~Skips(db) => \A f \in Wanting : ready[f] # None
    <3> SUFFICES ASSUME ~Skips(db), NEW f \in Wanting PROVE ready[f] # None
      OBVIOUS
    <3>1. db.rows = Shown
      BY <2>1 DEF Excuse
    <3>2. f \in File /\ Winner(db.want, f) /\ \A p \in Path : disk[p] # f
      BY DEF Wanting, Somewhere
    <3>3. placed(f) = {}
      BY <3>1, <3>2, RowsShown DEF Inode
    <3>4. db.want[f] \in Path /\ None \notin Path
      BY <3>2, NoneIsNoPath DEF TypeOK, Db
    <3> QED
      BY <3>2, <3>3, <3>4
  <2> DEFINE changes == Changes(db.ready, ready)
  <2> HIDE DEF ready, deployed
  <2>6. \A f \in File : ready[f] = IF f \in DOMAIN changes THEN changes[f] ELSE db.ready[f]
    BY <2>3 DEF Changes
  <2>7. a \in Writes /\ b \in Writes /\ c \in Writes
    <3>1. Changes(db.ready, ready) \in ForSome(Path \cup {None})
      BY <2>3, ForSomeTyped
    <3>2. Changes(db.deployed, deployed) \in ForSome(BOOLEAN)
      BY <2>4, ForSomeTyped
    <3> QED
      BY <3>1, <3>2, WritesTyped
  <2>8. /\ a.column = "ready" /\ a.value = changes
        /\ b.column = "deployed" /\ c.column = "dirty"
    BY DEF Write
  <2> HIDE DEF a, b, c, changes
  <2>9. ws \in Seq(Writes)
    BY <2>7, Batches
  <2>10. CASE Skips(db)
    <3>1. ws = <<>>
      BY <2>10
    <3>2. ReadyCovered
      <4>1. Analysing
        BY <2>2, KindTells
      <4>2. db.dirty = {}
        BY <2>10 DEF Skips
      <4> QED
        BY <4>1, <4>2 DEF Analysing, Noticed
    <3> HIDE DEF ws
    <3>3. Analyses(t, ws)
      BY <2>1, <2>2, <2>9, <3>1, <3>2 DEF Analyses
    <3> QED
      BY <3>3, AnalysesKeepsRound
  <2>11. CASE ~Skips(db)
    <3>1. Len(ws) = 3 /\ ws[1] = a /\ ws[2] = b /\ ws[3] = c
      <4>1. ws = <<a, b, c>>
        BY <2>11
      <4> QED
        BY <4>1
    <3> HIDE DEF ws
    <3>2. \A f \in Wanting : (IF f \in DOMAIN changes THEN changes[f] ELSE db.ready[f]) # None
      BY <2>5, <2>6, <2>11 DEF Wanting
    <3>3. StatusBatch(ws)
      BY <2>8, <3>1, <3>2 DEF StatusBatch
    <3>4. Analyses(t, ws)
      BY <2>1, <2>2, <2>9, <3>3 DEF Analyses
    <3> QED
      BY <3>4, AnalysesKeepsRound
  <2> QED
    BY <2>10, <2>11
<1> QED
  BY <1>1, <1>2, <1>3, <1>4

-----------------------------------------------------------------------------
(* Mutations and their follow-ups.                                         *)

\* Task t of a mutation ends, and does no harm: a file with a claim keeps a name, and
\* unless t is of the cleanup all files do.
Mutates(t, ts, ws) ==
  /\ t \in Pool /\ ts \in SUBSET Task /\ ws \in Seq(Writes) /\ Ends(t, ts, ws)
  /\ t.kind \in {"stash", "move", "rename", "link", "look", "deployed"}
  /\ deferred' = deferred
  /\ witch' \in {witch, [witch EXCEPT !.mutated = TRUE]}
  /\ \A f \in File : Winner(db.want, f) /\ Somewhere(f) => Somewhere(f)'
  /\ ~Has("stash") => \A f \in File : Somewhere(f) => Somewhere(f)'
  /\ Has("stash") => \A p \in Path : disk'[p] \in {disk[p], None}
  /\ \A u \in ts : u.kind \in {"look", "rename", "deployed"}
  /\ \A u \in ts : u.kind \in {"rename", "deployed"} => ~Has("stash")
  /\ \A u \in ts : u.kind = "deployed" => Somewhere(u.file)'
  /\ MutationBatch(ws)'
  /\ Has("stash") => \A j \in DOMAIN ws : ws[j].column # "ready"

\* Then the mutations go on being carried out.
LEMMA MutatesCarries ==
  ASSUME TypeOK, Carrying, NEW t, NEW ts, NEW ws, Mutates(t, ts, ws)
  PROVE  Carrying'
<1>1. /\ \A u \in Pool' : u \in Pool \/ u \in ts
      /\ \A b \in Sent' : b \in Sent \/ b = ws
      /\ UNCHANGED <<db, later, plan>>
  BY SentEnds DEF Mutates
<1>2. /\ \A i : Lost(i)' <=> Lost(i)
      /\ witch'.deploy = witch.deploy /\ deferred' = deferred
  BY <1>1 DEF Lost, Mutates, TypeOK
<1>3. Wanting' \subseteq Wanting
  BY <1>1 DEF Wanting, Mutates
<1>4. Noticed'
  BY <1>1, <1>3 DEF Carrying, Noticed, ReadyCovered
<1>5. Kinds(RowKinds \cup {"look", "stash", "move", "rename", "link", "deployed"})'
  BY <1>1 DEF Carrying, Kinds, Mutates
<1>6. Has("stash")' => Has("stash")
  BY <1>1 DEF Has, Mutates
<1>7. \A u \in Pool' : u.kind = "deployed" => Somewhere(u.file)'
  <2>1. ASSUME NEW u \in Pool', u.kind = "deployed" PROVE Somewhere(u.file)'
    <3>1. CASE u \in ts
      BY <2>1, <3>1 DEF Mutates
    <3>2. CASE u \in Pool
      <4>1. ~Has("stash") /\ Somewhere(u.file) /\ u.file \in File
        BY <2>1, <3>2, TaskFields DEF Carrying, CleanupAlone, Pool, TypeOK
      <4> QED
        BY <4>1 DEF Mutates
    <3> QED
      BY <1>1, <3>1, <3>2
  <2> QED
    BY <2>1
<1>8. \A b \in Sent' : MutationBatch(b)'
  <2>1. ASSUME NEW b \in Sent, NEW j \in DOMAIN b
        PROVE  /\ b[j].column \in {"rows", "no rows", "drop", "no leftover", "no stale", "ready", "deployed"}
               /\ b[j].column = "drop" => Lost(b[j].value)'
               /\ b[j].column = "ready" => \A f \in DOMAIN b[j].value : f \in File => Somewhere(f)'
    <3>1. MutationBatch(b)
      BY DEF Carrying
    <3>2. b[j].column = "ready" => ~Has("stash")
      BY DEF Carrying, CleanupAlone
    <3> QED
      BY <1>2, <3>1, <3>2 DEF MutationBatch, Mutates
  <2>2. \A b \in Sent : MutationBatch(b)'
    BY <2>1 DEF MutationBatch
  <2> QED
    BY <1>1, <2>2 DEF Mutates
<1>9. StashesLost(Pool)'
  <2>1. ASSUME NEW u \in Pool', u.kind = "stash" PROVE disk'[u.path] = None \/ Lost(disk[u.path])'
    <3>1. u \in Pool /\ Has("stash")
      BY <1>1, <2>1 DEF Has, Mutates
    <3>2. u.path \in Path
      BY <2>1, <3>1, TaskFields DEF Pool, TypeOK
    <3>3. disk'[u.path] = disk[u.path] \/ disk'[u.path] = None
      BY <3>1, <3>2 DEF Mutates
    <3>4. disk[u.path] = None \/ Lost(disk[u.path])
      BY <2>1, <3>1 DEF Carrying, StashesLost
    <3>5. Lost(disk[u.path])' <=> Lost(disk'[u.path])
      BY <1>1 DEF Lost
    <3> QED
      BY <1>2, <3>3, <3>4, <3>5
  <2> QED
    BY <2>1 DEF StashesLost
<1>10. CleanupAlone'
  <2> SUFFICES ASSUME Has("stash")'
               PROVE  /\ \A u \in Pool' : u.kind \notin {"move", "rename", "link", "deployed"}
                      /\ \A b \in Sent' : \A j \in DOMAIN b : b[j].column # "ready"
    BY DEF CleanupAlone
  <2>1. Has("stash") /\ CleanupAlone
    BY <1>6 DEF Carrying
  <2> QED
    BY <1>1, <2>1 DEF CleanupAlone, Mutates
<1> QED
  BY <1>1, <1>2, <1>4, <1>5, <1>7, <1>8, <1>9, <1>10 DEF Carrying

\* A failure does no harm.
LEMMA FailsMutates ==
  ASSUME TypeOK, NEW t \in Pool, Fails(t),
         t.kind \in {"stash", "move", "rename", "link", "look", "deployed"}
  PROVE  Mutates(t, {}, <<>>)
<1>1. /\ Ends(t, {}, <<>>) /\ UNCHANGED <<disk, deferred, witch>> /\ <<>> \in Seq(Writes)
  BY Batches DEF Fails, Computes
<1>2. \A f : Somewhere(f) => Somewhere(f)'
  BY <1>1 DEF Somewhere
<1>3. DOMAIN <<>> = {}
  OBVIOUS
<1>4. MutationBatch(<<>>)'
  BY <1>3 DEF MutationBatch
<1> QED
  BY <1>1, <1>2, <1>3, <1>4 DEF Mutates

\* Stashing a library file, one that lost.
LEMMA StashMutates ==
  ASSUME TypeOK, Carrying, StashFile
  PROVE  \E t, ts, ws : /\ Mutates(t, ts, ws)
                        /\ witch'.mutated \/ (t.kind = "stash" /\ disk[t.path] = None)
<1>1. PICK t \in Is("stash") :
        LET i == disk[t.path] IN
        IF i = None THEN Fails(t)
        ELSE /\ Becomes([disk EXCEPT ![t.path] = None])
             /\ stash' = stash \cup {i}
             /\ Ends(t, {}, <<Write("drop", i), Write("no leftover", t.path)>>)
             /\ Mutated
             /\ UNCHANGED <<deferred, excused>>
  BY DEF StashFile
<1>2. t \in Pool /\ t.kind = "stash" /\ t.path \in Path
  BY TaskFields DEF Is, TypeOK, Pool
<1>3. CASE disk[t.path] = None
  <2> DEFINE none == {}
             ws == <<>>
  <2>1. Mutates(t, none, ws)
    BY <1>1, <1>2, <1>3, FailsMutates
  <2> HIDE DEF none, ws
  <2> QED
    BY <1>2, <1>3, <2>1
<1>4. CASE disk[t.path] # None
  <2>1. PICK i \in Inode : i = disk[t.path]
    BY <1>2, <1>4 DEF TypeOK
  <2> DEFINE a == Write("drop", i)
             b == Write("no leftover", t.path)
             ws == <<a, b>>
             none == {}
  <2>2. a \in Writes /\ b \in Writes
    BY <1>2, <2>1, WritesTyped
  <2>3. /\ disk' = [disk EXCEPT ![t.path] = None] /\ Ends(t, none, ws) /\ Mutated
        /\ deferred' = deferred
    BY <1>1, <1>4, <2>1 DEF Becomes
  <2>4. /\ a.column = "drop" /\ a.value = i
        /\ b.column = "no leftover"
    BY DEF Write
  <2>5. Has("stash") /\ Lost(i)
    BY <1>2, <1>4, <2>1 DEF Has, Carrying, StashesLost
  <2>6. Lost(i)'
    BY <2>3, <2>5 DEF Lost, Ends
  <2>7. \A p \in Path : disk'[p] = IF p = t.path THEN None ELSE disk[p]
    BY <2>3 DEF TypeOK
  <2> HIDE DEF a, b
  <2>8. ws \in Seq(Writes)
    BY <2>2, Batches
  <2>9. \A j \in DOMAIN ws : (ws[j] = a) \/ (ws[j] = b)
    <3>1. \A j \in DOMAIN <<a, b>> : j \in {1, 2}
      OBVIOUS
    <3>2. <<a, b>>[1] = a /\ <<a, b>>[2] = b
      OBVIOUS
    <3> QED
      BY <3>1, <3>2
  <2> HIDE DEF ws
  <2>10. MutationBatch(ws)' /\ \A j \in DOMAIN ws : ws[j].column # "ready"
    BY <2>4, <2>6, <2>9 DEF MutationBatch
  <2>11. \A f \in File : Winner(db.want, f) /\ Somewhere(f) => Somewhere(f)'
    <3> SUFFICES ASSUME NEW f \in File, Winner(db.want, f), NEW p \in Path, disk[p] = f
                 PROVE  \E q \in Path : disk'[q] = f
      BY DEF Somewhere
    <3>1. f # disk[t.path]
      BY <2>1, <2>5 DEF Lost
    <3> QED
      BY <2>7, <3>1
  <2>12. none \in SUBSET Task /\ \A u : u \notin none
    OBVIOUS
  <2>13. witch' = [witch EXCEPT !.mutated = TRUE] /\ witch'.mutated
    BY <2>3 DEF Mutated, TypeOK
  <2> HIDE DEF none
  <2>14. Mutates(t, none, ws)
    BY <1>2, <2>3, <2>5, <2>7, <2>8, <2>10, <2>11, <2>12, <2>13 DEF Mutates
  <2> QED
    BY <2>13, <2>14
<1> QED
  BY <1>3, <1>4

\* Where a task of the deployment runs, the cleanup is over.
LEMMA CleanupOver ==
  ASSUME Carrying, NEW t \in Pool, t.kind \in {"move", "rename", "link", "deployed"}
  PROVE  ~Has("stash")
BY DEF Carrying, CleanupAlone

\* What a move that succeeds spawns and sends.
LEMMA MovedMutates ==
  ASSUME TypeOK, Carrying, NEW t \in Pool, t.kind \in {"move", "rename"},
         Moved(t), deferred' = deferred, \A f : Somewhere(f) => Somewhere(f)'
  PROVE  (\E ts, ws : Mutates(t, ts, ws)) /\ witch'.mutated
<1> DEFINE ts == {Look(t.path), Look(t.to)}
           a == Write("no stale", t.path)
           ws == <<a>>
<1>1. t \in Task
  BY DEF Pool, TypeOK
<1>2. ts \in SUBSET Task /\ ws \in Seq(Writes)
  BY <1>1, MovedSends
<1>3. \A u \in ts : u.kind = "look"
  BY DEF Look
<1>4. a.column = "no stale"
  BY DEF Write
<1>5. Ends(t, ts, ws) /\ witch' = [witch EXCEPT !.mutated = TRUE] /\ witch'.mutated
  BY DEF Moved, Mutated, TypeOK
<1> HIDE DEF a, ts
<1>6. MutationBatch(ws)'
  <2>1. (\A j \in DOMAIN <<a>> : j = 1) /\ <<a>>[1] = a
    OBVIOUS
  <2> QED
    BY <1>4, <2>1 DEF MutationBatch
<1> HIDE DEF ws
<1>7. ~Has("stash")
  BY CleanupOver
<1>8. Mutates(t, ts, ws)
  BY <1>2, <1>3, <1>5, <1>6, <1>7 DEF Mutates
<1> QED
  BY <1>5, <1>8

\* A move that looks at its destination and goes on to rename.
Checks(t, ts) ==
  /\ t.kind = "move" /\ ts = {Rename(t.path, t.to)} /\ disk[t.to] = None
  /\ UNCHANGED <<disk, witch>>

\* It has not mutated yet; one that has nothing to rename has.
LEMMA MoveChecksMutates ==
  ASSUME TypeOK, Carrying, MoveChecks
  PROVE  \E t, ts, ws : /\ Mutates(t, ts, ws)
                        /\ witch'.mutated \/ ~Able(t) \/ (Checks(t, ts) /\ ws = <<>>)
<1>1. PICK t \in Is("move") :
        IF disk[t.to] = None
        THEN /\ Ends(t, {Rename(t.path, t.to)}, <<>>)
             /\ UNCHANGED <<disk, stash, pending, deferred, witch, excused>>
        ELSE IF disk[t.to] = disk[t.path]
        THEN Moved(t) /\ UNCHANGED <<disk, stash, pending, deferred, excused>>
        ELSE Fails(t)
  BY DEF MoveChecks
<1>2. t \in Pool /\ t \in Task /\ t.kind = "move" /\ t.path \in Path /\ t.to \in Path
  BY TaskFields DEF Is, TypeOK, Pool
<1>3. ~Has("stash")
  BY <1>2, CleanupOver
<1>4. CASE disk[t.to] = None
  <2> DEFINE ts == {Rename(t.path, t.to)}
             ws == <<>>
  <2>1. ts \in SUBSET Task /\ ws \in Seq(Writes)
    BY <1>2, TasksTyped, Batches
  <2>2. \A u \in ts : u.kind = "rename"
    BY DEF Rename
  <2>3. /\ Ends(t, ts, ws) /\ UNCHANGED <<disk, deferred, witch>>
        /\ ts = {Rename(t.path, t.to)} /\ ws = <<>>
    BY <1>1, <1>4
  <2>4. MutationBatch(ws)'
    <3>1. DOMAIN <<>> = {}
      OBVIOUS
    <3> QED
      BY <3>1 DEF MutationBatch
  <2> HIDE DEF ts, ws
  <2>5. \A f : Somewhere(f) => Somewhere(f)'
    BY <2>3 DEF Somewhere
  <2>6. Mutates(t, ts, ws)
    BY <1>2, <1>3, <2>1, <2>2, <2>3, <2>4, <2>5 DEF Mutates
  <2>7. Checks(t, ts)
    BY <1>2, <1>4, <2>3 DEF Checks
  <2> QED
    BY <2>3, <2>6, <2>7
<1>5. CASE disk[t.to] # None /\ disk[t.to] = disk[t.path]
  <2>1. Moved(t) /\ UNCHANGED <<disk, deferred>>
    BY <1>1, <1>5
  <2>2. \A f : Somewhere(f) => Somewhere(f)'
    BY <2>1 DEF Somewhere
  <2>3. (\E ts, ws : Mutates(t, ts, ws)) /\ witch'.mutated
    BY <1>2, <2>1, <2>2, MovedMutates
  <2> QED
    BY <2>3
<1>6. CASE disk[t.to] # None /\ disk[t.to] # disk[t.path]
  <2> DEFINE ts == {}
             ws == <<>>
  <2>1. Mutates(t, ts, ws)
    BY <1>1, <1>2, <1>6, FailsMutates
  <2>2. ~Able(t)
    BY <1>2, <1>6 DEF Able
  <2> HIDE DEF ts, ws
  <2> QED
    BY <2>1, <2>2
<1> QED
  BY <1>4, <1>5, <1>6

\* A rename over no other file.
LEMMA MoveFileMutates ==
  ASSUME TypeOK, Carrying, MoveFile, excused' = {}
  PROVE  \E t, ts, ws : Mutates(t, ts, ws) /\ (witch'.mutated \/ ~Able(t))
<1>1. PICK t \in Is("rename") :
        IF disk[t.path] = None THEN Fails(t)
        ELSE /\ Becomes(Renamed(t.path, t.to))
             /\ Moved(t)
             /\ excused' = excused \cup Excuse("clobbered", disk[t.to] \notin {None, disk[t.path]})
             /\ UNCHANGED <<stash, deferred>>
  BY DEF MoveFile
<1>2. t \in Pool /\ t \in Task /\ t.kind = "rename" /\ t.path \in Path /\ t.to \in Path
  BY TaskFields DEF Is, TypeOK, Pool
<1>3. CASE disk[t.path] = None
  <2> DEFINE ts == {}
             ws == <<>>
  <2>1. Mutates(t, ts, ws)
    BY <1>1, <1>2, <1>3, FailsMutates
  <2>2. ~Able(t)
    BY <1>2, <1>3 DEF Able
  <2> HIDE DEF ts, ws
  <2> QED
    BY <2>1, <2>2
<1>4. CASE disk[t.path] # None
  <2>1. /\ disk' = Renamed(t.path, t.to) /\ Moved(t) /\ deferred' = deferred
        /\ excused' = excused \cup Excuse("clobbered", disk[t.to] \notin {None, disk[t.path]})
    BY <1>1, <1>4 DEF Becomes
  <2>2. disk[t.to] \in {None, disk[t.path]}
    BY <2>1 DEF Excuse
  <2>3. ASSUME NEW f, Somewhere(f) PROVE Somewhere(f)'
    <3>1. CASE disk[t.path] = disk[t.to]
      BY <2>1, <2>3, <3>1 DEF Renamed, Somewhere
    <3>2. CASE disk[t.path] # disk[t.to]
      <4>1. disk[t.to] = None
        BY <2>2, <3>2
      <4>2. \A p \in Path : disk'[p] = IF p = t.to THEN disk[t.path]
                                       ELSE IF p = t.path THEN None ELSE disk[p]
        BY <1>2, <2>1, <3>2 DEF Renamed, TypeOK
      <4>3. PICK p \in Path : disk[p] = f
        BY <2>3 DEF Somewhere
      <4>4. CASE p \in {t.path, t.to} /\ f # None
        <5>1. disk'[t.to] = f
          BY <1>2, <4>1, <4>2, <4>3, <4>4
        <5> QED
          BY <1>2, <5>1 DEF Somewhere
      <4>5. CASE f = None
        <5>1. disk'[t.path] = None
          BY <1>2, <3>2, <4>2
        <5> QED
          BY <1>2, <4>5, <5>1 DEF Somewhere
      <4>6. CASE p \notin {t.path, t.to}
        BY <4>2, <4>3, <4>6 DEF Somewhere
      <4> QED
        BY <4>4, <4>5, <4>6
    <3> QED
      BY <3>1, <3>2
  <2>4. (\E ts, ws : Mutates(t, ts, ws)) /\ witch'.mutated
    BY <1>2, <2>1, <2>3, MovedMutates
  <2> QED
    BY <2>4
<1> QED
  BY <1>3, <1>4

\* A link to a path that is free, or that the file has.
LEMMA LinkFileMutates ==
  ASSUME TypeOK, Carrying, LinkFile
  PROVE  \E t, ts, ws : Mutates(t, ts, ws) /\ (witch'.mutated \/ ~Able(t))
<1>1. PICK t \in Is("link") :
        IF disk[t.path] \notin {None, t.file} THEN Fails(t)
        ELSE /\ Becomes([disk EXCEPT ![t.path] = t.file])
             /\ Ends(t, {Look(t.path), Deployed(t.file, t.path)}, <<>>)
             /\ Mutated
             /\ excused' = excused \cup Doubled(disk')
             /\ UNCHANGED <<stash, deferred>>
  BY DEF LinkFile
<1>2. t \in Pool /\ t.kind = "link" /\ t.path \in Path /\ t.file \in File
  BY TaskFields DEF Is, TypeOK, Pool
<1>3. CASE disk[t.path] \notin {None, t.file}
  <2> DEFINE ts == {}
             ws == <<>>
  <2>1. Mutates(t, ts, ws)
    BY <1>1, <1>2, <1>3, FailsMutates
  <2>2. ~Able(t)
    BY <1>2, <1>3 DEF Able
  <2> HIDE DEF ts, ws
  <2> QED
    BY <2>1, <2>2
<1>4. CASE disk[t.path] \in {None, t.file}
  <2> DEFINE ts == {Look(t.path), Deployed(t.file, t.path)}
             ws == <<>>
  <2>1. ts \in SUBSET Task /\ ws \in Seq(Writes)
    BY <1>2, TasksTyped, Batches
  <2>2. \A u \in ts : u.kind = "look" \/ (u.kind = "deployed" /\ u.file = t.file)
    BY DEF Look, Deployed
  <2>3. /\ Ends(t, ts, ws) /\ Mutated /\ deferred' = deferred
        /\ disk' = [disk EXCEPT ![t.path] = t.file]
    BY <1>1, <1>4 DEF Becomes
  <2>4. MutationBatch(ws)'
    <3>1. DOMAIN <<>> = {}
      OBVIOUS
    <3> QED
      BY <3>1 DEF MutationBatch
  <2> HIDE DEF ts, ws
  <2>5. \A p \in Path : disk'[p] = IF p = t.path THEN t.file ELSE disk[p]
    BY <2>3 DEF TypeOK
  <2>6. \A f \in File : Somewhere(f) => Somewhere(f)'
    <3>1. \A f \in File : f # None
      BY NoneIsNoPath DEF Inode
    <3> QED
      BY <1>2, <1>4, <2>5, <3>1 DEF Somewhere
  <2>7. Somewhere(t.file)'
    BY <1>2, <2>5 DEF Somewhere
  <2>8. witch' = [witch EXCEPT !.mutated = TRUE] /\ witch'.mutated
    BY <2>3 DEF Mutated, TypeOK
  <2>9. ~Has("stash")
    BY <1>2, CleanupOver
  <2>10. Mutates(t, ts, ws)
    BY <1>2, <2>1, <2>2, <2>3, <2>4, <2>6, <2>7, <2>8, <2>9 DEF Mutates
  <2> QED
    BY <2>8, <2>10
<1> QED
  BY <1>3, <1>4

\* The looks, and the signals of a file that was linked.
LEMMA FollowUpMutates ==
  ASSUME TypeOK, Carrying, LookRead \/ DeployedRead
  PROVE  \E t, ts, ws : Mutates(t, ts, ws) /\ t.kind \in {"look", "deployed"}
<1> DEFINE none == {}
<1>1. none \in SUBSET Task /\ \A u : u \notin none
  OBVIOUS
<1>2. CASE LookRead
  <2>1. PICK t \in Is("look") :
          Computes(t, {}, IF disk[t.path] = None THEN <<Write("no rows", {t.path})>>
            ELSE <<Write("rows", {<<t.path, disk[t.path]>>}),
                   Write("no leftover", t.path), Write("no stale", t.path)>>)
    BY <1>2 DEF LookRead
  <2>2. t \in Pool /\ t.kind = "look" /\ t.path \in Path
    BY TaskFields DEF Is, TypeOK, Pool
  <2>3. PICK i : i = disk[t.path]
    OBVIOUS
  <2> DEFINE a == Write("no rows", {t.path})
             b == Write("rows", {<<t.path, i>>})
             c == Write("no leftover", t.path)
             d == Write("no stale", t.path)
  <2>4. a \in Writes /\ c \in Writes /\ d \in Writes
    BY <2>2, WritesTyped
  <2>5. i # None => b \in Writes
    <3>1. i # None => {<<t.path, i>>} \in SUBSET (Path \X Inode)
      BY <2>2, <2>3 DEF TypeOK
    <3> QED
      BY <3>1, WritesTyped
  <2>6. a.column = "no rows" /\ b.column = "rows" /\ c.column = "no leftover" /\ d.column = "no stale"
    BY DEF Write
  <2>7. PICK ws : ws = IF i = None THEN <<a>> ELSE <<b, c, d>>
    OBVIOUS
  <2>8. Computes(t, none, ws)
    BY <2>1, <2>3, <2>7
  <2> HIDE DEF a, b, c, d, none
  <2>9. ws \in Seq(Writes)
    BY <2>4, <2>5, <2>7, Batches
  <2>10. \A j \in DOMAIN ws : ws[j] \in {a, b, c, d}
    <3>1. (\A j \in DOMAIN <<a>> : j = 1) /\ <<a>>[1] = a
      OBVIOUS
    <3>2. /\ \A j \in DOMAIN <<b, c, d>> : j \in {1, 2, 3}
          /\ <<b, c, d>>[1] = b /\ <<b, c, d>>[2] = c /\ <<b, c, d>>[3] = d
      OBVIOUS
    <3> QED
      BY <2>7, <3>1, <3>2
  <2>11. \A j \in DOMAIN ws : ws[j].column \in {"rows", "no rows", "no leftover", "no stale"}
    BY <2>6, <2>10
  <2>12. MutationBatch(ws)' /\ \A j \in DOMAIN ws : ws[j].column # "ready"
    BY <2>11 DEF MutationBatch
  <2>13. \A f : Somewhere(f) => Somewhere(f)'
    BY <2>8 DEF Computes, Somewhere
  <2>14. Mutates(t, none, ws)
    BY <1>1, <2>2, <2>8, <2>9, <2>12, <2>13 DEF Mutates, Computes
  <2> QED
    BY <2>2, <2>14
<1>3. CASE DeployedRead
  <2>1. PICK t \in Is("deployed") :
          Computes(t, {}, <<Write("no leftover", t.path), Write("no stale", t.path),
                            Write("ready", Only(t.file, None)),
                            Write("deployed", Only(t.file, TRUE))>>)
    BY <1>3 DEF DeployedRead
  <2>2. t \in Pool /\ t.kind = "deployed" /\ t.path \in Path /\ t.file \in File
    BY TaskFields DEF Is, TypeOK, Pool
  <2> DEFINE a == Write("no leftover", t.path)
             b == Write("no stale", t.path)
             c == Write("ready", Only(t.file, None))
             d == Write("deployed", Only(t.file, TRUE))
             ws == <<a, b, c, d>>
  <2>3. a \in Writes /\ b \in Writes /\ c \in Writes /\ d \in Writes
    <3>1. Only(t.file, None) \in ForSome(Path \cup {None})
      BY <2>2, ForSomeTyped
    <3>2. Only(t.file, TRUE) \in ForSome(BOOLEAN)
      BY <2>2, ForSomeTyped
    <3> QED
      BY <2>2, <3>1, <3>2, WritesTyped
  <2>4. /\ a.column = "no leftover" /\ b.column = "no stale"
        /\ c.column = "ready" /\ d.column = "deployed" /\ DOMAIN c.value = {t.file}
    BY DEF Write, Only
  <2>5. Computes(t, none, ws)
    BY <2>1
  <2> HIDE DEF a, b, c, d, none
  <2>6. ws \in Seq(Writes)
    BY <2>3, Batches
  <2>7. \A j \in DOMAIN ws : ws[j] \in {a, b, c, d}
    <3>1. /\ \A j \in DOMAIN <<a, b, c, d>> : j \in {1, 2, 3, 4}
          /\ <<a, b, c, d>>[1] = a /\ <<a, b, c, d>>[2] = b
          /\ <<a, b, c, d>>[3] = c /\ <<a, b, c, d>>[4] = d
      OBVIOUS
    <3> QED
      BY <3>1
  <2> HIDE DEF ws
  <2>8. \A f : Somewhere(f) => Somewhere(f)'
    BY <2>5 DEF Computes, Somewhere
  <2>9. Somewhere(t.file)'
    BY <2>2, <2>8 DEF Carrying
  <2>10. MutationBatch(ws)'
    BY <2>4, <2>7, <2>9 DEF MutationBatch
  <2>11. ~Has("stash")
    BY <2>2, CleanupOver
  <2>12. Mutates(t, none, ws)
    BY <1>1, <2>2, <2>5, <2>6, <2>8, <2>10, <2>11 DEF Mutates, Computes
  <2> QED
    BY <2>2, <2>12
<1> QED
  BY <1>2, <1>3

\* The mutations and their follow-ups keep the round: the first of a deployment succeeds,
\* because nothing has changed since it was planned.
LEMMA MutationsKeepRound ==
  ASSUME TypeOK, Resting, Round, excused' = {},
         StashFile \/ MoveChecks \/ MoveFile \/ LinkFile \/ LookRead \/ DeployedRead
  PROVE  Round'
<1>1. Mutating \/ Starting
  <2>1. PICK t \in Pool : t.kind \in {"stash", "move", "rename", "link", "look", "deployed"}
    BY DEF StashFile, MoveChecks, MoveFile, LinkFile, LookRead, DeployedRead, Is, Pool
  <2> QED
    BY <2>1, KindTells
<1>2. Carrying
  BY <1>1 DEF Mutating, Starting
<1>3. PICK t, ts, ws : /\ Mutates(t, ts, ws)
                       /\ \/ witch'.mutated \/ ~Able(t) \/ (Checks(t, ts) /\ ws = <<>>)
                          \/ t.kind \in {"look", "deployed"}
  <2>1. CASE StashFile
    <3>1. \A t : t.kind = "stash" /\ disk[t.path] = None => ~Able(t)
      BY DEF Able
    <3> QED
      BY <1>2, <2>1, <3>1, StashMutates
  <2>2. CASE MoveChecks
    BY <1>2, <2>2, MoveChecksMutates
  <2>3. CASE MoveFile
    BY <1>2, <2>3, MoveFileMutates
  <2>4. CASE LinkFile
    BY <1>2, <2>4, LinkFileMutates
  <2>5. CASE LookRead \/ DeployedRead
    BY <1>2, <2>5, FollowUpMutates
  <2> QED
    BY <2>1, <2>2, <2>3, <2>4, <2>5
<1>4. Carrying'
  BY <1>2, <1>3, MutatesCarries
<1>5. t \in Pool /\ witch' \in {witch, [witch EXCEPT !.mutated = TRUE]}
  BY <1>3 DEF Mutates
<1>6. /\ witch'.work = witch.work /\ witch'.rederive = witch.rederive
      /\ witch'.pendingScope = witch.pendingScope
      /\ witch.mutated => witch'.mutated
  BY <1>5 DEF TypeOK
<1>7. witch.work = "working"
  <2>1. ~Drained
    BY <1>5, NothingLeft
  <2> QED
    BY <2>1 DEF Resting, TypeOK
<1>8. CASE Mutating \/ witch'.mutated
  <2>1. Mutating'
    BY <1>4, <1>6, <1>7, <1>8 DEF Mutating
  <2> QED
    BY <2>1 DEF Round
<1>9. CASE Starting /\ ~witch'.mutated
  <2>1. Able(t) /\ t.kind \notin {"look", "deployed"}
    BY <1>5, <1>9 DEF Starting, Kinds, RowKinds
  <2>2. Checks(t, ts) /\ ws = <<>>
    BY <1>3, <1>9, <2>1
  <2>3. /\ \A u \in Pool' : u \in Pool \/ u \in ts
        /\ \A u \in ts : u \in Pool'
        /\ \A b \in Sent' : b \in Sent
    <3>1. t \in Pool /\ ts \in SUBSET Task /\ ws \in Seq(Writes) /\ Ends(t, ts, ws)
      BY <1>3 DEF Mutates
    <3> QED
      BY <2>2, <3>1, SentEnds
  <2> DEFINE r == Rename(t.path, t.to)
  <2>4. ts = {r} /\ disk[t.to] = None /\ t.kind = "move" /\ UNCHANGED <<disk, witch>>
    BY <2>2 DEF Checks
  <2>5. r.kind = "rename" /\ r.path = t.path /\ r.to = t.to
    BY DEF Rename
  <2>6. disk[t.path] # None
    BY <2>1, <2>4 DEF Able
  <2> HIDE DEF r
  <2>7. Kinds(RowKinds \cup {"stash", "move", "rename", "link"})'
    BY <1>9, <2>3, <2>4, <2>5 DEF Starting, Kinds
  <2>8. Has("rename")'
    BY <2>3, <2>4, <2>5 DEF Has
  <2>9. \A u \in Pool' : Able(u)'
    <3>1. \A u : Able(u)' <=> Able(u)
      BY <2>4 DEF Able
    <3>2. Able(r)
      BY <2>4, <2>5, <2>6 DEF Able
    <3> QED
      BY <1>9, <2>3, <2>4, <3>1, <3>2 DEF Starting
  <2>10. \A b \in Sent' : RowBatch(b)
    BY <1>9, <2>3 DEF Starting
  <2>11. Starting'
    BY <1>4, <1>9, <2>4, <2>7, <2>8, <2>9, <2>10 DEF Starting, Unscoped
  <2> QED
    BY <2>11 DEF Round
<1> QED
  BY <1>1, <1>8, <1>9

-----------------------------------------------------------------------------
(* The steps of the Witch.                                                 *)

\* The next stage: what waited behind the cleanup, or the statuses behind the analysis.
LEMMA NextStageKeepsRound ==
  ASSUME TypeOK, Round, NextStage
  PROVE  Round'
<1>1. /\ witch.work = "working" /\ Pool = {} /\ Sent = {}
      /\ UNCHANGED <<disk, db, writes, plan>>
  BY NothingLeft DEF NextStage
<1>2. \A kind : ~Has(kind)
  BY <1>1 DEF Has
<1>3. Sent' = {}
  BY <1>1 DEF Sent
<1>4. Wanting' = Wanting /\ TrueLeft' = TrueLeft /\ TrueStale' = TrueStale
  BY <1>1, ViewsKept
<1>5. /\ Noticed' <=> Noticed
      /\ ReadyCovered' <=> ReadyCovered
  BY <1>1, <1>4 DEF Noticed, ReadyCovered
<1>6. CASE later # {} /\ Queue(later) /\ later' = {} /\ UNCHANGED <<deferred, witch>>
  <2>1. Mutating
    BY <1>2, <1>6 DEF Round, Tagging, Analysing, Planning, Starting, Settled
  <2>2. later \in SUBSET Task /\ \A t \in later : t.kind \in {"move", "link"}
    BY DEF TypeOK
  <2>3. Pool' = later
    BY <1>1, <1>6, <2>2, PoolQueues
  <2>4. Kinds(RowKinds \cup {"look", "stash", "move", "rename", "link", "deployed"})'
    BY <2>2, <2>3 DEF Kinds
  <2>5. StashesLost(Pool)' /\ CleanupAlone'
    BY <2>2, <2>3 DEF StashesLost, CleanupAlone, Has
  <2>6. Carrying'
    BY <1>1, <1>3, <1>5, <1>6, <2>1, <2>2, <2>3, <2>4, <2>5 DEF Mutating, Carrying
  <2>7. Mutating'
    BY <1>6, <2>1, <2>6 DEF Mutating
  <2> QED
    BY <2>7 DEF Round
<1>7. CASE deferred /\ Queue({Status}) /\ UNCHANGED <<later, witch>>
  <2>1. Analysing
    BY <1>7 DEF Round, Tagging, Mutating, Carrying, Planning, Starting, Settled
  <2>2. Status \in Task /\ Status.kind = "status"
    BY TasksTyped DEF Status
  <2>3. Pool' = {Status}
    BY <1>1, <1>7, <2>2, PoolQueues
  <2>4. Kinds(RowKinds \cup {"conflicts", "overlaps", "health", "status"})' /\ Has("status")'
    BY <2>2, <2>3 DEF Kinds, Has
  <2>5. db.leftover = TrueLeft /\ db.stale = TrueStale
    BY <1>1, <1>2, <2>1 DEF Analysing
  <2>6. Analysing'
    BY <1>1, <1>3, <1>4, <1>5, <1>7, <2>1, <2>4, <2>5 DEF Analysing, Unscoped
  <2> QED
    BY <2>6 DEF Round
<1> QED
  BY <1>6, <1>7 DEF NextStage

\* What was mutated owes an analysis, and what owed one gets it.
LEMMA CompletedKeepsRound ==
  ASSUME TypeOK, Round, Completed
  PROVE  Round'
<1>1. /\ witch.work = "working" /\ Pool = {} /\ Sent = {} /\ later = {} /\ ~deferred
      /\ UNCHANGED <<disk, db, writes, later, deferred, plan>>
  BY NothingLeft DEF Completed, stages
<1>2. \A kind : ~Has(kind)
  BY <1>1 DEF Has
<1>3. Sent' = {}
  BY <1>1 DEF Sent
<1>4. Wanting' = Wanting
  BY <1>1, ViewsKept
<1>5. Noticed' <=> Noticed
  BY <1>1, <1>4 DEF Noticed, ReadyCovered
<1>6. Noticed
  BY <1>1, <1>2 DEF Round, Tagging, Mutating, Carrying, Analysing, Planning, Starting, Settled, Noticed
<1>7. CASE witch.mutated
  <2>1. /\ witch' = [witch EXCEPT !.work = "done", !.mutated = FALSE,
                                  !.pendingScope = TRUE, !.rederive = TRUE]
        /\ UNCHANGED tasks
    BY <1>7 DEF Completed
  <2>2. witch'.pendingScope /\ witch'.rederive /\ witch'.deploy = witch.deploy
    BY <2>1 DEF TypeOK
  <2>3. Pool' = {}
    BY <1>1, <2>1 DEF Pool
  <2>4. plan = {} /\ ~witch.deploy
    BY <1>7 DEF Round, Tagging, Mutating, Carrying, Analysing, Planning, Starting, Settled, Unscoped
  <2>5. /\ Kinds(RowKinds \cup {"look", "stash", "move", "rename", "link", "deployed"})'
        /\ StashesLost(Pool)' /\ CleanupAlone'
    BY <2>3 DEF Kinds, StashesLost, CleanupAlone, Has
  <2>6. Carrying'
    BY <1>1, <1>3, <1>5, <1>6, <2>2, <2>3, <2>4, <2>5 DEF Carrying
  <2>7. Mutating'
    BY <2>2, <2>6 DEF Mutating
  <2> QED
    BY <2>7 DEF Round
<1>8. CASE ~witch.mutated /\ witch.pendingScope
  <2> DEFINE ts == {Conflicts, Overlaps, Health}
  <2>1. witch' = [witch EXCEPT !.pendingScope = FALSE, !.deploy = TRUE] /\ Queue(ts)
    BY <1>8 DEF Completed
  <2>2. /\ ts \in SUBSET Task /\ \A t \in ts : t.kind \in {"conflicts", "overlaps", "health"}
        /\ \E t \in ts : t.kind = "overlaps"
        /\ \E t \in ts : t.kind = "health"
    BY TasksTyped DEF Conflicts, Overlaps, Health
  <2> HIDE DEF ts
  <2>3. Pool' = ts
    BY <1>1, <2>1, <2>2, PoolQueues
  <2>4. /\ Kinds(RowKinds \cup {"conflicts", "overlaps", "health", "status"})'
        /\ Has("overlaps")' /\ Has("health")'
    BY <2>2, <2>3 DEF Kinds, Has
  <2>5. /\ witch'.work = "working" /\ witch'.deploy /\ ~witch'.mutated /\ ~witch'.pendingScope
    BY <1>1, <1>8, <2>1 DEF TypeOK
  <2>6. plan = {}
    BY <1>8 DEF Round, Tagging, Mutating, Carrying, Analysing, Planning, Starting, Settled, Unscoped
  <2>7. Analysing'
    BY <1>1, <1>3, <1>5, <1>6, <2>4, <2>5, <2>6 DEF Analysing, Unscoped
  <2> QED
    BY <2>7 DEF Round
<1>9. CASE Unscoped
  BY <1>9, RestBeside, RoundKept
<1> QED
  BY <1>7, <1>8, <1>9 DEF Unscoped

\* Every name that is not what is wanted is to be stashed or moved, unless another file
\* is at the path it wants; a file without a name is to be linked.
LEMMA PlanCovers ==
  ASSUME TypeOK, OneName, db.leftover = TrueLeft, db.stale = TrueStale, ReadyCovered,
         Planned = {}
  PROVE  AsWanted
<1>1. db.leftover = {} /\ (\A p \in Path : db.stale[p] = None) /\ Ready = {}
  BY DEF Planned
<1>2. \A p \in Path : p # None
  BY NoneIsNoPath
<1>3. ASSUME NEW p \in Path, disk[p] # None
      PROVE  /\ disk[p] \in File /\ Winner(db.want, disk[p]) /\ db.want[disk[p]] \in Path
             /\ db.want[disk[p]] = p \/ disk[db.want[disk[p]]] # None
  <2>1. ~Lost(disk[p])
    BY <1>1, <1>3 DEF TrueLeft
  <2>2. disk[p] \in File /\ Winner(db.want, disk[p])
    BY <2>1 DEF Lost
  <2>3. db.want[disk[p]] \in Path
    BY <2>2 DEF TypeOK, Db
  <2>4. db.want[disk[p]] = p \/ disk[db.want[disk[p]]] # None
    <3>1. TrueStale[p] = None
      BY <1>1
    <3> QED
      BY <1>2, <1>3, <2>1, <2>3, <3>1 DEF TrueStale
  <2> QED
    BY <2>2, <2>3, <2>4
<1>4. ASSUME NEW p \in Path, disk[p] # None
      PROVE  Masked(disk[p]) \/ (db.want[disk[p]] = p /\ Winner(db.want, disk[p]))
  <2>1. CASE db.want[disk[p]] = p
    BY <1>3, <1>4, <2>1
  <2>2. CASE db.want[disk[p]] # p
    <3>1. disk[db.want[disk[p]]] # None /\ db.want[disk[p]] \in Path
      BY <1>3, <1>4, <2>2
    <3>2. disk[db.want[disk[p]]] # disk[p]
      BY <1>4, <2>2, <3>1 DEF OneName
    <3> QED
      BY <3>1, <3>2 DEF Masked
  <2> QED
    BY <2>1, <2>2
<1>5. ASSUME NEW f \in File, Winner(db.want, f) PROVE disk[db.want[f]] # None
  <2>1. Somewhere(f)
    <3>1. db.ready[f] = None
      BY <1>1 DEF Ready
    <3> QED
      BY <1>5, <3>1 DEF ReadyCovered, Wanting
  <2>2. PICK p \in Path : disk[p] = f
    BY <2>1 DEF Somewhere
  <2>3. f # None
    BY NoneIsNoPath DEF Inode
  <2> QED
    BY <1>3, <2>2, <2>3
<1> QED
  BY <1>4, <1>5 DEF AsWanted

\* A plan stashes what lost, and nothing stands in the way of it.
LEMMA PlanAble ==
  ASSUME TypeOK, db.leftover = TrueLeft, db.stale = TrueStale, ~\E f \in Ready : Superseded(f)
  PROVE  \A t \in Planned : Able(t) /\ (t.kind = "stash" => Lost(disk[t.path]))
<1> SUFFICES ASSUME NEW t \in Planned
             PROVE  Able(t) /\ (t.kind = "stash" => Lost(disk[t.path]))
  OBVIOUS
<1>1. CASE \E p \in db.leftover : t = Stash(p)
  <2>1. PICK p \in TrueLeft : t = Stash(p)
    BY <1>1
  <2>2. t.kind = "stash" /\ t.path = p
    BY <2>1 DEF Stash
  <2> QED
    BY <2>2 DEF Able, TrueLeft
<1>2. CASE \E p \in Path : db.stale[p] # None /\ t = Move(p, db.stale[p])
  <2>1. PICK p \in Path : TrueStale[p] # None /\ t = Move(p, TrueStale[p])
    BY <1>2
  <2>2. t.kind = "move" /\ t.path = p /\ t.to = TrueStale[p]
    BY <2>1 DEF Move
  <2>3. disk[p] # None /\ disk[TrueStale[p]] = None
    BY <2>1 DEF TrueStale
  <2> QED
    BY <2>2, <2>3 DEF Able
<1>3. CASE \E f \in Ready : t = Link(f, db.ready[f])
  <2>1. PICK f \in Ready : t = Link(f, db.ready[f])
    BY <1>3
  <2>2. t.kind = "link" /\ t.path = db.ready[f] /\ t.file = f
    BY <2>1 DEF Link
  <2>3. disk[db.ready[f]] \in {None, f}
    BY DEF Superseded
  <2> QED
    BY <2>2, <2>3 DEF Able
<1> QED
  BY <1>1, <1>2, <1>3 DEF Planned

\* The query plans what is left to do; where nothing is, the library is as wanted.
LEMMA LingeredKeepsRound ==
  ASSUME TypeOK, Resting, OneName, Round, Lingered, excused' = {}
  PROVE  Round'
<1>1. CASE ~witch.deploy
  BY <1>1, RestBeside, RoundKept
<1>2. CASE witch.deploy
  <2>1. /\ witch.work = "done" /\ plan = {} /\ plan' = Planned
        /\ witch' = [witch EXCEPT !.deploy = FALSE]
        /\ excused' = excused \cup Excuse("superseded", \E f \in Ready : Superseded(f))
        /\ UNCHANGED <<disk, db, writes, tasks, later, deferred>>
    BY <1>2 DEF Lingered
  <2>2. Drained /\ later = {} /\ ~deferred
    BY <2>1 DEF Resting
  <2>3. Pool = {} /\ Sent = {} /\ Pool' = {} /\ Sent' = {}
    <3>1. Pool = {} /\ Sent = {}
      BY <2>2, NothingLeft
    <3> QED
      BY <2>1, <3>1 DEF Pool, Sent
  <2>4. Analysing
    BY <1>2 DEF Round, Tagging, Mutating, Carrying, Planning, Starting, Settled
  <2>5. db.leftover = TrueLeft /\ db.stale = TrueStale /\ ReadyCovered
    BY <2>2, <2>3, <2>4 DEF Analysing, Has
  <2>6. ~\E f \in Ready : Superseded(f)
    BY <2>1 DEF Excuse
  <2>7. /\ Wanting' = Wanting
        /\ \A i : Lost(i)' <=> Lost(i)
        /\ AsWanted' <=> AsWanted
    BY <2>1, ViewsKept
  <2>8. Noticed'
    BY <2>1, <2>5, <2>7 DEF Noticed, ReadyCovered
  <2>9. /\ ~witch'.deploy
        /\ Unscoped'
    BY <2>1, <2>4 DEF TypeOK, Analysing, Unscoped
  <2>10. Kinds(RowKinds)'
    BY <2>3 DEF Kinds
  <2>11. CASE Planned = {}
    <3>1. AsWanted
      BY <2>5, <2>11, PlanCovers
    <3>2. Settled'
      BY <2>1, <2>2, <2>3, <2>7, <2>8, <2>9, <2>10, <2>11, <3>1 DEF Settled
    <3> QED
      BY <3>2 DEF Round
  <2>12. CASE Planned # {}
    <3>1. \A t \in plan' : Able(t) /\ (t.kind = "stash" => Lost(disk[t.path]))
      BY <2>1, <2>5, <2>6, PlanAble
    <3>2. \A t \in plan' : Able(t)'
      BY <2>1, <3>1 DEF Able
    <3>3. StashesLost(plan)'
      BY <2>1, <2>7, <3>1 DEF StashesLost, Lost
    <3>4. Planning'
      BY <2>1, <2>2, <2>3, <2>8, <2>9, <2>10, <2>12, <3>2, <3>3 DEF Planning
    <3> QED
      BY <3>4 DEF Round
  <2> QED
    BY <2>11, <2>12
<1> QED
  BY <1>1, <1>2

\* What is planned starts.
LEMMA DeployKeepsRound ==
  ASSUME TypeOK, Round, Deploy
  PROVE  Round'
<1> DEFINE cleanup == {t \in plan : t.kind = "stash"}
           ts == IF cleanup = {} THEN plan ELSE cleanup
<1>1. /\ plan # {} /\ plan' = {} /\ Queue(ts)
      /\ witch' = [witch EXCEPT !.work = "working"]
      /\ UNCHANGED <<disk, db, writes, deferred>>
  BY DEF Deploy, Working
<1>2. Planning
  BY <1>1 DEF Round, Tagging, Mutating, Carrying, Analysing, Starting, Settled
<1>3. plan \subseteq Task /\ \A t \in plan : t.kind \in {"stash", "move", "link"}
  BY DEF TypeOK
<1>4. /\ ts \in SUBSET Task /\ ts # {} /\ ts \subseteq plan
      /\ (\A t \in ts : t.kind = "stash") \/ (\A t \in ts : t.kind # "stash")
  BY <1>1, <1>3
<1> HIDE DEF ts, cleanup
<1>5. Pool' = Pool \cup ts
  BY <1>1, <1>4, PoolQueues
<1>6. Sent' = Sent
  BY <1>1 DEF Sent
<1>7. /\ Wanting' = Wanting
      /\ \A i : Lost(i)' <=> Lost(i)
  BY <1>1, ViewsKept
<1>8. Noticed'
  BY <1>1, <1>2, <1>7 DEF Planning, Noticed, ReadyCovered
<1>9. \A t \in Pool : t.kind \in RowKinds
  BY <1>2 DEF Planning, Kinds
<1>10. \A t \in Pool' : t.kind \in RowKinds \/ (t \in ts /\ t.kind \in {"stash", "move", "link"})
  BY <1>3, <1>4, <1>5, <1>9
<1>11. /\ Kinds(RowKinds \cup {"stash", "move", "rename", "link"})'
       /\ Kinds(RowKinds \cup {"look", "stash", "move", "rename", "link", "deployed"})'
  BY <1>10 DEF Kinds
<1>12. \A b \in Sent' : RowBatch(b)
  BY <1>2, <1>6 DEF Planning
<1>13. \A b \in Sent' : MutationBatch(b)'
  BY <1>12 DEF RowBatch, MutationBatch
<1>14. StashesLost(Pool)'
  BY <1>1, <1>2, <1>4, <1>7, <1>10 DEF Planning, StashesLost, RowKinds, Lost
<1>15. CleanupAlone'
  BY <1>4, <1>10, <1>12 DEF CleanupAlone, Has, RowBatch, RowKinds
<1>16. \A t \in Pool' : Able(t)'
  BY <1>1, <1>2, <1>4, <1>10 DEF Planning, Able, RowKinds
<1>17. Has("stash")' \/ Has("move")' \/ Has("link")'
  BY <1>3, <1>4, <1>5 DEF Has
<1>18. ~witch'.deploy /\ ~deferred' /\ Unscoped'
  BY <1>1, <1>2 DEF TypeOK, Planning, Unscoped
<1>19. Carrying'
  BY <1>1, <1>8, <1>10, <1>11, <1>13, <1>14, <1>15, <1>18 DEF Carrying, RowKinds
<1>20. Starting'
  BY <1>11, <1>12, <1>16, <1>17, <1>18, <1>19 DEF Starting
<1> QED
  BY <1>20 DEF Round

-----------------------------------------------------------------------------
(* Edits, and the round as a whole.                                        *)

\* A round is over where nothing is left to do.
LEMMA QuietSettled ==
  ASSUME Round, Quiet
  PROVE  Settled
<1>1. /\ Drained /\ plan = {} /\ witch.work = "idle" /\ ~witch.rederive
  BY DEF Quiet
<1>2. \A kind : ~Has(kind)
  BY <1>1, NothingLeft DEF Has
<1> QED
  BY <1>1, <1>2 DEF Round, Tagging, Mutating, Analysing, Planning, Starting

\* An edit of a quiet library starts a round.
LEMMA EditKeepsRound ==
  ASSUME TypeOK, Round, Edit, excused' = {}
  PROVE  Round'
<1>1. PICK want \in [File -> Path] \ {db.want} :
    /\ Queue({TagOps(f, want[f]) : f \in {g \in File : want[g] # db.want[g]}}) /\ Working
    /\ excused' = excused \cup Excuse("overtaken", ~Quiet)
    /\ UNCHANGED <<disk, stash, pending, seen, db, writes, stages>>
  BY DEF Edit
<1>2. Quiet
  BY <1>1 DEF Excuse
<1>3. Settled
  BY <1>2, QuietSettled
<1>4. Pool = {} /\ Sent = {}
  BY <1>2, NothingLeft DEF Quiet
<1> DEFINE ts == {TagOps(f, want[f]) : f \in {g \in File : want[g] # db.want[g]}}
<1>5. ts \in SUBSET Task
  BY TasksTyped
<1>6. \A t \in ts : t.kind = "tagops"
  BY DEF TagOps
<1>7. ts # {}
  <2>1. db.want \in [File -> Path]
    BY DEF TypeOK, Db
  <2>2. \E g \in File : want[g] # db.want[g]
    BY <2>1
  <2> QED
    BY <2>2
<1>8. Queue(ts)
  BY <1>1
<1> HIDE DEF ts
<1>9. Pool' = ts
  BY <1>4, <1>5, <1>8, PoolQueues
<1>10. Sent' = {}
  BY <1>1, <1>4 DEF Sent
<1>11. /\ witch'.work = "working" /\ witch'.deploy = witch.deploy
       /\ witch'.pendingScope = witch.pendingScope
  BY <1>1 DEF Working, TypeOK
<1>12. Kinds(RowKinds \cup {"tagops"})' /\ Has("tagops")'
  BY <1>6, <1>7, <1>9 DEF Kinds, Has
<1>13. Tagging'
  BY <1>1, <1>3, <1>10, <1>11, <1>12 DEF Settled, Tagging, Unscoped, stages
<1> QED
  BY <1>13 DEF Round

\* Every step keeps the round, as long as nothing is excused.
LEMMA RoundSteps ==
  ASSUME IInv, [Next]_vars, excused = {} => Round, excused' = {}
  PROVE  Round'
<1>1. TypeOK /\ Resting /\ Watched
  BY DEF IInv
<1>2. excused = {}
  BY <1>1, ExcusedStays
<1>3. Round /\ OneName
  BY <1>1, <1>2 DEF Watched
<1>4. CASE Outside
  BY <1>4 DEF Outside
<1>5. CASE Edit
  BY <1>1, <1>3, <1>5, EditKeepsRound
<1>6. CASE Settle
  BY <1>1, <1>3, <1>6, SettleBeside, RoundKept
<1>7. CASE DbApply
  BY <1>1, <1>3, <1>7, ApplyKeepsRound
<1>8. CASE Work
  <2>1. CASE RowRead \/ ReconcileRead
    BY <1>1, <1>3, <2>1, RowTasksBeside, RoundKept
  <2>2. CASE TagOpsRead
    BY <1>1, <1>3, <2>2, TagOpsKeepsRound
  <2>3. CASE ConflictsRead \/ OverlapsRead \/ HealthRead \/ StatusRead
    BY <1>1, <1>3, <2>3, AnalysisKeepsRound
  <2>4. CASE StashFile \/ MoveChecks \/ MoveFile \/ LinkFile \/ LookRead \/ DeployedRead
    BY <1>1, <1>3, <2>4, MutationsKeepRound
  <2> QED
    BY <1>8, <2>1, <2>2, <2>3, <2>4 DEF Work
<1>9. CASE NextStage
  BY <1>1, <1>3, <1>9, NextStageKeepsRound
<1>10. CASE Completed
  BY <1>1, <1>3, <1>10, CompletedKeepsRound
<1>11. CASE Lingered
  BY <1>1, <1>3, <1>11, LingeredKeepsRound
<1>12. CASE Deploy
  BY <1>1, <1>3, <1>12, DeployKeepsRound
<1>13. CASE Derive
  BY <1>1, <1>3, <1>13, DeriveBeside, RoundKept
<1>14. CASE UNCHANGED vars
  BY <1>1, <1>3, <1>14, RestBeside, RoundKept
<1> QED
  BY <1>4, <1>5, <1>6, <1>7, <1>8, <1>9, <1>10, <1>11, <1>12, <1>13, <1>14 DEF Next, Machine

\* The library is as wanted when the model starts.
LEMMA InitSettled == Init => Settled
<1> SUFFICES ASSUME Init PROVE Settled
  OBVIOUS
<1>1. PICK want \in Wants :
    /\ disk = [p \in Path |-> IF Winners(want, p) = {} THEN None ELSE CHOOSE f \in Winners(want, p) : TRUE]
    /\ db = [rows |-> {<<want[f], f>> : f \in {g \in File : Winner(want, g)}},
             want |-> want, losers |-> {f \in File : ~Winner(want, f)},
             leftover |-> {}, stale |-> [p \in Path |-> None], dirty |-> {},
             ready |-> [f \in File |-> None], deployed |-> [f \in File |-> Winner(want, f)]]
  BY DEF Init
<1>2. want \in [File -> Path] /\ db.want = want
  BY <1>1, WantsType
<1>3. /\ later = {} /\ deferred = FALSE /\ plan = {}
      /\ ~witch.mutated /\ ~witch.pendingScope /\ ~witch.deploy
      /\ tasks = EmptyBag /\ writes = <<>>
  BY DEF Init
<1>4. Pool = {} /\ Sent = {}
  BY <1>3, NothingLeft DEF Drained
<1>5. ASSUME NEW p \in Path
      PROVE  disk[p] = None \/ disk[p] \in Winners(want, p)
  <2>1. CASE Winners(want, p) = {}
    BY <1>1, <2>1
  <2>2. CASE Winners(want, p) # {}
    <3>1. (CHOOSE f \in Winners(want, p) : TRUE) \in Winners(want, p)
      BY <2>2
    <3> QED
      BY <1>1, <2>2, <3>1
  <2> QED
    BY <2>1, <2>2
<1>6. ASSUME NEW f \in File, Winner(want, f)
      PROVE  want[f] \in Path /\ disk[want[f]] = f
  <2>1. want[f] \in Path /\ f \in Winners(want, want[f])
    BY <1>2, <1>6 DEF Winners
  <2>2. (CHOOSE g \in Winners(want, want[f]) : TRUE) \in Winners(want, want[f])
    BY <2>1
  <2>3. disk[want[f]] \in Winners(want, want[f])
    BY <1>1, <2>1, <2>2
  <2>4. disk[want[f]] \in File /\ want[disk[want[f]]] = want[f] /\ Winner(want, disk[want[f]])
    BY <2>3 DEF Winners
  <2> QED
    BY <1>6, <2>1, <2>4, OneWinner
<1>7. \A f \in File : f # None
  BY NoneIsNoPath DEF Inode
<1>8. AsWanted
  BY <1>2, <1>5, <1>6, <1>7 DEF AsWanted, Winners
<1>9. Noticed
  <2>1. Wanting = {}
    BY <1>2, <1>6 DEF Wanting, Somewhere
  <2> QED
    BY <2>1 DEF Noticed, ReadyCovered
<1>10. Kinds(RowKinds) /\ \A ws \in Sent : RowBatch(ws)
  BY <1>4 DEF Kinds
<1> QED
  BY <1>3, <1>8, <1>9, <1>10 DEF Settled, Unscoped

\* A quiet library is current, for any number of files and paths, whatever the tags ask for
\* and however the rounds of events, analysis and deployment interleave: every name in it is
\* the path its file wants, held by the file with the claim, and every claimed path has a
\* file, unless one of the named excuses kept it from that.
THEOREM LibraryIsCurrent == Spec => []LibraryCurrent
<1> DEFINE RInv == IInv /\ (excused = {} => Round)
<1>1. Init => RInv
  <2>1. Init => Round
    BY InitSettled DEF Round
  <2> QED
    BY <2>1, InitKeeps
<1>2. RInv /\ [Next]_vars => RInv'
  <2> SUFFICES ASSUME RInv, [Next]_vars PROVE RInv'
    OBVIOUS
  <2>1. IInv'
    BY StepKeeps
  <2>2. ASSUME excused' = {} PROVE Round'
    BY <2>2, RoundSteps
  <2> QED
    BY <2>1, <2>2
<1>3. RInv => LibraryCurrent
  BY QuietSettled DEF Settled, AsWanted, LibraryCurrent
<1> QED
  BY <1>1, <1>2, <1>3, PTL DEF Spec

=============================================================================
