----------------------------- MODULE Schema_proofs -----------------------------
(***************************************************************************)
(* Proofs about Schema.                                                    *)
(***************************************************************************)
EXTENDS Schema, TLAPS, WellFoundedInduction

-----------------------------------------------------------------------------
(* Induction.                                                              *)

\* A set of numbers has a least one.
LEMMA Least ==
  ASSUME NEW S \in SUBSET Nat, S # {}
  PROVE  \E m \in S : \A k \in S : m <= k
<1>1. IsWellFoundedOn(OpToRel(<, Nat), Nat)
  BY NatLessThanWellFounded
<1>2. PICK m \in S : \A k \in S : <<k, m>> \notin OpToRel(<, Nat)
  BY <1>1, WFMin
<1>3. \A k \in S : <<k, m>> \in Nat \X Nat /\ ~(k < m)
  BY <1>2 DEF OpToRel
<1>4. \A k \in S : k \in Nat /\ m \in Nat /\ ~(k < m)
  BY <1>3
<1>5. \A k \in S : m <= k
  BY <1>4
<1> QED
  BY <1>5

\* A set that has 0, and with each number up to n its successor, has all up to n.
LEMMA SetInduction ==
  ASSUME NEW n \in Nat, NEW S, 0 \in S, \A i \in 1..n : i - 1 \in S => i \in S
  PROVE  0..n \subseteq S
<1> SUFFICES ASSUME 0..n \ S # {} PROVE FALSE
  OBVIOUS
<1>1. 0..n \ S \in SUBSET Nat
  OBVIOUS
<1>2. PICK m \in 0..n \ S : \A k \in 0..n \ S : m <= k
  BY <1>1, Least
<1>3. m \in 1..n
  BY <1>2
<1>4. m - 1 \in 0..n /\ ~(m <= m - 1)
  BY <1>3
<1>5. m - 1 \in S
  BY <1>2, <1>4
<1> QED
  BY <1>2, <1>3, <1>5

-----------------------------------------------------------------------------
(* Databases.                                                              *)

\* Two databases with the same tables, but for their rows.
SameLayout(d, x) ==
  /\ Existing(x) = Existing(d)
  /\ \A n \in Existing(d) : x.tables[n].cols = d.tables[n].cols /\ x.tables[n].shape = d.tables[n].shape
  /\ x.exists = d.exists /\ x.stamp = d.stamp
  /\ x.versions = d.versions /\ x.applied = d.applied

\* What SetRows and Grow do.
LEMMA RowsSet ==
  ASSUME NEW d, IsDatabase(d), d.exists, NEW name, NEW rows
  PROVE  /\ IsDatabase(SetRows(d, name, rows))
         /\ SameLayout(d, SetRows(d, name, rows))
         /\ \A n : Rows(SetRows(d, name, rows), n) =
                     IF n = name /\ name \in Existing(d) THEN rows ELSE Rows(d, n)
<1> DEFINE x == SetRows(d, name, rows)
<1>1. DOMAIN d = {"exists", "tables", "stamp", "versions", "applied"}
  BY DEF IsDatabase, NoDatabase
<1>2. /\ DOMAIN x = DOMAIN d /\ x.exists = d.exists /\ x.stamp = d.stamp
      /\ x.versions = d.versions /\ x.applied = d.applied
  BY <1>1 DEF SetRows
<1>3. x.tables = [d.tables EXCEPT ![name].rows = rows]
  BY <1>1 DEF SetRows
<1>4. Existing(x) = Existing(d)
  BY <1>3 DEF Existing
<1>5. \A n \in Existing(d) :
        /\ DOMAIN x.tables[n] = {"cols", "shape", "rows"}
        /\ x.tables[n].cols = d.tables[n].cols /\ x.tables[n].shape = d.tables[n].shape
        /\ x.tables[n].rows = IF n = name THEN rows ELSE d.tables[n].rows
  BY <1>3 DEF IsDatabase, Existing
<1>6. IsDatabase(x)
  BY <1>2, <1>4, <1>5 DEF IsDatabase
<1>7. SameLayout(d, x)
  BY <1>2, <1>4, <1>5 DEF SameLayout
<1> QED
  BY <1>4, <1>5, <1>6, <1>7 DEF Rows

\* Create adds one table, unless it is there.
LEMMA CreateAdds ==
  ASSUME NEW d, IsDatabase(d), d.exists, NEW r \in DOMAIN Releases, NEW e \in Tables(r)
  PROVE  LET x == Create(d, e) IN
         /\ IsDatabase(x)
         /\ x.exists = d.exists /\ x.stamp = d.stamp
         /\ x.versions = d.versions /\ x.applied = d.applied
         /\ Existing(x) = Existing(d) \cup {e.name}
         /\ \A n \in Existing(d) : x.tables[n] = d.tables[n]
         /\ e.name \notin Existing(d) => x.tables[e.name] = Fresh(e)
         /\ \A n : Rows(x, n) = Rows(d, n)
<1> DEFINE x == Create(d, e)
<1>1. DOMAIN d = {"exists", "tables", "stamp", "versions", "applied"}
  BY DEF IsDatabase, NoDatabase
<1>2. CASE e.name \in Existing(d)
  BY <1>2 DEF Create
<1>3. CASE e.name \notin Existing(d)
  <2>1. /\ DOMAIN x = DOMAIN d /\ x.exists = d.exists /\ x.stamp = d.stamp
        /\ x.versions = d.versions /\ x.applied = d.applied
    BY <1>1, <1>3 DEF Create
  <2>2. x.tables = [n \in Existing(d) \cup {e.name} |-> IF n = e.name THEN Fresh(e) ELSE d.tables[n]]
    BY <1>1, <1>3 DEF Create
  <2>3. /\ Existing(x) = Existing(d) \cup {e.name}
        /\ \A n \in Existing(d) : x.tables[n] = d.tables[n]
        /\ x.tables[e.name] = Fresh(e)
    BY <1>3, <2>2 DEF Existing
  <2>4. DOMAIN Fresh(e) = {"cols", "shape", "rows"} /\ Fresh(e).shape \in Nat /\ Fresh(e).rows = {}
    BY ReleasesType DEF Fresh
  <2>5. IsDatabase(x)
    BY <2>1, <2>3, <2>4 DEF IsDatabase
  <2>6. \A n : Rows(x, n) = Rows(d, n)
    BY <1>3, <2>3, <2>4 DEF Rows
  <2> QED
    BY <2>1, <2>3, <2>5, <2>6
<1> QED
  BY <1>2, <1>3

\* Stamp and StoreVersions leave the tables alone.
LEMMA StampOnly ==
  ASSUME NEW d, IsDatabase(d), d.exists, NEW r \in DOMAIN Releases
  PROVE  LET x == Stamp(d, r) IN
         /\ IsDatabase(x)
         /\ x.exists = d.exists /\ x.tables = d.tables /\ x.stamp = r
         /\ x.versions = d.versions /\ x.applied = d.applied
         /\ r \in Nat /\ r # 0
<1> DEFINE x == Stamp(d, r)
<1>1. DOMAIN d = {"exists", "tables", "stamp", "versions", "applied"}
  BY DEF IsDatabase, NoDatabase
<1>2. r \in 0..Len(Releases) /\ r \in Nat /\ r # 0
  BY ReleasesType DEF IsSeq
<1>3. /\ DOMAIN x = DOMAIN d /\ x.exists = d.exists /\ x.tables = d.tables /\ x.stamp = r
      /\ x.versions = d.versions /\ x.applied = d.applied
  BY <1>1 DEF Stamp
<1>4. IsDatabase(x)
  BY <1>2, <1>3 DEF IsDatabase, Existing
<1> QED
  BY <1>2, <1>3, <1>4

\* An entry is found by its name.
LEMMA OneEntry ==
  ASSUME NEW r \in DOMAIN Releases, NEW e \in Tables(r)
  PROVE  EntryOf(r, e.name) = e
<1>1. \A g \in Tables(r) : g.name = e.name => g = e
  BY OneTable
<1> QED
  BY <1>1 DEF EntryOf

\* The stored versions afterwards are those of the release.
LEMMA VersionsOnly ==
  ASSUME NEW d, IsDatabase(d), d.exists, NEW r \in DOMAIN Releases
  PROVE  LET x == StoreVersions(d, r) IN
         /\ IsDatabase(x)
         /\ x.exists = d.exists /\ x.tables = d.tables /\ x.stamp = d.stamp /\ x.applied = d.applied
         /\ \A e \in Versioned(r) : Stored(x, e.name) = e.blob
         /\ \A n : n \notin Names(Versioned(r)) => Stored(x, n) = Stored(d, n)
<1> DEFINE x == StoreVersions(d, r)
<1>1. DOMAIN d = {"exists", "tables", "stamp", "versions", "applied"}
  BY DEF IsDatabase, NoDatabase
<1>2. /\ DOMAIN x = DOMAIN d /\ x.exists = d.exists /\ x.tables = d.tables /\ x.stamp = d.stamp
      /\ x.applied = d.applied
  BY <1>1 DEF StoreVersions
<1>3. x.versions = [n \in Names(Versioned(r)) \cup DOMAIN d.versions |->
        IF n \in Names(Versioned(r)) THEN EntryOf(r, n).blob ELSE d.versions[n]]
  BY <1>1 DEF StoreVersions
<1>4. \A e \in Versioned(r) : Stored(x, e.name) = e.blob
  BY <1>3, OneEntry DEF Stored, Versioned, Names
<1>5. \A n : n \notin Names(Versioned(r)) => Stored(x, n) = Stored(d, n)
  BY <1>3 DEF Stored
<1>6. IsDatabase(x)
  BY <1>2 DEF IsDatabase, Existing
<1> QED
  BY <1>2, <1>4, <1>5, <1>6

-----------------------------------------------------------------------------
(* The reconciler.                                                         *)

\* The tables after creating, widening and recreating: all those of the release
\* are complete, and a table that was there keeps its shape unless it is new.
LEMMA RebuiltTables ==
  ASSUME NEW d, IsDatabase(d), d.exists, NEW r \in DOMAIN Releases
  PROVE  LET x == Rebuilt(d, r) IN
         /\ IsDatabase(x)
         /\ x.exists = d.exists /\ x.stamp = d.stamp
         /\ x.versions = d.versions /\ x.applied = d.applied
         /\ Existing(x) = Existing(d) \cup Names(Tables(r))
         /\ \A e \in Tables(r) : Complete(x, e)
         /\ \A n \in Existing(x) :
              \/ n \in Existing(d) /\ x.tables[n].shape = d.tables[n].shape
              \/ \E e \in Tables(r) : e.name = n /\ x.tables[n].shape = e.shape
         /\ \A n : Rows(x, n) = IF n \in Names(Recreated(d, r)) THEN {} ELSE Rows(d, n)
<1> DEFINE x == Rebuilt(d, r)
           empty == Names(NewTables(d, r) \cup Recreated(d, r))
           wider == Names(NewColumns(d, r))
           table(n) == IF n \in empty THEN Fresh(EntryOf(r, n))
                       ELSE IF n \in wider THEN [d.tables[n] EXCEPT !.cols = @ \cup EntryOf(r, n).cols]
                       ELSE d.tables[n]
<1>1. DOMAIN d = {"exists", "tables", "stamp", "versions", "applied"}
  BY DEF IsDatabase, NoDatabase
<1>2. /\ DOMAIN x = DOMAIN d /\ x.exists = d.exists /\ x.stamp = d.stamp
      /\ x.versions = d.versions /\ x.applied = d.applied
  BY <1>1 DEF Rebuilt
<1>3. x.tables = [n \in Existing(d) \cup Names(Tables(r)) |-> table(n)]
  BY <1>1 DEF Rebuilt
<1>4. Existing(x) = Existing(d) \cup Names(Tables(r))
  <2> HIDE DEF table
  <2> QED
    BY <1>3 DEF Existing
<1>5. \A n \in Existing(x) : x.tables[n] = table(n)
  <2> HIDE DEF table
  <2> QED
    BY <1>3, <1>4
<1>6. \A e \in Tables(r) : /\ e.name \in empty <=> e \in NewTables(d, r) \cup Recreated(d, r)
                           /\ e.name \in wider <=> e \in NewColumns(d, r)
  <2>1. \A e, g \in Tables(r) : e.name = g.name => e = g
    BY OneTable
  <2> QED
    BY <2>1 DEF Names, NewTables, Recreated, NewColumns, Lacking, Unreadable, Computed, Versioned
<1>7. empty \subseteq Names(Tables(r)) /\ wider \subseteq Names(Tables(r)) \cap Existing(d)
  BY DEF Names, NewTables, Recreated, NewColumns, Lacking, Unreadable, Computed, Versioned
<1>8. \A n \in empty : \E e \in Tables(r) : e.name = n /\ table(n) = Fresh(e)
  BY <1>7, OneEntry DEF Names
<1>9. \A n \in Existing(x) \ empty :
        /\ n \in Existing(d)
        /\ DOMAIN table(n) = {"cols", "shape", "rows"}
        /\ table(n).shape = d.tables[n].shape /\ table(n).rows = d.tables[n].rows
        /\ table(n).cols = IF n \in wider THEN d.tables[n].cols \cup EntryOf(r, n).cols
                           ELSE d.tables[n].cols
  <2> SUFFICES ASSUME NEW n \in Existing(x) \ empty
               PROVE  /\ n \in Existing(d)
                      /\ DOMAIN table(n) = {"cols", "shape", "rows"}
                      /\ table(n).shape = d.tables[n].shape /\ table(n).rows = d.tables[n].rows
                      /\ table(n).cols = IF n \in wider THEN d.tables[n].cols \cup EntryOf(r, n).cols
                                         ELSE d.tables[n].cols
    OBVIOUS
  <2>1. n \in Existing(d)
    BY <1>4 DEF Names, NewTables
  <2>2. DOMAIN d.tables[n] = {"cols", "shape", "rows"}
    BY <2>1 DEF IsDatabase
  <2> QED
    BY <2>1, <2>2
<1>10. \A e \in Tables(r) : /\ DOMAIN Fresh(e) = {"cols", "shape", "rows"}
                            /\ Fresh(e).shape = e.shape /\ e.shape \in Nat
                            /\ Fresh(e).cols = e.cols /\ Fresh(e).rows = {}
  BY ReleasesType DEF Fresh
<1> HIDE DEF table, empty, wider, x
<1>11. \A n \in Existing(x) : DOMAIN x.tables[n] = {"cols", "shape", "rows"} /\ x.tables[n].shape \in Nat
  <2> SUFFICES ASSUME NEW n \in Existing(x)
               PROVE  DOMAIN x.tables[n] = {"cols", "shape", "rows"} /\ x.tables[n].shape \in Nat
    OBVIOUS
  <2>1. CASE n \in empty
    BY <1>5, <1>8, <1>10, <2>1
  <2>2. CASE n \notin empty
    BY <1>5, <1>9, <2>2 DEF IsDatabase
  <2> QED
    BY <2>1, <2>2
<1>12. IsDatabase(x)
  BY <1>2, <1>11 DEF IsDatabase
<1>13. \A e \in Tables(r) : Complete(x, e)
  <2> SUFFICES ASSUME NEW e \in Tables(r) PROVE Complete(x, e)
    OBVIOUS
  <2>1. e.name \in Existing(x)
    BY <1>4 DEF Names
  <2>2. CASE e.name \in empty
    <3>1. PICK g \in Tables(r) : g.name = e.name /\ table(e.name) = Fresh(g)
      BY <1>8, <2>2
    <3>2. g = e
      BY <3>1, OneTable
    <3> QED
      BY <1>5, <1>10, <2>1, <3>1, <3>2 DEF Complete
  <2>3. CASE e.name \in wider /\ e.name \notin empty
    BY <1>5, <1>9, <2>1, <2>3, OneEntry DEF Complete
  <2>4. CASE e.name \notin wider /\ e.name \notin empty
    <3>1. e \notin NewTables(d, r) /\ e \notin Lacking(d, r)
      BY <1>6, <2>4 DEF Recreated, NewColumns
    <3> QED
      BY <1>5, <1>9, <2>1, <2>4, <3>1 DEF Complete, Lacking
  <2> QED
    BY <2>2, <2>3, <2>4
<1>14. \A n \in Existing(x) :
         \/ n \in Existing(d) /\ x.tables[n].shape = d.tables[n].shape
         \/ \E e \in Tables(r) : e.name = n /\ x.tables[n].shape = e.shape
  <2> SUFFICES ASSUME NEW n \in Existing(x)
               PROVE  \/ n \in Existing(d) /\ x.tables[n].shape = d.tables[n].shape
                      \/ \E e \in Tables(r) : e.name = n /\ x.tables[n].shape = e.shape
    OBVIOUS
  <2>1. CASE n \in empty
    BY <1>5, <1>8, <1>10, <2>1
  <2>2. CASE n \notin empty
    BY <1>5, <1>9, <2>2
  <2> QED
    BY <2>1, <2>2
<1>15. \A n : Rows(x, n) = IF n \in Names(Recreated(d, r)) THEN {} ELSE Rows(d, n)
  <2> SUFFICES ASSUME NEW n
               PROVE  Rows(x, n) = IF n \in Names(Recreated(d, r)) THEN {} ELSE Rows(d, n)
    OBVIOUS
  <2>1. CASE n \in empty
    <3>1. n \in Existing(x)
      BY <1>4, <1>7, <2>1
    <3>2. Rows(x, n) = {}
      BY <1>5, <1>8, <1>10, <2>1, <3>1 DEF Rows
    <3>3. n \notin Names(Recreated(d, r)) => Rows(d, n) = {}
      BY <2>1 DEF empty, Names, NewTables, Rows
    <3> QED
      BY <3>2, <3>3
  <2>2. CASE n \notin empty
    <3>1. n \notin Names(Recreated(d, r))
      BY <2>2 DEF empty, Names
    <3>2. n \in Existing(x) <=> n \in Existing(d)
      BY <1>4, <1>9, <2>2
    <3> QED
      BY <1>5, <1>9, <2>2, <3>1, <3>2 DEF Rows
  <2> QED
    BY <2>1, <2>2
<1> QED
  BY <1>2, <1>4, <1>12, <1>13, <1>14, <1>15 DEF x

\* The rows that last are there, those of the legacy files perhaps among the inodes.
Lasts(d, x) ==
  /\ Rows(d, "files") \subseteq Rows(x, "files") \cup Rows(x, "inodes")
  /\ \A n \in {"inodes", "audio", "tags", "choices", "users"} : Rows(d, n) \subseteq Rows(x, n)

\* Then nothing irreplaceable is lost.
LEMMA LastingRows ==
  ASSUME NEW d, NEW x, Lasts(d, x)
  PROVE  Irreplaceable(d) \subseteq Irreplaceable(x)
  BY DEF Lasts, Irreplaceable

\* Signals have the versions that the release will have stored.
DatedFor(x, d, r) ==
  \A t \in AllComputed : \A row \in Rows(x, t) : row.version = Stored(StoreVersions(d, r), t)

\* What holds from d on, all along the reconciliation: x is what it has got to.
Along(d, x, r) ==
  /\ IsDatabase(x) /\ x.exists
  /\ x.versions = d.versions /\ d.applied \subseteq x.applied
  /\ \A e \in Tables(r) : Complete(x, e)
  /\ Lasts(d, x)
  /\ "files" \notin Existing(d) => "files" \notin Existing(x) /\ Known(d) \subseteq Known(x)
  /\ AboutFiles(x) /\ Shaped(x)
  /\ Dated(d) => DatedFor(x, d, r)

\* What is recreated is computed, and what is computed is not what lasts.
LEMMA RecreatedIsComputed ==
  ASSUME NEW r \in DOMAIN Releases, NEW d
  PROVE  /\ Names(Recreated(d, r)) \subseteq Names(Computed(r))
         /\ Names(Computed(r)) \subseteq AllComputed
         /\ Stock \cap Names(Recreated(d, r)) = {}
<1>1. Recreated(d, r) \subseteq Computed(r)
  BY DEF Recreated, Unreadable
<1>2. Names(Computed(r)) \subseteq AllComputed
  BY DEF AllComputed
<1>3. Names(Recreated(d, r)) \subseteq Names(Computed(r))
  BY <1>1 DEF Names
<1> QED
  BY <1>2, <1>3, OneTable

\* What is owed is on the list of every release that computes it.
LEMMA OwedIsComputed == Owed \subseteq AllComputed
  BY DEF Owed

LEMMA OwedIsListed ==
  ASSUME NEW r \in DOMAIN Releases, NEW t \in Owed, t \in Names(Computed(r))
  PROVE  t \in Releases[r].seeds
<1>1. PICK e \in Computed(r) : e.name = t
  BY DEF Names
<1> QED
  BY <1>1 DEF Owed

\* A row stays, or its table is recreated and a mark is seeded for it: the marks
\* are taken from the paths, which a legacy database does not have yet.
LEMMA WithTablesAlong ==
  ASSUME NEW d, IsDatabase(d), d.exists, NEW r \in DOMAIN Releases,
         AboutFiles(d), Shaped(d)
  PROVE  Along(d, WithTables(d, r), r)
<1> DEFINE y == Rebuilt(d, r)
           x == WithTables(d, r)
           seeds == Indexed(y) \X Releases[r].seeds
<1>1. /\ IsDatabase(y) /\ y.exists = d.exists /\ y.stamp = d.stamp
      /\ y.versions = d.versions /\ y.applied = d.applied
      /\ Existing(y) = Existing(d) \cup Names(Tables(r))
      /\ \A e \in Tables(r) : Complete(y, e)
      /\ \A n : Rows(y, n) = IF n \in Names(Recreated(d, r)) THEN {} ELSE Rows(d, n)
  BY RebuiltTables
<1>2. \A n \in Existing(y) :
        \/ n \in Existing(d) /\ y.tables[n].shape = d.tables[n].shape
        \/ \E e \in Tables(r) : e.name = n /\ y.tables[n].shape = e.shape
  BY RebuiltTables
<1> HIDE DEF y
<1>3. /\ IsDatabase(x) /\ SameLayout(y, x)
      /\ \A n : n # "dirty" => Rows(x, n) = Rows(y, n)
      /\ Rows(x, "dirty") = IF Recreated(d, r) = {} THEN Rows(y, "dirty")
                            ELSE Rows(y, "dirty") \cup seeds
  <2>1. CASE Recreated(d, r) = {}
    BY <1>1, <2>1 DEF WithTables, SameLayout, y
  <2>2. CASE Recreated(d, r) # {}
    <3>1. x = SetRows(y, "dirty", Rows(y, "dirty") \cup seeds)
      BY <2>2 DEF WithTables, Seeded, Grow, y
    <3>2. "dirty" \in Existing(y)
      BY <1>1, InventoryStart
    <3>3. IsDatabase(y) /\ y.exists
      BY <1>1
    <3>4. /\ IsDatabase(x) /\ SameLayout(y, x)
          /\ \A n : Rows(x, n) = IF n = "dirty" /\ "dirty" \in Existing(y)
                                THEN Rows(y, "dirty") \cup seeds ELSE Rows(y, n)
      BY <3>1, <3>3, RowsSet
    <3> QED
      BY <2>2, <3>2, <3>4
  <2> QED
    BY <2>1, <2>2
<1> HIDE DEF x
<1>4. \A n \in Stock : Rows(y, n) = Rows(d, n)
  BY <1>1, RecreatedIsComputed
<1>5. \A n \in Lasting : Rows(x, n) = Rows(d, n)
  BY <1>3, <1>4 DEF Lasting, Stock
<1>6. Lasts(d, x)
  BY <1>5 DEF Lasts, Lasting
<1>7. \A e \in Tables(r) : Complete(x, e)
  BY <1>1, <1>3 DEF Complete, SameLayout
<1>8. Rows(d, "dirty") \subseteq Rows(x, "dirty")
  BY <1>3, <1>4 DEF Stock
<1>9. ASSUME "files" \notin Existing(d)
      PROVE  "files" \notin Existing(x) /\ Known(d) \subseteq Known(x)
  <2>1. "files" \notin Existing(x)
    BY <1>1, <1>3, <1>9, InventoryStart DEF SameLayout
  <2>2. ASSUME NEW t \in Owed, NEW row \in Rows(d, t)
        PROVE  <<row.of, t>> \in Known(x)
    <3> t \in AllComputed
      BY OwedIsComputed
    <3>1. CASE t \in Names(Recreated(d, r))
      <4>1. row.of \in Rows(d, "audio") \cap Rows(d, "inodes")
        BY <1>9 DEF AboutFiles, Rows
      <4>5. row.of \in Indexed(y)
        BY <1>4, <4>1 DEF Indexed, Stock, Lasting
      <4>6. t \in Releases[r].seeds
        BY <3>1, RecreatedIsComputed, OwedIsListed
      <4>2. <<row.of, t>> \in seeds /\ <<row.of, t>>[2] = t
        BY <4>5, <4>6
      <4>3. Recreated(d, r) # {}
        BY <3>1 DEF Names
      <4> QED
        BY <1>3, <4>2, <4>3 DEF Known
    <3>2. CASE t \notin Names(Recreated(d, r))
      <4>1. t # "dirty"
        BY OneTable DEF Stock
      <4>2. row \in Rows(x, t)
        BY <1>1, <1>3, <3>2, <4>1
      <4> QED
        BY <4>2 DEF Known
    <3> QED
      BY <3>1, <3>2
  <2> QED
    BY <1>8, <2>1, <2>2 DEF Known
<1>10. AboutFiles(x)
  <2>1. \A t \in AllComputed : Rows(x, t) \subseteq Rows(d, t)
    BY <1>1, <1>3, OneTable DEF Stock
  <2>2. /\ Rows(x, "audio") = Rows(d, "audio") /\ Rows(x, "inodes") = Rows(d, "inodes")
        /\ Rows(x, "files") = Rows(d, "files")
    BY <1>5 DEF Lasting
  <2>3. Indexed(y) \subseteq Rows(d, "audio") \cap Rows(d, "inodes")
    BY <1>4 DEF Indexed, Stock, Lasting
  <2>4. \A mark \in seeds : mark[1] \in Rows(d, "audio") \cap Rows(d, "inodes")
    BY <2>3
  <2>5. Rows(x, "dirty") \subseteq Rows(d, "dirty") \cup seeds
    BY <1>3, <1>4 DEF Stock
  <2> QED
    BY <2>1, <2>2, <2>4, <2>5 DEF AboutFiles
<1>11. Shaped(x)
  <2> SUFFICES ASSUME NEW s \in DOMAIN Releases, NEW e \in Tables(s),
                      e.kind # "Computed", e.name \in Existing(x)
               PROVE  \/ x.tables[e.name].shape = e.shape
                      \/ \E m \in Migrations(s) :
                           m.does = "rebuild" /\ m.on = e.name /\ m.id \notin x.applied
    BY DEF Shaped
  <2>1. e.name \in Existing(y) /\ x.tables[e.name].shape = y.tables[e.name].shape
        /\ x.applied = d.applied
    BY <1>1, <1>3 DEF SameLayout
  <2>2. CASE \E g \in Tables(r) : g.name = e.name /\ y.tables[e.name].shape = g.shape
    BY <2>1, <2>2, OneTable
  <2>3. CASE e.name \in Existing(d) /\ y.tables[e.name].shape = d.tables[e.name].shape
    BY <2>1, <2>3 DEF Shaped
  <2> QED
    BY <1>2, <2>1, <2>2, <2>3
<1>12. ASSUME Dated(d) PROVE DatedFor(x, d, r)
  <2> SUFFICES ASSUME NEW t \in AllComputed, NEW row \in Rows(x, t)
               PROVE  row.version = Stored(StoreVersions(d, r), t)
    BY DEF DatedFor
  <2>1. t # "dirty"
    BY OneTable DEF Stock
  <2>2. row \in Rows(d, t) /\ t \notin Names(Recreated(d, r))
    BY <1>1, <1>3, <2>1
  <2>3. row.version = Stored(d, t)
    BY <1>12, <2>2 DEF Dated
  <2>4. CASE t \in Names(Versioned(r))
    <3>1. PICK e \in Versioned(r) : e.name = t
      BY <2>4 DEF Names
    <3>2. e \in Computed(r)
      <4>1. PICK s \in DOMAIN Releases : t \in Names(Computed(s))
        BY DEF AllComputed
      <4>2. PICK g \in Computed(s) : g.name = t
        BY <4>1 DEF Names
      <4> QED
        BY <3>1, <4>2, OneTable DEF Computed, Versioned
    <3>3. e \notin Unreadable(d, r)
      BY <2>2, <3>1 DEF Recreated, Names
    <3> QED
      BY <2>3, <3>1, <3>2, <3>3, VersionsOnly DEF Unreadable
  <2>5. CASE t \notin Names(Versioned(r))
    BY <2>3, <2>5, VersionsOnly
  <2> QED
    BY <2>4, <2>5
<1> QED
  BY <1>1, <1>3, <1>6, <1>7, <1>9, <1>10, <1>11, <1>12 DEF Along, SameLayout, x

\* Two databases of the same versions, with the same migrations behind them.
SameRecords(x, y) ==
  IsDatabase(y) /\ y.exists = x.exists /\ y.versions = x.versions /\ y.applied = x.applied

\* A table goes, and the others stay.
LEMMA TableDropped ==
  ASSUME NEW x, IsDatabase(x), x.exists, NEW name,
         NEW y, y = WithoutTable(x, name)
  PROVE  /\ SameRecords(x, y)
         /\ Existing(y) = Existing(x) \ {name}
         /\ \A n \in Existing(y) : y.tables[n] = x.tables[n]
         /\ Rows(y, name) = {} /\ \A n : n # name => Rows(y, n) = Rows(x, n)
<1>1. DOMAIN x = {"exists", "tables", "stamp", "versions", "applied"}
  BY DEF IsDatabase, NoDatabase
<1>2. /\ DOMAIN y = DOMAIN x /\ y.exists = x.exists /\ y.stamp = x.stamp
      /\ y.versions = x.versions /\ y.applied = x.applied
  BY <1>1 DEF WithoutTable
<1>3. y.tables = [n \in Existing(x) \ {name} |-> x.tables[n]]
  BY <1>1 DEF WithoutTable
<1>4. /\ Existing(y) = Existing(x) \ {name}
      /\ \A n \in Existing(y) : y.tables[n] = x.tables[n]
  BY <1>3 DEF Existing
<1>5. IsDatabase(y)
  BY <1>2, <1>4 DEF IsDatabase
<1> QED
  BY <1>2, <1>4, <1>5 DEF Rows, SameRecords

\* What a column pruned, and a table rebuilt with other keys, leave.
Pruned(x, name, column) == [x EXCEPT !.tables[name].cols = @ \ {column}]
Reshaped(x, name, shape) == [x EXCEPT !.tables[name].shape = shape]

\* A column goes, and the rest stays.
LEMMA ColumnDropped ==
  ASSUME NEW x, IsDatabase(x), x.exists, NEW name, NEW column,
         NEW y, y = Pruned(x, name, column)
  PROVE  /\ SameRecords(x, y)
         /\ Existing(y) = Existing(x)
         /\ \A n \in Existing(x) :
              /\ y.tables[n].shape = x.tables[n].shape
              /\ n # name => y.tables[n].cols = x.tables[n].cols
              /\ n = name => y.tables[n].cols = x.tables[n].cols \ {column}
         /\ \A n : Rows(y, n) = Rows(x, n)
<1>1. DOMAIN x = {"exists", "tables", "stamp", "versions", "applied"}
  BY DEF IsDatabase, NoDatabase
<1>2. /\ DOMAIN y = DOMAIN x /\ y.exists = x.exists /\ y.stamp = x.stamp
      /\ y.versions = x.versions /\ y.applied = x.applied
  BY <1>1 DEF Pruned
<1>3. y.tables = [x.tables EXCEPT ![name].cols = @ \ {column}]
  BY <1>1 DEF Pruned
<1>4. Existing(y) = Existing(x)
  BY <1>3 DEF Existing
<1>5. \A n \in Existing(x) :
        /\ DOMAIN y.tables[n] = {"cols", "shape", "rows"}
        /\ y.tables[n].shape = x.tables[n].shape /\ y.tables[n].rows = x.tables[n].rows
        /\ y.tables[n].cols = IF n = name THEN x.tables[n].cols \ {column} ELSE x.tables[n].cols
  <2> TAKE n \in Existing(x)
  <2>1. DOMAIN x.tables[n] = {"cols", "shape", "rows"}
    BY DEF IsDatabase
  <2>2. y.tables[n] = IF n = name THEN [x.tables[n] EXCEPT !.cols = @ \ {column}] ELSE x.tables[n]
    BY <1>3 DEF Existing
  <2> QED
    BY <2>1, <2>2
<1>6. IsDatabase(y)
  BY <1>2, <1>4, <1>5 DEF IsDatabase
<1> QED
  BY <1>2, <1>4, <1>5, <1>6 DEF Rows, SameRecords

\* A table gets other keys, and the rest stays.
LEMMA ShapeChanged ==
  ASSUME NEW x, IsDatabase(x), x.exists, NEW name, NEW shape \in Nat,
         NEW y, y = Reshaped(x, name, shape)
  PROVE  /\ SameRecords(x, y)
         /\ Existing(y) = Existing(x)
         /\ \A n \in Existing(x) :
              /\ y.tables[n].cols = x.tables[n].cols
              /\ n # name => y.tables[n].shape = x.tables[n].shape
              /\ n = name => y.tables[n].shape = shape
         /\ \A n : Rows(y, n) = Rows(x, n)
<1>1. DOMAIN x = {"exists", "tables", "stamp", "versions", "applied"}
  BY DEF IsDatabase, NoDatabase
<1>2. /\ DOMAIN y = DOMAIN x /\ y.exists = x.exists /\ y.stamp = x.stamp
      /\ y.versions = x.versions /\ y.applied = x.applied
  BY <1>1 DEF Reshaped
<1>3. y.tables = [x.tables EXCEPT ![name].shape = shape]
  BY <1>1 DEF Reshaped
<1>4. Existing(y) = Existing(x)
  BY <1>3 DEF Existing
<1>5. \A n \in Existing(x) :
        /\ DOMAIN y.tables[n] = {"cols", "shape", "rows"}
        /\ y.tables[n].cols = x.tables[n].cols /\ y.tables[n].rows = x.tables[n].rows
        /\ y.tables[n].shape = IF n = name THEN shape ELSE x.tables[n].shape
  BY <1>3 DEF IsDatabase, Existing
<1>6. \A n \in Existing(x) : y.tables[n].shape \in Nat
  BY <1>5 DEF IsDatabase
<1>7. IsDatabase(y)
  BY <1>2, <1>4, <1>5, <1>6 DEF IsDatabase
<1> QED
  BY <1>2, <1>4, <1>5, <1>7 DEF Rows, SameRecords

\* Files that have audio_info and a path, in either layout.
Placed(x) == Rows(x, "audio") \cap (Rows(x, "inodes") \cup Rows(x, "files"))

\* A step of the reconciliation that loses nothing leaves the rest as it was.
LEMMA StepAlong ==
  ASSUME NEW r \in DOMAIN Releases, NEW d, NEW x, Along(d, x, r), NEW y,
         IsDatabase(y), y.exists, y.versions = x.versions, y.applied = x.applied,
         Existing(y) \subseteq Existing(x),
         \A e \in Tables(r) : Complete(y, e),
         \A n \in Existing(y) :
           \/ y.tables[n].shape = x.tables[n].shape
           \/ \A s \in DOMAIN Releases : \A e \in Tables(s) : e.name = n => y.tables[n].shape = e.shape,
         Lasts(x, y),
         \A n \in AllComputed \cup {"dirty"} : Rows(x, n) \subseteq Rows(y, n),
         \A t \in AllComputed : \A row \in Rows(y, t) \ Rows(x, t) :
           row.of \in Placed(y) /\ row.version = Stored(StoreVersions(d, r), t),
         \A mark \in Rows(y, "dirty") \ Rows(x, "dirty") : mark[1] \in Placed(y)
  PROVE  Along(d, y, r)
<1>1. Lasts(d, y)
  BY DEF Along, Lasts
<1>2. Known(x) \subseteq Known(y)
  BY OwedIsComputed DEF Known
<1>3. Placed(x) \subseteq Placed(y)
  BY DEF Lasts, Placed
<1>4. AboutFiles(x)
  BY DEF Along
<1>5. AboutFiles(y)
  BY <1>3, <1>4 DEF AboutFiles, Placed
<1>6. Shaped(y)
  <2> SUFFICES ASSUME NEW s \in DOMAIN Releases, NEW e \in Tables(s),
                      e.kind # "Computed", e.name \in Existing(y)
               PROVE  \/ y.tables[e.name].shape = e.shape
                      \/ \E m \in Migrations(s) :
                           m.does = "rebuild" /\ m.on = e.name /\ m.id \notin y.applied
    BY DEF Shaped
  <2> QED
    BY DEF Along, Shaped
<1>7. Dated(d) => DatedFor(y, d, r)
  BY DEF Along, DatedFor
<1> QED
  BY <1>1, <1>2, <1>5, <1>6, <1>7 DEF Along

\* So does a statement that only sets the rows of a table.
LEMMA RowsAlong ==
  ASSUME NEW r \in DOMAIN Releases, NEW d, NEW x, Along(d, x, r), NEW name, NEW rows,
         name \in Lasting \cup {"dirty"} \cup AllComputed => Rows(x, name) \subseteq rows,
         name \in AllComputed => \A row \in rows \ Rows(x, name) :
           row.of \in Placed(x) /\ row.version = Stored(StoreVersions(d, r), name),
         name = "dirty" => \A mark \in rows \ Rows(x, name) : mark[1] \in Placed(x)
  PROVE  Along(d, SetRows(x, name, rows), r) /\ SetRows(x, name, rows).applied = x.applied
<1> DEFINE y == SetRows(x, name, rows)
<1>1. IsDatabase(x) /\ x.exists
  BY DEF Along
<1>2. /\ IsDatabase(y) /\ SameLayout(x, y)
      /\ \A n : Rows(y, n) = IF n = name /\ name \in Existing(x) THEN rows ELSE Rows(x, n)
  BY <1>1, RowsSet
<1> HIDE DEF y
<1>3. \A n \in Lasting \cup {"dirty"} \cup AllComputed : Rows(x, n) \subseteq Rows(y, n)
  BY <1>2
<1>4. Lasts(x, y)
  BY <1>3 DEF Lasts, Lasting
<1>5. Placed(x) \subseteq Placed(y)
  BY <1>3 DEF Placed, Lasting
<1>6. \A e \in Tables(r) : Complete(y, e)
  BY <1>2 DEF Along, Complete, SameLayout
<1>7. \A t \in AllComputed : \A row \in Rows(y, t) \ Rows(x, t) :
        row.of \in Placed(y) /\ row.version = Stored(StoreVersions(d, r), t)
  BY <1>2, <1>5
<1>8. \A mark \in Rows(y, "dirty") \ Rows(x, "dirty") : mark[1] \in Placed(y)
  BY <1>2, <1>5
<1>9. /\ y.exists /\ y.versions = x.versions /\ y.applied = x.applied
      /\ Existing(y) \subseteq Existing(x)
      /\ \A n \in Existing(y) : y.tables[n].shape = x.tables[n].shape
  BY <1>1, <1>2 DEF SameLayout
<1>10. Along(d, y, r)
  BY <1>2, <1>3, <1>4, <1>6, <1>7, <1>8, <1>9, StepAlong
<1> QED
  BY <1>9, <1>10 DEF y

\* A migration of the release loses nothing that lasts, and undoes no table of
\* the release: one that rebuilds a table gives it its shape.
LEMMA EffectAlong ==
  ASSUME NEW r \in DOMAIN Releases, NEW d, IsDatabase(d), d.exists, BlobsOnly(d),
         NEW x, Along(d, x, r), NEW m \in Migrations(r)
  PROVE  LET y == Effect(x, m) IN
         /\ Along(d, y, r) /\ y.applied = x.applied
         /\ m.does = "rebuild" /\ m.on \in Existing(y) => y.tables[m.on].shape = m.arg
<1> DEFINE y == Effect(x, m)
<1>1. IsDatabase(x) /\ x.exists
  BY DEF Along
<1>2. /\ m.does \in {"wipe", "drop"} => m.on \notin Lasting \cup {"dirty"} \cup AllComputed
      /\ m.does = "drop" => m.on \notin Names(Tables(r))
      /\ m.does = "prune" => \A e \in Tables(r) : e.name = m.on => m.arg \notin e.cols
      /\ m.does = "rebuild" =>
           \A s \in DOMAIN Releases : \A e \in Tables(s) : e.name = m.on => e.shape = m.arg
      /\ m.does = "seed" => m.on \notin {"dirty"} \cup AllComputed
      /\ m.does = "backfill" => \A s \in DOMAIN Releases : \A e \in Tables(s) : e.name = m.on => e.blob = 0
      /\ m.does \in {"reseed", "backfill"} => m.on \in AllComputed
  BY MigrationsFit
<1>3. CASE m.does = "wipe"
  <2>1. y = SetRows(x, m.on, {})
    BY <1>3 DEF Effect
  <2>2. m.on \notin Lasting \cup {"dirty"} \cup AllComputed
    BY <1>2, <1>3
  <2>3. Along(d, y, r) /\ y.applied = x.applied
    BY <2>1, <2>2, RowsAlong
  <2> QED
    BY <1>3, <2>3
<1>4. CASE m.does = "drop"
  <2>1. y = WithoutTable(x, m.on)
    BY <1>4 DEF Effect
  <2>2. m.on \notin Lasting \cup {"dirty"} \cup AllComputed \cup Names(Tables(r))
    BY <1>2, <1>4
  <2>3. /\ SameRecords(x, y)
        /\ Existing(y) = Existing(x) \ {m.on}
        /\ \A n \in Existing(y) : y.tables[n] = x.tables[n]
        /\ Rows(y, m.on) = {} /\ \A n : n # m.on => Rows(y, n) = Rows(x, n)
    <3> HIDE DEF y
    <3> QED
      BY <1>1, <2>1, TableDropped
  <2> HIDE DEF y
  <2>4. \A n \in Lasting \cup {"dirty"} \cup AllComputed : Rows(y, n) = Rows(x, n)
    BY <2>2, <2>3
  <2>5. \A e \in Tables(r) : Complete(y, e)
    BY <2>2, <2>3 DEF Along, Complete, Names
  <2>6. Lasts(x, y)
    BY <2>4 DEF Lasts, Lasting
  <2>7. Along(d, y, r)
    BY <1>1, <2>3, <2>4, <2>5, <2>6, StepAlong DEF SameRecords
  <2> QED
    BY <1>4, <2>3, <2>7 DEF y, SameRecords
<1>5. CASE m.does = "split"
  <2> DEFINE z == SetRows(x, "inodes", Rows(x, "inodes") \cup Rows(x, "files"))
  <2>1. CASE "files" \notin Existing(x)
    BY <1>5, <2>1 DEF Effect, Split
  <2>2. CASE "files" \in Existing(x)
    <3>1. y = WithoutTable(z, "files")
      BY <1>5, <2>2 DEF Effect, Split, Grow
    <3>2. /\ IsDatabase(z) /\ SameLayout(x, z)
          /\ \A n : Rows(z, n) = IF n = "inodes" /\ "inodes" \in Existing(x)
                                 THEN Rows(x, "inodes") \cup Rows(x, "files") ELSE Rows(x, n)
      BY <1>1, RowsSet
    <3>3. z.exists
      BY <1>1, <3>2 DEF SameLayout
    <3> HIDE DEF z
    <3>4. /\ SameRecords(z, y)
          /\ Existing(y) = Existing(z) \ {"files"}
          /\ \A n \in Existing(y) : y.tables[n] = z.tables[n]
          /\ Rows(y, "files") = {} /\ \A n : n # "files" => Rows(y, n) = Rows(z, n)
      <4> HIDE DEF y
      <4> QED
        BY <3>1, <3>2, <3>3, TableDropped
    <3> HIDE DEF y
    <3>5. "inodes" \in Existing(x)
      BY InventoryStart DEF Along, Complete, Tables
    <3>6. /\ Rows(y, "inodes") = Rows(x, "inodes") \cup Rows(x, "files")
          /\ \A n : n \notin {"files", "inodes"} => Rows(y, n) = Rows(x, n)
      BY <3>2, <3>4, <3>5
    <3>7. \A n \in AllComputed \cup {"dirty"} : Rows(y, n) = Rows(x, n)
      BY <3>6, OneTable DEF Stock, Lasting
    <3>8. Lasts(x, y)
      BY <3>6 DEF Lasts
    <3>9. \A e \in Tables(r) : Complete(y, e)
      BY <3>2, <3>4, InventoryStart DEF Along, Complete, SameLayout, Names
    <3>10. /\ y.exists /\ y.versions = x.versions /\ y.applied = x.applied
           /\ Existing(y) \subseteq Existing(x)
           /\ \A n \in Existing(y) : y.tables[n].shape = x.tables[n].shape
      BY <3>2, <3>3, <3>4 DEF SameLayout, SameRecords
    <3>11. Along(d, y, r)
      BY <3>4, <3>7, <3>8, <3>9, <3>10, StepAlong DEF SameRecords
    <3> QED
      BY <1>5, <3>10, <3>11 DEF y
  <2> QED
    BY <2>1, <2>2
<1>6. CASE m.does = "prune"
  <2>1. y = Pruned(x, m.on, m.arg)
    BY <1>6 DEF Effect, Pruned
  <2>2. /\ SameRecords(x, y)
        /\ Existing(y) = Existing(x)
        /\ \A n \in Existing(x) :
             /\ y.tables[n].shape = x.tables[n].shape
             /\ n # m.on => y.tables[n].cols = x.tables[n].cols
             /\ n = m.on => y.tables[n].cols = x.tables[n].cols \ {m.arg}
        /\ \A n : Rows(y, n) = Rows(x, n)
    <3> HIDE DEF y
    <3> QED
      BY <1>1, <2>1, ColumnDropped
  <2> HIDE DEF y
  <2>3. \A e \in Tables(r) : Complete(y, e)
    BY <1>2, <1>6, <2>2 DEF Along, Complete
  <2>4. Lasts(x, y)
    BY <2>2 DEF Lasts
  <2>5. Along(d, y, r)
    BY <1>1, <2>2, <2>3, <2>4, StepAlong DEF SameRecords
  <2> QED
    BY <1>6, <2>2, <2>5 DEF y, SameRecords
<1>7. CASE m.does = "rebuild"
  <2>1. CASE x.tables[m.on].shape = m.arg
    BY <1>7, <2>1 DEF Effect, Rebuild
  <2>2. CASE x.tables[m.on].shape # m.arg
    <3>1. y = Reshaped(x, m.on, m.arg)
      BY <1>7, <2>2 DEF Effect, Rebuild, Reshaped
    <3>2. m.arg \in Nat
      BY <1>7, ReleasesType
    <3>3. /\ SameRecords(x, y)
          /\ Existing(y) = Existing(x)
          /\ \A n \in Existing(x) :
               /\ y.tables[n].cols = x.tables[n].cols
               /\ n # m.on => y.tables[n].shape = x.tables[n].shape
               /\ n = m.on => y.tables[n].shape = m.arg
          /\ \A n : Rows(y, n) = Rows(x, n)
      <4> HIDE DEF y
      <4> QED
        BY <1>1, <3>1, <3>2, ShapeChanged
    <3> HIDE DEF y
    <3>4. \A e \in Tables(r) : Complete(y, e)
      BY <3>3 DEF Along, Complete
    <3>5. Lasts(x, y)
      BY <3>3 DEF Lasts
    <3>6. \A n \in Existing(y) :
            \/ y.tables[n].shape = x.tables[n].shape
            \/ \A s \in DOMAIN Releases : \A e \in Tables(s) : e.name = n => y.tables[n].shape = e.shape
      BY <1>2, <1>7, <3>3
    <3>7. Along(d, y, r)
      BY <1>1, <3>3, <3>4, <3>5, <3>6, StepAlong DEF SameRecords
    <3> QED
      BY <3>3, <3>7 DEF y, SameRecords
  <2> QED
    BY <2>1, <2>2
<1>8. CASE m.does = "seed"
  <2>1. CASE Rows(x, m.on) = {}
    <3>1. y = SetRows(x, m.on, Rows(x, m.on) \cup m.arg)
      BY <1>8, <2>1 DEF Effect, SeedVocabulary, Grow
    <3>2. m.on \notin {"dirty"} \cup AllComputed
      BY <1>2, <1>8
    <3>3. Along(d, y, r) /\ y.applied = x.applied
      BY <3>1, <3>2, RowsAlong
    <3> QED
      BY <1>8, <3>3
  <2>2. CASE Rows(x, m.on) # {}
    BY <1>8, <2>2 DEF Effect, SeedVocabulary
  <2> QED
    BY <2>1, <2>2
<1>9. CASE m.does = "reseed"
  <2> DEFINE marks == {<<row.of, m.on>> : row \in Rows(x, m.on)}
  <2>1. y = SetRows(x, "dirty", Rows(x, "dirty") \cup marks)
    BY <1>9 DEF Effect, Reseed, Grow
  <2>2. m.on \in AllComputed
    BY <1>2, <1>9
  <2>3. \A row \in Rows(x, m.on) : row.of \in Placed(x)
    BY <2>2 DEF Along, AboutFiles, Placed
  <2>4. \A mark \in marks : mark[1] \in Placed(x)
    BY <2>3
  <2>5. "dirty" \notin AllComputed
    BY OneTable DEF Stock
  <2>6. Along(d, y, r) /\ y.applied = x.applied
    BY <2>1, <2>4, <2>5, RowsAlong
  <2> QED
    BY <1>9, <2>6
<1>10. CASE m.does = "backfill"
  <2> DEFINE added == {Signal(f, 0) : f \in Indexed(x) \ {row.of : row \in Rows(x, m.on)}}
  <2>1. y = SetRows(x, m.on, Rows(x, m.on) \cup added)
    BY <1>10 DEF Effect, Backfill, Grow
  <2>2. m.on \in AllComputed /\ m.on # "dirty"
    BY <1>2, <1>10, OneTable DEF Stock
  <2>3. \A row \in added : row.of \in Placed(x) /\ row.version = 0
    BY DEF Signal, Indexed, Placed
  <2>4. Stored(d, m.on) = 0
    <3>1. PICK s \in DOMAIN Releases : m.on \in Names(Computed(s))
      BY <2>2 DEF AllComputed
    <3>2. PICK e \in Tables(s) : e.name = m.on
      BY <3>1 DEF Names, Computed
    <3>3. e.blob = 0
      BY <1>2, <1>10, <3>2
    <3> QED
      BY <3>2, <3>3 DEF BlobsOnly
  <2>5. m.on \notin Names(Versioned(r))
    BY <1>2, <1>10 DEF Names, Versioned
  <2>6. Stored(StoreVersions(d, r), m.on) = 0
    BY <2>4, <2>5, VersionsOnly
  <2> QED
    BY <1>10, <2>1, <2>2, <2>3, <2>6, RowsAlong
<1> QED
  BY <1>3, <1>4, <1>5, <1>6, <1>7, <1>8, <1>9, <1>10, ReleasesType DEF Does

\* A migration that is marked as applied leaves no shape of its to be rebuilt.
LEMMA MigratedAlong ==
  ASSUME NEW r \in DOMAIN Releases, NEW d, IsDatabase(d), d.exists, BlobsOnly(d),
         NEW x, Along(d, x, r), NEW m \in Migrations(r)
  PROVE  Along(d, Migrated(x, m), r) /\ Migrated(x, m).applied = x.applied \cup {m.id}
<1> DEFINE z == Effect(x, m)
           y == Migrated(x, m)
<1>1. /\ Along(d, z, r) /\ z.applied = x.applied
      /\ m.does = "rebuild" /\ m.on \in Existing(z) => z.tables[m.on].shape = m.arg
  BY EffectAlong
<1>2. y = [z EXCEPT !.applied = @ \cup {m.id}]
  BY DEF Migrated
<1> HIDE DEF y, z
<1>3. DOMAIN z = {"exists", "tables", "stamp", "versions", "applied"}
  BY <1>1 DEF Along, IsDatabase, NoDatabase
<1>4. /\ DOMAIN y = DOMAIN z /\ y.exists = z.exists /\ y.tables = z.tables /\ y.stamp = z.stamp
      /\ y.versions = z.versions /\ y.applied = x.applied \cup {m.id}
  BY <1>1, <1>2, <1>3
<1>5. Existing(y) = Existing(z)
  BY <1>4 DEF Existing
<1>6. \A n : Rows(y, n) = Rows(z, n)
  BY <1>4, <1>5 DEF Rows
<1>7. IsDatabase(z) /\ z.exists
  BY <1>1 DEF Along
<1>8. IsDatabase(y) /\ y.exists
  BY <1>4, <1>5, <1>7 DEF IsDatabase
<1>9. \A e \in Tables(r) : Complete(y, e)
  BY <1>1, <1>4, <1>5 DEF Along, Complete
<1>10. Lasts(d, y)
  BY <1>1, <1>6 DEF Along, Lasts
<1>11. Known(y) = Known(z)
  BY <1>6 DEF Known
<1>12. AboutFiles(y)
  BY <1>1, <1>6 DEF Along, AboutFiles
<1>13. Dated(d) => DatedFor(y, d, r)
  BY <1>1, <1>6 DEF Along, DatedFor
<1>14. Shaped(y)
  <2> SUFFICES ASSUME NEW s \in DOMAIN Releases, NEW e \in Tables(s),
                      e.kind # "Computed", e.name \in Existing(y)
               PROVE  \/ y.tables[e.name].shape = e.shape
                      \/ \E k \in Migrations(s) :
                           k.does = "rebuild" /\ k.on = e.name /\ k.id \notin y.applied
    BY DEF Shaped
  <2>1. CASE z.tables[e.name].shape = e.shape
    BY <1>4, <2>1
  <2>2. CASE \E k \in Migrations(s) : k.does = "rebuild" /\ k.on = e.name /\ k.id \notin z.applied
    <3>1. PICK k \in Migrations(s) : k.does = "rebuild" /\ k.on = e.name /\ k.id \notin z.applied
      BY <2>2
    <3>2. CASE k.id # m.id
      BY <1>1, <1>4, <3>1, <3>2
    <3>3. CASE k.id = m.id
      <4>1. k = m
        BY <3>3, MigrationsFit
      <4>2. e.shape = m.arg
        BY <3>1, <4>1, MigrationsFit
      <4> QED
        BY <1>1, <1>4, <1>5, <3>1, <4>1, <4>2
    <3> QED
      BY <3>2, <3>3
  <2>3. Shaped(z)
    BY <1>1 DEF Along
  <2>4. \/ z.tables[e.name].shape = e.shape
        \/ \E k \in Migrations(s) : k.does = "rebuild" /\ k.on = e.name /\ k.id \notin z.applied
    BY <1>5, <2>3 DEF Shaped
  <2> QED
    BY <2>1, <2>2, <2>4
<1>15. /\ y.versions = d.versions /\ d.applied \subseteq y.applied
       /\ "files" \notin Existing(d) => "files" \notin Existing(y) /\ Known(d) \subseteq Known(y)
  BY <1>1, <1>4, <1>5, <1>11 DEF Along
<1>16. Along(d, y, r)
  BY <1>8, <1>9, <1>10, <1>12, <1>13, <1>14, <1>15 DEF Along
<1> QED
  BY <1>4, <1>16 DEF y

\* The recursion over the migrations has a value: the one AllMigrated chooses
\* does what the recursion says.
LEMMA MigrationsRecursion ==
  ASSUME NEW r \in DOMAIN Releases, NEW x
  PROVE  LET all == Releases[r].migrations IN
         \E after :
           /\ AllMigrated(x, r) = after[Len(all)]
           /\ after[0] = x
           /\ \A i \in 1..Len(all) :
                after[i] = IF all[i] \in Pending(x, r) THEN Migrated(after[i - 1], all[i])
                           ELSE after[i - 1]
<1> DEFINE all == Releases[r].migrations
           n == Len(all)
           step(y, i) == IF all[i] \in Pending(x, r) THEN Migrated(y, all[i]) ELSE y
           Fits(g, k) == /\ g = [i \in 0..k |-> g[i]] /\ g[0] = x
                         /\ \A i \in 1..k : g[i] = step(g[i - 1], i)
           Rec(g) == g = [i \in 0..n |-> IF i = 0 THEN x
                                         ELSE IF all[i] \in Pending(x, r) THEN Migrated(g[i - 1], all[i])
                                         ELSE g[i - 1]]
<1>1. n \in Nat
  BY ReleasesType DEF IsSeq
<1>2. AllMigrated(x, r) = (CHOOSE g : Rec(g))[n]
  BY DEF AllMigrated
<1> HIDE DEF n
<1>3. \E g : Rec(g)
  <2> DEFINE S == {k \in 0..n : \E g : Fits(g, k)}
  <2> HIDE DEF step
  <2>1. 0 \in S
    <3> DEFINE g == [i \in 0..0 |-> x]
    <3>1. Fits(g, 0)
      OBVIOUS
    <3> HIDE DEF Fits, g
    <3>2. 0 \in 0..n /\ \E f : Fits(f, 0)
      BY <1>1, <3>1
    <3> QED
      BY <3>2
  <2>2. ASSUME NEW k \in 1..n, k - 1 \in S PROVE k \in S
    <3>1. PICK f : Fits(f, k - 1)
      BY <2>2
    <3> DEFINE g == [i \in 0..k |-> IF i = k THEN step(f[k - 1], k) ELSE f[i]]
    <3>2. k \in Nat /\ k # 0 /\ k \in 0..n /\ k - 1 \in Nat /\ 0 \in 0..k
      BY <1>1
    <3>3. g = [i \in 0..k |-> g[i]]
      OBVIOUS
    <3>4. g[0] = x
      BY <3>1, <3>2
    <3>5. ASSUME NEW i \in 1..k PROVE g[i] = step(g[i - 1], i)
      <4>1. i \in 0..k /\ i - 1 \in 0..k /\ i - 1 # k
        BY <3>2
      <4>2. g[i - 1] = f[i - 1]
        BY <4>1
      <4>3. CASE i = k
        BY <4>1, <4>2, <4>3
      <4>4. CASE i # k
        <5>1. i \in 1..(k - 1)
          BY <3>2, <4>4
        <5>2. g[i] = f[i] /\ f[i] = step(f[i - 1], i)
          BY <3>1, <4>1, <4>4, <5>1
        <5> QED
          BY <4>2, <5>2
      <4> QED
        BY <4>3, <4>4
    <3> HIDE DEF g
    <3>6. Fits(g, k)
      BY <3>3, <3>4, <3>5
    <3> HIDE DEF Fits
    <3> QED
      BY <3>2, <3>6
  <2> HIDE DEF S
  <2>3. 0..n \subseteq S
    BY <1>1, <2>1, <2>2, SetInduction
  <2>4. n \in S
    BY <1>1, <2>3
  <2>5. PICK g : Fits(g, n)
    BY <2>4 DEF S
  <2>6. Rec(g)
    <3> DEFINE body(i) == IF i = 0 THEN x
                          ELSE IF all[i] \in Pending(x, r) THEN Migrated(g[i - 1], all[i])
                          ELSE g[i - 1]
    <3>1. ASSUME NEW i \in 0..n PROVE g[i] = body(i)
      <4>1. i = 0 \/ i \in 1..n
        BY <1>1
      <4>2. CASE i = 0
        BY <2>5, <4>2
      <4>3. CASE i \in 1..n
        <5>1. i # 0
          BY <1>1, <4>3
        <5> QED
          BY <2>5, <4>3, <5>1 DEF step
      <4> QED
        BY <4>1, <4>2, <4>3
    <3>2. g = [i \in 0..n |-> g[i]]
      BY <2>5
    <3> HIDE DEF body
    <3>3. [i \in 0..n |-> g[i]] = [i \in 0..n |-> body(i)]
      BY <3>1
    <3>4. g = [i \in 0..n |-> body(i)]
      BY <3>2, <3>3
    <3> QED
      BY <3>4 DEF body
  <2> QED
    BY <2>6
<1> DEFINE after == CHOOSE g : Rec(g)
<1>4. Rec(after)
  BY <1>3
<1> HIDE DEF after
<1>5. after[0] = x /\ \A i \in 1..n : after[i] = step(after[i - 1], i)
  BY <1>1, <1>4
<1> QED
  BY <1>2, <1>5 DEF after, n

\* Whatever migrations are pending, in whatever order the release has them: they
\* lose nothing that lasts, and all are marked when the last one is done.
LEMMA AllMigratedAlong ==
  ASSUME NEW r \in DOMAIN Releases, NEW d, IsDatabase(d), d.exists, BlobsOnly(d),
         NEW x, Along(d, x, r)
  PROVE  /\ Along(d, AllMigrated(x, r), r)
         /\ \A m \in Migrations(r) : m.id \in AllMigrated(x, r).applied
<1> DEFINE all == Releases[r].migrations
           n == Len(all)
<1>1. n \in Nat /\ DOMAIN all = 1..n
  BY ReleasesType DEF IsSeq
<1>2. PICK after :
        /\ AllMigrated(x, r) = after[n]
        /\ after[0] = x
        /\ \A i \in 1..n : after[i] = IF all[i] \in Pending(x, r) THEN Migrated(after[i - 1], all[i])
                                      ELSE after[i - 1]
  BY MigrationsRecursion
<1>3. \A i \in 1..n : all[i] \in Migrations(r)
  BY <1>1 DEF Migrations
<1>4. \A m \in Migrations(r) : \E i \in 1..n : m = all[i]
  BY <1>1 DEF Migrations
<1> DEFINE S == {k \in 0..n : /\ Along(d, after[k], r) /\ x.applied \subseteq after[k].applied
                              /\ \A i \in 1..k : all[i].id \in after[k].applied}
<1> HIDE DEF n, all
<1>5. 0 \in S
  BY <1>1, <1>2
<1>6. ASSUME NEW k \in 1..n, k - 1 \in S PROVE k \in S
  <2>1. /\ Along(d, after[k - 1], r) /\ x.applied \subseteq after[k - 1].applied
        /\ \A i \in 1..(k - 1) : all[i].id \in after[k - 1].applied
    BY <1>6
  <2>2. k \in 0..n /\ \A i \in 1..k : i \in 1..(k - 1) \/ i = k
    BY <1>1
  <2>3. CASE all[k] \in Pending(x, r)
    <3>1. after[k] = Migrated(after[k - 1], all[k])
      BY <1>2, <2>3
    <3>2. all[k] \in Migrations(r)
      BY <1>3
    <3>3. Along(d, after[k], r) /\ after[k].applied = after[k - 1].applied \cup {all[k].id}
      BY <2>1, <3>1, <3>2, MigratedAlong
    <3> QED
      BY <2>1, <2>2, <3>3
  <2>4. CASE all[k] \notin Pending(x, r)
    <3>1. after[k] = after[k - 1]
      BY <1>2, <2>4
    <3>2. all[k].id \in x.applied
      BY <1>3, <2>4 DEF Pending
    <3> QED
      BY <2>1, <2>2, <3>1, <3>2
  <2> QED
    BY <2>3, <2>4
<1> HIDE DEF S
<1>7. 0..n \subseteq S
  BY <1>1, <1>5, <1>6, SetInduction
<1>8. n \in S
  BY <1>1, <1>7
<1>9. Along(d, after[n], r) /\ \A i \in 1..n : all[i].id \in after[n].applied
  BY <1>8 DEF S
<1> QED
  BY <1>2, <1>4, <1>9

\* What is stored of a table afterwards, whether it has a blob or not.
LEMMA StoredAfter ==
  ASSUME NEW d, IsDatabase(d), d.exists, BlobsOnly(d), NEW r \in DOMAIN Releases,
         NEW x, x = StoreVersions(d, r)
  PROVE  BlobsOnly(x) /\ \A e \in Tables(r) : Stored(x, e.name) = e.blob
<1>1. /\ \A e \in Versioned(r) : Stored(x, e.name) = e.blob
      /\ \A n : n \notin Names(Versioned(r)) => Stored(x, n) = Stored(d, n)
  BY VersionsOnly
<1>2. \A s \in DOMAIN Releases : \A e \in Tables(s) : e.blob = 0 => e.name \notin Names(Versioned(r))
  <2> SUFFICES ASSUME NEW s \in DOMAIN Releases, NEW e \in Tables(s), e.blob = 0,
                      NEW g \in Versioned(r), g.name = e.name
               PROVE  FALSE
    BY DEF Names
  <2>1. g \in Tables(r) /\ g.blob > 0
    BY DEF Versioned
  <2>2. g.blob = 0
    BY <2>1, OneTable
  <2> QED
    BY <2>1, <2>2
<1>3. BlobsOnly(x)
  BY <1>1, <1>2 DEF BlobsOnly
<1>4. \A e \in Tables(r) : e.blob = 0 \/ e \in Versioned(r)
  BY ReleasesType DEF Versioned
<1> QED
  BY <1>1, <1>3, <1>4 DEF BlobsOnly

\* A table is of the layout of the release: it has its version, or none is
\* stored yet, and then it has no rows unless some were computed all the same.
Current(d, m, e) ==
  \/ Stored(d, e.name) = e.blob
  \/ Stored(d, e.name) = 0 /\ (m \/ Rows(d, e.name) = {})
Laid(d, m, r) ==
  \A e \in Tables(r) : Complete(d, e) /\ (e.kind = "Computed" => Current(d, m, e))
Right(d, r) == \A e \in Tables(r) : e.kind # "Computed" => d.tables[e.name].shape = e.shape
Served(d, m, r) == Laid(d, m, r) /\ Right(d, r)

NoLayout(d) == {"inodes", "files"} \cap Existing(d) = {}

\* What a reconciliation that succeeds makes of a database.
LEMMA ReconciliationServes ==
  ASSUME NEW r \in DOMAIN Releases, NEW d, IsDatabase(d), d.exists,
         AboutFiles(d), Shaped(d), BlobsOnly(d),
         NEW y, y = Reconciled(d, r)
  PROVE  /\ IsDatabase(y) /\ y.exists /\ y.stamp = r /\ ~NoLayout(y)
         /\ \A m \in BOOLEAN : Served(y, m, r)
         /\ Lasts(d, y)
         /\ "files" \notin Existing(d) => "files" \notin Existing(y) /\ Known(d) \subseteq Known(y)
         /\ AboutFiles(y) /\ Shaped(y) /\ BlobsOnly(y)
         /\ Dated(d) => Dated(y)
<1> DEFINE x == AllMigrated(WithTables(d, r), r)
           z == StoreVersions(x, r)
<1>1. Along(d, WithTables(d, r), r)
  BY WithTablesAlong
<1>2. /\ Along(d, x, r)
      /\ \A m \in Migrations(r) : m.id \in x.applied
  BY <1>1, AllMigratedAlong
<1>3. y = Stamp(z, r)
  BY DEF Reconciled
<1> HIDE DEF x
<1>4. IsDatabase(x) /\ x.exists /\ x.versions = d.versions
  BY <1>2 DEF Along
<1>5. /\ IsDatabase(z)
      /\ z.exists = x.exists /\ z.tables = x.tables /\ z.stamp = x.stamp /\ z.applied = x.applied
      /\ \A e \in Versioned(r) : Stored(z, e.name) = e.blob
      /\ \A n : n \notin Names(Versioned(r)) => Stored(z, n) = Stored(x, n)
  BY <1>4, VersionsOnly
<1>6. BlobsOnly(x)
  BY <1>4 DEF BlobsOnly, Stored
<1>7. BlobsOnly(z) /\ \A e \in Tables(r) : Stored(z, e.name) = e.blob
  BY <1>4, <1>6, StoredAfter
<1>8. \A t : Stored(z, t) = Stored(StoreVersions(d, r), t)
  <2>1. /\ \A e \in Versioned(r) : Stored(StoreVersions(d, r), e.name) = e.blob
        /\ \A n : n \notin Names(Versioned(r)) => Stored(StoreVersions(d, r), n) = Stored(d, n)
    BY VersionsOnly
  <2>2. \A n : Stored(x, n) = Stored(d, n)
    BY <1>4 DEF Stored
  <2>3. \A n \in Names(Versioned(r)) : \E e \in Versioned(r) : e.name = n
    BY DEF Names
  <2> HIDE DEF z
  <2> QED
    BY <1>5, <2>1, <2>2, <2>3
<1> HIDE DEF z
<1>9. z.exists
  BY <1>4, <1>5
<1>10. /\ IsDatabase(y)
       /\ y.exists = z.exists /\ y.tables = z.tables /\ y.stamp = r
       /\ y.versions = z.versions /\ y.applied = z.applied
  <2> DEFINE w == Stamp(z, r)
  <2>1. /\ IsDatabase(w)
        /\ w.exists = z.exists /\ w.tables = z.tables /\ w.stamp = r
        /\ w.versions = z.versions /\ w.applied = z.applied
    BY <1>5, <1>9, StampOnly
  <2> HIDE DEF w
  <2>2. y = w
    BY <1>3 DEF w
  <2> QED
    BY <2>1, <2>2
<1>11. y.tables = x.tables /\ y.applied = x.applied /\ Existing(y) = Existing(x)
  BY <1>5, <1>10 DEF Existing
<1>12. (\A n : Rows(y, n) = Rows(x, n)) /\ (\A n : Stored(y, n) = Stored(z, n))
  BY <1>10, <1>11 DEF Rows, Stored
<1>13. \A e \in Tables(r) : Complete(y, e) /\ Stored(y, e.name) = e.blob
  BY <1>2, <1>7, <1>11, <1>12 DEF Along, Complete
<1>14. Shaped(x)
  BY <1>2 DEF Along
<1>15. Right(y, r)
  <2> SUFFICES ASSUME NEW e \in Tables(r), e.kind # "Computed"
               PROVE  y.tables[e.name].shape = e.shape
    BY DEF Right
  <2>1. e.name \in Existing(x)
    BY <1>11, <1>13 DEF Complete
  <2> QED
    BY <1>2, <1>11, <1>14, <2>1 DEF Shaped
<1>16. \A m \in BOOLEAN : Served(y, m, r)
  BY <1>13, <1>15 DEF Served, Laid, Current
<1>17. Lasts(d, y)
  BY <1>2, <1>12 DEF Along, Lasts
<1>18. "files" \notin Existing(d) => "files" \notin Existing(y) /\ Known(d) \subseteq Known(y)
  BY <1>2, <1>11, <1>12 DEF Along, Known
<1>19. AboutFiles(y)
  BY <1>2, <1>12 DEF Along, AboutFiles
<1>20. Shaped(y)
  BY <1>11, <1>14 DEF Shaped
<1>21. BlobsOnly(y)
  BY <1>7, <1>12 DEF BlobsOnly
<1>22. Dated(d) => Dated(y)
  BY <1>2, <1>8, <1>12 DEF Along, Dated, DatedFor
<1>23. ~NoLayout(y)
  BY <1>13, InventoryStart DEF NoLayout, Complete, Tables
<1> QED
  BY <1>9, <1>10, <1>16, <1>17, <1>18, <1>19, <1>20, <1>21, <1>22, <1>23

-----------------------------------------------------------------------------
(* The invariant.                                                          *)

\* A database without its first table has nothing else.
Blank(d) == NoLayout(d) => Existing(d) = {} /\ d.stamp = 0 /\ DOMAIN d.versions = {}

\* What is true of the database whoever is at it; m says that signals were
\* computed for tables of another layout.  A stamp says what it is there to say.
Sound(d, m) ==
  /\ BlobsOnly(d) /\ Shaped(d) /\ AboutFiles(d) /\ Blank(d)
  /\ ~m => Dated(d)
  /\ d.stamp # 0 => Laid(d, m, d.stamp)

\* What a creation under way has made, a table of the release at a time.
Begun(d, r) ==
  /\ \A n \in Existing(d) : \E e \in Tables(r) :
       /\ e.name = n /\ d.tables[n].cols = e.cols /\ d.tables[n].shape = e.shape
       /\ e.kind = "Computed" => d.tables[n].rows = {}
  /\ \A e \in Tables(r) : Stored(d, e.name) \in {0, e.blob}
  /\ d.stamp \in {0, r}

Creating == \E w \in {"db_thread", "setup"} : opener[w].at = "init"
Halfway ==
  Creating =>
    /\ Begun(db, release)
    /\ \A w \in {"db_thread", "setup"} : opener[w].at = "init" =>
         \A i \in DOMAIN Releases[release].tables :
           i < opener[w].next => Releases[release].tables[i].name \in Existing(db)

\* How the stages of the process, the setup and the two openers go together.
Startup ==
  /\ stage = "off" => opener["db_thread"] = NotOpen
  /\ stage \in {"off", "checking", "reconciling", "ready"} => setup = "none"
  /\ stage \in {"setup", "checking", "reconciling", "ready"} => opener["db_thread"].at # "none"
  /\ stage = "init_user" => opener["db_thread"] = NotOpen
  /\ setup \in {"none", "config"} => opener["setup"] = NotOpen
  /\ setup = "user" => opener["setup"].at = "done"
  /\ stage = "checking" => db.exists
  /\ \A w \in {"db_thread", "setup"} :
       /\ opener[w].at \in {"init", "done"} => db.exists
       /\ opener[w].at = "init" => opener[w].next \in 1..LastStatement(release)
       /\ opener[w].at = "done" => ~NoLayout(db)

\* Whoever created the database, it is served when the creation is over.
Ready ==
  /\ stage \in {"setup", "init_user"} => NoLayout(db) \/ Creating \/ Served(db, mixed, release)
  /\ stage = "ready" /\ ~failed => Creating \/ Served(db, mixed, release)

IInv ==
  TypeOK /\ Startup /\ Halfway /\ Ready /\ Sound(db, mixed) /\ sent \subseteq Indexed(db)

\* Statements on the rows of what no release computes: the layout stays, and so
\* does what is true of the database.
LEMMA RowsSound ==
  ASSUME NEW d, IsDatabase(d), d.exists, NEW m \in BOOLEAN, Sound(d, m),
         NEW name, name \notin AllComputed, NEW rows,
         name = "dirty" => \A mark \in rows : mark[1] \in Placed(d),
         NEW x, x = Grow(d, name, rows)
  PROVE  /\ IsDatabase(x) /\ SameLayout(d, x) /\ x.exists
         /\ Sound(x, m)
         /\ \A r \in DOMAIN Releases : Served(d, m, r) => Served(x, m, r)
         /\ \A r \in DOMAIN Releases : Begun(d, r) => Begun(x, r)
         /\ Lasts(d, x) /\ Known(d) \subseteq Known(x)
         /\ Indexed(d) \subseteq Indexed(x) /\ Placed(d) \subseteq Placed(x)
         /\ \A n : Rows(x, n) = IF n = name /\ name \in Existing(d) THEN Rows(d, name) \cup rows
                                ELSE Rows(d, n)
<1>1. /\ IsDatabase(x) /\ SameLayout(d, x)
      /\ \A n : Rows(x, n) = IF n = name /\ name \in Existing(d) THEN Rows(d, name) \cup rows
                             ELSE Rows(d, n)
  <2>1. x = SetRows(d, name, Rows(d, name) \cup rows)
    BY DEF Grow
  <2> QED
    BY <2>1, RowsSet
<1>2. \A n : Rows(d, n) \subseteq Rows(x, n)
  BY <1>1
<1>3. \A t \in AllComputed : Rows(x, t) = Rows(d, t)
  BY <1>1
<1>4. Lasts(d, x) /\ Known(d) \subseteq Known(x) /\ Indexed(d) \subseteq Indexed(x)
      /\ Placed(d) \subseteq Placed(x)
  BY <1>2 DEF Lasts, Known, Indexed, Placed
<1>5. \A n : Stored(x, n) = Stored(d, n)
  BY <1>1 DEF SameLayout, Stored
<1>6. \A r \in DOMAIN Releases : \A e \in Tables(r) : Complete(d, e) => Complete(x, e)
  BY <1>1 DEF SameLayout, Complete
<1>7. \A r \in DOMAIN Releases : \A e \in Computed(r) : e.name \in AllComputed
  BY DEF AllComputed, Names
<1>8. \A r \in DOMAIN Releases : Laid(d, m, r) => Laid(x, m, r)
  <2> SUFFICES ASSUME NEW r \in DOMAIN Releases, Laid(d, m, r), NEW e \in Tables(r)
               PROVE  Complete(x, e) /\ (e.kind = "Computed" => Current(x, m, e))
    BY DEF Laid
  <2>1. e.kind = "Computed" => Rows(x, e.name) = Rows(d, e.name)
    BY <1>3, <1>7 DEF Computed
  <2>2. e.kind = "Computed" => Current(x, m, e)
    BY <1>5, <2>1 DEF Laid, Current
  <2> QED
    BY <1>6, <2>2 DEF Laid
<1>9. \A r \in DOMAIN Releases : Served(d, m, r) => Served(x, m, r)
  BY <1>1, <1>8 DEF Served, Right, Laid, Complete, SameLayout
<1>10. \A r \in DOMAIN Releases : Begun(d, r) => Begun(x, r)
  <2> SUFFICES ASSUME NEW r \in DOMAIN Releases, Begun(d, r) PROVE Begun(x, r)
    OBVIOUS
  <2>1. ASSUME NEW n \in Existing(x)
        PROVE  \E e \in Tables(r) :
                 /\ e.name = n /\ x.tables[n].cols = e.cols /\ x.tables[n].shape = e.shape
                 /\ e.kind = "Computed" => x.tables[n].rows = {}
    <3>1. n \in Existing(d) /\ x.tables[n].cols = d.tables[n].cols /\ x.tables[n].shape = d.tables[n].shape
      BY <1>1, <2>1 DEF SameLayout
    <3>2. PICK e \in Tables(r) :
            /\ e.name = n /\ d.tables[n].cols = e.cols /\ d.tables[n].shape = e.shape
            /\ e.kind = "Computed" => d.tables[n].rows = {}
      BY <3>1 DEF Begun
    <3>3. e.kind = "Computed" => x.tables[n].rows = d.tables[n].rows
      BY <1>3, <1>7, <2>1, <3>1, <3>2 DEF Computed, Rows
    <3> QED
      BY <3>1, <3>2, <3>3
  <2> QED
    BY <1>1, <1>5, <2>1 DEF Begun, SameLayout
<1>11. AboutFiles(x)
  <2>1. \A t \in AllComputed : \A row \in Rows(x, t) : row.of \in Placed(x)
    BY <1>3, <1>4 DEF Sound, AboutFiles, Placed
  <2>2. \A mark \in Rows(x, "dirty") : mark[1] \in Placed(x)
    BY <1>1, <1>4 DEF Sound, AboutFiles, Placed
  <2> QED
    BY <2>1, <2>2 DEF AboutFiles, Placed
<1>12. BlobsOnly(x) /\ (~m => Dated(x))
  BY <1>3, <1>5 DEF Sound, BlobsOnly, Dated
<1>13. Shaped(x)
  BY <1>1 DEF Sound, Shaped, SameLayout
<1>14. Blank(x)
  BY <1>1 DEF Sound, Blank, NoLayout, SameLayout
<1>15. x.stamp # 0 => Laid(x, m, x.stamp)
  <2>1. x.stamp = d.stamp /\ d.stamp \in 0..Len(Releases)
    BY <1>1 DEF SameLayout, IsDatabase
  <2>2. d.stamp # 0 => d.stamp \in DOMAIN Releases
    BY <2>1, ReleasesType DEF IsSeq
  <2> QED
    BY <1>8, <2>1, <2>2 DEF Sound
<1>16. x.exists
  BY <1>1 DEF SameLayout
<1> QED
  BY <1>1, <1>4, <1>9, <1>10, <1>11, <1>12, <1>13, <1>14, <1>15, <1>16 DEF Sound

\* The statements of a release are numbered.
LEMMA Statements ==
  ASSUME NEW r \in DOMAIN Releases
  PROVE  /\ Len(Releases[r].tables) \in Nat /\ Len(Releases[r].tables) # 0
         /\ DOMAIN Releases[r].tables = 1..Len(Releases[r].tables)
         /\ \A i \in DOMAIN Releases[r].tables : Releases[r].tables[i] \in Tables(r)
<1>1. IsSeq(Releases[r].tables) /\ 1 \in DOMAIN Releases[r].tables
  BY ReleasesType, InventoryStart
<1> QED
  BY <1>1 DEF IsSeq, Tables

\* What the invariant says of the database is kept when the database is.
LEMMA DatabaseKept ==
  ASSUME IInv, db' = db, mixed' = mixed, sent' \subseteq sent
  PROVE  /\ IsDatabase(db') /\ Sound(db', mixed') /\ sent' \subseteq Indexed(db')
         /\ Irreplaceable(db) \subseteq Irreplaceable(db') /\ Known(db) \subseteq Known(db')
  BY DEF IInv, TypeOK

\* The steps of the process and of the setup that leave the database alone.
LEMMA BootKeeps ==
  ASSUME IInv, NEW r \in DOMAIN Releases, Boot(r)
  PROVE  IInv'
<1>1. /\ stage = "off" /\ boots < MaxBoots /\ boots' = boots + 1 /\ release' = r
      /\ UNCHANGED <<db, config, install, setup, failed, sent, mixed, failures>>
  BY DEF Boot
<1>2. /\ opener["db_thread"] = NotOpen /\ setup = "none" /\ opener["setup"] = NotOpen
  BY <1>1 DEF IInv, Startup
<1>3. IsDatabase(db') /\ Sound(db', mixed') /\ sent' \subseteq Indexed(db')
  BY <1>1, DatabaseKept
<1>4. /\ opener'["setup"] = NotOpen
      /\ \/ db.exists /\ stage' = "off" /\ opener'["db_thread"] = NotOpen
         \/ stage' \in {"checking", "setup"} /\ opener'["db_thread"] = Opening
            /\ (stage' = "checking" <=> db.exists)
      /\ opener' = [w \in {"db_thread", "setup"} |-> opener'[w]]
  BY <1>1, <1>2 DEF Boot, IInv, TypeOK
<1>5. ~Creating'
  BY <1>4 DEF Creating, NotOpen, Opening
<1>6. \A w \in {"db_thread", "setup"} : opener'[w].at \in {"none", "start"} /\ opener'[w].next = 0
                                       /\ opener'[w] \in {NotOpen, Opening}
  BY <1>4 DEF NotOpen, Opening
<1>7. 0 \in 0..(Len(Releases[r].tables) + 2)
  BY Statements
<1>8. \A o \in {NotOpen, Opening} :
        o \in [at : {"none", "start", "init", "done"}, next : 0..(Len(Releases[r].tables) + 2)]
  BY <1>7 DEF NotOpen, Opening
<1>9. opener' \in [{"db_thread", "setup"} ->
        [at : {"none", "start", "init", "done"}, next : 0..(Len(Releases[r].tables) + 2)]]
  BY <1>4, <1>6, <1>8
<1>10. boots' \in 0..MaxBoots
  BY <1>1, BoundsType DEF IInv, TypeOK
<1>11. TypeOK'
  BY <1>1, <1>3, <1>4, <1>9, <1>10 DEF IInv, TypeOK
<1>12. Startup'
  <2>1. /\ stage' \in {"off", "checking", "setup"}
        /\ stage' = "off" => opener'["db_thread"] = NotOpen
        /\ stage' # "off" => opener'["db_thread"].at # "none"
        /\ stage' = "checking" => db'.exists
    BY <1>1, <1>4 DEF Opening
  <2> QED
    BY <1>1, <1>2, <1>4, <1>6, <2>1 DEF Startup
<1>13. Ready'
  <2>1. stage' = "setup" => NoLayout(db')
    <3>1. stage' = "setup" => ~db.exists
      BY <1>4
    <3>2. ~db.exists => NoLayout(db)
      BY DEF IInv, TypeOK, IsDatabase, NoDatabase, NoLayout, Existing
    <3> QED
      BY <1>1, <3>1, <3>2
  <2> QED
    BY <1>4, <2>1 DEF Ready
<1>14. Halfway'
  BY <1>5 DEF Halfway
<1> QED
  BY <1>3, <1>11, <1>12, <1>13, <1>14 DEF IInv

\* A crash leaves nobody at the database.
LEMMA CrashKeeps ==
  ASSUME IInv, Crash
  PROVE  IInv'
<1>1. /\ stage' = "off" /\ setup' = "none" /\ sent' = {}
      /\ opener' = [w \in {"db_thread", "setup"} |-> NotOpen]
      /\ UNCHANGED <<db, config, install, release, failed, mixed, bounds>>
  BY DEF Crash
<1>2. IsDatabase(db') /\ Sound(db', mixed') /\ sent' \subseteq Indexed(db')
  BY <1>1, DatabaseKept
<1>3. ~Creating'
  BY <1>1 DEF Creating, NotOpen
<1>4. 0 \in 0..(Len(Releases[release].tables) + 2)
  BY Statements DEF IInv, TypeOK
<1>5. NotOpen \in [at : {"none", "start", "init", "done"}, next : 0..(Len(Releases[release].tables) + 2)]
  BY <1>4 DEF NotOpen
<1>6. TypeOK'
  <2>1. opener' \in [{"db_thread", "setup"} ->
          [at : {"none", "start", "init", "done"}, next : 0..(Len(Releases[release].tables) + 2)]]
    BY <1>1, <1>5
  <2> QED
    BY <1>1, <1>2, <2>1 DEF IInv, TypeOK, bounds
<1>7. Startup'
  BY <1>1 DEF Startup, NotOpen
<1>8. Ready' /\ Halfway'
  BY <1>1, <1>3 DEF Ready, Halfway
<1> QED
  BY <1>2, <1>6, <1>7, <1>8 DEF IInv

\* What needs no reconciliation is served as it is: an empty plan finds every
\* table complete, and the rest is what the stamp says, and the migrations.
LEMMA NothingToDo ==
  ASSUME NEW d, IsDatabase(d), NEW m, Sound(d, m), NEW r \in DOMAIN Releases,
         ~NeedsReconciliation(d, r)
  PROVE  Served(d, m, r)
<1>1. Pending(d, r) = {} /\ (d.stamp = r \/ PlanEmpty(d, r))
  BY DEF NeedsReconciliation
<1>2. Laid(d, m, r)
  <2>1. CASE d.stamp = r
    <3>1. r # 0
      BY ReleasesType DEF IsSeq
    <3> QED
      BY <2>1, <3>1 DEF Sound
  <2>2. CASE PlanEmpty(d, r)
    <3> SUFFICES ASSUME NEW e \in Tables(r)
                 PROVE  Complete(d, e) /\ (e.kind = "Computed" => Current(d, m, e))
      BY DEF Laid
    <3>1. e \notin NewTables(d, r) /\ e \notin NewColumns(d, r) /\ e \notin Recreated(d, r)
      BY <2>2 DEF PlanEmpty
    <3>2. Complete(d, e)
      BY <3>1 DEF NewTables, NewColumns, Recreated, Lacking, Complete
    <3>3. e.kind = "Computed" => Stored(d, e.name) = e.blob
      <4>1. CASE e.blob = 0
        BY <4>1 DEF Sound, BlobsOnly
      <4>2. CASE e.blob # 0
        BY <3>1, <4>2, ReleasesType DEF Recreated, Unreadable, Versioned, Computed
      <4> QED
        BY <4>1, <4>2
    <3> QED
      BY <3>2, <3>3 DEF Current
  <2> QED
    BY <1>1, <2>1, <2>2
<1>3. Right(d, r)
  <2> SUFFICES ASSUME NEW e \in Tables(r), e.kind # "Computed"
               PROVE  d.tables[e.name].shape = e.shape
    BY DEF Right
  <2>1. e.name \in Existing(d)
    BY <1>2 DEF Laid, Complete
  <2>2. \A k \in Migrations(r) : k.id \in d.applied
    BY <1>1 DEF Pending
  <2> QED
    BY <2>1, <2>2 DEF Sound, Shaped
<1> QED
  BY <1>2, <1>3 DEF Served

\* The check, and a reconciliation that is rolled back.
LEMMA CheckKeeps ==
  ASSUME IInv, Check \/ ReconciliationFails
  PROVE  IInv'
<1>1. /\ stage \in {"checking", "reconciling"} /\ stage' \in {"reconciling", "ready"}
      /\ UNCHANGED <<db, config, install, release, opener, setup, sent, mixed, boots>>
      /\ failed' \in BOOLEAN /\ failures' \in 0..MaxFailures
  <2>1. CASE Check
    BY <2>1 DEF Check, IInv, TypeOK, bounds
  <2>2. CASE ReconciliationFails
    BY <2>2, BoundsType DEF ReconciliationFails, IInv, TypeOK
  <2> QED
    BY <2>1, <2>2
<1>2. IsDatabase(db') /\ Sound(db', mixed') /\ sent' \subseteq Indexed(db')
  BY <1>1, DatabaseKept
<1>3. TypeOK'
  BY <1>1 DEF IInv, TypeOK
<1>4. Startup'
  BY <1>1 DEF IInv, Startup
<1>5. Halfway'
  BY <1>1 DEF IInv, Halfway, Creating
<1>6. Ready'
  <2>1. CASE ReconciliationFails
    BY <1>1, <2>1 DEF Ready, ReconciliationFails
  <2>2. CASE Check
    <3>1. stage' = "ready" => ~NeedsReconciliation(db, release)
      BY <2>2 DEF Check
    <3>2. IsDatabase(db) /\ Sound(db, mixed) /\ release \in DOMAIN Releases
      BY DEF IInv, TypeOK
    <3>3. stage' = "ready" => Served(db, mixed, release)
      BY <3>1, <3>2, NothingToDo
    <3> QED
      BY <1>1, <3>3 DEF Ready
  <2> QED
    BY <2>1, <2>2
<1> QED
  BY <1>2, <1>3, <1>4, <1>5, <1>6 DEF IInv

\* The steps of the setup before and after its Database::open.
LEMMA SetupKeeps ==
  ASSUME IInv, CompleteSetup \/ SetupConfig \/ InitUser \/ SetupOpened
  PROVE  IInv'
<1>1. UNCHANGED <<db, install, release, failed, sent, mixed, bounds>> /\ config' \in BOOLEAN
  BY DEF CompleteSetup, SetupConfig, InitUser, SetupOpened, IInv, TypeOK
<1>2. IsDatabase(db') /\ Sound(db', mixed') /\ sent' \subseteq Indexed(db')
  BY <1>1, DatabaseKept
<1>3. \/ UNCHANGED <<stage, opener>> /\ setup = "none" /\ setup' = "config" /\ stage = "setup"
      \/ UNCHANGED <<stage, opener>> /\ setup = "config" /\ setup' = "none"
      \/ UNCHANGED <<stage, opener>> /\ setup = "open" /\ setup' = "user" /\ opener["setup"].at = "done"
      \/ /\ opener' = [opener EXCEPT !["setup"] = Opening] /\ setup' = "open"
         /\ \/ stage' = stage /\ setup = "config"
            \/ stage = "off" /\ stage' = "init_user" /\ ~db.exists
  BY DEF CompleteSetup, SetupConfig, InitUser, SetupOpened
<1>4. 0 \in 0..(Len(Releases[release].tables) + 2)
  BY Statements DEF IInv, TypeOK
<1>5. Opening \in [at : {"none", "start", "init", "done"}, next : 0..(Len(Releases[release].tables) + 2)]
  BY <1>4 DEF Opening
<1>6. \/ opener' = opener
      \/ opener["setup"] = NotOpen /\ opener' = [opener EXCEPT !["setup"] = Opening]
  <2>1. setup = "config" \/ stage = "off" => opener["setup"] = NotOpen
    BY DEF IInv, Startup
  <2> QED
    BY <1>3, <2>1
<1>7. /\ opener' \in [{"db_thread", "setup"} ->
           [at : {"none", "start", "init", "done"}, next : 0..(Len(Releases[release].tables) + 2)]]
      /\ opener'["db_thread"] = opener["db_thread"]
      /\ \/ opener'["setup"] = opener["setup"]
         \/ opener'["setup"] = Opening /\ opener["setup"] = NotOpen
  <2>1. opener \in [{"db_thread", "setup"} ->
          [at : {"none", "start", "init", "done"}, next : 0..(Len(Releases[release].tables) + 2)]]
    BY DEF IInv, TypeOK
  <2>2. CASE opener' = opener
    BY <2>1, <2>2
  <2>3. CASE opener["setup"] = NotOpen /\ opener' = [opener EXCEPT !["setup"] = Opening]
    BY <1>5, <2>1, <2>3
  <2> QED
    BY <1>6, <2>2, <2>3
<1>9. TypeOK'
  BY <1>1, <1>2, <1>3, <1>7 DEF IInv, TypeOK, bounds
<1>10. \A w \in {"db_thread", "setup"} :
         \/ opener'[w] = opener[w]
         \/ opener'[w] = Opening /\ opener[w] = NotOpen
  BY <1>7
<1>11. \A w \in {"db_thread", "setup"} :
         /\ opener'[w].at = "init" <=> opener[w].at = "init"
         /\ opener'[w].at \in {"init", "done"} => opener'[w] = opener[w]
  BY <1>10 DEF Opening, NotOpen
<1>12. Creating' <=> Creating
  BY <1>11 DEF Creating
<1>13. Halfway'
  BY <1>1, <1>11, <1>12 DEF IInv, Halfway
<1>14. Startup'
  <2>1. \A w \in {"db_thread", "setup"} :
          /\ opener'[w].at \in {"init", "done"} => db'.exists
          /\ opener'[w].at = "init" => opener'[w].next \in 1..LastStatement(release')
          /\ opener'[w].at = "done" => ~NoLayout(db')
    BY <1>1, <1>11 DEF IInv, Startup
  <2>2. setup' \in {"none", "config"} => opener'["setup"] = NotOpen
    BY <1>3 DEF IInv, Startup
  <2>3. setup' = "user" => opener'["setup"].at = "done"
    BY <1>3 DEF IInv, Startup
  <2>4. \/ stage' = stage
        \/ stage = "off" /\ stage' = "init_user"
    BY <1>3
  <2>5. stage' \in {"off", "checking", "reconciling", "ready"} => setup' = "none"
    BY <1>3 DEF IInv, Startup, TypeOK
  <2> QED
    BY <1>1, <1>7, <2>1, <2>2, <2>3, <2>4, <2>5 DEF IInv, Startup
<1>15. Ready'
  <2>1. ~db.exists => NoLayout(db)
    BY DEF IInv, TypeOK, IsDatabase, NoDatabase, NoLayout, Existing
  <2>2. \/ stage' = stage
        \/ stage' = "init_user" /\ NoLayout(db)
    BY <1>3, <2>1
  <2> QED
    BY <1>1, <1>12, <2>2 DEF IInv, Ready
<1> QED
  BY <1>1, <1>2, <1>9, <1>13, <1>14, <1>15 DEF IInv

\* Whoever opens a database without a layout begins with its first table.
LEMMA OpenKeeps ==
  ASSUME IInv, NEW w \in {"db_thread", "setup"}, Open(w)
  PROVE  IInv'
<1> DEFINE begun == [at |-> "init", next |-> 1]
<1>1. /\ opener[w].at = "start"
      /\ db' = [db EXCEPT !.exists = TRUE]
      /\ UNCHANGED <<config, install, release, stage, setup, failed, sent, mixed, bounds>>
      /\ opener' = [opener EXCEPT ![w] = IF NoLayout(db) THEN begun ELSE Opened]
  BY DEF Open, NoLayout
<1>2. IsDatabase(db) /\ Sound(db, mixed) /\ release \in DOMAIN Releases
  BY DEF IInv, TypeOK
<1>3. DOMAIN db = {"exists", "tables", "stamp", "versions", "applied"}
  BY <1>2 DEF IsDatabase, NoDatabase
<1>4. /\ DOMAIN db' = DOMAIN db /\ db'.exists = TRUE /\ db'.tables = db.tables
      /\ db'.stamp = db.stamp /\ db'.versions = db.versions /\ db'.applied = db.applied
  BY <1>1, <1>3
<1>5. Existing(db') = Existing(db) /\ (\A n : Rows(db', n) = Rows(db, n))
      /\ (\A n : Stored(db', n) = Stored(db, n))
  BY <1>4 DEF Existing, Rows, Stored
<1>6. IsDatabase(db')
  BY <1>2, <1>4, <1>5 DEF IsDatabase
<1>7. \A r \in DOMAIN Releases :
        /\ Laid(db, mixed, r) <=> Laid(db', mixed, r)
        /\ Served(db, mixed, r) <=> Served(db', mixed, r)
        /\ Begun(db, r) <=> Begun(db', r)
  <2>1. \A r \in DOMAIN Releases : \A e \in Tables(r) :
          (Complete(db', e) <=> Complete(db, e)) /\ (Current(db', mixed, e) <=> Current(db, mixed, e))
    BY <1>4, <1>5 DEF Complete, Current
  <2>2. \A r \in DOMAIN Releases : Laid(db, mixed, r) <=> Laid(db', mixed, r)
    BY <2>1 DEF Laid
  <2>3. \A r \in DOMAIN Releases : Right(db, r) <=> Right(db', r)
    BY <1>4 DEF Right
  <2>4. \A r \in DOMAIN Releases : Begun(db, r) <=> Begun(db', r)
    BY <1>4, <1>5 DEF Begun
  <2> QED
    BY <2>2, <2>3, <2>4 DEF Served
<1>8. NoLayout(db') <=> NoLayout(db)
  BY <1>5 DEF NoLayout
<1>9. Sound(db', mixed')
  <2>1. BlobsOnly(db') /\ (~mixed => Dated(db'))
    BY <1>2, <1>5 DEF Sound, BlobsOnly, Dated
  <2>2. Shaped(db')
    BY <1>2, <1>4, <1>5 DEF Sound, Shaped
  <2>3. AboutFiles(db')
    BY <1>2, <1>5 DEF Sound, AboutFiles
  <2>4. Blank(db')
    BY <1>2, <1>4, <1>5, <1>8 DEF Sound, Blank
  <2>5. db.stamp # 0 => db.stamp \in DOMAIN Releases
    BY <1>2, ReleasesType DEF IsDatabase, IsSeq
  <2>6. db'.stamp # 0 => Laid(db', mixed, db'.stamp)
    BY <1>2, <1>4, <1>7, <2>5 DEF Sound
  <2> QED
    BY <1>1, <2>1, <2>2, <2>3, <2>4, <2>6 DEF Sound
<1>10. sent' \subseteq Indexed(db')
  BY <1>1, <1>5 DEF IInv, Indexed
<1>11. {0, 1} \subseteq 0..(Len(Releases[release].tables) + 2)
       /\ 1 \in 1..LastStatement(release)
  BY <1>2, Statements DEF LastStatement
<1>12. opener \in [{"db_thread", "setup"} ->
          [at : {"none", "start", "init", "done"}, next : 0..(Len(Releases[release].tables) + 2)]]
  BY DEF IInv, TypeOK
<1>13. /\ opener'[w] = IF NoLayout(db) THEN begun ELSE Opened
       /\ \A v \in {"db_thread", "setup"} : v # w => opener'[v] = opener[v]
       /\ opener' \in [{"db_thread", "setup"} ->
            [at : {"none", "start", "init", "done"}, next : 0..(Len(Releases[release].tables) + 2)]]
  BY <1>1, <1>11, <1>12 DEF Opened
<1>14. TypeOK'
  BY <1>1, <1>6, <1>13 DEF IInv, TypeOK, bounds
<1>15. Creating => Creating'
  BY <1>1, <1>13 DEF Creating
<1>16. Halfway'
  <2> SUFFICES ASSUME Creating'
               PROVE  /\ Begun(db', release)
                      /\ \A v \in {"db_thread", "setup"} : opener'[v].at = "init" =>
                           \A i \in DOMAIN Releases[release].tables :
                             i < opener'[v].next => Releases[release].tables[i].name \in Existing(db')
    BY <1>1 DEF Halfway
  <2>1. Begun(db', release)
    <3>1. CASE Creating
      BY <1>2, <1>7, <3>1 DEF IInv, Halfway
    <3>2. CASE ~Creating
      <4>1. NoLayout(db)
        BY <1>13, <3>2 DEF Creating, Opened
      <4>2. Existing(db) = {} /\ db.stamp = 0 /\ DOMAIN db.versions = {}
        BY <1>2, <4>1 DEF Sound, Blank
      <4> QED
        BY <1>4, <1>5, <4>2 DEF Begun, Stored
    <3> QED
      BY <3>1, <3>2
  <2>2. ASSUME NEW v \in {"db_thread", "setup"}, opener'[v].at = "init",
               NEW i \in DOMAIN Releases[release].tables, i < opener'[v].next
        PROVE  Releases[release].tables[i].name \in Existing(db')
    <3>1. CASE v = w
      <4>1. opener'[v].next = 1
        BY <1>13, <2>2, <3>1 DEF Opened
      <4>2. i \in Nat /\ i # 0
        BY <1>2, Statements
      <4> QED
        BY <2>2, <4>1, <4>2
    <3>2. CASE v # w
      BY <1>5, <1>13, <2>2, <3>2 DEF IInv, Halfway, Creating
    <3> QED
      BY <3>1, <3>2
  <2> QED
    BY <2>1, <2>2
<1>17. Startup'
  <2>1. ASSUME NEW v \in {"db_thread", "setup"}
        PROVE  /\ opener'[v].at \in {"init", "done"} => db'.exists
               /\ opener'[v].at = "init" => opener'[v].next \in 1..LastStatement(release')
               /\ opener'[v].at = "done" => ~NoLayout(db')
    <3>1. CASE v = w
      BY <1>1, <1>4, <1>8, <1>11, <1>13, <3>1 DEF Opened
    <3>2. CASE v # w
      BY <1>1, <1>4, <1>8, <1>13, <3>2 DEF IInv, Startup
    <3> QED
      BY <3>1, <3>2
  <2>2. \A v \in {"db_thread", "setup"} : opener[v] = NotOpen => opener'[v] = NotOpen
    BY <1>1, <1>13 DEF NotOpen
  <2>3. opener'[w].at # "none"
    BY <1>13 DEF Opened
  <2>4. \A v \in {"db_thread", "setup"} : opener[v].at # "none" => opener'[v].at # "none"
    BY <1>13, <2>3
  <2>5. \A v \in {"db_thread", "setup"} : opener[v].at = "done" => opener'[v].at = "done"
    BY <1>1, <1>13
  <2> QED
    BY <1>1, <1>4, <2>1, <2>2, <2>4, <2>5 DEF IInv, Startup
<1>18. Ready'
  BY <1>1, <1>2, <1>7, <1>8, <1>15 DEF IInv, Ready
<1> QED
  BY <1>9, <1>10, <1>14, <1>16, <1>17, <1>18 DEF IInv

\* A table that is created has the layout of every release that has it.
LEMMA CreateSound ==
  ASSUME NEW d, IsDatabase(d), d.exists, NEW m \in BOOLEAN, Sound(d, m),
         NEW r \in DOMAIN Releases, Begun(d, r), NEW e \in Tables(r),
         NoLayout(d) => e.name = "inodes",
         NEW x, x = Create(d, e)
  PROVE  /\ IsDatabase(x) /\ x.exists /\ Existing(x) = Existing(d) \cup {e.name}
         /\ Sound(x, m) /\ Begun(x, r) /\ \A n : Rows(x, n) = Rows(d, n)
<1>1. /\ IsDatabase(x)
      /\ x.exists = d.exists /\ x.stamp = d.stamp
      /\ x.versions = d.versions /\ x.applied = d.applied
      /\ Existing(x) = Existing(d) \cup {e.name}
      /\ \A n \in Existing(d) : x.tables[n] = d.tables[n]
      /\ e.name \notin Existing(d) => x.tables[e.name] = Fresh(e)
      /\ \A n : Rows(x, n) = Rows(d, n)
  <2> DEFINE y == Create(d, e)
  <2>1. /\ IsDatabase(y)
        /\ y.exists = d.exists /\ y.stamp = d.stamp
        /\ y.versions = d.versions /\ y.applied = d.applied
        /\ Existing(y) = Existing(d) \cup {e.name}
        /\ \A n \in Existing(d) : y.tables[n] = d.tables[n]
        /\ e.name \notin Existing(d) => y.tables[e.name] = Fresh(e)
        /\ \A n : Rows(y, n) = Rows(d, n)
    BY CreateAdds
  <2>2. x = y
    OBVIOUS
  <2> HIDE DEF y
  <2> QED
    BY <2>1, <2>2
<1>2. Fresh(e).cols = e.cols /\ Fresh(e).shape = e.shape /\ Fresh(e).rows = {}
  BY DEF Fresh
<1>3. \A n : Stored(x, n) = Stored(d, n)
  BY <1>1 DEF Stored
<1>4. Begun(x, r)
  <2>1. ASSUME NEW n \in Existing(x)
        PROVE  \E g \in Tables(r) :
                 /\ g.name = n /\ x.tables[n].cols = g.cols /\ x.tables[n].shape = g.shape
                 /\ g.kind = "Computed" => x.tables[n].rows = {}
    <3>1. CASE n \in Existing(d)
      BY <1>1, <3>1 DEF Begun
    <3>2. CASE n \notin Existing(d)
      BY <1>1, <1>2, <2>1, <3>2
    <3> QED
      BY <3>1, <3>2
  <2> QED
    BY <1>1, <1>3, <2>1 DEF Begun
<1>5. BlobsOnly(x) /\ AboutFiles(x) /\ (~m => Dated(x))
  BY <1>1, <1>3 DEF Sound, BlobsOnly, AboutFiles, Dated
<1>6. Shaped(x)
  <2> SUFFICES ASSUME NEW s \in DOMAIN Releases, NEW g \in Tables(s),
                      g.kind # "Computed", g.name \in Existing(x)
               PROVE  \/ x.tables[g.name].shape = g.shape
                      \/ \E k \in Migrations(s) :
                           k.does = "rebuild" /\ k.on = g.name /\ k.id \notin x.applied
    BY DEF Shaped
  <2>1. CASE g.name \in Existing(d)
    BY <1>1, <2>1 DEF Sound, Shaped
  <2>2. CASE g.name \notin Existing(d)
    <3>1. g.name = e.name /\ g.shape = e.shape
      BY <1>1, <2>2, OneTable
    <3> QED
      BY <1>1, <1>2, <2>2, <3>1
  <2> QED
    BY <2>1, <2>2
<1>7. Blank(x)
  BY <1>1 DEF Blank, NoLayout
<1>8. x.stamp # 0 => Laid(x, m, x.stamp)
  <2>1. \A s : \A g \in Tables(s) : Complete(d, g) => Complete(x, g)
    BY <1>1 DEF Complete
  <2>2. \A s : \A g \in Tables(s) : Current(d, m, g) => Current(x, m, g)
    BY <1>1, <1>3 DEF Current
  <2> QED
    BY <1>1, <2>1, <2>2 DEF Sound, Laid
<1> QED
  BY <1>1, <1>4, <1>5, <1>6, <1>7, <1>8 DEF Sound

\* When its tables are there, a creation has the layout of its release.
LEMMA BegunLaid ==
  ASSUME NEW d, IsDatabase(d), NEW m, NEW r \in DOMAIN Releases, Begun(d, r),
         \A e \in Tables(r) : e.name \in Existing(d)
  PROVE  Served(d, m, r) /\ \A e \in Computed(r) : Rows(d, e.name) = {}
<1> SUFFICES ASSUME NEW e \in Tables(r)
             PROVE  /\ Complete(d, e)
                    /\ e.kind = "Computed" => Rows(d, e.name) = {} /\ Current(d, m, e)
                    /\ d.tables[e.name].shape = e.shape
  BY DEF Served, Laid, Right, Computed
<1>1. e.name \in Existing(d)
  OBVIOUS
<1>2. PICK g \in Tables(r) :
        /\ g.name = e.name /\ d.tables[e.name].cols = g.cols /\ d.tables[e.name].shape = g.shape
        /\ g.kind = "Computed" => d.tables[e.name].rows = {}
  BY <1>1 DEF Begun
<1>3. g = e
  BY <1>2, OneTable
<1>4. Complete(d, e) /\ d.tables[e.name].shape = e.shape
  BY <1>1, <1>2, <1>3 DEF Complete
<1>5. e.kind = "Computed" => Rows(d, e.name) = {}
  BY <1>1, <1>2, <1>3 DEF Rows
<1>6. Stored(d, e.name) \in {0, e.blob}
  BY DEF Begun
<1>7. e.kind = "Computed" => Current(d, m, e)
  BY <1>5, <1>6 DEF Current
<1> QED
  BY <1>4, <1>5, <1>7

\* The stamp is of the release whose tables are there.
LEMMA StampSound ==
  ASSUME NEW d, IsDatabase(d), d.exists, NEW m \in BOOLEAN, Sound(d, m),
         NEW r \in DOMAIN Releases, Begun(d, r), \A e \in Tables(r) : e.name \in Existing(d),
         NEW x, x = Stamp(d, r)
  PROVE  IsDatabase(x) /\ x.exists /\ Existing(x) = Existing(d)
         /\ Sound(x, m) /\ Begun(x, r) /\ \A n : Rows(x, n) = Rows(d, n)
<1>1. /\ IsDatabase(x)
      /\ x.exists = d.exists /\ x.tables = d.tables /\ x.stamp = r
      /\ x.versions = d.versions /\ x.applied = d.applied
  <2> DEFINE y == Stamp(d, r)
  <2>1. /\ IsDatabase(y)
        /\ y.exists = d.exists /\ y.tables = d.tables /\ y.stamp = r
        /\ y.versions = d.versions /\ y.applied = d.applied
    BY StampOnly
  <2>2. x = y
    OBVIOUS
  <2> HIDE DEF y
  <2> QED
    BY <2>1, <2>2
<1>2. Existing(x) = Existing(d) /\ (\A n : Rows(x, n) = Rows(d, n)) /\ (\A n : Stored(x, n) = Stored(d, n))
  BY <1>1 DEF Existing, Rows, Stored
<1>3. Begun(x, r)
  BY <1>1, <1>2 DEF Begun
<1>4. Laid(x, m, r)
  BY <1>1, <1>2, <1>3, BegunLaid DEF Served
<1>5. BlobsOnly(x) /\ AboutFiles(x) /\ (~m => Dated(x))
  BY <1>2 DEF Sound, BlobsOnly, AboutFiles, Dated
<1>6. Shaped(x)
  BY <1>1, <1>2 DEF Sound, Shaped
<1>7. ~NoLayout(x)
  BY <1>2, InventoryStart DEF NoLayout, Tables
<1> QED
  BY <1>1, <1>2, <1>3, <1>4, <1>5, <1>6, <1>7 DEF Sound, Blank

\* The versions stored last are those of tables that are still empty.
LEMMA VersionsSound ==
  ASSUME NEW d, IsDatabase(d), d.exists, NEW m \in BOOLEAN, Sound(d, m),
         NEW r \in DOMAIN Releases, Begun(d, r), \A e \in Tables(r) : e.name \in Existing(d),
         NEW x, x = StoreVersions(d, r)
  PROVE  IsDatabase(x) /\ x.exists /\ Existing(x) = Existing(d)
         /\ Sound(x, m) /\ Begun(x, r) /\ \A n : Rows(x, n) = Rows(d, n)
<1>1. /\ IsDatabase(x)
      /\ x.exists = d.exists /\ x.tables = d.tables /\ x.stamp = d.stamp /\ x.applied = d.applied
  <2> DEFINE y == StoreVersions(d, r)
  <2>1. /\ IsDatabase(y)
        /\ y.exists = d.exists /\ y.tables = d.tables /\ y.stamp = d.stamp /\ y.applied = d.applied
    BY VersionsOnly
  <2>2. x = y
    OBVIOUS
  <2> HIDE DEF y
  <2> QED
    BY <2>1, <2>2
<1>2. Existing(x) = Existing(d) /\ (\A n : Rows(x, n) = Rows(d, n))
  BY <1>1 DEF Existing, Rows
<1>3. BlobsOnly(x) /\ \A e \in Tables(r) : Stored(x, e.name) = e.blob
  BY StoredAfter DEF Sound
<1>4. Begun(x, r)
  BY <1>1, <1>2, <1>3 DEF Begun
<1>5. Laid(x, m, r) /\ \A e \in Computed(r) : Rows(x, e.name) = {}
  BY <1>1, <1>2, <1>4, BegunLaid DEF Served
<1>6. x.stamp # 0 => Laid(x, m, x.stamp)
  BY <1>1, <1>5 DEF Begun
<1>7. \A t \in AllComputed : Rows(x, t) = {}
  <2> SUFFICES ASSUME NEW t \in AllComputed, t \in Existing(x) PROVE Rows(x, t) = {}
    BY DEF Rows
  <2>1. PICK e \in Tables(r) : e.name = t
    BY <1>4 DEF Begun
  <2>2. PICK s \in DOMAIN Releases : t \in Names(Computed(s))
    BY DEF AllComputed
  <2>3. e \in Computed(r)
    BY <2>1, <2>2, OneTable DEF Names, Computed
  <2> QED
    BY <1>5, <2>1, <2>3
<1>8. AboutFiles(x) /\ Dated(x)
  BY <1>2, <1>7 DEF Sound, AboutFiles, Dated
<1>9. Shaped(x)
  BY <1>1, <1>2 DEF Sound, Shaped
<1>10. ~NoLayout(x)
  BY <1>2, InventoryStart DEF NoLayout, Tables
<1> QED
  BY <1>1, <1>2, <1>3, <1>4, <1>6, <1>8, <1>9, <1>10 DEF Sound, Blank

\* What a statement of initialize_schema does, whichever it is.
LEMMA InitializeDoes ==
  ASSUME IInv, NEW w \in {"db_thread", "setup"}, Initialize(w)
  PROVE  /\ IsDatabase(db') /\ db'.exists /\ Sound(db', mixed) /\ Begun(db', release)
         /\ Existing(db) \subseteq Existing(db') /\ ~NoLayout(db')
         /\ \A i \in DOMAIN Releases[release].tables :
              i <= opener[w].next => Releases[release].tables[i].name \in Existing(db')
         /\ \A n : Rows(db', n) = Rows(db, n)
<1> DEFINE tables == Releases[release].tables
           next == opener[w].next
<1>1. /\ opener[w].at = "init"
      /\ db' = CASE next <= Len(tables)    -> Create(db, tables[next])
                 [] next = Len(tables) + 1 -> Stamp(db, release)
                 [] OTHER                  -> StoreVersions(db, release)
  BY DEF Initialize
<1>2. /\ IsDatabase(db) /\ Sound(db, mixed) /\ release \in DOMAIN Releases /\ mixed \in BOOLEAN
      /\ db.exists /\ next \in 1..LastStatement(release)
  BY <1>1 DEF IInv, TypeOK, Startup
<1>3. Begun(db, release) /\ \A i \in DOMAIN tables : i < next => tables[i].name \in Existing(db)
  BY <1>1 DEF IInv, Halfway, Creating
<1>4. Len(tables) \in Nat /\ Len(tables) # 0 /\ DOMAIN tables = 1..Len(tables)
      /\ \A i \in DOMAIN tables : tables[i] \in Tables(release)
  BY <1>2, Statements
<1>5. tables[1].name = "inodes"
  BY <1>2, InventoryStart
<1> HIDE DEF tables, next
<1>6. next \in Nat /\ next # 0
  BY <1>2, <1>4 DEF LastStatement, tables
<1>7. CASE next <= Len(tables)
  <2>1. next \in DOMAIN tables /\ tables[next] \in Tables(release)
    BY <1>4, <1>6, <1>7
  <2>2. db' = Create(db, tables[next])
    BY <1>1, <1>7
  <2>3. NoLayout(db) => tables[next].name = "inodes"
    <3>1. CASE next = 1
      BY <1>5, <3>1
    <3>2. CASE next # 1
      <4>1. 1 \in DOMAIN tables /\ 1 < next
        BY <1>4, <1>6, <3>2
      <4>2. "inodes" \in Existing(db)
        BY <1>3, <1>5, <4>1
      <4> QED
        BY <4>2 DEF NoLayout
    <3> QED
      BY <3>1, <3>2
  <2>4. /\ IsDatabase(db') /\ db'.exists /\ Existing(db') = Existing(db) \cup {tables[next].name}
        /\ Sound(db', mixed) /\ Begun(db', release) /\ \A n : Rows(db', n) = Rows(db, n)
    BY <1>2, <1>3, <2>1, <2>2, <2>3, CreateSound
  <2>5. ~NoLayout(db')
    BY <2>3, <2>4 DEF NoLayout
  <2>6. \A i \in DOMAIN tables : i <= next => tables[i].name \in Existing(db')
    <3>1. \A i \in DOMAIN tables : i <= next => i < next \/ i = next
      BY <1>4, <1>6
    <3> QED
      BY <1>3, <2>4, <3>1
  <2> QED
    BY <2>4, <2>5, <2>6 DEF tables, next
<1>8. CASE next > Len(tables)
  <2>1. \A i \in DOMAIN tables : i < next
    BY <1>4, <1>6, <1>8
  <2>2. \A e \in Tables(release) : e.name \in Existing(db)
    BY <1>3, <2>1 DEF Tables, tables
  <2>3. db' = Stamp(db, release) \/ db' = StoreVersions(db, release)
    BY <1>1, <1>4, <1>6, <1>8
  <2>4. /\ IsDatabase(db') /\ db'.exists /\ Existing(db') = Existing(db)
        /\ Sound(db', mixed) /\ Begun(db', release) /\ \A n : Rows(db', n) = Rows(db, n)
    <3>1. CASE db' = Stamp(db, release)
      BY <1>2, <1>3, <2>2, <3>1, StampSound
    <3>2. CASE db' = StoreVersions(db, release)
      BY <1>2, <1>3, <2>2, <3>2, VersionsSound
    <3> QED
      BY <2>3, <3>1, <3>2
  <2>5. "inodes" \in Existing(db')
    BY <1>4, <1>5, <2>2, <2>4
  <2> QED
    BY <1>3, <2>1, <2>4, <2>5 DEF NoLayout, tables, next
<1> QED
  BY <1>4, <1>6, <1>7, <1>8

\* Whoever runs the last statement leaves a database with all tables; while the
\* other one is at it still, its statements find theirs there.
LEMMA InitializeKeeps ==
  ASSUME IInv, NEW w \in {"db_thread", "setup"}, Initialize(w)
  PROVE  IInv'
<1> DEFINE tables == Releases[release].tables
           next == opener[w].next
           after == IF next = LastStatement(release) THEN Opened ELSE [opener[w] EXCEPT !.next = next + 1]
<1>1. /\ opener[w].at = "init"
      /\ opener' = [opener EXCEPT ![w] = after]
      /\ UNCHANGED <<config, install, release, stage, setup, failed, sent, mixed, bounds>>
  BY DEF Initialize
<1>2. /\ IsDatabase(db') /\ db'.exists /\ Sound(db', mixed) /\ Begun(db', release)
      /\ Existing(db) \subseteq Existing(db') /\ ~NoLayout(db')
      /\ \A i \in DOMAIN tables : i <= next => tables[i].name \in Existing(db')
      /\ \A n : Rows(db', n) = Rows(db, n)
  BY InitializeDoes
<1>3. /\ release \in DOMAIN Releases /\ mixed \in BOOLEAN
      /\ next \in 1..LastStatement(release)
      /\ opener \in [{"db_thread", "setup"} ->
           [at : {"none", "start", "init", "done"}, next : 0..(Len(tables) + 2)]]
  BY <1>1 DEF IInv, TypeOK, Startup
<1>4. Len(tables) \in Nat /\ DOMAIN tables = 1..Len(tables) /\ LastStatement(release) = Len(tables) + 2
  BY <1>3, Statements DEF LastStatement
<1> HIDE DEF tables, next, after
<1>5. \/ next = LastStatement(release) /\ after = Opened
      \/ /\ next + 1 \in 1..LastStatement(release)
         /\ after = [at |-> "init", next |-> next + 1]
  <2>1. CASE next = LastStatement(release)
    BY <2>1 DEF after
  <2>2. CASE next # LastStatement(release)
    <3>1. next + 1 \in 1..LastStatement(release)
      BY <1>3, <1>4, <2>2
    <3>2. opener[w] \in [at : {"none", "start", "init", "done"}, next : 0..(Len(tables) + 2)]
      BY <1>3
    <3>3. after = [at |-> "init", next |-> next + 1]
      BY <1>1, <2>2, <3>2 DEF after
    <3> QED
      BY <3>1, <3>3
  <2> QED
    BY <2>1, <2>2
<1>6. 0 \in 0..(Len(tables) + 2) /\ (next + 1 \in 1..LastStatement(release) => next + 1 \in 0..(Len(tables) + 2))
  BY <1>4
<1>7. after \in [at : {"none", "start", "init", "done"}, next : 0..(Len(tables) + 2)]
  BY <1>5, <1>6 DEF Opened
<1>8. /\ opener'[w] = after
      /\ \A v \in {"db_thread", "setup"} : v # w => opener'[v] = opener[v]
      /\ opener' \in [{"db_thread", "setup"} ->
           [at : {"none", "start", "init", "done"}, next : 0..(Len(tables) + 2)]]
  BY <1>1, <1>3, <1>7
<1>9. TypeOK'
  BY <1>1, <1>2, <1>8 DEF IInv, TypeOK, bounds, tables
<1>10. Halfway'
  <2>1. ASSUME NEW v \in {"db_thread", "setup"}, opener'[v].at = "init",
               NEW i \in DOMAIN tables, i < opener'[v].next
        PROVE  tables[i].name \in Existing(db')
    <3>1. CASE v = w
      <4>1. opener'[v].next = next + 1
        BY <1>5, <1>8, <2>1, <3>1 DEF Opened
      <4>2. i <= next
        BY <1>3, <1>4, <2>1, <4>1
      <4> QED
        BY <1>2, <4>2
    <3>2. CASE v # w
      BY <1>2, <1>8, <2>1, <3>2 DEF IInv, Halfway, Creating, tables
    <3> QED
      BY <3>1, <3>2
  <2> QED
    BY <1>1, <1>2, <2>1 DEF Halfway, tables
<1>11. Startup'
  <2>1. ASSUME NEW v \in {"db_thread", "setup"}
        PROVE  opener'[v].at = "init" => opener'[v].next \in 1..LastStatement(release')
    <3>1. CASE v = w
      BY <1>1, <1>5, <1>8, <3>1 DEF Opened
    <3>2. CASE v # w
      BY <1>1, <1>8, <3>2 DEF IInv, Startup
    <3> QED
      BY <3>1, <3>2
  <2>2. \A v \in {"db_thread", "setup"} : opener[v] = NotOpen => opener'[v] = NotOpen
    BY <1>1, <1>8 DEF NotOpen
  <2>3. opener'[w].at # "none"
    BY <1>5, <1>8 DEF Opened
  <2>4. \A v \in {"db_thread", "setup"} : opener[v].at # "none" => opener'[v].at # "none"
    BY <1>8, <2>3
  <2>5. \A v \in {"db_thread", "setup"} : opener[v].at = "done" => opener'[v].at = "done"
    BY <1>1, <1>8
  <2> QED
    BY <1>1, <1>2, <2>1, <2>2, <2>4, <2>5 DEF IInv, Startup
<1>12. Creating' \/ Served(db', mixed, release)
  <2>1. CASE next = LastStatement(release)
    <3>1. \A i \in DOMAIN tables : i <= next
      BY <1>4, <2>1
    <3>2. \A e \in Tables(release) : e.name \in Existing(db')
      BY <1>2, <3>1 DEF Tables, tables
    <3> QED
      BY <1>2, <1>3, <3>2, BegunLaid
  <2>2. CASE next # LastStatement(release)
    BY <1>5, <1>8, <2>2 DEF Creating
  <2> QED
    BY <2>1, <2>2
<1>13. Ready'
  BY <1>1, <1>12 DEF Ready
<1>14. sent' \subseteq Indexed(db')
  BY <1>1, <1>2 DEF IInv, Indexed
<1> QED
  BY <1>1, <1>2, <1>9, <1>10, <1>11, <1>13, <1>14 DEF IInv

\* When the DB thread is up after the startup, no one creates the database.
LEMMA NobodyCreates ==
  ASSUME IInv, stage \in {"reconciling", "ready"}, DbThreadUp
  PROVE  ~Creating /\ db.exists /\ setup = "none" /\ ~NoLayout(db)
<1>1. opener["setup"] = NotOpen /\ setup = "none"
  BY DEF IInv, Startup
<1>2. opener["db_thread"].at = "done"
  BY DEF DbThreadUp
<1> QED
  BY <1>1, <1>2 DEF Creating, NotOpen, IInv, Startup

\* A reconciliation that succeeds needs nothing of what was there but the signals.
LEMMA ReconciliationKeeps ==
  ASSUME IInv, ReconciliationSucceeds
  PROVE  /\ IInv'
         /\ Irreplaceable(db) \subseteq Irreplaceable(db')
         /\ "files" \notin Existing(db) => Known(db) \subseteq Known(db')
<1>1. /\ stage \in {"reconciling", "ready"} /\ DbThreadUp
      /\ db' = Reconciled(db, release) /\ stage' = "ready" /\ failed' = FALSE
      /\ UNCHANGED <<config, install, release, opener, setup, sent, mixed, bounds>>
  BY DEF ReconciliationSucceeds
<1>2. ~Creating /\ db.exists /\ setup = "none"
  BY <1>1, NobodyCreates
<1>3. /\ release \in DOMAIN Releases /\ IsDatabase(db) /\ mixed \in BOOLEAN
      /\ AboutFiles(db) /\ Shaped(db) /\ BlobsOnly(db) /\ (~mixed => Dated(db))
  BY DEF IInv, TypeOK, Sound
<1>4. /\ IsDatabase(db') /\ db'.exists /\ db'.stamp = release /\ ~NoLayout(db')
      /\ \A m \in BOOLEAN : Served(db', m, release)
      /\ Lasts(db, db')
      /\ "files" \notin Existing(db) => "files" \notin Existing(db') /\ Known(db) \subseteq Known(db')
      /\ AboutFiles(db') /\ Shaped(db') /\ BlobsOnly(db')
      /\ Dated(db) => Dated(db')
  <2> DEFINE y == Reconciled(db, release)
  <2>1. /\ IsDatabase(y) /\ y.exists /\ y.stamp = release /\ ~NoLayout(y)
        /\ \A m \in BOOLEAN : Served(y, m, release)
        /\ Lasts(db, y)
        /\ "files" \notin Existing(db) => "files" \notin Existing(y) /\ Known(db) \subseteq Known(y)
        /\ AboutFiles(y) /\ Shaped(y) /\ BlobsOnly(y)
        /\ Dated(db) => Dated(y)
    BY <1>2, <1>3, ReconciliationServes
  <2>2. db' = y
    BY <1>1
  <2> HIDE DEF y
  <2> QED
    BY <2>1, <2>2
<1>5. Sound(db', mixed')
  BY <1>1, <1>3, <1>4 DEF Sound, Blank, Served
<1>6. TypeOK'
  BY <1>1, <1>4 DEF IInv, TypeOK, bounds
<1>7. Startup'
  BY <1>1, <1>2, <1>4 DEF IInv, Startup
<1>8. Halfway' /\ Ready'
  BY <1>1, <1>2, <1>3, <1>4 DEF Halfway, Ready, Creating
<1>9. sent' \subseteq Indexed(db')
  BY <1>1, <1>4 DEF IInv, Indexed, Lasts
<1> QED
  BY <1>4, <1>5, <1>6, <1>7, <1>8, <1>9, LastingRows DEF IInv

\* A step that keeps the layout keeps what is said of the process.
LEMMA LayoutKept ==
  ASSUME IInv, IsDatabase(db'), db'.exists, SameLayout(db, db'),
         Sound(db', mixed'), sent' \in SUBSET File, sent' \subseteq Indexed(db'),
         mixed' \in BOOLEAN,
         Served(db, mixed, release) => Served(db', mixed', release),
         Creating => Begun(db', release),
         UNCHANGED <<config, install, release, stage, opener, setup, failed, bounds>>
  PROVE  IInv'
<1>1. TypeOK'
  BY DEF IInv, TypeOK, bounds
<1>2. Existing(db') = Existing(db) /\ (NoLayout(db') <=> NoLayout(db))
  BY DEF SameLayout, NoLayout
<1>3. Creating' <=> Creating
  BY DEF Creating
<1>4. Startup'
  BY <1>2 DEF IInv, Startup
<1>5. Halfway'
  BY <1>2, <1>3 DEF IInv, Halfway, Creating
<1>6. Ready'
  BY <1>2, <1>3 DEF IInv, Ready
<1> QED
  BY <1>1, <1>4, <1>5, <1>6 DEF IInv

\* Indexing and recording write to what no release computes; a mark is of a
\* file that was indexed.
LEMMA WritesKeep ==
  ASSUME IInv,
         \/ \E f \in File : Index(f) \/ MarkDirty(f)
         \/ \E e \in Tables(release) : Record(e)
  PROVE  /\ IInv'
         /\ Irreplaceable(db) \subseteq Irreplaceable(db') /\ Known(db) \subseteq Known(db')
<1>1. /\ IsDatabase(db) /\ Sound(db, mixed) /\ mixed \in BOOLEAN /\ release \in DOMAIN Releases
      /\ sent \subseteq Indexed(db) /\ sent \subseteq File
  BY DEF IInv, TypeOK
<1>2. Stock \cap AllComputed = {}
  BY OneTable
<1>3. Serving
  BY DEF Index, MarkDirty, Record
<1>4. ~Creating /\ db.exists
  BY <1>3, NobodyCreates DEF Serving
<1>5. CASE \E f \in File : Index(f)
  <2>1. PICK f \in File : Index(f)
    BY <1>5
  <2> DEFINE y == Grow(db, "inodes", {f})
  <2>2. /\ Writable("inodes") /\ Writable("audio") /\ db' = Grow(y, "audio", {f})
        /\ sent' = sent \cup {f}
        /\ UNCHANGED <<config, install, release, stage, opener, setup, failed, mixed, bounds>>
    BY <2>1 DEF Index
  <2>3. "inodes" \notin AllComputed /\ "audio" \notin AllComputed
    BY <1>2 DEF Stock, Lasting
  <2>4. "inodes" \in Existing(db) /\ "audio" \in Existing(db)
    BY <2>2 DEF Writable, Complete
  <2>5. /\ IsDatabase(y) /\ SameLayout(db, y) /\ y.exists
        /\ Sound(y, mixed)
        /\ Served(db, mixed, release) => Served(y, mixed, release)
        /\ Lasts(db, y) /\ Known(db) \subseteq Known(y)
        /\ Rows(y, "inodes") = Rows(db, "inodes") \cup {f} /\ Rows(y, "audio") = Rows(db, "audio")
    BY <1>1, <1>4, <2>3, <2>4, RowsSound
  <2> HIDE DEF y
  <2>6. /\ IsDatabase(db') /\ SameLayout(y, db') /\ db'.exists
        /\ Sound(db', mixed)
        /\ Served(y, mixed, release) => Served(db', mixed, release)
        /\ Lasts(y, db') /\ Known(y) \subseteq Known(db')
        /\ \A n : Rows(db', n) = IF n = "audio" /\ "audio" \in Existing(y)
                                THEN Rows(y, "audio") \cup {f} ELSE Rows(y, n)
    <3> DEFINE x == Grow(y, "audio", {f})
    <3>1. db' = x
      BY <2>2
    <3>2. /\ IsDatabase(x) /\ SameLayout(y, x) /\ x.exists
          /\ Sound(x, mixed)
          /\ Served(y, mixed, release) => Served(x, mixed, release)
          /\ Lasts(y, x) /\ Known(y) \subseteq Known(x)
      BY <1>1, <2>3, <2>5, RowsSound
    <3>3. x = SetRows(y, "audio", Rows(y, "audio") \cup {f})
      BY DEF Grow
    <3>4. \A n : Rows(x, n) = IF n = "audio" /\ "audio" \in Existing(y)
                              THEN Rows(y, "audio") \cup {f} ELSE Rows(y, n)
      BY <2>5, <3>3, RowsSet
    <3> HIDE DEF x
    <3> QED
      BY <3>1, <3>2, <3>4
  <2>7. SameLayout(db, db') /\ Lasts(db, db')
    BY <2>5, <2>6 DEF SameLayout, Lasts
  <2>8. Indexed(db') = (Rows(db, "audio") \cup {f}) \cap (Rows(db, "inodes") \cup {f})
    BY <2>4, <2>5, <2>6 DEF Indexed, SameLayout
  <2>9. sent' \in SUBSET File /\ sent' \subseteq Indexed(db')
    BY <1>1, <2>2, <2>8 DEF Indexed
  <2>10. IInv'
    BY <1>1, <1>4, <2>2, <2>5, <2>6, <2>7, <2>9, LayoutKept
  <2> QED
    BY <2>5, <2>6, <2>7, <2>10, LastingRows
<1>6. CASE \E f \in File : MarkDirty(f)
  <2>1. PICK f \in File : MarkDirty(f)
    BY <1>6
  <2> DEFINE marks == {f} \X Names(Driven(release))
  <2>2. /\ f \in sent /\ db' = Grow(db, "dirty", marks) /\ sent' = sent \ {f}
        /\ UNCHANGED <<config, install, release, stage, opener, setup, failed, mixed, bounds>>
    BY <2>1 DEF MarkDirty
  <2>3. \A mark \in marks : mark[1] \in Placed(db)
    BY <1>1, <2>2 DEF Placed, Indexed
  <2>4. "dirty" \notin AllComputed
    BY <1>2 DEF Stock
  <2> HIDE DEF marks
  <2>5. /\ IsDatabase(db') /\ SameLayout(db, db') /\ db'.exists
        /\ Sound(db', mixed)
        /\ Served(db, mixed, release) => Served(db', mixed, release)
        /\ Lasts(db, db') /\ Known(db) \subseteq Known(db') /\ Indexed(db) \subseteq Indexed(db')
    BY <1>1, <1>4, <2>2, <2>3, <2>4, RowsSound
  <2>6. sent' \in SUBSET File /\ sent' \subseteq Indexed(db')
    BY <1>1, <2>2, <2>5
  <2>7. IInv'
    BY <1>1, <1>4, <2>2, <2>5, <2>6, LayoutKept
  <2> QED
    BY <2>5, <2>7, LastingRows
<1>7. CASE \E e \in Tables(release) : Record(e)
  <2>1. PICK e \in Tables(release) : Record(e)
    BY <1>7
  <2>2. /\ e.name \in {"choices", "cache"} /\ db' = Grow(db, e.name, {"recorded"})
        /\ UNCHANGED <<config, install, release, stage, opener, setup, failed, sent, mixed, bounds>>
    BY <2>1 DEF Record, process
  <2>3. e.name \notin AllComputed /\ e.name # "dirty"
    BY <1>2, <2>2 DEF Stock, Lasting
  <2>4. /\ IsDatabase(db') /\ SameLayout(db, db') /\ db'.exists
        /\ Sound(db', mixed)
        /\ Served(db, mixed, release) => Served(db', mixed, release)
        /\ Lasts(db, db') /\ Known(db) \subseteq Known(db') /\ Indexed(db) \subseteq Indexed(db')
    BY <1>1, <1>4, <2>2, <2>3, RowsSound
  <2>5. sent' \in SUBSET File /\ sent' \subseteq Indexed(db')
    BY <1>1, <2>2, <2>4
  <2>6. IInv'
    BY <1>1, <1>4, <2>2, <2>4, <2>5, LayoutKept
  <2> QED
    BY <2>4, <2>6, LastingRows
<1> QED
  BY <1>5, <1>6, <1>7

\* The setup's user is a row of a table that no release computes.
LEMMA SetupUserKeeps ==
  ASSUME IInv, SetupUser
  PROVE  /\ IInv'
         /\ Irreplaceable(db) \subseteq Irreplaceable(db') /\ Known(db) \subseteq Known(db')
<1>1. /\ setup = "user" /\ setup' = "none" /\ opener' = [opener EXCEPT !["setup"] = NotOpen]
      /\ UNCHANGED <<config, install, release, failed, sent, mixed, bounds>>
  BY DEF SetupUser, SetupOver
<1>2. /\ IsDatabase(db) /\ Sound(db, mixed) /\ mixed \in BOOLEAN /\ release \in DOMAIN Releases
      /\ sent \subseteq Indexed(db) /\ sent \subseteq File
  BY DEF IInv, TypeOK
<1>3. stage \in {"setup", "init_user"} /\ opener["setup"].at = "done" /\ db.exists /\ ~NoLayout(db)
  BY <1>1 DEF IInv, Startup, TypeOK
<1>4. \/ stage = "setup" /\ stage' \in {"setup", "ready"}
      \/ stage = "init_user" /\ stage' \in {"init_user", "off"}
  BY <1>3 DEF SetupUser
<1>5. db' = db \/ db' = Grow(db, "users", {"first"})
  BY DEF SetupUser
<1>6. "users" \notin AllComputed
  BY OneTable DEF Stock, Lasting
<1>7. /\ IsDatabase(db') /\ SameLayout(db, db') /\ db'.exists
      /\ Sound(db', mixed)
      /\ Served(db, mixed, release) => Served(db', mixed, release)
      /\ Begun(db, release) => Begun(db', release)
      /\ Lasts(db, db') /\ Known(db) \subseteq Known(db') /\ Indexed(db) \subseteq Indexed(db')
  <2>1. CASE db' = db
    BY <1>2, <1>3, <2>1 DEF SameLayout, Lasts
  <2>2. CASE db' = Grow(db, "users", {"first"})
    BY <1>2, <1>3, <1>6, <2>2, RowsSound
  <2> QED
    BY <1>5, <2>1, <2>2
<1>8. opener \in [{"db_thread", "setup"} ->
        [at : {"none", "start", "init", "done"}, next : 0..(Len(Releases[release].tables) + 2)]]
  BY DEF IInv, TypeOK
<1>9. 0 \in 0..(Len(Releases[release].tables) + 2)
  BY <1>2, Statements
<1>10. NotOpen \in [at : {"none", "start", "init", "done"}, next : 0..(Len(Releases[release].tables) + 2)]
  BY <1>9 DEF NotOpen
<1>11. /\ opener'["setup"] = NotOpen /\ opener'["db_thread"] = opener["db_thread"]
       /\ opener' \in [{"db_thread", "setup"} ->
            [at : {"none", "start", "init", "done"}, next : 0..(Len(Releases[release].tables) + 2)]]
  BY <1>1, <1>8, <1>10
<1>12. TypeOK'
  BY <1>1, <1>4, <1>7, <1>11 DEF IInv, TypeOK, bounds
<1>13. Existing(db') = Existing(db) /\ ~NoLayout(db')
  BY <1>3, <1>7 DEF SameLayout, NoLayout
<1>14. Creating' <=> Creating
  BY <1>3, <1>11 DEF Creating, NotOpen
<1>15. Startup'
  <2>1. opener'["setup"].at = "none"
    BY <1>11 DEF NotOpen
  <2>2. stage = "init_user" => opener["db_thread"] = NotOpen
    BY DEF IInv, Startup
  <2>3. stage = "setup" => opener["db_thread"].at # "none"
    BY DEF IInv, Startup
  <2>4. opener["db_thread"].at = "init" => opener["db_thread"].next \in 1..LastStatement(release)
    BY DEF IInv, Startup
  <2> QED
    BY <1>1, <1>4, <1>7, <1>11, <1>13, <2>1, <2>2, <2>3, <2>4 DEF Startup
<1>16. Halfway'
  <2>1. \A w \in {"db_thread", "setup"} : opener'[w].at = "init" => opener'[w] = opener[w]
    BY <1>11 DEF NotOpen
  <2> QED
    BY <1>1, <1>7, <1>13, <1>14, <2>1 DEF IInv, Halfway
<1>17. Ready'
  BY <1>1, <1>3, <1>4, <1>7, <1>14 DEF IInv, Ready
<1>18. IInv'
  BY <1>1, <1>2, <1>7, <1>12, <1>15, <1>16, <1>17 DEF IInv
<1> QED
  BY <1>7, <1>18, LastingRows

\* A computation writes the version of its release: where another one is stored
\* the signals are mixed from then on.  The mark that goes has its signal.
LEMMA ComputationKeeps ==
  ASSUME IInv, NEW f \in File, NEW e \in Tables(release), e.kind = "Computed",
         Serving, f \in Placed(db), e.name \in Existing(db),
         NEW signals, signals = {row \in Rows(db, e.name) : row.of # f} \cup {Signal(f, e.blob)},
         NEW marked, marked \subseteq Rows(db, "dirty"),
         Rows(db, "dirty") \ {<<f, e.name>>} \subseteq marked,
         IsDatabase(db'), SameLayout(db, db'),
         \A n : Rows(db', n) = IF n = e.name THEN signals
                               ELSE IF n = "dirty" THEN marked ELSE Rows(db, n),
         mixed' = (mixed \/ Stored(db, e.name) # e.blob),
         UNCHANGED <<config, install, release, stage, opener, setup, failed, sent, bounds>>
  PROVE  /\ IInv'
         /\ Irreplaceable(db) \subseteq Irreplaceable(db') /\ Known(db) \subseteq Known(db')
<1>2. /\ IsDatabase(db) /\ Sound(db, mixed) /\ mixed \in BOOLEAN /\ release \in DOMAIN Releases
      /\ sent \subseteq Indexed(db) /\ sent \subseteq File
  BY DEF IInv, TypeOK
<1>3. ~Creating /\ db.exists
  BY NobodyCreates DEF Serving
<1>4. e.name \in AllComputed
  BY <1>2 DEF AllComputed, Names, Computed
<1>5. e.name \notin Stock /\ e.name # "dirty"
  BY <1>4, OneTable DEF Stock
<1>10. SameLayout(db, db') /\ db'.exists
  BY <1>3 DEF SameLayout
<1>11. /\ Rows(db', e.name) = signals /\ Rows(db', "dirty") = marked
       /\ \A n : n # e.name /\ n # "dirty" => Rows(db', n) = Rows(db, n)
  BY <1>5
<1>12. \A n : Stored(db', n) = Stored(db, n)
  BY <1>10 DEF SameLayout, Stored
<1>13. \A n \in Lasting : Rows(db', n) = Rows(db, n)
  <2>1. "dirty" \notin Lasting
    BY DEF Lasting
  <2> QED
    BY <1>5, <1>11, <2>1 DEF Stock
<1>14. Lasts(db, db') /\ Placed(db') = Placed(db) /\ Indexed(db') = Indexed(db)
  BY <1>13 DEF Lasts, Lasting, Placed, Indexed
<1>15. \A t \in AllComputed : t # e.name => Rows(db', t) = Rows(db, t)
  BY <1>11, OneTable DEF Stock
<1>16. \A row \in signals : row \in Rows(db, e.name) \/ (row.of = f /\ row.version = e.blob)
  BY DEF Signal
<1>17. Signal(f, e.blob) \in signals /\ Signal(f, e.blob).of = f
  BY DEF Signal
<1>18. Known(db) \subseteq Known(db')
  <2>1. ASSUME NEW t \in Owed, NEW row \in Rows(db, t)
        PROVE  <<row.of, t>> \in Known(db')
    <3>1. CASE t = e.name /\ row.of = f
      BY <1>11, <1>17, <2>1, <3>1 DEF Known
    <3>2. CASE t = e.name /\ row.of # f
      <4>1. row \in Rows(db', t)
        BY <1>11, <2>1, <3>2
      <4> QED
        BY <4>1 DEF Known
    <3>3. CASE t # e.name
      BY <1>15, <2>1, <3>3, OwedIsComputed DEF Known
    <3> QED
      BY <3>1, <3>2, <3>3
  <2>2. ASSUME NEW mark \in Rows(db, "dirty"), mark[2] \in Owed
        PROVE  mark \in Known(db')
    <3>1. CASE mark = <<f, e.name>>
      <4>1. mark[2] = e.name
        BY <3>1
      <4> QED
        BY <1>11, <1>17, <2>2, <3>1, <4>1 DEF Known
    <3>2. CASE mark # <<f, e.name>>
      BY <1>11, <2>2, <3>2 DEF Known
    <3> QED
      BY <3>1, <3>2
  <2> QED
    BY <2>1, <2>2 DEF Known
<1>20. AboutFiles(db')
  <2>1. ASSUME NEW t \in AllComputed, NEW row \in Rows(db', t) PROVE row.of \in Placed(db)
    <3>1. CASE t = e.name /\ row \notin Rows(db, t)
      BY <1>11, <1>16, <2>1, <3>1
    <3>2. CASE row \in Rows(db, t)
      BY <1>2, <3>2 DEF Sound, AboutFiles, Placed
    <3> QED
      BY <1>15, <2>1, <3>1, <3>2
  <2>2. \A mark \in Rows(db', "dirty") : mark[1] \in Placed(db)
    BY <1>2, <1>11 DEF Sound, AboutFiles, Placed
  <2> QED
    BY <1>14, <2>1, <2>2 DEF AboutFiles, Placed
<1>21. mixed' \in BOOLEAN /\ (mixed => mixed') /\ (~mixed' => Stored(db, e.name) = e.blob)
  BY <1>2
<1>22. ~mixed' => Dated(db')
  <2> SUFFICES ASSUME ~mixed', NEW t \in AllComputed, NEW row \in Rows(db', t)
               PROVE  row.version = Stored(db', t)
    BY DEF Dated
  <2>1. Dated(db)
    BY <1>2, <1>21 DEF Sound
  <2>2. CASE row \in Rows(db, t)
    BY <1>12, <2>1, <2>2 DEF Dated
  <2>3. CASE t = e.name /\ row \notin Rows(db, t)
    BY <1>11, <1>12, <1>16, <1>21, <2>3
  <2> QED
    BY <1>15, <2>2, <2>3
<1>23. BlobsOnly(db') /\ Shaped(db') /\ Blank(db')
  <2>1. BlobsOnly(db')
    BY <1>2, <1>12 DEF Sound, BlobsOnly
  <2>2. Shaped(db')
    BY <1>2, <1>10 DEF Sound, Shaped, SameLayout
  <2>3. Blank(db')
    BY <1>2, <1>10 DEF Sound, Blank, NoLayout, SameLayout
  <2> QED
    BY <2>1, <2>2, <2>3
<1>24. ASSUME NEW r \in DOMAIN Releases, NEW g \in Tables(r), g.kind = "Computed", Current(db, mixed, g)
       PROVE  Current(db', mixed', g)
  <2>1. CASE Stored(db, g.name) = g.blob
    BY <1>12, <2>1 DEF Current
  <2>2. CASE Stored(db, g.name) = 0 /\ mixed
    BY <1>12, <1>21, <2>2 DEF Current
  <2>3. CASE Stored(db, g.name) = 0 /\ Rows(db, g.name) = {} /\ g.name # e.name
    <3>1. g.name \in AllComputed
      BY <1>24 DEF AllComputed, Names, Computed
    <3> QED
      BY <1>12, <1>15, <2>3, <3>1 DEF Current
  <2>4. CASE Stored(db, g.name) = 0 /\ g.name = e.name /\ g.blob # 0
    <3>1. e.blob # 0
      BY <1>2, <2>4, OneTable
    <3> QED
      BY <1>12, <1>21, <2>4, <3>1 DEF Current
  <2> QED
    BY <1>24, <2>1, <2>2, <2>3, <2>4 DEF Current
<1>25. \A r \in DOMAIN Releases : Laid(db, mixed, r) => Laid(db', mixed', r)
  <2>1. \A r \in DOMAIN Releases : \A g \in Tables(r) : Complete(db, g) => Complete(db', g)
    BY <1>10 DEF SameLayout, Complete
  <2> QED
    BY <1>24, <2>1 DEF Laid
<1>26. Served(db, mixed, release) => Served(db', mixed', release)
  BY <1>2, <1>10, <1>25 DEF Served, Right, Laid, Complete, SameLayout
<1>27. db'.stamp # 0 => Laid(db', mixed', db'.stamp)
  <2>1. db'.stamp = db.stamp /\ db.stamp \in 0..Len(Releases)
    BY <1>2, <1>10 DEF SameLayout, IsDatabase
  <2>2. db.stamp # 0 => db.stamp \in DOMAIN Releases
    BY <2>1, ReleasesType DEF IsSeq
  <2> QED
    BY <1>2, <1>25, <2>1, <2>2 DEF Sound
<1>28. Sound(db', mixed')
  BY <1>20, <1>22, <1>23, <1>27 DEF Sound
<1>29. sent' \in SUBSET File /\ sent' \subseteq Indexed(db')
  BY <1>2, <1>14
<1>30. IInv'
  BY <1>3, <1>10, <1>21, <1>26, <1>28, <1>29, LayoutKept
<1> QED
  BY <1>14, <1>18, <1>30, LastingRows

\* What it says of the file leaves the layout as it is.
LEMMA SaysRows ==
  ASSUME NEW d, IsDatabase(d), d.exists, NEW f, NEW e, e.name \in Existing(d)
  PROVE  /\ IsDatabase(Says(d, f, e)) /\ SameLayout(d, Says(d, f, e)) /\ Says(d, f, e).exists
         /\ \A n : Rows(Says(d, f, e), n) =
              IF n = e.name THEN {row \in Rows(d, e.name) : row.of # f} \cup {Signal(f, e.blob)}
              ELSE Rows(d, n)
<1> DEFINE k == e.name
           signals == {row \in Rows(d, k) : row.of # f} \cup {Signal(f, e.blob)}
           y == SetRows(d, k, signals)
<1>1. Says(d, f, e) = y
  BY DEF Says
<1> HIDE DEF k, signals
<1>2. /\ IsDatabase(y) /\ SameLayout(d, y)
      /\ \A n : Rows(y, n) = IF n = k /\ k \in Existing(d) THEN signals ELSE Rows(d, n)
  BY RowsSet
<1> HIDE DEF y
<1> QED
  BY <1>1, <1>2 DEF k, signals, SameLayout

LEMMA AnalyseKeeps ==
  ASSUME IInv, NEW f \in File, NEW e \in Tables(release), e.kind = "Computed", Analyse(f, e)
  PROVE  /\ IInv'
         /\ Irreplaceable(db) \subseteq Irreplaceable(db') /\ Known(db) \subseteq Known(db')
<1> DEFINE marked == Rows(db, "dirty") \ {<<f, e.name>>}
           y == Says(db, f, e)
<1>1. /\ Serving /\ <<f, e.name>> \in Rows(db, "dirty") /\ Complete(db, e)
      /\ db' = SetRows(y, "dirty", marked)
      /\ mixed' = (mixed \/ Stored(db, e.name) # e.blob)
      /\ UNCHANGED <<config, install, release, stage, opener, setup, failed, sent, bounds>>
  BY DEF Analyse
<1>2. IsDatabase(db) /\ Sound(db, mixed) /\ release \in DOMAIN Releases
  BY DEF IInv, TypeOK
<1>3. db.exists
  BY <1>1, NobodyCreates DEF Serving
<1>4. e.name \in AllComputed
  BY <1>2 DEF AllComputed, Names, Computed
<1>5. e.name # "dirty"
  BY <1>4, OneTable DEF Stock
<1>6. e.name \in Existing(db) /\ "dirty" \in Existing(db)
  BY <1>1 DEF Complete, Rows
<1> DEFINE signals == {row \in Rows(db, e.name) : row.of # f} \cup {Signal(f, e.blob)}
<1>7. /\ IsDatabase(y) /\ SameLayout(db, y) /\ y.exists
      /\ \A n : Rows(y, n) = IF n = e.name THEN signals ELSE Rows(db, n)
  BY <1>2, <1>3, <1>6, SaysRows
<1> HIDE DEF y, marked, signals
<1>8. /\ IsDatabase(db') /\ SameLayout(y, db')
      /\ \A n : Rows(db', n) = IF n = "dirty" /\ "dirty" \in Existing(y) THEN marked ELSE Rows(y, n)
  BY <1>1, <1>7, RowsSet
<1>9. SameLayout(db, db') /\ "dirty" \in Existing(y)
  BY <1>6, <1>7, <1>8 DEF SameLayout
<1>10. \A n : Rows(db', n) = IF n = e.name THEN signals
                             ELSE IF n = "dirty" THEN marked ELSE Rows(db, n)
  BY <1>5, <1>7, <1>8, <1>9
<1>11. f \in Placed(db)
  <2>1. <<f, e.name>>[1] = f
    OBVIOUS
  <2> QED
    BY <1>1, <1>2, <2>1 DEF Sound, AboutFiles, Placed
<1>12. marked \subseteq Rows(db, "dirty") /\ Rows(db, "dirty") \ {<<f, e.name>>} \subseteq marked
  BY DEF marked
<1>13. signals = {row \in Rows(db, e.name) : row.of # f} \cup {Signal(f, e.blob)}
  BY DEF signals
<1>14. /\ Serving /\ mixed' = (mixed \/ Stored(db, e.name) # e.blob)
       /\ UNCHANGED <<config, install, release, stage, opener, setup, failed, sent, bounds>>
  BY <1>1
<1>15. IsDatabase(db') /\ SameLayout(db, db') /\ e.name \in Existing(db)
  BY <1>6, <1>8, <1>9
<1> QED
  BY <1>10, <1>11, <1>12, <1>13, <1>14, <1>15, ComputationKeeps

LEMMA ObserveKeeps ==
  ASSUME IInv, NEW f \in File, NEW e \in Tables(release), e.kind = "Computed", Observe(f, e)
  PROVE  /\ IInv'
         /\ Irreplaceable(db) \subseteq Irreplaceable(db') /\ Known(db) \subseteq Known(db')
<1> DEFINE signals == {row \in Rows(db, e.name) : row.of # f} \cup {Signal(f, e.blob)}
           marked == Rows(db, "dirty")
<1>1. /\ Serving /\ f \in Indexed(db) /\ Complete(db, e)
      /\ db' = Says(db, f, e)
      /\ mixed' = (mixed \/ Stored(db, e.name) # e.blob)
      /\ UNCHANGED <<config, install, release, stage, opener, setup, failed, sent, bounds>>
  BY DEF Observe
<1>2. IsDatabase(db) /\ db.exists
  BY <1>1, NobodyCreates DEF IInv, TypeOK, Serving
<1>3. e.name \in Existing(db) /\ f \in Placed(db)
  BY <1>1 DEF Complete, Indexed, Placed
<1>4. /\ IsDatabase(db') /\ SameLayout(db, db')
      /\ \A n : Rows(db', n) = IF n = e.name THEN signals ELSE Rows(db, n)
  BY <1>1, <1>2, <1>3, SaysRows
<1>5. \A n : Rows(db', n) = IF n = e.name THEN signals
                            ELSE IF n = "dirty" THEN marked ELSE Rows(db, n)
  BY <1>4
<1>6. signals = {row \in Rows(db, e.name) : row.of # f} \cup {Signal(f, e.blob)}
  OBVIOUS
<1>7. marked \subseteq Rows(db, "dirty") /\ Rows(db, "dirty") \ {<<f, e.name>>} \subseteq marked
  OBVIOUS
<1> HIDE DEF signals, marked
<1> QED
  BY <1>1, <1>3, <1>4, <1>5, <1>6, <1>7, ComputationKeeps

-----------------------------------------------------------------------------
(* The theorems.                                                           *)

\* A database that is found, and one that is not there, are as they should be.
LEMMA Initially ==
  ASSUME Init
  PROVE  IInv
<1>1. /\ install \in Installs
      /\ \/ db = NoDatabase /\ config = FALSE
         \/ db \in Found /\ config = install.writable
      /\ release = 1 /\ stage = "off" /\ setup = "none" /\ failed = FALSE /\ sent = {} /\ mixed = FALSE
      /\ opener = [w \in {"db_thread", "setup"} |-> NotOpen]
      /\ boots = 0 /\ failures = 0
  BY DEF Init
<1>2. release \in DOMAIN Releases
  BY <1>1, ReleasesType DEF IsSeq
<1>3. config \in BOOLEAN
  BY <1>1, InstallsType
<1>4. IsDatabase(db) /\ Sound(db, mixed)
  <2>1. CASE db = NoDatabase
    <3>1. /\ db.exists = FALSE /\ db.tables = <<>> /\ db.stamp = 0 /\ db.versions = <<>>
          /\ db.applied = {}
      BY <2>1 DEF NoDatabase
    <3>2. Existing(db) = {} /\ DOMAIN db.versions = {}
      BY <3>1 DEF Existing
    <3>3. (\A n : Rows(db, n) = {}) /\ (\A n : Stored(db, n) = 0)
      BY <3>2 DEF Rows, Stored
    <3>4. 0 \in 0..Len(Releases)
      BY ReleasesType DEF IsSeq
    <3>5. IsDatabase(db)
      BY <2>1, <3>1, <3>2, <3>4 DEF IsDatabase
    <3>6. BlobsOnly(db) /\ Shaped(db) /\ AboutFiles(db) /\ Dated(db)
      BY <3>2, <3>3 DEF BlobsOnly, Shaped, AboutFiles, Dated
    <3> QED
      BY <3>1, <3>2, <3>5, <3>6 DEF Sound, Blank
  <2>2. CASE db \in Found
    BY <2>2, FoundType DEF Sound, Blank, NoLayout
  <2> QED
    BY <1>1, <2>1, <2>2
<1>5. 0 \in 0..(Len(Releases[release].tables) + 2)
  BY <1>2, Statements
<1>6. NotOpen \in [at : {"none", "start", "init", "done"}, next : 0..(Len(Releases[release].tables) + 2)]
  BY <1>5 DEF NotOpen
<1>7. opener \in [{"db_thread", "setup"} ->
        [at : {"none", "start", "init", "done"}, next : 0..(Len(Releases[release].tables) + 2)]]
  BY <1>1, <1>6
<1>8. boots \in 0..MaxBoots /\ failures \in 0..MaxFailures
  BY <1>1, BoundsType
<1>9. TypeOK
  BY <1>1, <1>2, <1>3, <1>4, <1>7, <1>8 DEF TypeOK
<1>10. Startup /\ Halfway /\ Ready
  BY <1>1 DEF Startup, Halfway, Ready, Creating, NotOpen
<1> QED
  BY <1>1, <1>4, <1>9, <1>10 DEF IInv

\* No step breaks the invariant, and none loses what lasts or is owed.
LEMMA StepKeeps ==
  ASSUME IInv, [Next]_vars
  PROVE  /\ IInv'
         /\ Irreplaceable(db) \subseteq Irreplaceable(db')
         /\ "files" \notin Existing(db) => Known(db) \subseteq Known(db')
<1>1. ASSUME NEW w \in {"db_thread", "setup"}, Open(w) \/ Initialize(w)
      PROVE  IInv' /\ \A n : Rows(db', n) = Rows(db, n)
  <2>1. CASE Open(w)
    <3>1. DOMAIN db = {"exists", "tables", "stamp", "versions", "applied"}
      BY DEF IInv, TypeOK, IsDatabase, NoDatabase
    <3>2. db'.tables = db.tables
      BY <2>1, <3>1 DEF Open
    <3> QED
      BY <2>1, <3>2, OpenKeeps DEF Rows, Existing
  <2>2. CASE Initialize(w)
    BY <2>2, InitializeKeeps, InitializeDoes
  <2> QED
    BY <1>1, <2>1, <2>2
<1>2. ASSUME NEW w \in {"db_thread", "setup"}, Open(w) \/ Initialize(w)
      PROVE  Irreplaceable(db) \subseteq Irreplaceable(db') /\ Known(db) \subseteq Known(db')
  BY <1>1, <1>2 DEF Irreplaceable, Known
<1>3. ASSUME NEW r \in DOMAIN Releases, Boot(r)
      PROVE  IInv' /\ db' = db
  BY <1>3, BootKeeps DEF Boot
<1>4. ASSUME Check \/ ReconciliationFails
      PROVE  IInv' /\ db' = db
  BY <1>4, CheckKeeps DEF Check, ReconciliationFails
<1>5. ASSUME CompleteSetup \/ SetupConfig \/ InitUser \/ SetupOpened
      PROVE  IInv' /\ db' = db
  BY <1>5, SetupKeeps DEF CompleteSetup, SetupConfig, InitUser, SetupOpened
<1>6. ASSUME Crash
      PROVE  IInv' /\ db' = db
  BY <1>6, CrashKeeps DEF Crash
<1>7. ASSUME UNCHANGED vars
      PROVE  IInv' /\ db' = db
  <2>1. /\ UNCHANGED <<db, config, install, release, stage, opener, setup, failed, sent, mixed>>
        /\ UNCHANGED <<boots, failures>>
    BY <1>7 DEF vars, process, bounds
  <2>2. TypeOK'
    BY <2>1 DEF IInv, TypeOK
  <2>3. Startup' /\ Halfway' /\ Ready'
    BY <2>1 DEF IInv, Startup, Halfway, Ready, Creating
  <2> QED
    BY <2>1, <2>2, <2>3 DEF IInv
<1>8. CASE ReconciliationSucceeds
  BY <1>8, ReconciliationKeeps
<1>9. CASE SetupUser
  BY <1>9, SetupUserKeeps
<1>10. CASE \E f \in File : Index(f) \/ MarkDirty(f)
  BY <1>10, WritesKeep
<1>11. CASE \E e \in Tables(release) : Record(e) \/ (e.kind = "Computed" /\ \E f \in File : Analyse(f, e) \/ Observe(f, e))
  <2>1. CASE \E e \in Tables(release) : Record(e)
    BY <2>1, WritesKeep
  <2>2. CASE \E e \in Tables(release) : e.kind = "Computed" /\ \E f \in File : Analyse(f, e) \/ Observe(f, e)
    BY <2>2, AnalyseKeeps, ObserveKeeps
  <2> QED
    BY <1>11, <2>1, <2>2
<1>12. \/ \E w \in {"db_thread", "setup"} : Open(w) \/ Initialize(w)
       \/ \E r \in DOMAIN Releases : Boot(r)
       \/ Check \/ ReconciliationFails
       \/ CompleteSetup \/ SetupConfig \/ InitUser \/ SetupOpened
       \/ Crash \/ UNCHANGED vars
       \/ ReconciliationSucceeds \/ SetupUser
       \/ \E f \in File : Index(f) \/ MarkDirty(f)
       \/ \E e \in Tables(release) : Record(e) \/ (e.kind = "Computed" /\ \E f \in File : Analyse(f, e) \/ Observe(f, e))
  BY DEF Next
<1> QED
  BY <1>1, <1>2, <1>3, <1>4, <1>5, <1>6, <1>7, <1>8, <1>9, <1>10, <1>11, <1>12

\* The invariant holds of every behaviour.
LEMMA Invariant == Spec => []IInv
<1>1. Init => IInv
  BY Initially
<1>2. IInv /\ [Next]_vars => IInv'
  BY StepKeeps
<1> QED
  BY <1>1, <1>2, PTL DEF Spec

\* The database and the process are always of their types.
THEOREM TypeCorrect == Spec => []TypeOK
<1>1. IInv => TypeOK
  BY DEF IInv
<1> QED
  BY <1>1, Invariant, PTL

\* For any releases, whatever was found, and however starts, crashes, failed
\* reconciliations and changes of release follow one another: a ready Witch whose
\* reconciliation did not fail has the tables, keys and blobs of its release.
THEOREM SchemaIsServed == Spec => []SchemaServed
<1>1. ASSUME IInv PROVE SchemaServed
  <2> SUFFICES ASSUME Serving, ~failed, NEW e \in Tables(release)
               PROVE  /\ Complete(db, e)
                      /\ e.kind # "Computed" => db.tables[e.name].shape = e.shape
                      /\ e.kind = "Computed" /\ ~mixed => \A row \in Rows(db, e.name) : row.version = e.blob
    BY DEF SchemaServed
  <2>1. ~Creating /\ stage = "ready"
    BY <1>1, NobodyCreates DEF Serving
  <2>2. Served(db, mixed, release)
    BY <1>1, <2>1 DEF IInv, Ready
  <2>3. Complete(db, e) /\ (e.kind # "Computed" => db.tables[e.name].shape = e.shape)
    BY <2>2 DEF Served, Laid, Right
  <2>4. ASSUME e.kind = "Computed", ~mixed, NEW row \in Rows(db, e.name)
        PROVE  row.version = e.blob
    <3>1. e.name \in AllComputed
      BY <1>1, <2>4 DEF AllComputed, Names, Computed, IInv, TypeOK
    <3>2. row.version = Stored(db, e.name)
      BY <1>1, <2>4, <3>1 DEF IInv, Sound, Dated
    <3>3. Stored(db, e.name) = e.blob
      BY <2>2, <2>4 DEF Served, Laid, Current
    <3> QED
      BY <3>2, <3>3
  <2> QED
    BY <2>3, <2>4
<1> QED
  BY <1>1, Invariant, PTL

\* No migration, recreation, crash or failure of any release loses what cannot be
\* computed again.
THEOREM NothingIsLost == Spec => NothingLost
<1>1. ASSUME IInv, [Next]_vars
      PROVE  [Irreplaceable(db) \subseteq Irreplaceable(db')]_vars
  BY <1>1, StepKeeps
<1> QED
  BY <1>1, Invariant, PTL DEF Spec, NothingLost

\* What was computed for a file from its marks, or is marked, stays computed or
\* marked, in every table the releases list, except when a legacy database is split.
THEOREM SignalsAreOwed == Spec => SignalsOwed
<1>1. ASSUME IInv, [Next]_vars
      PROVE  [("files" \in Existing(db)) \/ Known(db) \subseteq Known(db')]_vars
  BY <1>1, StepKeeps
<1> QED
  BY <1>1, Invariant, PTL DEF Spec, SignalsOwed

=============================================================================
