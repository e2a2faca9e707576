------------------------------ MODULE MCPacking ------------------------------
(* Release packing for TLC: three releases, three files, and a handful of   *)
(* libraries, each chosen for a way in which the releases compete.          *)
EXTENDS Packing

CONSTANTS a, b, c, f1, f2, f3

Each(x, y, z) == (a :> x) @@ (b :> y) @@ (c :> z)
Always(x) == [v \in Version |-> x]
None == Always([r \in Release |-> {}])
Rows(fs) == {<<fs[k], k>> : k \in DOMAIN fs}
FilesOf(rows) == [r \in Release |-> {row[1] : row \in rows[r]}]

\* Releases matched once and for all, with nothing pinned.
Plain(rows, tracks, score, tidy) ==
  [heard |-> FilesOf(rows), housed |-> [r \in Release |-> {}],
   matched |-> Always(rows), found |-> None, tracks |-> tracks, score |-> score,
   tidy |-> tidy, pinned |-> {}, clashing |-> {},
   singlesFirst |-> FALSE, discographies |-> FALSE]

\* a is whole, b wants one of its files and has gaps, c is a single.
Album ==
  Plain(Each(Rows(<<f1, f2>>), Rows(<<f2, f3>>), Rows(<<f3>>)),
        Each({1, 2}, {1, 2, 3}, {1}), Each(2, 3, 1), {a})

\* Two whole releases compete for a file, and the loser's other file is left.
Rivals ==
  Plain(Each(Rows(<<f1, f2>>), Rows(<<f2, f3>>), Rows(<<f1>>)),
        Each({1, 2}, {1, 2}, {1}), Each(2, 3, 1), {a, b})

\* Three untidy ones form a knot; c has all the files.
Knot ==
  Plain(Each(Rows(<<f1, f2>>), Rows(<<f2, f3>>), Rows(<<f1, f2, f3>>)),
        Each({1, 2}, {1, 2}, {1, 2, 3}), Each(2, 2, 1), {})

\* a is pinned, b is pinned twice, c competes with a.
Pinned ==
  [Plain(Each(Rows(<<f1, f2>>), Rows(<<f3>>), Rows(<<f2, f3>>)),
         Each({1, 2}, {1}, {1, 2}), Each(1, 1, 3), {c})
   EXCEPT !.pinned = {a, b}, !.clashing = {b}, !.housed = Each({f1}, {}, {})]

\* a and c are both pinned, by directories one of which is in the other.
Nested == [Pinned EXCEPT !.pinned = {a, c}, !.clashing = {}]

\* Only f1 is matched, and only with a; elimination finds a's second file, and
\* the edit makes a match of it.
Lone ==
  [Plain(Each(Rows(<<f1>>), {}, {}), Each({1, 2}, {1}, {1}), Each(1, 1, 1), {a})
   EXCEPT !.found = Always(Each({<<f2, 2>>}, {}, {}))]

\* Edits move f2 to another slot.
Moved ==
  [Plain(Each(Rows(<<f1, f2>>), Rows(<<f3>>), Rows(<<f2>>)),
         Each({1, 2, 3}, {1}, {1, 2}), Each(2, 1, 1), {})
   EXCEPT !.matched = [v \in Version |-> IF v = 0 THEN @[v]
                         ELSE Each({<<f1, 1>>, <<f2, 3>>}, Rows(<<f3>>), {<<f2, 2>>})],
          !.singlesFirst = TRUE]

Libraries == {Album, Rivals, Knot, [Knot EXCEPT !.discographies = TRUE], Pinned, Nested, Lone, Moved}
=============================================================================
