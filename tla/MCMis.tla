-------------------------------- MODULE MCMis --------------------------------
(* The solver for TLC: every way two or three releases, tried exhaustively, *)
(* and every way four, searched by branch and bound, can want three files,  *)
(* under scores that are equal, that grow with the index, or that favour    *)
(* every other release.                                                     *)
EXTENDS Mis, FiniteSetsExt

CONSTANT File

FamiliesOf(n) ==
  [files : [0 .. n - 1 -> SUBSET File \ {{}}],
   score : {[c \in 0 .. n - 1 |-> 1], [c \in 0 .. n - 1 |-> c + 1],
            [c \in 0 .. n - 1 |-> IF c % 2 = 0 THEN 3 ELSE 1]}]
Families == FamiliesOf(2) \cup FamiliesOf(3) \cup FamiliesOf(4)

Shares(f, c, d) == f.files[c] \cap f.files[d] # {}
FilesOf(f, S) == MapThenSumSet(LAMBDA c : Cardinality(f.files[c]), S)
ScoreOf(f, S) == MapThenSumSet(LAMBDA c : f.score[c], S)
SizeOf(f) == Cardinality(DOMAIN f.files)
=============================================================================
