--------------------------------- MODULE Mis ---------------------------------
(***************************************************************************)
(* The solver behind release packing (release_packing/mis.rs).  Releases   *)
(* that want the same files conflict; of one connected component of the    *)
(* conflict graph it picks releases whose files are disjoint, so that as   *)
(* many files as possible are covered and, among such picks, the total     *)
(* score is highest.                                                       *)
(*                                                                         *)
(* Up to ExhaustiveLimit releases every subset is tried in turn.  Beyond,  *)
(* a depth-first branch and bound keeps a stack of partial picks and cuts  *)
(* those that cannot beat the best pick found.  One step here is one turn  *)
(* of either loop.                                                         *)
(*                                                                         *)
(* Scores are f64 in the code and naturals here: rounding is left out.     *)
(***************************************************************************)
EXTENDS Integers, Sequences, FiniteSets

CONSTANTS
  Family,           \* the components the solver may be given
  Size(_),          \* how many releases a component has
  Conflict(_,_,_),  \* Conflict(f, c, d): c and d want a common file
  Coverage(_,_),    \* Coverage(f, S): the files the releases of S want
  Score(_,_),       \* Score(f, S): their total score
  ExhaustiveLimit   \* the size up to which every subset is tried (25)

\* The releases of a component, by their index.
Candidates(f) == 0 .. Size(f) - 1

ASSUME SizeNat == \A f \in Family : Size(f) \in Nat \ {0}
ASSUME ConflictSymmetric ==
  \A f \in Family : \A c, d \in Candidates(f) :
    Conflict(f, c, d) \in BOOLEAN /\ Conflict(f, c, d) = Conflict(f, d, c)
ASSUME Additive ==
  \A f \in Family : \A S, T \in SUBSET Candidates(f) :
    /\ Coverage(f, S) \in Nat /\ Score(f, S) \in Nat
    /\ S \cap T = {} =>
         /\ Coverage(f, S \cup T) = Coverage(f, S) + Coverage(f, T)
         /\ Score(f, S \cup T) = Score(f, S) + Score(f, T)
ASSUME NothingWeighsNothing ==
  \A f \in Family : Coverage(f, {}) = 0 /\ Score(f, {}) = 0

VARIABLES
  family,   \* the component being solved
  mask,     \* the next subset to try, as a bit mask; 0 when not exhaustive
  stack,    \* the partial picks still to be explored, the next one last
  best      \* the best pick so far: selected, coverage, score

misVars == <<family, mask, stack, best>>

\* A partial pick: what is selected, and what may still be added to it.
Node(f) == [selected : SUBSET Candidates(f), candidates : SUBSET Candidates(f),
            coverage : Nat, score : Nat]
Pick(f) == [selected : SUBSET Candidates(f), coverage : Nat, score : Nat \cup {-1}]

MisTypeOK ==
  /\ family \in Family
  /\ mask \in Nat
  /\ stack \in Seq(Node(family))
  /\ best \in Pick(family)

\* No pick: -1 stands for the code's negative infinity, below every score.
NoPick == [selected |-> {}, coverage |-> 0, score |-> -1]
Root(f) == [selected |-> {}, candidates |-> Candidates(f), coverage |-> 0, score |-> 0]
Exhaustive == Size(family) <= ExhaustiveLimit

MisInit ==
  /\ family \in Family
  /\ best = NoPick
  /\ mask = IF Exhaustive THEN 1 ELSE 0
  /\ stack = IF Exhaustive THEN <<>> ELSE <<Root(family)>>

-----------------------------------------------------------------------------
Independent(f, S) == \A c, d \in S : c # d => ~Conflict(f, c, d)

\* The order of picks: coverage first, then score.
Beats(p, q) ==
  p.coverage > q.coverage \/ (p.coverage = q.coverage /\ p.score > q.score)
PickOf(f, S) == [selected |-> S, coverage |-> Coverage(f, S), score |-> Score(f, S)]

\* The better of the two, the old one on a tie.
BetterOf(old, new) == IF Beats(new, old) THEN new ELSE old

-----------------------------------------------------------------------------
(* Every subset.                                                           *)

\* 1 << c, and the subset that a bit mask stands for.
Bit(c) == LET bit[k \in 0 .. c] == IF k = 0 THEN 1 ELSE 2 * bit[k - 1] IN bit[c]
Subset(m) == {c \in Candidates(family) : (m \div Bit(c)) % 2 = 1}

\* Mutant: a subset is taken for its size alone.
TryAnything ==
  /\ mask \in 1 .. Bit(Size(family)) - 1
  /\ mask' = mask + 1
  /\ best' = BetterOf(best, PickOf(family, Subset(mask)))
  /\ UNCHANGED <<family, stack>>

Try ==
  /\ mask \in 1 .. Bit(Size(family)) - 1
  /\ mask' = mask + 1
  /\ best' = IF Independent(family, Subset(mask))
             THEN BetterOf(best, PickOf(family, Subset(mask)))
             ELSE best
  /\ UNCHANGED <<family, stack>>

-----------------------------------------------------------------------------
(* Branch and bound.                                                       *)

Top == stack[Len(stack)]
Popped == SubSeq(stack, 1, Len(stack) - 1)

\* Mutant: a node that could only tie the coverage is cut whatever its score.
CutsTies(n) == n.coverage + Coverage(family, n.candidates) <= best.coverage

\* Nothing below the node can beat the best pick.
Hopeless(n) ==
  LET reach == n.coverage + Coverage(family, n.candidates)
  IN  \/ reach < best.coverage
      \/ /\ reach = best.coverage
         /\ n.score + Score(family, n.candidates) <= best.score

Prune ==
  /\ stack # <<>> /\ Hopeless(Top)
  /\ stack' = Popped
  /\ UNCHANGED <<family, mask, best>>

\* A complete pick that is not hopeless becomes the best one.
Leaf ==
  /\ stack # <<>> /\ ~Hopeless(Top) /\ Top.candidates = {}
  /\ stack' = Popped
  /\ best' = BetterOf(best, [selected |-> Top.selected,
                             coverage |-> Top.coverage, score |-> Top.score])
  /\ UNCHANGED <<family, mask>>

Degree(n, c) == Cardinality({d \in n.candidates \ {c} : Conflict(family, c, d)})

\* The candidate with the most rivals left, the first of them.
IsPivot(n, p) ==
  \A c \in n.candidates : \/ Degree(n, p) > Degree(n, c)
                          \/ Degree(n, p) = Degree(n, c) /\ p <= c

Without(n, p) == [n EXCEPT !.candidates = @ \ {p}]

With(n, p) ==
  [selected   |-> n.selected \cup {p},
   candidates |-> {c \in n.candidates \ {p} : ~Conflict(family, p, c)},
   coverage   |-> n.coverage + Coverage(family, {p}),
   score      |-> n.score + Score(family, {p})]

\* The pick with the pivot is explored before the one without it.  It is
\* not pushed at all when the pivot wants a file that is already claimed.
Branch ==
  /\ stack # <<>> /\ ~Hopeless(Top)
  /\ \E p \in Top.candidates :
       /\ IsPivot(Top, p)
       /\ stack' = IF \E s \in Top.selected : Conflict(family, p, s)
                   THEN Append(Popped, Without(Top, p))
                   ELSE Append(Append(Popped, Without(Top, p)), With(Top, p))
  /\ UNCHANGED <<family, mask, best>>

Solved ==
  /\ stack = <<>>
  /\ Exhaustive => mask = Bit(Size(family))

MisNext == Try \/ Prune \/ Leaf \/ Branch

MisSpec == MisInit /\ [][MisNext]_misVars

-----------------------------------------------------------------------------
(* Properties.                                                             *)

\* Whatever has been explored, the best pick so far is one the packing may
\* use: its releases share no file, and its numbers are those of its members.
BestIsFeasible ==
  /\ Independent(family, best.selected)
  /\ best # NoPick => best = PickOf(family, best.selected)

\* Both solvers end with a pick that no other disjoint choice beats: cutting
\* loses nothing, however the releases overlap.
BestIsOptimal ==
  Solved => \A S \in SUBSET Candidates(family) :
              Independent(family, S) => ~Beats(PickOf(family, S), best)

=============================================================================
