------------------------------- MODULE Packing -------------------------------
(***************************************************************************)
(* Release packing (meta/computations/analysis/release_packing): which     *)
(* file of the corpus is which track of which release.                     *)
(*                                                                         *)
(* PackReleases lists the files each release could be made of and spawns   *)
(* one ScoreReleaseCandidates per release, which turns them into score     *)
(* rows.  After a full repack ComputeReleaseMappings makes a proposal of   *)
(* each release's rows, and the tiers are mapped one after another: each   *)
(* takes the proposals whose files are still unclaimed, emits those that   *)
(* no other one of the tier competes with, and spawns a solver (Mis) for   *)
(* every knot of competing ones.  EmitUnmatchedSignals ends the run.       *)
(*                                                                         *)
(* The computations hold no state in common: each reads what the ones      *)
(* before it wrote to the database, through the write queue.  A phase      *)
(* starts when nothing runs and the queue is drained, and a computation    *)
(* that waits for its own writes goes on when it is.  That is assumed:     *)
(* wait_for_queue_drain polls a flag that may be down too early (DbQueue). *)
(* Meanwhile the operator may ask for another repack, and files are edited *)
(* or go.                                                                  *)
(*                                                                         *)
(* Left out: how scores are computed (a catalogue says which rows they     *)
(* end in), low-confidence categories, alternatives and artist overrides,  *)
(* AcoustID submissions.                                                   *)
(***************************************************************************)
EXTENDS Integers, Sequences, FiniteSets, SequencesExt

CONSTANTS
  Release, Inode, Slot,
  Catalogues,    \* the situations a library may be in, see Catalogue
  KnotLimit,     \* packing_knot_size_limit, 0 when off; the other threshold,
                 \* packing_knot_ratio, is off
  MaxRescores,   \* bound: incremental ones
  MaxChanges,    \* bound: files edited or dropped
  MaxEvents      \* bound: all of these together, a repack counting twice

Version == 0 .. MaxChanges   \* of the tags: which edit they are of
Row == Inode \X Slot
Tier == {"Perfect", "FullMatch", "Incomplete", "Single"}

\* heard:   the files with a fingerprint match on a recording of the release
\* housed:  the files in a directory pinned to it
\* matched: the rows these files are assigned, by version of the tags
\* found:   the rows elimination adds from the release's directory
\* tracks, score, tidy: its slots, its score, whether its directories fit
\* pinned, clashing: pinned by the operator; by more directories than media
\* singlesFirst, discographies: the two options of the mapping
Catalogue ==
  [heard : [Release -> SUBSET Inode], housed : [Release -> SUBSET Inode],
   matched : [Version -> [Release -> SUBSET Row]],
   found : [Version -> [Release -> SUBSET Row]],
   tracks : [Release -> SUBSET Slot], score : [Release -> Nat],
   tidy : SUBSET Release, pinned : SUBSET Release, clashing : SUBSET Release,
   singlesFirst : BOOLEAN, discographies : BOOLEAN]

ASSUME CataloguesType ==
  /\ Catalogues \subseteq Catalogue
  /\ \A c \in Catalogues, r \in Release : c.housed[r] # {} => r \in c.pinned
ASSUME FinitelyMany == IsFiniteSet(Release) /\ IsFiniteSet(Inode)
ASSUME BoundsType == {KnotLimit, MaxRescores, MaxChanges, MaxEvents} \subseteq Nat

VARIABLES
  given,     \* the catalogue
  version,   \* of the tags that the last edit asks for
  db,        \* the tables release packing reads and writes
  queue,     \* the write queue, the next operation first
  tasks,     \* the computations that run
  todo,      \* deferred phases, each of one computation, the next one first
  asked,     \* [full, incremental, changes]: how many there were
  seen       \* history: see NothingSeen

vars == <<given, version, db, queue, tasks, todo, asked, seen>>

Unlisted == [version |-> 0, files |-> {}]
EmptyDb ==
  [version |-> 0, present |-> Inode, candidates |-> [r \in Release |-> Unlisted],
   manifest |-> {}, scores |-> [r \in Release |-> {}],
   packed |-> {}, claims |-> {}, knots |-> {},
   unmatched |-> {}, unfilled |-> {}, dirty |-> {}]

\* proposals:  of the last mapping
\* mapped:     a mapping has cleared the claims and read the scores
\* overlapped: a repack was asked for while another one was under way
\* overtaken:  an edit was not yet written when PackReleases read the tags, or
\*             was made before it had sent what it makes of them
\* edited:     the file edited last
\* touched:    the files edited or dropped since the last mapping began
\* broken:     a mapping computation panicked on a file that is gone
\* bailed:     a repack ended early because there was nothing to pack
NothingSeen ==
  [proposals |-> {}, mapped |-> FALSE, overlapped |-> FALSE, overtaken |-> FALSE,
   edited |-> {}, touched |-> {}, broken |-> FALSE, bailed |-> FALSE]

Init ==
  /\ given \in Catalogues
  /\ version = 0
  /\ db = EmptyDb
  /\ queue = <<>> /\ tasks = {} /\ todo = <<>>
  /\ asked = [full |-> 0, incremental |-> 0, changes |-> 0]
  /\ seen = NothingSeen

Files(p) == {row[1] : row \in p.rows}
Claimed == {claim[1] : claim \in db.claims}
Quiet == tasks = {} /\ queue = <<>> /\ todo = <<>>

Send(ops) == queue' = queue \o ops
Finish(t) == tasks' = tasks \ {t}

-----------------------------------------------------------------------------
(* The DB thread.                                                          *)

\* The claims of a proposal, one for each row; the signal's key is the file.
Claims(p) == {<<row[1], p.release, row[2]>> : row \in p.rows}

\* Mutant: the claims of the last run stay.
ClearedButClaims(d) == [d EXCEPT !.packed = {}, !.knots = {}]

Cleared(d) == [d EXCEPT !.packed = {}, !.claims = {}, !.knots = {}]

\* Mutant: the columns of the claims are swapped.
EmittedSwapped(d, op) ==
  [d EXCEPT !.packed = @ \cup op.picks,
            !.claims = @ \cup {<<c[2], c[1], c[3]>> : c \in UNION {Claims(p) : p \in op.picks}}]

Emitted(d, op) ==
  [d EXCEPT
     !.packed = op.picks \cup
       {p \in @ : \A q \in op.picks : p.release # q.release \/ p.tier # q.tier},
     !.claims = LET news == UNION {Claims(p) : p \in op.picks}
                IN  {c \in @ : \A n \in news : n[1] # c[1]} \cup news,
     !.knots = @ \cup op.knots]

WithoutFile(d, i) ==
  [d EXCEPT
     !.present = @ \ {i},
     !.candidates = [r \in Release |-> [d.candidates[r] EXCEPT !.files = @ \ {i}]],
     !.scores = [r \in Release |-> {row \in @[r] : row[1] # i}],
     !.claims = {c \in @ : c[1] # i}, !.unmatched = @ \ {i}, !.dirty = @ \ {i}]

Applied(d, op) ==
  CASE op.name = "truncate" ->
         [d EXCEPT !.candidates = EmptyDb.candidates, !.scores = EmptyDb.scores,
                   !.manifest = {}, !.packed = {}]
    [] op.name = "forget" ->
         [d EXCEPT !.candidates = [r \in Release |-> IF r \in op.of THEN Unlisted ELSE @[r]],
                   !.scores = [r \in Release |-> IF r \in op.of THEN {} ELSE @[r]]]
    [] op.name = "clean" -> [d EXCEPT !.dirty = {}]
    [] op.name = "manifest" -> [d EXCEPT !.manifest = @ \cup op.of]
    [] op.name = "candidates" ->
         [d EXCEPT !.candidates = [r \in Release |->
            IF op.of[r].files = {} THEN @[r]
            ELSE [version |-> op.of[r].version, files |-> @[r].files \cup op.of[r].files]]]
    [] op.name = "scores" -> [d EXCEPT !.scores[op.release] = @ \cup op.rows]
    [] op.name = "clear" -> Cleared(d)
    [] op.name = "unclaim" -> [d EXCEPT !.claims = {c \in @ : c[1] \notin op.of}]
    [] op.name = "emit" -> Emitted(d, op)
    [] op.name = "gaps" ->
         [d EXCEPT !.unmatched = (@ \ op.stale) \cup op.new, !.unfilled = op.unfilled]
    [] op.name = "edit" ->
         [d EXCEPT !.version = op.version,
                   !.claims = {c \in @ : c[1] # op.of}, !.unmatched = @ \ {op.of},
                   !.dirty = @ \cup {op.of}]
    [] op.name = "drop" -> WithoutFile(d, op.of)

DbApply ==
  /\ queue # <<>>
  /\ db' = Applied(db, Head(queue))
  /\ queue' = Tail(queue)
  /\ UNCHANGED <<given, version, tasks, todo, asked, seen>>

-----------------------------------------------------------------------------
(* The operator, the idle timers, and what happens to the files.           *)

Runs == asked.full + asked.incremental
Events == 2 * asked.full + asked.incremental + asked.changes

\* The operator asks for a full repack at any time.
Repack ==
  /\ Events + 2 <= MaxEvents
  /\ asked' = [asked EXCEPT !.full = @ + 1]
  /\ tasks' = tasks \cup
       {[name |-> "Pack", run |-> Runs, incremental |-> FALSE, step |-> "read"]}
  /\ seen' = [seen EXCEPT !.overlapped = @ \/ tasks # {} \/ todo # <<>>]
  /\ UNCHANGED <<given, version, db, queue, todo>>

\* After a fetch, when the Witch has nothing to do: transition_to_idle.
Rescore ==
  /\ asked.incremental < MaxRescores /\ Events < MaxEvents /\ Quiet
  /\ asked' = [asked EXCEPT !.incremental = @ + 1]
  /\ tasks' = {[name |-> "Pack", run |-> Runs, incremental |-> TRUE, step |-> "read"]}
  /\ UNCHANGED <<given, version, db, queue, todo, seen>>

\* Has read the tags, and not sent what it makes of them.
Reading == {t \in tasks : t.name = "Pack" /\ t.step \in {"marks", "write"}}
Touch(i) == [seen EXCEPT !.touched = @ \cup {i}]

\* A mutation sends a file's new tags; apply_post_execution has the file's
\* signals cleared and the file marked.  What it sends is one operation here.
Edit(i) ==
  /\ asked.changes < MaxChanges /\ Events < MaxEvents /\ i \in db.present
  /\ asked' = [asked EXCEPT !.changes = @ + 1]
  /\ version' = version + 1
  /\ Send(<<[name |-> "edit", of |-> i, version |-> version + 1]>>)
  /\ seen' = [Touch(i) EXCEPT !.edited = {i}, !.overtaken = @ \/ Reading # {}]
  /\ UNCHANGED <<given, db, tasks, todo>>

\* A file leaves the corpus: its rows go everywhere.
Drop(i) ==
  /\ asked.changes < MaxChanges /\ Events < MaxEvents /\ i \in db.present
  /\ asked' = [asked EXCEPT !.changes = @ + 1]
  /\ Send(<<[name |-> "drop", of |-> i]>>)
  /\ seen' = Touch(i)
  /\ UNCHANGED <<given, version, db, tasks, todo>>

-----------------------------------------------------------------------------
(* Stage 1: PackReleases.                                                  *)

Heard(r, t) == given.heard[r] \cap t.present
Listed(t) ==
  [r \in Release |-> [version |-> t.version,
                      files |-> (given.heard[r] \cup given.housed[r]) \cap t.present]]

\* The matches, and the corpus with its tags, are read first: what waits in the
\* queue is not seen.
PackRead(t) ==
  /\ t.name = "Pack" /\ t.step = "read"
  /\ tasks' = (tasks \ {t}) \cup
       {[name |-> "Pack", run |-> t.run, incremental |-> t.incremental, step |-> "marks",
         version |-> db.version, present |-> db.present]}
  /\ seen' = [seen EXCEPT !.overtaken = @ \/ \E op \in Range(queue) : op.name = "edit"]
  /\ UNCHANGED <<given, version, db, queue, todo, asked>>

\* No file is matched: the claims go, and that is all.
PackNothing(t) ==
  /\ t.name = "Pack" /\ t.step = "marks"
  /\ \A r \in Release : Heard(r, t) = {}
  /\ Send(IF Claimed = {} THEN <<>> ELSE <<[name |-> "unclaim", of |-> Claimed]>>)
  /\ Finish(t)
  /\ seen' = [seen EXCEPT !.bailed = TRUE]
  /\ UNCHANGED <<given, version, db, todo, asked>>

\* The dirty files are read later, whatever was written since.
PackMarks(t) ==
  /\ t.name = "Pack" /\ t.step = "marks"
  /\ \E r \in Release : Heard(r, t) # {}
  /\ tasks' = (tasks \ {t}) \cup
       {[name |-> "Pack", run |-> t.run, incremental |-> t.incremental, step |-> "write",
         version |-> t.version, present |-> t.present, marked |-> db.dirty]}
  /\ UNCHANGED <<given, version, db, queue, todo, asked, seen>>

\* Mutant: only pinned releases are scored again, the marks are cleared anyway.
ScopePinned(t) == IF t.incremental THEN given.pinned ELSE Release

\* An incremental run is about the releases of dirty files, and pinned ones.
Scope(t) ==
  IF t.incremental THEN given.pinned \cup {r \in Release : Heard(r, t) \cap t.marked # {}}
                   ELSE Release

Clean(t) == IF t.marked = {} THEN <<>> ELSE <<[name |-> "clean"]>>

\* The marks are cleared only now, whatever was marked since they were read.
PackWrite(t) ==
  /\ t.name = "Pack" /\ t.step = "write"
  /\ LET scope == Scope(t)
         listed == [r \in Release |-> IF r \in scope THEN Listed(t)[r] ELSE Unlisted]
         names == [name |-> "manifest", of |-> scope]
         start == IF t.incremental
                  THEN <<[name |-> "forget", of |-> scope], names>> \o Clean(t)
                  ELSE <<[name |-> "truncate"]>> \o Clean(t) \o <<names>>
     IN  IF scope = {} THEN Send(Clean(t)) /\ Finish(t)
         ELSE /\ Send(start \o <<[name |-> "candidates", of |-> listed]>>)
              /\ tasks' = (tasks \ {t}) \cup
                   {[name |-> "Pack", run |-> t.run, incremental |-> t.incremental,
                     step |-> "drain", listed |-> {r \in scope : listed[r].files # {}}]}
  /\ UNCHANGED <<given, version, db, todo, asked, seen>>

\* Drained, it spawns the scorers; only a full repack is mapped.
PackDone(t) ==
  /\ t.name = "Pack" /\ t.step = "drain" /\ queue = <<>>
  /\ tasks' = (tasks \ {t}) \cup
       {[name |-> "Score", run |-> t.run, release |-> r] : r \in t.listed}
  /\ todo' = IF t.incremental THEN todo
             ELSE Append(todo, [name |-> "Mappings", run |-> t.run, step |-> "clear"])
  /\ UNCHANGED <<given, version, db, queue, asked, seen>>

-----------------------------------------------------------------------------
(* Stage 2: ScoreReleaseCandidates.                                        *)

\* The optimal rows of a release: what its candidates are matched with ...
Matched(r, listed) == {row \in given.matched[listed.version][r] : row[1] \in listed.files}

\* ... and for the slots left what elimination finds among the other files of
\* its directory, with the tags that the database has now.
Eliminated(r, matched) ==
  {row \in given.found[db.version][r] :
     row[1] \in db.present /\ \A m \in matched : m[1] # row[1] /\ m[2] # row[2]}

ScoreCandidates(t) ==
  /\ t.name = "Score"
  /\ LET listed == db.candidates[t.release]
         matched == Matched(t.release, listed)
         rows == matched \cup Eliminated(t.release, matched)
     IN  Send(IF listed.files = {} \/ rows = {} THEN <<>>
              ELSE <<[name |-> "scores", release |-> t.release, rows |-> rows]>>)
  /\ Finish(t)
  /\ UNCHANGED <<given, version, db, todo, asked, seen>>

-----------------------------------------------------------------------------
(* Stage 3: ComputeReleaseMappings.                                        *)

TierOf(r) ==
  IF r \notin db.manifest \/ Cardinality(given.tracks[r]) <= 1 THEN "Single"
  ELSE IF Cardinality(db.scores[r]) < Cardinality(given.tracks[r]) THEN "Incomplete"
  ELSE IF r \in given.tidy THEN "Perfect"
  ELSE "FullMatch"

Proposals ==
  {[release |-> r, tier |-> TierOf(r), rows |-> db.scores[r]] :
     r \in {q \in Release : db.scores[q] # {}}}

\* The order in which the tiers are mapped.
Rounds == IF given.singlesFirst THEN <<"Perfect", "FullMatch", "Single", "Incomplete">>
                                ELSE <<"Perfect", "FullMatch", "Incomplete", "Single">>
RoundOf(p) == CHOOSE k \in 1 .. 4 : Rounds[k] = p.tier

\* The order in which pinned proposals are accepted, in any configuration.
PinnedOrder == <<"Perfect", "FullMatch", "Incomplete", "Single">>
RankOf(p) == CHOOSE k \in 1 .. 4 : PinnedOrder[k] = p.tier

Emit(picks, knots) == [name |-> "emit", picks |-> picks, knots |-> knots]
EmitOps(picks, knots) ==
  IF picks = {} /\ knots = {} THEN <<>> ELSE <<Emit(picks, knots)>>
Named(proposals, manifest) == {p \in proposals : p.release \in manifest}

MappingsClear(t) ==
  /\ t.name = "Mappings" /\ t.step = "clear"
  /\ Send(<<[name |-> "clear"]>>)
  /\ tasks' = (tasks \ {t}) \cup {[t EXCEPT !.step = "read"]}
  /\ UNCHANGED <<given, version, db, todo, asked, seen>>

MappingsRead(t) == t.name = "Mappings" /\ t.step = "read" /\ queue = <<>>
Mapped(broken, bailed) ==
  seen' = [seen EXCEPT !.mapped = TRUE, !.touched = {}, !.broken = broken,
                       !.bailed = bailed, !.proposals = Proposals]

\* Nothing is scored: the gap analysis is not reached.
MappingsNone(t) ==
  /\ MappingsRead(t) /\ Proposals = {}
  /\ Finish(t)
  /\ Mapped(FALSE, TRUE)
  /\ UNCHANGED <<given, version, db, queue, todo, asked>>

\* Where the corpus paths of the files come from when signals are emitted.
Paths ==
  (UNION {db.candidates[r].files : r \in Release}) \cup
  {i \in db.present : \E r \in Release, v \in Version :
                        \E row \in db.scores[r] \cap given.found[v][r] : row[1] = i}

\* The proposals for pinned releases are accepted, the best tier first, unless
\* they clash; whatever overlaps them, or is clashing, is out.  A file whose
\* path is gone is unreachable!(): the rest of the run is lost.
MappingsProposed(t) ==
  /\ MappingsRead(t) /\ Proposals # {}
  /\ LET pinned == {p \in Proposals : p.release \in given.pinned \ given.clashing}
         left == {p \in Proposals \ pinned :
                    /\ p.release \notin given.clashing
                    /\ \A q \in pinned : Files(p) \cap Files(q) = {}}
         Ordered(order) ==
           \A j, k \in DOMAIN order : j < k => RankOf(order[j]) <= RankOf(order[k])
         Whole(p) == Files(p) \subseteq Paths
         named == Named(pinned, db.manifest)
         number == Cardinality(named)
     IN  \E order \in Surjection(1 .. number, named), last \in 0 .. number :
           LET whole == last = number
           IN  /\ Ordered(order)
               /\ \A k \in 1 .. last : Whole(order[k])
               /\ ~whole => ~Whole(order[last + 1])
               /\ Send([k \in 1 .. last |-> Emit({order[k]}, {})])
               /\ todo' = IF whole THEN Append(todo, [name |-> "Map", run |-> t.run,
                                                     tier |-> "Perfect", pool |-> left])
                                    ELSE todo
               /\ Mapped(~whole, FALSE)
  /\ Finish(t)
  /\ UNCHANGED <<given, version, db, asked>>

-----------------------------------------------------------------------------
(* Stage 3: the tiers.                                                     *)

Compete(p, q) == Files(p) \cap Files(q) # {}

\* Mutant: one unclaimed file is enough.
EligiblePartly(t) == {p \in t.pool : p.tier = t.tier /\ ~(Files(p) \subseteq Claimed)}

\* Everything the tier proposes whose files are all unclaimed.
Eligible(t) == {p \in t.pool : p.tier = t.tier /\ Files(p) \cap Claimed = {}}

\* Below Perfect, one of the best proposals for the same files stands for all.
Keepers(tier, proposals) ==
  IF tier = "Perfect" THEN {proposals}
  ELSE {kept \in SUBSET proposals :
          \A p \in proposals : \E k \in kept :
            /\ Files(k) = Files(p) /\ given.score[k.release] >= given.score[p.release]
            /\ \A q \in kept : Files(q) = Files(p) => q = k}

\* The connected components of the conflict graph.
Components(proposals) ==
  LET Closed(C) == \A p \in C, q \in proposals \ C : ~Compete(p, q)
  IN  {C \in SUBSET proposals :
         /\ C # {} /\ Closed(C)
         /\ \A D \in SUBSET C : D # {} /\ D # C => ~Closed(D)}

\* Too many competing proposals: nobody wins, unless one wants all the files.
IsKnot(tier, C) == tier # "Perfect" /\ KnotLimit > 0 /\ Cardinality(C) > KnotLimit
Discography(C) ==
  IF given.discographies THEN {p \in C : \A q \in C : Files(q) \subseteq Files(p)} ELSE {}

\* Mutants: a round is skipped; after the last one the first follows again.
NextPhaseSkips(t) ==
  LET k == RoundOf(t)
  IN  IF k > 2 THEN [name |-> "Gaps", run |-> t.run]
      ELSE [name |-> "Map", run |-> t.run, tier |-> Rounds[k + 2], pool |-> t.pool]
NextPhaseAgain(t) ==
  [name |-> "Map", run |-> t.run, tier |-> Rounds[(RoundOf(t) % 4) + 1], pool |-> t.pool]

NextPhase(t) ==
  LET k == RoundOf(t)
  IN  IF k = 4 THEN [name |-> "Gaps", run |-> t.run]
      ELSE [name |-> "Map", run |-> t.run, tier |-> Rounds[k + 1], pool |-> t.pool]

\* Proposals without a rival are emitted, knots too, and the rest is solved.
\* A file whose path is gone is unreachable!(): the panic drops the rest of
\* what the computation was to emit, its solvers, and the next phase.
MapTier(t) ==
  /\ t.name = "Map"
  /\ \E kept \in Keepers(t.tier, Eligible(t)) :
       LET components == Components(kept)
           several == {C \in components : ~\E p \in C : C = {p}}
           knotted == {C \in several : IsKnot(t.tier, C)}
           knots == {C \in knotted : Discography(C) = {}}
           won == (UNION (components \ several)) \cup UNION {Discography(C) : C \in knotted}
           picks == Named(won, db.manifest)
           lost == {p \in picks : ~ (Files(p) \subseteq Paths)}
       IN  IF lost = {}
           THEN /\ Send(EmitOps(picks, knots))
                /\ tasks' = (tasks \ {t}) \cup
                     {[name |-> "Resolve", run |-> t.run, proposals |-> C, paths |-> Paths,
                       manifest |-> db.manifest] : C \in several \ knotted}
                /\ todo' = Append(todo, NextPhase(t))
                /\ seen' = seen
           ELSE /\ \E part \in SUBSET (picks \ lost), knot \in SUBSET knots :
                     Send(EmitOps(part, knot))
                /\ Finish(t)
                /\ todo' = todo
                /\ seen' = [seen EXCEPT !.broken = TRUE]
  /\ UNCHANGED <<given, version, db, asked>>

\* What the solver of one component may pick: no file twice, as many files as
\* possible, and of these choices one of the highest score (module Mis).
Covered(S) == Cardinality(UNION {Files(p) : p \in S})
Worth(S) == FoldSet(LAMBDA p, sum : sum + given.score[p.release], 0, S)
Disjoint(C) == {S \in SUBSET C : \A p, q \in S : p # q => ~Compete(p, q)}
Best(C) ==
  {S \in Disjoint(C) : \A T \in Disjoint(C) :
     \/ Covered(S) > Covered(T)
     \/ Covered(S) = Covered(T) /\ Worth(S) >= Worth(T)}

Resolve(t) ==
  /\ t.name = "Resolve"
  /\ \E choice \in Best(t.proposals) :
       LET picks == Named(choice, t.manifest)
           whole == \A p \in picks : Files(p) \subseteq t.paths
       IN  /\ Send(IF whole THEN EmitOps(picks, {}) ELSE <<>>)
           /\ seen' = [seen EXCEPT !.broken = @ \/ ~whole]
  /\ Finish(t)
  /\ UNCHANGED <<given, version, db, todo, asked>>

-----------------------------------------------------------------------------
(* Stage 4: EmitUnmatchedSignals.                                          *)

Filled(r) == {c[3] : c \in {d \in db.claims : d[2] = r}}
Complete(r) == given.tracks[r] # {} /\ Cardinality(Filled(r)) >= Cardinality(given.tracks[r])

\* Releases whose files all belong to complete releases have no gaps to show.
Owned(r) ==
  LET files == {row[1] : row \in db.scores[r]}
  IN  files # {} /\ \A i \in files : \E c \in db.claims :
                      c[1] = i /\ c[2] \in db.manifest /\ Complete(c[2])

Unfilled ==
  UNION {{r} \X (given.tracks[r] \ Filled(r)) :
           r \in {q \in db.manifest : Filled(q) # {} /\ ~(~Complete(q) /\ Owned(q))}}

\* Mutant: only files that some release lists are looked at.
UnmatchedListed == (UNION {db.candidates[r].files : r \in Release}) \ Claimed
Unmatched == db.present \ Claimed

Gaps(t) ==
  /\ t.name = "Gaps"
  /\ Send(<<[name |-> "gaps", stale |-> db.unmatched \ Unmatched,
              new |-> Unmatched \ db.unmatched, unfilled |-> Unfilled]>>)
  /\ Finish(t)
  /\ UNCHANGED <<given, version, db, todo, asked, seen>>

-----------------------------------------------------------------------------
\* The next phase starts when nothing runs and everything is written.
NextPhaseStarts ==
  /\ tasks = {} /\ queue = <<>> /\ todo # <<>>
  /\ tasks' = {Head(todo)} /\ todo' = Tail(todo)
  /\ UNCHANGED <<given, version, db, queue, asked, seen>>

Compute(t) ==
  \/ PackRead(t) \/ PackNothing(t) \/ PackMarks(t) \/ PackWrite(t) \/ PackDone(t)
  \/ ScoreCandidates(t)
  \/ MappingsClear(t) \/ MappingsNone(t) \/ MappingsProposed(t)
  \/ MapTier(t) \/ Resolve(t) \/ Gaps(t)

Next ==
  \/ Repack \/ Rescore
  \/ \E i \in Inode : Edit(i) \/ Drop(i)
  \/ DbApply \/ NextPhaseStarts
  \/ \E t \in tasks : Compute(t)

\* Computations run, the queue is written, phases follow (Engine).
Spec ==
  /\ Init /\ [][Next]_vars
  /\ WF_vars(DbApply) /\ WF_vars(NextPhaseStarts) /\ WF_vars(\E t \in tasks : Compute(t))

-----------------------------------------------------------------------------
(* Properties.                                                             *)

TypeOK ==
  /\ given \in Catalogue /\ version \in Version /\ db.version \in Version
  /\ db.present \subseteq Inode /\ db.manifest \subseteq Release
  /\ \A r \in Release : db.candidates[r].files \subseteq Inode /\ db.scores[r] \subseteq Row
  /\ db.claims \subseteq Inode \X Release \X Slot
  /\ \A p \in db.packed : p.release \in Release /\ p.tier \in Tier /\ p.rows \subseteq Row
  /\ \A knot \in db.knots : knot \subseteq seen.proposals \/ seen.overlapped
  /\ db.unmatched \subseteq Inode /\ db.unfilled \subseteq Release \X Slot
  /\ \A t \in tasks : t.name \in {"Pack", "Score", "Mappings", "Map", "Resolve", "Gaps"}
  /\ \A k \in DOMAIN todo : todo[k].name \in {"Mappings", "Map", "Gaps"}

\* No file is packed twice: two releases that are packed share no file, unless
\* the operator pinned both, the file was edited since the mapping began, or a
\* repack that found nothing to pack took the claims back between two tiers.
BothPinned(p, q) == {p.release, q.release} \subseteq given.pinned
PicksDisjoint ==
  ~seen.bailed => \A p, q \in db.packed : p # q =>
    \/ BothPinned(p, q)
    \/ Files(p) \cap Files(q) \subseteq seen.touched

\* At rest, unless a run ended early, the claims on files are exactly the rows
\* of the packed releases, also when a tier panicked or two runs overlapped:
\* the two signals are written and cleared apart, and tell the same story.
\* Only where the tiers of two runs packed a release twice may claims of the
\* first time stay.
Rowed == UNION {Claims(p) : p \in db.packed}
ClaimsMatch ==
  Quiet /\ seen.mapped /\ ~seen.bailed => \A claim \in db.claims \cup Rowed :
    \/ claim[1] \in seen.touched
    \/ claim \in db.claims \cap Rowed
    \/ seen.overlapped /\ claim \in db.claims /\ \E p \in db.packed : p.release = claim[2]
    \/ \E p, q \in db.packed : p # q /\ BothPinned(p, q) /\ claim[1] \in Files(p) \cap Files(q)

Done == Quiet /\ seen.mapped /\ ~seen.broken /\ ~seen.bailed

\* The better tier goes first: a proposal that is not packed wants a file that
\* a release of its own tier or of one before it (or a pinned one) has, or is
\* in a knot (or the one that stands for it is), or its release is pinned by
\* more directories than it has media.
PinnedFirst(p) == IF p.release \in given.pinned THEN 0 ELSE RoundOf(p)
NothingJumped ==
  Done /\ ~seen.overlapped => \A p \in seen.proposals \ db.packed :
    \/ \E q \in db.packed : Compete(p, q) /\ PinnedFirst(q) <= RoundOf(p)
    \/ \E knot \in db.knots : \E k \in knot : Files(k) = Files(p)
    \/ p.release \in given.clashing
    \/ Files(p) \cap seen.touched # {}

\* At rest after such a run, a file of the corpus that no release claims is
\* signalled as unmatched, and no other file is.
UnmatchedExact ==
  Done => \A i \in db.present \ seen.touched : i \in db.unmatched <=> i \notin Claimed

\* At rest, the candidates of a release show the tags that the database has of
\* its files: the file edited last is still marked for the next run, or has been
\* listed since, unless the edit was made or written while PackReleases was at
\* work, which clears marks it has not read.
ScoresFresh ==
  Quiet /\ ~seen.overtaken =>
    \A r \in Release : \A i \in db.candidates[r].files \cap db.present \cap seen.edited :
      db.candidates[r].version = db.version \/ i \in db.dirty

\* A run that was asked for comes to its end.
Ends == (tasks # {} \/ todo # <<>>) ~> Quiet
=============================================================================
