--------------------------- MODULE Packing_proofs ---------------------------
(***************************************************************************)
(* Proofs about release packing and its solver.                            *)
(*                                                                         *)
(* Packing: for any catalogue, any bounds, and any interleaving of the     *)
(* computations, the write queue, the operator and the edits of files.     *)
(* The invariant IInv says what the computations on their way, the phases  *)
(* to come and the operations that wait know of the tables.                *)
(*                                                                         *)
(* Mis: for every component whose coverage and scores are additive and     *)
(* whose conflicts are symmetric, whatever the solver has explored, its    *)
(* best pick is feasible, and the pick it ends with is optimal.            *)
(* Together: that pick is a choice that Packing's Resolve may take.        *)
(***************************************************************************)
EXTENDS Packing, Mis, SequenceTheorems, FunctionTheorems, FiniteSetTheorems,
        WellFoundedInduction, TLAPS

-----------------------------------------------------------------------------
(* Types.                                                                  *)

Listing == [version : Version, files : SUBSET Inode]
Proposal == [release : Release, tier : Tier, rows : SUBSET Row]
Names == {"truncate", "clean", "clear", "forget", "manifest", "candidates", "scores",
          "unclaim", "emit", "gaps", "edit", "drop"}

Op ==
  [name : {"truncate", "clean", "clear"}]
    \cup [name : {"forget", "manifest"}, of : SUBSET Release]
    \cup [name : {"candidates"}, of : [Release -> Listing]]
    \cup [name : {"scores"}, release : Release, rows : SUBSET Row]
    \cup [name : {"unclaim"}, of : SUBSET Inode]
    \cup [name : {"emit"}, picks : SUBSET Proposal, knots : SUBSET SUBSET Proposal]
    \cup [name : {"gaps"}, stale : SUBSET Inode, new : SUBSET Inode,
          unfilled : SUBSET (Release \X Slot)]
    \cup [name : {"edit"}, of : Inode, version : Version]
    \cup [name : {"drop"}, of : Inode]

Phase ==
  [name : {"Mappings"}, run : Nat, step : {"clear"}]
    \cup [name : {"Map"}, run : Nat, tier : Tier, pool : SUBSET Proposal]
    \cup [name : {"Gaps"}, run : Nat]

Task ==
  Phase
    \cup [name : {"Mappings"}, run : Nat, step : {"read"}]
    \cup [name : {"Pack"}, run : Nat, incremental : BOOLEAN, step : {"read"}]
    \cup [name : {"Pack"}, run : Nat, incremental : BOOLEAN, step : {"marks"},
          version : Version, present : SUBSET Inode]
    \cup [name : {"Pack"}, run : Nat, incremental : BOOLEAN, step : {"write"},
          version : Version, present : SUBSET Inode, marked : SUBSET Inode]
    \cup [name : {"Pack"}, run : Nat, incremental : BOOLEAN, step : {"drain"},
          listed : SUBSET Release]
    \cup [name : {"Score"}, run : Nat, release : Release]
    \cup [name : {"Resolve"}, run : Nat, proposals : SUBSET Proposal,
          paths : SUBSET Inode, manifest : SUBSET Release]

Tables ==
  [version : Version, present : SUBSET Inode, candidates : [Release -> Listing], manifest : SUBSET Release,
   scores : [Release -> SUBSET Row], packed : SUBSET Proposal,
   claims : SUBSET (Inode \X Release \X Slot), knots : SUBSET SUBSET Proposal,
   unmatched : SUBSET Inode, unfilled : SUBSET (Release \X Slot), dirty : SUBSET Inode]

Seen ==
  [proposals : SUBSET Proposal, mapped : BOOLEAN, overlapped : BOOLEAN,
   overtaken : BOOLEAN, edited : SUBSET Inode, touched : SUBSET Inode,
   broken : BOOLEAN, bailed : BOOLEAN]

\* Types, and the bounds that tie versions to the edits asked for.
Typed ==
  /\ given \in Catalogues
  /\ asked \in [full : Nat, incremental : Nat, changes : Nat]
  /\ version \in Nat /\ version <= asked.changes /\ asked.changes <= MaxChanges
  /\ db \in Tables /\ queue \in Seq(Op)
  /\ tasks \in SUBSET Task /\ todo \in Seq(Phase)
  /\ seen \in Seen

-----------------------------------------------------------------------------
(* Phases.                                                                 *)

Is(name) == {t \in tasks : t.name = name}
Sent(name) == {op \in Range(queue) : op.name = name}

Solitary == {"Mappings", "Map", "Gaps"}

\* A phase runs alone, but for repacks, and starts when everything is written.
Alone ==
  \A t \in tasks : t.name \in Solitary =>
    /\ \A u \in tasks : u.name \in Solitary \cup {"Resolve"} => u = t
    /\ Sent("emit") = {} /\ Sent("gaps") = {}
\* Solvers are followed by a phase.
Followed == Is("Resolve") # {} => todo # <<>>
\* A mapping reads what it cleared.
Clearing ==
  /\ Sent("clear") # {} => \E t \in Is("Mappings") : t.step = "read"
  /\ \A t \in Is("Mappings") : t.step = "read" =>
       Sent("clear") # {} \/ (db.packed = {} /\ db.claims = {} /\ db.knots = {})
\* Whatever else takes claims away is in the history.
Noticed ==
  /\ \A op \in Range(queue) : op.name \in {"edit", "drop"} => op.of \in seen.touched
  /\ Sent("unclaim") # {} => seen.bailed
Phased == Alone /\ Followed /\ Clearing /\ Noticed

-----------------------------------------------------------------------------
(* Picks.                                                                  *)

\* Both may be packed; what is packed, or will be by what waits in the queue.
Compatible(p, q) ==
  p = q \/ BothPinned(p, q) \/ Files(p) \cap Files(q) \subseteq seen.touched
Picked == db.packed \cup UNION {op.picks : op \in Sent("emit")}
Resolving == UNION {t.proposals : t \in Is("Resolve")}

\* A packed release holds its files, but for those touched since: the next tier
\* and its solvers pick among unclaimed ones, and solvers of one tier have no file in common.
Held == \A p \in db.packed : Files(p) \subseteq Claimed \cup seen.touched
PicksApart == \A p, q \in Picked : Compatible(p, q)
KnotsApart ==
  \A t \in Is("Resolve") : \A p \in t.proposals :
    /\ \A q \in Picked : Compatible(p, q)
    /\ \A u \in Is("Resolve") : \A q \in u.proposals : t = u \/ Compatible(p, q)
Apart == ~seen.bailed => Held /\ PicksApart /\ KnotsApart

-----------------------------------------------------------------------------
(* Gaps.                                                                   *)

\* What will be signalled of the file i.
WillBeUnmatched(i) ==
  IF Sent("gaps") = {} THEN i \in db.unmatched
  ELSE \A op \in Sent("gaps") : i \in (db.unmatched \ op.stale) \cup op.new
\* The gap analysis is still to come, or it has looked at the final claims.
GapsToCome == todo # <<>> \/ \E t \in tasks : t.name \in Solitary
GapsKnown ==
  /\ Sent("emit") = {}
  /\ \A op, other \in Sent("gaps") : op = other
  /\ \A i \in db.present \ seen.touched : WillBeUnmatched(i) <=> i \notin Claimed
Gapped ==
  seen.mapped /\ ~seen.broken /\ ~seen.bailed => GapsToCome \/ GapsKnown

-----------------------------------------------------------------------------
(* Marks.                                                                  *)

\* A release whose candidates show a file's tags as they were.
Old(r) == db.candidates[r].version # version
Stale(i, r) == i \in seen.edited /\ i \in db.present /\ i \in db.candidates[r].files /\ Old(r)
Pending(i) == \E op \in Sent("edit") : op.of = i
Forgets(op, r) == op.name = "truncate" \/ (op.name = "forget" /\ r \in op.of)
ForgetBefore(k, r) == \E j \in DOMAIN queue : j < k /\ Forgets(queue[j], r)

\* Once the edit is written the file is marked; what clears the mark finds the
\* release forgotten, and an incremental run that has read the marks knows it.
Marked ==
  \A i \in Inode, r \in Release : Stale(i, r) /\ ~Pending(i) =>
    /\ i \in db.dirty
    /\ \A k \in DOMAIN queue : queue[k].name = "clean" => ForgetBefore(k, r)
    /\ \A t \in Is("Pack") : t.step = "write" /\ t.incremental => i \in t.marked
\* Marks are cleared and listings written before any edit that waits.
EditsLast ==
  \A j, k \in DOMAIN queue :
    queue[j].name = "edit" /\ queue[k].name \in {"clean", "candidates"} => k < j
\* What will be listed shows the tags of the last edit, or that edit is behind it.
Current ==
  /\ \A op \in Sent("candidates"), r \in Release, i \in seen.edited :
       op.of[r].files # {} => op.of[r].version = version \/ Pending(i)
  /\ \A t \in Reading : t.version = version /\ db.present \subseteq t.present
  /\ Reading # {} => Sent("edit") = {}
  /\ EditsLast
Fresh == ~seen.overtaken => Marked /\ Current

\* The database has the tags of the last edit, or that edit is the last to be written.
Tagged ==
  /\ Sent("edit") = {} => db.version = version
  /\ \A k \in DOMAIN queue : queue[k].name = "edit" =>
       queue[k].version = version \/ \E j \in DOMAIN queue : j > k /\ queue[j].name = "edit"

\* Whatever is listed was heard on the release, or is in a directory of it.
ListedRight ==
  /\ \A r \in Release : db.candidates[r].files \subseteq given.heard[r] \cup given.housed[r]
  /\ \A op \in Sent("candidates") : \A r \in Release : op.of[r].files \subseteq given.heard[r] \cup given.housed[r]

-----------------------------------------------------------------------------
(* Claims.                                                                 *)

Ahead == tasks \cup Range(todo)
Maps == {t \in Ahead : t.name = "Map"}
Knots == db.knots \cup UNION {op.knots : op \in Sent("emit")}

\* A full repack has truncated the tables, and the mapping that follows it has not begun.
Remapping ==
  \/ \E t \in Is("Pack") : t.step = "drain" /\ ~t.incremental
  \/ \E t \in Ahead : t.name = "Mappings"
Truncated == Sent("truncate") # {} => \E t \in Is("Pack") : t.step = "drain" /\ ~t.incremental

\* One proposal for each release; pinned ones are settled by the mapping itself.
Proposed ==
  /\ \A p, q \in seen.proposals : p.release = q.release => p = q
  /\ \A p \in Picked : p.release \in given.pinned => p \in seen.proposals
  /\ \A t \in Maps : \A p \in t.pool : p.release \notin given.pinned /\ p.rows # {}
  /\ \A p \in Resolving : p.release \notin given.pinned /\ p.rows # {}
  /\ \A t \in Is("Resolve") : \A p, q \in t.proposals : p.tier = q.tier
  /\ \A p \in seen.proposals : p.rows # {}

\* One run at a time.
Sole ==
  /\ Len(todo) <= 1
  /\ \A t \in tasks : t.name \in Solitary \cup {"Pack"} => tasks = {t} /\ todo = <<>>
  /\ Is("Score") # {} => tasks = Is("Score") /\ \A p \in Range(todo) : p.name = "Mappings"
  /\ Is("Resolve") # {} => tasks = Is("Resolve") /\ \A p \in Range(todo) : p.name \in {"Map", "Gaps"}
\* Everything that is picked, or may be, is of the last mapping.
Ours ==
  /\ Picked \cup Resolving \subseteq seen.proposals
  /\ \A t \in Maps : t.pool \subseteq seen.proposals
  /\ \A knot \in Knots : knot \subseteq seen.proposals
Single == ~seen.overlapped => Sole /\ Ours

\* A claim that need not match; otherwise claims and packed rows are the same.
Excusable(claim) ==
  \/ claim[1] \in seen.touched
  \/ \E p, q \in db.packed : p # q /\ BothPinned(p, q) /\ claim[1] \in Files(p) \cap Files(q)
ClaimsRowed ==
  \A c \in db.claims : c \in Rowed \/ Excusable(c)
    \/ (seen.overlapped /\ \E p \in db.packed : p.release = c[2])
RowsClaimed == \A c \in Rowed : c \in db.claims \/ Excusable(c)
Matching == ~seen.bailed /\ ~Remapping => ClaimsRowed /\ RowsClaimed

-----------------------------------------------------------------------------
(* Order.                                                                  *)

\* Whatever is scored, mapped or solved is in the manifest, or will be when it is.
ScoresIn == \A r \in Release : db.scores[r] # {} => r \in db.manifest
ScoresComeIn ==
  \A k \in DOMAIN queue : queue[k].name = "scores" =>
    queue[k].release \in db.manifest /\ \A j \in DOMAIN queue : j <= k => queue[j].name # "truncate"
ScorersIn == \A t \in Is("Score") : t.release \in db.manifest
ListedIn(t) == t.listed \subseteq db.manifest /\ \A j \in DOMAIN queue : queue[j].name # "truncate"
ListedComeIn(t) ==
  \E k \in DOMAIN queue : /\ queue[k].name = "manifest" /\ t.listed \subseteq queue[k].of
                          /\ \A j \in DOMAIN queue : j > k => queue[j].name # "truncate"
PackersIn == \A t \in Is("Pack") : t.step = "drain" => ListedIn(t) \/ ListedComeIn(t)
PoolsIn == \A t \in Maps : \A p \in t.pool : p.release \in db.manifest
SolversIn == \A t \in Is("Resolve") : \A p \in t.proposals : p.release \in t.manifest
AllIn == ScoresIn /\ ScoresComeIn /\ ScorersIn /\ PackersIn /\ PoolsIn /\ SolversIn
Manifested == ~seen.overlapped => AllIn

\* Why a proposal is not packed, or that its turn is still to come.
Served(p) ==
  \/ \E q \in Picked : Compete(p, q) /\ PinnedFirst(q) <= RoundOf(p)
  \/ \E knot \in Knots : \E k \in knot : Files(k) = Files(p)
  \/ p.release \in given.clashing
  \/ Files(p) \cap seen.touched # {}
Waits(p) ==
  \/ \E t \in Maps : p \in t.pool /\ RoundOf(t) <= RoundOf(p)
  \/ \E t \in Is("Resolve") : \E k \in t.proposals : Files(k) = Files(p) /\ RoundOf(k) = RoundOf(p)
\* Tiers that are to come are behind everything picked so far.
InOrder ==
  /\ \A t \in Maps : /\ \A q \in Picked : PinnedFirst(q) < RoundOf(t)
                     /\ \A q \in Resolving : RoundOf(q) < RoundOf(t)
  /\ \A p \in seen.proposals : p \in Picked \/ Served(p) \/ Waits(p)
Ordering ==
  seen.mapped /\ ~seen.broken /\ ~seen.bailed /\ ~seen.overlapped /\ ~Remapping => InOrder

-----------------------------------------------------------------------------
(* The write queue and the deferred phases as sequences.                   *)

\* Whatever is sent joins what the queue holds, behind it.
LEMMA Sending ==
  ASSUME NEW S, NEW s \in Seq(S), NEW more \in Seq(S)
  PROVE  /\ s \o more \in Seq(S)
         /\ Range(s \o more) = Range(s) \cup Range(more)
         /\ Len(s \o more) = Len(s) + Len(more)
         /\ \A k \in DOMAIN s : k \in DOMAIN (s \o more) /\ (s \o more)[k] = s[k]
         /\ \A k \in DOMAIN more : /\ Len(s) + k \in DOMAIN (s \o more)
                                   /\ (s \o more)[Len(s) + k] = more[k]
         /\ \A k \in DOMAIN (s \o more) : k \in DOMAIN s \/ k - Len(s) \in DOMAIN more
<1> DEFINE whole == s \o more
<1>1. /\ whole \in Seq(S) /\ Len(whole) = Len(s) + Len(more)
      /\ \A k \in 1 .. Len(s) + Len(more) :
           whole[k] = IF k <= Len(s) THEN s[k] ELSE more[k - Len(s)]
  BY ConcatProperties
<1>2. DOMAIN s = 1 .. Len(s) /\ DOMAIN more = 1 .. Len(more) /\ DOMAIN whole = 1 .. Len(whole)
      /\ Len(s) \in Nat /\ Len(more) \in Nat
  BY <1>1, LenProperties
<1> HIDE DEF whole
<1>3. \A k \in DOMAIN s : k \in DOMAIN whole /\ whole[k] = s[k]
  BY <1>1, <1>2
<1>4. \A k \in DOMAIN more : Len(s) + k \in DOMAIN whole /\ whole[Len(s) + k] = more[k]
  BY <1>1, <1>2
<1>5. \A k \in DOMAIN whole : k \in DOMAIN s \/ k - Len(s) \in DOMAIN more
  BY <1>1, <1>2
<1>6. \A k \in DOMAIN whole : whole[k] \in Range(s) \cup Range(more)
  <2>1. TAKE k \in DOMAIN whole
  <2>2. CASE k \in DOMAIN s
    BY <2>2, <1>3 DEF Range
  <2>3. CASE k - Len(s) \in DOMAIN more
    <3>1. whole[k] = more[k - Len(s)]
      BY <2>3, <2>1, <1>1, <1>2
    <3> QED
      BY <3>1, <2>3 DEF Range
  <2> QED
    BY <2>2, <2>3, <1>5
<1>7. Range(whole) = Range(s) \cup Range(more)
  BY <1>3, <1>4, <1>6 DEF Range
<1> QED
  BY <1>1, <1>3, <1>4, <1>5, <1>7 DEF whole

\* The head, and what is behind it.
LEMMA Taking ==
  ASSUME NEW S, NEW s \in Seq(S), s # <<>>
  PROVE  /\ Head(s) \in S /\ Tail(s) \in Seq(S)
         /\ Range(s) = {Head(s)} \cup Range(Tail(s))
         /\ 1 \in DOMAIN s /\ s[1] = Head(s)
         /\ \A k \in DOMAIN Tail(s) : k + 1 \in DOMAIN s /\ s[k + 1] = Tail(s)[k]
         /\ \A k \in DOMAIN s : k = 1 \/ k - 1 \in DOMAIN Tail(s)
<1>1. /\ Head(s) = s[1] /\ Head(s) \in S /\ Tail(s) \in Seq(S)
      /\ Len(s) \in Nat \ {0} /\ Len(Tail(s)) = Len(s) - 1
      /\ \A i \in 1 .. Len(Tail(s)) : Tail(s)[i] = s[i + 1]
  BY HeadTailProperties, LenProperties, EmptySeq
<1>2. DOMAIN s = 1 .. Len(s) /\ DOMAIN Tail(s) = 1 .. Len(s) - 1
  BY <1>1, LenProperties
<1>3. \A k \in DOMAIN Tail(s) : k + 1 \in DOMAIN s /\ s[k + 1] = Tail(s)[k]
  BY <1>1, <1>2
<1>4. \A k \in DOMAIN s : k = 1 \/ k - 1 \in DOMAIN Tail(s)
  BY <1>1, <1>2
<1>5. 1 \in DOMAIN s
  BY <1>1, <1>2
<1>6. \A k \in DOMAIN s : s[k] \in {Head(s)} \cup Range(Tail(s))
  <2>1. TAKE k \in DOMAIN s
  <2>2. CASE k = 1
    BY <2>2, <1>1
  <2>3. CASE k # 1
    <3>1. k - 1 \in DOMAIN Tail(s) /\ s[k] = Tail(s)[k - 1]
      BY <2>1, <2>3, <1>1, <1>2
    <3> QED
      BY <3>1 DEF Range
  <2> QED
    BY <2>2, <2>3
<1>7. Range(s) = {Head(s)} \cup Range(Tail(s))
  BY <1>1, <1>3, <1>5, <1>6 DEF Range
<1> QED
  BY <1>1, <1>3, <1>4, <1>5, <1>7

\* Sequences of one or two elements.
LEMMA Few ==
  ASSUME NEW S, NEW x \in S
  PROVE  /\ <<x>> \in Seq(S) /\ Range(<<x>>) = {x} /\ DOMAIN <<x>> = {1} /\ <<x>>[1] = x
         /\ <<>> \in Seq(S) /\ Range(<<>>) = {} /\ DOMAIN <<>> = {}
<1>1. <<x>> \in Seq(S) /\ <<>> \in Seq(S)
  OBVIOUS
<1>2. DOMAIN <<x>> = {1} /\ <<x>>[1] = x
  OBVIOUS
<1>3. DOMAIN <<>> = {}
  OBVIOUS
<1> QED
  BY <1>1, <1>2, <1>3 DEF Range

\* One more phase at the end.
LEMMA Appending ==
  ASSUME NEW S, NEW s \in Seq(S), NEW x \in S
  PROVE  /\ Append(s, x) \in Seq(S) /\ Append(s, x) # <<>>
         /\ Range(Append(s, x)) = Range(s) \cup {x}
         /\ Len(Append(s, x)) = Len(s) + 1
<1>1. Append(s, x) = s \o <<x>>
  BY AppendIsConcat
<1>2. <<x>> \in Seq(S) /\ Len(<<x>>) = 1
  OBVIOUS
<1>3. Append(s, x) \in Seq(S) /\ Append(s, x) # <<>> /\ Len(Append(s, x)) = Len(s) + 1
  BY AppendProperties
<1>4. Range(s \o <<x>>) = Range(s) \cup Range(<<x>>)
  BY <1>2, Sending
<1>5. Range(<<x>>) = {x}
  BY Few
<1> QED
  BY <1>1, <1>3, <1>4, <1>5

\* A sequence is empty when it has no members.
LEMMA EmptyRange ==
  ASSUME NEW S, NEW s \in Seq(S)
  PROVE  (s = <<>>) <=> (Range(s) = {})
<1>1. DOMAIN s = 1 .. Len(s) /\ Len(s) \in Nat
  BY LenProperties
<1>2. ASSUME s # <<>> PROVE Range(s) # {}
  <2>1. Range(s) = {Head(s)} \cup Range(Tail(s))
    BY <1>2, Taking
  <2> QED
    BY <2>1
<1>3. Range(<<>>) = {}
  <2>1. DOMAIN <<>> = {}
    OBVIOUS
  <2> QED
    BY <2>1 DEF Range
<1> QED
  BY <1>2, <1>3

-----------------------------------------------------------------------------
(* Types are kept.                                                         *)

\* What an operation carries, by its name.
LEMMA OpFacts ==
  ASSUME NEW op \in Op
  PROVE  /\ op.name \in Names
         /\ op.name \in {"forget", "manifest"} => op.of \in SUBSET Release
         /\ op.name = "candidates" => op.of \in [Release -> Listing]
         /\ op.name = "scores" => op.release \in Release /\ op.rows \in SUBSET Row
         /\ op.name = "unclaim" => op.of \in SUBSET Inode
         /\ op.name = "emit" => op.picks \in SUBSET Proposal /\ op.knots \in SUBSET SUBSET Proposal
         /\ op.name = "gaps" => /\ op.stale \in SUBSET Inode /\ op.new \in SUBSET Inode
                                /\ op.unfilled \in SUBSET (Release \X Slot)
         /\ op.name \in {"edit", "drop"} => op.of \in Inode
         /\ op.name = "edit" => op.version \in Version
BY DEF Op, Names

\* What a phase that waits holds.
LEMMA PhaseFacts ==
  ASSUME NEW t \in Phase
  PROVE  /\ t \in Task /\ t.name \in Solitary /\ t.run \in Nat
         /\ t.name = "Mappings" => t.step = "clear"
         /\ t.name = "Map" => t.tier \in Tier /\ t.pool \in SUBSET Proposal
BY DEF Phase, Task, Solitary

\* What a computation holds, by its name.
LEMMA TaskFacts ==
  ASSUME NEW t \in Task
  PROVE  /\ t.name \in {"Pack", "Score", "Mappings", "Map", "Resolve", "Gaps"}
         /\ t.run \in Nat
         /\ t.name = "Pack" =>
              /\ t.incremental \in BOOLEAN /\ t.step \in {"read", "marks", "write", "drain"}
              /\ t.step \in {"marks", "write"} => t.version \in Version /\ t.present \in SUBSET Inode
              /\ t.step = "write" => t.marked \in SUBSET Inode
              /\ t.step = "drain" => t.listed \in SUBSET Release
         /\ t.name = "Score" => t.release \in Release
         /\ t.name = "Mappings" => t.step \in {"clear", "read"}
         /\ t.name = "Map" => t.tier \in Tier /\ t.pool \in SUBSET Proposal
         /\ t.name = "Resolve" => /\ t.proposals \in SUBSET Proposal /\ t.paths \in SUBSET Inode
                                  /\ t.manifest \in SUBSET Release
BY DEF Phase, Task

\* Versions are numbers up to the bound.
LEMMA Numbers ==
  MaxChanges \in Nat /\ 0 \in Version /\ \A v \in Nat : v <= MaxChanges => v \in Version
<1>1. MaxChanges \in Nat
  BY BoundsType
<1> QED
  BY <1>1 DEF Version

\* The types of a catalogue's fields.
LEMMA CatalogueFacts ==
  ASSUME Typed
  PROVE  /\ given \in Catalogue
         /\ \A r \in Release :
              /\ given.heard[r] \in SUBSET Inode /\ given.housed[r] \in SUBSET Inode
              /\ given.tracks[r] \in SUBSET Slot
              /\ given.housed[r] # {} => r \in given.pinned
         /\ \A v \in Version, r \in Release :
              given.matched[v][r] \in SUBSET Row /\ given.found[v][r] \in SUBSET Row
<1>1. given \in Catalogue /\ \A r \in Release : given.housed[r] # {} => r \in given.pinned
  BY CataloguesType DEF Typed
<1>2. \A r \in Release :
        /\ given.heard[r] \in SUBSET Inode /\ given.housed[r] \in SUBSET Inode
        /\ given.tracks[r] \in SUBSET Slot
  BY <1>1 DEF Catalogue
<1>3. \A v \in Version : given.matched[v] \in [Release -> SUBSET Row]
                         /\ given.found[v] \in [Release -> SUBSET Row]
  BY <1>1 DEF Catalogue
<1>4. \A v \in Version, r \in Release :
        given.matched[v][r] \in SUBSET Row /\ given.found[v][r] \in SUBSET Row
  BY <1>3
<1> QED
  BY <1>1, <1>2, <1>4

\* The types of the tables.
LEMMA DbFacts ==
  ASSUME Typed
  PROVE  /\ db.version \in Version
         /\ db.present \in SUBSET Inode /\ db.candidates \in [Release -> Listing]
         /\ db.manifest \in SUBSET Release /\ db.scores \in [Release -> SUBSET Row]
         /\ db.packed \in SUBSET Proposal /\ db.claims \in SUBSET (Inode \X Release \X Slot)
         /\ db.knots \in SUBSET SUBSET Proposal /\ db.unmatched \in SUBSET Inode
         /\ db.unfilled \in SUBSET (Release \X Slot) /\ db.dirty \in SUBSET Inode
BY DEF Typed, Tables

\* Rows are about files.
LEMMA RowFacts ==
  ASSUME NEW rows \in SUBSET Row
  PROVE  {row[1] : row \in rows} \in SUBSET Inode
BY DEF Row

LEMMA FilesType ==
  ASSUME NEW p \in Proposal
  PROVE  Files(p) \in SUBSET Inode
<1>1. p.rows \in SUBSET Row
  BY DEF Proposal
<1> QED
  BY <1>1, RowFacts DEF Files

LEMMA ClaimsType ==
  ASSUME NEW p \in Proposal
  PROVE  Claims(p) \in SUBSET (Inode \X Release \X Slot)
<1>1. p.rows \in SUBSET Row /\ p.release \in Release
  BY DEF Proposal
<1>2. \A row \in p.rows : row[1] \in Inode /\ row[2] \in Slot
  BY <1>1 DEF Row
<1> QED
  BY <1>1, <1>2 DEF Claims

\* The tables start, and are truncated, to values of their types.
LEMMA EmptyListing ==
  /\ Unlisted \in Listing /\ EmptyDb.candidates \in [Release -> Listing]
  /\ EmptyDb.scores \in [Release -> SUBSET Row] /\ EmptyDb \in Tables
<1>1. Unlisted \in Listing
  BY Numbers DEF Unlisted, Listing
<1> QED
  BY <1>1, Numbers DEF EmptyDb, Tables

\* Whatever the DB thread writes, the tables stay tables.
LEMMA Tabled ==
  ASSUME Typed, NEW op \in Op
  PROVE  Applied(db, op) \in Tables
<1>1. db \in Tables
  BY DEF Typed
<1>2. /\ db.present \in SUBSET Inode /\ db.candidates \in [Release -> Listing]
      /\ db.manifest \in SUBSET Release /\ db.scores \in [Release -> SUBSET Row]
      /\ db.packed \in SUBSET Proposal /\ db.claims \in SUBSET (Inode \X Release \X Slot)
      /\ db.knots \in SUBSET SUBSET Proposal /\ db.unmatched \in SUBSET Inode
      /\ db.unfilled \in SUBSET (Release \X Slot) /\ db.dirty \in SUBSET Inode
  BY DbFacts
<1>3. CASE op.name = "truncate"
  BY <1>1, <1>3, EmptyListing DEF Applied, Tables
<1>4. CASE op.name = "forget"
  <2>1. Applied(db, op) =
          [db EXCEPT !.candidates = [r \in Release |-> IF r \in op.of THEN Unlisted ELSE @[r]],
                     !.scores = [r \in Release |-> IF r \in op.of THEN {} ELSE @[r]]]
    BY <1>4 DEF Applied
  <2>2. [r \in Release |-> IF r \in op.of THEN Unlisted ELSE db.candidates[r]] \in [Release -> Listing]
    BY <1>2, EmptyListing
  <2>3. [r \in Release |-> IF r \in op.of THEN {} ELSE db.scores[r]] \in [Release -> SUBSET Row]
    BY <1>2
  <2> QED
    BY <1>1, <2>1, <2>2, <2>3 DEF Tables
<1>5. CASE op.name = "clean"
  BY <1>1, <1>5 DEF Applied, Tables
<1>6. CASE op.name = "manifest"
  BY <1>1, <1>6, OpFacts DEF Applied, Tables
<1>7. CASE op.name = "candidates"
  <2> DEFINE New(r) == IF op.of[r].files = {} THEN db.candidates[r]
                       ELSE [version |-> op.of[r].version,
                             files |-> db.candidates[r].files \cup op.of[r].files]
  <2>1. Applied(db, op) = [db EXCEPT !.candidates = [r \in Release |-> New(r)]]
    BY <1>7 DEF Applied
  <2>2. \A r \in Release : New(r) \in Listing
    <3>1. op.of \in [Release -> Listing]
      BY <1>7, OpFacts
    <3> QED
      BY <3>1, <1>2 DEF Listing
  <2> HIDE DEF New
  <2> QED
    BY <1>1, <2>1, <2>2 DEF Tables
<1>8. CASE op.name = "scores"
  <2>1. op.release \in Release /\ op.rows \in SUBSET Row
    BY <1>8, OpFacts
  <2>2. Applied(db, op) = [db EXCEPT !.scores[op.release] = @ \cup op.rows]
    BY <1>8 DEF Applied
  <2>3. [db.scores EXCEPT ![op.release] = @ \cup op.rows] \in [Release -> SUBSET Row]
    BY <2>1, <1>2
  <2> QED
    BY <1>1, <2>2, <2>3 DEF Tables
<1>9. CASE op.name = "clear"
  BY <1>1, <1>9 DEF Applied, Cleared, Tables
<1>10. CASE op.name = "unclaim"
  BY <1>1, <1>10 DEF Applied, Tables
<1>11. CASE op.name = "emit"
  <2>1. op.picks \in SUBSET Proposal /\ op.knots \in SUBSET SUBSET Proposal
    BY <1>11, OpFacts
  <2> DEFINE news == UNION {Claims(p) : p \in op.picks}
             packed == op.picks \cup
                {p \in db.packed : \A q \in op.picks : p.release # q.release \/ p.tier # q.tier}
             claims == {c \in db.claims : \A n \in news : n[1] # c[1]} \cup news
  <2>2. Applied(db, op) =
          [db EXCEPT !.packed = packed, !.claims = claims, !.knots = @ \cup op.knots]
    BY <1>11 DEF Applied, Emitted
  <2>3. packed \in SUBSET Proposal
    BY <2>1, <1>2
  <2>4. news \in SUBSET (Inode \X Release \X Slot)
    BY <2>1, ClaimsType
  <2>5. claims \in SUBSET (Inode \X Release \X Slot)
    BY <2>4, <1>2
  <2>6. db.knots \cup op.knots \in SUBSET SUBSET Proposal
    BY <2>1, <1>2
  <2> HIDE DEF news, packed, claims
  <2> QED
    BY <1>1, <2>2, <2>3, <2>5, <2>6 DEF Tables
<1>12. CASE op.name = "gaps"
  BY <1>1, <1>12, OpFacts DEF Applied, Tables
<1>13. CASE op.name = "edit"
  BY <1>1, <1>13, OpFacts DEF Applied, Tables
<1>14. CASE op.name = "drop"
  <2> DEFINE candidates == [r \in Release |-> [db.candidates[r] EXCEPT !.files = @ \ {op.of}]]
             scores == [r \in Release |-> {row \in db.scores[r] : row[1] # op.of}]
             claims == {c \in db.claims : c[1] # op.of}
  <2>1. Applied(db, op) =
          [db EXCEPT !.present = @ \ {op.of}, !.candidates = candidates, !.scores = scores,
                     !.claims = claims, !.unmatched = @ \ {op.of},
                     !.dirty = @ \ {op.of}]
    BY <1>14 DEF Applied, WithoutFile
  <2>2. candidates \in [Release -> Listing]
    <3>1. \A r \in Release : [db.candidates[r] EXCEPT !.files = @ \ {op.of}] \in Listing
      BY <1>2 DEF Listing
    <3> QED
      BY <3>1
  <2>3. scores \in [Release -> SUBSET Row]
    BY <1>2
  <2>4. claims \in SUBSET (Inode \X Release \X Slot)
    BY <1>2
  <2> HIDE DEF candidates, scores, claims
  <2> DEFINE first == [db EXCEPT !.present = @ \ {op.of}, !.candidates = candidates,
                                 !.scores = scores]
  <2>5. first \in Tables
    BY <1>1, <2>2, <2>3 DEF Tables
  <2>6. /\ first.claims = db.claims /\ first.unmatched = db.unmatched
        /\ first.dirty = db.dirty
    BY <1>1 DEF Tables
  <2>7. Applied(db, op) =
          [first EXCEPT !.claims = claims, !.unmatched = @ \ {op.of}, !.dirty = @ \ {op.of}]
    BY <2>1, <1>1 DEF Tables
  <2> HIDE DEF first
  <2> QED
    BY <2>4, <2>5, <2>7 DEF Tables
<1> QED
  BY OpFacts, <1>3, <1>4, <1>5, <1>6, <1>7, <1>8, <1>9, <1>10, <1>11, <1>12, <1>13, <1>14
     DEF Names

LEMMA TypedRepack == ASSUME Typed, Repack PROVE Typed'
<1>1. /\ asked \in [full : Nat, incremental : Nat, changes : Nat] /\ tasks \in SUBSET Task
      /\ seen \in Seen
  BY DEF Typed
<1>2. Runs \in Nat
  BY <1>1 DEF Runs
<1>3. [name |-> "Pack", run |-> Runs, incremental |-> FALSE, step |-> "read"] \in Task
  BY <1>2 DEF Task
<1>4. tasks' \in SUBSET Task
  BY <1>1, <1>3 DEF Repack
<1>5. asked' \in [full : Nat, incremental : Nat, changes : Nat] /\ asked'.changes = asked.changes
  BY <1>1 DEF Repack
<1>6. seen' \in Seen
  BY <1>1 DEF Repack, Seen
<1>7. UNCHANGED <<given, version, db, queue, todo>>
  BY DEF Repack
<1> QED
  BY <1>4, <1>5, <1>6, <1>7 DEF Typed

LEMMA TypedRescore == ASSUME Typed, Rescore PROVE Typed'
<1>1. /\ asked \in [full : Nat, incremental : Nat, changes : Nat] /\ tasks \in SUBSET Task
  BY DEF Typed
<1>2. Runs \in Nat
  BY <1>1 DEF Runs
<1>3. [name |-> "Pack", run |-> Runs, incremental |-> TRUE, step |-> "read"] \in Task
  BY <1>2 DEF Task
<1>4. tasks' \in SUBSET Task
  BY <1>3 DEF Rescore
<1>5. asked' \in [full : Nat, incremental : Nat, changes : Nat] /\ asked'.changes = asked.changes
  BY <1>1 DEF Rescore
<1>6. UNCHANGED <<given, version, db, queue, todo, seen>>
  BY DEF Rescore
<1> QED
  BY <1>4, <1>5, <1>6 DEF Typed

\* One operation behind the queue.
LEMMA OneMore ==
  ASSUME Typed, NEW op \in Op, queue' = queue \o <<op>>
  PROVE  queue' \in Seq(Op) /\ Range(queue') = Range(queue) \cup {op}
<1>1. queue \in Seq(Op)
  BY DEF Typed
<1>2. <<op>> \in Seq(Op)
  OBVIOUS
<1>3. Range(<<op>>) = {op}
  BY Few
<1>4. queue \o <<op>> \in Seq(Op) /\ Range(queue \o <<op>>) = Range(queue) \cup Range(<<op>>)
  BY <1>1, <1>2, Sending
<1> QED
  BY <1>3, <1>4

\* What an edit or a drop notes in the history, and nothing else.
LEMMA Touching ==
  ASSUME Typed, NEW i \in Inode
  PROVE  /\ Touch(i) \in Seen /\ Touch(i).touched = seen.touched \cup {i}
         /\ Touch(i).overtaken = seen.overtaken /\ Touch(i).proposals = seen.proposals
         /\ Touch(i).mapped = seen.mapped
         /\ Touch(i).overlapped = seen.overlapped /\ Touch(i).edited = seen.edited
         /\ Touch(i).broken = seen.broken /\ Touch(i).bailed = seen.bailed
BY DEF Typed, Touch, Seen

\* What an edit sends and notes.
LEMMA EditIs ==
  ASSUME Typed, NEW i \in Inode, Edit(i)
  PROVE  /\ \E op \in Op : /\ op.name = "edit" /\ op.of = i /\ op.version = version'
                          /\ queue' = queue \o <<op>>
         /\ asked' \in [full : Nat, incremental : Nat, changes : Nat]
         /\ version' \in Nat /\ version' <= asked'.changes /\ asked'.changes <= MaxChanges
         /\ seen' \in Seen /\ seen'.edited = {i} /\ seen'.touched = seen.touched \cup {i}
         /\ seen'.overtaken = (seen.overtaken \/ Reading # {})
         /\ seen'.proposals = seen.proposals /\ seen'.mapped = seen.mapped
         /\ seen'.overlapped = seen.overlapped
         /\ seen'.broken = seen.broken /\ seen'.bailed = seen.bailed
         /\ UNCHANGED <<given, db, tasks, todo>>
<1>1. /\ asked \in [full : Nat, incremental : Nat, changes : Nat] /\ version \in Nat
      /\ version <= asked.changes /\ MaxChanges \in Nat
  BY Numbers DEF Typed
<1>2. /\ asked' \in [full : Nat, incremental : Nat, changes : Nat]
      /\ asked'.changes = asked.changes + 1 /\ asked.changes < MaxChanges
      /\ version' = version + 1
  BY <1>1 DEF Edit
<1>3. version' \in Nat /\ version' <= asked'.changes /\ asked'.changes <= MaxChanges
  BY <1>1, <1>2
<1>4. version' <= MaxChanges
  BY <1>1, <1>2
<1>5. version' \in Version
  BY <1>3, <1>4, Numbers
<1> DEFINE op == [name |-> "edit", of |-> i, version |-> version']
<1>6. op \in Op
  BY <1>5 DEF Op
<1>7. op.name = "edit" /\ op.of = i /\ op.version = version' /\ queue' = queue \o <<op>>
  BY <1>2 DEF Edit, Send
<1> HIDE DEF op
<1>8. /\ seen' \in Seen /\ seen'.edited = {i} /\ seen'.touched = seen.touched \cup {i}
      /\ seen'.overtaken = (seen.overtaken \/ Reading # {})
      /\ seen'.proposals = seen.proposals /\ seen'.mapped = seen.mapped
      /\ seen'.overlapped = seen.overlapped
      /\ seen'.broken = seen.broken /\ seen'.bailed = seen.bailed
  BY Touching DEF Edit, Seen
<1>9. UNCHANGED <<given, db, tasks, todo>>
  BY DEF Edit
<1> QED
  BY <1>2, <1>3, <1>6, <1>7, <1>8, <1>9

LEMMA TypedEdit == ASSUME Typed, NEW i \in Inode, Edit(i) PROVE Typed'
<1>1. queue' \in Seq(Op)
  BY EditIs, OneMore
<1> QED
  BY <1>1, EditIs DEF Typed

LEMMA TypedDrop == ASSUME Typed, NEW i \in Inode, Drop(i) PROVE Typed'
<1>1. /\ asked \in [full : Nat, incremental : Nat, changes : Nat] /\ version \in Nat
      /\ version <= asked.changes /\ MaxChanges \in Nat
  BY Numbers DEF Typed
<1>2. [name |-> "drop", of |-> i] \in Op
  BY DEF Op
<1>3. queue' \in Seq(Op)
  BY <1>2, OneMore DEF Drop, Send
<1>4. /\ asked' \in [full : Nat, incremental : Nat, changes : Nat]
      /\ asked'.changes = asked.changes + 1 /\ asked.changes < MaxChanges
      /\ version' = version
  BY <1>1 DEF Drop
<1>5. seen' \in Seen
  BY Touching DEF Drop, Seen
<1>6. UNCHANGED <<given, db, tasks, todo>>
  BY DEF Drop
<1>7. version' \in Nat /\ version' <= asked'.changes /\ asked'.changes <= MaxChanges
  BY <1>1, <1>4
<1> QED
  BY <1>3, <1>4, <1>5, <1>6, <1>7 DEF Typed

LEMMA TypedDbApply == ASSUME Typed, DbApply PROVE Typed'
<1>1. queue \in Seq(Op) /\ queue # <<>>
  BY DEF Typed, DbApply
<1>2. Head(queue) \in Op /\ Tail(queue) \in Seq(Op)
  BY <1>1, Taking
<1>3. db' \in Tables /\ queue' \in Seq(Op)
  BY <1>2, Tabled DEF DbApply
<1> QED
  BY <1>3 DEF Typed, DbApply

LEMMA TypedNextPhase == ASSUME Typed, NextPhaseStarts PROVE Typed'
<1>1. todo \in Seq(Phase) /\ todo # <<>>
  BY DEF Typed, NextPhaseStarts
<1>2. Head(todo) \in Phase /\ Tail(todo) \in Seq(Phase)
  BY <1>1, Taking
<1>3. tasks' \in SUBSET Task /\ todo' \in Seq(Phase)
  BY <1>2, PhaseFacts DEF NextPhaseStarts
<1> QED
  BY <1>3 DEF Typed, NextPhaseStarts

LEMMA TypedPackRead == ASSUME Typed, NEW t \in tasks, PackRead(t) PROVE Typed'
<1>1. t \in Task /\ db.version \in Version /\ db.present \in SUBSET Inode
  BY DbFacts DEF Typed
<1>2. t.run \in Nat /\ t.incremental \in BOOLEAN
  BY <1>1, TaskFacts DEF PackRead
<1>3. [name |-> "Pack", run |-> t.run, incremental |-> t.incremental, step |-> "marks",
       version |-> db.version, present |-> db.present] \in Task
  BY <1>1, <1>2 DEF Task
<1>4. tasks' \in SUBSET Task
  BY <1>3 DEF Typed, PackRead
<1>5. seen' \in Seen
  BY DEF Typed, PackRead, Seen
<1> QED
  BY <1>4, <1>5 DEF Typed, PackRead

\* The marks that PackReleases has read.
Scoping(t) ==
  [name |-> "Pack", run |-> t.run, incremental |-> t.incremental, step |-> "write",
   version |-> t.version, present |-> t.present, marked |-> db.dirty]

LEMMA MarksAre ==
  ASSUME Typed, NEW t \in tasks, PackMarks(t)
  PROVE  /\ t.name = "Pack" /\ t.step = "marks" /\ Scoping(t) \in Task
         /\ Scoping(t).name = "Pack" /\ Scoping(t).step = "write"
         /\ Scoping(t).version = t.version /\ Scoping(t).present = t.present
         /\ Scoping(t).marked = db.dirty
         /\ tasks' = (tasks \ {t}) \cup {Scoping(t)}
         /\ UNCHANGED <<given, version, db, queue, todo, asked, seen>>
<1>1. t \in Task /\ db.dirty \in SUBSET Inode /\ t.name = "Pack" /\ t.step = "marks"
  BY DbFacts DEF Typed, PackMarks
<1>2. /\ t.run \in Nat /\ t.incremental \in BOOLEAN
      /\ t.version \in Version /\ t.present \in SUBSET Inode
  BY <1>1, TaskFacts
<1>3. Scoping(t) \in Task
  BY <1>1, <1>2 DEF Task, Scoping
<1> QED
  BY <1>1, <1>3 DEF PackMarks, Scoping

LEMMA TypedPackMarks == ASSUME Typed, NEW t \in tasks, PackMarks(t) PROVE Typed'
BY MarksAre DEF Typed

LEMMA TypedPackNothing == ASSUME Typed, NEW t \in tasks, PackNothing(t) PROVE Typed'
<1>1. Claimed \in SUBSET Inode
  BY DbFacts DEF Claimed
<1>2. [name |-> "unclaim", of |-> Claimed] \in Op
  BY <1>1 DEF Op
<1>3. queue \in Seq(Op)
  BY DEF Typed
<1>4. queue' \in Seq(Op)
  <2>1. CASE Claimed = {}
    <3>1. queue' = queue \o <<>> /\ <<>> \in Seq(Op)
      BY <2>1 DEF PackNothing, Send
    <3> QED
      BY <3>1, <1>3, Sending
  <2>2. CASE Claimed # {}
    BY <2>2, <1>2, OneMore DEF PackNothing, Send
  <2> QED
    BY <2>1, <2>2
<1>5. seen' \in Seen
  BY DEF Typed, PackNothing, Seen
<1>6. tasks' \in SUBSET Task
  BY DEF Typed, PackNothing, Finish
<1> QED
  BY <1>4, <1>5, <1>6 DEF Typed, PackNothing

-----------------------------------------------------------------------------
(* What PackReleases writes.                                               *)

Listings(t) == [r \in Release |-> IF r \in Scope(t) THEN Listed(t)[r] ELSE Unlisted]
Scoped(t) == [name |-> "manifest", of |-> Scope(t)]
Forgetting(t) == IF t.incremental THEN [name |-> "forget", of |-> Scope(t)] ELSE [name |-> "truncate"]
Noting(t) == [name |-> "candidates", of |-> Listings(t)]

\* With nothing in scope the marks go, and that is all.
PackOps(t) ==
  IF Scope(t) = {} THEN Clean(t)
  ELSE IF t.marked = {} THEN <<Forgetting(t), Scoped(t), Noting(t)>>
  ELSE IF t.incremental
  THEN <<Forgetting(t), Scoped(t), [name |-> "clean"], Noting(t)>>
  ELSE <<Forgetting(t), [name |-> "clean"], Scoped(t), Noting(t)>>

\* The operations PackReleases sends, spelled out as one tuple.
LEMMA JoinTwo == ASSUME NEW a, NEW b PROVE <<a>> \o <<b>> = <<a, b>>
<1> DEFINE S == {a, b}
           whole == <<a>> \o <<b>>
<1>1. <<a>> \in Seq(S) /\ <<b>> \in Seq(S) /\ <<a, b>> \in Seq(S)
  OBVIOUS
<1>2. Len(<<a>>) = 1 /\ Len(<<b>>) = 1 /\ Len(<<a, b>>) = 2
  OBVIOUS
<1> HIDE DEF S
<1>3. whole \in Seq(S) /\ Len(whole) = 2
  BY <1>1, <1>2
<1>4. whole[1] = a /\ whole[2] = b
  BY <1>1, <1>2
<1> HIDE DEF whole
<1>5. \A i \in 1 .. 2 : whole[i] = <<a, b>>[i]
  BY <1>4
<1>6. whole = <<a, b>>
  BY <1>1, <1>2, <1>3, <1>5, SeqEqual
<1> QED
  BY <1>6 DEF whole

LEMMA JoinThree == ASSUME NEW a, NEW b, NEW c PROVE <<a, b>> \o <<c>> = <<a, b, c>>
<1> DEFINE S == {a, b, c}
           whole == <<a, b>> \o <<c>>
<1>1. <<a, b>> \in Seq(S) /\ <<c>> \in Seq(S) /\ <<a, b, c>> \in Seq(S)
  OBVIOUS
<1>2. Len(<<a, b>>) = 2 /\ Len(<<c>>) = 1 /\ Len(<<a, b, c>>) = 3
  OBVIOUS
<1> HIDE DEF S
<1>3. whole \in Seq(S) /\ Len(whole) = 3
  BY <1>1, <1>2
<1>4. whole[1] = a /\ whole[2] = b /\ whole[3] = c
  BY <1>1, <1>2
<1> HIDE DEF whole
<1>5. \A i \in 1 .. 3 : whole[i] = <<a, b, c>>[i]
  BY <1>4
<1>6. whole = <<a, b, c>>
  BY <1>1, <1>2, <1>3, <1>5, SeqEqual
<1> QED
  BY <1>6 DEF whole

LEMMA JoinFour == ASSUME NEW a, NEW b, NEW c, NEW d PROVE <<a, b, c>> \o <<d>> = <<a, b, c, d>>
<1> DEFINE S == {a, b, c, d}
           whole == <<a, b, c>> \o <<d>>
<1>1. <<a, b, c>> \in Seq(S) /\ <<d>> \in Seq(S) /\ <<a, b, c, d>> \in Seq(S)
  OBVIOUS
<1>2. Len(<<a, b, c>>) = 3 /\ Len(<<d>>) = 1 /\ Len(<<a, b, c, d>>) = 4
  OBVIOUS
<1> HIDE DEF S
<1>3. whole \in Seq(S) /\ Len(whole) = 4
  BY <1>1, <1>2
<1>4. whole[1] = a /\ whole[2] = b /\ whole[3] = c /\ whole[4] = d
  BY <1>1, <1>2
<1> HIDE DEF whole
<1>5. \A i \in 1 .. 4 : whole[i] = <<a, b, c, d>>[i]
  BY <1>4
<1>6. whole = <<a, b, c, d>>
  BY <1>1, <1>2, <1>3, <1>5, SeqEqual
<1> QED
  BY <1>6 DEF whole

LEMMA PairThen == ASSUME NEW a, NEW b, NEW d PROVE (<<a, b>> \o <<>>) \o <<d>> = <<a, b, d>>
<1>1. <<a, b>> \in Seq({a, b})
  OBVIOUS
<1>2. <<a, b>> \o <<>> = <<a, b>>
  BY <1>1, ConcatEmptySeq
<1>3. <<a, b>> \o <<d>> = <<a, b, d>>
  BY JoinThree
<1> QED
  BY <1>2, <1>3

LEMMA PairOneThen ==
  ASSUME NEW a, NEW b, NEW c, NEW d PROVE (<<a, b>> \o <<c>>) \o <<d>> = <<a, b, c, d>>
<1>1. <<a, b>> \o <<c>> = <<a, b, c>>
  BY JoinThree
<1>2. <<a, b, c>> \o <<d>> = <<a, b, c, d>>
  BY JoinFour
<1> QED
  BY <1>1, <1>2

LEMMA OneThenTwo ==
  ASSUME NEW a, NEW c, NEW d PROVE ((<<a>> \o <<>>) \o <<c>>) \o <<d>> = <<a, c, d>>
<1>1. <<a>> \in Seq({a})
  OBVIOUS
<1>2. <<a>> \o <<>> = <<a>>
  BY <1>1, ConcatEmptySeq
<1>3. <<a>> \o <<c>> = <<a, c>>
  BY JoinTwo
<1>4. <<a, c>> \o <<d>> = <<a, c, d>>
  BY JoinThree
<1> QED
  BY <1>2, <1>3, <1>4

LEMMA OneThenThree ==
  ASSUME NEW a, NEW b, NEW c, NEW d
  PROVE  ((<<a>> \o <<b>>) \o <<c>>) \o <<d>> = <<a, b, c, d>>
<1>1. <<a>> \o <<b>> = <<a, b>>
  BY JoinTwo
<1>2. (<<a, b>> \o <<c>>) \o <<d>> = <<a, b, c, d>>
  BY PairOneThen
<1> QED
  BY <1>1, <1>2

\* What PackWrite does, in terms of the definitions above.
LEMMA PackWriteIs ==
  ASSUME Typed, NEW t \in tasks, PackWrite(t)
  PROVE  /\ t.name = "Pack" /\ t.step = "write" /\ t \in Task
         /\ Scope(t) \in SUBSET Release /\ Listings(t) \in [Release -> Listing]
         /\ queue' = queue \o PackOps(t)
         /\ UNCHANGED <<given, version, db, todo, asked, seen>>
         /\ Scope(t) = {} => tasks' = tasks \ {t}
         /\ Scope(t) # {} =>
              tasks' = (tasks \ {t}) \cup
                {[name |-> "Pack", run |-> t.run, incremental |-> t.incremental, step |-> "drain",
                  listed |-> {r \in Scope(t) : Listings(t)[r].files # {}}]}
<1>1. t.name = "Pack" /\ t.step = "write" /\ t \in Task
  BY DEF Typed, PackWrite
<1>2. t.version \in Version /\ t.present \in SUBSET Inode /\ t.incremental \in BOOLEAN
  BY <1>1, TaskFacts
<1>3. given.pinned \in SUBSET Release
  BY CatalogueFacts DEF Catalogue
<1>4. Scope(t) \in SUBSET Release
  BY <1>3 DEF Scope
<1>5. \A r \in Release : Listed(t)[r] \in Listing
  <2>1. \A r \in Release : (given.heard[r] \cup given.housed[r]) \cap t.present \in SUBSET Inode
    BY CatalogueFacts
  <2> QED
    BY <2>1, <1>2 DEF Listed, Listing
<1>6. Listings(t) \in [Release -> Listing]
  BY <1>5, EmptyListing DEF Listings
<1>7. UNCHANGED <<given, version, db, todo, asked, seen>>
  BY DEF PackWrite
<1> DEFINE names == [name |-> "manifest", of |-> Scope(t)]
           start == IF t.incremental
                    THEN <<[name |-> "forget", of |-> Scope(t)], names>> \o Clean(t)
                    ELSE <<[name |-> "truncate"]>> \o Clean(t) \o <<names>>
<1>8. IF Scope(t) = {} THEN queue' = queue \o Clean(t) /\ tasks' = tasks \ {t}
      ELSE /\ queue' = queue \o (start \o <<[name |-> "candidates", of |-> Listings(t)]>>)
           /\ tasks' = (tasks \ {t}) \cup
                {[name |-> "Pack", run |-> t.run, incremental |-> t.incremental, step |-> "drain",
                  listed |-> {r \in Scope(t) : Listings(t)[r].files # {}}]}
  BY DEF PackWrite, Send, Finish, Listings
<1>9. Scope(t) # {} =>
        start \o <<[name |-> "candidates", of |-> Listings(t)]>> = PackOps(t)
  <2> SUFFICES ASSUME Scope(t) # {}
               PROVE  start \o <<Noting(t)>> = PackOps(t)
    BY DEF Noting
  <2>1. CASE t.incremental /\ t.marked = {}
    <3>1. start = <<Forgetting(t), Scoped(t)>> \o <<>>
      BY <2>1 DEF Clean, Forgetting, Scoped
    <3> HIDE DEF start
    <3>2. PackOps(t) = <<Forgetting(t), Scoped(t), Noting(t)>>
      BY <2>1 DEF PackOps
    <3>3. (<<Forgetting(t), Scoped(t)>> \o <<>>) \o <<Noting(t)>>
            = <<Forgetting(t), Scoped(t), Noting(t)>>
      BY PairThen
    <3> QED
      BY <3>1, <3>2, <3>3
  <2>2. CASE t.incremental /\ t.marked # {}
    <3>1. start = <<Forgetting(t), Scoped(t)>> \o <<[name |-> "clean"]>>
      BY <2>2 DEF Clean, Forgetting, Scoped
    <3> HIDE DEF start
    <3>2. PackOps(t) = <<Forgetting(t), Scoped(t), [name |-> "clean"], Noting(t)>>
      BY <2>2 DEF PackOps
    <3>3. (<<Forgetting(t), Scoped(t)>> \o <<[name |-> "clean"]>>) \o <<Noting(t)>>
            = <<Forgetting(t), Scoped(t), [name |-> "clean"], Noting(t)>>
      BY PairOneThen
    <3> QED
      BY <3>1, <3>2, <3>3
  <2>3. CASE ~t.incremental /\ t.marked = {}
    <3>1. start = (<<Forgetting(t)>> \o <<>>) \o <<Scoped(t)>>
      BY <2>3 DEF Clean, Forgetting, Scoped
    <3> HIDE DEF start
    <3>2. PackOps(t) = <<Forgetting(t), Scoped(t), Noting(t)>>
      BY <2>3 DEF PackOps
    <3>3. ((<<Forgetting(t)>> \o <<>>) \o <<Scoped(t)>>) \o <<Noting(t)>>
            = <<Forgetting(t), Scoped(t), Noting(t)>>
      BY OneThenTwo
    <3> QED
      BY <3>1, <3>2, <3>3
  <2>4. CASE ~t.incremental /\ t.marked # {}
    <3>1. start = (<<Forgetting(t)>> \o <<[name |-> "clean"]>>) \o <<Scoped(t)>>
      BY <2>4 DEF Clean, Forgetting, Scoped
    <3> HIDE DEF start
    <3>2. PackOps(t) = <<Forgetting(t), [name |-> "clean"], Scoped(t), Noting(t)>>
      BY <2>4 DEF PackOps
    <3>3. ((<<Forgetting(t)>> \o <<[name |-> "clean"]>>) \o <<Scoped(t)>>) \o <<Noting(t)>>
            = <<Forgetting(t), [name |-> "clean"], Scoped(t), Noting(t)>>
      BY OneThenThree
    <3> QED
      BY <3>1, <3>2, <3>3
  <2> QED
    BY <2>1, <2>2, <2>3, <2>4
<1>10. queue' = queue \o PackOps(t)
  <2> HIDE DEF start
  <2>1. CASE Scope(t) = {}
    BY <2>1, <1>8 DEF PackOps
  <2>2. CASE Scope(t) # {}
    BY <2>2, <1>8, <1>9
  <2> QED
    BY <2>1, <2>2
<1> QED
  BY <1>1, <1>4, <1>6, <1>7, <1>8, <1>10

\* The operations of PackReleases, in their order.
LEMMA PackOpsFacts ==
  ASSUME NEW t, t.incremental \in BOOLEAN, Scope(t) \in SUBSET Release,
         Listings(t) \in [Release -> Listing]
  PROVE  /\ PackOps(t) \in Seq(Op)
         /\ \A k \in DOMAIN PackOps(t) :
              LET op == PackOps(t)[k]
              IN  /\ op.name \in {"truncate", "forget", "clean", "manifest", "candidates"}
                  /\ Scope(t) = {} => op.name = "clean"
                  /\ op.name = "clean" => t.marked # {}
                  /\ op.name = "clean" /\ Scope(t) # {} =>
                       1 < k /\ PackOps(t)[1] = Forgetting(t)
                  /\ op.name = "candidates" => op.of = Listings(t)
                  /\ op.name = "truncate" => ~t.incremental /\ Scope(t) # {} /\ k = 1
         /\ Scope(t) # {} => \E k \in DOMAIN PackOps(t) : k > 1 /\ PackOps(t)[k] = Scoped(t)
<1>1. /\ [name |-> "clean"] \in Op /\ Scoped(t) \in Op /\ Forgetting(t) \in Op
      /\ Noting(t) \in Op
  BY DEF Op, Scoped, Forgetting, Noting
<1>2. /\ Scoped(t).name = "manifest" /\ Noting(t).name = "candidates"
      /\ Noting(t).of = Listings(t) /\ Forgetting(t).name \in {"truncate", "forget"}
      /\ (Forgetting(t).name = "truncate") => ~t.incremental
      /\ [name |-> "clean"].name = "clean"
  BY DEF Scoped, Forgetting, Noting
<1>3. CASE Scope(t) = {}
  <2>1. CASE t.marked = {}
    <3>1. PackOps(t) = <<>>
      BY <1>3, <2>1 DEF PackOps, Clean
    <3>2. <<>> \in Seq(Op) /\ DOMAIN <<>> = {}
      OBVIOUS
    <3> QED
      BY <3>1, <3>2, <1>3
  <2>2. CASE t.marked # {}
    <3>1. PackOps(t) = <<[name |-> "clean"]>>
      BY <1>3, <2>2 DEF PackOps, Clean
    <3> QED
      BY <3>1, <1>1, <1>2, <1>3, <2>2
  <2> QED
    BY <2>1, <2>2
<1>4. CASE Scope(t) # {} /\ t.marked = {}
  <2>1. PackOps(t) = <<Forgetting(t), Scoped(t), Noting(t)>>
    BY <1>4 DEF PackOps
  <2> QED
    BY <2>1, <1>1, <1>2, <1>4
<1>5. CASE Scope(t) # {} /\ t.marked # {} /\ t.incremental
  <2>1. PackOps(t) = <<Forgetting(t), Scoped(t), [name |-> "clean"], Noting(t)>>
    BY <1>5 DEF PackOps
  <2> QED
    BY <2>1, <1>1, <1>2, <1>5
<1>6. CASE Scope(t) # {} /\ t.marked # {} /\ ~t.incremental
  <2>1. PackOps(t) = <<Forgetting(t), [name |-> "clean"], Scoped(t), Noting(t)>>
    BY <1>6 DEF PackOps
  <2> QED
    BY <2>1, <1>1, <1>2, <1>6
<1> QED
  BY <1>3, <1>4, <1>5, <1>6

LEMMA TypedPackWrite == ASSUME Typed, NEW t \in tasks, PackWrite(t) PROVE Typed'
<1>1. /\ t.name = "Pack" /\ t.step = "write" /\ t \in Task
      /\ Scope(t) \in SUBSET Release /\ Listings(t) \in [Release -> Listing]
      /\ queue' = queue \o PackOps(t)
      /\ UNCHANGED <<given, version, db, todo, asked, seen>>
      /\ Scope(t) = {} => tasks' = tasks \ {t}
      /\ Scope(t) # {} =>
           tasks' = (tasks \ {t}) \cup
             {[name |-> "Pack", run |-> t.run, incremental |-> t.incremental, step |-> "drain",
               listed |-> {r \in Scope(t) : Listings(t)[r].files # {}}]}
  BY PackWriteIs
<1>2. t.incremental \in BOOLEAN /\ t.run \in Nat
  BY <1>1, TaskFacts
<1>3. PackOps(t) \in Seq(Op)
  BY <1>1, <1>2, PackOpsFacts
<1>4. queue \in Seq(Op) /\ tasks \in SUBSET Task
  BY DEF Typed
<1>5. queue' \in Seq(Op)
  BY <1>1, <1>3, <1>4, Sending
<1>6. {r \in Scope(t) : Listings(t)[r].files # {}} \in SUBSET Release
  BY <1>1
<1>7. [name |-> "Pack", run |-> t.run, incremental |-> t.incremental, step |-> "drain",
       listed |-> {r \in Scope(t) : Listings(t)[r].files # {}}] \in Task
  BY <1>2, <1>6 DEF Task
<1>8. tasks' \in SUBSET Task
  BY <1>1, <1>4, <1>7
<1> QED
  BY <1>1, <1>5, <1>8 DEF Typed

LEMMA TypedPackDone == ASSUME Typed, NEW t \in tasks, PackDone(t) PROVE Typed'
<1>1. t \in Task /\ tasks \in SUBSET Task /\ todo \in Seq(Phase)
  BY DEF Typed
<1>2. t.run \in Nat /\ t.listed \in SUBSET Release
  BY <1>1, TaskFacts DEF PackDone
<1>3. \A r \in t.listed : [name |-> "Score", run |-> t.run, release |-> r] \in Task
  BY <1>2 DEF Task
<1>4. tasks' \in SUBSET Task
  BY <1>1, <1>3 DEF PackDone
<1>5. [name |-> "Mappings", run |-> t.run, step |-> "clear"] \in Phase
  BY <1>2 DEF Phase
<1>6. todo' \in Seq(Phase)
  BY <1>1, <1>5, Appending DEF PackDone
<1> QED
  BY <1>4, <1>6 DEF Typed, PackDone

\* Scorers write at most the rows they found.
LEMMA ScoreIs ==
  ASSUME Typed, NEW t \in tasks, ScoreCandidates(t)
  PROVE  /\ t \in Task /\ t.release \in Release
         /\ \E ops \in Seq(Op) :
              /\ queue' = queue \o ops
              /\ \A k \in DOMAIN ops : ops[k].name = "scores" /\ ops[k].release = t.release
<1>1. t \in Task /\ t.release \in Release
  BY TaskFacts DEF Typed, ScoreCandidates
<1> DEFINE listed == db.candidates[t.release]
           matched == Matched(t.release, listed)
           rows == matched \cup Eliminated(t.release, matched)
<1>2. listed.version \in Version
  BY <1>1, DbFacts DEF Listing
<1>3. db.version \in Version
  BY DbFacts
<1>4. rows \in SUBSET Row
  BY <1>1, <1>2, <1>3, CatalogueFacts DEF Matched, Eliminated
<1> DEFINE op == [name |-> "scores", release |-> t.release, rows |-> rows]
<1>5. op \in Op
  BY <1>1, <1>4 DEF Op
<1>6. queue' = queue \o (IF listed.files = {} \/ rows = {} THEN <<>> ELSE <<op>>)
  BY DEF ScoreCandidates, Send
<1>7. <<op>> \in Seq(Op) /\ <<>> \in Seq(Op)
  BY <1>5
<1>8. op.name = "scores" /\ op.release = t.release
  OBVIOUS
<1> HIDE DEF op, listed, rows
<1>9. CASE listed.files = {} \/ rows = {}
  <2>1. DOMAIN <<>> = {}
    OBVIOUS
  <2> QED
    BY <1>1, <1>6, <1>7, <1>9, <2>1
<1>10. CASE ~(listed.files = {} \/ rows = {})
  <2>1. DOMAIN <<op>> = {1} /\ <<op>>[1] = op
    OBVIOUS
  <2>2. \A k \in DOMAIN <<op>> : <<op>>[k].name = "scores" /\ <<op>>[k].release = t.release
    BY <2>1, <1>8
  <2> QED
    BY <1>1, <1>6, <1>7, <1>10, <2>2
<1> QED
  BY <1>9, <1>10

LEMMA TypedScore == ASSUME Typed, NEW t \in tasks, ScoreCandidates(t) PROVE Typed'
<1>1. PICK ops \in Seq(Op) : queue' = queue \o ops
  BY ScoreIs
<1>2. queue \in Seq(Op)
  BY DEF Typed
<1>3. queue' \in Seq(Op)
  BY <1>1, <1>2, Sending
<1> QED
  BY <1>3 DEF Typed, ScoreCandidates, Finish

LEMMA TypedMappingsClear == ASSUME Typed, NEW t \in tasks, MappingsClear(t) PROVE Typed'
<1>1. [name |-> "clear"] \in Op
  BY DEF Op
<1>2. queue' \in Seq(Op)
  BY <1>1, OneMore DEF MappingsClear, Send
<1>3. t \in Task /\ t.name = "Mappings"
  BY DEF Typed, MappingsClear
<1>4. [t EXCEPT !.step = "read"] \in Task
  BY <1>3 DEF Task, Phase
<1>5. tasks' \in SUBSET Task
  BY <1>4 DEF Typed, MappingsClear
<1> QED
  BY <1>2, <1>5 DEF Typed, MappingsClear

\* One proposal for each release that is scored.
LEMMA ProposalsAre ==
  ASSUME Typed
  PROVE  /\ Proposals \in SUBSET Proposal
         /\ \A p, q \in Proposals : p.release = q.release => p = q
         /\ \A p \in Proposals : p.rows # {} /\ p.rows = db.scores[p.release]
<1>1. db.scores \in [Release -> SUBSET Row]
  BY DbFacts
<1>2. \A r \in Release : TierOf(r) \in Tier
  BY DEF TierOf, Tier
<1>3. \A p \in Proposals : \E r \in Release :
        /\ db.scores[r] # {}
        /\ p = [release |-> r, tier |-> TierOf(r), rows |-> db.scores[r]]
  BY DEF Proposals
<1>4. Proposals \in SUBSET Proposal
  BY <1>1, <1>2, <1>3 DEF Proposal
<1>5. \A p, q \in Proposals : p.release = q.release => p = q
  BY <1>3
<1>6. \A p \in Proposals : p.rows # {} /\ p.rows = db.scores[p.release]
  BY <1>3
<1> QED
  BY <1>4, <1>5, <1>6

\* What a mapping notes in the history.
LEMMA MappedIs ==
  ASSUME Typed, NEW broken \in BOOLEAN, NEW bailed \in BOOLEAN, Mapped(broken, bailed)
  PROVE  /\ seen' \in Seen /\ seen'.mapped = TRUE /\ seen'.touched = {}
         /\ seen'.broken = broken /\ seen'.bailed = bailed /\ seen'.proposals = Proposals
         /\ seen'.overlapped = seen.overlapped /\ seen'.overtaken = seen.overtaken
         /\ seen'.edited = seen.edited
BY ProposalsAre DEF Typed, Seen, Mapped

LEMMA TypedMappingsNone == ASSUME Typed, NEW t \in tasks, MappingsNone(t) PROVE Typed'
<1>1. seen' \in Seen
  BY MappedIs DEF MappingsNone
<1> QED
  BY <1>1 DEF Typed, MappingsNone, Finish

\* What an emit carries, and what EmitOps sends.
LEMMA EmitIs ==
  ASSUME NEW picks \in SUBSET Proposal, NEW knots \in SUBSET SUBSET Proposal
  PROVE  /\ Emit(picks, knots) \in Op /\ Emit(picks, knots).name = "emit"
         /\ Emit(picks, knots).picks = picks /\ Emit(picks, knots).knots = knots
BY DEF Emit, Op

\* What an emission brings to the queue: its picks and its knots.
LEMMA EmitSends ==
  ASSUME NEW picks \in SUBSET Proposal, NEW knots \in SUBSET SUBSET Proposal
  PROVE  /\ EmitOps(picks, knots) \in Seq(Op)
         /\ \A op \in Range(EmitOps(picks, knots)) :
              op.name = "emit" /\ op.picks = picks /\ op.knots = knots
         /\ UNION {op.picks : op \in Range(EmitOps(picks, knots))} = picks
         /\ UNION {op.knots : op \in Range(EmitOps(picks, knots))} = knots
<1>1. /\ Emit(picks, knots) \in Op /\ Emit(picks, knots).name = "emit"
      /\ Emit(picks, knots).picks = picks /\ Emit(picks, knots).knots = knots
  BY EmitIs
<1>2. CASE picks = {} /\ knots = {}
  <2>1. EmitOps(picks, knots) = <<>>
    BY <1>2 DEF EmitOps
  <2>2. Range(<<>>) = {}
    <3>1. DOMAIN <<>> = {}
      OBVIOUS
    <3> QED
      BY <3>1 DEF Range
  <2>3. Range(EmitOps(picks, knots)) = {} /\ EmitOps(picks, knots) \in Seq(Op)
    BY <2>1, <2>2
  <2> QED
    BY <1>2, <2>3
<1>3. CASE ~(picks = {} /\ knots = {})
  <2>1. EmitOps(picks, knots) = <<Emit(picks, knots)>>
    BY <1>3 DEF EmitOps
  <2>2. <<Emit(picks, knots)>> \in Seq(Op)
    BY <1>1
  <2>3. Range(<<Emit(picks, knots)>>) = {Emit(picks, knots)}
    BY <1>1, Few
  <2> QED
    BY <1>1, <2>1, <2>2, <2>3
<1> QED
  BY <1>2, <1>3

Chosen == {p \in Proposals : p.release \in given.pinned \ given.clashing}
Left ==
  {p \in Proposals \ Chosen : /\ p.release \notin given.clashing
                              /\ \A q \in Chosen : Files(p) \cap Files(q) = {}}

\* A mapping emits pinned proposals one by one, and all of them unless it
\* panics; the tiers get what is left.
LEMMA ProposedIs ==
  ASSUME Typed, NEW t \in tasks, MappingsProposed(t)
  PROVE  /\ t \in Task /\ t.name = "Mappings" /\ t.step = "read" /\ queue = <<>>
         /\ tasks' = tasks \ {t}
         /\ UNCHANGED <<given, version, db, asked>>
         /\ \E ops \in Seq(Op), whole \in BOOLEAN :
              /\ queue' = queue \o ops
              /\ \A op \in Range(ops) : \E p \in Named(Chosen, db.manifest) : op = Emit({p}, {})
              /\ whole => \A p \in Named(Chosen, db.manifest) : Emit({p}, {}) \in Range(ops)
              /\ Mapped(~whole, FALSE)
              /\ todo' = IF whole THEN Append(todo, [name |-> "Map", run |-> t.run,
                                                    tier |-> "Perfect", pool |-> Left])
                         ELSE todo
<1>1. /\ t \in Task /\ t.name = "Mappings" /\ t.step = "read" /\ queue = <<>>
      /\ tasks' = tasks \ {t}
      /\ UNCHANGED <<given, version, db, asked>>
  BY DEF Typed, MappingsProposed, MappingsRead, Finish
<1> DEFINE named == Named(Chosen, db.manifest)
           number == Cardinality(named)
           Sends(order, last) == [k \in 1 .. last |-> Emit({order[k]}, {})]
<1>2. PICK order \in Surjection(1 .. number, named), last \in 0 .. number :
        /\ queue' = queue \o Sends(order, last)
        /\ todo' = IF last = number THEN Append(todo, [name |-> "Map", run |-> t.run,
                                                       tier |-> "Perfect", pool |-> Left])
                   ELSE todo
        /\ Mapped(~(last = number), FALSE)
  BY DEF MappingsProposed, Send, Chosen, Left
<1>3. named \in SUBSET Proposal
  BY ProposalsAre DEF Named, Chosen
<1> HIDE DEF named
<1>4. number \in Nat
  <2>1. IsFiniteSet(named)
    <3>1. IsFiniteSet(Proposals)
      <4>1. IsFiniteSet(Release)
        BY FinitelyMany
      <4>2. IsFiniteSet({q \in Release : db.scores[q] # {}})
        BY <4>1, FS_Subset
      <4> DEFINE P(r) == [release |-> r, tier |-> TierOf(r), rows |-> db.scores[r]]
      <4>3. Proposals = {P(r) : r \in {q \in Release : db.scores[q] # {}}}
        BY DEF Proposals
      <4> HIDE DEF P
      <4> DEFINE S == {q \in Release : db.scores[q] # {}}
      <4>4. [r \in S |-> P(r)] \in Surjection(S, Proposals)
        BY <4>3 DEF Surjection
      <4> QED
        BY <4>2, <4>4, FS_Surjection
    <3>2. named \subseteq Proposals
      BY DEF named, Named, Chosen
    <3> QED
      BY <3>1, <3>2, FS_Subset
  <2> QED
    BY <2>1, FS_CardinalityType
<1> HIDE DEF number
<1>5. order \in [1 .. number -> named] /\ \A p \in named : \E k \in 1 .. number : order[k] = p
  BY <1>2 DEF Surjection
<1>6. last \in Nat /\ last <= number
  BY <1>2, <1>4
<1>7. \A k \in 1 .. last : order[k] \in named
  BY <1>4, <1>5, <1>6
<1>8. \A k \in 1 .. last : Emit({order[k]}, {}) \in Op
  BY <1>3, <1>7, EmitIs
<1>9. Sends(order, last) \in [1 .. last -> Op]
  BY <1>8
<1>10. Sends(order, last) \in Seq(Op)
  BY <1>6, <1>9
<1>11. \A op \in Range(Sends(order, last)) : \E p \in named : op = Emit({p}, {})
  BY <1>7 DEF Range
<1>12. last = number => \A p \in named : Emit({p}, {}) \in Range(Sends(order, last))
  BY <1>5 DEF Range
<1> HIDE DEF Sends
<1>13. (last = number) \in BOOLEAN
  OBVIOUS
<1> QED
  BY <1>1, <1>2, <1>10, <1>11, <1>12, <1>13 DEF named

LEMMA TypedProposed == ASSUME Typed, NEW t \in tasks, MappingsProposed(t) PROVE Typed'
<1>1. /\ t \in Task
      /\ tasks' = tasks \ {t}
      /\ UNCHANGED <<given, version, db, asked>>
  BY ProposedIs
<1>2. PICK ops \in Seq(Op), whole \in BOOLEAN :
        /\ queue' = queue \o ops
        /\ Mapped(~whole, FALSE)
        /\ todo' = IF whole THEN Append(todo, [name |-> "Map", run |-> t.run,
                                               tier |-> "Perfect", pool |-> Left])
                   ELSE todo
  BY ProposedIs
<1>3. queue \in Seq(Op) /\ todo \in Seq(Phase)
  BY DEF Typed
<1>4. queue' \in Seq(Op)
  BY <1>2, <1>3, Sending
<1>5. seen' \in Seen
  <2>1. (~whole) \in BOOLEAN
    OBVIOUS
  <2> QED
    BY <1>2, <2>1, MappedIs
<1>6. t.run \in Nat /\ Left \in SUBSET Proposal
  BY <1>1, TaskFacts, ProposalsAre DEF Left
<1>7. [name |-> "Map", run |-> t.run, tier |-> "Perfect", pool |-> Left] \in Phase
  BY <1>6 DEF Phase, Tier
<1>8. todo' \in Seq(Phase)
  BY <1>2, <1>3, <1>7, Appending
<1> QED
  BY <1>1, <1>4, <1>5, <1>8 DEF Typed

-----------------------------------------------------------------------------
(* The tiers, in their parts.                                              *)

Several(kept) == {C \in Components(kept) : ~\E p \in C : C = {p}}
Knotted(tier, kept) == {C \in Several(kept) : IsKnot(tier, C)}
Tied(tier, kept) == {C \in Knotted(tier, kept) : Discography(C) = {}}
Won(tier, kept) ==
  (UNION (Components(kept) \ Several(kept))) \cup UNION {Discography(C) : C \in Knotted(tier, kept)}
Solver(t, C) ==
  [name |-> "Resolve", run |-> t.run, proposals |-> C, paths |-> Paths, manifest |-> db.manifest]

\* A tier that is mapped whole.
TierMapped(t, kept) ==
  /\ queue' = queue \o EmitOps(Named(Won(t.tier, kept), db.manifest), Tied(t.tier, kept))
  /\ tasks' = (tasks \ {t}) \cup
       {Solver(t, C) : C \in Several(kept) \ Knotted(t.tier, kept)}
  /\ todo' = Append(todo, NextPhase(t))
  /\ seen' = seen

\* A tier that panics on the way.
TierBroken(t, kept) ==
  /\ \E part \in SUBSET Named(Won(t.tier, kept), db.manifest), tied \in SUBSET Tied(t.tier, kept) :
       queue' = queue \o EmitOps(part, tied)
  /\ tasks' = tasks \ {t}
  /\ todo' = todo
  /\ seen' = [seen EXCEPT !.broken = TRUE]

\* What MapTier does: a tier is mapped, or breaks off.
LEMMA MapTierIs ==
  ASSUME Typed, NEW t \in tasks, MapTier(t)
  PROVE  /\ t \in Task /\ t.name = "Map" /\ t.tier \in Tier /\ t.pool \in SUBSET Proposal
         /\ t.run \in Nat
         /\ UNCHANGED <<given, version, db, asked>>
         /\ \E kept \in Keepers(t.tier, Eligible(t)) : TierMapped(t, kept) \/ TierBroken(t, kept)
<1>1. t \in Task /\ t.name = "Map" /\ UNCHANGED <<given, version, db, asked>>
  BY DEF Typed, MapTier
<1>2. t.tier \in Tier /\ t.pool \in SUBSET Proposal /\ t.run \in Nat
  BY <1>1, TaskFacts
<1>3. PICK kept \in Keepers(t.tier, Eligible(t)) :
        LET picks == Named(Won(t.tier, kept), db.manifest)
            lost == {p \in picks : ~ (Files(p) \subseteq Paths)}
        IN  IF lost = {}
            THEN /\ queue' = queue \o EmitOps(picks, Tied(t.tier, kept))
                 /\ tasks' = (tasks \ {t}) \cup
                      {Solver(t, C) : C \in Several(kept) \ Knotted(t.tier, kept)}
                 /\ todo' = Append(todo, NextPhase(t))
                 /\ seen' = seen
            ELSE /\ \E part \in SUBSET (picks \ lost), knot \in SUBSET Tied(t.tier, kept) :
                      queue' = queue \o EmitOps(part, knot)
                 /\ tasks' = tasks \ {t}
                 /\ todo' = todo
                 /\ seen' = [seen EXCEPT !.broken = TRUE]
  BY DEF MapTier, Send, Finish, Several, Knotted, Tied, Won, Solver
<1> DEFINE picks == Named(Won(t.tier, kept), db.manifest)
           lost == {p \in picks : ~ (Files(p) \subseteq Paths)}
<1>4. CASE lost = {}
  BY <1>1, <1>2, <1>3, <1>4 DEF TierMapped
<1>5. CASE lost # {}
  <2>1. PICK part \in SUBSET (picks \ lost), knot \in SUBSET Tied(t.tier, kept) :
          queue' = queue \o EmitOps(part, knot)
    BY <1>3, <1>5
  <2>2. part \in SUBSET picks
    BY <2>1
  <2>3. tasks' = tasks \ {t} /\ todo' = todo /\ seen' = [seen EXCEPT !.broken = TRUE]
    BY <1>3, <1>5
  <2>4. TierBroken(t, kept)
    BY <2>1, <2>2, <2>3 DEF TierBroken
  <2> QED
    BY <1>1, <1>2, <2>4
<1> QED
  BY <1>4, <1>5

\* Whatever is kept, won or tied was in the pool.
LEMMA KeptFrom ==
  ASSUME NEW t, NEW tier, NEW kept \in Keepers(tier, Eligible(t))
  PROVE  /\ kept \subseteq Eligible(t) /\ Eligible(t) \subseteq t.pool
         /\ \A C \in Components(kept) : C \subseteq kept
         /\ Won(tier, kept) \subseteq kept
         /\ \A C \in Tied(tier, kept) : C \subseteq kept
         /\ \A C \in Several(kept) : C \subseteq kept
<1>1. kept \subseteq Eligible(t)
  BY DEF Keepers
<1>2. Eligible(t) \subseteq t.pool
  BY DEF Eligible
<1>3. \A C \in Components(kept) : C \subseteq kept
  BY DEF Components
<1>4. \A C : Discography(C) \subseteq C
  BY DEF Discography
<1> QED
  BY <1>1, <1>2, <1>3, <1>4 DEF Won, Tied, Knotted, Several

LEMMA NextPhaseIs ==
  ASSUME NEW t, t.run \in Nat, t.tier \in Tier, t.pool \in SUBSET Proposal
  PROVE  /\ NextPhase(t) \in Phase /\ NextPhase(t).name \in {"Map", "Gaps"}
         /\ NextPhase(t).name = "Map" => NextPhase(t).pool = t.pool
<1> DEFINE k == RoundOf(t)
<1>1. CASE k = 4
  BY <1>1 DEF NextPhase, Phase
<1>2. CASE k # 4
  <2>1. k \in 1 .. 4
    <3>1. \E j \in 1 .. 4 : Rounds[j] = t.tier
      BY DEF Rounds, Tier
    <3> QED
      BY <3>1 DEF RoundOf
  <2> HIDE DEF k
  <2>2. Rounds[k + 1] \in Tier
    BY <2>1, <1>2 DEF Rounds, Tier
  <2>3. NextPhase(t) = [name |-> "Map", run |-> t.run, tier |-> Rounds[k + 1], pool |-> t.pool]
    BY <1>2 DEF NextPhase, k
  <2> QED
    BY <2>2, <2>3 DEF Phase
<1> QED
  BY <1>1, <1>2

LEMMA PathsType == ASSUME Typed PROVE Paths \in SUBSET Inode
<1>1. \A r \in Release : db.candidates[r].files \in SUBSET Inode
  BY DbFacts DEF Listing
<1>2. db.present \in SUBSET Inode
  BY DbFacts
<1>3. ASSUME NEW i \in Paths
      PROVE  i \in db.present \/ \E r \in Release : i \in db.candidates[r].files
  BY <1>3 DEF Paths
<1> QED
  BY <1>1, <1>2, <1>3

LEMMA TypedMapTier == ASSUME Typed, NEW t \in tasks, MapTier(t) PROVE Typed'
<1>1. /\ t \in Task /\ t.name = "Map" /\ t.tier \in Tier /\ t.pool \in SUBSET Proposal
      /\ t.run \in Nat
      /\ UNCHANGED <<given, version, db, asked>>
  BY MapTierIs
<1>2. PICK kept \in Keepers(t.tier, Eligible(t)) : TierMapped(t, kept) \/ TierBroken(t, kept)
  BY MapTierIs
<1>3. /\ kept \subseteq t.pool
      /\ Won(t.tier, kept) \subseteq kept
      /\ \A C \in Tied(t.tier, kept) : C \subseteq kept
      /\ \A C \in Several(kept) : C \subseteq kept
  BY <1>2, KeptFrom
<1>4. /\ Named(Won(t.tier, kept), db.manifest) \in SUBSET Proposal
      /\ Tied(t.tier, kept) \in SUBSET SUBSET Proposal
  BY <1>1, <1>3 DEF Named
<1>5. queue \in Seq(Op) /\ todo \in Seq(Phase) /\ tasks \in SUBSET Task /\ seen \in Seen
  BY DEF Typed
<1>6. CASE TierMapped(t, kept)
  <2>1. queue' \in Seq(Op)
    <3> DEFINE ops == EmitOps(Named(Won(t.tier, kept), db.manifest), Tied(t.tier, kept))
    <3>1. ops \in Seq(Op)
      BY <1>4, EmitSends
    <3>2. queue' = queue \o ops
      BY <1>6 DEF TierMapped
    <3> HIDE DEF ops
    <3> QED
      BY <3>1, <3>2, <1>5, Sending
  <2>2. \A C \in Several(kept) : Solver(t, C) \in Task
    BY <1>1, <1>3, PathsType, DbFacts DEF Solver, Task
  <2>3. tasks' \in SUBSET Task
    BY <1>5, <1>6, <2>2 DEF TierMapped
  <2>4. todo' \in Seq(Phase)
    BY <1>1, <1>5, <1>6, NextPhaseIs, Appending DEF TierMapped
  <2>5. seen' = seen
    BY <1>6 DEF TierMapped
  <2> QED
    BY <1>1, <2>1, <2>3, <2>4, <2>5 DEF Typed
<1>7. CASE TierBroken(t, kept)
  <2>1. PICK part \in SUBSET Named(Won(t.tier, kept), db.manifest),
             tied \in SUBSET Tied(t.tier, kept) :
          queue' = queue \o EmitOps(part, tied)
    BY <1>7 DEF TierBroken
  <2>2. EmitOps(part, tied) \in Seq(Op)
    <3>1. part \in SUBSET Proposal /\ tied \in SUBSET SUBSET Proposal
      BY <2>1, <1>4
    <3> QED
      BY <3>1, EmitSends
  <2>3. queue' \in Seq(Op)
    BY <2>1, <2>2, <1>5, Sending
  <2>4. tasks' \in SUBSET Task /\ todo' = todo
    BY <1>5, <1>7 DEF TierBroken
  <2>5. seen' \in Seen
    BY <1>5, <1>7 DEF TierBroken, Seen
  <2> QED
    BY <1>1, <2>3, <2>4, <2>5 DEF Typed
<1> QED
  BY <1>2, <1>6, <1>7

\* A solver that finishes, with all its picks or none.
LEMMA ResolveIs ==
  ASSUME Typed, NEW t \in tasks, Resolve(t)
  PROVE  /\ t \in Task /\ t.name = "Resolve" /\ t.proposals \in SUBSET Proposal
         /\ tasks' = tasks \ {t}
         /\ UNCHANGED <<given, version, db, todo, asked>>
         /\ \E choice \in Best(t.proposals), whole \in BOOLEAN :
              /\ queue' = queue \o (IF whole THEN EmitOps(Named(choice, t.manifest), {}) ELSE <<>>)
              /\ seen' = [seen EXCEPT !.broken = @ \/ ~whole]
<1>1. t \in Task /\ t.name = "Resolve" /\ tasks' = tasks \ {t}
      /\ UNCHANGED <<given, version, db, todo, asked>>
  BY DEF Typed, Resolve, Finish
<1>2. t.proposals \in SUBSET Proposal
  BY <1>1, TaskFacts
<1>3. PICK choice \in Best(t.proposals) :
        LET picks == Named(choice, t.manifest)
            whole == \A p \in picks : Files(p) \subseteq t.paths
        IN  /\ queue' = queue \o (IF whole THEN EmitOps(picks, {}) ELSE <<>>)
            /\ seen' = [seen EXCEPT !.broken = @ \/ ~whole]
  BY DEF Resolve, Send
<1> DEFINE whole == \A p \in Named(choice, t.manifest) : Files(p) \subseteq t.paths
<1>4. whole \in BOOLEAN
  OBVIOUS
<1>5. /\ queue' = queue \o (IF whole THEN EmitOps(Named(choice, t.manifest), {}) ELSE <<>>)
      /\ seen' = [seen EXCEPT !.broken = @ \/ ~whole]
  BY <1>3
<1> HIDE DEF whole
<1> QED
  BY <1>1, <1>2, <1>3, <1>4, <1>5

\* A best choice is a choice without rivals.
LEMMA BestIs ==
  ASSUME NEW C, NEW choice \in Best(C)
  PROVE  choice \in SUBSET C /\ \A p, q \in choice : p # q => ~Compete(p, q)
BY DEF Best, Disjoint

LEMMA TypedResolve == ASSUME Typed, NEW t \in tasks, Resolve(t) PROVE Typed'
<1>1. /\ t \in Task /\ t.proposals \in SUBSET Proposal
      /\ tasks' = tasks \ {t}
      /\ UNCHANGED <<given, version, db, todo, asked>>
  BY ResolveIs
<1>2. PICK choice \in Best(t.proposals), whole \in BOOLEAN :
        /\ queue' = queue \o (IF whole THEN EmitOps(Named(choice, t.manifest), {}) ELSE <<>>)
        /\ seen' = [seen EXCEPT !.broken = @ \/ ~whole]
  BY ResolveIs
<1>3. Named(choice, t.manifest) \in SUBSET Proposal
  BY <1>1, <1>2, BestIs DEF Named
<1>4. {} \in SUBSET SUBSET Proposal
  OBVIOUS
<1>5. EmitOps(Named(choice, t.manifest), {}) \in Seq(Op) /\ <<>> \in Seq(Op)
  <2>1. <<>> \in Seq(Op)
    OBVIOUS
  <2>2. EmitOps(Named(choice, t.manifest), {}) \in Seq(Op)
    BY <1>3, <1>4, EmitSends
  <2> QED
    BY <2>1, <2>2
<1>6. queue \in Seq(Op)
  BY DEF Typed
<1>7. queue' \in Seq(Op)
  <2>1. CASE whole
    <3>1. queue' = queue \o EmitOps(Named(choice, t.manifest), {})
      BY <1>2, <2>1
    <3> QED
      BY <3>1, <1>5, <1>6, Sending
  <2>2. CASE ~whole
    <3>1. queue' = queue \o <<>>
      BY <1>2, <2>2
    <3> QED
      BY <3>1, <1>5, <1>6, Sending
  <2> QED
    BY <2>1, <2>2
<1>8. seen' \in Seen
  BY <1>2 DEF Typed, Seen
<1> QED
  BY <1>1, <1>7, <1>8 DEF Typed

\* The operation that the gap analysis sends.
GapsOp ==
  [name |-> "gaps", stale |-> db.unmatched \ Unmatched,
   new |-> Unmatched \ db.unmatched, unfilled |-> Unfilled]

\* The operation of the gap analysis is one.
LEMMA GapsIs ==
  ASSUME Typed
  PROVE  GapsOp \in Op /\ GapsOp.name = "gaps"
<1>1. Unmatched \in SUBSET Inode /\ db.unmatched \in SUBSET Inode
  BY DbFacts DEF Unmatched
<1>2. Unfilled \in SUBSET (Release \X Slot)
  <2>1. \A r \in db.manifest : r \in Release /\ given.tracks[r] \in SUBSET Slot
    BY DbFacts, CatalogueFacts
  <2>2. \A r \in db.manifest : {r} \X (given.tracks[r] \ Filled(r)) \in SUBSET (Release \X Slot)
    BY <2>1
  <2> QED
    BY <2>2 DEF Unfilled
<1> QED
  BY <1>1, <1>2 DEF GapsOp, Op

LEMMA TypedGaps == ASSUME Typed, NEW t \in tasks, Gaps(t) PROVE Typed'
<1>1. queue' = queue \o <<GapsOp>>
  BY DEF Gaps, Send, GapsOp
<1>2. queue' \in Seq(Op)
  BY <1>1, GapsIs, OneMore
<1> QED
  BY <1>2 DEF Typed, Gaps, Finish

LEMMA TypedInit == ASSUME Init PROVE Typed
<1>1. db \in Tables
  BY EmptyListing DEF Init
<1>2. seen \in Seen
  BY DEF Init, NothingSeen, Seen
<1>3. version \in Nat /\ version <= asked.changes /\ asked.changes <= MaxChanges
  BY Numbers DEF Init
<1> QED
  BY <1>1, <1>2, <1>3 DEF Init, Typed

LEMMA TypedNext == ASSUME Typed, [Next]_vars PROVE Typed'
<1>1. CASE UNCHANGED vars
  BY <1>1 DEF vars, Typed
<1>2. CASE Next
  BY <1>2, TypedRepack, TypedRescore, TypedEdit, TypedDrop, TypedDbApply, TypedNextPhase,
     TypedPackRead, TypedPackNothing, TypedPackMarks, TypedPackWrite, TypedPackDone, TypedScore,
     TypedMappingsClear, TypedMappingsNone, TypedProposed, TypedMapTier, TypedResolve, TypedGaps
     DEF Next, Compute
<1> QED
  BY <1>1, <1>2

-----------------------------------------------------------------------------
(* Most steps leave the mapping alone: what it has written and will write, *)
(* its computations and phases stay, but for one more mapping to come.     *)

Signals == {"emit", "gaps", "clear", "unclaim"}
Mapping == {t \in tasks : t.name \in Solitary \cup {"Resolve"}}
Calm ==
  /\ given' = given /\ db' = db
  /\ Range(queue) \subseteq Range(queue')
  /\ \A op \in Range(queue') \ Range(queue) :
       op.name \notin Signals /\ (op.name \in {"edit", "drop"} => op.of \in seen'.touched)
  /\ Mapping' = Mapping
  /\ Range(todo) \subseteq Range(todo')
  /\ \A p \in Range(todo') \ Range(todo) : p.name = "Mappings"
  /\ todo # <<>> => todo' # <<>>
  /\ seen'.proposals = seen.proposals /\ seen'.mapped = seen.mapped
  /\ seen'.broken = seen.broken /\ seen'.bailed = seen.bailed
  /\ seen.touched \subseteq seen'.touched
  /\ seen.overlapped => seen'.overlapped

\* Sending adds to what waits.
LEMMA CalmSend ==
  ASSUME Typed, NEW ops \in Seq(Op), queue' = queue \o ops
  PROVE  Range(queue') = Range(queue) \cup Range(ops)
<1>1. queue \in Seq(Op)
  BY DEF Typed
<1> QED
  BY <1>1, Sending

LEMMA StutterCalm == ASSUME UNCHANGED vars PROVE Calm
BY DEF vars, Calm, Mapping

LEMMA RepackCalm == ASSUME Typed, Repack PROVE Calm
<1>1. Mapping' = Mapping
  BY DEF Repack, Mapping, Solitary
<1>2. /\ seen'.proposals = seen.proposals /\ seen'.mapped = seen.mapped
      /\ seen'.broken = seen.broken /\ seen'.bailed = seen.bailed
      /\ seen.touched = seen'.touched
      /\ seen.overlapped => seen'.overlapped
  BY DEF Repack, Typed, Seen
<1> QED
  BY <1>1, <1>2 DEF Repack, Calm

LEMMA RescoreCalm == ASSUME Typed, Rescore PROVE Calm
<1>1. Mapping' = Mapping
  BY DEF Rescore, Quiet, Mapping, Solitary
<1> QED
  BY <1>1 DEF Rescore, Calm

LEMMA EditCalm == ASSUME Typed, NEW i \in Inode, Edit(i) PROVE Calm
<1>1. PICK op \in Op : /\ op.name = "edit" /\ op.of = i
                       /\ queue' = queue \o <<op>>
  BY EditIs
<1>2. Range(queue') = Range(queue) \cup {op}
  BY <1>1, OneMore
<1>3. /\ seen'.proposals = seen.proposals /\ seen'.mapped = seen.mapped
      /\ seen'.broken = seen.broken /\ seen'.bailed = seen.bailed
      /\ seen'.touched = seen.touched \cup {i}
      /\ seen'.overlapped = seen.overlapped
  BY EditIs
<1>4. UNCHANGED <<given, db, tasks, todo>>
  BY EditIs
<1> QED
  BY <1>1, <1>2, <1>3, <1>4 DEF Calm, Mapping, Signals

LEMMA DropCalm == ASSUME Typed, NEW i \in Inode, Drop(i) PROVE Calm
<1>1. [name |-> "drop", of |-> i] \in Op
  BY DEF Op
<1>2. Range(queue') = Range(queue) \cup {[name |-> "drop", of |-> i]}
  BY <1>1, OneMore DEF Drop, Send
<1>3. /\ seen'.proposals = seen.proposals /\ seen'.mapped = seen.mapped
      /\ seen'.broken = seen.broken /\ seen'.bailed = seen.bailed
      /\ seen'.touched = seen.touched \cup {i}
      /\ seen'.overlapped = seen.overlapped
  BY Touching DEF Drop, Seen
<1>4. UNCHANGED <<given, db, tasks, todo>>
  BY DEF Drop
<1> QED
  BY <1>2, <1>3, <1>4 DEF Calm, Mapping, Signals

LEMMA PackReadCalm == ASSUME Typed, NEW t \in tasks, PackRead(t) PROVE Calm
<1>1. Mapping' = Mapping
  BY DEF PackRead, Mapping, Solitary
<1>2. /\ seen'.proposals = seen.proposals /\ seen'.mapped = seen.mapped
      /\ seen'.broken = seen.broken /\ seen'.bailed = seen.bailed
      /\ seen.touched = seen'.touched /\ seen'.overlapped = seen.overlapped
  BY DEF PackRead, Typed, Seen
<1> QED
  BY <1>1, <1>2 DEF PackRead, Calm

LEMMA PackMarksCalm == ASSUME Typed, NEW t \in tasks, PackMarks(t) PROVE Calm
<1>1. Mapping' = Mapping
  BY MarksAre DEF Mapping, Solitary
<1>2. UNCHANGED <<given, version, db, queue, todo, asked, seen>>
  BY MarksAre
<1> QED
  BY <1>1, <1>2 DEF Calm

LEMMA PackWriteCalm == ASSUME Typed, NEW t \in tasks, PackWrite(t) PROVE Calm
<1>1. /\ t.name = "Pack" /\ t \in Task
      /\ Scope(t) \in SUBSET Release /\ Listings(t) \in [Release -> Listing]
      /\ queue' = queue \o PackOps(t)
      /\ UNCHANGED <<given, version, db, todo, asked, seen>>
      /\ Scope(t) = {} => tasks' = tasks \ {t}
      /\ Scope(t) # {} =>
           tasks' = (tasks \ {t}) \cup
             {[name |-> "Pack", run |-> t.run, incremental |-> t.incremental, step |-> "drain",
               listed |-> {r \in Scope(t) : Listings(t)[r].files # {}}]}
  BY PackWriteIs
<1>2. t.incremental \in BOOLEAN
  BY <1>1, TaskFacts
<1>3. /\ PackOps(t) \in Seq(Op)
      /\ \A k \in DOMAIN PackOps(t) :
           PackOps(t)[k].name \in {"truncate", "forget", "clean", "manifest", "candidates"}
  BY <1>1, <1>2, PackOpsFacts
<1>4. Range(queue') = Range(queue) \cup Range(PackOps(t))
  BY <1>1, <1>3, CalmSend
<1>5. \A op \in Range(PackOps(t)) : op.name \notin Signals /\ op.name \notin {"edit", "drop"}
  BY <1>3 DEF Range, Signals
<1>6. Mapping' = Mapping
  BY <1>1 DEF Mapping, Solitary
<1> QED
  BY <1>1, <1>4, <1>5, <1>6 DEF Calm

LEMMA PackDoneCalm == ASSUME Typed, NEW t \in tasks, PackDone(t) PROVE Calm
<1>1. Mapping' = Mapping
  BY DEF PackDone, Mapping, Solitary
<1>2. todo \in Seq(Phase) /\ t \in Task
  BY DEF Typed
<1>3. [name |-> "Mappings", run |-> t.run, step |-> "clear"] \in Phase
  BY <1>2, TaskFacts DEF Phase
<1>4. /\ Range(todo) \subseteq Range(todo')
      /\ \A p \in Range(todo') \ Range(todo) : p.name = "Mappings"
      /\ todo # <<>> => todo' # <<>>
  <2>1. CASE t.incremental
    BY <2>1 DEF PackDone
  <2>2. CASE ~t.incremental
    <3> DEFINE next == [name |-> "Mappings", run |-> t.run, step |-> "clear"]
    <3>1. todo' = Append(todo, next)
      BY <2>2 DEF PackDone
    <3>2. next \in Phase /\ next.name = "Mappings"
      BY <1>3
    <3> HIDE DEF next
    <3>3. Range(todo') = Range(todo) \cup {next} /\ todo' # <<>>
      BY <1>2, <3>1, <3>2, Appending
    <3> QED
      BY <3>2, <3>3
  <2> QED
    BY <2>1, <2>2
<1> QED
  BY <1>1, <1>4 DEF PackDone, Calm

LEMMA ScoreCalm == ASSUME Typed, NEW t \in tasks, ScoreCandidates(t) PROVE Calm
<1>1. Mapping' = Mapping
  BY DEF ScoreCandidates, Mapping, Solitary, Finish
<1>2. PICK ops \in Seq(Op) : /\ queue' = queue \o ops
                             /\ \A k \in DOMAIN ops : ops[k].name = "scores"
  BY ScoreIs
<1>3. Range(queue') = Range(queue) \cup Range(ops)
  BY <1>2, CalmSend
<1>4. \A op \in Range(ops) : op.name = "scores"
  BY <1>2 DEF Range
<1> QED
  BY <1>1, <1>3, <1>4 DEF ScoreCandidates, Calm, Signals

\* What a calm step keeps.
LEMMA CalmKeeps ==
  ASSUME Calm
  PROVE  /\ Is("Resolve")' = Is("Resolve")
         /\ \A t : t.name \in Solitary => (t \in tasks' <=> t \in tasks)
         /\ Sent("emit")' = Sent("emit") /\ Sent("gaps")' = Sent("gaps")
         /\ Sent("clear")' = Sent("clear") /\ Sent("unclaim")' = Sent("unclaim")
         /\ Picked' = Picked /\ Resolving' = Resolving /\ Knots' = Knots
         /\ Maps' = Maps /\ Rowed' = Rowed /\ Claimed' = Claimed
<1>1. Is("Resolve")' = Is("Resolve")
  BY DEF Calm, Mapping, Is
<1>2. \A t : t.name \in Solitary => (t \in tasks' <=> t \in tasks)
  BY DEF Calm, Mapping
<1>3. /\ Sent("emit")' = Sent("emit") /\ Sent("gaps")' = Sent("gaps")
      /\ Sent("clear")' = Sent("clear") /\ Sent("unclaim")' = Sent("unclaim")
  BY DEF Calm, Sent, Signals
<1>4. Maps' = Maps
  <2>1. ASSUME NEW t, t.name = "Map" PROVE t \in Ahead' <=> t \in Ahead
    BY <2>1, <1>2 DEF Calm, Ahead, Solitary
  <2> QED
    BY <2>1 DEF Maps
<1>5. Picked' = Picked /\ Resolving' = Resolving /\ Knots' = Knots
  BY <1>1, <1>3 DEF Calm, Picked, Resolving, Knots
<1>6. Rowed' = Rowed /\ Claimed' = Claimed
  BY DEF Calm, Rowed, Claimed
<1> QED
  BY <1>1, <1>2, <1>3, <1>4, <1>5, <1>6

-----------------------------------------------------------------------------
(* What one operation writes, table by table.                              *)

NewClaims(op) == UNION {Claims(p) : p \in op.picks}

\* The packed releases and the knots.
LEMMA PackedApplied ==
  ASSUME Typed, NEW op \in Op
  PROVE  /\ op.name \notin {"truncate", "clear", "emit"} => Applied(db, op).packed = db.packed
         /\ op.name \in {"truncate", "clear"} => Applied(db, op).packed = {}
         /\ op.name = "emit" =>
              Applied(db, op).packed = op.picks \cup
                {p \in db.packed : \A q \in op.picks : p.release # q.release \/ p.tier # q.tier}
         /\ op.name \notin {"clear", "emit"} => Applied(db, op).knots = db.knots
         /\ op.name = "clear" => Applied(db, op).knots = {}
         /\ op.name = "emit" => Applied(db, op).knots = db.knots \cup op.knots
<1>1. db \in Tables
  BY DEF Typed
<1>2. CASE op.name = "emit"
  BY <1>1, <1>2 DEF Applied, Emitted, Tables
<1>3. CASE op.name = "clear"
  BY <1>1, <1>3 DEF Applied, Cleared, Tables
<1>4. CASE op.name = "truncate"
  BY <1>1, <1>4 DEF Applied, Tables
<1>5. CASE op.name \notin {"truncate", "clear", "emit"}
  <2>1. op.name \in Names
    BY OpFacts
  <2> QED
    BY <1>1, <1>5, <2>1 DEF Applied, WithoutFile, Tables, Names
<1> QED
  BY <1>2, <1>3, <1>4, <1>5

\* The claims.
LEMMA ClaimsApplied ==
  ASSUME Typed, NEW op \in Op
  PROVE  /\ op.name \notin {"clear", "unclaim", "emit", "edit", "drop"} =>
              Applied(db, op).claims = db.claims
         /\ op.name = "clear" => Applied(db, op).claims = {}
         /\ op.name = "unclaim" => Applied(db, op).claims = {c \in db.claims : c[1] \notin op.of}
         /\ op.name \in {"edit", "drop"} =>
              Applied(db, op).claims = {c \in db.claims : c[1] # op.of}
         /\ op.name = "emit" =>
              Applied(db, op).claims =
                {c \in db.claims : \A n \in NewClaims(op) : n[1] # c[1]} \cup NewClaims(op)
<1>1. db \in Tables
  BY DEF Typed
<1>2. CASE op.name = "emit"
  BY <1>1, <1>2 DEF Applied, Emitted, Tables, NewClaims
<1>3. CASE op.name = "clear"
  BY <1>1, <1>3 DEF Applied, Cleared, Tables
<1>4. CASE op.name = "unclaim"
  BY <1>1, <1>4 DEF Applied, Tables
<1>5. CASE op.name = "edit"
  BY <1>1, <1>5 DEF Applied, Tables
<1>6. CASE op.name = "drop"
  BY <1>1, <1>6 DEF Applied, WithoutFile, Tables
<1>7. CASE op.name \notin {"clear", "unclaim", "emit", "edit", "drop"}
  <2>1. op.name \in Names
    BY OpFacts
  <2> QED
    BY <1>1, <1>7, <2>1 DEF Applied, Tables, Names
<1> QED
  BY <1>2, <1>3, <1>4, <1>5, <1>6, <1>7

\* The tags, the files, the unmatched ones and the dirty ones.
LEMMA CorpusApplied ==
  ASSUME Typed, NEW op \in Op
  PROVE  /\ op.name # "edit" => Applied(db, op).version = db.version
         /\ op.name = "edit" => Applied(db, op).version = op.version
         /\ op.name # "drop" => Applied(db, op).present = db.present
         /\ op.name = "drop" => Applied(db, op).present = db.present \ {op.of}
         /\ op.name \notin {"gaps", "edit", "drop"} => Applied(db, op).unmatched = db.unmatched
         /\ op.name \in {"edit", "drop"} => Applied(db, op).unmatched = db.unmatched \ {op.of}
         /\ op.name = "gaps" => Applied(db, op).unmatched = (db.unmatched \ op.stale) \cup op.new
         /\ op.name \notin {"clean", "edit", "drop"} => Applied(db, op).dirty = db.dirty
         /\ op.name = "clean" => Applied(db, op).dirty = {}
         /\ op.name = "edit" => Applied(db, op).dirty = db.dirty \cup {op.of}
         /\ op.name = "drop" => Applied(db, op).dirty = db.dirty \ {op.of}
<1>1. db \in Tables
  BY DEF Typed
<1>2. CASE op.name = "emit"
  BY <1>1, <1>2 DEF Applied, Emitted, Tables
<1>3. CASE op.name = "clear"
  BY <1>1, <1>3 DEF Applied, Cleared, Tables
<1>4. CASE op.name = "drop"
  BY <1>1, <1>4 DEF Applied, WithoutFile, Tables
<1>5. CASE op.name \notin {"clear", "emit", "drop"}
  <2>1. op.name \in Names
    BY OpFacts
  <2> QED
    BY <1>1, <1>5, <2>1 DEF Applied, Tables, Names
<1> QED
  BY <1>2, <1>3, <1>4, <1>5

\* The candidates.
LEMMA ListsApplied ==
  ASSUME Typed, NEW op \in Op
  PROVE  /\ op.name \notin {"truncate", "forget", "candidates", "drop"} =>
              Applied(db, op).candidates = db.candidates
         /\ op.name = "truncate" => \A r \in Release : Applied(db, op).candidates[r] = Unlisted
         /\ op.name = "forget" => \A r \in Release :
              Applied(db, op).candidates[r] = IF r \in op.of THEN Unlisted ELSE db.candidates[r]
         /\ op.name = "candidates" => \A r \in Release :
              Applied(db, op).candidates[r] =
                IF op.of[r].files = {} THEN db.candidates[r]
                ELSE [version |-> op.of[r].version,
                      files |-> db.candidates[r].files \cup op.of[r].files]
         /\ op.name = "drop" => \A r \in Release :
              /\ Applied(db, op).candidates[r].version = db.candidates[r].version
              /\ Applied(db, op).candidates[r].files = db.candidates[r].files \ {op.of}
<1>1. db \in Tables
  BY DEF Typed
<1>2. CASE op.name = "emit"
  BY <1>1, <1>2 DEF Applied, Emitted, Tables
<1>3. CASE op.name = "clear"
  BY <1>1, <1>3 DEF Applied, Cleared, Tables
<1>4. CASE op.name = "truncate"
  BY <1>1, <1>4 DEF Applied, EmptyDb, Tables
<1>5. CASE op.name = "forget"
  BY <1>1, <1>5 DEF Applied, Tables
<1>6. CASE op.name = "candidates"
  BY <1>1, <1>6 DEF Applied, Tables
<1>7. CASE op.name = "drop"
  <2>1. Applied(db, op).candidates =
          [r \in Release |-> [db.candidates[r] EXCEPT !.files = @ \ {op.of}]]
    BY <1>1, <1>7 DEF Applied, WithoutFile, Tables
  <2>2. \A r \in Release : db.candidates[r] \in Listing
    BY DbFacts
  <2> QED
    BY <1>7, <2>1, <2>2 DEF Listing
<1>8. CASE op.name \notin {"truncate", "forget", "candidates", "drop", "emit", "clear"}
  <2>1. op.name \in Names
    BY OpFacts
  <2> QED
    BY <1>1, <1>8, <2>1 DEF Applied, Tables, Names
<1> QED
  BY <1>2, <1>3, <1>4, <1>5, <1>6, <1>7, <1>8

\* The manifest and the scores.
LEMMA ScoresApplied ==
  ASSUME Typed, NEW op \in Op
  PROVE  /\ op.name = "truncate" => /\ Applied(db, op).manifest = {}
                                    /\ \A r \in Release : Applied(db, op).scores[r] = {}
         /\ op.name # "truncate" => db.manifest \subseteq Applied(db, op).manifest
         /\ op.name = "manifest" => op.of \subseteq Applied(db, op).manifest
         /\ op.name \notin {"truncate", "scores"} =>
              \A r \in Release : Applied(db, op).scores[r] \subseteq db.scores[r]
         /\ op.name = "scores" => \A r \in Release : r # op.release =>
              Applied(db, op).scores[r] = db.scores[r]
<1>1. db \in Tables
  BY DEF Typed
<1>2. CASE op.name = "emit"
  BY <1>1, <1>2 DEF Applied, Emitted, Tables
<1>3. CASE op.name = "clear"
  BY <1>1, <1>3 DEF Applied, Cleared, Tables
<1>4. CASE op.name = "truncate"
  BY <1>1, <1>4 DEF Applied, EmptyDb, Tables
<1>5. CASE op.name = "forget"
  BY <1>1, <1>5 DEF Applied, Tables
<1>6. CASE op.name = "scores"
  BY <1>1, <1>6 DEF Applied, Tables
<1>7. CASE op.name = "drop"
  BY <1>1, <1>7 DEF Applied, WithoutFile, Tables
<1>8. CASE op.name \notin {"truncate", "forget", "scores", "drop", "emit", "clear"}
  <2>1. op.name \in Names
    BY OpFacts
  <2> QED
    BY <1>1, <1>8, <2>1 DEF Applied, Tables, Names
<1> QED
  BY <1>2, <1>3, <1>4, <1>5, <1>6, <1>7, <1>8

\* The operation that is written leaves the queue.
LEMMA ApplyIs ==
  ASSUME Typed, DbApply
  PROVE  /\ \E op \in Op : /\ op = Head(queue) /\ op \in Range(queue)
                           /\ Range(queue) = {op} \cup Range(queue')
                           /\ db' = Applied(db, op)
         /\ UNCHANGED <<given, version, tasks, todo, asked, seen>>
<1>1. queue \in Seq(Op) /\ queue # <<>>
  BY DEF Typed, DbApply
<1>2. Head(queue) \in Op /\ Range(queue) = {Head(queue)} \cup Range(Tail(queue))
  BY <1>1, Taking
<1> QED
  BY <1>2 DEF DbApply

-----------------------------------------------------------------------------
(* Phases.                                                                 *)

LEMMA CalmPhased == ASSUME Phased, Calm PROVE Phased'
<1>1. /\ Is("Resolve")' = Is("Resolve")
      /\ \A t : t.name \in Solitary => (t \in tasks' <=> t \in tasks)
      /\ Sent("emit")' = Sent("emit") /\ Sent("gaps")' = Sent("gaps")
      /\ Sent("clear")' = Sent("clear") /\ Sent("unclaim")' = Sent("unclaim")
  BY CalmKeeps
<1>2. Alone'
  <2> SUFFICES ASSUME NEW t \in tasks', t.name \in Solitary
               PROVE  /\ \A u \in tasks' : u.name \in Solitary \cup {"Resolve"} => u = t
                      /\ Sent("emit")' = {} /\ Sent("gaps")' = {}
    BY DEF Alone
  <2>1. t \in tasks
    BY <1>1
  <2>2. /\ \A u \in tasks : u.name \in Solitary \cup {"Resolve"} => u = t
        /\ Sent("emit") = {} /\ Sent("gaps") = {}
    BY <2>1 DEF Phased, Alone
  <2>3. ASSUME NEW u \in tasks', u.name \in Solitary \cup {"Resolve"} PROVE u \in tasks
    BY <2>3, <1>1 DEF Is
  <2> QED
    BY <2>2, <2>3, <1>1
<1>3. Followed'
  BY <1>1 DEF Phased, Followed, Calm
<1>4. Clearing'
  <2>1. Is("Mappings")' = Is("Mappings")
    BY <1>1 DEF Is, Solitary
  <2>2. db' = db
    BY DEF Calm
  <2> QED
    BY <1>1, <2>1, <2>2 DEF Phased, Clearing
<1>5. Noticed'
  BY <1>1 DEF Phased, Noticed, Calm, Signals
<1> QED
  BY <1>2, <1>3, <1>4, <1>5 DEF Phased

LEMMA ApplyPhased == ASSUME Typed, Phased, DbApply PROVE Phased'
<1>1. PICK op \in Op : /\ op \in Range(queue) /\ Range(queue) = {op} \cup Range(queue')
                       /\ db' = Applied(db, op)
  BY ApplyIs
<1>2. UNCHANGED <<given, version, tasks, todo, asked, seen>>
  BY ApplyIs
<1>3. Range(queue') \subseteq Range(queue)
  BY <1>1
<1>4. \A n : Sent(n)' \subseteq Sent(n)
  BY <1>3 DEF Sent
<1>5. Sent("emit")' \subseteq Sent("emit") /\ Sent("gaps")' \subseteq Sent("gaps")
      /\ Sent("clear")' \subseteq Sent("clear") /\ Sent("unclaim")' \subseteq Sent("unclaim")
  BY <1>4
<1>6. Alone'
  BY <1>2, <1>5 DEF Phased, Alone
<1>7. Followed'
  BY <1>2 DEF Phased, Followed, Is
<1>8. Clearing'
  <2>1. Is("Mappings")' = Is("Mappings")
    BY <1>2 DEF Is
  <2>2. Sent("clear")' # {} => \E t \in Is("Mappings")' : t.step = "read"
    BY <1>5, <2>1 DEF Phased, Clearing
  <2>3. ASSUME NEW t \in Is("Mappings")', t.step = "read", Sent("clear")' = {}
        PROVE  db'.packed = {} /\ db'.claims = {} /\ db'.knots = {}
    <3>1. t \in Is("Mappings")
      BY <2>1, <2>3
    <3>2. Sent("emit") = {}
      BY <3>1 DEF Phased, Alone, Is, Solitary
    <3>3. op.name # "emit"
      BY <1>1, <3>2 DEF Sent
    <3>4. CASE op.name = "clear"
      BY <1>1, <3>4, PackedApplied, ClaimsApplied
    <3>5. CASE op.name # "clear"
      <4>1. Sent("clear") = {}
        BY <1>1, <2>3, <3>5 DEF Sent
      <4>2. db.packed = {} /\ db.claims = {} /\ db.knots = {}
        BY <3>1, <2>3, <4>1 DEF Phased, Clearing
      <4>3. db'.packed = {} /\ db'.knots = {}
        BY <1>1, <3>3, <3>5, <4>2, PackedApplied
      <4>4. db'.claims = {}
        BY <1>1, <3>3, <3>5, <4>2, ClaimsApplied
      <4> QED
        BY <4>3, <4>4
    <3> QED
      BY <3>4, <3>5
  <2> QED
    BY <2>2, <2>3 DEF Clearing
<1>9. Noticed'
  BY <1>2, <1>3, <1>5 DEF Phased, Noticed
<1> QED
  BY <1>6, <1>7, <1>8, <1>9 DEF Phased

\* A phase starts when nothing runs and nothing is to be written.
LEMMA PhaseStarts ==
  ASSUME Typed, NextPhaseStarts
  PROVE  /\ \E t \in Phase : /\ t = Head(todo) /\ tasks' = {t} /\ t \in Range(todo)
                             /\ Range(todo) = {t} \cup Range(todo')
         /\ tasks = {} /\ queue = <<>> /\ Range(queue) = {} /\ queue' = queue
         /\ UNCHANGED <<given, version, db, asked, seen>>
<1>1. todo \in Seq(Phase) /\ todo # <<>> /\ queue = <<>>
  BY DEF Typed, NextPhaseStarts
<1>2. Head(todo) \in Phase /\ Range(todo) = {Head(todo)} \cup Range(Tail(todo))
  BY <1>1, Taking
<1>3. Range(queue) = {}
  BY <1>1, EmptyRange DEF Typed
<1> QED
  BY <1>2, <1>3 DEF NextPhaseStarts

LEMMA StartPhased == ASSUME Typed, Phased, NextPhaseStarts PROVE Phased'
<1>1. PICK t \in Phase : tasks' = {t}
  BY PhaseStarts
<1>2. Range(queue) = {} /\ queue' = queue
  BY PhaseStarts
<1>3. \A n : Sent(n)' = {}
  BY <1>2 DEF Sent
<1>4. Sent("emit")' = {} /\ Sent("gaps")' = {} /\ Sent("clear")' = {} /\ Sent("unclaim")' = {}
  BY <1>3
<1>5. t.name \in Solitary /\ (t.name = "Mappings" => t.step = "clear")
  BY PhaseFacts
<1>6. Alone'
  BY <1>1, <1>4 DEF Alone
<1>7. Followed'
  BY <1>1, <1>5 DEF Followed, Is, Solitary
<1>8. Clearing'
  BY <1>1, <1>4, <1>5 DEF Clearing, Is
<1>9. Noticed'
  BY <1>2, <1>4 DEF Noticed
<1> QED
  BY <1>6, <1>7, <1>8, <1>9 DEF Phased

\* What PackNothing does: it may take the claims back.
LEMMA NothingIs ==
  ASSUME Typed, NEW t \in tasks, PackNothing(t)
  PROVE  /\ t.name = "Pack" /\ tasks' = tasks \ {t}
         /\ Range(queue) \subseteq Range(queue')
         /\ \A op \in Range(queue') \ Range(queue) : op.name = "unclaim"
         /\ seen'.bailed = TRUE /\ seen'.touched = seen.touched
         /\ seen'.proposals = seen.proposals /\ seen'.overlapped = seen.overlapped
         /\ seen'.overtaken = seen.overtaken /\ seen'.edited = seen.edited
         /\ UNCHANGED <<given, version, db, todo, asked>>
<1>1. Claimed \in SUBSET Inode
  BY DbFacts DEF Claimed
<1> DEFINE op == [name |-> "unclaim", of |-> Claimed]
<1>2. op \in Op /\ op.name = "unclaim"
  BY <1>1 DEF Op
<1>3. /\ Range(queue) \subseteq Range(queue')
      /\ \A o \in Range(queue') \ Range(queue) : o.name = "unclaim"
  <2>1. CASE Claimed = {}
    <3>1. queue' = queue \o <<>>
      BY <2>1 DEF PackNothing, Send
    <3>2. queue' = queue
      BY <3>1, ConcatEmptySeq DEF Typed
    <3> QED
      BY <3>2
  <2>2. CASE Claimed # {}
    <3>1. queue' = queue \o <<op>>
      BY <2>2 DEF PackNothing, Send
    <3> HIDE DEF op
    <3>2. Range(queue') = Range(queue) \cup {op}
      BY <1>2, <3>1, OneMore
    <3> QED
      BY <1>2, <3>2
  <2> QED
    BY <2>1, <2>2
<1>4. /\ seen'.bailed = TRUE /\ seen'.touched = seen.touched
      /\ seen'.proposals = seen.proposals /\ seen'.overlapped = seen.overlapped
      /\ seen'.overtaken = seen.overtaken /\ seen'.edited = seen.edited
  BY DEF Typed, PackNothing, Seen
<1> QED
  BY <1>3, <1>4 DEF PackNothing, Finish

LEMMA NothingPhased == ASSUME Typed, Phased, NEW t \in tasks, PackNothing(t) PROVE Phased'
<1>1. /\ t.name = "Pack" /\ tasks' = tasks \ {t}
      /\ Range(queue) \subseteq Range(queue')
      /\ \A op \in Range(queue') \ Range(queue) : op.name = "unclaim"
      /\ seen'.bailed = TRUE /\ seen'.touched = seen.touched
      /\ UNCHANGED <<given, version, db, todo, asked>>
  BY NothingIs
<1>2. \A n : n # "unclaim" => Sent(n)' = Sent(n)
  BY <1>1 DEF Sent
<1>3. Sent("emit")' = Sent("emit") /\ Sent("gaps")' = Sent("gaps") /\ Sent("clear")' = Sent("clear")
  BY <1>2
<1>4. Alone'
  BY <1>1, <1>3 DEF Phased, Alone
<1>5. Followed'
  BY <1>1 DEF Phased, Followed, Is
<1>6. Clearing'
  <2>1. Is("Mappings")' = Is("Mappings")
    BY <1>1 DEF Is
  <2> QED
    BY <1>1, <1>3, <2>1 DEF Phased, Clearing
<1>7. Noticed'
  BY <1>1 DEF Phased, Noticed
<1> QED
  BY <1>4, <1>5, <1>6, <1>7 DEF Phased

\* While a phase runs, no other does, no solver, and no signal is on its way.
LEMMA NoOther ==
  ASSUME Phased, NEW t \in tasks, t.name \in Solitary
  PROVE  /\ \A u \in tasks \ {t} : u.name \notin Solitary /\ u.name # "Resolve"
         /\ Sent("emit") = {} /\ Sent("gaps") = {}
         /\ Is("Resolve") = {} /\ Resolving = {}
         /\ Picked = db.packed /\ Knots = db.knots
<1>1. /\ \A u \in tasks : u.name \in Solitary \cup {"Resolve"} => u = t
      /\ Sent("emit") = {} /\ Sent("gaps") = {}
  BY DEF Phased, Alone
<1>2. Is("Resolve") = {}
  <2>1. t.name # "Resolve"
    BY DEF Solitary
  <2> QED
    BY <1>1, <2>1 DEF Is
<1> QED
  BY <1>1, <1>2 DEF Resolving, Picked, Knots

\* When a mapping has read the scores, nothing is packed, claimed or on its way.
LEMMA Blank ==
  ASSUME Typed, Phased, NEW t \in tasks, MappingsRead(t)
  PROVE  /\ t.name \in Solitary /\ t.name = "Mappings" /\ t.step = "read"
         /\ queue = <<>> /\ Range(queue) = {} /\ \A n : Sent(n) = {}
         /\ db.packed = {} /\ db.claims = {} /\ db.knots = {}
         /\ Picked = {} /\ Knots = {} /\ Rowed = {} /\ Claimed = {}
<1>1. t.name = "Mappings" /\ t.step = "read" /\ queue = <<>> /\ t \in Is("Mappings")
  BY DEF MappingsRead, Is
<1>2. Range(queue) = {}
  BY <1>1, EmptyRange DEF Typed
<1>3. \A n : Sent(n) = {}
  BY <1>2 DEF Sent
<1>4. db.packed = {} /\ db.claims = {} /\ db.knots = {}
  <2>1. Sent("clear") = {}
    BY <1>3
  <2> QED
    BY <1>1, <2>1 DEF Phased, Clearing
<1>5. Sent("emit") = {}
  BY <1>3
<1> QED
  BY <1>1, <1>2, <1>3, <1>4, <1>5 DEF Solitary, Picked, Knots, Rowed, Claimed

\* What MappingsClear does.
LEMMA ClearIs ==
  ASSUME Typed, NEW t \in tasks, MappingsClear(t)
  PROVE  /\ t.name = "Mappings" /\ t.name \in Solitary
         /\ Range(queue') = Range(queue) \cup {[name |-> "clear"]}
         /\ \E u : /\ u.name = "Mappings" /\ u.step = "read" /\ tasks' = (tasks \ {t}) \cup {u}
         /\ UNCHANGED <<given, version, db, todo, asked, seen>>
<1>1. [name |-> "clear"] \in Op
  BY DEF Op
<1>2. Range(queue') = Range(queue) \cup {[name |-> "clear"]}
  BY <1>1, OneMore DEF MappingsClear, Send
<1>3. t \in Task /\ t.name = "Mappings"
  BY DEF Typed, MappingsClear
<1> DEFINE u == [t EXCEPT !.step = "read"]
<1>4. u.name = "Mappings" /\ u.step = "read"
  BY <1>3 DEF Task, Phase
<1>5. tasks' = (tasks \ {t}) \cup {u}
  BY DEF MappingsClear
<1> HIDE DEF u
<1> QED
  BY <1>2, <1>3, <1>4, <1>5 DEF MappingsClear, Solitary

LEMMA ClearPhased == ASSUME Typed, Phased, NEW t \in tasks, MappingsClear(t) PROVE Phased'
<1>1. /\ t.name = "Mappings" /\ t.name \in Solitary
      /\ Range(queue') = Range(queue) \cup {[name |-> "clear"]}
      /\ UNCHANGED <<given, version, db, todo, asked, seen>>
  BY ClearIs
<1>2. PICK u : /\ u.name = "Mappings" /\ u.step = "read" /\ tasks' = (tasks \ {t}) \cup {u}
  BY ClearIs
<1>3. /\ \A o \in tasks \ {t} : o.name \notin Solitary /\ o.name # "Resolve"
      /\ Sent("emit") = {} /\ Sent("gaps") = {} /\ Is("Resolve") = {}
  BY <1>1, NoOther
<1>4. Sent("emit")' = {} /\ Sent("gaps")' = {} /\ Sent("unclaim")' = Sent("unclaim")
  BY <1>1, <1>3 DEF Sent
<1>5. Sent("clear")' # {}
  <2>1. [name |-> "clear"] \in Sent("clear")'
    BY <1>1 DEF Sent
  <2> QED
    BY <2>1
<1>6. Alone'
  BY <1>2, <1>3, <1>4 DEF Alone
<1>7. Followed'
  <2>1. Is("Resolve")' = {}
    BY <1>2, <1>3 DEF Is
  <2> QED
    BY <2>1 DEF Followed
<1>8. Clearing'
  <2>1. u \in Is("Mappings")'
    BY <1>2 DEF Is
  <2> QED
    BY <1>2, <1>5, <2>1 DEF Clearing
<1>9. Noticed'
  BY <1>1, <1>4 DEF Phased, Noticed
<1> QED
  BY <1>6, <1>7, <1>8, <1>9 DEF Phased

LEMMA NonePhased == ASSUME Typed, Phased, NEW t \in tasks, MappingsNone(t) PROVE Phased'
<1>1. t.name \in Solitary /\ Range(queue) = {}
  BY Blank DEF MappingsNone
<1>2. tasks' = tasks \ {t} /\ queue' = queue
  BY DEF MappingsNone, Finish
<1>3. \A u \in tasks' : u.name \notin Solitary /\ u.name # "Resolve"
  BY <1>1, <1>2, NoOther
<1>4. Range(queue') = {} /\ Sent("clear")' = {} /\ Sent("unclaim")' = {}
  BY <1>1, <1>2 DEF Sent
<1>5. Is("Resolve")' = {} /\ Is("Mappings")' = {}
  BY <1>3 DEF Is, Solitary
<1> QED
  BY <1>3, <1>4, <1>5 DEF Phased, Alone, Followed, Clearing, Noticed

LEMMA ProposedPhased == ASSUME Typed, Phased, NEW t \in tasks, MappingsProposed(t) PROVE Phased'
<1>1. t.name \in Solitary /\ Range(queue) = {}
  BY Blank DEF MappingsProposed
<1>2. tasks' = tasks \ {t}
  BY ProposedIs
<1>3. PICK ops \in Seq(Op) :
        /\ queue' = queue \o ops
        /\ \A op \in Range(ops) : \E p \in Named(Chosen, db.manifest) : op = Emit({p}, {})
  BY ProposedIs
<1>4. Range(queue') = Range(ops)
  BY <1>1, <1>3, CalmSend
<1>5. \A op \in Range(queue') : op.name = "emit"
  BY <1>3, <1>4 DEF Emit
<1>6. \A u \in tasks' : u.name \notin Solitary /\ u.name # "Resolve"
  BY <1>1, <1>2, NoOther
<1>7. Sent("clear")' = {} /\ Sent("unclaim")' = {}
  BY <1>5 DEF Sent
<1>8. Is("Resolve")' = {} /\ Is("Mappings")' = {}
  BY <1>6 DEF Is, Solitary
<1> QED
  BY <1>5, <1>6, <1>7, <1>8 DEF Phased, Alone, Followed, Clearing, Noticed

\* What a tier sends, spawns and leaves.
LEMMA TierSends ==
  ASSUME Typed, NEW t \in tasks, MapTier(t)
  PROVE  /\ t.name = "Map" /\ t.name \in Solitary
         /\ Range(queue) \subseteq Range(queue')
         /\ \A op \in Range(queue') \ Range(queue) : op.name = "emit"
         /\ \A u \in tasks' \ (tasks \ {t}) : u.name = "Resolve"
         /\ tasks \ {t} \subseteq tasks'
         /\ tasks' # tasks \ {t} => todo' # <<>>
         /\ UNCHANGED <<given, version, db, asked>>
         /\ seen'.touched = seen.touched /\ seen'.bailed = seen.bailed
         /\ seen'.proposals = seen.proposals /\ seen'.mapped = seen.mapped
         /\ seen'.overlapped = seen.overlapped
         /\ seen'.overtaken = seen.overtaken /\ seen'.edited = seen.edited
<1>1. /\ t.name = "Map" /\ t.tier \in Tier /\ t.pool \in SUBSET Proposal /\ t.run \in Nat
      /\ UNCHANGED <<given, version, db, asked>>
  BY MapTierIs
<1>2. PICK kept \in Keepers(t.tier, Eligible(t)) : TierMapped(t, kept) \/ TierBroken(t, kept)
  BY MapTierIs
<1>3. /\ kept \subseteq t.pool
      /\ Won(t.tier, kept) \subseteq kept
      /\ \A C \in Tied(t.tier, kept) : C \subseteq kept
  BY <1>2, KeptFrom
<1>4. \E part \in SUBSET Proposal, tied \in SUBSET SUBSET Proposal : queue' = queue \o EmitOps(part, tied)
  <2>1. /\ Named(Won(t.tier, kept), db.manifest) \in SUBSET Proposal
        /\ Tied(t.tier, kept) \in SUBSET SUBSET Proposal
    BY <1>1, <1>3 DEF Named
  <2>2. CASE TierMapped(t, kept)
    BY <2>1, <2>2 DEF TierMapped
  <2>3. CASE TierBroken(t, kept)
    <3>1. PICK part \in SUBSET Named(Won(t.tier, kept), db.manifest),
               tied \in SUBSET Tied(t.tier, kept) : queue' = queue \o EmitOps(part, tied)
      BY <2>3 DEF TierBroken
    <3>2. part \in SUBSET Proposal /\ tied \in SUBSET SUBSET Proposal
      BY <2>1, <3>1
    <3> QED
      BY <3>1, <3>2
  <2> QED
    BY <1>2, <2>2, <2>3
<1>5. PICK part \in SUBSET Proposal, tied \in SUBSET SUBSET Proposal :
        queue' = queue \o EmitOps(part, tied)
  BY <1>4
<1>6. EmitOps(part, tied) \in Seq(Op) /\ \A op \in Range(EmitOps(part, tied)) : op.name = "emit"
  <2>1. EmitOps(part, tied) \in Seq(Op)
    BY <1>5, EmitSends
  <2>2. \A op \in Range(EmitOps(part, tied)) :
          op.name = "emit" /\ op.picks = part /\ op.knots = tied
    BY <1>5, EmitSends
  <2> QED
    BY <2>1, <2>2
<1>7. Range(queue') = Range(queue) \cup Range(EmitOps(part, tied))
  BY <1>5, <1>6, CalmSend
<1>8. /\ \A u \in tasks' \ (tasks \ {t}) : u.name = "Resolve"
      /\ tasks \ {t} \subseteq tasks'
      /\ tasks' # tasks \ {t} => todo' # <<>>
  <2>1. CASE TierMapped(t, kept)
    <3>1. NextPhase(t) \in Phase
      BY <1>1, NextPhaseIs
    <3>2. todo' # <<>>
      BY <2>1, <3>1, Appending DEF TierMapped, Typed
    <3> QED
      BY <2>1, <3>2 DEF TierMapped, Solver
  <2>2. CASE TierBroken(t, kept)
    BY <2>2 DEF TierBroken
  <2> QED
    BY <1>2, <2>1, <2>2
<1>9. /\ seen'.touched = seen.touched /\ seen'.bailed = seen.bailed
      /\ seen'.proposals = seen.proposals /\ seen'.mapped = seen.mapped
      /\ seen'.overlapped = seen.overlapped
      /\ seen'.overtaken = seen.overtaken /\ seen'.edited = seen.edited
  <2>1. seen \in Seen
    BY DEF Typed
  <2> QED
    BY <1>2, <2>1 DEF TierMapped, TierBroken, Seen
<1> QED
  BY <1>1, <1>6, <1>7, <1>8, <1>9 DEF Solitary

LEMMA TierPhased == ASSUME Typed, Phased, NEW t \in tasks, MapTier(t) PROVE Phased'
<1>1. /\ t.name \in Solitary
      /\ Range(queue) \subseteq Range(queue')
      /\ \A op \in Range(queue') \ Range(queue) : op.name = "emit"
      /\ \A u \in tasks' \ (tasks \ {t}) : u.name = "Resolve"
      /\ tasks \ {t} \subseteq tasks'
      /\ tasks' # tasks \ {t} => todo' # <<>>
      /\ db' = db
      /\ seen'.touched = seen.touched /\ seen'.bailed = seen.bailed
  BY TierSends
<1>2. /\ \A u \in tasks \ {t} : u.name \notin Solitary /\ u.name # "Resolve"
  BY <1>1, NoOther
<1>3. \A u \in tasks' : u.name \notin Solitary
  <2>1. "Resolve" \notin Solitary
    BY DEF Solitary
  <2> QED
    BY <1>1, <1>2, <2>1
<1>4. Sent("clear")' = Sent("clear") /\ Sent("unclaim")' = Sent("unclaim")
  BY <1>1 DEF Sent
<1>5. Alone'
  BY <1>3 DEF Alone
<1>6. Followed'
  <2>1. Is("Resolve")' # {} => tasks' # tasks \ {t}
    BY <1>2 DEF Is
  <2> QED
    BY <1>1, <2>1 DEF Followed
<1>7. Clearing'
  <2>1. Is("Mappings")' = {}
    BY <1>3 DEF Is, Solitary
  <2>2. Is("Mappings") = {}
    <3>1. t.name = "Map"
      BY TierSends
    <3> QED
      BY <1>2, <3>1 DEF Is, Solitary
  <2> QED
    BY <1>4, <2>1, <2>2 DEF Phased, Clearing
<1>8. Noticed'
  BY <1>1, <1>4 DEF Phased, Noticed
<1> QED
  BY <1>5, <1>6, <1>7, <1>8 DEF Phased

\* What Resolve does: the choice is emitted whole or not at all.
LEMMA ResolveSends ==
  ASSUME Typed, NEW t \in tasks, Resolve(t)
  PROVE  /\ t.name = "Resolve" /\ tasks' = tasks \ {t}
         /\ Range(queue) \subseteq Range(queue')
         /\ \A op \in Range(queue') \ Range(queue) : op.name = "emit"
         /\ UNCHANGED <<given, version, db, todo, asked>>
         /\ seen'.touched = seen.touched /\ seen'.bailed = seen.bailed
         /\ seen'.proposals = seen.proposals /\ seen'.mapped = seen.mapped
         /\ seen'.overlapped = seen.overlapped
         /\ seen'.overtaken = seen.overtaken /\ seen'.edited = seen.edited
         /\ \E choice \in Best(t.proposals), whole \in BOOLEAN :
              /\ Picked' = Picked \cup (IF whole THEN Named(choice, t.manifest) ELSE {})
              /\ Knots' = Knots
              /\ seen'.broken = (seen.broken \/ ~whole)
<1>1. /\ t.name = "Resolve" /\ t.proposals \in SUBSET Proposal
      /\ tasks' = tasks \ {t}
      /\ UNCHANGED <<given, version, db, todo, asked>>
  BY ResolveIs
<1>2. PICK choice \in Best(t.proposals), whole \in BOOLEAN :
        /\ queue' = queue \o (IF whole THEN EmitOps(Named(choice, t.manifest), {}) ELSE <<>>)
        /\ seen' = [seen EXCEPT !.broken = @ \/ ~whole]
  BY ResolveIs
<1> DEFINE picks == IF whole THEN Named(choice, t.manifest) ELSE {}
<1>3. picks \in SUBSET Proposal /\ {} \in SUBSET SUBSET Proposal
  BY <1>1, <1>2, BestIs DEF Named
<1>4. queue' = queue \o EmitOps(picks, {})
  BY <1>2 DEF EmitOps
<1>5. /\ EmitOps(picks, {}) \in Seq(Op)
      /\ \A op \in Range(EmitOps(picks, {})) : op.name = "emit" /\ op.picks = picks /\ op.knots = {}
      /\ UNION {op.picks : op \in Range(EmitOps(picks, {}))} = picks
  BY <1>3, EmitSends
<1> HIDE DEF picks
<1>6. Range(queue') = Range(queue) \cup Range(EmitOps(picks, {}))
  BY <1>4, <1>5, CalmSend
<1>7. Sent("emit")' = Sent("emit") \cup Range(EmitOps(picks, {}))
  BY <1>5, <1>6 DEF Sent
<1>8. Picked' = Picked \cup picks
  BY <1>1, <1>5, <1>7 DEF Picked
<1>9. Knots' = Knots
  BY <1>1, <1>5, <1>7 DEF Knots
<1>10. /\ seen'.touched = seen.touched /\ seen'.bailed = seen.bailed
       /\ seen'.proposals = seen.proposals /\ seen'.mapped = seen.mapped
       /\ seen'.overlapped = seen.overlapped
       /\ seen'.overtaken = seen.overtaken /\ seen'.edited = seen.edited
       /\ seen'.broken = (seen.broken \/ ~whole)
  BY <1>2 DEF Typed, Seen
<1> QED
  BY <1>1, <1>2, <1>5, <1>6, <1>8, <1>9, <1>10 DEF picks

LEMMA ResolvePhased == ASSUME Typed, Phased, NEW t \in tasks, Resolve(t) PROVE Phased'
<1>1. /\ t.name = "Resolve" /\ tasks' = tasks \ {t}
      /\ Range(queue) \subseteq Range(queue')
      /\ \A op \in Range(queue') \ Range(queue) : op.name = "emit"
      /\ db' = db /\ todo' = todo
      /\ seen'.touched = seen.touched /\ seen'.bailed = seen.bailed
  BY ResolveSends
<1>2. \A u \in tasks : u.name \notin Solitary
  BY <1>1 DEF Phased, Alone, Solitary
<1>3. Sent("clear")' = Sent("clear") /\ Sent("unclaim")' = Sent("unclaim")
  BY <1>1 DEF Sent
<1>4. Alone'
  BY <1>1, <1>2 DEF Alone
<1>5. Followed'
  BY <1>1 DEF Phased, Followed, Is
<1>6. Clearing'
  <2>1. Is("Mappings")' = {} /\ Is("Mappings") = {}
    BY <1>1, <1>2 DEF Is, Solitary
  <2> QED
    BY <1>3, <2>1 DEF Phased, Clearing
<1>7. Noticed'
  BY <1>1, <1>3 DEF Phased, Noticed
<1> QED
  BY <1>4, <1>5, <1>6, <1>7 DEF Phased

LEMMA GapsPhased == ASSUME Typed, Phased, NEW t \in tasks, Gaps(t) PROVE Phased'
<1>1. t.name = "Gaps" /\ t.name \in Solitary /\ tasks' = tasks \ {t}
      /\ UNCHANGED <<given, db, todo, seen>>
  BY DEF Gaps, Finish, Solitary
<1>2. queue' = queue \o <<GapsOp>>
  BY DEF Gaps, Send, GapsOp
<1>3. Range(queue') = Range(queue) \cup {GapsOp} /\ GapsOp.name = "gaps"
  BY <1>2, GapsIs, OneMore
<1>4. \A u \in tasks' : u.name \notin Solitary /\ u.name # "Resolve"
  BY <1>1, NoOther
<1>5. Sent("clear")' = Sent("clear") /\ Sent("unclaim")' = Sent("unclaim")
  BY <1>3 DEF Sent
<1>6. Is("Mappings") = {} /\ Is("Mappings")' = {} /\ Is("Resolve")' = {}
  BY <1>1, <1>4 DEF Is, Solitary
<1>7. Noticed'
  BY <1>1, <1>3, <1>5 DEF Phased, Noticed
<1> QED
  BY <1>4, <1>5, <1>6, <1>7 DEF Phased, Alone, Followed, Clearing

-----------------------------------------------------------------------------
(* Components of the conflict graph.                                       *)

ClosedIn(K, C) == \A p \in C, q \in K \ C : ~Compete(p, q)

\* A component is closed, and no part of it is.
LEMMA ComponentIs ==
  ASSUME NEW K, NEW C \in Components(K)
  PROVE  /\ C \subseteq K /\ C # {} /\ ClosedIn(K, C)
         /\ \A D \in SUBSET C : D # {} /\ D # C => ~ClosedIn(K, D)
BY DEF Components, ClosedIn

\* Rivals are rivals of each other.
LEMMA CompeteSymmetric == ASSUME NEW p, NEW q, Compete(p, q) PROVE Compete(q, p)
BY DEF Compete

\* Two components have no member in common, and members of one do not compete
\* with members of the other.
LEMMA ComponentsApart ==
  ASSUME NEW K, NEW C \in Components(K), NEW D \in Components(K), C # D
  PROVE  \A p \in C, q \in D : p # q /\ ~Compete(p, q)
<1>1. /\ C \subseteq K /\ C # {} /\ ClosedIn(K, C)
      /\ \A E \in SUBSET C : E # {} /\ E # C => ~ClosedIn(K, E)
  BY ComponentIs
<1>2. /\ D \subseteq K /\ D # {} /\ ClosedIn(K, D)
      /\ \A E \in SUBSET D : E # {} /\ E # D => ~ClosedIn(K, E)
  BY ComponentIs
<1>3. ClosedIn(K, C \cap D)
  BY <1>1, <1>2 DEF ClosedIn
<1>4. C \cap D = {}
  <2>1. C \cap D \in SUBSET C /\ C \cap D \in SUBSET D
    OBVIOUS
  <2> SUFFICES ASSUME C \cap D # {} PROVE FALSE
    OBVIOUS
  <2>2. C \cap D = C
    BY <1>1, <1>3, <2>1
  <2>3. C \cap D = D
    BY <1>2, <1>3, <2>1
  <2> QED
    BY <2>2, <2>3
<1> SUFFICES ASSUME NEW p \in C, NEW q \in D PROVE p # q /\ ~Compete(p, q)
  OBVIOUS
<1>5. q \in K \ C
  BY <1>2, <1>4
<1> QED
  BY <1>1, <1>5 DEF ClosedIn

\* Every proposal is in a component: the smallest closed set that has it.
LEMMA InComponent ==
  ASSUME NEW K, NEW k \in K
  PROVE  \E C \in Components(K) : k \in C
<1> DEFINE Holds(C) == k \in C /\ ClosedIn(K, C)
           least == {p \in K : \A C \in SUBSET K : Holds(C) => p \in C}
<1>1. K \in SUBSET K /\ Holds(K)
  BY DEF ClosedIn
<1>2. k \in least
  OBVIOUS
<1>3. ClosedIn(K, least)
  <2> SUFFICES ASSUME NEW p \in least, NEW q \in K \ least PROVE ~Compete(p, q)
    BY DEF ClosedIn
  <2>1. PICK C \in SUBSET K : Holds(C) /\ q \notin C
    OBVIOUS
  <2>2. p \in C
    BY <2>1
  <2> QED
    BY <2>1, <2>2 DEF ClosedIn
<1>4. ASSUME NEW D \in SUBSET least, D # {}, D # least PROVE ~ClosedIn(K, D)
  <2> SUFFICES ASSUME ClosedIn(K, D) PROVE FALSE
    OBVIOUS
  <2>1. least \in SUBSET K
    OBVIOUS
  <2>2. CASE k \in D
    <3>1. D \in SUBSET K /\ Holds(D)
      BY <2>1, <2>2
    <3>2. \A p \in least : p \in D
      BY <3>1
    <3> QED
      BY <1>4, <3>2
  <2>3. CASE k \notin D
    <3>1. k \in least \ D
      BY <1>2, <2>3
    <3>2. ClosedIn(K, least \ D)
      <4> SUFFICES ASSUME NEW p \in least \ D, NEW q \in K \ (least \ D) PROVE ~Compete(p, q)
        BY DEF ClosedIn
      <4>1. CASE q \in D
        <5>1. p \in K \ D
          BY <2>1
        <5>2. ~Compete(q, p)
          BY <4>1, <5>1 DEF ClosedIn
        <5> QED
          BY <5>2, CompeteSymmetric
      <4>2. CASE q \notin D
        BY <1>3, <4>2 DEF ClosedIn
      <4> QED
        BY <4>1, <4>2
    <3>3. least \ D \in SUBSET K /\ Holds(least \ D)
      BY <2>1, <3>1, <3>2
    <3>4. \A p \in least : p \in least \ D
      BY <3>3
    <3> QED
      BY <1>4, <3>4
  <2> QED
    BY <2>2, <2>3
<1>5. least \in Components(K)
  <2> HIDE DEF Holds
  <2>1. least \in SUBSET K
    OBVIOUS
  <2> HIDE DEF least
  <2> QED
    BY <1>2, <1>3, <1>4, <2>1 DEF Components, ClosedIn
<1> QED
  BY <1>2, <1>5

\* Of a tier's winners no two compete.
LEMMA WonApart ==
  ASSUME NEW tier, NEW X, NEW kept \in Keepers(tier, X)
  PROVE  \A p, q \in Won(tier, kept) : p = q \/ ~Compete(p, q)
<1> SUFFICES ASSUME NEW p \in Won(tier, kept), NEW q \in Won(tier, kept), p # q
             PROVE  ~Compete(p, q)
  OBVIOUS
<1>1. ASSUME NEW w \in Won(tier, kept)
      PROVE  \E C \in Components(kept) :
               /\ w \in C
               /\ C = {w} \/ (tier # "Perfect" /\ \A o \in C : Files(o) \subseteq Files(w))
  <2>1. CASE w \in UNION (Components(kept) \ Several(kept))
    <3>1. PICK C \in Components(kept) : w \in C /\ C \notin Several(kept)
      BY <2>1
    <3>2. \E o \in C : C = {o}
      BY <3>1 DEF Several
    <3> QED
      BY <3>1, <3>2
  <2>2. CASE w \in UNION {Discography(C) : C \in Knotted(tier, kept)}
    <3>1. PICK C \in Knotted(tier, kept) : w \in Discography(C)
      BY <2>2
    <3>2. C \in Components(kept) /\ tier # "Perfect"
      BY <3>1 DEF Knotted, Several, IsKnot
    <3>3. w \in C /\ \A o \in C : Files(o) \subseteq Files(w)
      BY <3>1 DEF Discography
    <3> QED
      BY <3>2, <3>3
  <2> QED
    BY <2>1, <2>2 DEF Won
<1>2. PICK C \in Components(kept) :
        /\ p \in C
        /\ C = {p} \/ (tier # "Perfect" /\ \A o \in C : Files(o) \subseteq Files(p))
  BY <1>1
<1>3. PICK D \in Components(kept) :
        /\ q \in D
        /\ D = {q} \/ (tier # "Perfect" /\ \A o \in D : Files(o) \subseteq Files(q))
  BY <1>1
<1>4. CASE C # D
  BY <1>2, <1>3, <1>4, ComponentsApart
<1>5. CASE C = D
  <2>1. tier # "Perfect" /\ Files(p) = Files(q)
    BY <1>2, <1>3, <1>5
  <2>2. C \subseteq kept
    BY ComponentIs
  <2>3. p \in X /\ kept \subseteq X
    BY <1>2, <2>2 DEF Keepers
  <2>4. PICK k \in kept : Files(k) = Files(p) /\ \A o \in kept : Files(o) = Files(p) => o = k
    BY <2>1, <2>3 DEF Keepers
  <2> QED
    BY <1>2, <1>3, <1>5, <2>1, <2>2, <2>4
<1> QED
  BY <1>4, <1>5

\* Nor does a solver's proposal with a winner, or with another solver's.
LEMMA SolversApart ==
  ASSUME NEW tier, NEW kept, NEW C \in Several(kept) \ Knotted(tier, kept)
  PROVE  /\ \A p \in C, q \in Won(tier, kept) : ~Compete(p, q)
         /\ \A D \in Several(kept) : C # D => \A p \in C, q \in D : ~Compete(p, q)
<1>1. C \in Components(kept) /\ Several(kept) \subseteq Components(kept)
  BY DEF Several
<1>2. ASSUME NEW p \in C, NEW q \in Won(tier, kept) PROVE ~Compete(p, q)
  <2>1. CASE q \in UNION (Components(kept) \ Several(kept))
    <3>1. PICK D \in Components(kept) : q \in D /\ D \notin Several(kept)
      BY <2>1
    <3>2. C # D
      BY <3>1
    <3> QED
      BY <1>1, <1>2, <3>1, <3>2, ComponentsApart
  <2>2. CASE q \in UNION {Discography(D) : D \in Knotted(tier, kept)}
    <3>1. PICK D \in Knotted(tier, kept) : q \in Discography(D)
      BY <2>2
    <3>2. D \in Components(kept) /\ q \in D /\ C # D
      BY <3>1 DEF Knotted, Several, Discography
    <3> QED
      BY <1>1, <1>2, <3>2, ComponentsApart
  <2> QED
    BY <1>2, <2>1, <2>2 DEF Won
<1>3. ASSUME NEW D \in Several(kept), C # D PROVE \A p \in C, q \in D : ~Compete(p, q)
  BY <1>1, <1>3, ComponentsApart
<1> QED
  BY <1>2, <1>3

-----------------------------------------------------------------------------
(* Picks: releases that are packed, or on their way, share no file.        *)

\* What a tier adds to the picks and knots, and which solvers it spawns.
LEMMA TierPicks ==
  ASSUME Typed, Phased, NEW t \in tasks, MapTier(t)
  PROVE  \E kept \in Keepers(t.tier, Eligible(t)) :
           \/ /\ TierMapped(t, kept)
              /\ Picked' = Picked \cup Named(Won(t.tier, kept), db.manifest)
              /\ Knots' = Knots \cup Tied(t.tier, kept)
              /\ Is("Resolve")' = {Solver(t, C) : C \in Several(kept) \ Knotted(t.tier, kept)}
              /\ seen' = seen
           \/ \E part \in SUBSET Won(t.tier, kept), tied \in SUBSET Tied(t.tier, kept) :
                /\ TierBroken(t, kept)
                /\ Picked' = Picked \cup part
                /\ Knots' = Knots \cup tied
                /\ Is("Resolve")' = {}
                /\ seen'.broken
<1>1. /\ t.name = "Map" /\ t.tier \in Tier /\ t.pool \in SUBSET Proposal
      /\ db' = db
  BY MapTierIs
<1>2. PICK kept \in Keepers(t.tier, Eligible(t)) : TierMapped(t, kept) \/ TierBroken(t, kept)
  BY MapTierIs
<1>3. /\ kept \subseteq t.pool
      /\ Won(t.tier, kept) \subseteq kept
      /\ \A C \in Tied(t.tier, kept) : C \subseteq kept
  BY <1>2, KeptFrom
<1>4. /\ Named(Won(t.tier, kept), db.manifest) \in SUBSET Proposal
      /\ Named(Won(t.tier, kept), db.manifest) \in SUBSET Won(t.tier, kept)
      /\ Tied(t.tier, kept) \in SUBSET SUBSET Proposal
  BY <1>1, <1>3 DEF Named
<1>5. \A u \in tasks \ {t} : u.name # "Resolve"
  BY <1>1, NoOther DEF Solitary
<1>6. ASSUME NEW part \in SUBSET Proposal, NEW tied \in SUBSET SUBSET Proposal,
             queue' = queue \o EmitOps(part, tied)
      PROVE  Picked' = Picked \cup part /\ Knots' = Knots \cup tied
  <2>1. /\ EmitOps(part, tied) \in Seq(Op)
        /\ \A op \in Range(EmitOps(part, tied)) :
             op.name = "emit" /\ op.picks = part /\ op.knots = tied
        /\ UNION {op.picks : op \in Range(EmitOps(part, tied))} = part
        /\ UNION {op.knots : op \in Range(EmitOps(part, tied))} = tied
    BY EmitSends
  <2>2. Range(queue') = Range(queue) \cup Range(EmitOps(part, tied))
    BY <1>6, <2>1, CalmSend
  <2>3. Sent("emit")' = Sent("emit") \cup Range(EmitOps(part, tied))
    BY <2>1, <2>2 DEF Sent
  <2>4. Picked' = Picked \cup part
    BY <1>1, <2>1, <2>3 DEF Picked
  <2>5. Knots' = Knots \cup tied
    BY <1>1, <2>1, <2>3 DEF Knots
  <2> QED
    BY <2>4, <2>5
<1>7. CASE TierMapped(t, kept)
  <2>1. queue' = queue \o EmitOps(Named(Won(t.tier, kept), db.manifest), Tied(t.tier, kept))
    BY <1>7 DEF TierMapped
  <2>2. /\ Picked' = Picked \cup Named(Won(t.tier, kept), db.manifest)
        /\ Knots' = Knots \cup Tied(t.tier, kept)
    BY <1>4, <1>6, <2>1
  <2>3. Is("Resolve")' = {Solver(t, C) : C \in Several(kept) \ Knotted(t.tier, kept)}
    BY <1>5, <1>7 DEF TierMapped, Is, Solver
  <2> QED
    BY <1>2, <1>7, <2>2, <2>3 DEF TierMapped
<1>8. CASE TierBroken(t, kept)
  <2>1. PICK part \in SUBSET Named(Won(t.tier, kept), db.manifest),
             tied \in SUBSET Tied(t.tier, kept) : queue' = queue \o EmitOps(part, tied)
    BY <1>8 DEF TierBroken
  <2>2. /\ part \in SUBSET Proposal /\ part \in SUBSET Won(t.tier, kept)
        /\ tied \in SUBSET SUBSET Proposal
    BY <1>4, <2>1
  <2>3. Picked' = Picked \cup part /\ Knots' = Knots \cup tied
    BY <1>6, <2>1, <2>2
  <2>4. Is("Resolve")' = {}
    BY <1>5, <1>8 DEF TierBroken, Is
  <2>5. seen'.broken
    BY <1>8 DEF TierBroken, Typed, Seen
  <2> QED
    BY <1>2, <1>8, <2>1, <2>2, <2>3, <2>4, <2>5
<1> QED
  BY <1>2, <1>7, <1>8

\* What a mapping adds.
LEMMA ProposedPicks ==
  ASSUME Typed, Phased, NEW t \in tasks, MappingsProposed(t)
  PROVE  \E whole \in BOOLEAN :
           /\ Picked' \subseteq Named(Chosen, db.manifest)
           /\ whole => Picked' = Named(Chosen, db.manifest)
           /\ Knots' = {} /\ Is("Resolve")' = {}
           /\ Mapped(~whole, FALSE)
           /\ todo' = IF whole THEN Append(todo, [name |-> "Map", run |-> t.run,
                                                 tier |-> "Perfect", pool |-> Left])
                      ELSE todo
<1>1. PICK ops \in Seq(Op), whole \in BOOLEAN :
        /\ queue' = queue \o ops
        /\ \A op \in Range(ops) : \E p \in Named(Chosen, db.manifest) : op = Emit({p}, {})
        /\ whole => \A p \in Named(Chosen, db.manifest) : Emit({p}, {}) \in Range(ops)
        /\ Mapped(~whole, FALSE)
        /\ todo' = IF whole THEN Append(todo, [name |-> "Map", run |-> t.run,
                                              tier |-> "Perfect", pool |-> Left])
                   ELSE todo
  BY ProposedIs
<1>2. /\ t.name \in Solitary /\ Range(queue) = {} /\ db.packed = {} /\ db.knots = {}
      /\ db' = db /\ tasks' = tasks \ {t}
  BY Blank, ProposedIs DEF MappingsProposed
<1>3. Range(queue') = Range(ops)
  BY <1>1, <1>2, CalmSend
<1>4. \A p : /\ Emit({p}, {}).name = "emit" /\ Emit({p}, {}).picks = {p}
             /\ Emit({p}, {}).knots = {}
  BY DEF Emit
<1>11. \A op \in Range(ops) :
         /\ op.name = "emit" /\ op.knots = {}
         /\ \E p \in Named(Chosen, db.manifest) : op.picks = {p}
  BY <1>1, <1>4
<1>5. Sent("emit")' = Range(ops)
  BY <1>3, <1>11 DEF Sent
<1>6. Picked' = UNION {op.picks : op \in Range(ops)}
  BY <1>2, <1>5 DEF Picked
<1>7. Picked' \subseteq Named(Chosen, db.manifest)
  <2> SUFFICES ASSUME NEW q \in Picked' PROVE q \in Named(Chosen, db.manifest)
    OBVIOUS
  <2>1. PICK op \in Range(ops) : q \in op.picks
    BY <1>6
  <2>2. PICK p \in Named(Chosen, db.manifest) : op.picks = {p}
    BY <1>11
  <2> QED
    BY <2>1, <2>2
<1>8. whole => Named(Chosen, db.manifest) \subseteq Picked'
  <2> SUFFICES ASSUME whole, NEW p \in Named(Chosen, db.manifest) PROVE p \in Picked'
    OBVIOUS
  <2>1. Emit({p}, {}) \in Range(ops) /\ p \in Emit({p}, {}).picks
    BY <1>1, <1>4
  <2> QED
    BY <1>6, <2>1
<1>9. Knots' = {}
  <2>1. Knots' = UNION {op.knots : op \in Range(ops)}
    BY <1>2, <1>5 DEF Knots
  <2>2. \A op \in Range(ops) : op.knots = {}
    BY <1>1, <1>4
  <2> QED
    BY <2>1, <2>2
<1>10. Is("Resolve")' = {}
  BY <1>2, NoOther DEF Is
<1> QED
  BY <1>1, <1>7, <1>8, <1>9, <1>10

\* Fewer picks and solvers, and files that are touched, keep them apart.
LEMMA LessApart ==
  ASSUME PicksApart /\ KnotsApart, given' = given, Picked' \subseteq Picked,
         Is("Resolve")' \subseteq Is("Resolve"), seen.touched \subseteq seen'.touched
  PROVE  (PicksApart /\ KnotsApart)'
<1>1. \A p, q : Compatible(p, q) => Compatible(p, q)'
  BY DEF Compatible, BothPinned
<1>2. PicksApart'
  BY <1>1 DEF PicksApart
<1>3. KnotsApart'
  BY <1>1 DEF KnotsApart
<1> QED
  BY <1>2, <1>3

LEMMA CalmApart == ASSUME Apart, Calm PROVE Apart'
<1> SUFFICES ASSUME ~seen'.bailed PROVE (Held /\ PicksApart /\ KnotsApart)'
  BY DEF Apart
<1>1. Held /\ PicksApart /\ KnotsApart
  BY DEF Apart, Calm
<1>2. /\ given' = given /\ Picked' = Picked /\ Is("Resolve")' = Is("Resolve")
      /\ seen.touched \subseteq seen'.touched /\ db' = db /\ Claimed' = Claimed
  BY CalmKeeps DEF Calm
<1>3. Held'
  BY <1>1, <1>2 DEF Held
<1>4. (PicksApart /\ KnotsApart)'
  BY <1>1, <1>2, LessApart
<1> QED
  BY <1>3, <1>4

\* Writing adds no picks and no knots.
LEMMA ApplyPicked ==
  ASSUME Typed, DbApply
  PROVE  Picked' \subseteq Picked /\ Knots' \subseteq Knots
<1>1. PICK op \in Op : /\ op \in Range(queue) /\ Range(queue) = {op} \cup Range(queue')
                       /\ db' = Applied(db, op)
  BY ApplyIs
<1>2. Sent("emit")' \subseteq Sent("emit")
  BY <1>1 DEF Sent
<1>3. ASSUME NEW p \in db'.packed PROVE p \in Picked
  <2>1. CASE op.name = "emit"
    <3>1. op \in Sent("emit")
      BY <1>1, <2>1 DEF Sent
    <3>2. p \in op.picks \/ p \in db.packed
      BY <1>1, <1>3, <2>1, PackedApplied
    <3> QED
      BY <3>1, <3>2 DEF Picked
  <2>2. CASE op.name # "emit"
    <3>1. p \in db.packed
      BY <1>1, <1>3, <2>2, PackedApplied
    <3> QED
      BY <3>1 DEF Picked
  <2> QED
    BY <2>1, <2>2
<1>4. ASSUME NEW k \in db'.knots PROVE k \in Knots
  <2>1. CASE op.name = "emit"
    <3>1. op \in Sent("emit")
      BY <1>1, <2>1 DEF Sent
    <3>2. k \in op.knots \/ k \in db.knots
      BY <1>1, <1>4, <2>1, PackedApplied
    <3> QED
      BY <3>1, <3>2 DEF Knots
  <2>2. CASE op.name # "emit"
    <3>1. k \in db.knots
      BY <1>1, <1>4, <2>2, PackedApplied
    <3> QED
      BY <3>1 DEF Knots
  <2> QED
    BY <2>1, <2>2
<1>5. Picked' \subseteq Picked
  BY <1>2, <1>3 DEF Picked
<1>6. Knots' \subseteq Knots
  BY <1>2, <1>4 DEF Knots
<1> QED
  BY <1>5, <1>6

\* A file of a proposal has a claim of it, and the other way round.
LEMMA ClaimOfFile ==
  ASSUME NEW p, NEW i
  PROVE  /\ i \in Files(p) => \E c \in Claims(p) : c[1] = i
         /\ \A c \in Claims(p) : c[1] \in Files(p) /\ c[2] = p.release
<1>1. i \in Files(p) => \E c \in Claims(p) : c[1] = i
  <2> SUFFICES ASSUME i \in Files(p) PROVE \E c \in Claims(p) : c[1] = i
    OBVIOUS
  <2>1. PICK row \in p.rows : row[1] = i
    BY DEF Files
  <2>2. <<row[1], p.release, row[2]>> \in Claims(p)
    BY DEF Claims
  <2>3. <<row[1], p.release, row[2]>>[1] = i
    BY <2>1
  <2> QED
    BY <2>2, <2>3
<1>2. \A c \in Claims(p) : c[1] \in Files(p) /\ c[2] = p.release
  BY DEF Claims, Files
<1> QED
  BY <1>1, <1>2

\* Only a touched file loses the claim that its release has on it.
LEMMA ApplyHeld ==
  ASSUME Typed, Phased, Held, DbApply, ~seen.bailed
  PROVE  Held'
<1>1. PICK op \in Op : /\ op \in Range(queue) /\ Range(queue) = {op} \cup Range(queue')
                       /\ db' = Applied(db, op)
  BY ApplyIs
<1>2. UNCHANGED <<given, version, tasks, todo, asked, seen>>
  BY ApplyIs
<1> SUFFICES ASSUME NEW p \in db'.packed, NEW i \in Files(p), i \notin seen.touched
             PROVE  i \in Claimed'
  BY <1>2 DEF Held
<1>3. op.name # "unclaim"
  BY <1>1 DEF Phased, Noticed, Sent
<1>4. op.name \notin {"truncate", "clear"}
  BY <1>1, PackedApplied
<1>5. CASE op.name = "emit"
  <2>1. p \in op.picks \/ p \in db.packed
    BY <1>1, <1>5, PackedApplied
  <2>2. db'.claims = {c \in db.claims : \A n \in NewClaims(op) : n[1] # c[1]} \cup NewClaims(op)
    BY <1>1, <1>5, ClaimsApplied
  <2>3. CASE p \in op.picks
    <3>1. PICK c \in Claims(p) : c[1] = i
      BY ClaimOfFile
    <3>2. c \in db'.claims
      BY <2>2, <2>3 DEF NewClaims
    <3> QED
      BY <3>1, <3>2 DEF Claimed
  <2>4. CASE p \in db.packed
    <3>1. PICK c \in db.claims : c[1] = i
      BY <2>4 DEF Held, Claimed
    <3>2. CASE \E n \in NewClaims(op) : n[1] = c[1]
      BY <2>2, <3>1, <3>2 DEF Claimed
    <3>3. CASE \A n \in NewClaims(op) : n[1] # c[1]
      BY <2>2, <3>1, <3>3 DEF Claimed
    <3> QED
      BY <3>2, <3>3
  <2> QED
    BY <2>1, <2>3, <2>4
<1>6. CASE op.name # "emit"
  <2>1. p \in db.packed
    BY <1>1, <1>4, <1>6, PackedApplied
  <2>2. PICK c \in db.claims : c[1] = i
    BY <2>1 DEF Held, Claimed
  <2>3. op.name \in {"edit", "drop"} => op.of # i
    BY <1>1 DEF Phased, Noticed
  <2>4. c \in db'.claims
    BY <1>1, <1>3, <1>4, <1>6, <2>2, <2>3, ClaimsApplied
  <2> QED
    BY <2>2, <2>4 DEF Claimed
<1> QED
  BY <1>5, <1>6

LEMMA ApplyApart == ASSUME Typed, Phased, Apart, DbApply PROVE Apart'
<1>1. UNCHANGED <<given, version, tasks, todo, asked, seen>>
  BY ApplyIs
<1> SUFFICES ASSUME ~seen'.bailed PROVE (Held /\ PicksApart /\ KnotsApart)'
  BY DEF Apart
<1>2. Held /\ PicksApart /\ KnotsApart /\ ~seen.bailed
  BY <1>1 DEF Apart
<1>3. Held'
  BY <1>2, ApplyHeld
<1>4. Picked' \subseteq Picked /\ Is("Resolve")' = Is("Resolve")
  BY <1>1, ApplyPicked DEF Is
<1>5. (PicksApart /\ KnotsApart)'
  BY <1>1, <1>2, <1>4, LessApart
<1> QED
  BY <1>3, <1>5

\* Steps that leave the tables and the signals alone and end solvers at most.
LEMMA QuietApart ==
  ASSUME Apart, given' = given, db' = db, Sent("emit")' = Sent("emit"),
         Is("Resolve")' \subseteq Is("Resolve"), seen' = seen
  PROVE  Apart'
<1> SUFFICES ASSUME ~seen'.bailed PROVE (Held /\ PicksApart /\ KnotsApart)'
  BY DEF Apart
<1>1. Held /\ PicksApart /\ KnotsApart
  BY DEF Apart
<1>2. Held'
  BY <1>1 DEF Held, Claimed
<1>3. Picked' = Picked
  BY DEF Picked
<1>4. (PicksApart /\ KnotsApart)'
  BY <1>1, <1>3, LessApart
<1> QED
  BY <1>2, <1>4

LEMMA StartApart == ASSUME Typed, Phased, Apart, NextPhaseStarts PROVE Apart'
<1>1. PICK t \in Phase : tasks' = {t}
  BY PhaseStarts
<1>2. queue' = queue /\ UNCHANGED <<given, db, seen>>
  BY PhaseStarts
<1>3. Is("Resolve")' = {}
  BY <1>1, PhaseFacts DEF Is, Solitary
<1>4. Sent("emit")' = Sent("emit")
  BY <1>2 DEF Sent
<1> QED
  BY <1>2, <1>3, <1>4, QuietApart

LEMMA ClearApart == ASSUME Typed, Phased, Apart, NEW t \in tasks, MappingsClear(t) PROVE Apart'
<1>1. /\ Range(queue') = Range(queue) \cup {[name |-> "clear"]}
      /\ UNCHANGED <<given, db, seen>>
  BY ClearIs
<1>2. PICK u : /\ u.name = "Mappings" /\ tasks' = (tasks \ {t}) \cup {u}
  BY ClearIs
<1>3. Sent("emit")' = Sent("emit")
  BY <1>1 DEF Sent
<1>4. Is("Resolve")' \subseteq Is("Resolve")
  BY <1>2 DEF Is
<1> QED
  BY <1>1, <1>3, <1>4, QuietApart

LEMMA GapsApart == ASSUME Typed, Apart, NEW t \in tasks, Gaps(t) PROVE Apart'
<1>1. tasks' = tasks \ {t} /\ UNCHANGED <<given, db, seen>>
  BY DEF Gaps, Finish
<1>2. queue' = queue \o <<GapsOp>>
  BY DEF Gaps, Send, GapsOp
<1>3. Range(queue') = Range(queue) \cup {GapsOp} /\ GapsOp.name = "gaps"
  BY <1>2, GapsIs, OneMore
<1>4. Sent("emit")' = Sent("emit")
  BY <1>3 DEF Sent
<1>5. Is("Resolve")' \subseteq Is("Resolve")
  BY <1>1 DEF Is
<1> QED
  BY <1>1, <1>4, <1>5, QuietApart

LEMMA ProposedApart ==
  ASSUME Typed, Phased, NEW t \in tasks, MappingsProposed(t)
  PROVE  Apart'
<1>1. PICK whole \in BOOLEAN :
        /\ Picked' \subseteq Named(Chosen, db.manifest)
        /\ Is("Resolve")' = {}
  BY ProposedPicks
<1>2. db.packed = {} /\ db' = db /\ given' = given
  BY Blank, ProposedIs DEF MappingsProposed
<1>3. Held'
  BY <1>2 DEF Held
<1>4. \A p \in Picked' : p.release \in given.pinned
  BY <1>1 DEF Named, Chosen
<1>5. PicksApart'
  BY <1>2, <1>4 DEF PicksApart, Compatible, BothPinned
<1>6. KnotsApart'
  BY <1>1 DEF KnotsApart
<1> QED
  BY <1>3, <1>5, <1>6 DEF Apart

\* Proposals without a common file are compatible, in either order.
LEMMA NotCompeting ==
  ASSUME NEW p, NEW q
  PROVE  /\ ~Compete(p, q) => Compatible(p, q)
         /\ ~Compete(q, p) => Compatible(p, q)
         /\ Compatible(p, q) => Compatible(q, p)
BY DEF Compete, Compatible, BothPinned

LEMMA TierApart == ASSUME Typed, Phased, Apart, NEW t \in tasks, MapTier(t) PROVE Apart'
<1> SUFFICES ASSUME ~seen'.bailed PROVE (Held /\ PicksApart /\ KnotsApart)'
  BY DEF Apart
<1>1. /\ t.name \in Solitary /\ given' = given /\ db' = db
      /\ seen'.touched = seen.touched /\ seen'.bailed = seen.bailed
  BY TierSends
<1>2. Held /\ PicksApart
  BY <1>1 DEF Apart
<1>3. Picked = db.packed
  BY <1>1, NoOther
<1>4. Held'
  BY <1>1, <1>2 DEF Held, Claimed
<1>5. \A p, q : Compatible(p, q)' <=> Compatible(p, q)
  BY <1>1 DEF Compatible, BothPinned
<1>6. PICK kept \in Keepers(t.tier, Eligible(t)) :
        \/ /\ Picked' = Picked \cup Named(Won(t.tier, kept), db.manifest)
           /\ Is("Resolve")' = {Solver(t, C) : C \in Several(kept) \ Knotted(t.tier, kept)}
        \/ \E part \in SUBSET Won(t.tier, kept) :
             /\ Picked' = Picked \cup part
             /\ Is("Resolve")' = {}
  BY TierPicks
<1>7. \A p \in kept, q \in Picked : Compatible(p, q)
  <2> SUFFICES ASSUME NEW p \in kept, NEW q \in Picked PROVE Compatible(p, q)
    OBVIOUS
  <2>1. Files(p) \cap Claimed = {}
    BY <1>6, KeptFrom DEF Eligible
  <2>2. Files(q) \subseteq Claimed \cup seen.touched
    BY <1>2, <1>3 DEF Held
  <2> QED
    BY <2>1, <2>2 DEF Compatible
<1>8. Won(t.tier, kept) \subseteq kept /\ \A C \in Several(kept) : C \subseteq kept
  BY <1>6, KeptFrom
<1>9. \A p, q \in Won(t.tier, kept) : Compatible(p, q)
  <2> SUFFICES ASSUME NEW p \in Won(t.tier, kept), NEW q \in Won(t.tier, kept)
               PROVE  Compatible(p, q)
    OBVIOUS
  <2>1. p = q \/ ~Compete(p, q)
    BY <1>6, WonApart
  <2>2. p = q => Compatible(p, q)
    BY DEF Compatible
  <2> QED
    BY <2>1, <2>2, NotCompeting
<1>10. \E part \in SUBSET Won(t.tier, kept) : Picked' = Picked \cup part
  BY <1>6 DEF Named
<1>11. PICK part \in SUBSET Won(t.tier, kept) : Picked' = Picked \cup part
  BY <1>10
<1>12. PicksApart'
  <2> SUFFICES ASSUME NEW p \in Picked', NEW q \in Picked' PROVE Compatible(p, q)
    BY <1>5 DEF PicksApart
  <2>1. CASE p \in Picked /\ q \in Picked
    BY <1>2, <2>1 DEF PicksApart
  <2>2. CASE p \in part /\ q \in Picked
    BY <1>7, <1>8, <1>11, <2>2
  <2>3. CASE p \in Picked /\ q \in part
    <3>1. Compatible(q, p)
      BY <1>7, <1>8, <1>11, <2>3
    <3> QED
      BY <3>1, NotCompeting
  <2>4. CASE p \in part /\ q \in part
    BY <1>9, <1>11, <2>4
  <2> QED
    BY <1>11, <2>1, <2>2, <2>3, <2>4
<1>13. KnotsApart'
  <2> SUFFICES ASSUME NEW u \in Is("Resolve")', NEW p \in u.proposals
               PROVE  /\ \A q \in Picked' : Compatible(p, q)
                      /\ \A v \in Is("Resolve")' : \A q \in v.proposals : u = v \/ Compatible(p, q)
    BY <1>5 DEF KnotsApart
  <2>1. Is("Resolve")' = {Solver(t, C) : C \in Several(kept) \ Knotted(t.tier, kept)}
    BY <1>6
  <2>2. PICK C \in Several(kept) \ Knotted(t.tier, kept) : u = Solver(t, C)
    BY <2>1
  <2>3. p \in C /\ p \in kept
    BY <1>8, <2>2 DEF Solver
  <2>4. /\ \A q \in Won(t.tier, kept) : ~Compete(p, q)
        /\ \A D \in Several(kept) : C # D => \A q \in D : ~Compete(p, q)
    BY <2>2, <2>3, SolversApart
  <2>5. \A q \in Picked' : Compatible(p, q)
    BY <1>7, <1>11, <2>3, <2>4, NotCompeting
  <2>6. ASSUME NEW v \in Is("Resolve")', NEW q \in v.proposals, u # v PROVE Compatible(p, q)
    <3>1. PICK D \in Several(kept) \ Knotted(t.tier, kept) : v = Solver(t, D)
      BY <2>1, <2>6
    <3>2. C # D /\ q \in D
      BY <2>2, <2>6, <3>1 DEF Solver
    <3> QED
      BY <2>4, <3>1, <3>2, NotCompeting
  <2> QED
    BY <2>5, <2>6
<1> QED
  BY <1>4, <1>12, <1>13

LEMMA ResolveApart == ASSUME Typed, Phased, Apart, NEW t \in tasks, Resolve(t) PROVE Apart'
<1> SUFFICES ASSUME ~seen'.bailed PROVE (Held /\ PicksApart /\ KnotsApart)'
  BY DEF Apart
<1>1. /\ t.name = "Resolve" /\ tasks' = tasks \ {t} /\ given' = given /\ db' = db
      /\ seen'.touched = seen.touched /\ seen'.bailed = seen.bailed
  BY ResolveSends
<1>2. Held /\ PicksApart /\ KnotsApart
  BY <1>1 DEF Apart
<1>3. PICK choice \in Best(t.proposals), whole \in BOOLEAN :
        Picked' = Picked \cup (IF whole THEN Named(choice, t.manifest) ELSE {})
  BY ResolveSends
<1>4. choice \in SUBSET t.proposals /\ \A p, q \in choice : p # q => ~Compete(p, q)
  BY <1>3, BestIs
<1>5. PICK part \in SUBSET choice : Picked' = Picked \cup part
  <2>1. (IF whole THEN Named(choice, t.manifest) ELSE {}) \in SUBSET choice
    BY DEF Named
  <2> QED
    BY <1>3, <2>1
<1>6. \A p, q : Compatible(p, q)' <=> Compatible(p, q)
  BY <1>1 DEF Compatible, BothPinned
<1>7. t \in Is("Resolve") /\ Is("Resolve")' = Is("Resolve") \ {t}
  BY <1>1 DEF Is
<1>8. Held'
  BY <1>1, <1>2 DEF Held, Claimed
<1>9. \A p \in part, q \in Picked : Compatible(p, q)
  BY <1>2, <1>4, <1>5, <1>7 DEF KnotsApart
<1>10. \A p, q \in part : Compatible(p, q)
  <2> SUFFICES ASSUME NEW p \in part, NEW q \in part PROVE Compatible(p, q)
    OBVIOUS
  <2>1. p = q => Compatible(p, q)
    BY DEF Compatible
  <2>2. p # q => ~Compete(p, q)
    BY <1>4, <1>5
  <2> QED
    BY <2>1, <2>2, NotCompeting
<1>11. PicksApart'
  <2> SUFFICES ASSUME NEW p \in Picked', NEW q \in Picked' PROVE Compatible(p, q)
    BY <1>6 DEF PicksApart
  <2>1. CASE p \in Picked /\ q \in Picked
    BY <1>2, <2>1 DEF PicksApart
  <2>2. CASE p \in part /\ q \in Picked
    BY <1>9, <2>2
  <2>3. CASE p \in Picked /\ q \in part
    <3>1. Compatible(q, p)
      BY <1>9, <2>3
    <3> QED
      BY <3>1, NotCompeting
  <2>4. CASE p \in part /\ q \in part
    BY <1>10, <2>4
  <2> QED
    BY <1>5, <2>1, <2>2, <2>3, <2>4
<1>12. KnotsApart'
  <2> SUFFICES ASSUME NEW u \in Is("Resolve")', NEW p \in u.proposals
               PROVE  /\ \A q \in Picked' : Compatible(p, q)
                      /\ \A v \in Is("Resolve")' : \A q \in v.proposals : u = v \/ Compatible(p, q)
    BY <1>6 DEF KnotsApart
  <2>1. u \in Is("Resolve") /\ u # t
    BY <1>7
  <2>2. \A q \in Picked : Compatible(p, q)
    BY <1>2, <2>1 DEF KnotsApart
  <2>3. \A q \in part : Compatible(p, q)
    BY <1>2, <1>4, <1>5, <1>7, <2>1 DEF KnotsApart
  <2>4. \A v \in Is("Resolve")' : \A q \in v.proposals : u = v \/ Compatible(p, q)
    BY <1>2, <1>7, <2>1 DEF KnotsApart
  <2> QED
    BY <1>5, <2>2, <2>3, <2>4
<1> QED
  BY <1>8, <1>11, <1>12

-----------------------------------------------------------------------------
(* Gaps: the last phase is to come, or what it has found is right.         *)

LEMMA CalmGapped == ASSUME Gapped, Calm PROVE Gapped'
<1> SUFFICES ASSUME seen'.mapped, ~seen'.broken, ~seen'.bailed PROVE GapsToCome' \/ GapsKnown'
  BY DEF Gapped
<1>1. GapsToCome \/ GapsKnown
  BY DEF Gapped, Calm
<1>2. /\ \A t : t.name \in Solitary => (t \in tasks' <=> t \in tasks)
      /\ Sent("emit")' = Sent("emit") /\ Sent("gaps")' = Sent("gaps") /\ Claimed' = Claimed
  BY CalmKeeps
<1>3. CASE GapsToCome
  BY <1>2, <1>3 DEF GapsToCome, Calm
<1>4. CASE GapsKnown
  <2>1. db' = db /\ seen.touched \subseteq seen'.touched
    BY DEF Calm
  <2>2. \A i : WillBeUnmatched(i)' <=> WillBeUnmatched(i)
    BY <1>2, <2>1 DEF WillBeUnmatched
  <2> QED
    BY <1>2, <1>4, <2>1, <2>2 DEF GapsKnown
<1> QED
  BY <1>1, <1>3, <1>4

LEMMA ApplyGapped == ASSUME Typed, Phased, Gapped, DbApply PROVE Gapped'
<1>1. PICK op \in Op : /\ op \in Range(queue) /\ Range(queue) = {op} \cup Range(queue')
                       /\ db' = Applied(db, op)
  BY ApplyIs
<1>2. UNCHANGED <<given, version, tasks, todo, asked, seen>>
  BY ApplyIs
<1> SUFFICES ASSUME seen.mapped, ~seen.broken, ~seen.bailed, ~GapsToCome PROVE GapsKnown'
  BY <1>2 DEF Gapped, GapsToCome
<1>3. /\ Sent("emit") = {} /\ \A o, other \in Sent("gaps") : o = other
      /\ \A i \in db.present \ seen.touched : WillBeUnmatched(i) <=> i \notin Claimed
  BY DEF Gapped, GapsKnown
<1>4. Sent("emit")' = {} /\ Sent("gaps")' \subseteq Sent("gaps")
  BY <1>1, <1>3 DEF Sent
<1>5. op.name \notin {"emit", "unclaim", "clear"}
  <2>1. op.name # "emit"
    BY <1>1, <1>3 DEF Sent
  <2>2. op.name # "unclaim"
    BY <1>1 DEF Phased, Noticed, Sent
  <2>3. Sent("clear") = {}
    BY DEF Phased, Clearing, GapsToCome, Solitary, Is
  <2>4. op.name # "clear"
    BY <1>1, <2>3 DEF Sent
  <2> QED
    BY <2>1, <2>2, <2>4
<1>6. db'.present \subseteq db.present
  BY <1>1, CorpusApplied
<1> SUFFICES ASSUME NEW i \in db'.present, i \notin seen.touched
             PROVE  WillBeUnmatched(i)' <=> i \notin Claimed'
  BY <1>2, <1>3, <1>4 DEF GapsKnown
<1>7. op.name \in {"edit", "drop"} => op.of # i
  BY <1>1 DEF Phased, Noticed
<1>8. i \in Claimed' <=> i \in Claimed
  <2>1. CASE op.name \in {"edit", "drop"}
    <3>1. db'.claims = {c \in db.claims : c[1] # op.of}
      BY <1>1, <2>1, ClaimsApplied
    <3> QED
      BY <1>7, <2>1, <3>1 DEF Claimed
  <2>2. CASE op.name \notin {"edit", "drop"}
    <3>1. db'.claims = db.claims
      BY <1>1, <1>5, <2>2, ClaimsApplied
    <3> QED
      BY <3>1 DEF Claimed
  <2> QED
    BY <2>1, <2>2
<1>9. WillBeUnmatched(i) <=> i \notin Claimed
  BY <1>3, <1>6
<1>10. WillBeUnmatched(i)' <=> WillBeUnmatched(i)
  <2>1. CASE op.name = "gaps"
    <3>1. Sent("gaps") = {op}
      BY <1>1, <1>3, <2>1 DEF Sent
    <3>2. Sent("gaps")' = {} \/ Sent("gaps")' = {op}
      BY <1>4, <3>1
    <3>3. db'.unmatched = (db.unmatched \ op.stale) \cup op.new
      BY <1>1, <2>1, CorpusApplied
    <3> QED
      BY <3>1, <3>2, <3>3 DEF WillBeUnmatched
  <2>2. CASE op.name # "gaps"
    <3>1. Sent("gaps")' = Sent("gaps")
      BY <1>1, <2>2 DEF Sent
    <3>2. i \in db'.unmatched <=> i \in db.unmatched
      BY <1>1, <1>7, <2>2, CorpusApplied
    <3> QED
      BY <3>1, <3>2 DEF WillBeUnmatched
  <2> QED
    BY <2>1, <2>2
<1> QED
  BY <1>8, <1>9, <1>10

LEMMA StartGapped == ASSUME Typed, NextPhaseStarts PROVE Gapped'
<1>1. PICK t \in Phase : tasks' = {t}
  BY PhaseStarts
<1>2. t.name \in Solitary
  BY PhaseFacts
<1> QED
  BY <1>1, <1>2 DEF Gapped, GapsToCome

LEMMA ClearGapped == ASSUME Typed, NEW t \in tasks, MappingsClear(t) PROVE Gapped'
<1>1. PICK u : /\ u.name = "Mappings" /\ tasks' = (tasks \ {t}) \cup {u}
  BY ClearIs
<1> QED
  BY <1>1 DEF Gapped, GapsToCome, Solitary

LEMMA ProposedGapped == ASSUME Typed, Phased, NEW t \in tasks, MappingsProposed(t) PROVE Gapped'
<1> DEFINE next == [name |-> "Map", run |-> t.run, tier |-> "Perfect", pool |-> Left]
<1>1. PICK whole \in BOOLEAN :
        /\ Mapped(~whole, FALSE)
        /\ todo' = IF whole THEN Append(todo, next) ELSE todo
  BY ProposedPicks
<1>2. CASE whole
  <2>1. next \in Phase
    <3>1. t \in Task
      BY DEF Typed
    <3>2. t.run \in Nat
      BY <3>1, TaskFacts
    <3>3. Left \in SUBSET Proposal
      BY ProposalsAre DEF Left
    <3> QED
      BY <3>2, <3>3 DEF Phase, Tier
  <2>2. todo' = Append(todo, next)
    BY <1>1, <1>2
  <2> HIDE DEF next
  <2>3. todo' # <<>>
    BY <2>1, <2>2, Appending DEF Typed
  <2> QED
    BY <2>3 DEF Gapped, GapsToCome
<1>3. CASE ~whole
  <2>1. (~whole) \in BOOLEAN /\ FALSE \in BOOLEAN
    OBVIOUS
  <2>2. seen'.broken = (~whole)
    BY <1>1, <2>1, MappedIs
  <2> QED
    BY <1>3, <2>2 DEF Gapped
<1> QED
  BY <1>2, <1>3

LEMMA TierGapped == ASSUME Typed, Phased, NEW t \in tasks, MapTier(t) PROVE Gapped'
<1>1. \E kept : TierMapped(t, kept) \/ (TierBroken(t, kept) /\ seen'.broken)
  BY TierPicks
<1>2. PICK kept : TierMapped(t, kept) \/ seen'.broken
  BY <1>1
<1>3. CASE TierMapped(t, kept)
  <2>1. t.tier \in Tier /\ t.pool \in SUBSET Proposal /\ t.run \in Nat
    BY MapTierIs
  <2>2. NextPhase(t) \in Phase
    BY <2>1, NextPhaseIs
  <2>3. todo' # <<>>
    BY <1>3, <2>2, Appending DEF TierMapped, Typed
  <2> QED
    BY <2>3 DEF Gapped, GapsToCome
<1>4. CASE seen'.broken
  BY <1>4 DEF Gapped
<1> QED
  BY <1>2, <1>3, <1>4

LEMMA ResolveGapped == ASSUME Typed, Phased, NEW t \in tasks, Resolve(t) PROVE Gapped'
<1>1. t.name = "Resolve" /\ todo' = todo
  BY ResolveSends
<1>2. todo # <<>>
  BY <1>1 DEF Phased, Followed, Is
<1> QED
  BY <1>1, <1>2 DEF Gapped, GapsToCome

LEMMA GapsGapped == ASSUME Typed, Phased, NEW t \in tasks, Gaps(t) PROVE Gapped'
<1>1. t.name \in Solitary /\ UNCHANGED <<db, seen>>
  BY DEF Gaps, Solitary
<1>2. queue' = queue \o <<GapsOp>>
  BY DEF Gaps, Send, GapsOp
<1>3. Range(queue') = Range(queue) \cup {GapsOp} /\ GapsOp.name = "gaps"
  BY <1>2, GapsIs, OneMore
<1>4. Sent("emit") = {} /\ Sent("gaps") = {}
  BY <1>1, NoOther
<1>5. Sent("emit")' = {} /\ Sent("gaps")' = {GapsOp}
  BY <1>3, <1>4 DEF Sent
<1>6. GapsOp.stale = db.unmatched \ Unmatched /\ GapsOp.new = Unmatched \ db.unmatched
  BY DEF GapsOp
<1>7. ASSUME NEW i \in db'.present PROVE WillBeUnmatched(i)' <=> i \notin Claimed'
  <2>1. WillBeUnmatched(i)' <=> i \in Unmatched
    BY <1>1, <1>5, <1>6 DEF WillBeUnmatched
  <2> QED
    BY <1>1, <1>7, <2>1 DEF Unmatched, Claimed
<1> QED
  BY <1>5, <1>7 DEF Gapped, GapsKnown

-----------------------------------------------------------------------------
(* What the computations send, as the tail of the queue.                   *)

Appends(names) ==
  \E ops \in Seq(Op) : queue' = queue \o ops /\ \A k \in DOMAIN ops : ops[k].name \in names

\* What each step sends, by name.
LEMMA SendsNone == ASSUME Typed, queue' = queue PROVE \A names : Appends(names)
<1>1. <<>> \in Seq(Op) /\ DOMAIN <<>> = {}
  <2>1. DOMAIN <<>> = {}
    OBVIOUS
  <2> QED
    BY <2>1
<1>2. queue' = queue \o <<>>
  BY ConcatEmptySeq DEF Typed
<1> QED
  BY <1>1, <1>2 DEF Appends

LEMMA SendsOne == ASSUME NEW op \in Op, queue' = queue \o <<op>> PROVE Appends({op.name})
<1>1. <<op>> \in Seq(Op) /\ DOMAIN <<op>> = {1} /\ <<op>>[1] = op
  BY Few
<1> QED
  BY <1>1 DEF Appends

LEMMA SendsEmit ==
  ASSUME NEW picks \in SUBSET Proposal, NEW knots \in SUBSET SUBSET Proposal,
         queue' = queue \o EmitOps(picks, knots)
  PROVE  Appends({"emit"})
<1>1. EmitOps(picks, knots) \in Seq(Op)
  BY EmitSends
<1>2. \A op \in Range(EmitOps(picks, knots)) :
        op.name = "emit" /\ op.picks = picks /\ op.knots = knots
  BY EmitSends
<1>3. \A k \in DOMAIN EmitOps(picks, knots) : EmitOps(picks, knots)[k].name = "emit"
  BY <1>2 DEF Range
<1> QED
  BY <1>1, <1>3 DEF Appends

LEMMA DropAppends == ASSUME NEW i \in Inode, Drop(i) PROVE Appends({"drop"})
<1> DEFINE op == [name |-> "drop", of |-> i]
<1>1. op \in Op /\ op.name = "drop" /\ queue' = queue \o <<op>>
  BY DEF Op, Drop, Send
<1> HIDE DEF op
<1> QED
  BY <1>1, SendsOne

LEMMA NothingAppends == ASSUME Typed, NEW t \in tasks, PackNothing(t) PROVE Appends({"unclaim"})
<1>1. Claimed \in SUBSET Inode
  BY DbFacts DEF Claimed
<1> DEFINE op == [name |-> "unclaim", of |-> Claimed]
<1>2. op \in Op /\ op.name = "unclaim"
  BY <1>1 DEF Op
<1>3. CASE Claimed = {}
  <2>1. queue' = queue
    BY <1>3, ConcatEmptySeq DEF PackNothing, Send, Typed
  <2> QED
    BY <2>1, SendsNone
<1>4. CASE Claimed # {}
  <2>1. queue' = queue \o <<op>>
    BY <1>4 DEF PackNothing, Send
  <2> HIDE DEF op
  <2> QED
    BY <1>2, <2>1, SendsOne
<1> QED
  BY <1>3, <1>4

LEMMA ScoreAppends ==
  ASSUME Typed, NEW t \in tasks, ScoreCandidates(t) PROVE Appends({"scores"})
<1>1. \E ops \in Seq(Op) :
        /\ queue' = queue \o ops
        /\ \A k \in DOMAIN ops : ops[k].name = "scores" /\ ops[k].release = t.release
  BY ScoreIs
<1> QED
  BY <1>1 DEF Appends

LEMMA ClearAppends == ASSUME NEW t \in tasks, MappingsClear(t) PROVE Appends({"clear"})
<1> DEFINE op == [name |-> "clear"]
<1>1. op \in Op /\ op.name = "clear" /\ queue' = queue \o <<op>>
  BY DEF Op, MappingsClear, Send
<1> HIDE DEF op
<1> QED
  BY <1>1, SendsOne

LEMMA ProposedAppends ==
  ASSUME Typed, NEW t \in tasks, MappingsProposed(t) PROVE Appends({"emit"})
<1>1. PICK ops \in Seq(Op) :
        /\ queue' = queue \o ops
        /\ \A op \in Range(ops) : \E p \in Named(Chosen, db.manifest) : op = Emit({p}, {})
  BY ProposedIs
<1>2. \A op \in Range(ops) : op.name = "emit"
  BY <1>1 DEF Emit
<1>3. \A k \in DOMAIN ops : ops[k].name = "emit"
  BY <1>2 DEF Range
<1> QED
  BY <1>1, <1>3 DEF Appends

LEMMA TierAppends == ASSUME Typed, NEW t \in tasks, MapTier(t) PROVE Appends({"emit"})
<1>1. /\ t.tier \in Tier /\ t.pool \in SUBSET Proposal
  BY MapTierIs
<1>2. PICK kept \in Keepers(t.tier, Eligible(t)) : TierMapped(t, kept) \/ TierBroken(t, kept)
  BY MapTierIs
<1>3. /\ kept \subseteq t.pool
      /\ Won(t.tier, kept) \subseteq kept
      /\ \A C \in Tied(t.tier, kept) : C \subseteq kept
  BY <1>2, KeptFrom
<1>4. /\ Named(Won(t.tier, kept), db.manifest) \in SUBSET Proposal
      /\ Tied(t.tier, kept) \in SUBSET SUBSET Proposal
  BY <1>1, <1>3 DEF Named
<1>5. CASE TierMapped(t, kept)
  BY <1>4, <1>5, SendsEmit DEF TierMapped
<1>6. CASE TierBroken(t, kept)
  <2>1. PICK part \in SUBSET Named(Won(t.tier, kept), db.manifest),
             tied \in SUBSET Tied(t.tier, kept) : queue' = queue \o EmitOps(part, tied)
    BY <1>6 DEF TierBroken
  <2>2. part \in SUBSET Proposal /\ tied \in SUBSET SUBSET Proposal
    BY <1>4, <2>1
  <2> QED
    BY <2>1, <2>2, SendsEmit
<1> QED
  BY <1>2, <1>5, <1>6

LEMMA ResolveAppends == ASSUME Typed, NEW t \in tasks, Resolve(t) PROVE Appends({"emit"})
<1>1. t.proposals \in SUBSET Proposal
  BY ResolveIs
<1>2. PICK choice \in Best(t.proposals), whole \in BOOLEAN :
        queue' = queue \o (IF whole THEN EmitOps(Named(choice, t.manifest), {}) ELSE <<>>)
  BY ResolveIs
<1>3. Named(choice, t.manifest) \in SUBSET Proposal /\ {} \in SUBSET SUBSET Proposal
  BY <1>1, <1>2, BestIs DEF Named
<1>4. CASE whole
  BY <1>2, <1>3, <1>4, SendsEmit
<1>5. CASE ~whole
  <2>1. queue' = queue
    BY <1>2, <1>5, ConcatEmptySeq DEF Typed
  <2> QED
    BY <2>1, SendsNone
<1> QED
  BY <1>4, <1>5

LEMMA GapsAppends == ASSUME Typed, NEW t \in tasks, Gaps(t) PROVE Appends({"gaps"})
<1>1. queue' = queue \o <<GapsOp>>
  BY DEF Gaps, Send, GapsOp
<1>2. GapsOp \in Op /\ GapsOp.name = "gaps"
  BY GapsIs
<1> QED
  BY <1>1, <1>2, SendsOne

-----------------------------------------------------------------------------
(* Marks.                                                                  *)

\* What is sent changes nothing for the operations before it.
LEMMA Behind ==
  ASSUME Typed, NEW ops \in Seq(Op), queue' = queue \o ops
  PROVE  /\ \A k, r : ForgetBefore(k, r) => ForgetBefore(k, r)'
         /\ \A k \in DOMAIN queue : k \in DOMAIN queue' /\ queue'[k] = queue[k]
         /\ \A k \in DOMAIN ops : Len(queue) + k \in DOMAIN queue' /\ queue'[Len(queue) + k] = ops[k]
         /\ \A k \in DOMAIN queue' :
              \/ k \in DOMAIN queue
              \/ \E j \in DOMAIN ops : k = Len(queue) + j /\ queue'[k] = ops[j]
<1>1. queue \in Seq(Op)
  BY DEF Typed
<1>2. /\ \A k \in DOMAIN queue : k \in DOMAIN queue' /\ queue'[k] = queue[k]
      /\ \A k \in DOMAIN ops : Len(queue) + k \in DOMAIN queue' /\ queue'[Len(queue) + k] = ops[k]
      /\ \A k \in DOMAIN queue' : k \in DOMAIN queue \/ k - Len(queue) \in DOMAIN ops
      /\ queue' \in Seq(Op)
  BY <1>1, Sending
<1>3. \A k, r : ForgetBefore(k, r) => ForgetBefore(k, r)'
  BY <1>2 DEF ForgetBefore
<1>4. ASSUME NEW k \in DOMAIN queue', k \notin DOMAIN queue
      PROVE  \E j \in DOMAIN ops : k = Len(queue) + j /\ queue'[k] = ops[j]
  <2>1. Len(queue) \in Nat /\ k \in Int
    <3>1. DOMAIN queue' = 1 .. Len(queue') /\ Len(queue') \in Nat
      BY <1>2, LenProperties
    <3>2. Len(queue) \in Nat
      BY <1>1, LenProperties
    <3> QED
      BY <3>1, <3>2, <1>4
  <2>2. k - Len(queue) \in DOMAIN ops
    BY <1>2, <1>4
  <2>3. k = Len(queue) + (k - Len(queue))
    BY <2>1
  <2> QED
    BY <1>2, <2>2, <2>3
<1> QED
  BY <1>2, <1>3, <1>4

\* A step that sends no marks, no listings and no edits, and reads neither the
\* tags nor the marks, keeps what is known of them.
LEMMA AddFresh ==
  ASSUME Typed, Fresh, NEW names, Appends(names),
         names \cap {"clean", "candidates", "edit"} = {},
         db' = db, version' = version, seen'.edited = seen.edited,
         seen.overtaken => seen'.overtaken,
         Reading' \subseteq Reading
  PROVE  Fresh'
<1> SUFFICES ASSUME ~seen'.overtaken PROVE (Marked /\ Current)'
  BY DEF Fresh
<1>1. Marked /\ Current
  BY DEF Fresh
<1>2. PICK ops \in Seq(Op) : queue' = queue \o ops /\ \A k \in DOMAIN ops : ops[k].name \in names
  BY DEF Appends
<1>3. /\ \A k, r : ForgetBefore(k, r) => ForgetBefore(k, r)'
      /\ \A k \in DOMAIN queue : k \in DOMAIN queue' /\ queue'[k] = queue[k]
      /\ \A k \in DOMAIN queue' :
           \/ k \in DOMAIN queue
           \/ \E j \in DOMAIN ops : k = Len(queue) + j /\ queue'[k] = ops[j]
  BY <1>2, Behind
<1>4. \A k \in DOMAIN queue' : queue'[k].name \in {"clean", "candidates", "edit"} => k \in DOMAIN queue
  BY <1>2, <1>3
<1>5. Range(queue') = Range(queue) \cup Range(ops)
  BY <1>2, CalmSend
<1>6. \A op \in Range(ops) : op.name \in names
  BY <1>2 DEF Range
<1>7. Sent("candidates")' = Sent("candidates") /\ Sent("edit")' = Sent("edit")
  BY <1>5, <1>6 DEF Sent
<1>8. \A i : Pending(i)' <=> Pending(i)
  BY <1>7 DEF Pending
<1>9. Marked'
  <2> SUFFICES ASSUME NEW i \in Inode, NEW r \in Release, Stale(i, r)', ~Pending(i)'
               PROVE  /\ i \in db'.dirty
                      /\ \A k \in DOMAIN queue' : queue'[k].name = "clean" => ForgetBefore(k, r)'
                      /\ \A t \in Is("Pack")' : t.step = "write" /\ t.incremental => i \in t.marked
    BY DEF Marked
  <2>1. Stale(i, r) /\ ~Pending(i)
    BY <1>8 DEF Stale, Old
  <2>2. /\ i \in db.dirty
        /\ \A k \in DOMAIN queue : queue[k].name = "clean" => ForgetBefore(k, r)
        /\ \A t \in Is("Pack") : t.step = "write" /\ t.incremental => i \in t.marked
    BY <1>1, <2>1 DEF Marked
  <2>3. \A t \in Is("Pack")' : t.step = "write" => t \in Is("Pack")
    BY DEF Reading, Is
  <2> QED
    BY <1>3, <1>4, <2>2, <2>3
<1>10. EditsLast'
  BY <1>1, <1>3, <1>4 DEF Current, EditsLast
<1>11. \A op \in Sent("candidates")', r \in Release, i \in seen'.edited :
         op.of[r].files # {} => op.of[r].version = version' \/ Pending(i)'
  BY <1>1, <1>7, <1>8 DEF Current
<1>12. /\ \A t \in Reading' : t.version = version' /\ db'.present \subseteq t.present
       /\ Reading' # {} => Sent("edit")' = {}
  BY <1>1, <1>7 DEF Current
<1> QED
  BY <1>9, <1>10, <1>11, <1>12 DEF Current

LEMMA EditFresh == ASSUME Typed, Fresh, NEW i \in Inode, Edit(i) PROVE Fresh'
<1>1. PICK op \in Op : op.name = "edit" /\ op.of = i /\ queue' = queue \o <<op>>
  BY EditIs
<1>2. <<op>> \in Seq(Op) /\ DOMAIN <<op>> = {1} /\ <<op>>[1] = op
  BY Few
<1>3. /\ UNCHANGED <<given, db, tasks, todo>>
      /\ seen'.edited = {i} /\ seen'.overtaken = (seen.overtaken \/ Reading # {})
  BY EditIs
<1> SUFFICES ASSUME ~seen'.overtaken PROVE (Marked /\ Current)'
  BY DEF Fresh
<1>4. Reading = {} /\ Reading' = {} /\ Current
  BY <1>3 DEF Reading, Fresh
<1>5. /\ \A k \in DOMAIN queue : k \in DOMAIN queue' /\ queue'[k] = queue[k]
      /\ \A k \in DOMAIN <<op>> :
           Len(queue) + k \in DOMAIN queue' /\ queue'[Len(queue) + k] = <<op>>[k]
      /\ \A k \in DOMAIN queue' :
           \/ k \in DOMAIN queue
           \/ \E j \in DOMAIN <<op>> : k = Len(queue) + j /\ queue'[k] = <<op>>[j]
  BY <1>1, <1>2, Behind
<1>6. Range(queue') = Range(queue) \cup {op}
  BY <1>1, OneMore DEF Typed
<1>7. Pending(i)'
  BY <1>1, <1>6 DEF Pending, Sent
<1>8. Marked'
  BY <1>3, <1>7 DEF Marked, Stale
<1>9. Len(queue) \in Nat /\ DOMAIN queue = 1 .. Len(queue)
  BY LenProperties DEF Typed
<1>10. ASSUME NEW j \in DOMAIN queue', NEW k \in DOMAIN queue',
              queue'[j].name = "edit", queue'[k].name \in {"clean", "candidates"}
       PROVE  k < j
  <2>1. k \in DOMAIN queue /\ queue[k] = queue'[k]
    BY <1>1, <1>2, <1>5, <1>10
  <2>2. CASE j \in DOMAIN queue
    BY <1>4, <1>5, <1>10, <2>1, <2>2 DEF Current, EditsLast
  <2>3. CASE j \notin DOMAIN queue
    <3>1. j = Len(queue) + 1
      BY <1>2, <1>5, <2>3
    <3> QED
      BY <1>9, <2>1, <3>1
  <2> QED
    BY <2>2, <2>3
<1>11. EditsLast'
  BY <1>10 DEF EditsLast
<1>12. Current'
  BY <1>3, <1>4, <1>7, <1>11 DEF Current
<1> QED
  BY <1>8, <1>12

LEMMA RescoreFresh == ASSUME Typed, Fresh, Rescore PROVE Fresh'
<1>1. UNCHANGED <<given, version, db, queue, todo, seen>>
  BY DEF Rescore
<1>2. Reading' = {}
  BY DEF Rescore, Reading
<1>3. Appends({})
  BY <1>1, SendsNone
<1> QED
  BY <1>1, <1>2, <1>3, AddFresh

\* What is read is what the last edit asks for: no edit waits.
LEMMA PackReadFresh == ASSUME Typed, Fresh, Tagged, NEW t \in tasks, PackRead(t) PROVE Fresh'
<1> DEFINE new == [name |-> "Pack", run |-> t.run, incremental |-> t.incremental, step |-> "marks",
                   version |-> db.version, present |-> db.present]
<1>1. /\ UNCHANGED <<given, version, db, queue>> /\ tasks' = (tasks \ {t}) \cup {new}
      /\ new.step = "marks" /\ new.version = db.version /\ new.present = db.present
  BY DEF PackRead
<1> HIDE DEF new
<1>2. /\ seen'.edited = seen.edited
      /\ seen'.overtaken = (seen.overtaken \/ \E op \in Range(queue) : op.name = "edit")
  BY DEF PackRead, Typed, Seen
<1> SUFFICES ASSUME ~seen'.overtaken PROVE (Marked /\ Current)'
  BY DEF Fresh
<1>3. Marked /\ Current /\ Sent("edit") = {}
  BY <1>2 DEF Fresh, Sent
<1>4. db.version = version
  BY <1>3 DEF Tagged
<1>5. Sent("edit")' = Sent("edit") /\ Sent("candidates")' = Sent("candidates")
  BY <1>1 DEF Sent
<1>6. \A i : Pending(i)' <=> Pending(i)
  BY <1>5 DEF Pending
<1>7. \A k, r : ForgetBefore(k, r)' <=> ForgetBefore(k, r)
  BY <1>1 DEF ForgetBefore
<1>8. \A u \in Is("Pack")' : u.step = "write" => u \in Is("Pack")
  BY <1>1 DEF Is
<1>9. Marked'
  BY <1>1, <1>2, <1>3, <1>6, <1>7, <1>8 DEF Marked, Stale, Old
<1>10. \A u \in Reading' : u \in Reading \/ u = new
  BY <1>1 DEF Reading
<1>11. EditsLast'
  BY <1>1, <1>3 DEF Current, EditsLast
<1>12. \A op \in Sent("candidates")', r \in Release, i \in seen'.edited :
         op.of[r].files # {} => op.of[r].version = version' \/ Pending(i)'
  BY <1>1, <1>2, <1>3, <1>5, <1>6 DEF Current
<1>13. \A u \in Reading' : u.version = version' /\ db'.present \subseteq u.present
  BY <1>1, <1>3, <1>4, <1>10 DEF Current
<1>14. Current'
  BY <1>3, <1>5, <1>11, <1>12, <1>13 DEF Current
<1> QED
  BY <1>9, <1>14

\* The marks are read after the tags: no edit has been made since.
LEMMA PackMarksFresh == ASSUME Typed, Fresh, NEW t \in tasks, PackMarks(t) PROVE Fresh'
<1> DEFINE new == Scoping(t)
<1>1. /\ t.name = "Pack" /\ t.step = "marks" /\ new.name = "Pack" /\ new.step = "write"
      /\ new.version = t.version /\ new.present = t.present /\ new.marked = db.dirty
      /\ tasks' = (tasks \ {t}) \cup {new}
      /\ UNCHANGED <<given, version, db, queue, todo, asked, seen>>
  BY MarksAre
<1> HIDE DEF new
<1> SUFFICES ASSUME ~seen'.overtaken PROVE (Marked /\ Current)'
  BY DEF Fresh
<1>2. Marked /\ Current
  BY <1>1 DEF Fresh
<1>3. t \in Reading
  BY <1>1 DEF Reading
<1>4. Sent("edit")' = Sent("edit") /\ Sent("candidates")' = Sent("candidates")
  BY <1>1 DEF Sent
<1>5. \A i : Pending(i)' <=> Pending(i)
  BY <1>4 DEF Pending
<1>6. \A k, r : ForgetBefore(k, r)' <=> ForgetBefore(k, r)
  BY <1>1 DEF ForgetBefore
<1>7. Is("Pack")' = (Is("Pack") \ {t}) \cup {new}
  BY <1>1 DEF Is
<1>8. Marked'
  <2> SUFFICES ASSUME NEW i \in Inode, NEW r \in Release, Stale(i, r)', ~Pending(i)'
               PROVE  /\ i \in db'.dirty
                      /\ \A k \in DOMAIN queue' : queue'[k].name = "clean" => ForgetBefore(k, r)'
                      /\ \A u \in Is("Pack")' : u.step = "write" /\ u.incremental => i \in u.marked
    BY DEF Marked
  <2>1. Stale(i, r) /\ ~Pending(i)
    BY <1>1, <1>5 DEF Stale, Old
  <2>2. /\ i \in db.dirty
        /\ \A k \in DOMAIN queue : queue[k].name = "clean" => ForgetBefore(k, r)
        /\ \A u \in Is("Pack") : u.step = "write" /\ u.incremental => i \in u.marked
    BY <1>2, <2>1 DEF Marked
  <2> QED
    BY <1>1, <1>6, <1>7, <2>2
<1>9. \A u \in Reading' : u \in Reading \/ u = new
  BY <1>1 DEF Reading
<1>10. EditsLast'
  BY <1>1, <1>2 DEF Current, EditsLast
<1>11. \A op \in Sent("candidates")', r \in Release, i \in seen'.edited :
         op.of[r].files # {} => op.of[r].version = version' \/ Pending(i)'
  BY <1>1, <1>2, <1>4, <1>5 DEF Current
<1>12. \A u \in Reading' : u.version = version' /\ db'.present \subseteq u.present
  BY <1>1, <1>2, <1>3, <1>9 DEF Current
<1>13. Sent("edit")' = {}
  BY <1>2, <1>3, <1>4 DEF Current
<1>14. Current'
  BY <1>10, <1>11, <1>12, <1>13 DEF Current
<1> QED
  BY <1>8, <1>14

LEMMA StartFresh == ASSUME Typed, Fresh, NextPhaseStarts PROVE Fresh'
<1>1. PICK t \in Phase : tasks' = {t}
  BY PhaseStarts
<1>2. UNCHANGED <<given, version, db, queue, seen>>
  BY PhaseStarts DEF NextPhaseStarts
<1>3. Reading' = {}
  BY <1>1, PhaseFacts DEF Reading, Solitary
<1>4. Appends({})
  BY <1>2, SendsNone
<1> QED
  BY <1>2, <1>3, <1>4, AddFresh

LEMMA RepackFresh == ASSUME Typed, Fresh, Repack PROVE Fresh'
<1>1. UNCHANGED <<given, version, db, queue, todo>>
  BY DEF Repack
<1>2. seen'.edited = seen.edited /\ seen'.overtaken = seen.overtaken
  BY DEF Repack, Typed, Seen
<1>3. Appends({})
  BY <1>1, SendsNone
<1>4. Reading' \subseteq Reading
  BY DEF Repack, Reading
<1> QED
  BY <1>1, <1>2, <1>3, <1>4, AddFresh

LEMMA DropFresh == ASSUME Typed, Fresh, NEW i \in Inode, Drop(i) PROVE Fresh'
<1>1. UNCHANGED <<given, version, db, tasks, todo>> /\ seen' = Touch(i)
  BY DEF Drop
<1>2. seen'.edited = seen.edited /\ seen'.overtaken = seen.overtaken
  BY <1>1, Touching
<1>3. Appends({"drop"})
  BY DropAppends
<1>4. Reading' = Reading
  BY <1>1 DEF Reading
<1> QED
  BY <1>1, <1>2, <1>3, <1>4, AddFresh

LEMMA NothingFresh == ASSUME Typed, Fresh, NEW t \in tasks, PackNothing(t) PROVE Fresh'
<1>1. UNCHANGED <<given, version, db>> /\ tasks' = tasks \ {t}
  BY DEF PackNothing, Finish
<1>2. seen'.edited = seen.edited /\ seen'.overtaken = seen.overtaken
  BY NothingIs
<1>3. Appends({"unclaim"})
  BY NothingAppends
<1>4. Reading' \subseteq Reading
  BY <1>1 DEF Reading
<1> QED
  BY <1>1, <1>2, <1>3, <1>4, AddFresh

LEMMA PackDoneFresh == ASSUME Typed, Fresh, NEW t \in tasks, PackDone(t) PROVE Fresh'
<1>1. UNCHANGED <<given, version, db, queue, seen>>
  BY DEF PackDone
<1>2. Appends({})
  BY <1>1, SendsNone
<1>3. Reading' \subseteq Reading
  BY DEF PackDone, Reading
<1> QED
  BY <1>1, <1>2, <1>3, AddFresh

LEMMA ScoreFresh == ASSUME Typed, Fresh, NEW t \in tasks, ScoreCandidates(t) PROVE Fresh'
<1>1. UNCHANGED <<given, version, db, seen>>
  BY DEF ScoreCandidates
<1>2. Appends({"scores"})
  BY ScoreAppends
<1>3. Reading' \subseteq Reading
  BY DEF ScoreCandidates, Finish, Reading
<1> QED
  BY <1>1, <1>2, <1>3, AddFresh

\* The computations of a mapping send signals only, and have nothing to do with
\* what PackReleases reads.
LEMMA AppendsMore ==
  ASSUME NEW names, NEW more, names \subseteq more, Appends(names) PROVE Appends(more)
BY DEF Appends

\* The computations of a mapping send nothing else, and start no repack.
LEMMA MappingSends ==
  ASSUME Typed, NEW t \in tasks,
         \/ MappingsClear(t) \/ MappingsNone(t) \/ MappingsProposed(t)
         \/ MapTier(t) \/ Resolve(t) \/ Gaps(t)
  PROVE  /\ Appends({"clear", "emit", "gaps"}) /\ Is("Pack")' = Is("Pack")
         /\ UNCHANGED <<given, version, db, asked>>
         /\ seen'.edited = seen.edited /\ seen'.overtaken = seen.overtaken
         /\ seen'.overlapped = seen.overlapped
<1>1. CASE MappingsClear(t)
  <2>1. Appends({"clear"}) /\ UNCHANGED <<given, version, db, asked, seen>>
    BY <1>1, ClearAppends DEF MappingsClear
  <2>2. Is("Pack")' = Is("Pack")
    BY <1>1, ClearIs DEF Is
  <2> QED
    BY <2>1, <2>2, AppendsMore
<1>2. CASE MappingsNone(t)
  <2>1. UNCHANGED <<given, version, db, asked, queue>>
    BY <1>2 DEF MappingsNone
  <2>2. /\ seen'.edited = seen.edited /\ seen'.overtaken = seen.overtaken
        /\ seen'.overlapped = seen.overlapped
    BY <1>2, MappedIs DEF MappingsNone
  <2>3. Is("Pack")' = Is("Pack")
    BY <1>2 DEF MappingsNone, MappingsRead, Finish, Is
  <2>4. Appends({})
    BY <2>1, SendsNone
  <2> QED
    BY <2>1, <2>2, <2>3, <2>4, AppendsMore
<1>3. CASE MappingsProposed(t)
  <2>1. UNCHANGED <<given, version, db, asked>> /\ Appends({"emit"})
    BY <1>3, ProposedIs, ProposedAppends
  <2>2. /\ seen'.edited = seen.edited /\ seen'.overtaken = seen.overtaken
        /\ seen'.overlapped = seen.overlapped
    <3>1. PICK whole \in BOOLEAN : Mapped(~whole, FALSE)
      BY <1>3, ProposedIs
    <3>2. (~whole) \in BOOLEAN /\ FALSE \in BOOLEAN
      OBVIOUS
    <3> QED
      BY <3>1, <3>2, MappedIs
  <2>3. Is("Pack")' = Is("Pack")
    BY <1>3, ProposedIs DEF Is
  <2> QED
    BY <2>1, <2>2, <2>3, AppendsMore
<1>4. CASE MapTier(t)
  <2>1. UNCHANGED <<given, version, db, asked>> /\ Appends({"emit"})
    BY <1>4, TierSends, TierAppends
  <2>2. /\ seen'.edited = seen.edited /\ seen'.overtaken = seen.overtaken
        /\ seen'.overlapped = seen.overlapped
    BY <1>4, TierSends
  <2>3. /\ \A u \in tasks' \ (tasks \ {t}) : u.name = "Resolve"
        /\ tasks \ {t} \subseteq tasks' /\ t.name = "Map"
    BY <1>4, TierSends
  <2>4. Is("Pack")' = Is("Pack")
    BY <2>3 DEF Is
  <2> QED
    BY <2>1, <2>2, <2>4, AppendsMore
<1>5. CASE Resolve(t)
  <2>1. UNCHANGED <<given, version, db, asked>> /\ Appends({"emit"})
    BY <1>5, ResolveSends, ResolveAppends
  <2>2. /\ seen'.edited = seen.edited /\ seen'.overtaken = seen.overtaken
        /\ seen'.overlapped = seen.overlapped
    BY <1>5, ResolveSends
  <2>3. Is("Pack")' = Is("Pack")
    BY <1>5, ResolveSends DEF Is
  <2> QED
    BY <2>1, <2>2, <2>3, AppendsMore
<1>6. CASE Gaps(t)
  <2>1. UNCHANGED <<given, version, db, asked, seen>> /\ Appends({"gaps"})
    BY <1>6, GapsAppends DEF Gaps
  <2>2. Is("Pack")' = Is("Pack")
    BY <1>6 DEF Gaps, Finish, Is
  <2> QED
    BY <2>1, <2>2, AppendsMore
<1> QED
  BY <1>1, <1>2, <1>3, <1>4, <1>5, <1>6

LEMMA MappingFresh ==
  ASSUME Typed, Fresh, NEW t \in tasks,
         \/ MappingsClear(t) \/ MappingsNone(t) \/ MappingsProposed(t)
         \/ MapTier(t) \/ Resolve(t) \/ Gaps(t)
  PROVE  Fresh'
<1>1. /\ Appends({"clear", "emit", "gaps"}) /\ Is("Pack")' = Is("Pack")
      /\ UNCHANGED <<given, version, db>>
      /\ seen'.edited = seen.edited /\ seen'.overtaken = seen.overtaken
  BY MappingSends
<1>2. Reading' = Reading
  BY <1>1 DEF Is, Reading
<1> QED
  BY <1>1, <1>2, AddFresh

\* When the first operation is written, the others move up.
LEMMA Shift ==
  ASSUME Typed, DbApply
  PROVE  /\ 1 \in DOMAIN queue /\ queue[1] = Head(queue)
         /\ \A k \in DOMAIN queue' : k + 1 \in DOMAIN queue /\ queue[k + 1] = queue'[k]
         /\ \A k \in DOMAIN queue : k = 1 \/ (k - 1 \in DOMAIN queue' /\ queue'[k - 1] = queue[k])
         /\ DOMAIN queue \subseteq Nat /\ DOMAIN queue' \subseteq Nat
<1>1. queue \in Seq(Op) /\ queue # <<>> /\ queue' = Tail(queue)
  BY DEF Typed, DbApply
<1>2. /\ Tail(queue) \in Seq(Op) /\ 1 \in DOMAIN queue /\ queue[1] = Head(queue)
      /\ \A k \in DOMAIN Tail(queue) : k + 1 \in DOMAIN queue /\ queue[k + 1] = Tail(queue)[k]
      /\ \A k \in DOMAIN queue : k = 1 \/ k - 1 \in DOMAIN Tail(queue)
  BY <1>1, Taking
<1>3. DOMAIN queue \subseteq Nat /\ DOMAIN queue' \subseteq Nat
  BY <1>1, <1>2, LenProperties
<1>4. ASSUME NEW k \in DOMAIN queue, k # 1
      PROVE  k - 1 \in DOMAIN queue' /\ queue'[k - 1] = queue[k]
  <2>1. k - 1 \in DOMAIN queue' /\ queue[(k - 1) + 1] = queue'[k - 1]
    BY <1>1, <1>2, <1>4
  <2>2. (k - 1) + 1 = k
    BY <1>3
  <2> QED
    BY <2>1, <2>2
<1> QED
  BY <1>1, <1>2, <1>3, <1>4

\* An edit that waits still does, unless it is the one that is written.
LEMMA StillPending ==
  ASSUME Typed, DbApply, NEW i, Pending(i), Head(queue).name # "edit" \/ Head(queue).of # i
  PROVE  Pending(i)'
<1>1. Range(queue) = {Head(queue)} \cup Range(queue')
  BY ApplyIs
<1>2. PICK op \in Range(queue) : op.name = "edit" /\ op.of = i
  BY DEF Pending, Sent
<1>3. op \in Range(queue')
  BY <1>1, <1>2
<1> QED
  BY <1>2, <1>3 DEF Pending, Sent

\* What is stale when an operation is written, and waits for no edit, was so before.
LEMMA StaleBefore ==
  ASSUME Typed, Current, DbApply, NEW i \in Inode, NEW r \in Release, Stale(i, r)', ~Pending(i)'
  PROVE  Stale(i, r) /\ ~Forgets(Head(queue), r)
<1>1. PICK op \in Op : /\ op = Head(queue) /\ op \in Range(queue) /\ db' = Applied(db, op)
  BY ApplyIs
<1>2. UNCHANGED <<given, version, tasks, todo, asked, seen>>
  BY ApplyIs
<1>3. /\ i \in seen.edited /\ i \in db'.present /\ i \in db'.candidates[r].files
      /\ db'.candidates[r].version # version
  BY <1>2 DEF Stale, Old
<1>4. i \in db.present
  <2>1. CASE op.name = "drop"
    BY <1>1, <1>3, <2>1, CorpusApplied
  <2>2. CASE op.name # "drop"
    BY <1>1, <1>3, <2>2, CorpusApplied
  <2> QED
    BY <2>1, <2>2
<1>5. ~Forgets(op, r)
  <2>1. op.name = "truncate" => db'.candidates[r] = Unlisted
    BY <1>1, ListsApplied
  <2>2. op.name = "forget" => (r \in op.of => db'.candidates[r] = Unlisted)
    BY <1>1, ListsApplied
  <2>3. Unlisted.files = {}
    BY DEF Unlisted
  <2> QED
    BY <1>3, <2>1, <2>2, <2>3 DEF Forgets
<1>6. i \in db.candidates[r].files /\ db.candidates[r].version # version
  <2>1. CASE op.name = "candidates"
    <3>1. db'.candidates[r] = IF op.of[r].files = {} THEN db.candidates[r]
                              ELSE [version |-> op.of[r].version,
                                    files |-> db.candidates[r].files \cup op.of[r].files]
      BY <1>1, <2>1, ListsApplied
    <3>2. op \in Sent("candidates")
      BY <1>1, <2>1 DEF Sent
    <3>3. ~Pending(i)
      <4>1. Pending(i) => Pending(i)'
        BY <1>1, <2>1, StillPending
      <4> QED
        BY <4>1
    <3>4. op.of[r].files # {} => op.of[r].version = version
      BY <1>3, <3>2, <3>3 DEF Current
    <3> QED
      BY <1>3, <3>1, <3>4
  <2>2. CASE op.name = "drop"
    BY <1>1, <1>3, <2>2, ListsApplied
  <2>3. CASE op.name = "forget"
    BY <1>1, <1>3, <1>5, <2>3, ListsApplied DEF Forgets
  <2>4. CASE op.name \notin {"candidates", "drop", "forget", "truncate"}
    BY <1>1, <1>3, <2>4, ListsApplied
  <2>5. op.name # "truncate"
    BY <1>5 DEF Forgets
  <2> QED
    BY <2>1, <2>2, <2>3, <2>4, <2>5
<1> QED
  BY <1>1, <1>3, <1>4, <1>5, <1>6 DEF Stale, Old

\* When an edit is written, nothing that was sent before it remains.
LEMMA EditApplied ==
  ASSUME Typed, Current, DbApply, Head(queue).name = "edit"
  PROVE  /\ \A k \in DOMAIN queue' : queue'[k].name \notin {"clean", "candidates"}
         /\ Sent("candidates")' = {} /\ Reading = {}
<1>1. /\ 1 \in DOMAIN queue /\ queue[1] = Head(queue)
      /\ \A k \in DOMAIN queue' : k + 1 \in DOMAIN queue /\ queue[k + 1] = queue'[k]
      /\ DOMAIN queue \subseteq Nat /\ DOMAIN queue' \subseteq Nat
  BY Shift
<1>2. DOMAIN queue = 1 .. Len(queue) /\ Len(queue) \in Nat
  BY LenProperties DEF Typed
<1>3. ASSUME NEW k \in DOMAIN queue', queue'[k].name \in {"clean", "candidates"} PROVE FALSE
  <2>1. k + 1 \in DOMAIN queue /\ queue[k + 1].name \in {"clean", "candidates"} /\ k \in Nat
    BY <1>1, <1>3
  <2>2. k + 1 < 1
    BY <1>1, <2>1 DEF Current, EditsLast
  <2> QED
    BY <2>1, <2>2
<1>4. Sent("candidates")' = {}
  BY <1>3 DEF Sent, Range
<1>5. Head(queue) \in Sent("edit")
  BY ApplyIs DEF Sent
<1> QED
  BY <1>3, <1>4, <1>5 DEF Current

LEMMA ApplyFresh == ASSUME Typed, Fresh, DbApply PROVE Fresh'
<1>1. PICK op \in Op : /\ op = Head(queue) /\ op \in Range(queue)
                       /\ Range(queue) = {op} \cup Range(queue')
                       /\ db' = Applied(db, op)
  BY ApplyIs
<1>2. UNCHANGED <<given, version, tasks, todo, asked, seen>>
  BY ApplyIs
<1> SUFFICES ASSUME ~seen'.overtaken PROVE (Marked /\ Current)'
  BY DEF Fresh
<1>3. Marked /\ Current
  BY <1>2 DEF Fresh
<1>4. Is("Pack")' = Is("Pack") /\ Reading' = Reading
  BY <1>2 DEF Is, Reading
<1>5. /\ 1 \in DOMAIN queue /\ queue[1] = op
      /\ \A k \in DOMAIN queue' : k + 1 \in DOMAIN queue /\ queue[k + 1] = queue'[k]
      /\ \A k \in DOMAIN queue : k = 1 \/ (k - 1 \in DOMAIN queue' /\ queue'[k - 1] = queue[k])
      /\ DOMAIN queue \subseteq Nat /\ DOMAIN queue' \subseteq Nat
  BY <1>1, Shift
<1>6. /\ Sent("candidates")' \subseteq Sent("candidates") /\ Sent("edit")' \subseteq Sent("edit")
  BY <1>1 DEF Sent
<1>7. /\ db'.present \subseteq db.present
  <2>1. CASE op.name = "drop"
    BY <1>1, <2>1, CorpusApplied
  <2>2. CASE op.name # "drop"
    BY <1>1, <2>2, CorpusApplied
  <2> QED
    BY <2>1, <2>2
<1>8. Current'
  <2>1. \A u \in Reading' : u.version = version' /\ db'.present \subseteq u.present
    BY <1>2, <1>3, <1>4, <1>7 DEF Current
  <2>2. Reading' # {} => Sent("edit")' = {}
    BY <1>3, <1>4, <1>6 DEF Current
  <2>3. ASSUME NEW j \in DOMAIN queue', NEW k \in DOMAIN queue',
               queue'[j].name = "edit", queue'[k].name \in {"clean", "candidates"}
        PROVE  k < j
    <3>1. /\ j + 1 \in DOMAIN queue /\ queue[j + 1].name = "edit" /\ j \in Nat
          /\ k + 1 \in DOMAIN queue /\ queue[k + 1].name \in {"clean", "candidates"} /\ k \in Nat
      BY <1>5, <2>3
    <3>2. k + 1 < j + 1
      BY <1>3, <3>1 DEF Current, EditsLast
    <3> QED
      BY <3>1, <3>2
  <2>4. ASSUME NEW other \in Sent("candidates")', NEW r \in Release, NEW i \in seen'.edited,
               other.of[r].files # {}, other.of[r].version # version'
        PROVE  Pending(i)'
    <3>1. op.name # "edit"
      <4>1. op.name = "edit" => Sent("candidates")' = {}
        BY <1>1, <1>3, EditApplied
      <4> QED
        BY <2>4, <4>1
    <3>2. Pending(i)
      BY <1>2, <1>3, <1>6, <2>4 DEF Current
    <3> QED
      BY <1>1, <3>1, <3>2, StillPending
  <2>5. EditsLast'
    BY <2>3 DEF EditsLast
  <2>6. \A other \in Sent("candidates")', r \in Release, i \in seen'.edited :
          other.of[r].files # {} => other.of[r].version = version' \/ Pending(i)'
    BY <2>4
  <2> QED
    BY <2>1, <2>2, <2>5, <2>6 DEF Current
<1>9. Marked'
  <2> SUFFICES ASSUME NEW i \in Inode, NEW r \in Release, Stale(i, r)', ~Pending(i)'
               PROVE  /\ i \in db'.dirty
                      /\ \A k \in DOMAIN queue' : queue'[k].name = "clean" => ForgetBefore(k, r)'
                      /\ \A t \in Is("Pack")' : t.step = "write" /\ t.incremental => i \in t.marked
    BY DEF Marked
  <2>1. Stale(i, r) /\ ~Forgets(op, r) /\ i \in db'.present
    <3>1. Stale(i, r) /\ ~Forgets(Head(queue), r)
      BY <1>3, StaleBefore
    <3>2. i \in db'.present
      BY DEF Stale
    <3> QED
      BY <1>1, <3>1, <3>2
  <2>2. CASE op.name = "edit" /\ op.of = i
    <3>1. i \in db'.dirty
      BY <1>1, <2>2, CorpusApplied
    <3>2. /\ \A k \in DOMAIN queue' : queue'[k].name \notin {"clean", "candidates"}
          /\ Reading = {}
      BY <1>1, <1>3, <2>2, EditApplied
    <3>3. \A t \in Is("Pack")' : t.step # "write"
      BY <1>4, <3>2 DEF Is, Reading
    <3> QED
      BY <3>1, <3>2, <3>3
  <2>3. CASE ~(op.name = "edit" /\ op.of = i)
    <3>1. ~Pending(i)
      <4>1. Head(queue).name # "edit" \/ Head(queue).of # i
        BY <1>1, <2>3
      <4>2. Pending(i) => Pending(i)'
        BY <4>1, StillPending
      <4> QED
        BY <4>2
    <3>2. /\ i \in db.dirty
          /\ \A k \in DOMAIN queue : queue[k].name = "clean" => ForgetBefore(k, r)
          /\ \A t \in Is("Pack") : t.step = "write" /\ t.incremental => i \in t.marked
      BY <1>3, <2>1, <3>1 DEF Marked
    <3>3. op.name # "clean"
      <4>1. \A j \in DOMAIN queue : ~(j < 1)
        <5>1. DOMAIN queue = 1 .. Len(queue) /\ Len(queue) \in Nat
          BY LenProperties DEF Typed
        <5> QED
          BY <5>1
      <4>2. ~ForgetBefore(1, r)
        BY <4>1 DEF ForgetBefore
      <4> QED
        BY <1>5, <3>2, <4>2
    <3>4. i \in db'.dirty
      <4>1. CASE op.name = "drop"
        <5>1. op.of # i
          BY <1>1, <2>1, <4>1, CorpusApplied
        <5> QED
          BY <1>1, <3>2, <4>1, <5>1, CorpusApplied
      <4>2. CASE op.name = "edit"
        BY <1>1, <3>2, <4>2, CorpusApplied
      <4>3. CASE op.name \notin {"clean", "edit", "drop"}
        BY <1>1, <3>2, <4>3, CorpusApplied
      <4> QED
        BY <3>3, <4>1, <4>2, <4>3
    <3>5. ASSUME NEW k \in DOMAIN queue', queue'[k].name = "clean" PROVE ForgetBefore(k, r)'
      <4>1. k \in Nat /\ k + 1 \in DOMAIN queue /\ queue[k + 1].name = "clean"
        BY <1>5, <3>5
      <4>2. PICK j \in DOMAIN queue : j < k + 1 /\ Forgets(queue[j], r)
        BY <3>2, <4>1 DEF ForgetBefore
      <4>3. j # 1
        BY <1>5, <2>1, <4>2
      <4>4. j - 1 \in DOMAIN queue' /\ Forgets(queue'[j - 1], r)
        BY <1>5, <4>2, <4>3
      <4>5. j - 1 < k
        BY <1>5, <4>1, <4>2
      <4> QED
        BY <4>4, <4>5 DEF ForgetBefore
    <3> QED
      BY <1>4, <3>2, <3>4, <3>5
  <2> QED
    BY <2>2, <2>3
<1> QED
  BY <1>8, <1>9

\* Whatever is stale is in the scope of a run that has read the marks.
LEMMA StaleInScope ==
  ASSUME Typed, Marked, Current, ListedRight, NEW t \in tasks, PackWrite(t),
         NEW i \in Inode, NEW r \in Release, Stale(i, r)
  PROVE  r \in Scope(t)
<1>1. t \in Is("Pack") /\ t.step = "write" /\ t \in Reading
  BY DEF PackWrite, Is, Reading
<1>2. Sent("edit") = {} /\ db.present \subseteq t.present
  BY <1>1 DEF Current
<1>3. ~Pending(i)
  BY <1>2 DEF Pending
<1>4. i \in t.present /\ (t.incremental => i \in t.marked)
  BY <1>1, <1>2, <1>3 DEF Marked, Stale
<1>5. i \in given.heard[r] \cup given.housed[r]
  BY DEF ListedRight, Stale
<1>6. given.housed[r] # {} => r \in given.pinned
  BY CatalogueFacts
<1> QED
  BY <1>4, <1>5, <1>6 DEF Scope, Heard

LEMMA PackWriteFresh == ASSUME Typed, Fresh, ListedRight, NEW t \in tasks, PackWrite(t) PROVE Fresh'
<1>1. /\ t.name = "Pack" /\ t.step = "write" /\ t \in Task
      /\ Scope(t) \in SUBSET Release /\ Listings(t) \in [Release -> Listing]
      /\ queue' = queue \o PackOps(t)
      /\ UNCHANGED <<given, version, db, todo, asked, seen>>
      /\ Scope(t) = {} => tasks' = tasks \ {t}
      /\ Scope(t) # {} =>
           tasks' = (tasks \ {t}) \cup
             {[name |-> "Pack", run |-> t.run, incremental |-> t.incremental, step |-> "drain",
               listed |-> {r \in Scope(t) : Listings(t)[r].files # {}}]}
  BY PackWriteIs
<1>2. t.incremental \in BOOLEAN
  BY <1>1, TaskFacts
<1> DEFINE ops == PackOps(t)
<1>3. /\ ops \in Seq(Op)
      /\ \A k \in DOMAIN ops :
           LET op == ops[k]
           IN  /\ op.name \in {"truncate", "forget", "clean", "manifest", "candidates"}
               /\ Scope(t) = {} => op.name = "clean"
               /\ op.name = "clean" => t.marked # {}
               /\ op.name = "clean" /\ Scope(t) # {} => 1 < k /\ ops[1] = Forgetting(t)
               /\ op.name = "candidates" => op.of = Listings(t)
               /\ op.name = "truncate" => ~t.incremental /\ Scope(t) # {} /\ k = 1
  BY <1>1, <1>2, PackOpsFacts
<1>4. /\ \A k, r : ForgetBefore(k, r) => ForgetBefore(k, r)'
      /\ \A k \in DOMAIN queue : k \in DOMAIN queue' /\ queue'[k] = queue[k]
      /\ \A k \in DOMAIN ops : Len(queue) + k \in DOMAIN queue' /\ queue'[Len(queue) + k] = ops[k]
      /\ \A k \in DOMAIN queue' :
           \/ k \in DOMAIN queue
           \/ \E j \in DOMAIN ops : k = Len(queue) + j /\ queue'[k] = ops[j]
  BY <1>1, <1>3, Behind
<1>5. Range(queue') = Range(queue) \cup Range(ops)
  BY <1>1, <1>3, CalmSend DEF ops
<1> HIDE DEF ops
<1> SUFFICES ASSUME ~seen'.overtaken PROVE (Marked /\ Current)'
  BY DEF Fresh
<1>6. Marked /\ Current
  BY <1>1 DEF Fresh
<1>7. t \in Reading /\ Reading' \subseteq Reading
  <2> DEFINE new == [name |-> "Pack", run |-> t.run, incremental |-> t.incremental, step |-> "drain",
                     listed |-> {r \in Scope(t) : Listings(t)[r].files # {}}]
  <2>1. /\ Scope(t) = {} => tasks' = tasks \ {t}
        /\ Scope(t) # {} => tasks' = (tasks \ {t}) \cup {new}
        /\ new.name = "Pack" /\ new.step = "drain"
    BY <1>1
  <2> HIDE DEF new
  <2> QED
    BY <1>1, <2>1 DEF Reading
<1>8. Sent("edit") = {} /\ Sent("edit")' = {} /\ t.version = version
  <2>1. Sent("edit") = {} /\ t.version = version
    BY <1>6, <1>7 DEF Current
  <2>2. Sent("edit")' = Sent("edit")
    BY <1>3, <1>5 DEF Sent, Range
  <2> QED
    BY <2>1, <2>2
<1>9. ASSUME NEW op \in Sent("candidates")', op \notin Sent("candidates") PROVE op.of = Listings(t)
  <2>1. op \in Range(ops) /\ op.name = "candidates"
    BY <1>5, <1>9 DEF Sent
  <2>2. PICK k \in DOMAIN ops : op = ops[k]
    BY <2>1 DEF Range
  <2> QED
    BY <1>3, <2>1, <2>2
<1>10. \A r \in Release : Listings(t)[r].files # {} => Listings(t)[r].version = version
  BY <1>8 DEF Listings, Listed, Unlisted
<1>11. \A i : ~Pending(i) /\ ~Pending(i)'
  BY <1>8 DEF Pending
<1>12. EditsLast'
  <2>1. \A j \in DOMAIN queue' : queue'[j].name # "edit"
    BY <1>8 DEF Sent, Range
  <2> QED
    BY <2>1 DEF EditsLast
<1>13. \A op \in Sent("candidates")', r \in Release, i \in seen'.edited :
         op.of[r].files # {} => op.of[r].version = version'
  BY <1>1, <1>6, <1>9, <1>10, <1>11 DEF Current
<1>14. \A u \in Reading' : u.version = version' /\ db'.present \subseteq u.present
  BY <1>1, <1>6, <1>7 DEF Current
<1>15. Current'
  BY <1>8, <1>12, <1>13, <1>14 DEF Current
<1>16. Len(queue) \in Nat /\ DOMAIN ops \subseteq Nat /\ DOMAIN ops = 1 .. Len(ops)
  BY <1>3, LenProperties DEF Typed
<1>17. Marked'
  <2> SUFFICES ASSUME NEW i \in Inode, NEW r \in Release, Stale(i, r)'
               PROVE  /\ i \in db'.dirty
                      /\ \A k \in DOMAIN queue' : queue'[k].name = "clean" => ForgetBefore(k, r)'
                      /\ \A u \in Is("Pack")' : u.step = "write" /\ u.incremental => i \in u.marked
    BY DEF Marked
  <2>1. Stale(i, r)
    BY <1>1 DEF Stale, Old
  <2>2. /\ i \in db.dirty
        /\ \A k \in DOMAIN queue : queue[k].name = "clean" => ForgetBefore(k, r)
        /\ \A u \in Is("Pack") : u.step = "write" /\ u.incremental => i \in u.marked
    BY <1>6, <1>11, <2>1 DEF Marked
  <2>3. r \in Scope(t)
    BY <1>6, <2>1, StaleInScope
  <2>4. Forgets(Forgetting(t), r)
    BY <2>3 DEF Forgets, Forgetting
  <2>5. ASSUME NEW k \in DOMAIN queue', queue'[k].name = "clean" PROVE ForgetBefore(k, r)'
    <3>1. CASE k \in DOMAIN queue
      BY <1>4, <2>2, <2>5, <3>1
    <3>2. CASE k \notin DOMAIN queue
      <4>1. PICK j \in DOMAIN ops : k = Len(queue) + j /\ queue'[k] = ops[j]
        BY <1>4, <3>2
      <4>2. 1 < j /\ ops[1] = Forgetting(t)
        BY <1>3, <2>3, <2>5, <4>1
      <4>3. 1 \in DOMAIN ops
        BY <1>16, <4>2
      <4>4. Len(queue) + 1 \in DOMAIN queue' /\ queue'[Len(queue) + 1] = Forgetting(t)
        BY <1>4, <4>2, <4>3
      <4>5. Len(queue) + 1 < k
        BY <1>16, <4>1, <4>2
      <4> QED
        BY <2>4, <4>4, <4>5 DEF ForgetBefore
    <3> QED
      BY <3>1, <3>2
  <2>6. \A u \in Is("Pack")' : u.step = "write" => u \in Is("Pack")
    BY <1>7 DEF Reading, Is
  <2> QED
    BY <1>1, <2>2, <2>5, <2>6
<1> QED
  BY <1>15, <1>17

-----------------------------------------------------------------------------
(* The tags of the database.                                               *)

\* A step that sends no edit and writes none.
LEMMA AddTagged ==
  ASSUME Typed, Tagged, NEW names, Appends(names), "edit" \notin names,
         db' = db, version' = version
  PROVE  Tagged'
<1>1. PICK ops \in Seq(Op) : queue' = queue \o ops /\ \A k \in DOMAIN ops : ops[k].name \in names
  BY DEF Appends
<1>2. /\ \A k \in DOMAIN queue : k \in DOMAIN queue' /\ queue'[k] = queue[k]
      /\ \A k \in DOMAIN queue' :
           \/ k \in DOMAIN queue
           \/ \E j \in DOMAIN ops : k = Len(queue) + j /\ queue'[k] = ops[j]
  BY <1>1, Behind
<1>3. \A k \in DOMAIN queue' : queue'[k].name = "edit" => k \in DOMAIN queue
  BY <1>1, <1>2
<1>4. Range(queue') = Range(queue) \cup Range(ops)
  BY <1>1, CalmSend
<1>5. Sent("edit")' = {} => Sent("edit") = {}
  BY <1>4 DEF Sent
<1> QED
  BY <1>2, <1>3, <1>5 DEF Tagged

LEMMA EditTagged == ASSUME Typed, Tagged, NEW i \in Inode, Edit(i) PROVE Tagged'
<1>1. PICK op \in Op : op.name = "edit" /\ op.version = version' /\ queue' = queue \o <<op>>
  BY EditIs
<1>2. <<op>> \in Seq(Op) /\ DOMAIN <<op>> = {1} /\ <<op>>[1] = op
  BY Few
<1>3. /\ \A k \in DOMAIN <<op>> :
           Len(queue) + k \in DOMAIN queue' /\ queue'[Len(queue) + k] = <<op>>[k]
      /\ \A k \in DOMAIN queue' :
           \/ k \in DOMAIN queue
           \/ \E j \in DOMAIN <<op>> : k = Len(queue) + j /\ queue'[k] = <<op>>[j]
  BY <1>1, <1>2, Behind
<1>4. Len(queue) \in Nat /\ DOMAIN queue = 1 .. Len(queue)
  BY LenProperties DEF Typed
<1>5. Len(queue) + 1 \in DOMAIN queue' /\ queue'[Len(queue) + 1] = op
  BY <1>2, <1>3
<1>6. ASSUME NEW k \in DOMAIN queue'
      PROVE  queue'[k].version = version' \/ Len(queue) + 1 > k
  <2>1. CASE k \in DOMAIN queue
    BY <1>4, <2>1
  <2>2. CASE k \notin DOMAIN queue
    BY <1>1, <1>2, <1>3, <2>2
  <2> QED
    BY <2>1, <2>2
<1>7. Sent("edit")' # {}
  BY <1>1, <1>5 DEF Sent, Range
<1> QED
  BY <1>1, <1>5, <1>6, <1>7 DEF Tagged

LEMMA ApplyTagged == ASSUME Typed, Tagged, DbApply PROVE Tagged'
<1>1. PICK op \in Op : /\ op = Head(queue) /\ Range(queue) = {op} \cup Range(queue')
                       /\ db' = Applied(db, op)
  BY ApplyIs
<1>2. version' = version
  BY ApplyIs
<1>3. /\ 1 \in DOMAIN queue /\ queue[1] = op
      /\ \A k \in DOMAIN queue' : k + 1 \in DOMAIN queue /\ queue[k + 1] = queue'[k]
      /\ \A k \in DOMAIN queue : k = 1 \/ (k - 1 \in DOMAIN queue' /\ queue'[k - 1] = queue[k])
      /\ DOMAIN queue \subseteq Nat /\ DOMAIN queue' \subseteq Nat
  BY <1>1, Shift
<1>4. ASSUME Sent("edit")' = {} PROVE db'.version = version
  <2>1. CASE op.name = "edit"
    <3>1. \A j \in DOMAIN queue' : queue'[j].name # "edit"
      BY <1>4 DEF Sent, Range
    <3>2. ASSUME NEW j \in DOMAIN queue, j > 1, queue[j].name = "edit" PROVE FALSE
      <4>1. j # 1
        BY <1>3, <3>2
      <4> QED
        BY <1>3, <3>1, <3>2, <4>1
    <3>3. queue[1].version = version
      BY <1>3, <2>1, <3>2 DEF Tagged
    <3> QED
      BY <1>1, <1>3, <2>1, <3>3, CorpusApplied
  <2>2. CASE op.name # "edit"
    <3>1. Sent("edit") = {}
      BY <1>1, <1>4, <2>2 DEF Sent
    <3> QED
      BY <1>1, <2>2, <3>1, CorpusApplied DEF Tagged
  <2> QED
    BY <2>1, <2>2
<1>5. ASSUME NEW k \in DOMAIN queue', queue'[k].name = "edit", queue'[k].version # version
      PROVE  \E j \in DOMAIN queue' : j > k /\ queue'[j].name = "edit"
  <2>1. k \in Nat /\ k + 1 \in DOMAIN queue /\ queue[k + 1] = queue'[k]
    BY <1>3
  <2>2. PICK j \in DOMAIN queue : j > k + 1 /\ queue[j].name = "edit"
    BY <1>5, <2>1 DEF Tagged
  <2>3. j # 1 /\ j - 1 > k
    BY <1>3, <2>1, <2>2
  <2> QED
    BY <1>3, <2>2, <2>3
<1> QED
  BY <1>2, <1>4, <1>5 DEF Tagged

LEMMA PackWriteAppends ==
  ASSUME Typed, NEW t \in tasks, PackWrite(t)
  PROVE  Appends({"truncate", "forget", "clean", "manifest", "candidates"})
<1>1. /\ t \in Task /\ t.name = "Pack" /\ Scope(t) \in SUBSET Release
      /\ Listings(t) \in [Release -> Listing] /\ queue' = queue \o PackOps(t)
  BY PackWriteIs
<1>2. t.incremental \in BOOLEAN
  BY <1>1, TaskFacts
<1>3. /\ PackOps(t) \in Seq(Op)
      /\ \A k \in DOMAIN PackOps(t) :
           PackOps(t)[k].name \in {"truncate", "forget", "clean", "manifest", "candidates"}
  BY <1>1, <1>2, PackOpsFacts
<1> QED
  BY <1>1, <1>3 DEF Appends

LEMMA TaggedNext == ASSUME Typed, Tagged, [Next]_vars PROVE Tagged'
<1>1. ASSUME queue' = queue, db' = db, version' = version PROVE Tagged'
  <2>1. Appends({})
    BY <1>1, SendsNone
  <2> QED
    BY <1>1, <2>1, AddTagged
<1>2. CASE UNCHANGED vars \/ Repack \/ Rescore \/ NextPhaseStarts
  BY <1>1, <1>2 DEF vars, Repack, Rescore, NextPhaseStarts
<1>3. CASE DbApply
  BY <1>3, ApplyTagged
<1>4. ASSUME NEW i \in Inode, Edit(i) PROVE Tagged'
  BY <1>4, EditTagged
<1>5. ASSUME NEW i \in Inode, Drop(i) PROVE Tagged'
  <2>1. Appends({"drop"}) /\ db' = db /\ version' = version
    BY <1>5, DropAppends DEF Drop
  <2> QED
    BY <2>1, AddTagged
<1>6. ASSUME NEW t \in tasks, PackRead(t) \/ PackMarks(t) \/ PackDone(t) PROVE Tagged'
  BY <1>1, <1>6 DEF PackRead, PackMarks, PackDone
<1>7. ASSUME NEW t \in tasks, PackNothing(t) PROVE Tagged'
  <2>1. Appends({"unclaim"}) /\ db' = db /\ version' = version
    BY <1>7, NothingAppends DEF PackNothing
  <2> QED
    BY <2>1, AddTagged
<1>8. ASSUME NEW t \in tasks, PackWrite(t) PROVE Tagged'
  <2>1. Appends({"truncate", "forget", "clean", "manifest", "candidates"})
    BY <1>8, PackWriteAppends
  <2>2. db' = db /\ version' = version
    BY <1>8 DEF PackWrite
  <2> QED
    BY <2>1, <2>2, AddTagged
<1>9. ASSUME NEW t \in tasks, ScoreCandidates(t) PROVE Tagged'
  <2>1. Appends({"scores"}) /\ db' = db /\ version' = version
    BY <1>9, ScoreAppends DEF ScoreCandidates
  <2> QED
    BY <2>1, AddTagged
<1>10. ASSUME NEW t \in tasks, \/ MappingsClear(t) \/ MappingsNone(t) \/ MappingsProposed(t)
                               \/ MapTier(t) \/ Resolve(t) \/ Gaps(t)
       PROVE  Tagged'
  <2>1. Appends({"clear", "emit", "gaps"}) /\ db' = db /\ version' = version
    BY <1>10, MappingSends
  <2> QED
    BY <2>1, AddTagged
<1> QED
  BY <1>2, <1>3, <1>4, <1>5, <1>6, <1>7, <1>8, <1>9, <1>10 DEF Next, Compute

\* What is listed, and will be.
LEMMA ApplyListed == ASSUME Typed, ListedRight, DbApply PROVE ListedRight'
<1>1. PICK op \in Op : /\ op \in Range(queue) /\ Range(queue) = {op} \cup Range(queue')
                       /\ db' = Applied(db, op)
  BY ApplyIs
<1>2. UNCHANGED <<given, version, tasks, todo, asked, seen>>
  BY ApplyIs
<1>3. Sent("candidates")' \subseteq Sent("candidates")
  BY <1>1 DEF Sent
<1>4. ASSUME NEW r \in Release
      PROVE  db'.candidates[r].files \subseteq given.heard[r] \cup given.housed[r]
  <2>1. db.candidates[r].files \subseteq given.heard[r] \cup given.housed[r]
    BY DEF ListedRight
  <2>2. Unlisted.files = {}
    BY DEF Unlisted
  <2>3. CASE op.name = "candidates"
    <3>1. op.of[r].files \subseteq given.heard[r] \cup given.housed[r]
      BY <1>1, <2>3 DEF ListedRight, Sent
    <3>2. db'.candidates[r] = IF op.of[r].files = {} THEN db.candidates[r]
                              ELSE [version |-> op.of[r].version,
                                    files |-> db.candidates[r].files \cup op.of[r].files]
      BY <1>1, <2>3, ListsApplied
    <3>3. CASE op.of[r].files = {}
      BY <2>1, <3>2, <3>3
    <3>4. CASE op.of[r].files # {}
      <4>1. db'.candidates[r].files = db.candidates[r].files \cup op.of[r].files
        BY <3>2, <3>4
      <4> QED
        BY <2>1, <3>1, <4>1
    <3> QED
      BY <3>3, <3>4
  <2>4. CASE op.name = "drop"
    BY <1>1, <2>1, <2>4, ListsApplied
  <2>5. CASE op.name = "forget"
    BY <1>1, <2>1, <2>2, <2>5, ListsApplied
  <2>6. CASE op.name = "truncate"
    BY <1>1, <2>1, <2>2, <2>6, ListsApplied
  <2>7. CASE op.name \notin {"candidates", "drop", "forget", "truncate"}
    BY <1>1, <2>1, <2>7, ListsApplied
  <2> QED
    BY <2>3, <2>4, <2>5, <2>6, <2>7
<1> QED
  BY <1>2, <1>3, <1>4 DEF ListedRight

LEMMA PackWriteListed == ASSUME Typed, ListedRight, NEW t \in tasks, PackWrite(t) PROVE ListedRight'
<1>1. /\ t \in Task /\ t.name = "Pack"
      /\ Scope(t) \in SUBSET Release /\ Listings(t) \in [Release -> Listing]
      /\ queue' = queue \o PackOps(t)
      /\ UNCHANGED <<given, version, db, todo, asked, seen>>
  BY PackWriteIs
<1>2. t.incremental \in BOOLEAN
  BY <1>1, TaskFacts
<1>3. /\ PackOps(t) \in Seq(Op)
      /\ \A k \in DOMAIN PackOps(t) :
           PackOps(t)[k].name = "candidates" => PackOps(t)[k].of = Listings(t)
  BY <1>1, <1>2, PackOpsFacts
<1>4. Range(queue') = Range(queue) \cup Range(PackOps(t))
  BY <1>1, <1>3, CalmSend
<1>5. \A op \in Sent("candidates")' : op \in Sent("candidates") \/ op.of = Listings(t)
  BY <1>3, <1>4 DEF Sent, Range
<1>6. \A r \in Release : Listings(t)[r].files \subseteq given.heard[r] \cup given.housed[r]
  BY DEF Listings, Listed, Unlisted
<1> QED
  BY <1>1, <1>5, <1>6 DEF ListedRight

\* Only PackReleases lists.
LEMMA AddListed ==
  ASSUME Typed, ListedRight, NEW names, Appends(names), "candidates" \notin names,
         given' = given, db' = db
  PROVE  ListedRight'
<1>1. PICK ops \in Seq(Op) : queue' = queue \o ops /\ \A k \in DOMAIN ops : ops[k].name \in names
  BY DEF Appends
<1>2. Range(queue') = Range(queue) \cup Range(ops)
  BY <1>1, CalmSend
<1>3. Sent("candidates")' = Sent("candidates")
  BY <1>1, <1>2 DEF Sent, Range
<1> QED
  BY <1>3 DEF ListedRight

-----------------------------------------------------------------------------
(* Repacks: one that truncates is under way until it is drained.           *)

\* While the queue holds something, PackReleases waits for it.
LEMMA AddTruncated ==
  ASSUME Typed, Truncated, NEW names, Appends(names), "truncate" \notin names,
         \A t \in Is("Pack") : t.step = "drain" /\ queue # <<>> => t \in Is("Pack")'
  PROVE  Truncated'
<1>1. PICK ops \in Seq(Op) : queue' = queue \o ops /\ \A k \in DOMAIN ops : ops[k].name \in names
  BY DEF Appends
<1>2. Range(queue') = Range(queue) \cup Range(ops)
  BY <1>1, CalmSend
<1>3. Sent("truncate")' = Sent("truncate")
  BY <1>1, <1>2 DEF Sent, Range
<1>4. Sent("truncate") # {} => queue # <<>>
  <2>1. queue = <<>> => Range(queue) = {}
    BY EmptyRange DEF Typed
  <2> QED
    BY <2>1 DEF Sent
<1> QED
  BY <1>3, <1>4 DEF Truncated

LEMMA ApplyTruncated == ASSUME Typed, Truncated, DbApply PROVE Truncated'
<1>1. PICK op \in Op : Range(queue) = {op} \cup Range(queue')
  BY ApplyIs
<1>2. tasks' = tasks
  BY DEF DbApply
<1>3. Sent("truncate")' \subseteq Sent("truncate") /\ Is("Pack")' = Is("Pack")
  BY <1>1, <1>2 DEF Sent, Is
<1> QED
  BY <1>3 DEF Truncated

LEMMA PackWriteTruncated ==
  ASSUME Typed, Truncated, NEW t \in tasks, PackWrite(t) PROVE Truncated'
<1> DEFINE new == [name |-> "Pack", run |-> t.run, incremental |-> t.incremental, step |-> "drain",
                   listed |-> {r \in Scope(t) : Listings(t)[r].files # {}}]
<1>1. /\ t \in Task /\ t.name = "Pack" /\ t.step = "write"
      /\ Scope(t) \in SUBSET Release /\ Listings(t) \in [Release -> Listing]
      /\ queue' = queue \o PackOps(t)
      /\ Scope(t) = {} => tasks' = tasks \ {t}
      /\ Scope(t) # {} => tasks' = (tasks \ {t}) \cup {new}
  BY PackWriteIs
<1>2. t.incremental \in BOOLEAN
  BY <1>1, TaskFacts
<1>3. /\ PackOps(t) \in Seq(Op)
      /\ \A k \in DOMAIN PackOps(t) :
           PackOps(t)[k].name = "truncate" => ~t.incremental /\ Scope(t) # {}
  BY <1>1, <1>2, PackOpsFacts
<1>4. Range(queue') = Range(queue) \cup Range(PackOps(t))
  BY <1>1, <1>3, CalmSend
<1>5. new.name = "Pack" /\ new.step = "drain" /\ new.incremental = t.incremental
  OBVIOUS
<1> HIDE DEF new
<1>6. \A u \in Is("Pack") : u.step = "drain" => u \in Is("Pack")'
  BY <1>1 DEF Is
<1>7. CASE Sent("truncate")' \subseteq Sent("truncate")
  BY <1>6, <1>7 DEF Truncated
<1>8. CASE ~(Sent("truncate")' \subseteq Sent("truncate"))
  <2>1. PICK op \in Range(PackOps(t)) : op.name = "truncate"
    BY <1>4, <1>8 DEF Sent
  <2>2. PICK k \in DOMAIN PackOps(t) : op = PackOps(t)[k]
    BY <2>1 DEF Range
  <2>3. ~t.incremental /\ Scope(t) # {}
    BY <1>3, <2>1, <2>2
  <2>4. new \in Is("Pack")'
    BY <1>1, <1>5, <2>3 DEF Is
  <2> QED
    BY <1>5, <2>3, <2>4 DEF Truncated
<1> QED
  BY <1>7, <1>8

\* The other steps send no truncation and leave those that wait alone.
LEMMA TruncatedKeeps ==
  ASSUME Typed, Truncated,
         \/ UNCHANGED vars \/ Repack \/ Rescore \/ NextPhaseStarts
         \/ \E i \in Inode : Edit(i) \/ Drop(i)
         \/ \E t \in tasks :
              \/ PackRead(t) \/ PackNothing(t) \/ PackMarks(t) \/ PackDone(t) \/ ScoreCandidates(t)
              \/ MappingsClear(t) \/ MappingsNone(t) \/ MappingsProposed(t)
              \/ MapTier(t) \/ Resolve(t) \/ Gaps(t)
  PROVE  Truncated'
<1>1. CASE UNCHANGED vars
  BY <1>1 DEF vars, Truncated, Sent, Is
<1>2. CASE Repack
  <2>1. queue' = queue /\ Is("Pack") \subseteq Is("Pack")'
    BY <1>2 DEF Repack, Is
  <2>2. Appends({})
    BY <2>1, SendsNone
  <2> QED
    BY <2>1, <2>2, AddTruncated
<1>3. CASE Rescore
  <2>1. queue' = queue /\ queue = <<>>
    BY <1>3 DEF Rescore, Quiet
  <2>2. Appends({})
    BY <2>1, SendsNone
  <2> QED
    BY <2>1, <2>2, AddTruncated
<1>4. CASE NextPhaseStarts
  <2>1. queue' = queue /\ queue = <<>>
    BY <1>4 DEF NextPhaseStarts
  <2>2. Appends({})
    BY <2>1, SendsNone
  <2> QED
    BY <2>1, <2>2, AddTruncated
<1>5. ASSUME NEW i \in Inode, Edit(i) PROVE Truncated'
  <2>1. PICK op \in Op : op.name = "edit" /\ queue' = queue \o <<op>>
    BY <1>5, EditIs
  <2>2. Appends({"edit"}) /\ Is("Pack")' = Is("Pack")
    BY <1>5, <2>1, SendsOne DEF Edit, Is
  <2> QED
    BY <2>2, AddTruncated
<1>6. ASSUME NEW i \in Inode, Drop(i) PROVE Truncated'
  <2>1. Appends({"drop"}) /\ Is("Pack")' = Is("Pack")
    BY <1>6, DropAppends DEF Drop, Is
  <2> QED
    BY <2>1, AddTruncated
<1>7. ASSUME NEW t \in tasks, PackRead(t) PROVE Truncated'
  <2>1. queue' = queue /\ \A u \in Is("Pack") : u.step = "drain" => u \in Is("Pack")'
    BY <1>7 DEF PackRead, Is
  <2>2. Appends({})
    BY <2>1, SendsNone
  <2> QED
    BY <2>1, <2>2, AddTruncated
<1>12. ASSUME NEW t \in tasks, PackMarks(t) PROVE Truncated'
  <2>1. queue' = queue /\ \A u \in Is("Pack") : u.step = "drain" => u \in Is("Pack")'
    BY <1>12, MarksAre DEF Is
  <2>2. Appends({})
    BY <2>1, SendsNone
  <2> QED
    BY <2>1, <2>2, AddTruncated
<1>8. ASSUME NEW t \in tasks, PackNothing(t) PROVE Truncated'
  <2>1. Appends({"unclaim"}) /\ \A u \in Is("Pack") : u.step = "drain" => u \in Is("Pack")'
    BY <1>8, NothingAppends DEF PackNothing, Finish, Is
  <2> QED
    BY <2>1, AddTruncated
<1>9. ASSUME NEW t \in tasks, PackDone(t) PROVE Truncated'
  <2>1. queue' = queue /\ queue = <<>>
    BY <1>9 DEF PackDone
  <2>2. Appends({})
    BY <2>1, SendsNone
  <2> QED
    BY <2>1, <2>2, AddTruncated
<1>10. ASSUME NEW t \in tasks, ScoreCandidates(t) PROVE Truncated'
  <2>1. Appends({"scores"}) /\ Is("Pack")' = Is("Pack")
    BY <1>10, ScoreAppends DEF ScoreCandidates, Finish, Is
  <2> QED
    BY <2>1, AddTruncated
<1>11. ASSUME NEW t \in tasks,
              \/ MappingsClear(t) \/ MappingsNone(t) \/ MappingsProposed(t)
              \/ MapTier(t) \/ Resolve(t) \/ Gaps(t)
       PROVE  Truncated'
  <2>1. Appends({"clear", "emit", "gaps"}) /\ Is("Pack")' = Is("Pack")
    BY <1>11, MappingSends
  <2> QED
    BY <2>1, AddTruncated
<1> QED
  BY <1>1, <1>2, <1>3, <1>4, <1>5, <1>6, <1>7, <1>8, <1>9, <1>10, <1>11, <1>12

-----------------------------------------------------------------------------
(* One run at a time, unless the operator asks for another one meanwhile.   *)

\* Next to a repack or a phase nothing runs and nothing waits.
LEMMA LoneTask ==
  ASSUME Sole, NEW t \in tasks, t.name \in Solitary \cup {"Pack"}
  PROVE  tasks = {t} /\ todo = <<>>
BY DEF Sole

\* A task of a phase or of PackReleases alone, and nothing to come.
LEMMA SoleOne ==
  ASSUME NEW t, tasks' = {t}, todo' = <<>>, t.name \in Solitary \cup {"Pack"}
  PROVE  Sole'
<1>1. Len(todo') = 0
  OBVIOUS
<1>2. Is("Score")' = {} /\ Is("Resolve")' = {}
  BY DEF Is, Solitary
<1> QED
  BY <1>1, <1>2 DEF Sole

\* Nothing runs, and one phase is to come at most.
LEMMA SoleNone ==
  ASSUME tasks' = {}, Len(todo') <= 1 PROVE Sole'
BY DEF Sole, Is

\* Steps that start and end nothing.
LEMMA SoleQuiet ==
  ASSUME Sole, tasks' = tasks, todo' = todo PROVE Sole'
BY DEF Sole, Is

LEMMA SoleRepack == ASSUME Typed, Repack, ~seen'.overlapped PROVE Sole'
<1> DEFINE new == [name |-> "Pack", run |-> Runs, incremental |-> FALSE, step |-> "read"]
<1>1. tasks = {} /\ todo = <<>>
  BY DEF Repack, Typed, Seen
<1>2. tasks' = {new} /\ todo' = <<>> /\ new.name = "Pack"
  BY <1>1 DEF Repack
<1> HIDE DEF new
<1> QED
  BY <1>2, SoleOne

LEMMA SoleRescore == ASSUME Rescore PROVE Sole'
<1> DEFINE new == [name |-> "Pack", run |-> Runs, incremental |-> TRUE, step |-> "read"]
<1>1. tasks' = {new} /\ todo' = <<>> /\ new.name = "Pack"
  BY DEF Rescore, Quiet
<1> HIDE DEF new
<1> QED
  BY <1>1, SoleOne

LEMMA SoleStart == ASSUME Typed, Sole, NextPhaseStarts PROVE Sole'
<1>1. todo \in Seq(Phase) /\ todo # <<>> /\ todo' = Tail(todo) /\ Len(todo) <= 1
  BY DEF Typed, NextPhaseStarts, Sole
<1>2. todo' = <<>>
  <2>1. Len(todo) \in Nat \ {0} /\ Tail(todo) \in Seq(Phase) /\ Len(Tail(todo)) = Len(todo) - 1
    BY <1>1, LenProperties, HeadTailProperties, EmptySeq
  <2>2. Len(todo') = 0 /\ todo' \in Seq(Phase)
    BY <1>1, <2>1
  <2> QED
    BY <2>2, EmptySeq
<1>3. PICK t \in Phase : tasks' = {t}
  BY PhaseStarts
<1>4. t.name \in Solitary
  BY PhaseFacts
<1> QED
  BY <1>2, <1>3, <1>4, SoleOne

LEMMA SolePackRead == ASSUME Sole, NEW t \in tasks, PackRead(t) PROVE Sole'
<1> DEFINE new == [name |-> "Pack", run |-> t.run, incremental |-> t.incremental, step |-> "marks",
                   version |-> db.version, present |-> db.present]
<1>1. tasks = {t} /\ todo = <<>>
  BY LoneTask DEF PackRead
<1>2. tasks' = {new} /\ todo' = <<>> /\ new.name = "Pack"
  BY <1>1 DEF PackRead
<1> HIDE DEF new
<1> QED
  BY <1>2, SoleOne

LEMMA SolePackMarks == ASSUME Typed, Sole, NEW t \in tasks, PackMarks(t) PROVE Sole'
<1>1. /\ t.name = "Pack" /\ Scoping(t).name = "Pack" /\ todo' = todo
      /\ tasks' = (tasks \ {t}) \cup {Scoping(t)}
  BY MarksAre
<1>2. tasks = {t} /\ todo = <<>>
  BY <1>1, LoneTask
<1>3. tasks' = {Scoping(t)} /\ todo' = <<>>
  BY <1>1, <1>2
<1> QED
  BY <1>1, <1>3, SoleOne

LEMMA SolePackNothing == ASSUME Sole, NEW t \in tasks, PackNothing(t) PROVE Sole'
<1>1. tasks = {t} /\ todo = <<>>
  BY LoneTask DEF PackNothing
<1>2. tasks' = {} /\ todo' = <<>>
  BY <1>1 DEF PackNothing, Finish
<1> QED
  BY <1>2, SoleNone

LEMMA SolePackWrite == ASSUME Typed, Sole, NEW t \in tasks, PackWrite(t) PROVE Sole'
<1> DEFINE new == [name |-> "Pack", run |-> t.run, incremental |-> t.incremental, step |-> "drain",
                   listed |-> {r \in Scope(t) : Listings(t)[r].files # {}}]
<1>1. /\ t.name = "Pack" /\ todo' = todo
      /\ Scope(t) = {} => tasks' = tasks \ {t}
      /\ Scope(t) # {} => tasks' = (tasks \ {t}) \cup {new}
  BY PackWriteIs
<1>2. tasks = {t} /\ todo = <<>>
  BY <1>1, LoneTask
<1>3. new.name = "Pack"
  OBVIOUS
<1> HIDE DEF new
<1>4. tasks' = {} \/ tasks' = {new}
  BY <1>1, <1>2
<1> QED
  BY <1>1, <1>2, <1>3, <1>4, SoleOne, SoleNone

LEMMA SolePackDone == ASSUME Typed, Sole, NEW t \in tasks, PackDone(t) PROVE Sole'
<1>1. tasks = {t} /\ todo = <<>>
  BY LoneTask DEF PackDone
<1> DEFINE scores == {[name |-> "Score", run |-> t.run, release |-> r] : r \in t.listed}
           next == [name |-> "Mappings", run |-> t.run, step |-> "clear"]
<1>2. tasks' = scores /\ todo' = (IF t.incremental THEN todo ELSE Append(todo, next))
  BY <1>1 DEF PackDone
<1>3. \A u \in scores : u.name = "Score"
  OBVIOUS
<1>4. next \in Phase /\ next.name = "Mappings"
  <2>1. t \in Task
    BY DEF Typed
  <2> QED
    BY <2>1, TaskFacts DEF Phase
<1> HIDE DEF scores, next
<1>5. Len(todo') <= 1 /\ \A p \in Range(todo') : p.name = "Mappings"
  <2>1. CASE t.incremental
    <3>1. todo' = <<>> /\ Range(todo') = {}
      <4>1. todo' = <<>>
        BY <1>1, <1>2, <2>1
      <4>2. DOMAIN <<>> = {}
        OBVIOUS
      <4> QED
        BY <4>1, <4>2 DEF Range
    <3> QED
      BY <3>1
  <2>2. CASE ~t.incremental
    <3>1. todo' = Append(<<>>, next) /\ <<>> \in Seq(Phase)
      BY <1>1, <1>2, <2>2
    <3>2. Range(todo') = Range(<<>>) \cup {next} /\ Len(todo') = Len(<<>>) + 1
      BY <1>4, <3>1, Appending
    <3>3. Range(<<>>) = {} /\ Len(<<>>) = 0
      <4>1. DOMAIN <<>> = {}
        OBVIOUS
      <4> QED
        BY <4>1 DEF Range
    <3> QED
      BY <1>4, <3>2, <3>3
  <2> QED
    BY <2>1, <2>2
<1>6. \A u \in tasks' : u.name = "Score"
  BY <1>2, <1>3
<1> QED
  BY <1>5, <1>6 DEF Sole, Is, Solitary

LEMMA SoleScore == ASSUME Sole, NEW t \in tasks, ScoreCandidates(t) PROVE Sole'
<1>1. t.name = "Score" /\ tasks' = tasks \ {t} /\ todo' = todo
  BY DEF ScoreCandidates, Finish
<1>2. tasks = Is("Score") /\ \A p \in Range(todo) : p.name = "Mappings"
  BY <1>1 DEF Sole, Is
<1>3. \A u \in tasks' : u.name = "Score"
  BY <1>1, <1>2 DEF Is
<1>4. Len(todo') <= 1
  BY <1>1 DEF Sole
<1> QED
  BY <1>1, <1>2, <1>3, <1>4 DEF Sole, Is, Solitary

LEMMA SoleMappingsClear == ASSUME Typed, Sole, NEW t \in tasks, MappingsClear(t) PROVE Sole'
<1>1. t.name \in Solitary /\ todo' = todo
  BY ClearIs
<1>2. PICK u : u.name = "Mappings" /\ tasks' = (tasks \ {t}) \cup {u}
  BY ClearIs
<1>3. tasks = {t} /\ todo = <<>>
  BY <1>1, LoneTask
<1>4. tasks' = {u} /\ u.name \in Solitary
  BY <1>2, <1>3 DEF Solitary
<1> QED
  BY <1>1, <1>3, <1>4, SoleOne

LEMMA SoleMappingsNone == ASSUME Sole, NEW t \in tasks, MappingsNone(t) PROVE Sole'
<1>1. t.name \in Solitary /\ todo' = todo /\ tasks' = tasks \ {t}
  BY DEF MappingsNone, MappingsRead, Finish, Solitary
<1>2. tasks = {t} /\ todo = <<>>
  BY <1>1, LoneTask
<1>3. tasks' = {} /\ Len(todo') = 0
  BY <1>1, <1>2
<1> QED
  BY <1>3, SoleNone

\* The phase that a run leaves is the only one.
LEMMA OnePhase ==
  ASSUME NEW p \in Phase, todo = <<>>, todo' = Append(todo, p)
  PROVE  Len(todo') = 1 /\ Range(todo') = {p}
<1>1. <<>> \in Seq(Phase)
  OBVIOUS
<1>2. Range(todo') = Range(<<>>) \cup {p} /\ Len(todo') = Len(<<>>) + 1
  BY <1>1, Appending
<1>3. Range(<<>>) = {} /\ Len(<<>>) = 0
  <2>1. DOMAIN <<>> = {}
    OBVIOUS
  <2> QED
    BY <2>1 DEF Range
<1> QED
  BY <1>2, <1>3

\* No phase waits.
LEMMA NoPhase == ASSUME todo' = <<>> PROVE Range(todo') = {}
<1>1. DOMAIN <<>> = {}
  OBVIOUS
<1> QED
  BY <1>1 DEF Range

\* What a mapping leaves: nothing, or its first tier.
FirstTier(t) == [name |-> "Map", run |-> t.run, tier |-> "Perfect", pool |-> Left]
\* The phase that follows a mapping.
LEMMA FirstTierIs ==
  ASSUME Typed, NEW t \in tasks
  PROVE  /\ FirstTier(t) \in Phase /\ FirstTier(t).name = "Map" /\ FirstTier(t).tier = "Perfect"
         /\ FirstTier(t).pool = Left /\ Left \subseteq Proposals
<1>1. t \in Task
  BY DEF Typed
<1>2. t.run \in Nat
  BY <1>1, TaskFacts
<1>3. Left \in SUBSET Proposal
  BY ProposalsAre DEF Left
<1> QED
  BY <1>2, <1>3 DEF FirstTier, Phase, Tier, Left

\* A mapping leaves that phase alone, or nothing.
LEMMA ProposedLeaves ==
  ASSUME Typed, Sole, NEW t \in tasks, MappingsProposed(t)
  PROVE  /\ tasks = {t} /\ tasks' = {} /\ Len(todo') <= 1
         /\ Range(todo') = {} \/ Range(todo') = {FirstTier(t)}
<1>1. t.name \in Solitary /\ tasks' = tasks \ {t}
  BY ProposedIs DEF Solitary
<1>2. tasks = {t} /\ todo = <<>>
  BY <1>1, LoneTask
<1>3. FirstTier(t) \in Phase
  BY FirstTierIs
<1>4. todo' = Append(todo, FirstTier(t)) \/ todo' = todo
  <2>1. \E whole \in BOOLEAN : todo' = IF whole THEN Append(todo, FirstTier(t)) ELSE todo
    BY ProposedIs DEF FirstTier
  <2> QED
    BY <2>1
<1>5. CASE todo' = Append(todo, FirstTier(t))
  <2>1. Len(todo') = 1 /\ Range(todo') = {FirstTier(t)}
    BY <1>2, <1>3, <1>5, OnePhase
  <2> QED
    BY <1>1, <1>2, <2>1
<1>6. CASE todo' = todo
  <2>1. Len(todo') = 0 /\ Range(todo') = {}
    BY <1>2, <1>6, NoPhase
  <2> QED
    BY <1>1, <1>2, <2>1
<1> QED
  BY <1>4, <1>5, <1>6

LEMMA SoleProposed == ASSUME Typed, Sole, NEW t \in tasks, MappingsProposed(t) PROVE Sole'
<1>1. tasks' = {} /\ Len(todo') <= 1
  BY ProposedLeaves
<1> QED
  BY <1>1, SoleNone

LEMMA SoleMapTier == ASSUME Typed, Sole, NEW t \in tasks, MapTier(t) PROVE Sole'
<1>1. /\ t.name \in Solitary
      /\ t.tier \in Tier /\ t.pool \in SUBSET Proposal /\ t.run \in Nat
  BY MapTierIs DEF Solitary
<1>2. PICK kept \in Keepers(t.tier, Eligible(t)) : TierMapped(t, kept) \/ TierBroken(t, kept)
  BY MapTierIs
<1>3. tasks = {t} /\ todo = <<>>
  BY <1>1, LoneTask
<1>4. CASE TierBroken(t, kept)
  <2>1. tasks' = {} /\ Len(todo') = 0
    BY <1>3, <1>4 DEF TierBroken
  <2> QED
    BY <2>1, SoleNone
<1>5. CASE TierMapped(t, kept)
  <2>1. todo' = Append(todo, NextPhase(t))
    BY <1>5 DEF TierMapped
  <2>2. NextPhase(t) \in Phase /\ NextPhase(t).name \in {"Map", "Gaps"}
    BY <1>1, NextPhaseIs
  <2>3. Len(todo') = 1 /\ Range(todo') = {NextPhase(t)}
    BY <1>3, <2>1, <2>2, OnePhase
  <2>4. \A u \in tasks' : u.name = "Resolve"
    BY <1>3, <1>5 DEF TierMapped, Solver
  <2>5. Len(todo') <= 1 /\ \A p \in Range(todo') : p.name \in {"Map", "Gaps"}
    BY <2>2, <2>3
  <2> QED
    BY <2>4, <2>5 DEF Sole, Is, Solitary
<1> QED
  BY <1>2, <1>4, <1>5

LEMMA SoleResolve == ASSUME Typed, Sole, NEW t \in tasks, Resolve(t) PROVE Sole'
<1>1. t.name = "Resolve" /\ tasks' = tasks \ {t} /\ todo' = todo
  BY ResolveSends
<1>2. tasks = Is("Resolve") /\ \A p \in Range(todo) : p.name \in {"Map", "Gaps"}
  BY <1>1 DEF Sole, Is
<1>3. \A u \in tasks' : u.name = "Resolve"
  BY <1>1, <1>2 DEF Is
<1>4. Len(todo') <= 1
  BY <1>1 DEF Sole
<1> QED
  BY <1>1, <1>2, <1>3, <1>4 DEF Sole, Is, Solitary

LEMMA SoleGaps == ASSUME Sole, NEW t \in tasks, Gaps(t) PROVE Sole'
<1>1. t.name \in Solitary /\ todo' = todo /\ tasks' = tasks \ {t}
  BY DEF Gaps, Finish, Solitary
<1>2. tasks = {t} /\ todo = <<>>
  BY <1>1, LoneTask
<1>3. tasks' = {} /\ Len(todo') = 0
  BY <1>1, <1>2
<1> QED
  BY <1>3, SoleNone

-----------------------------------------------------------------------------
(* Proposals: what is picked, knotted, solved or waits in a pool.          *)

\* Steps that add no picks, knots, solvers or tiers.
Fewer ==
  /\ given' = given /\ seen'.proposals = seen.proposals
  /\ Picked' \subseteq Picked /\ Knots' \subseteq Knots
  /\ Is("Resolve")' \subseteq Is("Resolve") /\ Maps' \subseteq Maps

\* With fewer picks, knots, tiers and solvers, what is left is still ours.
LEMMA FewerOurs == ASSUME Ours, Fewer PROVE Ours'
<1>1. Resolving' \subseteq Resolving
  BY DEF Fewer, Resolving
<1> QED
  BY <1>1 DEF Ours, Fewer

LEMMA FewerProposed == ASSUME Proposed, Fewer PROVE Proposed'
<1>1. Resolving' \subseteq Resolving
  BY DEF Fewer, Resolving
<1>2. \A p \in Picked' : p.release \in given'.pinned => p \in seen'.proposals
  BY DEF Proposed, Fewer
<1>3. \A t \in Maps' : \A p \in t.pool : p.release \notin given'.pinned /\ p.rows # {}
  BY DEF Proposed, Fewer
<1>4. \A p \in Resolving' : p.release \notin given'.pinned /\ p.rows # {}
  BY <1>1 DEF Proposed, Fewer
<1>5. \A t \in Is("Resolve")' : \A p, q \in t.proposals : p.tier = q.tier
  BY DEF Proposed, Fewer
<1>6. /\ \A p, q \in seen'.proposals : p.release = q.release => p = q
      /\ \A p \in seen'.proposals : p.rows # {}
  BY DEF Proposed, Fewer
<1> QED
  BY <1>2, <1>3, <1>4, <1>5, <1>6 DEF Proposed

LEMMA CalmFewer == ASSUME Calm PROVE Fewer
BY CalmKeeps DEF Calm, Fewer

LEMMA ApplyFewer == ASSUME Typed, DbApply PROVE Fewer
<1>1. UNCHANGED <<given, version, tasks, todo, asked, seen>>
  BY ApplyIs
<1> QED
  BY <1>1, ApplyPicked DEF Fewer, Is, Maps, Ahead

\* The same, told by the queue and the tasks.
LEMMA SameFewer ==
  ASSUME UNCHANGED <<given, db>>, seen'.proposals = seen.proposals,
         Sent("emit")' \subseteq Sent("emit"), Is("Resolve")' \subseteq Is("Resolve"),
         \A t \in Ahead' : t.name = "Map" => t \in Ahead
  PROVE  Fewer
BY DEF Fewer, Picked, Knots, Maps

LEMMA StartFewer == ASSUME Typed, NextPhaseStarts PROVE Fewer
<1>1. PICK t \in Phase : /\ tasks' = {t} /\ Range(todo) = {t} \cup Range(todo')
  BY PhaseStarts
<1>2. queue' = queue /\ UNCHANGED <<given, db, seen>> /\ tasks = {}
  BY PhaseStarts
<1>3. Is("Resolve")' = {}
  BY <1>1, PhaseFacts DEF Is, Solitary
<1>4. Ahead' = Ahead
  BY <1>1, <1>2 DEF Ahead
<1>5. Sent("emit")' = Sent("emit")
  BY <1>2 DEF Sent
<1> QED
  BY <1>2, <1>3, <1>4, <1>5, SameFewer

LEMMA NothingFewer == ASSUME Typed, NEW t \in tasks, PackNothing(t) PROVE Fewer
<1>1. /\ t.name = "Pack" /\ tasks' = tasks \ {t}
      /\ Range(queue) \subseteq Range(queue')
      /\ \A op \in Range(queue') \ Range(queue) : op.name = "unclaim"
      /\ seen'.proposals = seen.proposals
      /\ UNCHANGED <<given, db, todo>>
  BY NothingIs
<1>2. Sent("emit")' = Sent("emit")
  BY <1>1 DEF Sent
<1>3. Is("Resolve")' \subseteq Is("Resolve") /\ Ahead' \subseteq Ahead
  BY <1>1 DEF Is, Ahead
<1> QED
  BY <1>1, <1>2, <1>3, SameFewer

LEMMA ClearFewer == ASSUME Typed, NEW t \in tasks, MappingsClear(t) PROVE Fewer
<1>1. /\ Range(queue') = Range(queue) \cup {[name |-> "clear"]}
      /\ UNCHANGED <<given, version, db, todo, asked, seen>>
  BY ClearIs
<1>2. PICK u : u.name = "Mappings" /\ tasks' = (tasks \ {t}) \cup {u}
  BY ClearIs
<1>3. Sent("emit")' = Sent("emit")
  BY <1>1 DEF Sent
<1>4. Is("Resolve")' \subseteq Is("Resolve")
  BY <1>2 DEF Is
<1>5. \A o \in Ahead' : o.name = "Map" => o \in Ahead
  BY <1>1, <1>2 DEF Ahead
<1> QED
  BY <1>1, <1>3, <1>4, <1>5, SameFewer

LEMMA GapsFewer == ASSUME Typed, NEW t \in tasks, Gaps(t) PROVE Fewer
<1>1. tasks' = tasks \ {t} /\ UNCHANGED <<given, db, todo, seen>>
  BY DEF Gaps, Finish
<1>2. queue' = queue \o <<GapsOp>>
  BY DEF Gaps, Send, GapsOp
<1>3. Range(queue') = Range(queue) \cup {GapsOp} /\ GapsOp.name = "gaps"
  BY <1>2, GapsIs, OneMore
<1>4. Sent("emit")' = Sent("emit")
  BY <1>3 DEF Sent
<1>5. Is("Resolve")' \subseteq Is("Resolve") /\ Ahead' \subseteq Ahead
  BY <1>1 DEF Is, Ahead
<1> QED
  BY <1>1, <1>4, <1>5, SameFewer

\* A mapping that finds no scores.
LEMMA NoneLeaves ==
  ASSUME Typed, Phased, NEW t \in tasks, MappingsNone(t)
  PROVE  /\ Picked' = {} /\ Knots' = {} /\ Is("Resolve")' = {} /\ Maps' \subseteq Maps
         /\ seen'.proposals = {} /\ seen'.bailed /\ given' = given
<1>1. /\ t.name \in Solitary /\ Range(queue) = {}
      /\ db.packed = {} /\ db.knots = {}
  BY Blank DEF MappingsNone
<1>2. tasks' = tasks \ {t} /\ queue' = queue /\ UNCHANGED <<given, db, todo>>
  BY DEF MappingsNone, Finish
<1>3. seen'.proposals = Proposals /\ seen'.bailed = TRUE /\ Proposals = {}
  BY MappedIs DEF MappingsNone
<1>4. Is("Resolve") = {}
  BY <1>1, NoOther
<1>5. Sent("emit")' = {}
  BY <1>1, <1>2 DEF Sent
<1>6. Is("Resolve")' = {} /\ Ahead' \subseteq Ahead
  BY <1>2, <1>4 DEF Is, Ahead
<1>7. Picked' = {} /\ Knots' = {}
  BY <1>1, <1>2, <1>5 DEF Picked, Knots
<1> QED
  BY <1>2, <1>3, <1>6, <1>7 DEF Maps

LEMMA NoneOurs ==
  ASSUME Typed, Phased, Sole, NEW t \in tasks, MappingsNone(t) PROVE Ours'
<1>1. /\ Picked' = {} /\ Knots' = {} /\ Is("Resolve")' = {} /\ Maps' \subseteq Maps
      /\ seen'.proposals = {}
  BY NoneLeaves
<1>2. t.name = "Mappings"
  BY DEF MappingsNone, MappingsRead
<1>3. tasks = {t} /\ todo = <<>>
  BY <1>2, LoneTask DEF Solitary
<1>4. Maps = {}
  <2>1. Range(todo) = {}
    <3>1. DOMAIN <<>> = {}
      OBVIOUS
    <3> QED
      BY <1>3, <3>1 DEF Range
  <2> QED
    BY <1>2, <1>3, <2>1 DEF Maps, Ahead
<1> QED
  BY <1>1, <1>4 DEF Ours, Resolving

LEMMA NoneProposed ==
  ASSUME Typed, Phased, Proposed, NEW t \in tasks, MappingsNone(t) PROVE Proposed'
<1>1. /\ Picked' = {} /\ Is("Resolve")' = {} /\ Maps' \subseteq Maps
      /\ seen'.proposals = {} /\ given' = given
  BY NoneLeaves
<1> QED
  BY <1>1 DEF Proposed, Resolving

\* A mapping that finds some.
LEMMA MapsAfter ==
  ASSUME Typed, Phased, NEW t \in tasks, MappingsProposed(t)
  PROVE  /\ Maps' \subseteq Maps \cup {FirstTier(t)}
         /\ seen'.proposals = Proposals /\ seen'.touched = {} /\ seen'.bailed = FALSE
         /\ seen'.mapped /\ seen'.overlapped = seen.overlapped
         /\ given' = given
<1>1. PICK whole \in BOOLEAN :
        /\ Mapped(~whole, FALSE)
        /\ todo' = IF whole THEN Append(todo, FirstTier(t)) ELSE todo
  BY ProposedPicks DEF FirstTier
<1>2. tasks' = tasks \ {t} /\ given' = given
  BY ProposedIs
<1>3. /\ seen'.proposals = Proposals /\ seen'.touched = {} /\ seen'.bailed = FALSE
      /\ seen'.mapped /\ seen'.overlapped = seen.overlapped
  <2>1. (~whole) \in BOOLEAN /\ FALSE \in BOOLEAN
    OBVIOUS
  <2> QED
    BY <1>1, <2>1, MappedIs
<1>4. Range(todo') \subseteq Range(todo) \cup {FirstTier(t)}
  <2>1. FirstTier(t) \in Phase /\ todo \in Seq(Phase)
    BY FirstTierIs DEF Typed
  <2> QED
    BY <1>1, <2>1, Appending
<1>5. Maps' \subseteq Maps \cup {FirstTier(t)}
  BY <1>2, <1>4 DEF Maps, Ahead
<1> QED
  BY <1>2, <1>3, <1>5

LEMMA ProposedOurs ==
  ASSUME Typed, Phased, Sole, NEW t \in tasks, MappingsProposed(t) PROVE Ours'
<1>1. PICK whole \in BOOLEAN :
        /\ Picked' \subseteq Named(Chosen, db.manifest)
        /\ Knots' = {} /\ Is("Resolve")' = {}
  BY ProposedPicks
<1>2. seen'.proposals = Proposals
  BY MapsAfter
<1>3. Picked' \subseteq Proposals
  BY <1>1 DEF Named, Chosen
<1>4. Range(todo') = {} \/ Range(todo') = {FirstTier(t)}
  BY ProposedLeaves
<1>5. \A u \in Maps' : u.pool \subseteq Proposals
  <2>1. tasks' = {}
    BY ProposedLeaves
  <2> QED
    BY <1>4, <2>1, FirstTierIs DEF Maps, Ahead
<1> QED
  BY <1>1, <1>2, <1>3, <1>5 DEF Ours, Resolving

LEMMA ProposedProposed ==
  ASSUME Typed, Phased, Proposed, NEW t \in tasks, MappingsProposed(t) PROVE Proposed'
<1>1. PICK whole \in BOOLEAN :
        /\ Picked' \subseteq Named(Chosen, db.manifest)
        /\ Knots' = {} /\ Is("Resolve")' = {}
  BY ProposedPicks
<1>2. Maps' \subseteq Maps \cup {FirstTier(t)} /\ seen'.proposals = Proposals /\ given' = given
  BY MapsAfter
<1>3. /\ \A p, q \in Proposals : p.release = q.release => p = q
      /\ \A p \in Proposals : p.rows # {}
  BY ProposalsAre
<1>4. \A p \in Picked' : p \in Proposals
  BY <1>1 DEF Named, Chosen
<1>5. \A p \in Left : p.release \notin given.pinned /\ p.rows # {}
  BY <1>3 DEF Left, Chosen
<1>6. \A u \in Maps' : \A p \in u.pool : p.release \notin given.pinned /\ p.rows # {}
  <2>1. FirstTier(t).pool = Left
    BY FirstTierIs
  <2> QED
    BY <1>2, <1>5, <2>1 DEF Proposed
<1> QED
  BY <1>1, <1>2, <1>3, <1>4, <1>6 DEF Proposed, Resolving

\* What a tier leaves: the next one with the same pool, or none.
LEMMA TierLeaves ==
  ASSUME Typed, NEW t \in tasks, MapTier(t)
  PROVE  /\ \A u \in Maps' : u \in Maps \ {t} \/ u.pool = t.pool
         /\ t \in Maps
<1>1. /\ t.name = "Map" /\ t.tier \in Tier /\ t.pool \in SUBSET Proposal /\ t.run \in Nat
  BY MapTierIs
<1>2. PICK kept \in Keepers(t.tier, Eligible(t)) : TierMapped(t, kept) \/ TierBroken(t, kept)
  BY MapTierIs
<1>3. \A u \in tasks' \ (tasks \ {t}) : u.name = "Resolve"
  BY TierSends
<1>4. NextPhase(t) \in Phase /\ (NextPhase(t).name = "Map" => NextPhase(t).pool = t.pool)
  BY <1>1, NextPhaseIs
<1>5. Range(todo') \subseteq Range(todo) \cup {NextPhase(t)}
  <2>1. todo' = Append(todo, NextPhase(t)) \/ todo' = todo
    BY <1>2 DEF TierMapped, TierBroken
  <2>2. todo \in Seq(Phase) /\ NextPhase(t) \in Phase
    BY <1>4 DEF Typed
  <2>3. Range(Append(todo, NextPhase(t))) = Range(todo) \cup {NextPhase(t)}
    BY <2>2, Appending
  <2> QED
    BY <2>1, <2>3
<1>6. t \in Maps
  BY <1>1 DEF Maps, Ahead
<1>7. ASSUME NEW u \in Maps' PROVE u \in Maps \ {t} \/ u.pool = t.pool
  <2>1. u \in Ahead' /\ u.name = "Map"
    BY <1>7 DEF Maps
  <2>2. CASE u = t
    BY <2>2
  <2>3. CASE u = NextPhase(t)
    BY <1>4, <2>1, <2>3
  <2>4. CASE u \in tasks \/ u \in Range(todo)
    BY <2>1, <2>2, <2>4 DEF Maps, Ahead
  <2>5. u \in tasks' \/ u \in Range(todo')
    BY <2>1 DEF Ahead
  <2>6. u \in tasks' => u \in tasks
    BY <1>3, <2>1
  <2> QED
    BY <1>5, <2>2, <2>3, <2>4, <2>5, <2>6
<1> QED
  BY <1>6, <1>7

\* What a tier picks, ties and has solved is from its pool, and of its tier.
LEMMA TierTakes ==
  ASSUME Typed, Phased, NEW t \in tasks, MapTier(t)
  PROVE  /\ \A p \in Picked' : p \in Picked \/ (p \in t.pool /\ p.tier = t.tier)
         /\ \A knot \in Knots' : knot \in Knots \/ knot \subseteq t.pool
         /\ \A u \in Is("Resolve")' : \A p \in u.proposals : p \in t.pool /\ p.tier = t.tier
         /\ UNCHANGED <<given, db>> /\ seen'.proposals = seen.proposals
<1>1. PICK kept \in Keepers(t.tier, Eligible(t)) :
           \/ /\ Picked' = Picked \cup Named(Won(t.tier, kept), db.manifest)
              /\ Knots' = Knots \cup Tied(t.tier, kept)
              /\ Is("Resolve")' = {Solver(t, C) : C \in Several(kept) \ Knotted(t.tier, kept)}
           \/ \E part \in SUBSET Won(t.tier, kept), tied \in SUBSET Tied(t.tier, kept) :
                /\ Picked' = Picked \cup part
                /\ Knots' = Knots \cup tied
                /\ Is("Resolve")' = {}
  BY TierPicks
<1>2. /\ kept \subseteq Eligible(t)
      /\ Won(t.tier, kept) \subseteq kept
      /\ \A C \in Tied(t.tier, kept) : C \subseteq kept
      /\ \A C \in Several(kept) : C \subseteq kept
  BY <1>1, KeptFrom
<1>3. \A p \in kept : p \in t.pool /\ p.tier = t.tier
  BY <1>2 DEF Eligible
<1>4. UNCHANGED <<given, db>> /\ seen'.proposals = seen.proposals
  BY TierSends
<1>5. \A p \in Picked' : p \in Picked \/ p \in kept
  BY <1>1, <1>2 DEF Named
<1>6. \A knot \in Knots' : knot \in Knots \/ knot \subseteq kept
  BY <1>1, <1>2
<1>7. \A u \in Is("Resolve")' : u.proposals \subseteq kept
  BY <1>1, <1>2 DEF Solver
<1> QED
  BY <1>3, <1>4, <1>5, <1>6, <1>7

LEMMA TierOurs == ASSUME Typed, Phased, Ours, NEW t \in tasks, MapTier(t) PROVE Ours'
<1>1. /\ \A p \in Picked' : p \in Picked \/ p \in t.pool
      /\ \A knot \in Knots' : knot \in Knots \/ knot \subseteq t.pool
      /\ \A u \in Is("Resolve")' : \A p \in u.proposals : p \in t.pool
      /\ seen'.proposals = seen.proposals
  BY TierTakes
<1>2. /\ \A u \in Maps' : u \in Maps \/ u.pool = t.pool
      /\ t \in Maps
  BY TierLeaves
<1>3. t.pool \subseteq seen.proposals
  BY <1>2 DEF Ours
<1>4. Picked' \cup Resolving' \subseteq seen.proposals
  BY <1>1, <1>3 DEF Ours, Resolving
<1>5. \A u \in Maps' : u.pool \subseteq seen.proposals
  BY <1>2, <1>3 DEF Ours
<1>6. \A knot \in Knots' : knot \subseteq seen.proposals
  BY <1>1, <1>3 DEF Ours
<1> QED
  BY <1>1, <1>4, <1>5, <1>6 DEF Ours

LEMMA TierProposed == ASSUME Typed, Phased, Proposed, NEW t \in tasks, MapTier(t) PROVE Proposed'
<1>1. /\ \A p \in Picked' : p \in Picked \/ p \in t.pool
      /\ \A u \in Is("Resolve")' : \A p \in u.proposals : p \in t.pool /\ p.tier = t.tier
      /\ UNCHANGED <<given, db>> /\ seen'.proposals = seen.proposals
  BY TierTakes
<1>2. /\ \A u \in Maps' : u \in Maps \/ u.pool = t.pool
      /\ t \in Maps
  BY TierLeaves
<1>3. \A p \in t.pool : p.release \notin given.pinned /\ p.rows # {}
  BY <1>2 DEF Proposed
<1>4. \A p \in Picked' : p.release \in given.pinned => p \in seen.proposals
  BY <1>1, <1>3 DEF Proposed
<1>5. \A u \in Maps' : \A p \in u.pool : p.release \notin given.pinned /\ p.rows # {}
  BY <1>2, <1>3 DEF Proposed
<1>6. \A p \in Resolving' : p.release \notin given.pinned /\ p.rows # {}
  BY <1>1, <1>3 DEF Resolving
<1>7. \A u \in Is("Resolve")' : \A p, q \in u.proposals : p.tier = q.tier
  BY <1>1
<1>8. /\ \A p, q \in seen'.proposals : p.release = q.release => p = q
      /\ \A p \in seen'.proposals : p.rows # {}
  BY <1>1 DEF Proposed
<1> QED
  BY <1>1, <1>4, <1>5, <1>6, <1>7, <1>8 DEF Proposed

\* What a solver picks is from its component.
LEMMA ResolveTakes ==
  ASSUME Typed, NEW t \in tasks, Resolve(t)
  PROVE  /\ \A p \in Picked' : p \in Picked \/ p \in Resolving
         /\ Knots' = Knots /\ Is("Resolve")' \subseteq Is("Resolve") /\ Maps' = Maps
         /\ UNCHANGED <<given, db>> /\ seen'.proposals = seen.proposals
<1>1. /\ t.name = "Resolve" /\ tasks' = tasks \ {t} /\ UNCHANGED <<given, db, todo>>
      /\ seen'.proposals = seen.proposals
  BY ResolveSends
<1>2. PICK choice \in Best(t.proposals), whole \in BOOLEAN :
        /\ Picked' = Picked \cup (IF whole THEN Named(choice, t.manifest) ELSE {})
        /\ Knots' = Knots
  BY ResolveSends
<1>3. choice \subseteq Resolving
  <2>1. choice \in SUBSET t.proposals
    BY <1>2, BestIs
  <2> QED
    BY <1>1, <2>1 DEF Resolving, Is
<1>4. Is("Resolve")' \subseteq Is("Resolve") /\ Maps' = Maps
  BY <1>1 DEF Is, Maps, Ahead
<1>5. \A p \in Picked' : p \in Picked \/ p \in choice
  BY <1>2 DEF Named
<1> QED
  BY <1>1, <1>2, <1>3, <1>4, <1>5

LEMMA ResolveOurs == ASSUME Typed, Ours, NEW t \in tasks, Resolve(t) PROVE Ours'
<1>1. /\ \A p \in Picked' : p \in Picked \/ p \in Resolving
      /\ Knots' = Knots /\ Is("Resolve")' \subseteq Is("Resolve") /\ Maps' = Maps
      /\ seen'.proposals = seen.proposals
  BY ResolveTakes
<1>2. Resolving' \subseteq Resolving
  BY <1>1 DEF Resolving
<1> QED
  BY <1>1, <1>2 DEF Ours

LEMMA ResolveProposed == ASSUME Typed, Proposed, NEW t \in tasks, Resolve(t) PROVE Proposed'
<1>1. /\ \A p \in Picked' : p \in Picked \/ p \in Resolving
      /\ Is("Resolve")' \subseteq Is("Resolve") /\ Maps' = Maps
      /\ UNCHANGED <<given, db>> /\ seen'.proposals = seen.proposals
  BY ResolveTakes
<1>2. Resolving' \subseteq Resolving
  BY <1>1 DEF Resolving
<1>3. \A p \in Picked' : p.release \in given.pinned => p \in seen.proposals
  BY <1>1 DEF Proposed
<1>4. \A u \in Is("Resolve")' : \A p, q \in u.proposals : p.tier = q.tier
  BY <1>1 DEF Proposed
<1>5. /\ \A u \in Maps' : \A p \in u.pool : p.release \notin given.pinned /\ p.rows # {}
      /\ \A p \in Resolving' : p.release \notin given.pinned /\ p.rows # {}
      /\ \A p, q \in seen.proposals : p.release = q.release => p = q
      /\ \A p \in seen.proposals : p.rows # {}
  BY <1>1, <1>2 DEF Proposed
<1> QED
  BY <1>1, <1>3, <1>4, <1>5 DEF Proposed

-----------------------------------------------------------------------------
(* Claims and packed releases.                                             *)

\* A repack that is under way stays so.
LEMMA RemappingBy ==
  ASSUME \A t \in tasks : t.name = "Pack" /\ t.step = "drain" /\ ~t.incremental => t \in tasks',
         \A t \in Ahead : t.name = "Mappings" => \E u \in Ahead' : u.name = "Mappings"
  PROVE  Remapping => Remapping'
BY DEF Remapping, Is

\* No step but a mapping's ends what a full repack began.
LEMMA RemappingStays ==
  ASSUME Typed,
         \/ UNCHANGED vars \/ Repack \/ Rescore \/ DbApply \/ NextPhaseStarts
         \/ \E i \in Inode : Edit(i) \/ Drop(i)
         \/ \E t \in tasks :
              \/ PackRead(t) \/ PackNothing(t) \/ PackMarks(t) \/ PackWrite(t)
              \/ PackDone(t) \/ ScoreCandidates(t)
              \/ MappingsClear(t) \/ MapTier(t) \/ Resolve(t) \/ Gaps(t)
  PROVE  Remapping => Remapping'
<1>1. CASE \/ UNCHANGED vars \/ DbApply
           \/ \E i \in Inode : Edit(i) \/ Drop(i)
  BY <1>1 DEF vars, DbApply, Edit, Drop, Remapping, Is, Ahead
<1>2. CASE Repack
  BY <1>2, RemappingBy DEF Repack, Ahead
<1>3. CASE Rescore
  <2>1. tasks = {} /\ todo' = todo
    BY <1>3 DEF Rescore, Quiet
  <2> QED
    BY <2>1, RemappingBy DEF Ahead
<1>4. CASE NextPhaseStarts
  <2>1. PICK t \in Phase : tasks' = {t} /\ Range(todo) = {t} \cup Range(todo')
    BY <1>4, PhaseStarts
  <2>2. tasks = {}
    BY <1>4, PhaseStarts
  <2>3. Ahead' = Ahead
    BY <2>1, <2>2 DEF Ahead
  <2> QED
    BY <2>2, <2>3, RemappingBy
<1>5. ASSUME NEW t \in tasks, PackRead(t) PROVE Remapping => Remapping'
  BY <1>5, RemappingBy DEF PackRead, Ahead
<1>14. ASSUME NEW t \in tasks, PackMarks(t) PROVE Remapping => Remapping'
  <2>1. t.name = "Pack" /\ t.step = "marks" /\ tasks \ {t} \subseteq tasks' /\ todo' = todo
    BY <1>14, MarksAre
  <2> QED
    BY <2>1, RemappingBy DEF Ahead
<1>6. ASSUME NEW t \in tasks, PackNothing(t) PROVE Remapping => Remapping'
  BY <1>6, RemappingBy DEF PackNothing, Finish, Ahead
<1>7. ASSUME NEW t \in tasks, PackWrite(t) PROVE Remapping => Remapping'
  <2>1. t.name = "Pack" /\ t.step = "write" /\ tasks \ {t} \subseteq tasks' /\ todo' = todo
    BY <1>7, PackWriteIs
  <2> QED
    BY <2>1, RemappingBy DEF Ahead
<1>8. ASSUME NEW t \in tasks, PackDone(t) PROVE Remapping => Remapping'
  <2> DEFINE next == [name |-> "Mappings", run |-> t.run, step |-> "clear"]
  <2>1. /\ t.name = "Pack" /\ tasks \ {t} \subseteq tasks'
        /\ todo' = IF t.incremental THEN todo ELSE Append(todo, next)
    BY <1>8 DEF PackDone
  <2>2. next \in Phase /\ next.name = "Mappings" /\ todo \in Seq(Phase)
    <3>1. t \in Task
      BY DEF Typed
    <3>2. t.run \in Nat
      BY <3>1, TaskFacts
    <3> QED
      BY <3>2 DEF Phase, Typed
  <2> HIDE DEF next
  <2>3. CASE t.incremental
    BY <2>1, <2>3, RemappingBy DEF Ahead
  <2>4. CASE ~t.incremental
    <3>1. Range(todo') = Range(todo) \cup {next}
      BY <2>1, <2>2, <2>4, Appending
    <3> QED
      BY <2>2, <3>1 DEF Remapping, Ahead
  <2> QED
    BY <2>3, <2>4
<1>9. ASSUME NEW t \in tasks, ScoreCandidates(t) PROVE Remapping => Remapping'
  BY <1>9, RemappingBy DEF ScoreCandidates, Finish, Ahead
<1>10. ASSUME NEW t \in tasks, MappingsClear(t) PROVE Remapping'
  <2>1. PICK u : u.name = "Mappings" /\ tasks' = (tasks \ {t}) \cup {u}
    BY <1>10, ClearIs
  <2> QED
    BY <2>1 DEF Remapping, Ahead
<1>11. ASSUME NEW t \in tasks, MapTier(t) PROVE Remapping => Remapping'
  <2>1. t.name = "Map" /\ tasks \ {t} \subseteq tasks'
    BY <1>11, TierSends
  <2>2. /\ t.tier \in Tier /\ t.pool \in SUBSET Proposal /\ t.run \in Nat
        /\ \E kept \in Keepers(t.tier, Eligible(t)) : TierMapped(t, kept) \/ TierBroken(t, kept)
    BY <1>11, MapTierIs
  <2>3. todo' = Append(todo, NextPhase(t)) \/ todo' = todo
    BY <2>2 DEF TierMapped, TierBroken
  <2>4. NextPhase(t) \in Phase /\ todo \in Seq(Phase)
    BY <2>2, NextPhaseIs DEF Typed
  <2>5. Range(Append(todo, NextPhase(t))) = Range(todo) \cup {NextPhase(t)}
    BY <2>4, Appending
  <2>6. Range(todo) \subseteq Range(todo')
    BY <2>3, <2>5
  <2> QED
    BY <2>1, <2>6, RemappingBy DEF Ahead
<1>12. ASSUME NEW t \in tasks, Resolve(t) PROVE Remapping => Remapping'
  <2>1. t.name = "Resolve" /\ tasks' = tasks \ {t} /\ todo' = todo
    BY <1>12, ResolveSends
  <2> QED
    BY <2>1, RemappingBy DEF Ahead
<1>13. ASSUME NEW t \in tasks, Gaps(t) PROVE Remapping => Remapping'
  BY <1>13, RemappingBy DEF Gaps, Finish, Ahead
<1> QED
  BY <1>1, <1>2, <1>3, <1>4, <1>5, <1>6, <1>7, <1>8, <1>9, <1>10, <1>11, <1>12, <1>13,
     <1>14

\* Steps that write neither claims nor packed releases.
LEMMA SameMatching ==
  ASSUME Matching, UNCHANGED <<given, db>>, seen.touched \subseteq seen'.touched,
         seen.overlapped => seen'.overlapped, seen.bailed => seen'.bailed,
         Remapping => Remapping'
  PROVE  Matching'
<1> SUFFICES ASSUME ~seen'.bailed, ~Remapping' PROVE ClaimsRowed' /\ RowsClaimed'
  BY DEF Matching
<1>1. ClaimsRowed /\ RowsClaimed
  BY DEF Matching
<1>2. \A c : Excusable(c) => Excusable(c)'
  BY DEF Excusable, BothPinned
<1>3. Rowed' = Rowed
  BY DEF Rowed
<1>4. ClaimsRowed'
  BY <1>1, <1>2, <1>3 DEF ClaimsRowed
<1>5. RowsClaimed'
  BY <1>1, <1>2, <1>3 DEF RowsClaimed
<1> QED
  BY <1>4, <1>5

\* Calm steps leave the claims and the packed releases alone.
LEMMA CalmMatching == ASSUME Matching, Calm, Remapping => Remapping' PROVE Matching'
BY SameMatching DEF Calm

\* A mapping starts from nothing.
LEMMA ProposedMatching ==
  ASSUME Typed, Phased, NEW t \in tasks, MappingsProposed(t) PROVE Matching'
<1>1. db.packed = {} /\ db.claims = {} /\ db' = db
  BY Blank, ProposedIs DEF MappingsProposed
<1> QED
  BY <1>1 DEF Matching, ClaimsRowed, RowsClaimed, Rowed

\* The operations that a run which has been mapped can still send.
LEMMA NoClearing ==
  ASSUME Phased, Truncated, ~Remapping, ~seen.bailed, NEW op \in Range(queue)
  PROVE  op.name \notin {"truncate", "clear", "unclaim"}
<1>1. op.name # "truncate"
  BY DEF Truncated, Remapping, Sent
<1>2. op.name # "clear"
  <2>1. Sent("clear") = {}
    BY DEF Phased, Clearing, Remapping, Ahead, Is
  <2> QED
    BY <2>1 DEF Sent
<1>3. op.name # "unclaim"
  BY DEF Phased, Noticed, Sent
<1> QED
  BY <1>1, <1>2, <1>3

\* A packed release is replaced by the same tier of the same release only, and
\* that is the same proposal, unless two runs overlap and it is not pinned.
LEMMA Replaced ==
  ASSUME Typed, Phased, Truncated, Proposed, ~Remapping, ~seen.bailed, DbApply, NEW p \in db.packed
  PROVE  \/ p \in db'.packed
         \/ \E q \in db'.packed : /\ q.release = p.release
                                  /\ q \in Picked /\ p \in Picked
                                  /\ p.release \notin given.pinned
<1>1. PICK op \in Op : /\ op \in Range(queue) /\ Range(queue) = {op} \cup Range(queue')
                       /\ db' = Applied(db, op)
  BY ApplyIs
<1>2. op.name \notin {"truncate", "clear", "unclaim"}
  BY <1>1, NoClearing
<1>3. CASE op.name # "emit"
  BY <1>1, <1>2, <1>3, PackedApplied
<1>4. CASE op.name = "emit"
  <2>1. db'.packed = op.picks \cup
          {o \in db.packed : \A q \in op.picks : o.release # q.release \/ o.tier # q.tier}
    BY <1>1, <1>4, PackedApplied
  <2>2. p \in Picked /\ op.picks \subseteq Picked
    BY <1>1, <1>4 DEF Picked, Sent
  <2>3. CASE \A q \in op.picks : p.release # q.release \/ p.tier # q.tier
    BY <2>1, <2>3
  <2>4. ASSUME NEW q \in op.picks, p.release = q.release PROVE p = q \/ p.release \notin given.pinned
    BY <2>2, <2>4 DEF Proposed
  <2> QED
    BY <2>1, <2>2, <2>3, <2>4
<1> QED
  BY <1>3, <1>4

\* Packed releases and their claims are written by one operation.
LEMMA ApplyMatching ==
  ASSUME Typed, Phased, Apart, Truncated, Proposed, Single, Matching, DbApply PROVE Matching'
<1>1. PICK op \in Op : /\ op \in Range(queue) /\ Range(queue) = {op} \cup Range(queue')
                       /\ db' = Applied(db, op)
  BY ApplyIs
<1>2. UNCHANGED <<given, version, tasks, todo, asked, seen>>
  BY ApplyIs
<1>3. Remapping' <=> Remapping
  BY <1>2 DEF Remapping, Is, Ahead
<1> SUFFICES ASSUME ~seen.bailed, ~Remapping PROVE ClaimsRowed' /\ RowsClaimed'
  BY <1>2, <1>3 DEF Matching
<1>4. ClaimsRowed /\ RowsClaimed /\ PicksApart
  BY DEF Matching, Apart
<1>5. op.name \notin {"truncate", "clear", "unclaim"}
  BY <1>1, NoClearing
<1>6. \A p \in db.packed : \/ p \in db'.packed
                           \/ \E q \in db'.packed : /\ q.release = p.release
                                                    /\ q \in Picked /\ p \in Picked
                                                    /\ p.release \notin given.pinned
  BY Replaced
<1>7. \A c : Excusable(c) => Excusable(c)'
  <2> SUFFICES ASSUME NEW c, NEW p \in db.packed, NEW q \in db.packed, p # q, BothPinned(p, q),
                      c[1] \in Files(p) \cap Files(q)
               PROVE  Excusable(c)'
    BY <1>2 DEF Excusable
  <2>1. p \in db'.packed /\ q \in db'.packed
    BY <1>6 DEF BothPinned
  <2> QED
    BY <1>2, <2>1 DEF Excusable, BothPinned
<1>8. ASSUME NEW c, \E p \in db.packed : p.release = c[2]
      PROVE  \E p \in db'.packed : p.release = c[2]
  BY <1>6, <1>8
<1>9. ASSUME NEW c \in Rowed
      PROVE  c \in Rowed' \/ (seen.overlapped /\ \E p \in db'.packed : p.release = c[2])
  <2>1. PICK p \in db.packed : c \in Claims(p)
    BY <1>9 DEF Rowed
  <2>2. CASE p \in db'.packed
    BY <2>1, <2>2 DEF Rowed
  <2>3. CASE p \notin db'.packed
    <3>1. PICK q \in db'.packed : q.release = p.release /\ q \in Picked /\ p \in Picked
      BY <1>6, <2>3
    <3>2. c[2] = p.release
      BY <2>1 DEF Claims
    <3>3. seen.overlapped
      <4> SUFFICES ASSUME ~seen.overlapped PROVE FALSE
        BY DEF Typed, Seen
      <4>1. p \in seen.proposals /\ q \in seen.proposals
        BY <3>1 DEF Single, Ours
      <4>2. p = q
        BY <3>1, <4>1 DEF Proposed
      <4> QED
        BY <2>3, <4>2
    <3> QED
      BY <3>1, <3>2, <3>3
  <2> QED
    BY <2>2, <2>3
<1>10. CASE op.name = "emit"
  <2>1. db'.claims = {c \in db.claims : \A n \in NewClaims(op) : n[1] # c[1]} \cup NewClaims(op)
    BY <1>1, <1>10, ClaimsApplied
  <2>2. db'.packed = op.picks \cup
          {o \in db.packed : \A q \in op.picks : o.release # q.release \/ o.tier # q.tier}
    BY <1>1, <1>10, PackedApplied
  <2>3. NewClaims(op) \subseteq Rowed'
    BY <2>2 DEF NewClaims, Rowed
  <2>4. ASSUME NEW c \in db'.claims
        PROVE  c \in Rowed' \/ Excusable(c)'
                 \/ (seen'.overlapped /\ \E p \in db'.packed : p.release = c[2])
    <3>1. CASE c \in NewClaims(op)
      BY <2>3, <3>1
    <3>2. CASE c \in db.claims
      <4>1. c \in Rowed \/ Excusable(c) \/ (seen.overlapped /\ \E p \in db.packed : p.release = c[2])
        BY <1>4, <3>2 DEF ClaimsRowed
      <4> QED
        BY <1>2, <1>7, <1>8, <1>9, <4>1
    <3> QED
      BY <2>1, <2>4, <3>1, <3>2
  <2>5. ASSUME NEW c \in Rowed' PROVE c \in db'.claims \/ Excusable(c)'
    <3>1. PICK p \in db'.packed : c \in Claims(p)
      BY <2>5 DEF Rowed
    <3>2. CASE p \in op.picks
      BY <2>1, <3>1, <3>2 DEF NewClaims
    <3>3. CASE p \in db.packed /\ p \notin op.picks
      <4>1. c \in Rowed
        BY <3>1, <3>3 DEF Rowed
      <4>2. CASE Excusable(c)
        BY <1>7, <4>2
      <4>3. CASE c \in db.claims /\ \A n \in NewClaims(op) : n[1] # c[1]
        BY <2>1, <4>3
      <4>4. ASSUME NEW n \in NewClaims(op), n[1] = c[1] PROVE Excusable(c)'
        <5>1. PICK q \in op.picks : n \in Claims(q)
          BY <4>4 DEF NewClaims
        <5>2. c[1] \in Files(p) /\ c[1] \in Files(q)
          <6>1. c[1] \in Files(p)
            BY <3>1, ClaimOfFile
          <6>2. n[1] \in Files(q)
            BY <5>1, ClaimOfFile
          <6> QED
            BY <4>4, <6>1, <6>2
        <5>3. p \in Picked /\ q \in Picked
          BY <1>1, <1>10, <3>3, <5>1 DEF Picked, Sent
        <5>4. p # q /\ Compatible(p, q)
          BY <1>4, <3>3, <5>1, <5>3 DEF PicksApart
        <5>5. BothPinned(p, q) \/ c[1] \in seen.touched
          BY <5>2, <5>4 DEF Compatible
        <5>6. q \in db'.packed
          BY <2>2, <5>1
        <5>7. CASE BothPinned(p, q)
          <6>1. BothPinned(p, q)' /\ c[1] \in Files(p) \cap Files(q)
            BY <1>2, <5>2, <5>7 DEF BothPinned
          <6> QED
            BY <3>1, <5>4, <5>6, <6>1 DEF Excusable
        <5>8. CASE c[1] \in seen.touched
          BY <1>2, <5>8 DEF Excusable
        <5> QED
          BY <5>5, <5>7, <5>8
      <4>5. c \in db.claims \/ Excusable(c)
        BY <1>4, <4>1 DEF RowsClaimed
      <4> QED
        BY <4>2, <4>3, <4>4, <4>5
    <3> QED
      BY <2>2, <3>1, <3>2, <3>3
  <2>6. ClaimsRowed'
    BY <2>4 DEF ClaimsRowed
  <2>7. RowsClaimed'
    BY <2>5 DEF RowsClaimed
  <2> QED
    BY <2>6, <2>7
<1>11. CASE op.name # "emit"
  <2>1. db'.packed = db.packed
    BY <1>1, <1>5, <1>11, PackedApplied
  <2>2. Rowed' = Rowed
    BY <2>1 DEF Rowed
  <2>3. CASE op.name \in {"edit", "drop"}
    <3>1. db'.claims = {c \in db.claims : c[1] # op.of}
      BY <1>1, <2>3, ClaimsApplied
    <3>2. op.of \in seen.touched
      BY <1>1, <2>3 DEF Phased, Noticed
    <3>3. ClaimsRowed'
      BY <1>2, <1>4, <1>7, <2>1, <2>2, <3>1 DEF ClaimsRowed
    <3>4. \A c \in db.claims : c \in db'.claims \/ Excusable(c)'
      BY <1>2, <3>1, <3>2 DEF Excusable
    <3>5. RowsClaimed'
      BY <1>4, <1>7, <2>2, <3>4 DEF RowsClaimed
    <3> QED
      BY <3>3, <3>5
  <2>4. CASE op.name \notin {"edit", "drop"}
    <3>1. db'.claims = db.claims
      BY <1>1, <1>5, <1>11, <2>4, ClaimsApplied
    <3>2. ClaimsRowed'
      BY <1>2, <1>4, <1>7, <2>1, <2>2, <3>1 DEF ClaimsRowed
    <3>3. RowsClaimed'
      BY <1>4, <1>7, <2>2, <3>1 DEF RowsClaimed
    <3> QED
      BY <3>2, <3>3
  <2> QED
    BY <2>3, <2>4
<1> QED
  BY <1>10, <1>11

-----------------------------------------------------------------------------
(* The manifest: what is scored, mapped or solved is in it.                *)

\* A step that sends neither scores nor a truncation, and starts nothing new.
LEMMA AddIn ==
  ASSUME Typed, AllIn, NEW names, Appends(names), names \cap {"truncate", "scores"} = {},
         db' = db, Is("Score")' \subseteq Is("Score"),
         \A t \in Is("Pack")' : t.step = "drain" => t \in Is("Pack")
  PROVE  (ScoresIn /\ ScoresComeIn /\ ScorersIn /\ PackersIn)'
<1>1. PICK ops \in Seq(Op) : queue' = queue \o ops /\ \A k \in DOMAIN ops : ops[k].name \in names
  BY DEF Appends
<1>2. /\ \A k \in DOMAIN queue : k \in DOMAIN queue' /\ queue'[k] = queue[k]
      /\ \A k \in DOMAIN queue' :
           \/ k \in DOMAIN queue
           \/ \E j \in DOMAIN ops : k = Len(queue) + j /\ queue'[k] = ops[j]
  BY <1>1, Behind
<1>3. \A k \in DOMAIN queue' : queue'[k].name \in {"truncate", "scores"} => k \in DOMAIN queue
  BY <1>1, <1>2
<1>4. ScoresIn' /\ ScorersIn'
  BY DEF AllIn, ScoresIn, ScorersIn
<1>5. ScoresComeIn'
  BY <1>2, <1>3 DEF AllIn, ScoresComeIn
<1>6. ASSUME NEW t, ListedIn(t) PROVE ListedIn(t)'
  BY <1>2, <1>3, <1>6 DEF ListedIn
<1>7. ASSUME NEW t, ListedComeIn(t) PROVE ListedComeIn(t)'
  BY <1>2, <1>3, <1>7 DEF ListedComeIn
<1>8. PackersIn'
  BY <1>6, <1>7 DEF AllIn, PackersIn
<1> QED
  BY <1>4, <1>5, <1>8

\* Tiers and solvers that stay.
LEMMA FewerIn ==
  ASSUME AllIn, db' = db, Fewer
  PROVE  (PoolsIn /\ SolversIn)'
BY DEF AllIn, PoolsIn, SolversIn, Fewer

\* A truncation finds nobody at work but the repack that sent it.
LEMMA TruncationAlone ==
  ASSUME Truncated, Sole, Sent("truncate") # {}
  PROVE  /\ Is("Score") = {} /\ Is("Resolve") = {} /\ Maps = {}
         /\ \E t \in Is("Pack") : tasks = {t} /\ todo = <<>> /\ t.step = "drain"
<1>1. PICK t \in Is("Pack") : t.step = "drain"
  BY DEF Truncated
<1>2. t \in tasks /\ t.name = "Pack"
  BY DEF Is
<1>3. tasks = {t} /\ todo = <<>>
  BY <1>2, LoneTask
<1>4. Range(todo) = {}
  <2>1. DOMAIN <<>> = {}
    OBVIOUS
  <2> QED
    BY <1>3, <2>1 DEF Range
<1> QED
  BY <1>1, <1>2, <1>3, <1>4 DEF Is, Maps, Ahead

\* A truncation empties both; the manifest is written before any score.
LEMMA ApplyIn ==
  ASSUME Typed, Truncated, Sole, AllIn, DbApply
  PROVE  AllIn'
<1>1. PICK op \in Op : /\ op = Head(queue) /\ op \in Range(queue)
                       /\ db' = Applied(db, op)
  BY ApplyIs
<1>2. UNCHANGED <<given, version, tasks, todo, asked, seen>>
  BY ApplyIs
<1>3. /\ 1 \in DOMAIN queue /\ queue[1] = op
      /\ \A k \in DOMAIN queue' : k + 1 \in DOMAIN queue /\ queue[k + 1] = queue'[k]
      /\ \A k \in DOMAIN queue : k = 1 \/ (k - 1 \in DOMAIN queue' /\ queue'[k - 1] = queue[k])
      /\ DOMAIN queue \subseteq Nat /\ DOMAIN queue' \subseteq Nat
  BY <1>1, Shift
<1>4. /\ Is("Score")' = Is("Score") /\ Is("Pack")' = Is("Pack")
      /\ Is("Resolve")' = Is("Resolve") /\ Maps' = Maps
  BY <1>2 DEF Is, Maps, Ahead
<1>5. SolversIn'
  BY <1>4 DEF AllIn, SolversIn
<1>6. ASSUME NEW t, op.name # "truncate", ListedIn(t) PROVE ListedIn(t)'
  <2>1. db.manifest \subseteq db'.manifest
    BY <1>1, <1>6, ScoresApplied
  <2> QED
    BY <1>3, <1>6, <2>1 DEF ListedIn
<1>7. ASSUME NEW t, ListedComeIn(t) PROVE ListedIn(t)' \/ ListedComeIn(t)'
  <2>1. PICK k \in DOMAIN queue : /\ queue[k].name = "manifest" /\ t.listed \subseteq queue[k].of
                                  /\ \A j \in DOMAIN queue : j > k => queue[j].name # "truncate"
    BY <1>7 DEF ListedComeIn
  <2>2. CASE k = 1
    <3>1. op.name = "manifest" /\ t.listed \subseteq op.of
      BY <1>3, <2>1, <2>2
    <3>2. t.listed \subseteq db'.manifest
      BY <1>1, <3>1, ScoresApplied
    <3>3. \A j \in DOMAIN queue' : queue'[j].name # "truncate"
      <4> TAKE j \in DOMAIN queue'
      <4>1. j + 1 \in DOMAIN queue /\ queue[j + 1] = queue'[j] /\ j \in Nat
        BY <1>3
      <4>2. j + 1 \in Nat /\ j + 1 # 0
        BY <4>1
      <4>3. 1 \in DOMAIN queue /\ (j = 0 \/ j + 1 > k)
        BY <1>3, <2>2, <4>1
      <4>4. j # 0
        <5>1. queue' \in Seq(Op)
          BY TypedDbApply DEF Typed
        <5> QED
          BY <5>1, LenProperties
      <4> QED
        BY <2>1, <4>1, <4>3, <4>4
    <3> QED
      BY <3>2, <3>3 DEF ListedIn
  <2>3. CASE k # 1
    <3>1. k - 1 \in DOMAIN queue' /\ queue'[k - 1] = queue[k] /\ k \in Nat
      BY <1>3, <2>3
    <3>2. ASSUME NEW j \in DOMAIN queue', j > k - 1 PROVE queue'[j].name # "truncate"
      <4>1. j + 1 \in DOMAIN queue /\ queue[j + 1] = queue'[j] /\ j \in Nat
        BY <1>3
      <4>2. j + 1 > k
        BY <3>1, <3>2, <4>1
      <4> QED
        BY <2>1, <4>1, <4>2
    <3> QED
      BY <2>1, <3>1, <3>2 DEF ListedComeIn
  <2> QED
    BY <2>2, <2>3
<1>8. ScoresComeIn'
  <2> SUFFICES ASSUME NEW k \in DOMAIN queue', queue'[k].name = "scores"
               PROVE  /\ queue'[k].release \in db'.manifest
                      /\ \A j \in DOMAIN queue' : j <= k => queue'[j].name # "truncate"
    BY DEF ScoresComeIn
  <2>1. k + 1 \in DOMAIN queue /\ queue[k + 1] = queue'[k] /\ k \in Nat
    BY <1>3
  <2>2. /\ queue'[k].release \in db.manifest
        /\ \A j \in DOMAIN queue : j <= k + 1 => queue[j].name # "truncate"
    BY <2>1 DEF AllIn, ScoresComeIn
  <2>3. op.name # "truncate"
    <3>1. 1 <= k + 1
      BY <2>1
    <3> QED
      BY <1>3, <2>2, <3>1
  <2>4. db.manifest \subseteq db'.manifest
    BY <1>1, <2>3, ScoresApplied
  <2>5. ASSUME NEW j \in DOMAIN queue', j <= k PROVE queue'[j].name # "truncate"
    <3>1. j + 1 \in DOMAIN queue /\ queue[j + 1] = queue'[j] /\ j \in Nat
      BY <1>3
    <3>2. j + 1 <= k + 1
      BY <2>1, <2>5, <3>1
    <3> QED
      BY <2>2, <3>1, <3>2
  <2> QED
    BY <2>2, <2>4, <2>5
<1>9. CASE op.name = "truncate"
  <2>1. Sent("truncate") # {}
    BY <1>1, <1>9 DEF Sent
  <2>2. Is("Score") = {} /\ Is("Resolve") = {} /\ Maps = {}
    BY <2>1, TruncationAlone
  <2>3. ScoresIn'
    BY <1>1, <1>9, ScoresApplied DEF ScoresIn
  <2>4. \A t : ~ListedIn(t)
    BY <1>3, <1>9 DEF ListedIn
  <2>5. PackersIn'
    BY <1>4, <1>7, <2>4 DEF AllIn, PackersIn
  <2> QED
    BY <1>4, <1>5, <1>8, <2>2, <2>3, <2>5 DEF AllIn, ScorersIn, PoolsIn
<1>10. CASE op.name # "truncate"
  <2>1. db.manifest \subseteq db'.manifest
    BY <1>1, <1>10, ScoresApplied
  <2>2. ScoresIn'
    <3> SUFFICES ASSUME NEW r \in Release, db'.scores[r] # {} PROVE r \in db'.manifest
      BY DEF ScoresIn
    <3>1. CASE op.name = "scores" /\ r = op.release
      <4>1. op.release \in db.manifest
        BY <1>3, <3>1 DEF AllIn, ScoresComeIn
      <4> QED
        BY <2>1, <3>1, <4>1
    <3>2. CASE ~(op.name = "scores" /\ r = op.release)
      <4>1. db'.scores[r] \subseteq db.scores[r]
        BY <1>1, <1>10, <3>2, ScoresApplied
      <4>2. db.scores[r] # {}
        BY <4>1
      <4> QED
        BY <2>1, <4>2 DEF AllIn, ScoresIn
    <3> QED
      BY <3>1, <3>2
  <2>3. PackersIn'
    BY <1>4, <1>6, <1>7, <1>10 DEF AllIn, PackersIn
  <2> QED
    BY <1>4, <1>5, <1>8, <2>1, <2>2, <2>3 DEF AllIn, ScorersIn, PoolsIn
<1> QED
  BY <1>9, <1>10

\* A release that is scored is in the manifest: the repack has been drained.
LEMMA ScoreIn ==
  ASSUME Typed, Truncated, Sole, AllIn, NEW t \in tasks, ScoreCandidates(t)
  PROVE  AllIn'
<1>1. PICK ops \in Seq(Op) :
        /\ queue' = queue \o ops
        /\ \A k \in DOMAIN ops : ops[k].name = "scores" /\ ops[k].release = t.release
  BY ScoreIs
<1>2. /\ \A k \in DOMAIN queue : k \in DOMAIN queue' /\ queue'[k] = queue[k]
      /\ \A k \in DOMAIN queue' :
           \/ k \in DOMAIN queue
           \/ \E j \in DOMAIN ops : k = Len(queue) + j /\ queue'[k] = ops[j]
  BY <1>1, Behind
<1>3. t.name = "Score" /\ tasks' = tasks \ {t} /\ UNCHANGED <<given, version, db, todo, asked, seen>>
  BY DEF ScoreCandidates, Finish
<1>4. tasks = Is("Score")
  BY <1>3 DEF Sole, Is
<1>5. Is("Pack") = {} /\ Is("Pack")' = {} /\ Is("Resolve")' = {}
  BY <1>3, <1>4 DEF Is
<1>6. \A k \in DOMAIN queue' : queue'[k].name # "truncate"
  <2>1. Sent("truncate") = {}
    BY <1>5 DEF Truncated
  <2>2. \A k \in DOMAIN queue : queue[k].name # "truncate"
    BY <2>1 DEF Sent, Range
  <2> QED
    BY <1>1, <1>2, <2>2
<1>7. t.release \in db.manifest
  BY <1>3 DEF AllIn, ScorersIn, Is
<1>8. ScoresComeIn'
  BY <1>1, <1>2, <1>3, <1>6, <1>7 DEF AllIn, ScoresComeIn
<1>9. Maps' \subseteq Maps
  BY <1>3 DEF Maps, Ahead
<1> QED
  BY <1>3, <1>5, <1>8, <1>9
     DEF AllIn, ScoresIn, ScorersIn, PackersIn, PoolsIn, SolversIn, Is

\* The manifest is sent after the truncation.
LEMMA PackWriteIn ==
  ASSUME Typed, Truncated, Sole, AllIn, NEW t \in tasks, PackWrite(t)
  PROVE  AllIn'
<1> DEFINE new == [name |-> "Pack", run |-> t.run, incremental |-> t.incremental, step |-> "drain",
                   listed |-> {r \in Scope(t) : Listings(t)[r].files # {}}]
<1>1. /\ t \in Task /\ t.name = "Pack" /\ t.step = "write"
      /\ Scope(t) \in SUBSET Release /\ Listings(t) \in [Release -> Listing]
      /\ queue' = queue \o PackOps(t)
      /\ UNCHANGED <<given, version, db, todo, asked, seen>>
      /\ Scope(t) = {} => tasks' = tasks \ {t}
      /\ Scope(t) # {} => tasks' = (tasks \ {t}) \cup {new}
  BY PackWriteIs
<1>2. t.incremental \in BOOLEAN
  BY <1>1, TaskFacts
<1>3. /\ PackOps(t) \in Seq(Op)
      /\ \A k \in DOMAIN PackOps(t) :
           /\ PackOps(t)[k].name \in {"truncate", "forget", "clean", "manifest", "candidates"}
           /\ PackOps(t)[k].name = "truncate" => k = 1
      /\ Scope(t) # {} => \E k \in DOMAIN PackOps(t) : k > 1 /\ PackOps(t)[k] = Scoped(t)
  BY <1>1, <1>2, PackOpsFacts
<1>4. new.name = "Pack" /\ new.step = "drain" /\ new.listed \subseteq Scope(t)
  OBVIOUS
<1> HIDE DEF new
<1>5. /\ \A k \in DOMAIN queue : k \in DOMAIN queue' /\ queue'[k] = queue[k]
      /\ \A k \in DOMAIN PackOps(t) :
           Len(queue) + k \in DOMAIN queue' /\ queue'[Len(queue) + k] = PackOps(t)[k]
      /\ \A k \in DOMAIN queue' :
           \/ k \in DOMAIN queue
           \/ \E j \in DOMAIN PackOps(t) : k = Len(queue) + j /\ queue'[k] = PackOps(t)[j]
  BY <1>1, <1>3, Behind
<1>6. tasks = {t} /\ todo = <<>>
  BY <1>1, LoneTask
<1>7. tasks' \subseteq {new} /\ (Scope(t) = {} => tasks' = {})
  BY <1>1, <1>6
<1>8. \A k \in DOMAIN queue : queue[k].name # "truncate"
  <2>1. Is("Pack") \subseteq {t}
    BY <1>6 DEF Is
  <2>2. Sent("truncate") = {}
    BY <1>1, <2>1 DEF Truncated
  <2> QED
    BY <2>2 DEF Sent, Range
<1>9. DOMAIN queue = 1 .. Len(queue) /\ Len(queue) \in Nat
  BY LenProperties DEF Typed
<1>10. DOMAIN PackOps(t) \subseteq Nat \ {0}
  BY <1>3, LenProperties
<1>11. ScoresComeIn'
  <2> SUFFICES ASSUME NEW k \in DOMAIN queue', queue'[k].name = "scores"
               PROVE  /\ queue'[k].release \in db'.manifest
                      /\ \A j \in DOMAIN queue' : j <= k => queue'[j].name # "truncate"
    BY DEF ScoresComeIn
  <2>1. k \in DOMAIN queue
    BY <1>3, <1>5
  <2>2. queue[k].release \in db.manifest
    BY <1>5, <2>1 DEF AllIn, ScoresComeIn
  <2>3. ASSUME NEW j \in DOMAIN queue', j <= k PROVE j \in DOMAIN queue
    BY <1>5, <1>9, <1>10, <2>1, <2>3
  <2> QED
    BY <1>1, <1>5, <1>8, <2>1, <2>2, <2>3
<1>12. ASSUME NEW u, u = new, Scope(t) # {} PROVE ListedComeIn(u)'
  <2>1. PICK k \in DOMAIN PackOps(t) : k > 1 /\ PackOps(t)[k] = Scoped(t)
    BY <1>3, <1>12
  <2>2. /\ Len(queue) + k \in DOMAIN queue'
        /\ queue'[Len(queue) + k].name = "manifest" /\ queue'[Len(queue) + k].of = Scope(t)
    BY <1>5, <2>1 DEF Scoped
  <2>3. ASSUME NEW j \in DOMAIN queue', j > Len(queue) + k PROVE queue'[j].name # "truncate"
    <3>1. j \notin DOMAIN queue
      BY <1>9, <1>10, <2>1, <2>3
    <3>2. PICK i \in DOMAIN PackOps(t) : j = Len(queue) + i /\ queue'[j] = PackOps(t)[i]
      BY <1>5, <3>1
    <3>3. i # 1
      BY <1>9, <1>10, <2>1, <2>3, <3>2
    <3> QED
      BY <1>3, <3>2, <3>3
  <2> QED
    BY <1>4, <1>12, <2>2, <2>3 DEF ListedComeIn
<1>13. PackersIn'
  BY <1>7, <1>12 DEF PackersIn, Is
<1>14. Is("Score")' = {} /\ Is("Resolve")' = {}
  BY <1>4, <1>7 DEF Is
<1>15. Maps' = {}
  <2>1. Range(todo)' = {}
    <3>1. DOMAIN <<>> = {}
      OBVIOUS
    <3> QED
      BY <1>1, <1>6, <3>1 DEF Range
  <2> QED
    BY <1>4, <1>7, <2>1 DEF Maps, Ahead
<1> QED
  BY <1>1, <1>11, <1>13, <1>14, <1>15
     DEF AllIn, ScoresIn, ScorersIn, PoolsIn, SolversIn

\* Drained, a repack spawns scorers of releases that are in the manifest.
LEMMA PackDoneIn ==
  ASSUME Typed, Sole, AllIn, NEW t \in tasks, PackDone(t)
  PROVE  AllIn'
<1>1. /\ t.name = "Pack" /\ t.step = "drain" /\ queue = <<>> /\ queue' = queue
      /\ tasks' = (tasks \ {t}) \cup
           {[name |-> "Score", run |-> t.run, release |-> r] : r \in t.listed}
      /\ db' = db
  BY DEF PackDone
<1>2. DOMAIN queue = {} /\ DOMAIN queue' = {}
  <2>1. DOMAIN <<>> = {}
    OBVIOUS
  <2> QED
    BY <1>1, <2>1
<1>3. t.listed \subseteq db.manifest
  BY <1>1, <1>2 DEF AllIn, PackersIn, ListedIn, ListedComeIn, Is
<1>4. tasks = {t} /\ todo = <<>>
  BY <1>1, LoneTask
<1>5. \A u \in tasks' : u.name = "Score" /\ u.release \in t.listed
  BY <1>1, <1>4
<1>6. \A p \in Range(todo') : p.name = "Mappings"
  <2>1. CASE t.incremental
    <3>1. todo' = <<>>
      BY <1>4, <2>1 DEF PackDone
    <3> QED
      BY <3>1, NoPhase
  <2>2. CASE ~t.incremental
    <3> DEFINE next == [name |-> "Mappings", run |-> t.run, step |-> "clear"]
    <3>1. todo' = Append(todo, next) /\ next.name = "Mappings"
      BY <2>2 DEF PackDone
    <3>2. t.run \in Nat
      BY TaskFacts DEF Typed
    <3>3. next \in Phase
      BY <3>2 DEF Phase
    <3> HIDE DEF next
    <3>4. Range(todo') = {next}
      BY <1>4, <3>1, <3>3, OnePhase
    <3> QED
      BY <3>1, <3>4
  <2> QED
    BY <2>1, <2>2
<1>7. Maps' = {}
  BY <1>5, <1>6 DEF Maps, Ahead
<1>8. ScorersIn' /\ PackersIn' /\ SolversIn'
  BY <1>1, <1>3, <1>5 DEF ScorersIn, PackersIn, SolversIn, Is
<1>9. ScoresComeIn'
  BY <1>2 DEF ScoresComeIn
<1>10. ScoresIn'
  BY <1>1 DEF AllIn, ScoresIn
<1> QED
  BY <1>7, <1>8, <1>9, <1>10 DEF AllIn, PoolsIn

\* A proposal has scores, so its release is in the manifest.
LEMMA ProposedIn ==
  ASSUME Typed, Phased, Sole, AllIn, NEW t \in tasks, MappingsProposed(t)
  PROVE  AllIn'
<1>1. /\ Appends({"clear", "emit", "gaps"}) /\ Is("Pack")' = Is("Pack")
      /\ UNCHANGED <<given, version, db, asked>>
  BY MappingSends
<1>2. /\ tasks' = {}
      /\ Range(todo') = {} \/ Range(todo') = {FirstTier(t)}
  BY ProposedLeaves
<1>3. Is("Score")' = {} /\ Is("Resolve")' = {}
  BY <1>2 DEF Is
<1>4. (ScoresIn /\ ScoresComeIn /\ ScorersIn /\ PackersIn)'
  BY <1>1, <1>3, AddIn
<1>5. ASSUME NEW p \in Proposals PROVE p.release \in db.manifest
  <2>1. p.release \in Release
    BY ProposalsAre DEF Proposal
  <2>2. db.scores[p.release] # {}
    BY ProposalsAre
  <2> QED
    BY <2>1, <2>2 DEF AllIn, ScoresIn
<1>6. \A u \in Maps' : u.pool \subseteq Proposals
  BY <1>2, ProposedLeaves, FirstTierIs DEF Maps, Ahead
<1>7. PoolsIn' /\ SolversIn'
  BY <1>1, <1>3, <1>5, <1>6 DEF PoolsIn, SolversIn
<1> QED
  BY <1>4, <1>7 DEF AllIn

\* A tier's solvers are given the manifest it was taken from.
LEMMA TierIn ==
  ASSUME Typed, Phased, AllIn, NEW t \in tasks, MapTier(t)
  PROVE  AllIn'
<1>1. /\ Appends({"clear", "emit", "gaps"}) /\ Is("Pack")' = Is("Pack")
      /\ UNCHANGED <<given, version, db, asked>>
  BY MappingSends
<1>2. \A u \in tasks' \ (tasks \ {t}) : u.name = "Resolve"
  BY TierSends
<1>3. Is("Score")' \subseteq Is("Score")
  <2>1. ASSUME NEW u \in tasks', u.name = "Score" PROVE u \in tasks
    BY <1>2, <2>1
  <2> QED
    BY <2>1 DEF Is
<1>4. (ScoresIn /\ ScoresComeIn /\ ScorersIn /\ PackersIn)'
  BY <1>1, <1>3, AddIn
<1>5. /\ \A u \in Maps' : u \in Maps \ {t} \/ u.pool = t.pool
      /\ t \in Maps
  BY TierLeaves
<1>6. PoolsIn'
  BY <1>1, <1>5 DEF AllIn, PoolsIn
<1>7. \A u \in Is("Resolve")' : \A p \in u.proposals : p \in t.pool
  BY TierTakes
<1>8. \A u \in Is("Resolve")' : u.manifest = db.manifest
  BY TierPicks DEF Solver
<1>9. SolversIn'
  BY <1>5, <1>7, <1>8 DEF AllIn, PoolsIn, SolversIn
<1> QED
  BY <1>4, <1>6, <1>9 DEF AllIn

\* Nothing lets two runs be seen as one again.
LEMMA OverlappedStays ==
  ASSUME Typed, [Next]_vars
  PROVE  seen.overlapped => seen'.overlapped
<1>1. CASE UNCHANGED vars
  BY <1>1 DEF vars
<1>2. CASE Repack
  BY <1>2, RepackCalm DEF Calm
<1>3. CASE Rescore \/ DbApply \/ NextPhaseStarts
  BY <1>3 DEF Rescore, DbApply, NextPhaseStarts
<1>4. ASSUME NEW i \in Inode, Edit(i) \/ Drop(i) PROVE seen.overlapped => seen'.overlapped
  BY <1>4, EditCalm, DropCalm DEF Calm
<1>5. ASSUME NEW t \in tasks, Compute(t) PROVE seen.overlapped => seen'.overlapped
  <2>1. CASE PackMarks(t) \/ PackWrite(t) \/ PackDone(t) \/ ScoreCandidates(t)
    BY <2>1 DEF PackMarks, PackWrite, PackDone, ScoreCandidates
  <2>4. CASE PackRead(t)
    BY <2>4, PackReadCalm DEF Calm
  <2>2. CASE PackNothing(t)
    BY <2>2, NothingIs
  <2>3. CASE \/ MappingsClear(t) \/ MappingsNone(t) \/ MappingsProposed(t)
             \/ MapTier(t) \/ Resolve(t) \/ Gaps(t)
    BY <2>3, MappingSends
  <2> QED
    BY <1>5, <2>1, <2>2, <2>3, <2>4 DEF Compute
<1> QED
  BY <1>1, <1>2, <1>3, <1>4, <1>5 DEF Next

\* Every step keeps the manifest ahead of the scores.
LEMMA ManifestedNext ==
  ASSUME Typed, Phased, Truncated, Single, Manifested, [Next]_vars
  PROVE  Manifested'
<1> SUFFICES ASSUME ~seen'.overlapped PROVE AllIn'
  BY DEF Manifested
<1>1. ~seen.overlapped
  BY OverlappedStays
<1>2. Sole /\ AllIn
  BY <1>1 DEF Single, Manifested
<1>3. ASSUME NEW names, Appends(names), names \cap {"truncate", "scores"} = {},
             db' = db, Is("Score")' \subseteq Is("Score"), Fewer,
             \A t \in Is("Pack")' : t.step = "drain" => t \in Is("Pack")
      PROVE  AllIn'
  <2>1. (ScoresIn /\ ScoresComeIn /\ ScorersIn /\ PackersIn)'
    BY <1>2, <1>3, AddIn
  <2>2. (PoolsIn /\ SolversIn)'
    BY <1>2, <1>3, FewerIn
  <2> QED
    BY <2>1, <2>2 DEF AllIn
<1>4. CASE UNCHANGED vars
  <2>1. queue' = queue /\ db' = db /\ Is("Score")' = Is("Score") /\ Is("Pack")' = Is("Pack")
    BY <1>4 DEF vars, Is
  <2>2. Appends({}) /\ Fewer
    BY <1>4, <2>1, SendsNone, StutterCalm, CalmFewer
  <2> QED
    BY <1>3, <2>1, <2>2
<1>5. CASE Repack
  <2>1. /\ queue' = queue /\ db' = db /\ Is("Score")' \subseteq Is("Score")
        /\ \A t \in Is("Pack")' : t.step = "drain" => t \in Is("Pack")
    BY <1>5 DEF Repack, Is
  <2>2. Appends({}) /\ Fewer
    BY <1>5, <2>1, SendsNone, RepackCalm, CalmFewer
  <2> QED
    BY <1>3, <2>1, <2>2
<1>6. CASE Rescore
  <2>1. /\ queue' = queue /\ db' = db /\ Is("Score")' \subseteq Is("Score")
        /\ \A t \in Is("Pack")' : t.step = "drain" => t \in Is("Pack")
    BY <1>6 DEF Rescore, Is
  <2>2. Appends({}) /\ Fewer
    BY <1>6, <2>1, SendsNone, RescoreCalm, CalmFewer
  <2> QED
    BY <1>3, <2>1, <2>2
<1>7. ASSUME NEW i \in Inode, Edit(i) \/ Drop(i) PROVE AllIn'
  <2>1. db' = db /\ Is("Score")' = Is("Score") /\ Is("Pack")' = Is("Pack")
    BY <1>7 DEF Edit, Drop, Is
  <2>2. Fewer
    BY <1>7, EditCalm, DropCalm, CalmFewer
  <2>3. CASE Edit(i)
    <3>1. PICK op \in Op : op.name = "edit" /\ queue' = queue \o <<op>>
      BY <2>3, EditIs
    <3>2. Appends({"edit"})
      BY <3>1, SendsOne
    <3> QED
      BY <1>3, <2>1, <2>2, <3>2
  <2>4. CASE Drop(i)
    <3>1. Appends({"drop"})
      BY <2>4, DropAppends
    <3> QED
      BY <1>3, <2>1, <2>2, <3>1
  <2> QED
    BY <1>7, <2>3, <2>4
<1>8. CASE DbApply
  BY <1>2, <1>8, ApplyIn
<1>9. CASE NextPhaseStarts
  <2>1. queue' = queue /\ db' = db
    BY <1>9 DEF NextPhaseStarts
  <2>2. Is("Score")' = {} /\ Is("Pack")' = {}
    <3>1. PICK t \in Phase : tasks' = {t}
      BY <1>9, PhaseStarts
    <3>2. t.name \in Solitary
      BY PhaseFacts
    <3> QED
      BY <3>1, <3>2 DEF Is, Solitary
  <2>3. Appends({}) /\ Fewer
    BY <1>9, <2>1, SendsNone, StartFewer
  <2> QED
    BY <1>3, <2>1, <2>2, <2>3
<1>10. ASSUME NEW t \in tasks, PackRead(t) PROVE AllIn'
  <2>1. /\ queue' = queue /\ db' = db /\ Is("Score")' \subseteq Is("Score")
        /\ \A u \in Is("Pack")' : u.step = "drain" => u \in Is("Pack")
    BY <1>10 DEF PackRead, Is
  <2>2. Appends({}) /\ Fewer
    BY <1>10, <2>1, SendsNone, PackReadCalm, CalmFewer
  <2> QED
    BY <1>3, <2>1, <2>2
<1>14. ASSUME NEW t \in tasks, PackMarks(t) PROVE AllIn'
  <2>1. /\ queue' = queue /\ db' = db /\ Is("Score")' \subseteq Is("Score")
        /\ \A u \in Is("Pack")' : u.step = "drain" => u \in Is("Pack")
    BY <1>14, MarksAre DEF Is
  <2>2. Appends({}) /\ Fewer
    BY <1>14, <2>1, SendsNone, PackMarksCalm, CalmFewer
  <2> QED
    BY <1>3, <2>1, <2>2
<1>11. ASSUME NEW t \in tasks, PackNothing(t) PROVE AllIn'
  <2>1. /\ db' = db /\ Is("Score")' \subseteq Is("Score") /\ Is("Pack")' \subseteq Is("Pack")
    BY <1>11 DEF PackNothing, Finish, Is
  <2>2. Appends({"unclaim"}) /\ Fewer
    BY <1>11, NothingAppends, NothingFewer
  <2> QED
    BY <1>3, <2>1, <2>2
<1>12. ASSUME NEW t \in tasks, MappingsClear(t) \/ MappingsNone(t) \/ Resolve(t) \/ Gaps(t)
       PROVE  AllIn'
  <2>1. /\ Appends({"clear", "emit", "gaps"}) /\ Is("Pack")' = Is("Pack")
        /\ UNCHANGED <<given, version, db, asked>>
    BY <1>12, MappingSends
  <2>2. Is("Score")' \subseteq Is("Score")
    <3>1. CASE MappingsClear(t)
      BY <3>1, ClearIs DEF Is
    <3>2. CASE Resolve(t)
      BY <3>2, ResolveSends DEF Is
    <3>3. CASE MappingsNone(t) \/ Gaps(t)
      BY <3>3 DEF MappingsNone, Gaps, Finish, Is
    <3> QED
      BY <1>12, <3>1, <3>2, <3>3
  <2>3. CASE MappingsClear(t) \/ Gaps(t)
    BY <1>3, <2>1, <2>2, <2>3, ClearFewer, GapsFewer
  <2>4. CASE Resolve(t) \/ MappingsNone(t)
    <3>1. /\ Is("Resolve")' \subseteq Is("Resolve") /\ Maps' \subseteq Maps
      BY <2>4, ResolveTakes, NoneLeaves
    <3>2. (PoolsIn /\ SolversIn)'
      BY <1>2, <2>1, <3>1 DEF AllIn, PoolsIn, SolversIn
    <3>3. (ScoresIn /\ ScoresComeIn /\ ScorersIn /\ PackersIn)'
      BY <1>2, <2>1, <2>2, AddIn
    <3> QED
      BY <3>2, <3>3 DEF AllIn
  <2> QED
    BY <1>12, <2>3, <2>4
<1>13. ASSUME NEW t \in tasks,
              \/ PackWrite(t) \/ PackDone(t) \/ ScoreCandidates(t)
              \/ MappingsProposed(t) \/ MapTier(t)
       PROVE  AllIn'
  BY <1>2, <1>13, PackWriteIn, PackDoneIn, ScoreIn, ProposedIn, TierIn
<1> QED
  BY <1>4, <1>5, <1>6, <1>7, <1>8, <1>9, <1>10, <1>11, <1>12, <1>13, <1>14 DEF Next, Compute

-----------------------------------------------------------------------------
(* Order: the better tier goes first.                                      *)

\* Every tier has its round, and no other.
LEMMA RoundIs ==
  ASSUME Typed, NEW p, p.tier \in Tier
  PROVE  /\ RoundOf(p) \in 1 .. 4 /\ Rounds[RoundOf(p)] = p.tier
         /\ \A k \in 1 .. 4 : Rounds[k] = p.tier => RoundOf(p) = k
<1>1. given.singlesFirst \in BOOLEAN
  BY CatalogueFacts DEF Catalogue
<1>2. /\ \E k \in 1 .. 4 : Rounds[k] = p.tier
      /\ \A j, k \in 1 .. 4 : Rounds[j] = Rounds[k] => j = k
  BY <1>1 DEF Rounds, Tier
<1> QED
  BY <1>2 DEF RoundOf

\* Proposals of the same round are of the same tier.
LEMMA SameRound ==
  ASSUME Typed, NEW p, NEW q, p.tier \in Tier, q.tier \in Tier
  PROVE  RoundOf(p) = RoundOf(q) <=> p.tier = q.tier
BY RoundIs DEF RoundOf

\* The rounds follow each other, the last one by the gap analysis.
LEMMA NextRound ==
  ASSUME Typed, NEW t, t.run \in Nat, t.tier \in Tier
  PROVE  /\ NextPhase(t).name = "Map" =>
              /\ NextPhase(t).pool = t.pool
              /\ RoundOf(NextPhase(t)) = RoundOf(t) + 1
         /\ NextPhase(t).name # "Map" => RoundOf(t) = 4
<1>1. RoundOf(t) \in 1 .. 4
  BY RoundIs
<1>2. CASE RoundOf(t) = 4
  BY <1>2 DEF NextPhase
<1>3. CASE RoundOf(t) # 4
  <2>1. RoundOf(t) + 1 \in 1 .. 4
    BY <1>1, <1>3
  <2> DEFINE next == [name |-> "Map", run |-> t.run, tier |-> Rounds[RoundOf(t) + 1], pool |-> t.pool]
  <2>2. NextPhase(t) = next
    BY <1>3 DEF NextPhase
  <2>3. next.name = "Map" /\ next.pool = t.pool /\ next.tier = Rounds[RoundOf(t) + 1]
    OBVIOUS
  <2> HIDE DEF next
  <2>4. next.tier \in Tier
    <3>1. given.singlesFirst \in BOOLEAN
      BY CatalogueFacts DEF Catalogue
    <3> QED
      BY <2>1, <2>3, <3>1 DEF Rounds, Tier
  <2>5. RoundOf(next) = RoundOf(t) + 1
    BY <2>1, <2>3, <2>4, RoundIs
  <2> QED
    BY <2>2, <2>3, <2>5
<1> QED
  BY <1>2, <1>3

\* The ranges of the rounds.
LEMMA ProposalRound ==
  ASSUME Typed, NEW p \in Proposal
  PROVE  RoundOf(p) \in 1 .. 4 /\ PinnedFirst(p) \in 0 .. 4 /\ PinnedFirst(p) <= RoundOf(p)
<1>1. p.tier \in Tier
  BY DEF Proposal
<1>2. RoundOf(p) \in 1 .. 4
  BY <1>1, RoundIs
<1> QED
  BY <1>2 DEF PinnedFirst

\* Steps that leave the picks, the knots, the tiers and the solvers alone.
LEMMA SameOrder ==
  ASSUME InOrder, given' = given, Picked' = Picked, Knots' = Knots,
         Is("Resolve")' = Is("Resolve"), Maps' = Maps,
         seen'.proposals = seen.proposals, seen.touched \subseteq seen'.touched
  PROVE  InOrder'
<1>1. /\ \A p : RoundOf(p)' = RoundOf(p) /\ PinnedFirst(p)' = PinnedFirst(p)
      /\ Resolving' = Resolving
  BY DEF RoundOf, Rounds, PinnedFirst, Resolving
<1>2. ASSUME NEW p, Served(p) PROVE Served(p)'
  BY <1>1, <1>2 DEF Served
<1>3. ASSUME NEW p, Waits(p) PROVE Waits(p)'
  BY <1>1, <1>3 DEF Waits
<1>4. ASSUME NEW t \in Maps'
      PROVE  /\ \A q \in Picked' : PinnedFirst(q)' < RoundOf(t)'
             /\ \A q \in Resolving' : RoundOf(q)' < RoundOf(t)'
  BY <1>1 DEF InOrder
<1>5. \A p \in seen'.proposals : p \in Picked' \/ Served(p)' \/ Waits(p)'
  BY <1>2, <1>3 DEF InOrder
<1> QED
  BY <1>4, <1>5 DEF InOrder

\* Calm steps leave the picks alone, and touch more files.
LEMMA CalmOrder == ASSUME InOrder, Calm PROVE InOrder'
<1>1. /\ Is("Resolve")' = Is("Resolve") /\ Picked' = Picked /\ Knots' = Knots /\ Maps' = Maps
  BY CalmKeeps
<1>2. /\ given' = given /\ seen'.proposals = seen.proposals
      /\ seen.touched \subseteq seen'.touched
  BY DEF Calm
<1> QED
  BY <1>1, <1>2, SameOrder

\* What is written was sent: a release keeps its one proposal.
LEMMA ApplyOrder ==
  ASSUME Typed, Phased, Truncated, Proposed, Ours, ~Remapping, ~seen.bailed, InOrder, DbApply
  PROVE  InOrder'
<1>1. PICK op \in Op : /\ op \in Range(queue) /\ Range(queue) = {op} \cup Range(queue')
                       /\ db' = Applied(db, op)
  BY ApplyIs
<1>2. UNCHANGED <<given, version, tasks, todo, asked, seen>>
  BY ApplyIs
<1>3. op.name \notin {"truncate", "clear", "unclaim"}
  BY <1>1, NoClearing
<1>4. Picked' \subseteq Picked /\ Knots' \subseteq Knots
  BY ApplyPicked
<1>5. CASE op.name # "emit"
  <2>1. Sent("emit")' = Sent("emit")
    BY <1>1, <1>5 DEF Sent
  <2>2. db'.packed = db.packed /\ db'.knots = db.knots
    BY <1>1, <1>3, <1>5, PackedApplied
  <2>3. Picked' = Picked /\ Knots' = Knots
    BY <2>1, <2>2 DEF Picked, Knots
  <2> QED
    BY <1>2, <2>3, SameOrder DEF Is, Maps, Ahead
<1>6. CASE op.name = "emit"
  <2>1. Sent("emit") = {op} \cup Sent("emit")'
    BY <1>1, <1>6 DEF Sent
  <2>2. db'.packed = op.picks \cup
          {o \in db.packed : \A q \in op.picks : o.release # q.release \/ o.tier # q.tier}
    BY <1>1, <1>6, PackedApplied
  <2>3. db'.knots = db.knots \cup op.knots
    BY <1>1, <1>6, PackedApplied
  <2>4. op.picks \subseteq Picked /\ db.packed \subseteq Picked
    BY <2>1 DEF Picked
  <2>5. ASSUME NEW p \in db.packed PROVE p \in db'.packed
    <3>1. \A q \in op.picks : p.release = q.release => p = q
      BY <2>4 DEF Ours, Proposed
    <3> QED
      BY <2>2, <3>1
  <2>6. Picked \subseteq Picked' /\ Knots \subseteq Knots'
    BY <2>1, <2>2, <2>3, <2>5 DEF Picked, Knots
  <2>7. Picked' = Picked /\ Knots' = Knots
    BY <1>4, <2>6
  <2> QED
    BY <1>2, <2>7, SameOrder DEF Is, Maps, Ahead
<1> QED
  BY <1>5, <1>6

\* A phase that starts was already counted among the tiers to come.
LEMMA StartOrder == ASSUME Typed, InOrder, NextPhaseStarts PROVE InOrder'
<1>1. PICK t \in Phase : tasks' = {t} /\ Range(todo) = {t} \cup Range(todo')
  BY PhaseStarts
<1>2. tasks = {} /\ queue' = queue /\ UNCHANGED <<given, version, db, asked, seen>>
  BY PhaseStarts
<1>3. t.name \in Solitary
  BY PhaseFacts
<1>4. Is("Resolve")' = Is("Resolve") /\ Maps' = Maps
  BY <1>1, <1>2, <1>3 DEF Is, Maps, Ahead, Solitary
<1>5. Picked' = Picked /\ Knots' = Knots
  BY <1>2 DEF Picked, Knots, Sent
<1> QED
  BY <1>2, <1>4, <1>5, SameOrder

\* The gap analysis picks nothing.
LEMMA GapsOrder ==
  ASSUME Typed, Phased, InOrder, NEW t \in tasks, Gaps(t)
  PROVE  InOrder'
<1>1. tasks' = tasks \ {t} /\ t.name = "Gaps" /\ UNCHANGED <<given, db, todo, seen>>
  BY DEF Gaps, Finish
<1>2. queue' = queue \o <<GapsOp>>
  BY DEF Gaps, Send, GapsOp
<1>3. Range(queue') = Range(queue) \cup {GapsOp} /\ GapsOp.name = "gaps"
  BY <1>2, GapsIs, OneMore
<1>4. Sent("emit")' = Sent("emit")
  BY <1>3 DEF Sent
<1>5. Is("Resolve")' = Is("Resolve") /\ Maps' = Maps
  BY <1>1 DEF Is, Maps, Ahead
<1> QED
  BY <1>1, <1>4, <1>5, SameOrder DEF Picked, Knots

-----------------------------------------------------------------------------
(* Order: what the solvers and the mapping leave.                          *)

\* A proposal wants a file.
LEMMA FilesOfRows ==
  ASSUME NEW p, p.rows # {}
  PROVE  Files(p) # {}
BY DEF Files

\* Whatever a best choice leaves out wants a file of what it has.
LEMMA BestTakes ==
  ASSUME NEW C \in SUBSET Proposal, NEW choice \in Best(C), NEW k \in C, k.rows # {},
         k \notin choice
  PROVE  \E c \in choice : Compete(c, k)
<1> SUFFICES ASSUME \A c \in choice : ~Compete(c, k) PROVE FALSE
  OBVIOUS
<1> DEFINE more == choice \cup {k}
           few == UNION {Files(p) : p \in choice}
           many == UNION {Files(p) : p \in more}
<1>1. /\ choice \in SUBSET C /\ \A p, q \in choice : p # q => ~Compete(p, q)
      /\ \A T \in Disjoint(C) : Covered(choice) > Covered(T) \/ Covered(choice) = Covered(T)
  <2>1. choice \in SUBSET C /\ \A p, q \in choice : p # q => ~Compete(p, q)
    BY BestIs
  <2>2. \A T \in Disjoint(C) : Covered(choice) > Covered(T) \/ Covered(choice) = Covered(T)
    BY DEF Best
  <2> QED
    BY <2>1, <2>2
<1>2. more \in Disjoint(C)
  <2>1. more \in SUBSET C
    BY <1>1
  <2>2. \A c \in choice : ~Compete(k, c)
    BY CompeteSymmetric
  <2>3. \A p, q \in more : p # q => ~Compete(p, q)
    BY <1>1, <2>2
  <2> QED
    BY <2>1, <2>3 DEF Disjoint
<1>3. many \in SUBSET Inode /\ few \in SUBSET many
  <2>1. \A p \in C : Files(p) \in SUBSET Inode
    BY FilesType
  <2> QED
    BY <1>1, <2>1
<1>4. few # many
  <2>1. PICK i \in Files(k) : TRUE
    BY FilesOfRows
  <2>2. i \in many
    BY <2>1
  <2>3. i \notin few
    BY <2>1 DEF Compete
  <2> QED
    BY <2>2, <2>3
<1>5. IsFiniteSet(many)
  BY <1>3, FinitelyMany, FS_Subset
<1>6. IsFiniteSet(few)
  BY <1>3, <1>5, FS_Subset
<1>7. Cardinality(few) <= Cardinality(many) /\ Cardinality(few) # Cardinality(many)
  BY <1>3, <1>4, <1>5, FS_Subset
<1>8. Cardinality(few) \in Nat /\ Cardinality(many) \in Nat
  BY <1>5, <1>6, FS_CardinalityType
<1>9. Covered(choice) = Cardinality(few) /\ Covered(more) = Cardinality(many)
  BY DEF Covered
<1> HIDE DEF few, many, more
<1> QED
  BY <1>1, <1>2, <1>7, <1>8, <1>9

\* What a solver leaves out competes with what it picks, in the same round.
LEMMA ResolveOrder ==
  ASSUME Typed, Ours, Proposed, AllIn, InOrder, NEW t \in tasks, Resolve(t), ~seen'.broken
  PROVE  InOrder'
<1>1. /\ t.name = "Resolve" /\ tasks' = tasks \ {t}
      /\ UNCHANGED <<given, version, db, todo, asked>>
      /\ seen'.touched = seen.touched /\ seen'.proposals = seen.proposals
  BY ResolveSends
<1>2. PICK choice \in Best(t.proposals), whole \in BOOLEAN :
        /\ Picked' = Picked \cup (IF whole THEN Named(choice, t.manifest) ELSE {})
        /\ Knots' = Knots
        /\ seen'.broken = (seen.broken \/ ~whole)
  BY ResolveSends
<1>3. t \in Is("Resolve") /\ t \in Task
  BY <1>1 DEF Is, Typed
<1>4. t.proposals \in SUBSET Proposal
  BY <1>1, <1>3, TaskFacts
<1>5. choice \in SUBSET t.proposals
  BY <1>2, BestIs
<1>6. Picked' = Picked \cup choice
  <2>1. Named(choice, t.manifest) = choice
    BY <1>3, <1>5 DEF AllIn, SolversIn, Named
  <2> QED
    BY <1>2, <2>1
<1>7. \A p, q \in t.proposals : RoundOf(p) = RoundOf(q)
  BY <1>3 DEF Proposed, RoundOf
<1>8. \A p \in t.proposals : PinnedFirst(p) = RoundOf(p) /\ p.rows # {} /\ p \in Resolving
  BY <1>3 DEF Proposed, PinnedFirst, Resolving
<1>9. /\ \A p : RoundOf(p)' = RoundOf(p) /\ PinnedFirst(p)' = PinnedFirst(p)
  BY <1>1 DEF RoundOf, Rounds, PinnedFirst
<1>10. Is("Resolve")' = Is("Resolve") \ {t} /\ Maps' = Maps /\ Resolving' \subseteq Resolving
  BY <1>1 DEF Is, Maps, Ahead, Resolving
<1>11. ASSUME NEW u \in Maps'
       PROVE  /\ \A q \in Picked' : PinnedFirst(q)' < RoundOf(u)'
              /\ \A q \in Resolving' : RoundOf(q)' < RoundOf(u)'
  <2>1. /\ \A q \in Picked : PinnedFirst(q) < RoundOf(u)
        /\ \A q \in Resolving : RoundOf(q) < RoundOf(u)
    BY <1>10 DEF InOrder
  <2> QED
    BY <1>5, <1>6, <1>8, <1>9, <1>10, <2>1
<1>12. ASSUME NEW p \in seen'.proposals PROVE p \in Picked' \/ Served(p)' \/ Waits(p)'
  <2>1. CASE p \in Picked
    BY <1>6, <2>1
  <2>2. CASE Served(p)
    BY <1>1, <1>2, <1>6, <1>9, <2>2 DEF Served, Compete, Files
  <2>3. CASE \E u \in Maps : p \in u.pool /\ RoundOf(u) <= RoundOf(p)
    BY <1>9, <1>10, <2>3 DEF Waits
  <2>4. ASSUME NEW u \in Is("Resolve"), NEW k \in u.proposals,
               Files(k) = Files(p), RoundOf(k) = RoundOf(p)
        PROVE  p \in Picked' \/ Served(p)' \/ Waits(p)'
    <3>1. CASE u # t
      BY <1>9, <1>10, <2>4, <3>1 DEF Waits, Files
    <3>2. CASE u = t
      <4>1. p.rows # {} /\ p \in Proposal
        BY <1>1 DEF Proposed, Typed, Seen
      <4>2. RoundOf(p) \in 1 .. 4
        BY <4>1, ProposalRound
      <4>3. PICK c \in choice : Compete(c, k)
        <5>1. CASE k \in choice
          <6>1. Files(k) # {}
            BY <2>4, <4>1, FilesOfRows
          <6> QED
            BY <5>1, <6>1 DEF Compete
        <5>2. CASE k \notin choice
          BY <1>2, <1>4, <1>8, <2>4, <3>2, <5>2, BestTakes
        <5> QED
          BY <5>1, <5>2
      <4>4. Compete(p, c)
        BY <2>4, <4>3 DEF Compete
      <4>5. PinnedFirst(c) = RoundOf(p) /\ c \in Picked'
        BY <1>5, <1>6, <1>7, <1>8, <2>4, <3>2, <4>3
      <4>6. PinnedFirst(c) <= RoundOf(p)
        BY <4>2, <4>5
      <4> QED
        BY <1>9, <4>4, <4>5, <4>6 DEF Served, Compete, Files
    <3> QED
      BY <3>1, <3>2
  <2>5. p \in Picked \/ Served(p) \/ Waits(p)
    BY <1>1 DEF InOrder
  <2> QED
    BY <2>1, <2>2, <2>3, <2>4, <2>5 DEF Waits
<1> QED
  BY <1>11, <1>12 DEF InOrder

\* What a mapping leaves out competes with a pinned release, or clashes.
LEMMA ProposedOrder ==
  ASSUME Typed, Phased, Sole, AllIn, NEW t \in tasks, MappingsProposed(t), ~seen'.broken
  PROVE  InOrder'
<1>1. PICK whole \in BOOLEAN :
        /\ whole => Picked' = Named(Chosen, db.manifest)
        /\ Is("Resolve")' = {}
        /\ Mapped(~whole, FALSE)
        /\ todo' = IF whole THEN Append(todo, FirstTier(t)) ELSE todo
  BY ProposedPicks DEF FirstTier
<1>2. whole
  <2>1. (~whole) \in BOOLEAN /\ FALSE \in BOOLEAN
    OBVIOUS
  <2> QED
    BY <1>1, <2>1, MappedIs
<1>3. seen'.proposals = Proposals /\ given' = given
  BY MapsAfter
<1>4. Picked' = Chosen
  <2>1. ASSUME NEW p \in Proposals PROVE p.release \in db.manifest
    <3>1. p.release \in Release
      BY ProposalsAre DEF Proposal
    <3>2. db.scores[p.release] # {}
      BY ProposalsAre
    <3> QED
      BY <3>1, <3>2 DEF AllIn, ScoresIn
  <2> QED
    BY <1>1, <1>2, <2>1 DEF Named, Chosen
<1>5. FirstTier(t).tier = "Perfect" /\ FirstTier(t).pool = Left /\ FirstTier(t) \in Phase
      /\ FirstTier(t).name = "Map"
  BY FirstTierIs
<1>6. Maps' = {FirstTier(t)}
  <2>1. tasks = {t} /\ tasks' = {}
    BY ProposedLeaves
  <2>2. t.name = "Mappings"
    BY DEF MappingsProposed, MappingsRead
  <2>3. todo = <<>>
    BY <2>2, LoneTask DEF Solitary
  <2>4. Range(todo') = {FirstTier(t)}
    BY <1>1, <1>2, <1>5, <2>3, OnePhase
  <2> QED
    BY <1>5, <2>1, <2>4 DEF Maps, Ahead
<1>7. \A p : RoundOf(p)' = RoundOf(p) /\ PinnedFirst(p)' = PinnedFirst(p)
  BY <1>3 DEF RoundOf, Rounds, PinnedFirst
<1>8. RoundOf(FirstTier(t)) = 1
  <2>1. Rounds[1] = "Perfect"
    BY DEF Rounds
  <2> QED
    BY <1>5, <2>1, RoundIs DEF Tier
<1>9. \A q \in Chosen : PinnedFirst(q) = 0
  BY DEF Chosen, PinnedFirst
<1>10. ASSUME NEW u \in Maps'
       PROVE  /\ \A q \in Picked' : PinnedFirst(q)' < RoundOf(u)'
              /\ \A q \in Resolving' : RoundOf(q)' < RoundOf(u)'
  BY <1>1, <1>4, <1>6, <1>7, <1>8, <1>9 DEF Resolving
<1>11. ASSUME NEW p \in Proposals PROVE p \in Picked' \/ Served(p)' \/ Waits(p)'
  <2>1. RoundOf(p) \in 1 .. 4
    BY ProposalsAre, ProposalRound
  <2>2. CASE p \in Chosen
    BY <1>4, <2>2
  <2>3. CASE p \in Left
    <3>1. RoundOf(FirstTier(t)) <= RoundOf(p)
      BY <1>8, <2>1
    <3> QED
      BY <1>5, <1>6, <1>7, <2>3, <3>1 DEF Waits
  <2>4. CASE p.release \in given.clashing
    BY <1>3, <2>4 DEF Served
  <2>5. CASE \E q \in Chosen : Files(p) \cap Files(q) # {}
    <3>1. PICK q \in Chosen : Files(p) \cap Files(q) # {}
      BY <2>5
    <3>2. PinnedFirst(q) <= RoundOf(p)
      BY <1>9, <2>1
    <3> QED
      BY <1>4, <1>7, <3>1, <3>2 DEF Served, Compete, Files
  <2> QED
    BY <2>2, <2>3, <2>4, <2>5 DEF Left
<1> QED
  BY <1>3, <1>10, <1>11 DEF InOrder

\* What a tier does with one of the proposals it keeps: it picks it, or one
\* that has all its files, ties it in a knot or has it solved.
LEMMA KeptGoes ==
  ASSUME NEW t, NEW kept, NEW k \in kept
  PROVE  \/ \E q \in Won(t.tier, kept) : Files(k) \subseteq Files(q)
         \/ \E C \in Tied(t.tier, kept) : k \in C
         \/ \E C \in Several(kept) \ Knotted(t.tier, kept) : k \in C
<1>1. PICK C \in Components(kept) : k \in C
  BY InComponent
<1>2. CASE C \notin Several(kept)
  <2>1. k \in Won(t.tier, kept)
    BY <1>1, <1>2 DEF Won
  <2> QED
    BY <2>1
<1>3. CASE C \in Several(kept) \ Knotted(t.tier, kept)
  BY <1>1, <1>3
<1>4. CASE C \in Knotted(t.tier, kept) /\ Discography(C) = {}
  BY <1>1, <1>4 DEF Tied
<1>5. CASE C \in Knotted(t.tier, kept) /\ Discography(C) # {}
  <2>1. PICK q \in Discography(C) : TRUE
    BY <1>5
  <2>2. Files(k) \subseteq Files(q)
    BY <1>1, <2>1 DEF Discography
  <2>3. q \in Won(t.tier, kept)
    BY <1>5, <2>1 DEF Won
  <2> QED
    BY <2>2, <2>3
<1> QED
  BY <1>2, <1>3, <1>4, <1>5

\* A proposal whose turn has come and some file of which is claimed.
LEMMA ClaimedServed ==
  ASSUME Typed, Phased, Matching, InOrder, ~seen.overlapped, ~seen.bailed, ~Remapping,
         NEW t \in Maps, t \in tasks, NEW p \in t.pool, p \in Proposal,
         RoundOf(p) = RoundOf(t), Files(p) \cap Claimed # {}
  PROVE  Served(p)
<1>1. PICK c \in db.claims : c[1] \in Files(p)
  BY DEF Claimed
<1>2. t.name = "Map"
  BY DEF Maps
<1>3. Picked = db.packed
  BY <1>2, NoOther DEF Solitary
<1>4. c \in Rowed \/ Excusable(c)
  BY DEF Matching, ClaimsRowed
<1>5. CASE c[1] \in seen.touched
  BY <1>1, <1>5 DEF Served
<1>6. ASSUME NEW q \in db.packed, c[1] \in Files(q) PROVE Served(p)
  <2>1. Compete(p, q)
    BY <1>1, <1>6 DEF Compete
  <2>2. PinnedFirst(q) < RoundOf(p)
    BY <1>3, <1>6 DEF InOrder
  <2>3. q \in Proposal
    BY <1>6, DbFacts
  <2>4. PinnedFirst(q) <= RoundOf(p)
    BY <2>2, <2>3, ProposalRound
  <2> QED
    BY <1>3, <1>6, <2>1, <2>4 DEF Served
<1>7. CASE c \in Rowed
  <2>1. PICK q \in db.packed : c \in Claims(q)
    BY <1>7 DEF Rowed
  <2>2. c[1] \in Files(q)
    BY <2>1, ClaimOfFile
  <2> QED
    BY <1>6, <2>2
<1> QED
  BY <1>4, <1>5, <1>6, <1>7 DEF Excusable

\* A proposal whose turn has come and whose files are all free.
LEMMA EligibleGoes ==
  ASSUME Typed, Phased, Sole, Ours, Proposed, AllIn, NEW t \in tasks, MapTier(t), ~seen'.broken,
         NEW p \in Eligible(t), p \in Proposal
  PROVE  \/ p \in Picked' \/ Served(p)'
         \/ \E u \in Is("Resolve")' : \E k \in u.proposals :
              Files(k) = Files(p) /\ RoundOf(k) = RoundOf(p)
<1>1. t \in Maps /\ t.name = "Map"
  BY TierLeaves DEF Maps
<1>2. PICK kept \in Keepers(t.tier, Eligible(t)) :
        /\ Picked' = Picked \cup Named(Won(t.tier, kept), db.manifest)
        /\ Knots' = Knots \cup Tied(t.tier, kept)
        /\ Is("Resolve")' = {Solver(t, C) : C \in Several(kept) \ Knotted(t.tier, kept)}
  BY TierPicks
<1>3. /\ kept \subseteq Eligible(t) /\ Eligible(t) \subseteq t.pool
      /\ Won(t.tier, kept) \subseteq kept
  BY <1>2, KeptFrom
<1>4. \A q \in t.pool : q.release \notin given.pinned /\ q.rows # {} /\ q.release \in db.manifest
  BY <1>1 DEF Proposed, AllIn, PoolsIn
<1>5. \A q \in kept : q \in t.pool /\ q.tier = t.tier
  BY <1>3 DEF Eligible
<1>6. p \in t.pool /\ p.tier = t.tier
  BY DEF Eligible
<1>7. PICK k \in kept : Files(k) = Files(p)
  BY <1>2 DEF Keepers
<1>8. Picked' = Picked \cup Won(t.tier, kept)
  BY <1>2, <1>3, <1>4, <1>5 DEF Named
<1>9. given' = given /\ UNCHANGED db
  BY TierTakes
<1>10. /\ \A q : RoundOf(q)' = RoundOf(q) /\ PinnedFirst(q)' = PinnedFirst(q)
  BY <1>9 DEF RoundOf, Rounds, PinnedFirst
<1>11. \A q \in kept : RoundOf(q) = RoundOf(p) /\ PinnedFirst(q) = RoundOf(p)
  BY <1>4, <1>5, <1>6 DEF RoundOf, PinnedFirst
<1>12. CASE \E q \in Won(t.tier, kept) : Files(k) \subseteq Files(q)
  <2>1. PICK q \in Won(t.tier, kept) : Files(k) \subseteq Files(q)
    BY <1>12
  <2>2. Files(p) # {}
    BY <1>4, <1>6, FilesOfRows
  <2>3. Compete(p, q)
    BY <1>7, <2>1, <2>2 DEF Compete
  <2>4. PinnedFirst(q) <= RoundOf(p)
    <3>1. PinnedFirst(q) = RoundOf(p)
      BY <1>3, <1>11, <2>1
    <3>2. RoundOf(p) \in 1 .. 4
      BY ProposalRound
    <3> QED
      BY <3>1, <3>2
  <2>5. q \in Picked'
    BY <1>8, <2>1
  <2> QED
    BY <1>10, <2>3, <2>4, <2>5 DEF Served, Compete, Files
<1>13. CASE \E C \in Tied(t.tier, kept) : k \in C
  BY <1>2, <1>7, <1>13 DEF Served, Files
<1>14. CASE \E C \in Several(kept) \ Knotted(t.tier, kept) : k \in C
  <2>1. PICK C \in Several(kept) \ Knotted(t.tier, kept) : k \in C
    BY <1>14
  <2>2. Solver(t, C) \in Is("Resolve")' /\ Solver(t, C).proposals = C
    BY <1>2, <2>1 DEF Solver
  <2> QED
    BY <1>7, <1>11, <2>1, <2>2
<1> QED
  BY <1>12, <1>13, <1>14, KeptGoes

\* A tier serves the proposals whose round it is; the others wait on.
LEMMA TierOrder ==
  ASSUME Typed, Phased, Sole, Ours, Proposed, AllIn, Matching, InOrder,
         ~seen.overlapped, ~seen.bailed, ~Remapping,
         NEW t \in tasks, MapTier(t), ~seen'.broken
  PROVE  InOrder'
<1>1. /\ t \in Maps /\ t.name = "Map" /\ t.tier \in Tier /\ t.run \in Nat
      /\ t.pool \in SUBSET Proposal
  BY TierLeaves, MapTierIs
<1>2. /\ \A q \in Picked' : q \in Picked \/ (q \in t.pool /\ q.tier = t.tier)
      /\ \A u \in Is("Resolve")' : \A q \in u.proposals : q \in t.pool /\ q.tier = t.tier
      /\ UNCHANGED <<given, db>> /\ seen'.proposals = seen.proposals
  BY TierTakes
<1>3. PICK kept \in Keepers(t.tier, Eligible(t)) :
        /\ TierMapped(t, kept)
        /\ Picked \subseteq Picked' /\ Knots \subseteq Knots'
        /\ seen' = seen
  BY TierPicks
<1>4. tasks = {t} /\ todo = <<>>
  BY <1>1, LoneTask DEF Solitary
<1>5. NextPhase(t) \in Phase
  BY <1>1, NextPhaseIs
<1>6. Range(todo') = {NextPhase(t)}
  BY <1>3, <1>4, <1>5, OnePhase DEF TierMapped
<1>7. \A u \in tasks' : u.name = "Resolve"
  <2>1. \A u \in tasks' \ (tasks \ {t}) : u.name = "Resolve"
    BY TierSends
  <2> QED
    BY <1>4, <2>1
<1>8. Maps' = {u \in {NextPhase(t)} : u.name = "Map"}
  BY <1>6, <1>7 DEF Maps, Ahead
<1>9. Is("Resolve") = {}
  BY <1>1, <1>4 DEF Is
<1>10. \A p : RoundOf(p)' = RoundOf(p) /\ PinnedFirst(p)' = PinnedFirst(p)
  BY <1>2 DEF RoundOf, Rounds, PinnedFirst
<1>11. RoundOf(t) \in 1 .. 4
  BY <1>1, RoundIs
<1>12. \A q \in t.pool : q.tier = t.tier => RoundOf(q) = RoundOf(t) /\ PinnedFirst(q) = RoundOf(t)
  BY <1>1 DEF Proposed, RoundOf, PinnedFirst
<1>13. /\ NextPhase(t).name = "Map" =>
            NextPhase(t).pool = t.pool /\ RoundOf(NextPhase(t)) = RoundOf(t) + 1
       /\ NextPhase(t).name # "Map" => RoundOf(t) = 4
  BY <1>1, NextRound
<1>14. ASSUME NEW u \in Maps'
       PROVE  /\ \A q \in Picked' : PinnedFirst(q)' < RoundOf(u)'
              /\ \A q \in Resolving' : RoundOf(q)' < RoundOf(u)'
  <2>1. RoundOf(u) = RoundOf(t) + 1
    BY <1>8, <1>13
  <2>2. ASSUME NEW q \in Picked' PROVE PinnedFirst(q) < RoundOf(t) + 1
    <3>1. CASE q \in Picked
      <4>1. PinnedFirst(q) < RoundOf(t)
        BY <1>1, <3>1 DEF InOrder
      <4>2. q \in Proposal
        BY <3>1 DEF Ours, Typed, Seen
      <4>3. PinnedFirst(q) \in 0 .. 4
        BY <4>2, ProposalRound
      <4> QED
        BY <1>11, <4>1, <4>3
    <3>2. CASE q \in t.pool /\ q.tier = t.tier
      BY <1>11, <1>12, <3>2
    <3> QED
      BY <1>2, <3>1, <3>2
  <2>3. ASSUME NEW q \in Resolving' PROVE RoundOf(q) < RoundOf(t) + 1
    <3>1. q \in t.pool /\ q.tier = t.tier
      BY <1>2, <2>3 DEF Resolving
    <3> QED
      BY <1>11, <1>12, <3>1
  <2> QED
    BY <1>10, <2>1, <2>2, <2>3
<1>15. ASSUME NEW p \in seen'.proposals PROVE p \in Picked' \/ Served(p)' \/ Waits(p)'
  <2>1. p \in Proposal /\ p.tier \in Tier
    <3>1. p \in Proposal
      BY <1>2 DEF Typed, Seen
    <3> QED
      BY <3>1 DEF Proposal
  <2>2. CASE p \in Picked
    BY <1>3, <2>2
  <2>3. CASE Served(p)
    BY <1>2, <1>3, <1>10, <2>3 DEF Served, Compete, Files
  <2>4. CASE p \in t.pool /\ RoundOf(t) = RoundOf(p) /\ Files(p) \cap Claimed # {}
    <3>1. Served(p)
      BY <1>1, <2>1, <2>4, ClaimedServed
    <3> QED
      BY <2>3, <3>1
  <2>5. CASE p \in t.pool /\ RoundOf(t) = RoundOf(p) /\ Files(p) \cap Claimed = {}
    <3>1. p.tier = t.tier
      BY <1>1, <2>1, <2>5, SameRound
    <3>2. p \in Eligible(t)
      BY <2>5, <3>1 DEF Eligible
    <3>3. \/ p \in Picked' \/ Served(p)'
          \/ \E u \in Is("Resolve")' : \E k \in u.proposals :
               Files(k) = Files(p) /\ RoundOf(k) = RoundOf(p)
      BY <2>1, <3>2, EligibleGoes
    <3> QED
      BY <1>10, <3>3 DEF Waits, Files
  <2>6. CASE p \in t.pool /\ RoundOf(t) < RoundOf(p)
    <3>1. RoundOf(p) \in 1 .. 4
      BY <2>1, RoundIs
    <3>2. RoundOf(t) # 4 /\ RoundOf(t) + 1 <= RoundOf(p)
      BY <1>11, <2>6, <3>1
    <3>3. /\ NextPhase(t) \in Maps' /\ p \in NextPhase(t).pool
          /\ RoundOf(NextPhase(t)) <= RoundOf(p)
      BY <1>8, <1>13, <2>6, <3>2
    <3>4. \E u \in Maps' : p \in u.pool /\ RoundOf(u)' <= RoundOf(p)'
      BY <1>10, <3>3
    <3> QED
      BY <3>4 DEF Waits
  <2>7. CASE Waits(p)
    <3>1. PICK u \in Maps : p \in u.pool /\ RoundOf(u) <= RoundOf(p)
      BY <1>9, <2>7 DEF Waits
    <3>2. u = t
      <4>1. Range(todo) = {}
        BY <1>4, EmptyRange DEF Typed
      <4> QED
        BY <1>4, <4>1 DEF Maps, Ahead
    <3>3. RoundOf(p) \in 1 .. 4
      BY <2>1, RoundIs
    <3>4. RoundOf(t) = RoundOf(p) \/ RoundOf(t) < RoundOf(p)
      BY <1>11, <3>1, <3>2, <3>3
    <3> QED
      BY <2>4, <2>5, <2>6, <3>1, <3>2, <3>4
  <2>8. p \in Picked \/ Served(p) \/ Waits(p)
    BY <1>2 DEF InOrder
  <2> QED
    BY <2>2, <2>3, <2>7, <2>8
<1> QED
  BY <1>14, <1>15 DEF InOrder

-----------------------------------------------------------------------------
(* The invariant.                                                          *)

IInv ==
  /\ Typed /\ Phased /\ Apart /\ Gapped /\ Tagged /\ Fresh /\ ListedRight /\ Truncated
  /\ Proposed /\ Single /\ Matching /\ Manifested /\ Ordering

CalmStep ==
  \/ UNCHANGED vars \/ Repack \/ Rescore
  \/ \E i \in Inode : Edit(i) \/ Drop(i)
  \/ \E t \in tasks :
       PackRead(t) \/ PackMarks(t) \/ PackWrite(t) \/ PackDone(t) \/ ScoreCandidates(t)

\* The calm steps.
LEMMA CalmSteps == ASSUME Typed, CalmStep PROVE Calm
BY StutterCalm, RepackCalm, RescoreCalm, EditCalm, DropCalm, PackReadCalm, PackMarksCalm, PackWriteCalm,
   PackDoneCalm, ScoreCalm DEF CalmStep

MapStep(t) ==
  \/ MappingsClear(t) \/ MappingsNone(t) \/ MappingsProposed(t)
  \/ MapTier(t) \/ Resolve(t) \/ Gaps(t)

\* The steps, by the lemmas they are covered by.
LEMMA Steps ==
  ASSUME [Next]_vars
  PROVE  \/ CalmStep \/ DbApply \/ NextPhaseStarts
         \/ \E t \in tasks : PackNothing(t) \/ MapStep(t)
BY DEF Next, Compute, CalmStep, MapStep

\* One lemma for each part of the invariant: every step keeps it.
LEMMA PhasedNext == ASSUME Typed, Phased, [Next]_vars PROVE Phased'
<1>1. CASE CalmStep
  BY <1>1, CalmSteps, CalmPhased
<1>2. CASE DbApply
  BY <1>2, ApplyPhased
<1>3. CASE NextPhaseStarts
  BY <1>3, StartPhased
<1>4. ASSUME NEW t \in tasks, PackNothing(t) PROVE Phased'
  BY <1>4, NothingPhased
<1>5. ASSUME NEW t \in tasks, MapStep(t) PROVE Phased'
  BY <1>5, ClearPhased, NonePhased, ProposedPhased, TierPhased, ResolvePhased, GapsPhased
     DEF MapStep
<1> QED
  BY <1>1, <1>2, <1>3, <1>4, <1>5, Steps

\* A repack that found nothing to pack ends what is said of the claims.
LEMMA BailsOut ==
  ASSUME Typed, Phased, NEW t \in tasks, PackNothing(t) \/ MappingsNone(t)
  PROVE  seen'.bailed
BY NothingIs, NoneLeaves

LEMMA ApartNext == ASSUME Typed, Phased, Apart, [Next]_vars PROVE Apart'
<1>1. CASE CalmStep
  BY <1>1, CalmSteps, CalmApart
<1>2. CASE DbApply
  BY <1>2, ApplyApart
<1>3. CASE NextPhaseStarts
  BY <1>3, StartApart
<1>4. ASSUME NEW t \in tasks, PackNothing(t) \/ MappingsNone(t) PROVE Apart'
  BY <1>4, BailsOut DEF Apart
<1>5. ASSUME NEW t \in tasks, MapStep(t), ~MappingsNone(t) PROVE Apart'
  BY <1>5, ClearApart, ProposedApart, TierApart, ResolveApart, GapsApart DEF MapStep
<1> QED
  BY <1>1, <1>2, <1>3, <1>4, <1>5, Steps

LEMMA GappedNext == ASSUME Typed, Phased, Gapped, [Next]_vars PROVE Gapped'
<1>1. CASE CalmStep
  BY <1>1, CalmSteps, CalmGapped
<1>2. CASE DbApply
  BY <1>2, ApplyGapped
<1>3. CASE NextPhaseStarts
  BY <1>3, StartGapped
<1>4. ASSUME NEW t \in tasks, PackNothing(t) \/ MappingsNone(t) PROVE Gapped'
  BY <1>4, BailsOut DEF Gapped
<1>5. ASSUME NEW t \in tasks, MapStep(t), ~MappingsNone(t) PROVE Gapped'
  BY <1>5, ClearGapped, ProposedGapped, TierGapped, ResolveGapped, GapsGapped DEF MapStep
<1> QED
  BY <1>1, <1>2, <1>3, <1>4, <1>5, Steps

LEMMA FreshNext == ASSUME Typed, Tagged, Fresh, ListedRight, [Next]_vars PROVE Fresh'
<1>1. CASE UNCHANGED vars
  BY <1>1 DEF vars, Fresh, Marked, Current, EditsLast, Stale, Old, Pending, ForgetBefore, Forgets,
              Is, Sent, Reading
<1>2. CASE Repack \/ Rescore \/ DbApply \/ NextPhaseStarts
  BY <1>2, RepackFresh, RescoreFresh, ApplyFresh, StartFresh
<1>3. ASSUME NEW i \in Inode, Edit(i) \/ Drop(i) PROVE Fresh'
  BY <1>3, EditFresh, DropFresh
<1>4. ASSUME NEW t \in tasks, Compute(t) PROVE Fresh'
  BY <1>4, PackReadFresh, PackMarksFresh, NothingFresh, PackWriteFresh, PackDoneFresh, ScoreFresh, MappingFresh
     DEF Compute
<1> QED
  BY <1>1, <1>2, <1>3, <1>4 DEF Next

LEMMA ListedNext == ASSUME Typed, ListedRight, [Next]_vars PROVE ListedRight'
<1>1. ASSUME queue' = queue, given' = given, db' = db PROVE ListedRight'
  <2>1. Appends({})
    BY <1>1, SendsNone
  <2> QED
    BY <1>1, <2>1, AddListed
<1>2. CASE \/ UNCHANGED vars \/ Repack \/ Rescore \/ NextPhaseStarts
           \/ \E t \in tasks : PackRead(t) \/ PackMarks(t) \/ PackDone(t)
  BY <1>1, <1>2 DEF vars, Repack, Rescore, NextPhaseStarts, PackRead, PackMarks, PackDone
<1>3. CASE DbApply
  BY <1>3, ApplyListed
<1>4. ASSUME NEW i \in Inode, Edit(i) PROVE ListedRight'
  <2>1. PICK op \in Op : op.name = "edit" /\ queue' = queue \o <<op>>
    BY <1>4, EditIs
  <2>2. Appends({"edit"}) /\ UNCHANGED <<given, db>>
    BY <1>4, <2>1, SendsOne DEF Edit
  <2> QED
    BY <2>2, AddListed
<1>5. ASSUME NEW i \in Inode, Drop(i) PROVE ListedRight'
  <2>1. Appends({"drop"}) /\ UNCHANGED <<given, db>>
    BY <1>5, DropAppends DEF Drop
  <2> QED
    BY <2>1, AddListed
<1>6. ASSUME NEW t \in tasks, PackNothing(t) PROVE ListedRight'
  <2>1. Appends({"unclaim"}) /\ UNCHANGED <<given, db>>
    BY <1>6, NothingAppends DEF PackNothing
  <2> QED
    BY <2>1, AddListed
<1>7. ASSUME NEW t \in tasks, PackWrite(t) PROVE ListedRight'
  BY <1>7, PackWriteListed
<1>8. ASSUME NEW t \in tasks, ScoreCandidates(t) PROVE ListedRight'
  <2>1. Appends({"scores"}) /\ UNCHANGED <<given, db>>
    BY <1>8, ScoreAppends DEF ScoreCandidates
  <2> QED
    BY <2>1, AddListed
<1>9. ASSUME NEW t \in tasks, MapStep(t) PROVE ListedRight'
  <2>1. Appends({"clear", "emit", "gaps"}) /\ UNCHANGED <<given, db>>
    BY <1>9, MappingSends DEF MapStep
  <2> QED
    BY <2>1, AddListed
<1> QED
  BY <1>2, <1>3, <1>4, <1>5, <1>6, <1>7, <1>8, <1>9 DEF Next, Compute, MapStep

LEMMA TruncatedNext == ASSUME Typed, Truncated, [Next]_vars PROVE Truncated'
BY ApplyTruncated, PackWriteTruncated, TruncatedKeeps DEF Next, Compute

LEMMA ProposedNext == ASSUME Typed, Phased, Proposed, [Next]_vars PROVE Proposed'
<1>1. CASE CalmStep
  BY <1>1, CalmSteps, CalmFewer, FewerProposed
<1>2. CASE DbApply \/ NextPhaseStarts
  BY <1>2, ApplyFewer, StartFewer, FewerProposed
<1>3. ASSUME NEW t \in tasks, PackNothing(t) \/ MappingsClear(t) \/ Gaps(t) PROVE Proposed'
  BY <1>3, NothingFewer, ClearFewer, GapsFewer, FewerProposed
<1>4. ASSUME NEW t \in tasks,
             MappingsNone(t) \/ MappingsProposed(t) \/ MapTier(t) \/ Resolve(t)
      PROVE  Proposed'
  BY <1>4, NoneProposed, ProposedProposed, TierProposed, ResolveProposed
<1> QED
  BY <1>1, <1>2, <1>3, <1>4, Steps DEF MapStep

LEMMA SoleNext == ASSUME Typed, Sole, [Next]_vars, ~seen'.overlapped PROVE Sole'
<1>1. CASE UNCHANGED vars
  BY <1>1, SoleQuiet DEF vars
<1>2. CASE Repack \/ Rescore
  BY <1>2, SoleRepack, SoleRescore
<1>3. ASSUME NEW i \in Inode, Edit(i) \/ Drop(i) PROVE Sole'
  BY <1>3, SoleQuiet DEF Edit, Drop
<1>4. CASE DbApply \/ NextPhaseStarts
  BY <1>4, SoleQuiet, SoleStart DEF DbApply
<1>5. ASSUME NEW t \in tasks, Compute(t) PROVE Sole'
  BY <1>5, SolePackRead, SolePackNothing, SolePackMarks, SolePackWrite, SolePackDone, SoleScore,
     SoleMappingsClear, SoleMappingsNone, SoleProposed, SoleMapTier, SoleResolve, SoleGaps
     DEF Compute
<1> QED
  BY <1>1, <1>2, <1>3, <1>4, <1>5 DEF Next

LEMMA OursNext == ASSUME Typed, Phased, Sole, Ours, [Next]_vars PROVE Ours'
<1>1. CASE CalmStep
  BY <1>1, CalmSteps, CalmFewer, FewerOurs
<1>2. CASE DbApply \/ NextPhaseStarts
  BY <1>2, ApplyFewer, StartFewer, FewerOurs
<1>3. ASSUME NEW t \in tasks, PackNothing(t) \/ MappingsClear(t) \/ Gaps(t) PROVE Ours'
  BY <1>3, NothingFewer, ClearFewer, GapsFewer, FewerOurs
<1>4. ASSUME NEW t \in tasks,
             MappingsNone(t) \/ MappingsProposed(t) \/ MapTier(t) \/ Resolve(t)
      PROVE  Ours'
  BY <1>4, NoneOurs, ProposedOurs, TierOurs, ResolveOurs
<1> QED
  BY <1>1, <1>2, <1>3, <1>4, Steps DEF MapStep

LEMMA SingleNext == ASSUME Typed, Phased, Single, [Next]_vars PROVE Single'
BY OverlappedStays, SoleNext, OursNext DEF Single

\* Only a mapping ends what a full repack began.
LEMMA RemappingEnds ==
  ASSUME Typed, [Next]_vars, ~ \E t \in tasks : MappingsNone(t) \/ MappingsProposed(t)
  PROVE  Remapping => Remapping'
<1>1. CASE \/ UNCHANGED vars \/ Repack \/ Rescore \/ DbApply \/ NextPhaseStarts
           \/ \E i \in Inode : Edit(i) \/ Drop(i)
  BY <1>1, RemappingStays
<1>2. ASSUME NEW t \in tasks,
             \/ PackRead(t) \/ PackNothing(t) \/ PackMarks(t) \/ PackWrite(t)
              \/ PackDone(t) \/ ScoreCandidates(t)
             \/ MappingsClear(t) \/ MapTier(t) \/ Resolve(t) \/ Gaps(t)
      PROVE  Remapping => Remapping'
  BY <1>2, RemappingStays
<1> QED
  BY <1>1, <1>2 DEF Next, Compute

LEMMA MatchingNext ==
  ASSUME Typed, Phased, Apart, Truncated, Proposed, Single, Matching, [Next]_vars
  PROVE  Matching'
<1>1. ASSUME NEW t \in tasks, PackNothing(t) \/ MappingsNone(t) PROVE Matching'
  BY <1>1, BailsOut DEF Matching
<1>2. ASSUME NEW t \in tasks, MappingsProposed(t) PROVE Matching'
  BY <1>2, ProposedMatching
<1>3. CASE ~ \E t \in tasks : MappingsNone(t) \/ MappingsProposed(t)
  <2>1. Remapping => Remapping'
    BY <1>3, RemappingEnds
  <2>2. CASE CalmStep
    BY <2>1, <2>2, CalmSteps, CalmMatching
  <2>3. CASE DbApply
    BY <2>3, ApplyMatching
  <2>4. CASE NextPhaseStarts
    BY <2>1, <2>4, PhaseStarts, SameMatching
  <2>5. ASSUME NEW t \in tasks, MappingsClear(t) \/ MapTier(t) \/ Resolve(t) \/ Gaps(t)
        PROVE  Matching'
    <3>1. UNCHANGED <<given, db>> /\ seen'.overlapped = seen.overlapped
      BY <2>5, MappingSends
    <3>2. seen'.touched = seen.touched /\ seen'.bailed = seen.bailed
      BY <2>5, TierSends, ResolveSends DEF MappingsClear, Gaps
    <3> QED
      BY <2>1, <3>1, <3>2, SameMatching
  <2> QED
    BY <1>1, <1>3, <2>2, <2>3, <2>4, <2>5, Steps DEF MapStep
<1> QED
  BY <1>1, <1>2, <1>3

LEMMA OrderingNext ==
  ASSUME Typed, Phased, Truncated, Proposed, Single, Matching, Manifested, Ordering, [Next]_vars
  PROVE  Ordering'
<1> SUFFICES ASSUME seen'.mapped, ~seen'.broken, ~seen'.bailed, ~seen'.overlapped, ~Remapping'
             PROVE  InOrder'
  BY DEF Ordering
<1>1. ~seen.overlapped /\ Sole /\ Ours /\ AllIn
  BY OverlappedStays DEF Single, Manifested
<1>2. ASSUME NEW t \in tasks, MappingsProposed(t) PROVE InOrder'
  BY <1>1, <1>2, ProposedOrder
<1>3. ~ \E t \in tasks : PackNothing(t) \/ MappingsNone(t)
  BY BailsOut
<1>4. CASE ~ \E t \in tasks : MappingsProposed(t)
  <2>1. ~Remapping
    BY <1>3, <1>4, RemappingEnds
  <2>2. ASSUME seen.mapped = seen'.mapped, seen.broken => seen'.broken, seen.bailed = seen'.bailed
        PROVE  InOrder /\ ~seen.bailed
    BY <1>1, <2>1, <2>2 DEF Ordering
  <2>3. CASE CalmStep
    <3>1. Calm
      BY <2>3, CalmSteps
    <3>2. InOrder
      BY <2>2, <3>1 DEF Calm
    <3> QED
      BY <3>1, <3>2, CalmOrder
  <2>4. CASE DbApply
    <3>1. InOrder /\ ~seen.bailed
      BY <2>2, <2>4 DEF DbApply
    <3> QED
      BY <1>1, <2>1, <2>4, <3>1, ApplyOrder
  <2>5. CASE NextPhaseStarts
    <3>1. InOrder
      BY <2>2, <2>5 DEF NextPhaseStarts
    <3> QED
      BY <2>5, <3>1, StartOrder
  <2>6. ASSUME NEW t \in tasks, MappingsClear(t) PROVE InOrder'
    <3>1. Remapping'
      BY <2>6, ClearIs DEF Remapping, Ahead
    <3> QED
      BY <3>1
  <2>7. ASSUME NEW t \in tasks, MapTier(t) PROVE InOrder'
    <3>1. seen'.mapped = seen.mapped /\ seen'.bailed = seen.bailed
      BY <2>7, TierSends
    <3>2. seen' = seen
      BY <2>7, TierPicks
    <3>3. InOrder /\ ~seen.bailed
      BY <2>2, <3>1, <3>2
    <3> QED
      BY <1>1, <2>1, <2>7, <3>3, TierOrder
  <2>8. ASSUME NEW t \in tasks, Resolve(t) PROVE InOrder'
    <3>1. /\ seen'.mapped = seen.mapped /\ seen'.bailed = seen.bailed
          /\ seen.broken => seen'.broken
      BY <2>8, ResolveSends
    <3>2. InOrder
      BY <2>2, <3>1
    <3> QED
      BY <1>1, <2>8, <3>2, ResolveOrder
  <2>9. ASSUME NEW t \in tasks, Gaps(t) PROVE InOrder'
    <3>1. InOrder
      BY <2>2, <2>9 DEF Gaps
    <3> QED
      BY <2>9, <3>1, GapsOrder
  <2> QED
    BY <1>3, <1>4, <2>3, <2>4, <2>5, <2>6, <2>7, <2>8, <2>9, Steps DEF MapStep
<1> QED
  BY <1>2, <1>4

\* The invariant holds at first, and every step keeps it.
LEMMA InvariantInit == ASSUME Init PROVE IInv
<1>1. Typed
  BY TypedInit
<1>2. /\ queue = <<>> /\ tasks = {} /\ todo = <<>> /\ version = 0
      /\ Range(queue) = {} /\ DOMAIN queue = {} /\ Range(todo) = {} /\ Len(todo) = 0
  <2>1. DOMAIN <<>> = {} /\ Len(<<>>) = 0
    OBVIOUS
  <2> QED
    BY <2>1 DEF Init, Range
<1>3. /\ db.candidates = [r \in Release |-> Unlisted] /\ db.scores = [r \in Release |-> {}]
      /\ db.packed = {} /\ db.claims = {} /\ db.knots = {}
  BY DEF Init, EmptyDb
<1>4. /\ seen.proposals = {} /\ ~seen.mapped /\ seen.edited = {}
  BY DEF Init, NothingSeen
<1>5. (\A name : Is(name) = {} /\ Sent(name) = {}) /\ Maps = {}
  BY <1>2 DEF Is, Sent, Maps, Ahead
<1>6. Picked = {} /\ Resolving = {} /\ Knots = {} /\ Rowed = {}
  BY <1>3, <1>5 DEF Picked, Resolving, Knots, Rowed
<1>7. Phased
  BY <1>2, <1>5 DEF Phased, Alone, Followed, Clearing, Noticed
<1>8. Apart
  BY <1>3, <1>5, <1>6 DEF Apart, Held, PicksApart, KnotsApart
<1>9. Gapped
  BY <1>4 DEF Gapped
<1>10. Fresh
  BY <1>2, <1>4, <1>5 DEF Fresh, Marked, Current, EditsLast, Stale, Reading
<1>18. Tagged
  BY <1>2, <1>5 DEF Tagged, Init, EmptyDb
<1>11. ListedRight
  BY <1>3, <1>5 DEF ListedRight, Unlisted
<1>12. Truncated
  BY <1>5 DEF Truncated
<1>13. Proposed
  BY <1>4, <1>5, <1>6 DEF Proposed
<1>14. Single
  BY <1>2, <1>5, <1>6 DEF Single, Sole, Ours
<1>15. Matching
  BY <1>3, <1>6 DEF Matching, ClaimsRowed, RowsClaimed
<1>16. Manifested
  BY <1>2, <1>3, <1>5
     DEF Manifested, AllIn, ScoresIn, ScoresComeIn, ScorersIn, PackersIn, PoolsIn, SolversIn
<1>17. Ordering
  BY <1>4 DEF Ordering
<1> QED
  BY <1>1, <1>7, <1>8, <1>9, <1>10, <1>11, <1>12, <1>13, <1>14, <1>15, <1>16, <1>17, <1>18 DEF IInv

LEMMA InvariantNext == ASSUME IInv, [Next]_vars PROVE IInv'
BY TypedNext, PhasedNext, ApartNext, GappedNext, TaggedNext, FreshNext, ListedNext, TruncatedNext,
   ProposedNext, SingleNext, MatchingNext, ManifestedNext, OrderingNext DEF IInv

\* The invariant holds throughout.
LEMMA Invariance == Spec => []IInv
<1>1. Init => IInv
  BY InvariantInit
<1>2. IInv /\ [Next]_vars => IInv'
  BY InvariantNext
<1> QED
  BY <1>1, <1>2, PTL DEF Spec

-----------------------------------------------------------------------------
(* What follows from it.                                                   *)

\* At rest nothing waits and nothing runs.
LEMMA AtRest ==
  ASSUME IInv, Quiet
  PROVE  /\ Range(queue) = {} /\ DOMAIN queue = {} /\ Range(todo) = {}
         /\ \A name : Is(name) = {} /\ Sent(name) = {}
         /\ Picked = db.packed /\ Knots = db.knots /\ Maps = {} /\ ~Remapping
<1>1. Range(queue) = {} /\ DOMAIN queue = {} /\ Range(todo) = {}
  <2>1. DOMAIN <<>> = {}
    OBVIOUS
  <2> QED
    BY <2>1 DEF Quiet, Range
<1>2. \A name : Is(name) = {} /\ Sent(name) = {}
  BY <1>1 DEF Quiet, Is, Sent
<1>3. Picked = db.packed /\ Knots = db.knots
  BY <1>2 DEF Picked, Knots
<1>4. Maps = {} /\ ~Remapping
  BY <1>1, <1>2 DEF Quiet, Maps, Ahead, Remapping
<1> QED
  BY <1>1, <1>2, <1>3, <1>4

\* The tables, the computations and the phases have their types, whatever
\* waits in the queue, and knots are made of the last mapping's proposals.
THEOREM PackingTypes == Spec => []TypeOK
<1>1. ASSUME IInv PROVE TypeOK
  <2>1. Typed /\ Single
    BY <1>1 DEF IInv
  <2>2. given \in Catalogue /\ version \in Version /\ db.version \in Version
    <3>1. version \in Nat /\ version <= MaxChanges
      BY <2>1, Numbers DEF Typed
    <3> QED
      BY <2>1, <3>1, CatalogueFacts, DbFacts, Numbers
  <2>3. \A r \in Release : db.candidates[r].files \subseteq Inode /\ db.scores[r] \subseteq Row
    BY <2>1, DbFacts DEF Listing
  <2>4. \A p \in db.packed : p.release \in Release /\ p.tier \in Tier /\ p.rows \subseteq Row
    BY <2>1, DbFacts DEF Proposal
  <2>5. \A knot \in db.knots : knot \subseteq seen.proposals \/ seen.overlapped
    BY <2>1 DEF Single, Ours, Knots
  <2>6. \A t \in tasks : t.name \in {"Pack", "Score", "Mappings", "Map", "Resolve", "Gaps"}
    BY <2>1, TaskFacts DEF Typed
  <2>7. \A k \in DOMAIN todo : todo[k].name \in {"Mappings", "Map", "Gaps"}
    <3>1. \A k \in DOMAIN todo : todo[k] \in Phase
      BY <2>1, ElementOfSeq, LenProperties DEF Typed
    <3> QED
      BY <3>1, PhaseFacts DEF Solitary
  <2>8. /\ db.present \subseteq Inode /\ db.manifest \subseteq Release
        /\ db.claims \subseteq Inode \X Release \X Slot
        /\ db.unmatched \subseteq Inode /\ db.unfilled \subseteq Release \X Slot
    BY <2>1, DbFacts
  <2> QED
    BY <2>2, <2>3, <2>4, <2>5, <2>6, <2>7, <2>8 DEF TypeOK
<1> QED
  BY <1>1, Invariance, PTL

\* No file is packed twice (PicksDisjoint): not by two tiers, each of which
\* reads what the one before it claimed, not by two solvers of a tier, which
\* run at once, and not by two runs that overlap.
THEOREM NoFileTwice == Spec => []PicksDisjoint
<1>1. ASSUME IInv PROVE PicksDisjoint
  <2>1. ASSUME ~seen.bailed, NEW p \in db.packed, NEW q \in db.packed, p # q
        PROVE  BothPinned(p, q) \/ Files(p) \cap Files(q) \subseteq seen.touched
    <3>1. PicksApart
      BY <1>1, <2>1 DEF IInv, Apart
    <3>2. p \in Picked /\ q \in Picked
      BY DEF Picked
    <3> QED
      BY <2>1, <3>1, <3>2 DEF PicksApart, Compatible
  <2> QED
    BY <2>1 DEF PicksDisjoint
<1> QED
  BY <1>1, Invariance, PTL

\* At rest the claims on files are the rows of the packed releases
\* (ClaimsMatch), though they are cleared, emitted and lost one at a time.
THEOREM ClaimsTellTheSame == Spec => []ClaimsMatch
<1>1. ASSUME IInv PROVE ClaimsMatch
  <2>1. ASSUME Quiet, ~seen.bailed PROVE ClaimsRowed /\ RowsClaimed
    BY <1>1, <2>1, AtRest DEF IInv, Matching
  <2> QED
    BY <2>1 DEF ClaimsMatch, ClaimsRowed, RowsClaimed, Excusable
<1> QED
  BY <1>1, Invariance, PTL

\* Nothing is jumped (NothingJumped): whoever is not packed at the end of a
\* run lost a file to a release of its round or of one before it.
THEOREM BetterTierFirst == Spec => []NothingJumped
<1>1. ASSUME IInv PROVE NothingJumped
  <2>1. ASSUME Done, ~seen.overlapped, NEW p \in seen.proposals \ db.packed PROVE Served(p)
    <3>1. Is("Resolve") = {} /\ Picked = db.packed /\ Maps = {} /\ ~Remapping
      BY <1>1, <2>1, AtRest DEF Done
    <3>2. InOrder
      BY <1>1, <2>1, <3>1 DEF IInv, Ordering, Done
    <3> QED
      BY <3>1, <3>2 DEF InOrder, Waits
  <2>2. ASSUME Done PROVE Picked = db.packed /\ Knots = db.knots
    BY <1>1, <2>2, AtRest DEF Done
  <2> QED
    BY <2>1, <2>2 DEF NothingJumped, Served
<1> QED
  BY <1>1, Invariance, PTL

\* The gap analysis ends with exactly the unclaimed files (UnmatchedExact).
THEOREM GapsAreExact == Spec => []UnmatchedExact
<1>1. ASSUME IInv PROVE UnmatchedExact
  <2>1. ASSUME Done PROVE GapsKnown /\ Sent("gaps") = {}
    <3>1. Sent("gaps") = {}
      BY <1>1, <2>1, AtRest DEF Done
    <3>2. ~GapsToCome
      BY <2>1 DEF Done, Quiet, GapsToCome
    <3> QED
      BY <1>1, <2>1, <3>1, <3>2 DEF IInv, Gapped, Done
  <2> QED
    BY <2>1 DEF UnmatchedExact, GapsKnown, WillBeUnmatched
<1> QED
  BY <1>1, Invariance, PTL

\* An edit is not forgotten (ScoresFresh): once it is written, a release that
\* lists the file was listed with the tags the database has, or the file is
\* marked for the next run; unless the edit met a PackReleases between its
\* reading of the tags and its clearing of the marks.
THEOREM MarksAreKept == Spec => []ScoresFresh
<1>1. ASSUME IInv PROVE ScoresFresh
  <2>1. ASSUME Quiet, ~seen.overtaken, NEW r \in Release,
               NEW i \in db.candidates[r].files \cap db.present \cap seen.edited
        PROVE  db.candidates[r].version = db.version \/ i \in db.dirty
    <3>1. Marked /\ Tagged /\ Sent("edit") = {}
      BY <1>1, <2>1, AtRest DEF IInv, Fresh
    <3>2. i \in Inode
      BY <1>1, DbFacts DEF IInv
    <3>3. db.version = version
      BY <3>1 DEF Tagged
    <3> QED
      BY <2>1, <3>1, <3>2, <3>3 DEF Marked, Stale, Old, Pending
  <2> QED
    BY <2>1 DEF ScoresFresh
<1> QED
  BY <1>1, Invariance, PTL

-----------------------------------------------------------------------------
(* The solver.                                                             *)

\* Every entry of the stack is a feasible pick whose numbers are those of its
\* members, and everything it may still add is free of rivals among them.
Entry(n) ==
  /\ n.selected \cap n.candidates = {}
  /\ Independent(family, n.selected)
  /\ \A s \in n.selected, c \in n.candidates : ~Conflict(family, s, c)
  /\ n.coverage = Coverage(family, n.selected)
  /\ n.score = Score(family, n.selected)

Entries == \A i \in 1 .. Len(stack) : Entry(stack[i])

\* The entry can still be completed to the pick S.
Reaches(n, S) == n.selected \subseteq S /\ S \subseteq n.selected \cup n.candidates

\* A pick that beats the best one is still below some entry.
NothingLost ==
  \A S \in SUBSET Candidates(family) :
    Independent(family, S) =>
      \/ ~Beats(PickOf(family, S), best)
      \/ \E i \in 1 .. Len(stack) : Reaches(stack[i], S)

\* No subset that has been tried beats the best pick.
Tried ==
  /\ mask \in 1 .. Bit(Size(family))
  /\ \A m \in 1 .. mask - 1 :
       Independent(family, Subset(m)) => ~Beats(PickOf(family, Subset(m)), best)

\* The two solvers do not mix.
OneSolver == Exhaustive => stack = <<>>

MisInv ==
  /\ MisTypeOK
  /\ BestIsFeasible
  /\ OneSolver
  /\ Entries
  /\ ~Exhaustive => NothingLost
  /\ Exhaustive => Tried

-----------------------------------------------------------------------------
(* Facts about picks.                                                      *)

\* What a pick of a component weighs is a natural number.
LEMMA PickType ==
  ASSUME family \in Family, NEW S \in SUBSET Candidates(family)
  PROVE  /\ Coverage(family, S) \in Nat
         /\ Score(family, S) \in Nat
         /\ PickOf(family, S) \in Pick(family)
BY Additive DEF PickOf, Pick

\* Coverage and score of disjoint picks add up.
LEMMA Adds ==
  ASSUME family \in Family, NEW S \in SUBSET Candidates(family),
         NEW T \in SUBSET Candidates(family), S \cap T = {}
  PROVE  /\ Coverage(family, S \cup T) = Coverage(family, S) + Coverage(family, T)
         /\ Score(family, S \cup T) = Score(family, S) + Score(family, T)
BY Additive

\* A part of a pick weighs no more than the pick.
LEMMA Monotone ==
  ASSUME family \in Family, NEW T \in SUBSET Candidates(family),
         NEW S \in SUBSET T
  PROVE  /\ Coverage(family, S) <= Coverage(family, T)
         /\ Score(family, S) <= Score(family, T)
<1>1. S \cup (T \ S) = T /\ S \cap (T \ S) = {}
  OBVIOUS
<1>2. S \in SUBSET Candidates(family) /\ (T \ S) \in SUBSET Candidates(family)
  OBVIOUS
<1>3. /\ Coverage(family, T) = Coverage(family, S) + Coverage(family, T \ S)
      /\ Score(family, T) = Score(family, S) + Score(family, T \ S)
  BY <1>1, <1>2, Adds, Zenon
<1>4. /\ Coverage(family, S) \in Nat /\ Coverage(family, T \ S) \in Nat
      /\ Score(family, S) \in Nat /\ Score(family, T \ S) \in Nat
  BY <1>2, PickType
<1> QED
  BY <1>3, <1>4

\* Keeping the better of two picks never makes a pick win that lost before,
\* and leaves no winner among those the new pick is at least as good as.
LEMMA BetterKeeps ==
  ASSUME NEW p \in Pick(family), NEW old \in Pick(family), NEW new \in Pick(family)
  PROVE  /\ ~Beats(p, old) => ~Beats(p, BetterOf(old, new))
         /\ ~Beats(new, BetterOf(old, new))
         /\ BetterOf(old, new) \in {old, new}
BY DEF Beats, BetterOf, Pick

\* What a hopeless entry can still be completed to does not beat the best pick.
LEMMA HopelessCut ==
  ASSUME MisTypeOK, NEW n \in Node(family), Entry(n), Hopeless(n),
         NEW S \in SUBSET Candidates(family), Reaches(n, S)
  PROVE  ~Beats(PickOf(family, S), best)
<1> DEFINE T == S \ n.selected
<1>1. /\ n.selected \in SUBSET Candidates(family)
      /\ n.candidates \in SUBSET Candidates(family)
      /\ family \in Family
      /\ T \in SUBSET n.candidates /\ T \in SUBSET Candidates(family)
      /\ n.selected \cap T = {} /\ n.selected \cup T = S
  BY DEF MisTypeOK, Node, Entry, Reaches
<1>2. /\ Coverage(family, S) = Coverage(family, n.selected) + Coverage(family, T)
      /\ Score(family, S) = Score(family, n.selected) + Score(family, T)
  BY <1>1, Adds, Zenon
<1>3. /\ Coverage(family, T) <= Coverage(family, n.candidates)
      /\ Score(family, T) <= Score(family, n.candidates)
  BY <1>1, Monotone
<1>4. /\ Coverage(family, T) \in Nat /\ Coverage(family, n.candidates) \in Nat
      /\ Score(family, T) \in Nat /\ Score(family, n.candidates) \in Nat
      /\ n.coverage \in Nat /\ n.score \in Nat
      /\ best.coverage \in Nat /\ best.score \in Int
  BY <1>1, PickType DEF MisTypeOK, Node, Pick
<1>5. /\ Coverage(family, S) <= n.coverage + Coverage(family, n.candidates)
      /\ Score(family, S) <= n.score + Score(family, n.candidates)
      /\ Coverage(family, S) \in Nat /\ Score(family, S) \in Nat
  BY <1>2, <1>3, <1>4 DEF Entry
<1> QED
  BY <1>4, <1>5 DEF Hopeless, Beats, PickOf

\* The pivot's two branches are entries, the first one unless the pivot
\* wants a claimed file, which it never does, and between them they reach
\* every pick the parent reaches.
LEMMA Branches ==
  ASSUME MisTypeOK, NEW n \in Node(family), Entry(n), NEW p \in n.candidates
  PROVE  /\ Without(n, p) \in Node(family) /\ Entry(Without(n, p))
         /\ With(n, p) \in Node(family) /\ Entry(With(n, p))
         /\ ~ \E s \in n.selected : Conflict(family, p, s)
         /\ \A S \in SUBSET Candidates(family) :
              Independent(family, S) /\ Reaches(n, S) =>
                Reaches(Without(n, p), S) \/ Reaches(With(n, p), S)
<1>1. /\ n.selected \in SUBSET Candidates(family)
      /\ n.candidates \in SUBSET Candidates(family)
      /\ p \in Candidates(family) /\ p \notin n.selected
      /\ n.coverage \in Nat /\ n.score \in Nat
      /\ family \in Family
  BY DEF MisTypeOK, Node, Entry
<1>2. \A c, d \in Candidates(family) : Conflict(family, c, d) = Conflict(family, d, c)
  BY <1>1, ConflictSymmetric
<1>3. ~ \E s \in n.selected : Conflict(family, p, s)
  BY <1>1, <1>2 DEF Entry
<1>4. Without(n, p) = [selected |-> n.selected, candidates |-> n.candidates \ {p},
                       coverage |-> n.coverage, score |-> n.score]
  BY DEF Without, Node
<1>5. Without(n, p) \in Node(family) /\ Entry(Without(n, p))
  BY <1>1, <1>4 DEF Node, Entry
<1>6. /\ Coverage(family, {p}) \in Nat /\ Score(family, {p}) \in Nat
      /\ Coverage(family, n.selected \cup {p}) = n.coverage + Coverage(family, {p})
      /\ Score(family, n.selected \cup {p}) = n.score + Score(family, {p})
  <2>1. {p} \in SUBSET Candidates(family) /\ n.selected \cap {p} = {}
    BY <1>1
  <2> QED
    BY <1>1, <2>1, PickType, Adds DEF Entry
<1>7. With(n, p) \in Node(family)
  BY <1>1, <1>6 DEF With, Node
<1>8. Independent(family, With(n, p).selected)
  BY <1>1, <1>2, <1>3 DEF With, Independent, Entry
<1>9. Entry(With(n, p))
  <2>1. With(n, p).selected \cap With(n, p).candidates = {}
    BY <1>1 DEF With, Entry
  <2>2. \A s \in With(n, p).selected, c \in With(n, p).candidates :
          ~Conflict(family, s, c)
    BY DEF With, Entry
  <2>3. /\ With(n, p).coverage = Coverage(family, With(n, p).selected)
        /\ With(n, p).score = Score(family, With(n, p).selected)
    BY <1>6 DEF With
  <2> QED
    BY <1>8, <2>1, <2>2, <2>3 DEF Entry
<1>10. ASSUME NEW S \in SUBSET Candidates(family), Independent(family, S), Reaches(n, S)
       PROVE  Reaches(Without(n, p), S) \/ Reaches(With(n, p), S)
  <2>1. CASE p \in S
    <3>1. S \subseteq With(n, p).selected \cup With(n, p).candidates
      BY <1>10, <2>1 DEF Reaches, With, Independent
    <3> QED
      BY <1>10, <2>1, <3>1 DEF Reaches, With
  <2>2. CASE p \notin S
    BY <1>4, <1>10, <2>2 DEF Reaches
  <2> QED
    BY <2>1, <2>2
<1> QED
  BY <1>3, <1>5, <1>7, <1>9, <1>10

-----------------------------------------------------------------------------
(* Every subset has a mask.                                                *)

\* A set of numbers has a least one.
LEMMA Least ==
  ASSUME NEW S \in SUBSET Nat, S # {}
  PROVE  \E m \in S : \A k \in S : m <= k
<1>1. IsWellFoundedOn(OpToRel(<, Nat), Nat)
  BY NatLessThanWellFounded
<1>2. PICK m \in S : \A k \in S : <<k, m>> \notin OpToRel(<, Nat)
  BY <1>1, WFMin
<1>3. \A k \in S : <<k, m>> \in Nat \X Nat /\ ~(k < m)
  BY <1>2 DEF OpToRel
<1>4. \A k \in S : k \in Nat /\ m \in Nat /\ ~(k < m)
  BY <1>3
<1>5. \A k \in S : m <= k
  BY <1>4
<1> QED
  BY <1>5

\* A set that has 0, and with each number up to n its successor, has all up to n.
LEMMA SetInduction ==
  ASSUME NEW n \in Nat, NEW S, 0 \in S, \A i \in 1..n : i - 1 \in S => i \in S
  PROVE  0..n \subseteq S
<1> SUFFICES ASSUME 0..n \ S # {} PROVE FALSE
  OBVIOUS
<1>1. 0..n \ S \in SUBSET Nat
  OBVIOUS
<1>2. PICK m \in 0..n \ S : \A k \in 0..n \ S : m <= k
  BY <1>1, Least
<1>3. m \in 1..n
  BY <1>2
<1>4. m - 1 \in 0..n /\ ~(m <= m - 1)
  BY <1>3
<1>5. m - 1 \in S
  BY <1>2, <1>4
<1> QED
  BY <1>2, <1>3, <1>5

\* Bit is what its recursive definition says.
LEMMA BitRecursion ==
  ASSUME NEW n \in Nat
  PROVE  \E bit : /\ Bit(n) = bit[n] /\ bit[0] = 1
                  /\ \A k \in 1..n : bit[k] = 2 * bit[k - 1]
<1> DEFINE Fits(g, k) == /\ g = [i \in 0..k |-> g[i]] /\ g[0] = 1
                         /\ \A i \in 1..k : g[i] = 2 * g[i - 1]
           Rec(g) == g = [k \in 0..n |-> IF k = 0 THEN 1 ELSE 2 * g[k - 1]]
<1>1. Bit(n) = (CHOOSE g : Rec(g))[n]
  BY DEF Bit
<1>2. \E g : Rec(g)
  <2> DEFINE S == {k \in 0..n : \E g : Fits(g, k)}
  <2>1. 0 \in S
    <3> DEFINE g == [i \in 0..0 |-> 1]
    <3>1. Fits(g, 0)
      OBVIOUS
    <3> HIDE DEF Fits, g
    <3>2. 0 \in 0..n /\ \E f : Fits(f, 0)
      BY <3>1
    <3> QED
      BY <3>2
  <2>2. ASSUME NEW k \in 1..n, k - 1 \in S PROVE k \in S
    <3>1. PICK f : Fits(f, k - 1)
      BY <2>2
    <3> DEFINE g == [i \in 0..k |-> IF i = k THEN 2 * f[k - 1] ELSE f[i]]
    <3>2. k \in Nat /\ k # 0 /\ k \in 0..n /\ k - 1 \in Nat /\ 0 \in 0..k
      OBVIOUS
    <3>3. g = [i \in 0..k |-> g[i]]
      OBVIOUS
    <3>4. g[0] = 1
      BY <3>1, <3>2
    <3>5. ASSUME NEW i \in 1..k PROVE g[i] = 2 * g[i - 1]
      <4>1. i \in 0..k /\ i - 1 \in 0..k /\ i - 1 # k
        BY <3>2
      <4>2. g[i - 1] = f[i - 1]
        BY <4>1
      <4>3. CASE i = k
        BY <4>1, <4>2, <4>3
      <4>4. CASE i # k
        <5>1. i \in 1..(k - 1)
          BY <3>2, <4>4
        <5>2. g[i] = f[i] /\ f[i] = 2 * f[i - 1]
          BY <3>1, <4>1, <4>4, <5>1
        <5> QED
          BY <4>2, <5>2
      <4> QED
        BY <4>3, <4>4
    <3> HIDE DEF g
    <3>6. Fits(g, k)
      BY <3>3, <3>4, <3>5
    <3> HIDE DEF Fits
    <3> QED
      BY <3>2, <3>6
  <2> HIDE DEF S
  <2>3. 0..n \subseteq S
    BY <2>1, <2>2, SetInduction
  <2>4. n \in S
    BY <2>3
  <2>5. PICK g : Fits(g, n)
    BY <2>4 DEF S
  <2>6. Rec(g)
    <3> DEFINE body(i) == IF i = 0 THEN 1 ELSE 2 * g[i - 1]
    <3>1. ASSUME NEW i \in 0..n PROVE g[i] = body(i)
      <4>1. i = 0 \/ (i \in 1..n /\ i # 0)
        OBVIOUS
      <4>2. CASE i = 0
        BY <2>5, <4>2
      <4>3. CASE i \in 1..n /\ i # 0
        BY <2>5, <4>3
      <4> QED
        BY <4>1, <4>2, <4>3
    <3>2. g = [i \in 0..n |-> g[i]]
      BY <2>5
    <3> HIDE DEF body
    <3>3. [i \in 0..n |-> g[i]] = [i \in 0..n |-> body(i)]
      BY <3>1
    <3>4. g = [i \in 0..n |-> body(i)]
      BY <3>2, <3>3
    <3> QED
      BY <3>4 DEF body
  <2> QED
    BY <2>6
<1> DEFINE bit == CHOOSE g : Rec(g)
<1>3. Rec(bit)
  BY <1>2
<1> HIDE DEF bit
<1>4. bit[0] = 1 /\ \A i \in 1..n : bit[i] = 2 * bit[i - 1]
  BY <1>3
<1> QED
  BY <1>1, <1>4 DEF bit

\* Whatever is defined as Bit is, is Bit.
LEMMA BitAgrees ==
  ASSUME NEW n \in Nat, NEW g, g[0] = 1, \A k \in 1..n : g[k] = 2 * g[k - 1]
  PROVE  \A k \in 0..n : g[k] = Bit(k)
<1> SUFFICES ASSUME NEW k \in 0..n PROVE g[k] = Bit(k)
  OBVIOUS
<1>1. PICK h : Bit(k) = h[k] /\ h[0] = 1 /\ \A i \in 1..k : h[i] = 2 * h[i - 1]
  BY BitRecursion
<1> DEFINE S == {i \in 0..k : g[i] = h[i]}
<1>2. k \in Nat /\ 0 \in S
  BY <1>1
<1>3. ASSUME NEW i \in 1..k, i - 1 \in S PROVE i \in S
  <2>1. i \in 0..k /\ i \in 1..n /\ g[i - 1] = h[i - 1]
    BY <1>3
  <2> QED
    BY <1>1, <2>1
<1> HIDE DEF S
<1>4. 0..k \subseteq S
  BY <1>2, <1>3, SetInduction
<1>5. k \in S
  BY <1>2, <1>4
<1> QED
  BY <1>1, <1>5 DEF S

\* Bit doubles.
LEMMA BitDoubles ==
  ASSUME NEW n \in Nat
  PROVE  Bit(0) = 1 /\ Bit(n + 1) = 2 * Bit(n)
<1>1. PICK g : Bit(n + 1) = g[n + 1] /\ g[0] = 1 /\ \A k \in 1..(n + 1) : g[k] = 2 * g[k - 1]
  BY BitRecursion
<1>2. \A k \in 0..(n + 1) : g[k] = Bit(k)
  BY <1>1, BitAgrees
<1>3. n \in 0..(n + 1) /\ 0 \in 0..(n + 1) /\ n + 1 \in 1..(n + 1) /\ (n + 1) - 1 = n
  OBVIOUS
<1>4. g[n + 1] = 2 * g[n]
  BY <1>1, <1>3
<1> QED
  BY <1>1, <1>2, <1>3, <1>4

\* Bit is positive.
LEMMA BitPositive ==
  ASSUME NEW n \in Nat
  PROVE  Bit(n) \in Nat \ {0}
<1> DEFINE S == {i \in 0..n : Bit(i) \in Nat \ {0}}
<1>1. 0 \in S
  BY BitDoubles
<1>2. ASSUME NEW i \in 1..n, i - 1 \in S PROVE i \in S
  <2>1. i - 1 \in Nat /\ (i - 1) + 1 = i /\ i \in 0..n /\ Bit(i - 1) \in Nat \ {0}
    BY <1>2
  <2>2. Bit(i) = 2 * Bit(i - 1)
    BY <2>1, BitDoubles
  <2> QED
    BY <2>1, <2>2
<1> HIDE DEF S
<1>3. 0..n \subseteq S
  BY <1>1, <1>2, SetInduction
<1>4. n \in S
  BY <1>3
<1> QED
  BY <1>4 DEF S

\* A higher bit is an even multiple of a lower one.
LEMMA BitDivides ==
  ASSUME NEW c \in Nat, NEW n \in Nat
  PROVE  \E q \in Nat : Bit(c + 1 + n) = Bit(c) * (2 * q)
<1> DEFINE Even(i) == \E q \in Nat : Bit(c + 1 + i) = Bit(c) * (2 * q)
           S == {i \in 0..n : Even(i)}
<1>1. Bit(c) \in Nat
  BY BitPositive
<1>2. 0 \in S
  <2>1. Bit(c + 1) = Bit(c) * (2 * 1) /\ c + 1 + 0 = c + 1
    BY <1>1, BitDoubles
  <2> QED
    BY <2>1
<1>3. ASSUME NEW i \in 1..n, i - 1 \in S PROVE i \in S
  <2>1. PICK q \in Nat : Bit(c + 1 + (i - 1)) = Bit(c) * (2 * q)
    BY <1>3
  <2>2. c + i \in Nat /\ c + 1 + (i - 1) = c + i /\ c + 1 + i = (c + i) + 1
    OBVIOUS
  <2>3. Bit(c + 1 + i) = 2 * Bit(c + i)
    BY <2>2, BitDoubles
  <2>4. Bit(c + 1 + i) = Bit(c) * (2 * (2 * q))
    BY <1>1, <2>1, <2>2, <2>3
  <2>5. i \in 0..n /\ 2 * q \in Nat
    OBVIOUS
  <2> QED
    BY <2>4, <2>5
<1> HIDE DEF S
<1>4. 0..n \subseteq S
  BY <1>2, <1>3, SetInduction
<1>5. n \in S
  BY <1>4
<1> QED
  BY <1>5 DEF S

\* A higher bit does not change the lower ones.
LEMMA LowerBits ==
  ASSUME NEW k \in Nat, NEW c \in 0..(k - 1), NEW m \in Nat
  PROVE  ((m + Bit(k)) \div Bit(c)) % 2 = (m \div Bit(c)) % 2
<1>1. c \in Nat /\ k - c - 1 \in Nat /\ c + 1 + (k - c - 1) = k
  OBVIOUS
<1>2. PICK q \in Nat : Bit(k) = Bit(c) * (2 * q)
  <2> DEFINE i == k - c - 1
  <2>1. c \in Nat /\ i \in Nat /\ c + 1 + i = k
    BY <1>1
  <2> HIDE DEF i
  <2>2. \E q \in Nat : Bit(c + 1 + i) = Bit(c) * (2 * q)
    BY <2>1, BitDivides
  <2> QED
    BY <2>1, <2>2
<1> DEFINE b == Bit(c)
           d == m \div b
<1>3. b \in Nat \ {0}
  BY <1>1, BitPositive
<1> HIDE DEF b
<1>4. (m + b * (2 * q)) \div b = d + 2 * q
  <2>1. 2 * q \in Nat
    OBVIOUS
  <2> DEFINE e == 2 * q
  <2> HIDE DEF e
  <2>2. (m + b * e) \div b = (m \div b) + e
    BY <1>3, <2>1 DEF e
  <2> QED
    BY <2>2 DEF e
<1>5. d \in Nat
  BY <1>3
<1> HIDE DEF d
<1>6. (d + 2 * q) % 2 = d % 2
  BY <1>5
<1> QED
  BY <1>2, <1>4, <1>6 DEF b, d

\* Every set of n candidates is the subset of some mask below 1 << n.
LEMMA EverySubset ==
  ASSUME NEW n \in Nat, NEW T \in SUBSET (0..(n - 1))
  PROVE  \E m \in 0..(Bit(n) - 1) : {c \in 0..(n - 1) : (m \div Bit(c)) % 2 = 1} = T
<1> DEFINE Codes(m, U, k) == \A c \in 0..(k - 1) : ((m \div Bit(c)) % 2 = 1) <=> c \in U
           Coded(k) == \A U \in SUBSET (0..(k - 1)) : \E m \in 0..(Bit(k) - 1) : Codes(m, U, k)
           S == {k \in 0..n : Coded(k)}
<1>1. 0 \in S
  <2>1. 0 \in 0..(Bit(0) - 1) /\ 0..(0 - 1) = {}
    BY BitDoubles
  <2> QED
    BY <2>1
<1>2. ASSUME NEW k \in 1..n, k - 1 \in S PROVE k \in S
  <2> DEFINE j == k - 1
             b == Bit(j)
  <2>1. j \in Nat /\ j + 1 = k /\ k \in 0..n /\ b \in Nat \ {0} /\ Bit(k) = 2 * b
    BY BitDoubles, BitPositive
  <2>2. ASSUME NEW U \in SUBSET (0..(k - 1)) PROVE \E m \in 0..(Bit(k) - 1) : Codes(m, U, k)
    <3>1. U \ {j} \in SUBSET (0..(j - 1))
      BY <2>1
    <3>2. Coded(j)
      BY <1>2
    <3>3. PICK m \in 0..(b - 1) : Codes(m, U \ {j}, j)
      BY <3>1, <3>2
    <3>4. m \in Nat /\ m \div b = 0 /\ (m + b) \div b = 1
      <4> HIDE DEF b
      <4> QED
        BY <2>1
    <3>5. \A c \in 0..(k - 1) : c = j \/ c \in 0..(j - 1)
      BY <2>1
    <3>6. j \notin 0..(j - 1)
      BY <2>1
    <3>7. CASE j \in U
      <4>1. ASSUME NEW c \in 0..(k - 1) PROVE (((m + b) \div Bit(c)) % 2 = 1) <=> c \in U
        <5>1. CASE c = j
          <6>1. ((m + b) \div Bit(c)) % 2 = 1
            BY <3>4, <5>1
          <6> QED
            BY <3>7, <5>1, <6>1
        <5>2. CASE c \in 0..(j - 1)
          <6>1. ((m + b) \div Bit(c)) % 2 = (m \div Bit(c)) % 2
            BY <2>1, <3>4, <5>2, LowerBits
          <6>2. ((m \div Bit(c)) % 2 = 1) <=> c \in U \ {j}
            BY <3>3, <5>2
          <6>3. c # j
            BY <3>6, <5>2
          <6> QED
            BY <6>1, <6>2, <6>3
        <5> QED
          BY <3>5, <5>1, <5>2
      <4>2. m + b \in 0..(Bit(k) - 1)
        BY <2>1
      <4> QED
        BY <4>1, <4>2
    <3>8. CASE j \notin U
      <4>1. ASSUME NEW c \in 0..(k - 1) PROVE ((m \div Bit(c)) % 2 = 1) <=> c \in U
        <5>1. CASE c = j
          <6>1. (m \div Bit(c)) % 2 = 0
            BY <3>4, <5>1
          <6> QED
            BY <3>8, <5>1, <6>1
        <5>2. CASE c \in 0..(j - 1)
          <6>1. ((m \div Bit(c)) % 2 = 1) <=> c \in U \ {j}
            BY <3>3, <5>2
          <6>2. c # j
            BY <3>6, <5>2
          <6> QED
            BY <6>1, <6>2
        <5> QED
          BY <3>5, <5>1, <5>2
      <4>2. m \in 0..(Bit(k) - 1)
        BY <2>1
      <4> QED
        BY <4>1, <4>2
    <3> QED
      BY <3>7, <3>8
  <2> QED
    BY <2>1, <2>2
<1> HIDE DEF S
<1>3. 0..n \subseteq S
  BY <1>1, <1>2, SetInduction
<1>4. n \in S
  BY <1>3
<1>5. PICK m \in 0..(Bit(n) - 1) : Codes(m, T, n)
  BY <1>4 DEF S
<1> QED
  BY <1>5

-----------------------------------------------------------------------------
(* The invariant.                                                          *)

LEMMA InitInv == ASSUME MisInit PROVE MisInv
<1> USE DEF MisInit
<1>1. family \in Family /\ Size(family) \in Nat /\ best = NoPick
  BY SizeNat
<1>2. MisTypeOK
  <2>1. Root(family) \in Node(family)
    BY DEF Root, Node
  <2>2. stack \in Seq(Node(family))
    BY <2>1
  <2>3. NoPick \in Pick(family)
    BY DEF NoPick, Pick
  <2> QED
    BY <1>1, <2>2, <2>3 DEF MisTypeOK
<1>3. BestIsFeasible
  BY <1>1 DEF BestIsFeasible, Independent, NoPick
<1>4. OneSolver
  BY DEF OneSolver
<1>5. Entry(Root(family))
  BY <1>1, NothingWeighsNothing DEF Entry, Root, Independent
<1>6. Entries
  <2>1. stack = <<>> \/ (Len(stack) = 1 /\ stack[1] = Root(family))
    OBVIOUS
  <2> QED
    BY <1>5, <2>1 DEF Entries
<1>7. ~Exhaustive => NothingLost
  <2>1. ~Exhaustive => Len(stack) = 1 /\ stack[1] = Root(family)
    OBVIOUS
  <2>2. \A S \in SUBSET Candidates(family) : Reaches(Root(family), S)
    BY DEF Reaches, Root
  <2> QED
    BY <2>1, <2>2 DEF NothingLost
<1>8. Exhaustive => Tried
  <2>1. Bit(Size(family)) \in Nat \ {0}
    BY <1>1, BitPositive
  <2>2. Exhaustive => mask = 1 /\ 1 .. mask - 1 = {}
    OBVIOUS
  <2> QED
    BY <2>1, <2>2 DEF Tried
<1> QED
  BY <1>2, <1>3, <1>4, <1>6, <1>7, <1>8 DEF MisInv

\* What a step may rely on: the top entry, and the stack without it.
LEMMA TopFacts ==
  ASSUME MisInv, stack # <<>>
  PROVE  /\ Len(stack) \in Nat \ {0}
         /\ Top \in Node(family) /\ Entry(Top)
         /\ Popped \in Seq(Node(family)) /\ Len(Popped) = Len(stack) - 1
         /\ \A i \in 1 .. Len(stack) - 1 : Popped[i] = stack[i]
         /\ ~Exhaustive
<1>1. /\ stack \in Seq(Node(family)) /\ stack # <<>>
      /\ \A i \in 1 .. Len(stack) : Entry(stack[i])
  BY DEF MisInv, MisTypeOK, Entries
<1>2. Len(stack) \in Nat \ {0}
  BY <1>1
<1>3. Len(stack) \in 1 .. Len(stack) /\ Top \in Node(family) /\ Entry(Top)
  BY <1>1, <1>2 DEF Top
<1>4. /\ Popped \in Seq(Node(family)) /\ Len(Popped) = Len(stack) - 1
      /\ \A i \in 1 .. Len(stack) - 1 : Popped[i] = stack[i]
  <2> DEFINE k == Len(stack) - 1
  <2>1. 1 \in 1 .. Len(stack) + 1 /\ k \in 1 - 1 .. Len(stack) /\ k = k - 1 + 1
    BY <1>2
  <2>2. /\ SubSeq(stack, 1, k) \in Seq(Node(family))
        /\ Len(SubSeq(stack, 1, k)) = k - 1 + 1
        /\ \A i \in 1 .. k - 1 + 1 : SubSeq(stack, 1, k)[i] = stack[1 + i - 1]
    BY <1>1, <2>1, SubSeqProperties
  <2> QED
    BY <1>2, <2>2 DEF Popped
<1>5. ~Exhaustive
  BY <1>1 DEF MisInv, OneSolver
<1> QED
  BY <1>2, <1>3, <1>4, <1>5

\* Popping an entry below which nothing beats the new best pick loses nothing.
LEMMA PopKeeps ==
  ASSUME MisInv, stack # <<>>, stack' = Popped, UNCHANGED <<family, mask>>,
         best' \in Pick(family), BestIsFeasible',
         \A p \in Pick(family) : ~Beats(p, best) => ~Beats(p, best'),
         \A S \in SUBSET Candidates(family) :
           Independent(family, S) /\ Reaches(Top, S) => ~Beats(PickOf(family, S), best')
  PROVE  MisInv'
<1>1. MisTypeOK /\ family \in Family
  BY DEF MisInv, MisTypeOK
<1>2. MisTypeOK'
  BY <1>1, TopFacts DEF MisTypeOK
<1>3. OneSolver' /\ ~Exhaustive /\ ~Exhaustive'
  BY TopFacts DEF OneSolver, Exhaustive
<1>4. Entries'
  <2>1. \A i \in 1 .. Len(stack) : Entry(stack[i])
    BY DEF MisInv, Entries
  <2> QED
    BY <2>1, TopFacts DEF Entries, Entry
<1>5. NothingLost'
  <2> SUFFICES ASSUME NEW S \in SUBSET Candidates(family), Independent(family, S),
                      Beats(PickOf(family, S), best')
               PROVE  \E i \in 1 .. Len(Popped) : Reaches(Popped[i], S)
    BY DEF NothingLost, Reaches
  <2>1. PickOf(family, S) \in Pick(family)
    BY <1>1, PickType
  <2>2. PICK i \in 1 .. Len(stack) : Reaches(stack[i], S)
    BY <1>3, <2>1 DEF MisInv, NothingLost
  <2>3. i # Len(stack)
    BY <2>2 DEF Top
  <2>4. i \in 1 .. Len(stack) - 1
    BY <2>2, <2>3, TopFacts
  <2> QED
    BY <2>2, <2>4, TopFacts
<1> QED
  BY <1>2, <1>3, <1>4, <1>5 DEF MisInv

LEMMA TryInv == ASSUME MisInv, Try PROVE MisInv'
<1> DEFINE S == Subset(mask)
<1> USE DEF Try
<1>1. MisTypeOK /\ family \in Family /\ best \in Pick(family) /\ BestIsFeasible
  BY DEF MisInv, MisTypeOK
<1>2. S \in SUBSET Candidates(family)
  BY DEF Subset
<1>3. PickOf(family, S) \in Pick(family)
  BY <1>1, <1>2, PickType
<1>4. /\ best' = best \/ (Independent(family, S) /\ best' = PickOf(family, S))
      /\ \A p \in Pick(family) : ~Beats(p, best) => ~Beats(p, best')
  BY <1>1, <1>3, BetterKeeps
<1>5. MisTypeOK'
  BY <1>1, <1>3, <1>4 DEF MisTypeOK
<1>6. BestIsFeasible'
  BY <1>1, <1>4 DEF BestIsFeasible, Independent, PickOf
<1>7. OneSolver' /\ Entries'
  BY DEF MisInv, OneSolver, Entries, Entry, Exhaustive
<1>8. (~Exhaustive => NothingLost)'
  <2>1. ~Exhaustive => NothingLost
    BY DEF MisInv
  <2>2. \A T \in SUBSET Candidates(family) : PickOf(family, T) \in Pick(family)
    BY <1>1, PickType
  <2> QED
    BY <1>4, <2>1, <2>2 DEF Exhaustive, NothingLost, Reaches
<1>9. (Exhaustive => Tried)'
  <2> SUFFICES ASSUME Exhaustive PROVE Tried'
    BY DEF Exhaustive
  <2>1. Tried /\ Bit(Size(family)) \in Nat
    BY <1>1, SizeNat, BitPositive DEF MisInv
  <2>2. mask' \in 1 .. Bit(Size(family))
    BY <2>1 DEF Tried
  <2>3. ~Beats(PickOf(family, S), best') \/ ~Independent(family, S)
    BY <1>1, <1>3, BetterKeeps
  <2>4. ASSUME NEW m \in 1 .. mask, Independent(family, Subset(m))
        PROVE  ~Beats(PickOf(family, Subset(m)), best')
    <3>1. CASE m = mask
      BY <2>3, <2>4, <3>1
    <3>2. CASE m # mask
      <4>1. m \in 1 .. mask - 1
        BY <2>1, <3>2 DEF Tried
      <4>2. ~Beats(PickOf(family, Subset(m)), best)
        BY <2>1, <2>4, <4>1 DEF Tried
      <4>3. PickOf(family, Subset(m)) \in Pick(family)
        BY <1>1, PickType DEF Subset
      <4> QED
        BY <1>4, <4>2, <4>3
    <3> QED
      BY <3>1, <3>2
  <2>5. mask' - 1 = mask
    BY <2>1 DEF Tried
  <2> HIDE DEF S
  <2> QED
    BY <2>2, <2>4, <2>5 DEF Tried, Subset
<1> QED
  BY <1>5, <1>6, <1>7, <1>8, <1>9 DEF MisInv

LEMMA PruneInv == ASSUME MisInv, Prune PROVE MisInv'
<1> USE DEF Prune
<1>1. MisTypeOK /\ best \in Pick(family) /\ BestIsFeasible
  BY DEF MisInv, MisTypeOK
<1>2. Top \in Node(family) /\ Entry(Top)
  BY TopFacts
<1>3. \A S \in SUBSET Candidates(family) :
        Reaches(Top, S) => ~Beats(PickOf(family, S), best)
  BY <1>1, <1>2, HopelessCut
<1>4. BestIsFeasible'
  BY <1>1 DEF BestIsFeasible
<1> QED
  BY <1>1, <1>3, <1>4, PopKeeps

LEMMA LeafInv == ASSUME MisInv, Leaf PROVE MisInv'
<1> DEFINE new == [selected |-> Top.selected,
                   coverage |-> Top.coverage, score |-> Top.score]
<1> USE DEF Leaf
<1>1. MisTypeOK /\ family \in Family /\ best \in Pick(family) /\ BestIsFeasible
  BY DEF MisInv, MisTypeOK
<1>2. Top \in Node(family) /\ Entry(Top)
  BY TopFacts
<1>3. new = PickOf(family, Top.selected) /\ Independent(family, Top.selected)
  BY <1>2 DEF Entry, PickOf
<1>4. new \in Pick(family)
  BY <1>1, <1>2, <1>3, PickType DEF Node
<1>5. /\ best' \in {best, new} /\ ~Beats(new, best')
      /\ \A p \in Pick(family) : ~Beats(p, best) => ~Beats(p, best')
  BY <1>1, <1>4, BetterKeeps
<1>6. BestIsFeasible'
  BY <1>1, <1>3, <1>5 DEF BestIsFeasible, PickOf
<1>7. \A S \in SUBSET Candidates(family) :
        Reaches(Top, S) => ~Beats(PickOf(family, S), best')
  <2>1. \A S \in SUBSET Candidates(family) : Reaches(Top, S) => S = Top.selected
    BY DEF Reaches
  <2> QED
    BY <1>3, <1>5, <2>1
<1>8. best' \in Pick(family)
  BY <1>1, <1>4, <1>5
<1> QED
  BY <1>5, <1>6, <1>7, <1>8, PopKeeps

LEMMA BranchInv == ASSUME MisInv, Branch PROVE MisInv'
<1>1. /\ stack # <<>> /\ UNCHANGED <<family, mask, best>>
  BY DEF Branch
<1>2. PICK p \in Top.candidates :
        stack' = IF \E s \in Top.selected : Conflict(family, p, s)
                 THEN Append(Popped, Without(Top, p))
                 ELSE Append(Append(Popped, Without(Top, p)), With(Top, p))
  BY DEF Branch
<1> DEFINE a == Without(Top, p)
           b == With(Top, p)
           k == Len(stack)
<1>3. MisTypeOK /\ family \in Family /\ BestIsFeasible /\ Entries
  BY DEF MisInv, MisTypeOK
<1>4. /\ k \in Nat \ {0} /\ Top \in Node(family) /\ Entry(Top)
      /\ Popped \in Seq(Node(family)) /\ Len(Popped) = k - 1
      /\ \A i \in 1 .. k - 1 : Popped[i] = stack[i]
      /\ ~Exhaustive
  BY <1>1, TopFacts
<1>5. /\ a \in Node(family) /\ Entry(a) /\ b \in Node(family) /\ Entry(b)
      /\ stack' = Append(Append(Popped, a), b)
      /\ \A S \in SUBSET Candidates(family) :
           Independent(family, S) /\ Reaches(Top, S) => Reaches(a, S) \/ Reaches(b, S)
  BY <1>2, <1>3, <1>4, Branches
<1> HIDE DEF a, b
<1>6. /\ stack' \in Seq(Node(family)) /\ Len(stack') = k + 1
      /\ \A i \in 1 .. k - 1 : stack'[i] = stack[i]
      /\ stack'[k] = a /\ stack'[k + 1] = b
  BY <1>4, <1>5
<1>7. MisTypeOK'
  BY <1>1, <1>3, <1>6 DEF MisTypeOK
<1>8. BestIsFeasible' /\ OneSolver' /\ ~Exhaustive'
  BY <1>1, <1>3, <1>4 DEF BestIsFeasible, OneSolver, Exhaustive
<1>9. Entries'
  <2>1. \A i \in 1 .. k + 1 : i \in 1 .. k - 1 \/ i = k \/ i = k + 1
    BY <1>4
  <2>2. \A i \in 1 .. k - 1 : Entry(stack[i])
    BY <1>3, <1>4 DEF Entries
  <2>3. \A i \in 1 .. k + 1 : Entry(stack'[i])
    BY <1>5, <1>6, <2>1, <2>2
  <2> QED
    BY <1>1, <1>6, <2>3 DEF Entries, Entry
<1>10. NothingLost'
  <2> SUFFICES ASSUME NEW S \in SUBSET Candidates(family), Independent(family, S),
                      Beats(PickOf(family, S), best)
               PROVE  \E i \in 1 .. k + 1 : Reaches(stack'[i], S)
    BY <1>1, <1>6 DEF NothingLost, Reaches
  <2>1. PICK i \in 1 .. k : Reaches(stack[i], S)
    BY <1>4 DEF MisInv, NothingLost
  <2>2. CASE i = k
    BY <1>4, <1>5, <1>6, <2>1, <2>2 DEF Top
  <2>3. CASE i # k
    <3>1. i \in 1 .. k - 1 /\ i \in 1 .. k + 1
      BY <1>4, <2>3
    <3> QED
      BY <1>6, <2>1, <3>1
  <2> QED
    BY <2>2, <2>3
<1> QED
  BY <1>4, <1>7, <1>8, <1>9, <1>10 DEF MisInv

\* MisInv is inductive.
THEOREM MisInvariance == MisSpec => []MisInv
<1>1. MisInit => MisInv
  BY InitInv
<1>2. MisInv /\ [MisNext]_misVars => MisInv'
  <2> SUFFICES ASSUME MisInv, [MisNext]_misVars PROVE MisInv'
    OBVIOUS
  <2>1. CASE Try
    BY <2>1, TryInv
  <2>2. CASE Prune
    BY <2>2, PruneInv
  <2>3. CASE Leaf
    BY <2>3, LeafInv
  <2>4. CASE Branch
    BY <2>4, BranchInv
  <2>5. CASE UNCHANGED misVars
    <3>1. /\ family' = family /\ mask' = mask /\ stack' = stack /\ best' = best
      BY <2>5 DEF misVars
    <3> QED
      BY <3>1 DEF MisInv, MisTypeOK, BestIsFeasible, OneSolver, Entries, Entry,
                  NothingLost, Reaches, Exhaustive, Tried, Subset
  <2> QED
    BY <2>1, <2>2, <2>3, <2>4, <2>5 DEF MisNext
<1> QED
  BY <1>1, <1>2, PTL DEF MisSpec

\* The best pick so far is feasible: its releases share no file, and its
\* coverage and score are those of its members.
THEOREM Feasible == MisSpec => []BestIsFeasible
<1>1. MisInv => BestIsFeasible
  BY DEF MisInv
<1> QED
  BY <1>1, MisInvariance, PTL

\* Every variable keeps its type.
THEOREM MisTypes == MisSpec => []MisTypeOK
<1>1. MisInv => MisTypeOK
  BY DEF MisInv
<1> QED
  BY <1>1, MisInvariance, PTL

\* Branch and bound ends with a pick no other disjoint choice beats: neither
\* the bound nor the skipped branch ever cuts a better one.
LEMMA BranchAndBoundEnds ==
  ASSUME MisInv, ~Exhaustive
  PROVE  BestIsOptimal
BY DEF MisInv, NothingLost, BestIsOptimal, Solved

\* So do the masks: every subset but the empty one has been tried, and the
\* empty one is no better than a single release.
LEMMA MasksEnd ==
  ASSUME MisInv, Exhaustive
  PROVE  BestIsOptimal
<1> SUFFICES ASSUME Solved, NEW S \in SUBSET Candidates(family), Independent(family, S)
             PROVE  ~Beats(PickOf(family, S), best)
  BY DEF BestIsOptimal
<1> DEFINE n == Size(family)
<1>1. /\ family \in Family /\ best \in Pick(family) /\ Tried /\ mask = Bit(n)
      /\ n \in Nat \ {0} /\ Candidates(family) = 0 .. n - 1
  BY SizeNat DEF MisInv, MisTypeOK, Solved, Candidates
<1>2. ASSUME NEW T \in SUBSET Candidates(family), T # {}, Independent(family, T)
      PROVE  ~Beats(PickOf(family, T), best)
  <2>1. PICK m \in 0 .. Bit(n) - 1 : {c \in 0 .. n - 1 : (m \div Bit(c)) % 2 = 1} = T
    BY <1>1, EverySubset
  <2>2. Subset(m) = T
    BY <1>1, <2>1 DEF Subset
  <2>3. m # 0
    <3>1. ASSUME NEW c \in 0 .. n - 1 PROVE (0 \div Bit(c)) % 2 = 0
      <4>1. Bit(c) \in Nat \ {0}
        BY BitPositive
      <4> QED
        BY <4>1
    <3> QED
      BY <1>2, <2>1, <3>1
  <2>4. m \in 1 .. mask - 1
    BY <1>1, <2>1, <2>3
  <2> QED
    BY <1>1, <1>2, <2>2, <2>4 DEF Tried
<1>3. CASE S # {}
  BY <1>2, <1>3
<1>4. CASE S = {}
  <2>1. {0} \in SUBSET Candidates(family) /\ {0} # {} /\ Independent(family, {0})
    BY <1>1 DEF Independent
  <2>2. ~Beats(PickOf(family, {0}), best)
    BY <1>2, <2>1
  <2>3. /\ PickOf(family, {0}).coverage \in Nat /\ PickOf(family, {0}).score \in Nat
        /\ PickOf(family, S).coverage = 0 /\ PickOf(family, S).score = 0
    BY <1>1, <1>4, <2>1, PickType, NothingWeighsNothing DEF PickOf
  <2>4. best.coverage \in Nat /\ best.score \in Int
    BY <1>1 DEF Pick
  <2> QED
    BY <2>2, <2>3, <2>4 DEF Beats
<1> QED
  BY <1>3, <1>4

\* Whichever solver a component gets, the pick it ends with is one that no other
\* choice of releases that share no file beats.
THEOREM Optimal == MisSpec => []BestIsOptimal
<1>1. MisInv => BestIsOptimal
  BY BranchAndBoundEnds, MasksEnd
<1> QED
  BY <1>1, MisInvariance, PTL
-----------------------------------------------------------------------------
(* What the solver does for Packing.                                       *)

\* The proposals that a pick stands for, under a numbering.
Numbered(at, S) == {at[c] : c \in S}

\* The component being solved is the set C of proposals, numbered: conflicts are
\* shared files, a proposal weighs as many files as it wants, scores are summed.
Represents(C, at) ==
  /\ \A p \in C : \E c \in Candidates(family) : at[c] = p
  /\ \A c, d \in Candidates(family) :
       c # d => at[c] # at[d] /\ (Conflict(family, c, d) <=> Compete(at[c], at[d]))
  /\ \A c \in Candidates(family) : Coverage(family, {c}) = Cardinality(Files(at[c]))
  /\ \A S \in SUBSET Candidates(family) : Score(family, S) = Worth(Numbered(at, S))

\* Resolve takes a member of Best: that is what the solver computes.
ChoiceIsBest ==
  Solved => \A C \in SUBSET Proposal : \A at \in [Candidates(family) -> C] :
              Represents(C, at) => Numbered(at, best.selected) \in Best(C)

\* Files that no two picked releases share are covered once: then the coverages
\* that the solver adds up are the number of files.
LEMMA CoverageIsCovered ==
  ASSUME family \in Family, NEW C \in SUBSET Proposal, NEW at \in [Candidates(family) -> C],
         Represents(C, at), NEW S \in SUBSET Candidates(family), Independent(family, S)
  PROVE  Coverage(family, S) = Covered(Numbered(at, S))
<1> DEFINE n == Size(family)
           Below(i) == {c \in S : c < i}
           FilesOf(T) == UNION {Files(p) : p \in Numbered(at, T)}
           Good == {i \in 0 .. n : Coverage(family, Below(i)) = Cardinality(FilesOf(Below(i)))}
<1>1. n \in Nat /\ Candidates(family) = 0 .. n - 1
  BY SizeNat DEF Candidates
<1>2. \A c \in Candidates(family) : Files(at[c]) \in SUBSET Inode
  BY FilesType
<1>3. \A T \in SUBSET Candidates(family) : IsFiniteSet(FilesOf(T))
  <2> SUFFICES ASSUME NEW T \in SUBSET Candidates(family) PROVE IsFiniteSet(FilesOf(T))
    OBVIOUS
  <2>1. FilesOf(T) \in SUBSET Inode
    BY <1>2 DEF Numbered
  <2> QED
    BY <2>1, FinitelyMany, FS_Subset
<1>4. 0 \in Good
  <2>1. Below(0) = {}
    BY <1>1
  <2>2. FilesOf({}) = {}
    BY DEF Numbered
  <2>3. Cardinality({}) = 0
    BY FS_EmptySet
  <2>4. Coverage(family, {}) = 0
    BY NothingWeighsNothing
  <2>5. 0 \in 0 .. n
    BY <1>1
  <2> QED
    BY <2>1, <2>2, <2>3, <2>4, <2>5
<1>5. ASSUME NEW i \in 1 .. n, i - 1 \in Good PROVE i \in Good
  <2> DEFINE c == i - 1
             T == Below(c)
             old == FilesOf(T)
             new == Files(at[c])
  <2>1. c \in Candidates(family) /\ c \in Int /\ i = c + 1 /\ i \in 0 .. n
    BY <1>1
  <2>2. T \in SUBSET Candidates(family) /\ {c} \in SUBSET Candidates(family) /\ T \cap {c} = {}
    BY <1>1, <2>1
  <2>3. Coverage(family, T) = Cardinality(old)
    BY <1>5
  <2>4. CASE c \notin S
    <3>1. \A d \in S : d < i <=> d < c
      BY <1>1, <2>1, <2>4
    <3>2. Below(i) = T
      BY <3>1
    <3> QED
      BY <2>1, <2>3, <3>2
  <2>5. CASE c \in S
    <3>1. \A d \in S : d < i <=> d < c \/ d = c
      BY <1>1, <2>1
    <3>2. Below(i) = T \cup {c}
      BY <2>5, <3>1
    <3>3. Coverage(family, T \cup {c}) = Coverage(family, T) + Coverage(family, {c})
      BY <2>2, Adds
    <3>4. Coverage(family, {c}) = Cardinality(new)
      BY <2>1 DEF Represents
    <3>5. FilesOf(T \cup {c}) = old \cup new
      BY DEF Numbered
    <3>6. old \cap new = {}
      <4> SUFFICES ASSUME NEW d \in T PROVE Files(at[d]) \cap new = {}
        BY DEF Numbered
      <4>1. d \in S /\ d # c /\ d \in Candidates(family)
        BY <2>2
      <4>2. ~Conflict(family, d, c)
        BY <2>5, <4>1 DEF Independent
      <4>3. Conflict(family, d, c) <=> Compete(at[d], at[c])
        BY <2>1, <4>1 DEF Represents
      <4> QED
        BY <4>2, <4>3 DEF Compete
    <3>7. IsFiniteSet(old) /\ IsFiniteSet(new)
      <4>1. IsFiniteSet(new)
        BY <1>2, <2>1, FinitelyMany, FS_Subset
      <4> QED
        BY <1>3, <2>2, <4>1
    <3> HIDE DEF old, new
    <3>8. Cardinality(old \cup new) = Cardinality(old) + Cardinality(new) - Cardinality(old \cap new)
      BY <3>7, FS_Union
    <3>9. Cardinality(old \cap new) = 0 /\ Cardinality(old) \in Nat /\ Cardinality(new) \in Nat
      BY <3>6, <3>7, FS_EmptySet, FS_CardinalityType
    <3>10. Coverage(family, T \cup {c}) = Cardinality(old \cup new)
      BY <2>3, <3>3, <3>4, <3>8, <3>9
    <3>11. Coverage(family, Below(i)) = Cardinality(FilesOf(Below(i)))
      BY <3>2, <3>5, <3>10
    <3> QED
      BY <2>1, <3>11
  <2> QED
    BY <2>4, <2>5
<1>6. n \in Good
  <2> HIDE DEF Good
  <2>1. \A i \in 1 .. n : i - 1 \in Good => i \in Good
    BY <1>5
  <2>2. 0 .. n \subseteq Good
    BY <1>1, <1>4, <2>1, SetInduction
  <2> QED
    BY <1>1, <2>2
<1>7. Below(n) = S
  BY <1>1
<1> QED
  BY <1>6, <1>7 DEF Covered

\* Picks of the solver are choices of proposals that share no file.
LEMMA PicksAreDisjoint ==
  ASSUME NEW C, NEW at \in [Candidates(family) -> C], Represents(C, at),
         NEW S \in SUBSET Candidates(family), Independent(family, S)
  PROVE  Numbered(at, S) \in Disjoint(C)
<1>1. Numbered(at, S) \in SUBSET C
  BY DEF Numbered
<1>2. ASSUME NEW p \in Numbered(at, S), NEW q \in Numbered(at, S), p # q
      PROVE  ~Compete(p, q)
  <2>1. PICK c \in S : p = at[c]
    BY DEF Numbered
  <2>2. PICK d \in S : q = at[d]
    BY DEF Numbered
  <2>3. c # d /\ ~Conflict(family, c, d)
    BY <1>2, <2>1, <2>2 DEF Independent
  <2> QED
    BY <2>1, <2>2, <2>3 DEF Represents
<1> QED
  BY <1>1, <1>2 DEF Disjoint

\* And every such choice is one of its picks.
LEMMA DisjointArePicks ==
  ASSUME NEW C, NEW at \in [Candidates(family) -> C], Represents(C, at), NEW T \in Disjoint(C)
  PROVE  \E S \in SUBSET Candidates(family) : Independent(family, S) /\ Numbered(at, S) = T
<1> DEFINE S == {c \in Candidates(family) : at[c] \in T}
<1>1. T \in SUBSET C /\ \A p, q \in T : p # q => ~Compete(p, q)
  BY DEF Disjoint
<1>2. Numbered(at, S) = T
  <2>1. \A p \in T : \E c \in S : at[c] = p
    BY <1>1 DEF Represents
  <2> QED
    BY <2>1 DEF Numbered
<1>3. ASSUME NEW c \in S, NEW d \in S, c # d PROVE ~Conflict(family, c, d)
  <2>1. at[c] # at[d] /\ (Conflict(family, c, d) <=> Compete(at[c], at[d]))
    BY <1>3 DEF Represents
  <2> QED
    BY <1>1, <2>1
<1> QED
  BY <1>2, <1>3 DEF Independent

\* The pick of a solver that is done carries the numbers of its members.
LEMMA EndsWithAPick ==
  ASSUME MisInv, Solved, BestIsOptimal
  PROVE  best = PickOf(family, best.selected)
<1>1. /\ family \in Family /\ BestIsFeasible /\ best \in Pick(family)
  BY DEF MisInv, MisTypeOK
<1>2. ~Beats(PickOf(family, {}), best)
  BY DEF BestIsOptimal, Independent
<1>3. Coverage(family, {}) = 0 /\ Score(family, {}) = 0
  BY <1>1, NothingWeighsNothing
<1>4. Beats(PickOf(family, {}), NoPick)
  BY <1>3 DEF Beats, PickOf, NoPick
<1> QED
  BY <1>1, <1>2, <1>4 DEF BestIsFeasible

\* execute_resolve_packing_component: what the solver hands back, whichever of the two
\* ran, is a choice that Packing's Resolve may take: its releases share no file, no
\* other such choice has more files, and none with as many has a higher score.
THEOREM SolverServesPacking == MisSpec => []ChoiceIsBest
<1>1. ASSUME MisInv PROVE ChoiceIsBest
  <2> SUFFICES ASSUME Solved, NEW C \in SUBSET Proposal, NEW at \in [Candidates(family) -> C],
                      Represents(C, at)
               PROVE  Numbered(at, best.selected) \in Best(C)
    BY DEF ChoiceIsBest
  <2> DEFINE won == best.selected
  <2>1. /\ family \in Family /\ BestIsFeasible /\ won \in SUBSET Candidates(family)
    BY <1>1 DEF MisInv, MisTypeOK, Pick
  <2>2. BestIsOptimal
    BY <1>1, BranchAndBoundEnds, MasksEnd
  <2>3. best = PickOf(family, won)
    BY <1>1, <2>2, EndsWithAPick
  <2>4. Independent(family, won)
    BY <2>1 DEF BestIsFeasible
  <2>5. Numbered(at, won) \in Disjoint(C)
    BY <2>1, <2>4, PicksAreDisjoint
  <2>6. \A S \in SUBSET Candidates(family) : Independent(family, S) =>
          /\ Covered(Numbered(at, S)) = Coverage(family, S) /\ Coverage(family, S) \in Nat
          /\ Worth(Numbered(at, S)) = Score(family, S) /\ Score(family, S) \in Nat
    BY <2>1, CoverageIsCovered, PickType DEF Represents
  <2>7. ASSUME NEW T \in Disjoint(C)
        PROVE  \/ Covered(Numbered(at, won)) > Covered(T)
               \/ Covered(Numbered(at, won)) = Covered(T) /\ Worth(Numbered(at, won)) >= Worth(T)
    <3>1. PICK S \in SUBSET Candidates(family) : Independent(family, S) /\ Numbered(at, S) = T
      BY DisjointArePicks
    <3>2. ~Beats(PickOf(family, S), PickOf(family, won))
      BY <2>2, <2>3, <3>1 DEF BestIsOptimal
    <3>3. ~ \/ Coverage(family, S) > Coverage(family, won)
            \/ Coverage(family, S) = Coverage(family, won) /\ Score(family, S) > Score(family, won)
      BY <3>2 DEF Beats, PickOf
    <3>4. /\ Covered(T) = Coverage(family, S) /\ Coverage(family, S) \in Nat
          /\ Worth(T) = Score(family, S) /\ Score(family, S) \in Nat
      BY <2>6, <3>1
    <3>5. /\ Covered(Numbered(at, won)) = Coverage(family, won) /\ Coverage(family, won) \in Nat
          /\ Worth(Numbered(at, won)) = Score(family, won) /\ Score(family, won) \in Nat
      BY <2>1, <2>4, <2>6
    <3> QED
      BY <3>3, <3>4, <3>5
  <2> QED
    BY <2>5, <2>7 DEF Best
<1> QED
  BY <1>1, MisInvariance, PTL
=============================================================================
