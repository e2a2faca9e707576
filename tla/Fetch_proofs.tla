----------------------------- MODULE Fetch_proofs -----------------------------
(***************************************************************************)
(* Proofs about Fetch, for any library, whatever AcoustID and MusicBrainz  *)
(* know, and whatever is asked, answered, limited or failed in any order.  *)
(***************************************************************************)
EXTENDS Fetch, FiniteSetTheorems, SequenceTheorems, TLAPS

-----------------------------------------------------------------------------
(* One batch at a time.  batch_active is a token: it is the Start command  *)
(* in the channel, then the open batch, then the AllDone message; and      *)
(* nothing is in flight without a batch, so that no answer ends it twice.  *)

OneToken ==
  /\ \/ commands = 0 /\ finished = 0 /\ ~open /\ ~active
     \/ commands = 1 /\ finished = 0 /\ ~open /\ active
     \/ commands = 0 /\ finished = 0 /\ open /\ active
     \/ commands = 0 /\ finished = 1 /\ ~open /\ active
  /\ ~open => BagToSet(flying) = {}

\* Initially the token is with nobody.
LEMMA InitToken == Init => OneToken
BY DEF Init, OneToken, BagToSet, EmptyBag, SetToBag

\* Every step hands the token on, or leaves it where it is.
LEMMA NextToken == OneToken /\ [Next]_vars => OneToken'
<1> SUFFICES ASSUME OneToken, [Next]_vars PROVE OneToken'
  OBVIOUS
<1> USE DEF OneToken, vars, witch, batch, store, bounds, history
<1>1. CASE RequestFetch
  BY <1>1 DEF RequestFetch, Ask
<1>2. ASSUME NEW p \in Pin, PinRelease(p) PROVE OneToken'
  BY <1>2 DEF PinRelease
<1>3. ASSUME NEW p \in Pin, ResolvePin(p) PROVE OneToken'
  BY <1>3 DEF ResolvePin, Ask
<1>4. CASE WitchHearsAllDone
  BY <1>4 DEF WitchHearsAllDone
<1>5. CASE Start
  BY <1>5 DEF Start
<1>6. ASSUME NEW s \in Source, Pop(s) PROVE OneToken'
  BY <1>6 DEF Pop
<1>7. ASSUME NEW r \in BagToSet(flying), NEW answer, Reply(r, answer) PROVE OneToken'
  BY <1>7 DEF Reply
<1>8. ASSUME NEW r \in BagToSet(flying), Handle(r) PROVE OneToken'
  <2>1. open
    OBVIOUS
  <2>2. CASE open' = open /\ finished' = finished
    BY <1>8, <2>1, <2>2 DEF Handle
  <2>3. CASE open' = FALSE /\ finished' = finished + 1 /\ flying' = EmptyBag
    BY <1>8, <2>1, <2>3 DEF Handle, BagToSet, EmptyBag, SetToBag
  <2> QED
    BY <1>8, <2>2, <2>3 DEF Handle
<1>9. CASE DbApply
  BY <1>9 DEF DbApply
<1>10. CASE UNCHANGED vars
  BY <1>10
<1> QED
  BY <1>1, <1>2, <1>3, <1>4, <1>5, <1>6, <1>7, <1>8, <1>9, <1>10
     DEF Next, Replies, Handles

\* handle.rs keeps the Witch and the scheduler in step: a Start never finds a
\* batch, an AllDone never finds another one open.
THEOREM OneBatchAtATime == Spec => []StartFindsNoBatch
<1>1. OneToken => StartFindsNoBatch
  BY DEF OneToken, StartFindsNoBatch
<1> QED
  BY InitToken, NextToken, <1>1, PTL DEF Spec

-----------------------------------------------------------------------------
(* Facts about bags, and about the sequences a batch is populated with.    *)

\* Adding a request keeps a bag a bag that has it.
LEMMA BagAdds ==
  ASSUME NEW B, IsABag(B), NEW x
  PROVE  IsABag(B (+) One(x)) /\ BagToSet(B (+) One(x)) = BagToSet(B) \cup {x}
BY DEF IsABag, (+), One, SetToBag, BagToSet

\* Removing one copy of a request leaves the others.
LEMMA BagRemoves ==
  ASSUME NEW B, IsABag(B), NEW x
  PROVE  /\ IsABag(B (-) One(x))
         /\ BagToSet(B (-) One(x)) \subseteq BagToSet(B)
         /\ BagToSet(B) \ {x} \subseteq BagToSet(B (-) One(x))
BY DEF IsABag, (-), One, SetToBag, BagToSet

\* A finite set becomes a sequence of its elements, all of them.
LEMMA SetToSeqLists ==
  ASSUME NEW S, IsFiniteSet(S)
  PROVE  /\ SetToSeq(S) \in Seq(S)
         /\ \A x \in S : \E i \in DOMAIN SetToSeq(S) : SetToSeq(S)[i] = x
<1> DEFINE n == Cardinality(S)
<1>1. n \in Nat /\ ExistsBijection(1..n, S)
  BY FS_CardinalityType
<1>2. PICK b \in [1..n -> S] : IsInjective(b)
  BY <1>1 DEF ExistsBijection, Bijection, Injection
<1>3. SetToSeq(S) \in [1..n -> S] /\ IsInjective(SetToSeq(S))
  BY <1>2 DEF SetToSeq
<1>4. SetToSeq(S) \in Injection(1..n, S)
  BY <1>3 DEF Injection
<1>5. IsFiniteSet(1..n) /\ Cardinality(1..n) = n
  BY <1>1, FS_Interval
<1>6. SetToSeq(S) \in Surjection(1..n, S)
  BY <1>4, <1>5, FS_Injection
<1> QED
  BY <1>1, <1>3, <1>6 DEF Surjection

\* Queue items are made for the subjects of a source, in their order.
LEMMA FreshItems ==
  ASSUME NEW s \in Source, NEW S \in Seq(Subject[s])
  PROVE  /\ Fresh(S) \in Seq(Item(s))
         /\ DOMAIN Fresh(S) = DOMAIN S
         /\ \A i \in DOMAIN S : Fresh(S)[i].of = S[i]
<1>1. DOMAIN S = 1 .. Len(S) /\ \A i \in DOMAIN S : S[i] \in Subject[s]
  BY LenProperties, ElementOfSeq
<1>2. DOMAIN Fresh(S) = DOMAIN S /\ \A i \in DOMAIN S : Fresh(S)[i].of = S[i]
  BY DEF Fresh
<1>3. 0 \in 0 .. MaxErrors
  BY BoundsType
<1>4. Fresh(S) \in [1 .. Len(S) -> Item(s)]
  BY <1>1, <1>3 DEF Fresh, Item
<1> QED
  BY <1>2, <1>4, IsASeq, LenProperties

-----------------------------------------------------------------------------
(* Types.                                                                  *)

\* The scenarios are typed, and everything else starts empty.
LEMMA InitType == Init => TypeOK
<1> SUFFICES ASSUME Init PROVE TypeOK
  OBVIOUS
<1>1. settings \in Configuration /\ db \in Tables
  BY ScenariosType DEF Init
<1>2. IsABag(flying) /\ BagToSet(flying) = {}
  BY DEF Init, IsABag, EmptyBag, SetToBag, BagToSet
<1>3. DOMAIN queue = Source /\ \A s \in Source : queue[s] \in Seq(Item(s))
  BY DEF Init, NoQueues
<1>4. requests \in 0..MaxRequests /\ trouble \in 0..MaxTrouble /\ Len(writes) <= MaxLag
  BY BoundsType, EmptySeq DEF Init
<1>5. writes \in Seq(Write) /\ pins \in [Pin -> {"idle", "queued", "waiting", "resolved"}]
  BY EmptySeq DEF Init
<1> QED
  BY <1>1, <1>2, <1>3, <1>4, <1>5 DEF Init, TypeOK

\* What is sent to the DB thread is a write, and the bound holds.
LEMMA SendType ==
  ASSUME TypeOK, NEW w \in Write, Send(w)
  PROVE  writes' \in Seq(Write) /\ Len(writes') <= MaxLag
<1>1. CASE w = NoWrite
  BY <1>1 DEF TypeOK, Send
<1>2. CASE w # NoWrite
  <2>1. writes \in Seq(Write) /\ Len(writes) < MaxLag /\ writes' = Append(writes, w)
    BY <1>2 DEF TypeOK, Send
  <2>2. writes' \in Seq(Write) /\ Len(writes') = Len(writes) + 1
    BY <2>1, AppendProperties
  <2> QED
    BY <2>1, <2>2, LenProperties, BoundsType
<1> QED
  BY <1>1, <1>2

\* The queues a batch is populated with.
LEMMA PopulatedType ==
  ASSUME TypeOK
  PROVE  /\ DOMAIN Populated = Source
         /\ \A s \in Source : Populated[s] \in Seq(Item(s))
         /\ NeedsFetch \in Seq(Entity) /\ Unfetched \in Seq(Disc)
<1>1. IsFiniteSet(db.matches \ db.cached) /\ IsFiniteSet(db.known \ db.cached)
  <2>1. db.matches \ db.cached \subseteq Entity /\ db.known \ db.cached \subseteq Entity
    BY DEF TypeOK, Tables
  <2> QED
    BY <2>1, FS_Subset, FiniteType
<1>2. NeedsFetch \in Seq(Entity)
  <2>1. SetToSeq(db.matches \ db.cached) \in Seq(Entity)
    BY <1>1, SetToSeqLists, SeqMonotonic DEF TypeOK, Tables
  <2>2. SetToSeq(db.known \ db.cached) \in Seq(Entity)
    BY <1>1, SetToSeqLists, SeqMonotonic DEF TypeOK, Tables
  <2> QED
    BY <2>1, <2>2, ConcatProperties DEF NeedsFetch
<1>3. NeedsLookup \in Seq(Inode)
  <2>1. /\ Inode \ (db.looked \cup db.retry) \subseteq Inode
        /\ db.retry \subseteq Inode
    BY DEF TypeOK, Tables
  <2>2. IsFiniteSet(Inode \ (db.looked \cup db.retry)) /\ IsFiniteSet(db.retry)
    BY <2>1, FS_Subset, FiniteType
  <2>3. /\ SetToSeq(Inode \ (db.looked \cup db.retry)) \in Seq(Inode)
        /\ SetToSeq(db.retry) \in Seq(Inode)
    BY <2>1, <2>2, SetToSeqLists, SeqMonotonic
  <2> QED
    BY <2>3, ConcatProperties DEF NeedsLookup
<1>4. Unfetched \in Seq(Disc)
  <2> DEFINE D == (UNION {LinksTo[e] : e \in db.cached \cap Entity}) \ db.cached
  <2>1. D \subseteq Disc
    BY LinksType
  <2>2. IsFiniteSet(D)
    BY <2>1, FS_Subset, FiniteType
  <2> QED
    BY <2>1, <2>2, SetToSeqLists, SeqMonotonic DEF Unfetched
<1>5. DOMAIN Populated = Source
  BY DEF Populated, Source
<1>6. Populated["AcoustID"] \in Seq(Item("AcoustID"))
  BY <1>3, FreshItems, EmptySeq DEF Populated, Source, Subject
<1>7. Populated["MusicBrainz"] \in Seq(Item("MusicBrainz"))
  BY <1>2, FreshItems, EmptySeq DEF Populated, Source, Subject
<1>8. Populated["Discogs"] \in Seq(Item("Discogs"))
  BY <1>4, FreshItems, EmptySeq DEF Populated, Source, Subject
<1> QED
  BY <1>2, <1>4, <1>5, <1>6, <1>7, <1>8 DEF Source

\* The subjects an answer emits are entities and Discogs releases.
LEMMA EmittedType ==
  ASSUME TypeOK, NEW r \in BagToSet(flying)
  PROVE  /\ r \in Request /\ r.source \in Source /\ r.item \in Item(r.source)
         /\ r = [source |-> r.source, item |-> r.item, answer |-> r.answer]
         /\ Emitted(r) \subseteq Entity \cup Disc
         /\ New(r) \subseteq Entity \cup Disc
<1>1. PICK s \in Source : r \in [source : {s}, item : Item(s), answer : Answer]
  BY DEF TypeOK, Request
<1>2. r.source = s /\ r.item.of \in Subject[s]
  BY <1>1 DEF Item
<1>3. Emitted(r) \subseteq Entity \cup Disc
  <2>1. CASE s = "AcoustID"
    BY <1>2, <2>1, MatchesType DEF Emitted, Subject
  <2>2. CASE s = "MusicBrainz"
    BY <1>2, <2>2, DiscoversType, LinksType DEF Emitted, Subject
  <2>3. CASE s = "Discogs"
    BY <1>2, <2>3 DEF Emitted
  <2> QED
    BY <2>1, <2>2, <2>3 DEF Source
<1> QED
  BY <1>1, <1>2, <1>3 DEF TypeOK, New

\* The queues after an answer, and what is appended to them.
LEMMA HandledType ==
  ASSUME TypeOK, NEW r \in BagToSet(flying)
  PROVE  /\ DOMAIN Handled(r) = Source
         /\ \A s \in Source : Handled(r)[s] \in Seq(Item(s))
<1>1. r.source \in Source /\ r.item \in Item(r.source)
  BY EmittedType
<1>2. \A s \in Source : queue[s] \in Seq(Item(s))
  BY DEF TypeOK
<1>3. PutBack(r, queue[r.source]) \in Seq(Item(r.source))
  <2>1. CASE r.answer = "limited"
    <3>1. <<r.item>> \in Seq(Item(r.source))
      BY <1>1
    <3>2. <<r.item>> \o queue[r.source] \in Seq(Item(r.source))
      BY <3>1, <1>1, <1>2, ConcatProperties
    <3> QED
      BY <2>1, <3>2 DEF PutBack, GoesBack
  <2>2. CASE r.answer # "limited" /\ GoesBack(r)
    <3>1. [r.item EXCEPT !.errors = @ + 1] \in Item(r.source)
      BY <1>1, <2>2, BoundsType DEF GoesBack, Item
    <3> QED
      BY <2>2, <3>1, <1>1, <1>2, AppendProperties DEF PutBack
  <2>3. CASE r.answer # "limited" /\ ~GoesBack(r)
    BY <2>3, <1>1, <1>2 DEF PutBack
  <2> QED
    BY <2>1, <2>2, <2>3
<1>4. \A s \in Source : (IF s = r.source THEN PutBack(r, queue[s]) ELSE queue[s]) \in Seq(Item(s))
  BY <1>2, <1>3
<1>5. /\ SetToSeq(New(r) \cap Entity) \in Seq(Entity)
      /\ SetToSeq(New(r) \cap Disc) \in Seq(Disc)
  <2>1. IsFiniteSet(New(r) \cap Entity) /\ IsFiniteSet(New(r) \cap Disc)
    BY FS_Subset, FiniteType
  <2> QED
    BY <2>1, SetToSeqLists, SeqMonotonic
<1>6. /\ Fresh(SetToSeq(New(r) \cap Entity)) \in Seq(Item("MusicBrainz"))
      /\ Fresh(SetToSeq(New(r) \cap Disc)) \in Seq(Item("Discogs"))
  BY <1>5, FreshItems DEF Source, Subject
<1>7. Handled(r)["AcoustID"] \in Seq(Item("AcoustID"))
  BY <1>4, EmptySeq, ConcatProperties DEF Handled, Source
<1>8. Handled(r)["MusicBrainz"] \in Seq(Item("MusicBrainz"))
  BY <1>4, <1>6, ConcatProperties DEF Handled, Source
<1>9. Handled(r)["Discogs"] \in Seq(Item("Discogs"))
  BY <1>4, <1>6, ConcatProperties DEF Handled, Source
<1> QED
  BY <1>7, <1>8, <1>9 DEF Handled, Source

\* What the three senders send are writes.
LEMMA WritesType ==
  ASSUME TypeOK
  PROVE  /\ \A p \in Pin : [NoWrite EXCEPT !.known = {p}] \in Write
         /\ \A r \in BagToSet(flying) :
              LookupStored(r) \in Write /\ \A a \in Answer : Stored(r, a) \in Write
<1>1. NoWrite \in Write
  BY DEF NoWrite, Write
<1>2. \A p \in Pin : [NoWrite EXCEPT !.known = {p}] \in Write
  BY PinType DEF NoWrite, Write
<1>3. ASSUME NEW r \in BagToSet(flying), NEW a \in Answer PROVE Stored(r, a) \in Write
  <2>1. r.source \in Source /\ r.item.of \in Subject[r.source]
    BY EmittedType DEF Item
  <2>2. CASE a = "found" /\ r.source = "MusicBrainz"
    <3>1. r.item.of \in Entity /\ Discovers[r.item.of] \in SUBSET Entity
      BY <2>1, <2>2, DiscoversType DEF Subject
    <3> QED
      BY <2>2, <3>1 DEF Stored, NoWrite, Write
  <2>3. CASE a = "found" /\ r.source = "Discogs"
    <3>1. r.item.of \in Disc
      BY <2>1, <2>3 DEF Subject
    <3> QED
      BY <2>3, <3>1 DEF Stored, NoWrite, Write
  <2>4. CASE ~(a = "found" /\ r.source = "MusicBrainz") /\ ~(a = "found" /\ r.source = "Discogs")
    BY <2>4, <1>1 DEF Stored
  <2> QED
    BY <2>2, <2>3, <2>4
<1>4. ASSUME NEW r \in BagToSet(flying) PROVE LookupStored(r) \in Write
  <2>1. CASE r.source = "AcoustID"
    <3>1. r.item.of \in Inode /\ Matches[r.item.of] \in SUBSET Entity
      BY <2>1, EmittedType, MatchesType DEF Item, Subject
    <3> QED
      BY <2>1, <3>1, <1>1 DEF LookupStored, NoWrite, Write
  <2>2. CASE r.source # "AcoustID"
    BY <2>2, <1>1 DEF LookupStored
  <2> QED
    BY <2>1, <2>2
<1> QED
  BY <1>2, <1>3, <1>4

\* Every step keeps the types.
LEMMA NextType == TypeOK /\ [Next]_vars => TypeOK'
<1> SUFFICES ASSUME TypeOK, [Next]_vars PROVE TypeOK'
  OBVIOUS
<1> USE DEF vars, witch, batch, store, bounds, history
<1>1. CASE RequestFetch
  <2>1. requests' \in 0..MaxRequests
    BY <1>1, BoundsType DEF RequestFetch, TypeOK
  <2> QED
    BY <1>1, <2>1 DEF RequestFetch, Ask, TypeOK
<1>2. ASSUME NEW p \in Pin, PinRelease(p) PROVE TypeOK'
  BY <1>2 DEF PinRelease, TypeOK
<1>3. ASSUME NEW p \in Pin, ResolvePin(p) PROVE TypeOK'
  <2>1. writes' \in Seq(Write) /\ Len(writes') <= MaxLag
    BY <1>3, WritesType, SendType DEF ResolvePin, TypeOK
  <2>2. pins' \in [Pin -> {"idle", "queued", "waiting", "resolved"}]
    BY <1>3 DEF ResolvePin, TypeOK
  <2>3. active' \in BOOLEAN /\ commands' \in Nat
    <3>1. (active' = active /\ commands' = commands) \/ Ask
      BY <1>3 DEF ResolvePin
    <3>2. active' \in BOOLEAN
      BY <3>1 DEF Ask, TypeOK
    <3>3. commands' \in Nat
      BY <3>1 DEF Ask, TypeOK
    <3> QED
      BY <3>2, <3>3
  <2> QED
    BY <1>3, <2>1, <2>2, <2>3 DEF ResolvePin, TypeOK
<1>4. CASE WitchHearsAllDone
  <2>1. finished' \in Nat
    BY <1>4 DEF WitchHearsAllDone, TypeOK
  <2>2. pins' \in [Pin -> {"idle", "queued", "waiting", "resolved"}]
    BY <1>4 DEF WitchHearsAllDone, AfterFetch, TypeOK
  <2> QED
    BY <1>4, <2>1, <2>2 DEF WitchHearsAllDone, TypeOK
<1>5. CASE Start
  <2>1. commands' \in Nat /\ finished' \in Nat
    BY <1>5 DEF Start, TypeOK
  <2>2. DOMAIN queue' = Source /\ \A s \in Source : queue'[s] \in Seq(Item(s))
    BY <1>5, PopulatedType DEF Start, TypeOK
  <2>3. heard' \subseteq Entity \cup Disc /\ done' \subseteq Source /\ open' \in BOOLEAN
    BY <1>5 DEF Start, TypeOK
  <2>4. tried' \subseteq Inode \cup Entity \cup Disc /\ skipped' \in BOOLEAN
    BY <1>5 DEF Start, TypeOK
  <2> QED
    BY <1>5, <2>1, <2>2, <2>3, <2>4 DEF Start, TypeOK
<1>6. ASSUME NEW s \in Source, Pop(s) PROVE TypeOK'
  <2>1. Head(queue[s]) \in Item(s) /\ Tail(queue[s]) \in Seq(Item(s))
    BY <1>6, HeadTailProperties DEF Pop, TypeOK
  <2>2. DOMAIN queue' = Source /\ \A t \in Source : queue'[t] \in Seq(Item(t))
    BY <1>6, <2>1 DEF Pop, TypeOK
  <2>3. tried' \subseteq Inode \cup Entity \cup Disc /\ skipped' \in BOOLEAN
    <3>1. Head(queue[s]).of \in Inode \cup Entity \cup Disc
      BY <2>1 DEF Item, Subject, Source
    <3> QED
      BY <1>6, <3>1 DEF Pop, TypeOK
  <2>4. IsABag(flying') /\ BagToSet(flying') \subseteq Request
    <3> DEFINE r == [source |-> s, item |-> Head(queue[s]), answer |-> "out"]
    <3>1. r \in Request
      BY <2>1 DEF Request, Answer
    <3>2. flying' = flying \/ flying' = flying (+) One(r)
      BY <1>6 DEF Pop
    <3> QED
      BY <3>1, <3>2, BagAdds DEF TypeOK
  <2> QED
    BY <1>6, <2>2, <2>3, <2>4 DEF Pop, TypeOK
<1>7. ASSUME NEW r \in BagToSet(flying), NEW answer \in Answer \ {"out"}, Reply(r, answer)
      PROVE  TypeOK'
  <2>1. writes' \in Seq(Write) /\ Len(writes') <= MaxLag
    BY <1>7, WritesType, SendType DEF Reply
  <2>2. trouble' \in 0..MaxTrouble
    BY <1>7, BoundsType DEF Reply, TypeOK
  <2>3. IsABag(flying') /\ BagToSet(flying') \subseteq Request
    <3>1. [r EXCEPT !.answer = answer] \in Request
      BY EmittedType DEF Request
    <3>2. IsABag(flying (-) One(r)) /\ BagToSet(flying (-) One(r)) \subseteq Request
      BY BagRemoves DEF TypeOK
    <3> QED
      BY <1>7, <3>1, <3>2, BagAdds DEF Reply
  <2> QED
    BY <1>7, <2>1, <2>2, <2>3 DEF Reply, TypeOK
<1>8. ASSUME NEW r \in BagToSet(flying), Handle(r) PROVE TypeOK'
  <2>1. writes' \in Seq(Write) /\ Len(writes') <= MaxLag
    BY <1>8, WritesType, SendType DEF Handle
  <2>2. DOMAIN queue' = Source /\ \A s \in Source : queue'[s] \in Seq(Item(s))
    BY <1>8, HandledType DEF Handle
  <2>3. IsABag(flying') /\ BagToSet(flying') \subseteq Request
    BY <1>8, BagRemoves DEF Handle, TypeOK
  <2>4. heard' \subseteq Entity \cup Disc
    BY <1>8, EmittedType DEF Handle, TypeOK
  <2>5. tried' \subseteq Inode \cup Entity \cup Disc
    <3>1. r.item.of \in Inode \cup Entity \cup Disc
      BY EmittedType DEF Item, Subject, Source
    <3> QED
      BY <1>8, <3>1 DEF Handle, TypeOK
  <2>6. done' \subseteq Source
    BY <1>8 DEF Handle, DoneNow, Reopened, TypeOK, Source
  <2>7. open' \in BOOLEAN /\ finished' \in Nat /\ skipped' \in BOOLEAN
    <3>1. \/ open' = FALSE /\ finished' = finished + 1
          \/ open' = open /\ finished' = finished
      BY <1>8 DEF Handle
    <3>2. open' \in BOOLEAN
      BY <3>1 DEF TypeOK
    <3>3. finished' \in Nat
      BY <3>1 DEF TypeOK
    <3> QED
      BY <1>8, <3>2, <3>3 DEF Handle
  <2> QED
    BY <1>8, <2>1, <2>2, <2>3, <2>4, <2>5, <2>6, <2>7 DEF Handle, TypeOK
<1>9. CASE DbApply
  <2>1. Head(writes) \in Write /\ Tail(writes) \in Seq(Write) /\ Len(Tail(writes)) = Len(writes) - 1
    BY <1>9, HeadTailProperties DEF DbApply, TypeOK
  <2>2. writes' \in Seq(Write) /\ Len(writes') <= MaxLag
    <3>1. Len(writes) \in Nat /\ Len(writes) <= MaxLag /\ MaxLag \in Nat
      BY LenProperties, BoundsType DEF TypeOK
    <3>2. writes' = Tail(writes)
      BY <1>9 DEF DbApply
    <3>3. Len(writes') = Len(writes) - 1
      BY <2>1, <3>2
    <3>4. Len(writes') <= MaxLag
      BY <3>1, <3>3
    <3> QED
      BY <2>1, <3>2, <3>4
  <2>3. db' \in Tables
    BY <1>9, <2>1 DEF DbApply, TypeOK, Tables, Write
  <2> QED
    BY <1>9, <2>2, <2>3 DEF DbApply, TypeOK
<1>10. CASE UNCHANGED vars
  BY <1>10 DEF TypeOK
<1> QED
  BY <1>1, <1>2, <1>3, <1>4, <1>5, <1>6, <1>7, <1>8, <1>9, <1>10
     DEF Next, Replies, Handles

\* What the scheduler holds has the types of the database and of the queues.
THEOREM FetchTypes == Spec => []TypeOK
BY InitType, NextType, PTL DEF Spec

-----------------------------------------------------------------------------
(* Nothing is forgotten: every step of a batch that takes a subject from a *)
(* queue or from the requests in flight puts it back or settles it.        *)

Subjects(q) == {q[i].of : i \in DOMAIN q}

Held(e) == e \in tried \/ \E s \in Source : e \in InQueue(s) \cup InFlight(s)

\* Concatenating queues keeps what is in either.
LEMMA SubjectsOfConcat ==
  ASSUME NEW T, NEW p \in Seq(T), NEW q \in Seq(T)
  PROVE  Subjects(p) \subseteq Subjects(p \o q) /\ Subjects(q) \subseteq Subjects(p \o q)
<1>1. DOMAIN p = 1 .. Len(p) /\ DOMAIN q = 1 .. Len(q) /\ Len(p) \in Nat /\ Len(q) \in Nat
  BY LenProperties
<1>2. DOMAIN (p \o q) = 1 .. (Len(p) + Len(q))
  BY ConcatProperties, LenProperties
<1>3. \A i \in DOMAIN p : i \in DOMAIN (p \o q) /\ (p \o q)[i] = p[i]
  BY <1>1, <1>2, ConcatProperties
<1>4. \A i \in DOMAIN q : Len(p) + i \in DOMAIN (p \o q) /\ (p \o q)[Len(p) + i] = q[i]
  BY <1>1, <1>2, ConcatProperties
<1> QED
  BY <1>3, <1>4 DEF Subjects

\* Items made for a set have its elements for subjects.
LEMMA SubjectsOfFresh ==
  ASSUME NEW s \in Source, NEW X \in SUBSET Subject[s], IsFiniteSet(X)
  PROVE  Fresh(SetToSeq(X)) \in Seq(Item(s)) /\ X \subseteq Subjects(Fresh(SetToSeq(X)))
<1>1. SetToSeq(X) \in Seq(Subject[s])
  BY SetToSeqLists, SeqMonotonic
<1>2. /\ Fresh(SetToSeq(X)) \in Seq(Item(s))
      /\ DOMAIN Fresh(SetToSeq(X)) = DOMAIN SetToSeq(X)
      /\ \A i \in DOMAIN SetToSeq(X) : Fresh(SetToSeq(X))[i].of = SetToSeq(X)[i]
  BY <1>1, FreshItems
<1> QED
  BY <1>2, SetToSeqLists DEF Subjects

\* Putting an item back keeps the queue, and the item unless it is settled.
LEMMA SubjectsOfPutBack ==
  ASSUME TypeOK, NEW r \in BagToSet(flying)
  PROVE  /\ PutBack(r, queue[r.source]) \in Seq(Item(r.source))
         /\ Subjects(queue[r.source]) \subseteq Subjects(PutBack(r, queue[r.source]))
         /\ ~Settled(r) => r.item.of \in Subjects(PutBack(r, queue[r.source]))
<1> DEFINE q == queue[r.source]
<1>1. r.item \in Item(r.source) /\ q \in Seq(Item(r.source))
  BY EmittedType DEF TypeOK
<1>2. CASE r.answer = "limited"
  <2>1. <<r.item>> \in Seq(Item(r.source)) /\ r.item.of \in Subjects(<<r.item>>)
    BY <1>1 DEF Subjects
  <2>2. PutBack(r, q) = <<r.item>> \o q
    BY <1>2 DEF PutBack, GoesBack
  <2>3. <<r.item>> \o q \in Seq(Item(r.source))
    BY <1>1, <2>1, ConcatProperties
  <2> QED
    BY <1>1, <2>1, <2>2, <2>3, SubjectsOfConcat
<1>3. CASE GoesBack(r)
  <2> DEFINE item == [r.item EXCEPT !.errors = @ + 1]
  <2>1. item \in Item(r.source) /\ item.of = r.item.of
    BY <1>1, <1>3, BoundsType DEF GoesBack, Item
  <2> HIDE DEF item
  <2>2. <<item>> \in Seq(Item(r.source)) /\ r.item.of \in Subjects(<<item>>)
    BY <2>1 DEF Subjects
  <2>3. PutBack(r, q) = Append(q, item)
    BY <1>3 DEF PutBack, GoesBack, item
  <2>4. Append(q, item) = q \o <<item>>
    BY <1>1, <2>1, AppendIsConcat
  <2>5. q \o <<item>> \in Seq(Item(r.source))
    BY <1>1, <2>2, ConcatProperties
  <2> QED
    BY <1>1, <2>2, <2>3, <2>4, <2>5, SubjectsOfConcat
<1>4. CASE r.answer # "limited" /\ ~GoesBack(r)
  BY <1>1, <1>4 DEF PutBack, Settled
<1> QED
  BY <1>2, <1>3, <1>4

\* Handling an answer keeps every queue, and queues what is new.
LEMMA SubjectsOfHandled ==
  ASSUME TypeOK, NEW r \in BagToSet(flying)
  PROVE  /\ \A s \in Source : Subjects(queue[s]) \subseteq Subjects(Handled(r)[s])
         /\ ~Settled(r) => r.item.of \in Subjects(Handled(r)[r.source])
         /\ New(r) \cap Entity \subseteq Subjects(Handled(r)["MusicBrainz"])
         /\ New(r) \cap Disc \subseteq Subjects(Handled(r)["Discogs"])
<1> DEFINE front == [s \in Source |-> IF s = r.source THEN PutBack(r, queue[s]) ELSE queue[s]]
           E == Fresh(SetToSeq(New(r) \cap Entity))
           D == Fresh(SetToSeq(New(r) \cap Disc))
<1>1. r.source \in Source /\ \A s \in Source : queue[s] \in Seq(Item(s))
  BY EmittedType DEF TypeOK
<1>2. ASSUME NEW s \in Source
      PROVE  /\ front[s] \in Seq(Item(s))
             /\ Subjects(queue[s]) \subseteq Subjects(front[s])
  <2>1. CASE s = r.source
    BY <2>1, SubjectsOfPutBack
  <2>2. CASE s # r.source
    BY <1>1, <2>2
  <2> QED
    BY <2>1, <2>2
<1>11. ~Settled(r) => r.item.of \in Subjects(front[r.source])
  BY <1>1, SubjectsOfPutBack
<1>3. IsFiniteSet(New(r) \cap Entity) /\ IsFiniteSet(New(r) \cap Disc)
  BY FS_Subset, FiniteType
<1>4. E \in Seq(Item("MusicBrainz")) /\ New(r) \cap Entity \subseteq Subjects(E)
  BY <1>3, SubjectsOfFresh DEF Source, Subject
<1>5. D \in Seq(Item("Discogs")) /\ New(r) \cap Disc \subseteq Subjects(D)
  BY <1>3, SubjectsOfFresh DEF Source, Subject
<1>6. /\ Handled(r)["AcoustID"] = front["AcoustID"] \o <<>>
      /\ Handled(r)["MusicBrainz"] = front["MusicBrainz"] \o E
      /\ Handled(r)["Discogs"] = front["Discogs"] \o D
  BY DEF Handled, Source
<1> HIDE DEF front, E, D
<1>7. Subjects(front["AcoustID"]) \subseteq Subjects(Handled(r)["AcoustID"])
  BY <1>2, <1>6, EmptySeq, SubjectsOfConcat DEF Source
<1>8. /\ Subjects(front["MusicBrainz"]) \subseteq Subjects(Handled(r)["MusicBrainz"])
      /\ Subjects(E) \subseteq Subjects(Handled(r)["MusicBrainz"])
  <2>1. front["MusicBrainz"] \in Seq(Item("MusicBrainz"))
    BY <1>2 DEF Source
  <2> QED
    BY <2>1, <1>4, <1>6, SubjectsOfConcat
<1>9. /\ Subjects(front["Discogs"]) \subseteq Subjects(Handled(r)["Discogs"])
      /\ Subjects(D) \subseteq Subjects(Handled(r)["Discogs"])
  <2>1. front["Discogs"] \in Seq(Item("Discogs"))
    BY <1>2 DEF Source
  <2> QED
    BY <2>1, <1>5, <1>6, SubjectsOfConcat
<1>10. \A s \in Source : Subjects(front[s]) \subseteq Subjects(Handled(r)[s])
  BY <1>7, <1>8, <1>9 DEF Source
<1>12. r.source \in Source
  BY <1>1
<1> QED
  BY <1>2, <1>4, <1>5, <1>8, <1>9, <1>10, <1>11, <1>12

\* The first item popped, and the rest.
LEMMA SubjectsOfTail ==
  ASSUME NEW T, NEW q \in Seq(T), q # <<>>
  PROVE  Subjects(q) \subseteq Subjects(Tail(q)) \cup {Head(q).of}
<1>1. /\ Head(q) = q[1] /\ Tail(q) \in Seq(T) /\ Len(Tail(q)) = Len(q) - 1
      /\ \A i \in 1 .. Len(Tail(q)) : Tail(q)[i] = q[i + 1]
  BY HeadTailProperties
<1>2. DOMAIN q = 1 .. Len(q) /\ Len(q) \in Nat /\ DOMAIN Tail(q) = 1 .. Len(Tail(q))
  BY <1>1, LenProperties
<1>3. \A i \in DOMAIN q : i = 1 \/ (i - 1 \in DOMAIN Tail(q) /\ Tail(q)[i - 1] = q[i])
  <2> TAKE i \in DOMAIN q
  <2>1. CASE i = 1
    BY <2>1
  <2>2. CASE i # 1
    <3>1. i - 1 \in 1 .. Len(Tail(q)) /\ (i - 1) + 1 = i
      BY <1>1, <1>2, <2>2
    <3>2. Tail(q)[i - 1] = q[(i - 1) + 1]
      BY <1>1, <3>1
    <3> QED
      BY <1>2, <3>1, <3>2
  <2> QED
    BY <2>1, <2>2
<1> QED
  BY <1>1, <1>3 DEF Subjects

\* A source holds the subjects of its queue and of its requests.
LEMMA HeldIn ==
  ASSUME NEW e
  PROVE  /\ Held(e) <=> \/ e \in tried
                        \/ \E s \in Source : e \in Subjects(queue[s])
                        \/ \E r \in BagToSet(flying) : r.source \in Source /\ e = r.item.of
         /\ Held(e)' <=> \/ e \in tried'
                         \/ \E s \in Source : e \in Subjects(queue'[s])
                         \/ \E r \in BagToSet(flying') : r.source \in Source /\ e = r.item.of
BY DEF Held, InQueue, InFlight, Subjects

\* Initially there is no batch.
LEMMA InitRemembers == Init => NothingForgotten
BY DEF Init, NothingForgotten

\* A batch starts with the entities and releases it has heard of in its queues.
LEMMA StartHolds ==
  ASSUME TypeOK, Start, open', NEW e \in heard'
  PROVE  Held(e)'
<1>1. queue' = Populated /\ open' = TRUE
  BY DEF Start
<1>2. CASE settings.enrich /\ \E i \in DOMAIN NeedsFetch : NeedsFetch[i] = e
  <2>1. Populated["MusicBrainz"] = Fresh(NeedsFetch)
    BY <1>2 DEF Populated, Source
  <2>2. /\ DOMAIN Fresh(NeedsFetch) = DOMAIN NeedsFetch
        /\ \A i \in DOMAIN NeedsFetch : Fresh(NeedsFetch)[i].of = NeedsFetch[i]
    BY PopulatedType, FreshItems DEF Source, Subject
  <2>3. e \in Subjects(queue'["MusicBrainz"])
    BY <1>1, <1>2, <2>1, <2>2 DEF Subjects
  <2> QED
    BY <2>3, HeldIn DEF Source
<1>3. CASE settings.discogs /\ Contains(Unfetched, e)
  <2>1. Populated["Discogs"] = Fresh(Unfetched)
    BY <1>3 DEF Populated, Source
  <2>2. /\ DOMAIN Fresh(Unfetched) = DOMAIN Unfetched
        /\ \A i \in DOMAIN Unfetched : Fresh(Unfetched)[i].of = Unfetched[i]
    BY PopulatedType, FreshItems DEF Source, Subject
  <2>3. PICK i \in DOMAIN Unfetched : Unfetched[i] = e
    BY <1>3, PopulatedType, LenProperties DEF Contains
  <2>4. e \in Subjects(queue'["Discogs"])
    BY <1>1, <2>1, <2>2, <2>3 DEF Subjects
  <2> QED
    BY <2>4, HeldIn DEF Source
<1> QED
  BY <1>2, <1>3 DEF Start

\* Every step keeps what an open batch has heard of: an item popped is in flight
\* or was cached, an answer keeps its item, and handling it puts the item back
\* or settles it.
LEMMA NextRemembers ==
  TypeOK /\ OneToken /\ NothingForgotten /\ [Next]_vars => NothingForgotten'
<1> SUFFICES ASSUME TypeOK, OneToken, NothingForgotten, [Next]_vars, open',
                    NEW e \in heard'
             PROVE  Held(e)'
  BY DEF NothingForgotten, Held
<1>1. open /\ e \in heard => Held(e)
  BY DEF NothingForgotten, Held
<1>2. CASE UNCHANGED <<batch, history>>
  <2>1. Held(e)
    BY <1>1, <1>2 DEF batch
  <2> QED
    BY <1>2, <2>1 DEF batch, history, Held, InQueue, InFlight
<1>3. CASE Start
  BY <1>3, StartHolds
<1>4. ASSUME NEW s \in Source, Pop(s) PROVE Held(e)'
  <2> DEFINE item == Head(queue[s])
  <2>1. Held(e)
    BY <1>1, <1>4 DEF Pop
  <2>2. queue[s] \in Seq(Item(s)) /\ queue[s] # <<>> /\ DOMAIN queue = Source
    BY <1>4 DEF Pop, TypeOK
  <2>3. Subjects(queue[s]) \subseteq Subjects(queue'[s]) \cup {item.of}
    BY <1>4, <2>2, SubjectsOfTail DEF Pop
  <2>4. \A t \in Source : t # s => queue'[t] = queue[t]
    BY <1>4, <2>2 DEF Pop
  <2>5. \A t \in Source : e \in Subjects(queue[t]) => e \in Subjects(queue'[t]) \/ e = item.of
    BY <2>3, <2>4
  <2>6. CASE tried' = tried \cup {item.of} /\ flying' = flying
    BY <2>1, <2>5, <2>6, HeldIn
  <2>7. CASE /\ flying' = flying (+) One([source |-> s, item |-> item, answer |-> "out"])
             /\ tried' = tried
    <3> DEFINE r == [source |-> s, item |-> item, answer |-> "out"]
    <3>1. BagToSet(flying') = BagToSet(flying) \cup {r}
      BY <2>7, BagAdds DEF TypeOK
    <3>2. r \in BagToSet(flying') /\ r.source \in Source /\ r.item.of = item.of
      BY <3>1
    <3> HIDE DEF r
    <3> QED
      BY <2>1, <2>5, <2>7, <3>1, <3>2, HeldIn
  <2> QED
    BY <1>4, <2>6, <2>7 DEF Pop
<1>5. ASSUME NEW r \in BagToSet(flying), NEW answer, Reply(r, answer) PROVE Held(e)'
  <2> DEFINE a == [r EXCEPT !.answer = answer]
  <2>1. Held(e) /\ queue' = queue /\ tried' = tried
    BY <1>1, <1>5 DEF Reply, history
  <2>2. flying' = (flying (-) One(r)) (+) One(a)
    BY <1>5 DEF Reply
  <2>3. a.source = r.source /\ a.item = r.item
    BY EmittedType
  <2> HIDE DEF a
  <2>4. IsABag(flying (-) One(r)) /\ BagToSet(flying) \ {r} \subseteq BagToSet(flying (-) One(r))
    BY BagRemoves DEF TypeOK
  <2>5. BagToSet(flying') = BagToSet(flying (-) One(r)) \cup {a}
    BY <2>2, <2>4, BagAdds
  <2>6. \A q \in BagToSet(flying) :
          \E x \in BagToSet(flying') : x.source = q.source /\ x.item = q.item
    BY <2>3, <2>4, <2>5
  <2>7. CASE e \in tried \/ \E s \in Source : e \in Subjects(queue[s])
    BY <2>1, <2>7, HeldIn
  <2>8. CASE \E q \in BagToSet(flying) : q.source \in Source /\ e = q.item.of
    <3>1. PICK q \in BagToSet(flying) : q.source \in Source /\ e = q.item.of
      BY <2>8
    <3>2. PICK x \in BagToSet(flying') : x.source = q.source /\ x.item = q.item
      BY <2>6
    <3> QED
      BY <3>1, <3>2, HeldIn
  <2> QED
    BY <2>1, <2>7, <2>8, HeldIn
<1>6. ASSUME NEW r \in BagToSet(flying), Handle(r) PROVE Held(e)'
  <2>1. open /\ queue' = Handled(r) /\ heard' = heard \cup New(r)
    BY <1>6 DEF Handle, OneToken
  <2>2. r.source \in Source
    BY EmittedType
  <2>3. CASE e \in New(r)
    <3>1. e \in Entity \/ e \in Disc
      BY <2>3, EmittedType
    <3>2. e \in Subjects(queue'["MusicBrainz"]) \/ e \in Subjects(queue'["Discogs"])
      BY <2>1, <2>3, <3>1, SubjectsOfHandled
    <3> QED
      BY <3>2, HeldIn DEF Source
  <2>4. CASE e \in heard
    <3>1. Held(e)
      BY <1>1, <2>1, <2>4
    <3>2. CASE e \in tried
      BY <1>6, <3>2, HeldIn DEF Handle
    <3>3. CASE \E s \in Source : e \in Subjects(queue[s])
      BY <2>1, <3>3, SubjectsOfHandled, HeldIn
    <3>4. CASE e = r.item.of
      <4>1. CASE Settled(r)
        <5>1. e \in tried'
          BY <1>6, <3>4, <4>1 DEF Handle
        <5> QED
          BY <5>1, HeldIn
      <4>2. CASE ~Settled(r)
        <5>1. e \in Subjects(queue'[r.source])
          BY <2>1, <3>4, <4>2, SubjectsOfHandled
        <5> QED
          BY <2>2, <5>1, HeldIn
      <4> QED
        BY <4>1, <4>2
    <3>5. CASE \E q \in BagToSet(flying) \ {r} : q.source \in Source /\ e = q.item.of
      <4>1. flying' = flying (-) One(r)
        BY <1>6 DEF Handle
      <4>2. BagToSet(flying) \ {r} \subseteq BagToSet(flying')
        BY <4>1, BagRemoves DEF TypeOK
      <4> QED
        BY <3>5, <4>2, HeldIn
    <3> QED
      BY <3>1, <3>2, <3>3, <3>4, <3>5, HeldIn
  <2> QED
    BY <2>1, <2>3, <2>4
<1> USE DEF vars, witch, batch, store, bounds, history
<1>7. CASE RequestFetch
  BY <1>2, <1>7 DEF RequestFetch
<1>8. ASSUME NEW p \in Pin, PinRelease(p) \/ ResolvePin(p) PROVE Held(e)'
  BY <1>2, <1>8 DEF PinRelease, ResolvePin
<1>9. CASE WitchHearsAllDone \/ DbApply \/ UNCHANGED vars
  BY <1>2, <1>9 DEF WitchHearsAllDone, DbApply
<1> QED
  BY <1>3, <1>4, <1>5, <1>6, <1>7, <1>8, <1>9 DEF Next, Replies, Handles

\* No rate limit, error or chain of discoveries drops an item from an open batch.
THEOREM NothingIsForgotten == Spec => []NothingForgotten
<1>1. Init => TypeOK /\ OneToken /\ NothingForgotten
  BY InitType, InitToken, InitRemembers
<1>2. /\ TypeOK /\ OneToken /\ NothingForgotten /\ [Next]_vars
      => (TypeOK /\ OneToken /\ NothingForgotten)'
  BY NextType, NextToken, NextRemembers
<1> QED
  BY <1>1, <1>2, PTL DEF Spec

=============================================================================
