---------------------------- MODULE DbQueue_proofs ----------------------------
(* For any finite set of writers: queue_depth is exact and never negative,  *)
(* and a lowered queue_empty is never orphaned.  The three facts are one    *)
(* inductive invariant: without DepthExact the decrement could leave Nat,   *)
(* and FlagNotStuck needs it to know that a writer which lowers the flag is *)
(* itself still counted.                                                    *)
EXTENDS DbQueue, FiniteSetTheorems, TLAPS

IInv == TypeOK /\ DepthExact /\ FlagNotStuck

LEMMA InMarkFinite == IsFiniteSet(InMark) /\ Cardinality(InMark) \in Nat
  BY WriterFinite, FS_Subset, FS_CardinalityType DEF InMark

\* A writer that enters mark_enqueued joins the counted set...
LEMMA InMarkGrows ==
  ASSUME TypeOK, NEW w \in Writer, WriterMoves(w, "ready", "marking")
  PROVE  InMark' = InMark \cup {w} /\ w \notin InMark
  BY DEF TypeOK, WriterMoves, InMark

\* ... stays in it between the two halves ...
LEMMA InMarkStays ==
  ASSUME TypeOK, NEW w \in Writer, WriterMoves(w, "marking", "marked")
  PROVE  InMark' = InMark /\ w \in InMark
  BY DEF TypeOK, WriterMoves, InMark

\* ... and leaves it when it sends.
LEMMA InMarkShrinks ==
  ASSUME TypeOK, NEW w \in Writer, NEW to \in {"ready", "sent_sync"},
         WriterMoves(w, "marked", to)
  PROVE  InMark' = InMark \ {w} /\ w \in InMark
  BY DEF TypeOK, WriterMoves, InMark

LEMMA InMarkUntouched ==
  ASSUME TypeOK, NEW w \in Writer, NEW from \in WriterPC, NEW to \in WriterPC,
         WriterMoves(w, from, to),
         from \notin {"marking", "marked"}, to \notin {"marking", "marked"}
  PROVE  InMark' = InMark
  BY DEF TypeOK, WriterMoves, InMark

LEMMA InitIInv == Init => IInv
<1> SUFFICES ASSUME Init PROVE IInv
  OBVIOUS
<1>1. TypeOK
  BY DEF Init, TypeOK, WriterPC, DbPC
<1>2. InMark = {}
  BY DEF Init, InMark
<1>3. DepthExact
  BY <1>2, FS_EmptySet DEF Init, DepthExact
<1>4. FlagNotStuck
  BY DEF Init, FlagNotStuck
<1> QED
  BY <1>1, <1>3, <1>4 DEF IInv

LEMMA NextIInv == IInv /\ [Next]_vars => IInv'
<1> SUFFICES ASSUME IInv, [Next]_vars PROVE IInv'
  OBVIOUS
<1> USE DEF IInv
<1>a. IsFiniteSet(InMark) /\ Cardinality(InMark) \in Nat
  BY InMarkFinite
<1>1. ASSUME NEW w \in Writer, MarkDepth(w) PROVE IInv'
  <2>1. Cardinality(InMark') = Cardinality(InMark) + 1
    BY <1>1, <1>a, InMarkGrows, FS_AddElement DEF MarkDepth
  <2>2. TypeOK'
    BY <1>1 DEF MarkDepth, TypeOK, WriterMoves, WriterPC
  <2>3. DepthExact'
    BY <1>1, <1>a, <2>1 DEF MarkDepth, DepthExact, TypeOK
  <2>4. FlagNotStuck'
    BY <1>1 DEF MarkDepth, FlagNotStuck, TypeOK
  <2> QED BY <2>2, <2>3, <2>4
<1>2. ASSUME NEW w \in Writer, MarkFlag(w) PROVE IInv'
  <2>1. InMark' = InMark /\ w \in InMark
    BY <1>2, InMarkStays DEF MarkFlag
  <2>2. Cardinality(InMark) >= 1
    <3>1. Cardinality(InMark) # 0
      BY <1>a, <2>1, FS_EmptySet
    <3> QED BY <3>1, <1>a
  <2>3. TypeOK'
    BY <1>2 DEF MarkFlag, TypeOK, WriterMoves, WriterPC
  <2>4. DepthExact'
    BY <1>2, <2>1 DEF MarkFlag, DepthExact
  <2>5. queue_depth' # 0
    BY <1>2, <1>a, <2>2 DEF MarkFlag, DepthExact, TypeOK
  <2> QED BY <2>3, <2>4, <2>5 DEF FlagNotStuck
<1>3. ASSUME NEW w \in Writer, Send(w) PROVE IInv'
  <2>1. InMark' = InMark \ {w} /\ w \in InMark
    BY <1>3, InMarkShrinks DEF Send
  <2>2. Cardinality(InMark') = Cardinality(InMark) - 1
    BY <2>1, <1>a, FS_RemoveElement
  <2>3. Len(queue') = Len(queue) + 1 /\ Len(queue) \in Nat
    BY <1>3 DEF Send, TypeOK
  <2>4. TypeOK'
    <3>1. wpc' \in [Writer -> WriterPC]
      BY <1>3 DEF Send, TypeOK, WriterMoves, WriterPC
    <3>2. queue' \in Seq(Writer)
      BY <1>3 DEF Send, TypeOK
    <3>3. unapplied' \in [Writer -> Int]
      BY <1>3 DEF Send, TypeOK
    <3> QED BY <1>3, <3>1, <3>2, <3>3 DEF Send, TypeOK
  <2>5. DepthExact'
    BY <1>3, <1>a, <2>2, <2>3 DEF Send, DepthExact
  <2>6. FlagNotStuck'
    BY <1>3 DEF Send, FlagNotStuck
  <2> QED BY <2>4, <2>5, <2>6
<1>4. ASSUME NEW w \in Writer, DrainBegin(w) \/ DrainReturn(w) PROVE IInv'
  <2>1. InMark' = InMark
    BY <1>4, InMarkUntouched DEF DrainBegin, DrainReturn, WriterPC
  <2>2. TypeOK'
    BY <1>4 DEF DrainBegin, DrainReturn, TypeOK, WriterMoves, WriterPC
  <2>3. DepthExact' /\ FlagNotStuck'
    BY <1>4, <2>1 DEF DrainBegin, DrainReturn, DepthExact, FlagNotStuck
  <2> QED BY <2>2, <2>3
<1>5. CASE Recv
  <2>1. InMark' = InMark
    BY <1>5 DEF Recv, InMark
  <2>2. Head(queue) \in Writer /\ Tail(queue) \in Seq(Writer)
        /\ Len(queue) \in Nat /\ Len(queue') = Len(queue) - 1
    BY <1>5 DEF Recv, TypeOK
  <2>3. TypeOK'
    BY <1>5, <2>2 DEF Recv, DbMoves, TypeOK, DbPC
  <2>4. DepthExact'
    BY <1>5, <1>a, <2>1, <2>2 DEF Recv, DbMoves, DepthExact
  <2>5. FlagNotStuck'
    BY <1>5 DEF Recv, DbMoves, FlagNotStuck
  <2> QED BY <2>3, <2>4, <2>5
<1>6. CASE Apply
  <2>1. current \in Writer
    BY <1>6 DEF Apply, DbMoves, TypeOK
  <2>2. InMark' = InMark
    BY <1>6, <2>1 DEF Apply, TypeOK, InMark
  <2>3. TypeOK'
    BY <1>6, <2>1 DEF Apply, DbMoves, TypeOK, DbPC, WriterPC
  <2>4. DepthExact' /\ FlagNotStuck'
    BY <1>6, <2>2 DEF Apply, DbMoves, DepthExact, FlagNotStuck
  <2> QED BY <2>3, <2>4
<1>7. CASE FetchSub
  <2>1. InMark' = InMark
    BY <1>7 DEF FetchSub, InMark
  <2>2. Len(queue) \in Nat /\ queue_depth >= 1
    BY <1>7, <1>a DEF FetchSub, DbMoves, DepthExact, TypeOK
  <2>3. TypeOK'
    BY <1>7, <2>2 DEF FetchSub, DbMoves, TypeOK, DbPC
  <2>4. DepthExact' /\ FlagNotStuck'
    BY <1>7, <1>a, <2>1, <2>2 DEF FetchSub, DbMoves, DepthExact, FlagNotStuck, TypeOK
  <2> QED BY <2>3, <2>4
<1>8. CASE Load \/ Store
  <2>1. InMark' = InMark
    BY <1>8 DEF Load, Store, InMark
  <2>2. TypeOK'
    BY <1>8 DEF Load, Store, DbMoves, TypeOK, DbPC
  <2>3. DepthExact' /\ FlagNotStuck'
    BY <1>8, <2>1 DEF Load, Store, DbMoves, DepthExact, FlagNotStuck, TypeOK
  <2> QED BY <2>2, <2>3
<1>9. CASE UNCHANGED vars
  BY <1>9 DEF vars, TypeOK, DepthExact, FlagNotStuck, InMark
<1> QED
  BY <1>1, <1>2, <1>3, <1>4, <1>5, <1>6, <1>7, <1>8, <1>9
     DEF Next, DbThread, WriterStep

\* Every behaviour of the queue keeps the counter exact and the flag owned:
\* has_pending() can only stay true while something really is queued.
THEOREM QueueAccounting == Spec => [](TypeOK /\ DepthExact /\ FlagNotStuck)
<1>1. Spec => []IInv
  BY InitIInv, NextIInv, PTL DEF Spec
<1> QED
  BY <1>1, PTL DEF IInv

\* Every variable keeps its type; above all the unsigned depth never goes
\* below zero.
THEOREM QueueTypes == Spec => []TypeOK
  BY QueueAccounting, PTL

\* A lowered flag always has an owner: has_pending() cannot hang on nothing.
THEOREM FlagOwned == Spec => []FlagNotStuck
  BY QueueAccounting, PTL

-----------------------------------------------------------------------------
(* The atomics implement the barrier of WriteBarrier, step by step.  Only   *)
(* four steps are visible there: MarkFlag enqueues, FetchSub retires, Load  *)
(* sees zero and Store raises the flag; DepthExact is what makes the zero   *)
(* that Load reads the zero of the abstract count.                          *)

InHand == IF dpc \in {"apply", "fetch_sub"} THEN 1 ELSE 0
Enqueued == Cardinality(Flagged) + Len(queue) + InHand

LEMMA FlaggedFinite ==
  /\ IsFiniteSet(Flagged) /\ Cardinality(Flagged) \in Nat
  /\ Cardinality(Flagged) <= Cardinality(InMark)
<1>1. Flagged \subseteq InMark
  BY DEF Flagged, InMark
<1> QED
  BY <1>1, InMarkFinite, FS_Subset, FS_CardinalityType

LEMMA FlaggedGrows ==
  ASSUME TypeOK, NEW w \in Writer, WriterMoves(w, "marking", "marked")
  PROVE  Cardinality(Flagged') = Cardinality(Flagged) + 1
<1>1. Flagged' = Flagged \cup {w} /\ w \notin Flagged
  BY DEF TypeOK, WriterMoves, Flagged
<1> QED
  BY <1>1, FlaggedFinite, FS_AddElement

LEMMA FlaggedShrinks ==
  ASSUME TypeOK, NEW w \in Writer, NEW to \in {"ready", "sent_sync"},
         WriterMoves(w, "marked", to)
  PROVE  Cardinality(Flagged') = Cardinality(Flagged) - 1
<1>1. Flagged' = Flagged \ {w} /\ w \in Flagged
  BY DEF TypeOK, WriterMoves, Flagged
<1> QED
  BY <1>1, FlaggedFinite, FS_RemoveElement

LEMMA FlaggedUntouched ==
  ASSUME TypeOK, NEW w \in Writer, NEW from \in WriterPC, NEW to \in WriterPC,
         WriterMoves(w, from, to), from # "marked", to # "marked"
  PROVE  Flagged' = Flagged
  BY DEF TypeOK, WriterMoves, Flagged

LEMMA BarrierInit == Init => Barrier!Init
<1> SUFFICES ASSUME Init PROVE Barrier!Init
  OBVIOUS
<1>1. Flagged = {}
  BY DEF Init, Flagged
<1> QED
  BY <1>1, FS_EmptySet DEF Init, Barrier!Init

\* A step that leaves the three abstract variables alone is a stutter.
LEMMA BarrierStutter ==
  ASSUME Enqueued' = Enqueued, UNCHANGED queue_empty,
         (dpc' = "store") <=> (dpc = "store")
  PROVE  UNCHANGED Barrier!vars
  BY DEF Enqueued, InHand, Barrier!vars

LEMMA BarrierNext == IInv /\ [Next]_vars => [Barrier!Next]_(Barrier!vars)
<1> SUFFICES ASSUME IInv, [Next]_vars PROVE Barrier!Next \/ UNCHANGED Barrier!vars
  OBVIOUS
<1>t. TypeOK /\ DepthExact
  BY DEF IInv
<1>f. /\ Cardinality(Flagged) \in Nat /\ Len(queue) \in Nat
      /\ Cardinality(InMark) \in Nat /\ Cardinality(Flagged) <= Cardinality(InMark)
  BY <1>t, FlaggedFinite, InMarkFinite DEF TypeOK
<1>1. ASSUME NEW w \in Writer, MarkDepth(w) PROVE UNCHANGED Barrier!vars
  <2>1. Flagged' = Flagged
    BY <1>1, <1>t, FlaggedUntouched DEF MarkDepth, WriterPC
  <2> QED
    BY <1>1, <2>1, BarrierStutter DEF MarkDepth, Enqueued, InHand
<1>2. ASSUME NEW w \in Writer, MarkFlag(w) PROVE Barrier!Next
  <2>1. Cardinality(Flagged') = Cardinality(Flagged) + 1
    BY <1>2, <1>t, FlaggedGrows DEF MarkFlag
  <2>2. Enqueued' = Enqueued + 1
    BY <1>2, <1>f, <2>1 DEF MarkFlag, Enqueued, InHand
  <2>3. Barrier!Enqueue
    BY <1>2, <2>2 DEF MarkFlag, Enqueued, InHand, Barrier!Enqueue
  <2> QED BY <2>3 DEF Barrier!Next
<1>3. ASSUME NEW w \in Writer, Send(w) PROVE UNCHANGED Barrier!vars
  <2>1. Cardinality(Flagged') = Cardinality(Flagged) - 1
    BY <1>3, <1>t, FlaggedShrinks DEF Send
  <2>2. Len(queue') = Len(queue) + 1
    BY <1>3, <1>t DEF Send, TypeOK
  <2>3. Enqueued' = Enqueued
    BY <1>3, <1>f, <2>1, <2>2 DEF Send, Enqueued, InHand
  <2> QED
    BY <1>3, <2>3, BarrierStutter DEF Send
<1>4. ASSUME NEW w \in Writer, DrainBegin(w) \/ DrainReturn(w)
      PROVE UNCHANGED Barrier!vars
  <2>1. Flagged' = Flagged
    BY <1>4, <1>t, FlaggedUntouched DEF DrainBegin, DrainReturn, WriterPC
  <2> QED
    BY <1>4, <2>1, BarrierStutter DEF DrainBegin, DrainReturn, Enqueued, InHand
<1>5. CASE Recv
  <2>1. Flagged' = Flagged
    BY <1>5 DEF Recv, Flagged
  <2>2. Len(queue') = Len(queue) - 1
    BY <1>5, <1>t DEF Recv, TypeOK
  <2>3. Enqueued' = Enqueued
    BY <1>5, <1>f, <2>1, <2>2 DEF Recv, DbMoves, Enqueued, InHand
  <2> QED
    BY <1>5, <2>3, BarrierStutter DEF Recv, DbMoves
<1>6. CASE Apply
  <2>1. Flagged' = Flagged
    BY <1>6, <1>t DEF Apply, DbMoves, TypeOK, Flagged
  <2> QED
    BY <1>6, <2>1, BarrierStutter DEF Apply, DbMoves, Enqueued, InHand
<1>7. CASE FetchSub
  <2>1. Flagged' = Flagged
    BY <1>7 DEF FetchSub, Flagged
  <2>2. Enqueued' = Enqueued - 1 /\ Enqueued > 0
    BY <1>7, <1>f, <2>1 DEF FetchSub, DbMoves, Enqueued, InHand
  <2>3. Barrier!Retire
    BY <1>7, <2>2 DEF FetchSub, DbMoves, Enqueued, InHand, Barrier!Retire
  <2> QED BY <2>3 DEF Barrier!Next
<1>8. CASE Load /\ queue_depth = 0
  <2>1. Flagged' = Flagged
    BY <1>8 DEF Load, Flagged
  <2>2. Enqueued = 0 /\ Enqueued' = 0
    BY <1>8, <1>t, <1>f, <2>1 DEF Load, DbMoves, DepthExact, Enqueued, InHand
  <2>3. Barrier!SeeZero
    BY <1>8, <2>2 DEF Load, DbMoves, Enqueued, InHand, Barrier!SeeZero
  <2> QED BY <2>3 DEF Barrier!Next
<1>9. CASE Load /\ queue_depth # 0
  <2>1. Flagged' = Flagged
    BY <1>9 DEF Load, Flagged
  <2> QED
    BY <1>9, <2>1, BarrierStutter DEF Load, DbMoves, Enqueued, InHand
<1>10. CASE Store
  <2>1. Flagged' = Flagged
    BY <1>10 DEF Store, Flagged
  <2>2. Enqueued' = Enqueued
    BY <1>10, <2>1 DEF Store, DbMoves, Enqueued, InHand
  <2>3. Barrier!Raise
    BY <1>10, <2>2 DEF Store, DbMoves, Enqueued, InHand, Barrier!Raise
  <2> QED BY <2>3 DEF Barrier!Next
<1>11. CASE UNCHANGED vars
  BY <1>11 DEF vars, Flagged, Barrier!vars
<1> QED
  BY <1>1, <1>2, <1>3, <1>4, <1>5, <1>6, <1>7, <1>8, <1>9, <1>10, <1>11
     DEF Next, DbThread, WriterStep

\* Whoever waits on queue_empty may reason with the barrier instead of the
\* atomics: every behaviour of the queue is one of the barrier's.
THEOREM QueueIsBarrier == Spec => Barrier!Safety
<1>1. Spec => []IInv
  BY InitIInv, NextIInv, PTL DEF Spec
<1> QED
  BY <1>1, BarrierInit, BarrierNext, PTL DEF Spec, Barrier!Safety
=============================================================================
