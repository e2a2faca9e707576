------------------------------- MODULE DbQueue -------------------------------
(***************************************************************************)
(* The queue in front of the DB write thread (db/write_thread).            *)
(*                                                                         *)
(* Worker threads enqueue write operations without waiting: they bump      *)
(* `queue_depth`, clear `queue_empty` and send the operation on a channel. *)
(* The DB thread applies one operation at a time, decrements               *)
(* `queue_depth` and, when it then reads zero, sets `queue_empty`.  Anyone *)
(* who needs the writes to be visible spins on `queue_empty`               *)
(* (wait_for_queue_drain); the Witch's barriers read the same flag.        *)
(*                                                                         *)
(* Every access to one of the two atomics is a step of its own: that is    *)
(* the grain at which the threads interleave.                              *)
(***************************************************************************)
EXTENDS Integers, Sequences, FiniteSets

CONSTANTS
  Writer,     \* the threads that enqueue writes: rayon workers and the Witch
  MaxDepth    \* bound on queue_depth (the channel itself is unbounded)

ASSUME WriterFinite == IsFiniteSet(Writer)
ASSUME MaxDepthNat == MaxDepth \in Nat

VARIABLES
  queue,        \* the mpsc channel: the sender of each operation, oldest first
  queue_depth,  \* SharedStats.queue_depth
  queue_empty,  \* SharedStats.queue_empty
  wpc,          \* where each writer is
  unapplied,    \* per writer, the operations it sent that are not applied yet
  dpc,          \* where the DB thread is in its loop
  current       \* the writer whose operation the DB thread holds

vars == <<queue, queue_depth, queue_empty, wpc, unapplied, dpc, current>>

WriterPC == {"ready", "marking", "marked", "sent_sync", "draining"}
DbPC == {"recv", "apply", "fetch_sub", "load", "store"}

TypeOK ==
  /\ queue \in Seq(Writer)
  /\ queue_depth \in Nat
  /\ queue_empty \in BOOLEAN
  /\ wpc \in [Writer -> WriterPC]
  /\ unapplied \in [Writer -> Int]
  /\ dpc \in DbPC
  /\ dpc \in {"apply", "fetch_sub"} => current \in Writer

Init ==
  /\ queue = <<>>
  /\ queue_depth = 0
  /\ queue_empty = TRUE
  /\ wpc = [w \in Writer |-> "ready"]
  /\ unapplied = [w \in Writer |-> 0]
  /\ dpc = "recv"
  /\ current = "none"

-----------------------------------------------------------------------------
(* Writers.                                                                *)

WriterMoves(w, from, to) ==
  /\ wpc[w] = from
  /\ wpc' = [wpc EXCEPT ![w] = to]

\* Mutant: an operation that goes out without being counted.
MarkDepthForgotten(w) ==
  /\ WriterMoves(w, "ready", "marking")
  /\ UNCHANGED <<queue, queue_depth, queue_empty, unapplied, dpc, current>>

\* mark_enqueued, first half: fetch_add on the depth.
MarkDepth(w) ==
  /\ WriterMoves(w, "ready", "marking")
  /\ queue_depth < MaxDepth
  /\ queue_depth' = queue_depth + 1
  /\ UNCHANGED <<queue, queue_empty, unapplied, dpc, current>>


\* mark_enqueued, second half: the flag is cleared.
MarkFlag(w) ==
  /\ WriterMoves(w, "marking", "marked")
  /\ queue_empty' = FALSE
  /\ UNCHANGED <<queue, queue_depth, unapplied, dpc, current>>

\* tx.send.  A fire-and-forget operation returns at once; VACUUM, schema
\* reconciliation and vocabulary edits wait for the DB thread's answer.
Send(w) ==
  /\ \/ WriterMoves(w, "marked", "ready")
     \/ WriterMoves(w, "marked", "sent_sync")
  /\ queue' = Append(queue, w)
  /\ unapplied' = [unapplied EXCEPT ![w] = @ + 1]
  /\ UNCHANGED <<queue_depth, queue_empty, dpc, current>>

\* wait_for_queue_drain: entered, and left when the flag reads true.
DrainBegin(w) ==
  /\ WriterMoves(w, "ready", "draining")
  /\ UNCHANGED <<queue, queue_depth, queue_empty, unapplied, dpc, current>>

DrainReturn(w) ==
  /\ WriterMoves(w, "draining", "ready")
  /\ queue_empty
  /\ UNCHANGED <<queue, queue_depth, queue_empty, unapplied, dpc, current>>

-----------------------------------------------------------------------------
(* The DB thread: run_db_thread.                                           *)

DbMoves(from, to) == dpc = from /\ dpc' = to

Recv ==
  /\ DbMoves("recv", "apply")
  /\ queue # <<>>
  /\ current' = Head(queue)
  /\ queue' = Tail(queue)
  /\ UNCHANGED <<queue_depth, queue_empty, wpc, unapplied>>

\* The operation is executed; a waiting caller gets its answer before the
\* counter is decremented.
Apply ==
  /\ DbMoves("apply", "fetch_sub")
  /\ unapplied' = [unapplied EXCEPT ![current] = @ - 1]
  /\ wpc' = IF wpc[current] = "sent_sync" /\ unapplied'[current] = 0
            THEN [wpc EXCEPT ![current] = "ready"]
            ELSE wpc
  /\ UNCHANGED <<queue, queue_depth, queue_empty, current>>

FetchSub ==
  /\ DbMoves("fetch_sub", "load")
  /\ queue_depth' = queue_depth - 1
  /\ UNCHANGED <<queue, queue_empty, wpc, unapplied, current>>

\* Mutant: the zero test taken against one, as if before the decrement.
LoadOffByOne ==
  /\ DbMoves("load", IF queue_depth = 1 THEN "store" ELSE "recv")
  /\ UNCHANGED <<queue, queue_depth, queue_empty, wpc, unapplied, current>>

Load ==
  /\ DbMoves("load", IF queue_depth = 0 THEN "store" ELSE "recv")
  /\ UNCHANGED <<queue, queue_depth, queue_empty, wpc, unapplied, current>>

Store ==
  /\ DbMoves("store", "recv")
  /\ queue_empty' = TRUE
  /\ UNCHANGED <<queue, queue_depth, wpc, unapplied, current>>

DbThread == Recv \/ Apply \/ FetchSub \/ Load \/ Store

WriterStep(w) ==
  MarkDepth(w) \/ MarkFlag(w) \/ Send(w) \/ DrainBegin(w) \/ DrainReturn(w)

Next == DbThread \/ \E w \in Writer : WriterStep(w)

\* recv() blocks only on an empty channel, and a writer inside mark_enqueued
\* or send is never blocked.  No writer is obliged to enqueue or to drain.
Fairness ==
  /\ WF_vars(DbThread)
  /\ \A w \in Writer : WF_vars(MarkFlag(w)) /\ WF_vars(Send(w))

Spec == Init /\ [][Next]_vars /\ Fairness

-----------------------------------------------------------------------------
(* Properties.                                                             *)

InMark == {w \in Writer : wpc[w] \in {"marking", "marked"}}

\* The depth counts exactly the operations being enqueued, in the channel,
\* or held by the DB thread and not yet subtracted: no interleaving of
\* fetch_add and fetch_sub loses a count, so the depth never wraps below zero.
DepthExact ==
  queue_depth = Cardinality(InMark) + Len(queue)
                + (IF dpc \in {"apply", "fetch_sub"} THEN 1 ELSE 0)

\* A cleared flag is never orphaned: if it is false and nothing is queued,
\* the DB thread is itself about to look at the counter and raise it.
\* (Otherwise has_pending() would hold the Witch in Working for ever.)
FlagNotStuck ==
  ~queue_empty /\ queue_depth = 0 => dpc \in {"load", "store"}

\* What those who wait for the queue may rely on.  A write counts from the
\* moment its writer has lowered the flag until its count is taken back.
Flagged == {w \in Writer : wpc[w] = "marked"}
Barrier == INSTANCE WriteBarrier WITH
  backlog <- Cardinality(Flagged) + Len(queue)
             + (IF dpc \in {"apply", "fetch_sub"} THEN 1 ELSE 0),
  storing <- dpc = "store"

\* The atomics, in whatever order the threads take them, implement the
\* barrier: the flag is only raised after a moment with no write enqueued,
\* and the DB thread neither stops nor leaves the flag down at zero.
ImplementsBarrier == Barrier!Spec
=============================================================================
