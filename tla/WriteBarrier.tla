----------------------------- MODULE WriteBarrier -----------------------------
(***************************************************************************)
(* What the DB write thread promises to those who wait for it: a count of  *)
(* writes and a flag.  Everybody who enqueues lowers the flag.  The thread *)
(* raises it, but only after it has seen the count at zero, and it always  *)
(* gets there.                                                             *)
(*                                                                         *)
(* The promise is weaker than "the flag is up when nothing is enqueued":   *)
(* seeing zero and raising the flag are two steps, and a write enqueued    *)
(* between them stays behind a raised flag.  DbQueue implements it.        *)
(***************************************************************************)
EXTENDS Integers

VARIABLES
  backlog,      \* the writes enqueued and not retired
  queue_empty,  \* the flag
  storing       \* zero was seen, the flag is about to be raised

vars == <<backlog, queue_empty, storing>>

Init == backlog = 0 /\ queue_empty = TRUE /\ storing = FALSE

Enqueue ==
  /\ backlog' = backlog + 1
  /\ queue_empty' = FALSE
  /\ UNCHANGED storing

Retire ==
  /\ ~storing /\ backlog > 0
  /\ backlog' = backlog - 1
  /\ UNCHANGED <<queue_empty, storing>>

SeeZero ==
  /\ ~storing /\ backlog = 0
  /\ storing' = TRUE
  /\ UNCHANGED <<backlog, queue_empty>>

Raise ==
  /\ storing
  /\ storing' = FALSE
  /\ queue_empty' = TRUE
  /\ UNCHANGED backlog

Next == Enqueue \/ Retire \/ SeeZero \/ Raise

Safety == Init /\ [][Next]_vars

\* The thread keeps retiring, and does not leave the flag down at zero.
Fairness ==
  /\ WF_vars(Retire) /\ WF_vars(Raise)
  /\ WF_vars(SeeZero /\ ~queue_empty)

Spec == Safety /\ Fairness
=============================================================================
