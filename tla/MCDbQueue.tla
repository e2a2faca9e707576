------------------------------ MODULE MCDbQueue ------------------------------
(* The DB write queue for TLC: a few interchangeable writers, and a depth   *)
(* that lets one writer be inside mark_enqueued while another's operation   *)
(* is being retired and a third waits in the channel.                       *)
EXTENDS DbQueue, TLC

WriterSymmetry == Permutations(Writer)
=============================================================================
