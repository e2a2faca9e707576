------------------------------ MODULE MCTagFlush -------------------------------
(* Tag edits for TLC: one value, replaced, added to and dropped again.       *)
EXTENDS TagFlush, TLC

CONSTANTS v, w

SomeEdits ==
  { [old |-> v, new |-> w], [old |-> None, new |-> w], [old |-> w, new |-> None] }
OneTag == {{v}}
=============================================================================
