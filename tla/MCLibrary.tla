------------------------------- MODULE MCLibrary -------------------------------
(***************************************************************************)
(* Library with two corpus files, one file of another program and three    *)
(* paths.                                                                  *)
(***************************************************************************)
EXTENDS Library

CONSTANTS f, g, p, q, r, x

TwoFiles == <<f, g>>
AnyWants == [File -> Path]
=============================================================================
