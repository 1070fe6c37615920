---------------------------- MODULE MCOperator ----------------------------
(***************************************************************************)
(* Operator for TLC: model values come from the .cfg file.                 *)
(***************************************************************************)
EXTENDS Operator

CONSTANTS st, db, s1, s2, b1, id1, id2, id3, d1, d2, notifier, c1
=============================================================================
