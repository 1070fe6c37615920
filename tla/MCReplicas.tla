---------------------------- MODULE MCReplicas ----------------------------
(***************************************************************************)
(* Replicas for TLC: model values come from the .cfg file.                 *)
(***************************************************************************)
EXTENDS Replicas

CONSTANTS n1, s1, s2, c1, id1, id2, id3
=============================================================================
