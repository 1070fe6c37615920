----------------------- MODULE MCResourceController -----------------------
(***************************************************************************)
(* ResourceController for TLC: model values come from the .cfg files.      *)
(***************************************************************************)
EXTENDS ResourceController

CONSTANTS n1, n2, s1, s2, broken, c1, c2, id1, id2, id3

=============================================================================
