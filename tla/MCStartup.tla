----------------------------- MODULE MCStartup -----------------------------
(***************************************************************************)
(* Startup for TLC: two workspaces, of which databasus lists two, one or   *)
(* none, whose names may be exchanged or the same.                         *)
(***************************************************************************)
EXTENDS Startup

CONSTANTS p1, p2, pw1, pw2, w1, w2, a, b

Entry(w, n) == [id |-> w, name |-> n]

MCLists == {<<>>, <<Entry(w1, a), Entry(w2, b)>>, <<Entry(w2, a), Entry(w1, b)>>,
            <<Entry(w2, b)>>, <<Entry(w2, a), Entry(w1, a)>>}
=============================================================================
