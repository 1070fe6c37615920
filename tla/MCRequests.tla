----------------------------- MODULE MCRequests -----------------------------
(***************************************************************************)
(* Requests for TLC: all types; model values come from the .cfg file.      *)
(***************************************************************************)
EXTENDS Requests

CONSTANTS v1, v2
=============================================================================
