---------------------------- MODULE MCApiClient ----------------------------
(***************************************************************************)
(* ApiClient for TLC.                                                      *)
(***************************************************************************)
EXTENDS ApiClient

CONSTANTS old, new
=============================================================================
