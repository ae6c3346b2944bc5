----------------------------- MODULE MCControl -----------------------------
(* Three overlapping operations, three takeovers and three leases: a stale  *)
(* request, a stale lease and a fresh one can all be presented at once.     *)
EXTENDS Control, TLC
=============================================================================
