----------------------------- MODULE MCOpening -----------------------------
(* Small instances of Opening for TLC. *)
EXTENDS Opening, TLC
=============================================================================
