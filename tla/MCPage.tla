------------------------------- MODULE MCPage -------------------------------
(* Small instances of Page for TLC. *)
EXTENDS Page, TLC

Symmetry == Permutations(Convs)
=============================================================================
