------------------------------ MODULE MCStore ------------------------------
(* Small instances of Store for TLC. *)
EXTENDS Store, TLC

Symmetry == Permutations(Convs) \cup Permutations(Handlers)

\* What a save has left in the temporary file is overwritten by the next one.
View ==
    <<mem, disk, IF \E h \in Handlers : pc[h] = "rename" THEN tmp ELSE <<>>,
      ran, lock, pc, op, id, todo, failed, beside>>
=============================================================================
