----------------------------- MODULE MCBarStore -----------------------------
(* Model-checking instance of BarStore.                                      *)
EXTENDS BarStore, TLC

MCRequests == {[start |-> 0, end |-> 1, warmup |-> 1], [start |-> 1, end |-> 2, warmup |-> 0]}
Symmetry == Permutations(Tasks)
=============================================================================
