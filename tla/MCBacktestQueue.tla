-------------------------- MODULE MCBacktestQueue --------------------------
(* Model-checking instances of BacktestQueue.                              *)
EXTENDS BacktestQueue, TLC

\* Jobs and workers are interchangeable in the safety properties.
Symmetry == Permutations(Jobs) \cup Permutations(Workers)
=============================================================================
