------------------------ MODULE MCStrategyScheduler ------------------------
(* Model-checking instance of StrategyScheduler.                         *)
EXTENDS StrategyScheduler
=============================================================================
