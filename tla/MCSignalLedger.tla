--------------------------- MODULE MCSignalLedger ---------------------------
(* Model-checking instances of SignalLedger.  Two signals on one instrument: *)
(* the first buys, the second sells.                                         *)
EXTENDS SignalLedger, TLC

CONSTANTS s1, s2, aapl

MCInst == (s1 :> aapl) @@ (s2 :> aapl)
MCSide == (s1 :> "buy") @@ (s2 :> "sell")

Symmetry == Permutations(Requests) \cup Permutations(Processors)
=============================================================================
