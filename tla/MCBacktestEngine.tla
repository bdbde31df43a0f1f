-------------------------- MODULE MCBacktestEngine --------------------------
(* Model-checking instances of BacktestEngine: one symbol whose bars stand   *)
(* still, fall, rise or are missing.  The other stands still; where the      *)
(* first has gaps, it has bars in those gaps only.                           *)
EXTENDS BacktestEngine, TLC

CONSTANTS a, b

Flat == [open |-> 4, high |-> 4, low |-> 4, close |-> 4]
Fall == [open |-> 4, high |-> 4, low |-> 1, close |-> 2]
Rise == [open |-> 4, high |-> 8, low |-> 4, close |-> 8]

Plain == [stopPct |-> None, stopAbs |-> None, tpPct |-> None, tpAbs |-> None,
          trailPct |-> None, activatePct |-> None, mode |-> "close", disableSell |-> FALSE]

MCPolicies ==
    {[Plain EXCEPT !.stopPct = 25, !.tpPct = 100, !.trailPct = 50, !.mode = m]
        : m \in {"close", "ohlc"}} \cup
    {[Plain EXCEPT !.stopAbs = 1, !.trailPct = 25, !.activatePct = 50, !.mode = "ohlc"],
     [Plain EXCEPT !.tpAbs = 2, !.disableSell = TRUE], None}

Other(bars) ==
    [t \in 1 .. N |-> IF bars[t] = None \/ \A u \in 1 .. N : bars[u] # None
                      THEN Flat ELSE None]

\* The window ends with the data, or one bar before.
MCInputs ==
    {[bars |-> (a :> bars) @@ (b :> Other(bars)),
      first |-> 1, last |-> window[2], fill |-> window[1], policy |-> policy] :
        bars \in {f \in [1 .. N -> {Flat, Fall, Rise, None}] : f[1] = Flat},
        window \in {<<"next_open", N - 1>>, <<"next_open", N>>, <<"same_close", N>>},
        policy \in MCPolicies}
=============================================================================
