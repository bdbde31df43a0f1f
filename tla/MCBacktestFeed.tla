--------------------------- MODULE MCBacktestFeed ---------------------------
(* Model-checking instances of BacktestFeed.                                 *)
EXTENDS BacktestFeed

CONSTANT j1

\* Every page is about the one job.
MCWatched == [c \in Clients |-> j1]
=============================================================================
