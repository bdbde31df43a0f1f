---------------------------- MODULE JobLifecycle ----------------------------
(***************************************************************************)
(* What the backtest queue promises the user who polls GET                 *)
(* /api/backtests/{id}: the life of a job seen through its status and its  *)
(* stored results.  A job is started at most once, its results are stored  *)
(* at most once, and it never goes back to the queue.  Two things are not  *)
(* promised: that a job failed for its silence does not complete later,    *)
(* and that a completed job is not failed by a reaper that had already     *)
(* selected it.                                                            *)
(***************************************************************************)
CONSTANT Jobs

VARIABLES verdict,    \* the status of each job
          published   \* the jobs whose results are stored

vars == <<verdict, published>>

Init ==
    /\ verdict = [j \in Jobs |-> "absent"]
    /\ published = {}

Enqueue(j) ==
    /\ verdict[j] = "absent"
    /\ verdict' = [verdict EXCEPT ![j] = "queued"]
    /\ UNCHANGED published

Start(j) ==
    /\ verdict[j] = "queued"
    /\ verdict' = [verdict EXCEPT ![j] = "running"]
    /\ UNCHANGED published

Publish(j) ==
    /\ verdict[j] \in {"running", "failed"}
    /\ j \notin published
    /\ verdict' = [verdict EXCEPT ![j] = "completed"]
    /\ published' = published \cup {j}

\* A job is given up by its own exception handler or, several at a time, by
\* the reaper.
GiveUp(S) ==
    /\ \A j \in S : verdict[j] # "absent"
    /\ verdict' = [j \in Jobs |-> IF j \in S THEN "failed" ELSE verdict[j]]
    /\ UNCHANGED published

Next ==
    \/ \E j \in Jobs : Enqueue(j) \/ Start(j) \/ Publish(j)
    \/ \E S \in SUBSET Jobs : GiveUp(S)

Spec == Init /\ [][Next]_vars
=============================================================================
