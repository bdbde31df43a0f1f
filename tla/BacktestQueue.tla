--------------------------- MODULE BacktestQueue ---------------------------
(***************************************************************************)
(* The backtest job queue: the table `backtests` as the API, the worker    *)
(* processes and the stale reaper read and write it.                       *)
(*                                                                         *)
(*   api/routers/backtests.py      trigger_backtest, _run_backtest         *)
(*   backtesting/queue.py          claim_next_queued_backtest, refresh     *)
(*   backtesting/worker.py         run_backtest_worker_loop                *)
(*   api/backtest_stale_reaper.py  _reap_once                              *)
(*                                                                         *)
(* One action is one database transaction, or one statement where another  *)
(* process can act between the statements of a transaction.  A row lock is *)
(* modelled where the code asks for one (FOR UPDATE SKIP LOCKED).          *)
(* Left out: the wording of messages, the web socket announcements, the    *)
(* result columns, and the order in which worker and reaper log.           *)
(***************************************************************************)
EXTENDS Naturals, FiniteSets, Sequences

CONSTANTS Jobs,              \* ids of the rows that may be enqueued
          Workers,           \* backtest-worker processes
          MaxConcurrent,     \* BACKTEST_WORKER_MAX_CONCURRENT
          StaleAfter,        \* stale_after(), in clock ticks
          QueuedStaleAfter,  \* queued_stale_after(), in clock ticks
          MaxCrashes,        \* bound: process deaths in one behaviour
          NoBeat,            \* progress_updated_at IS NULL
          NoJob              \* no row is being claimed

ASSUME QueueAssumption ==
    /\ IsFiniteSet(Jobs)
    /\ MaxConcurrent \in Nat \ {0}
    /\ StaleAfter \in Nat
    /\ QueuedStaleAfter \in Nat
    /\ StaleAfter < QueuedStaleAfter
    /\ MaxCrashes \in Nat
    /\ NoBeat \notin Nat
    /\ NoJob \notin Jobs

VARIABLES row,        \* the table: one record per job id
          submitted,  \* the ids in the order of created_at
          loop,       \* where each worker's polling loop stands
          claim,      \* the row each worker's claim transaction has locked
          task,       \* the asyncio tasks of each worker process
          reaper,     \* where the reaper's pass stands
          doomed,     \* the ids the reaper's SELECTs returned in this pass
          crashes     \* process deaths so far

vars == <<row, submitted, loop, claim, task, reaper, doomed, crashes>>

-----------------------------------------------------------------------------
Statuses == {"absent", "queued", "running", "completed", "failed"}
Terminal == {"completed", "failed"}
Phases   == {"none", "queued", "worker", "fetching_data", "engine", "llm_eval"}
Errors   == {"none", "raised", "stale_running", "stale_queued"}
TaskPcs  == {"none", "start", "fetch", "engine", "llm", "failing", "leaving"}

\* The age of a heartbeat is counted up to the first value at which both
\* limits are exceeded; beyond it no comparison in the code changes.
BeatCap == QueuedStaleAfter + 1
Older(b) == IF b = NoBeat \/ b = BeatCap THEN b ELSE b + 1

\* The rows the UPDATEs may leave behind: phase and heartbeat are set and
\* cleared together, an active row has both, a failed row says why, and a
\* completed row has its results.
Rows == {r \in [status : Statuses, phase : Phases, beat : (0..BeatCap) \cup {NoBeat},
                error : Errors, saved : Nat] :
            /\ r.phase = "none" <=> r.beat = NoBeat
            /\ r.status \in {"queued", "running"} => r.beat # NoBeat
            /\ r.status = "failed" => r.error # "none"
            /\ r.status = "completed" => r.saved > 0}

EmptyRow == [status |-> "absent", phase |-> "none", beat |-> NoBeat,
             error |-> "none", saved |-> 0]

TypeOK ==
    /\ row \in [Jobs -> Rows]
    /\ submitted \in Seq(Jobs)
    /\ loop \in [Workers -> {"refresh", "claim", "commit", "down"}]
    /\ claim \in [Workers -> Jobs \cup {NoJob}]
    /\ task \in [Workers -> [Jobs -> TaskPcs]]
    /\ reaper \in {"idle", "queued", "update", "down"}
    /\ doomed \in [{"running", "queued"} -> SUBSET Jobs]
    /\ crashes \in 0..MaxCrashes

Init ==
    /\ row = [j \in Jobs |-> EmptyRow]
    /\ submitted = <<>>
    /\ loop = [w \in Workers |-> "refresh"]
    /\ claim = [w \in Workers |-> NoJob]
    /\ task = [w \in Workers |-> [j \in Jobs |-> "none"]]
    /\ reaper = "idle"
    /\ doomed = [s \in {"running", "queued"} |-> {}]
    /\ crashes = 0

-----------------------------------------------------------------------------
(* Reads of the table.                                                     *)

Queued == {j \in Jobs : row[j].status = "queued"}

\* Rows a claim transaction holds FOR UPDATE.
Locked == {claim[w] : w \in Workers} \ {NoJob}

\* `active` in the worker loop: the tasks of this process not yet done.
Active(w) == {j \in Jobs : task[w][j] # "none"}

\* Variant: the claim does not skip locked rows.
Claimable_IgnoresLocks == Queued

\* Variant: failed rows are claimed again.
Claimable_RetriesFailed ==
    (Queued \cup {j \in Jobs : row[j].status = "failed"}) \ Locked

Claimable == Queued \ Locked

Before(i, j) ==
    \E m, n \in 1..Len(submitted) : m < n /\ submitted[m] = i /\ submitted[n] = j

\* ORDER BY created_at LIMIT 1, over the rows SKIP LOCKED leaves.
Oldest(S, j) == j \in S /\ \A i \in S \ {j} : ~Before(i, j)

\* The staleness condition of both SELECTs.  A row without a heartbeat is
\* judged by created_at, which is taken to be old enough.
Silent(j, limit) == IF row[j].beat = NoBeat THEN TRUE ELSE row[j].beat > limit

-----------------------------------------------------------------------------
(* Writes of the table, one operator per UPDATE statement.                 *)

Enqueued(r) == [r EXCEPT !.status = "queued", !.phase = "queued", !.beat = 0]

\* Variant: the claim clears the heartbeat of the wait.
Claimed_NoBeat(r) == [r EXCEPT !.status = "running", !.phase = "worker", !.beat = NoBeat]

Claimed(r) == [r EXCEPT !.status = "running", !.phase = "worker", !.beat = 0]

Beating(r, phase) == [r EXCEPT !.phase = phase, !.beat = 0]

Failed(r, why) == [r EXCEPT !.status = "failed", !.error = why,
                            !.phase = "none", !.beat = NoBeat]

Completed(r) == [r EXCEPT !.status = "completed", !.saved = @ + 1,
                          !.phase = "none", !.beat = NoBeat]

\* refresh_queued_backtests: one UPDATE of every queued row.  It waits for a
\* row that a claim has locked and then finds it no longer queued.
RefreshQueued ==
    /\ Queued \cap Locked = {}
    /\ row' = [j \in Jobs |-> IF j \in Queued THEN [row[j] EXCEPT !.beat = 0]
                                              ELSE row[j]]

-----------------------------------------------------------------------------
(* The API: POST /api/backtests/.                                          *)

Submit(j) ==
    /\ row[j].status = "absent"
    /\ row' = [row EXCEPT ![j] = Enqueued(@)]
    /\ submitted' = Append(submitted, j)
    /\ UNCHANGED <<loop, claim, task, reaper, doomed, crashes>>

-----------------------------------------------------------------------------
(* run_backtest_worker_loop.                                               *)

LoopRefresh(w) ==
    /\ loop[w] = "refresh"
    /\ RefreshQueued
    /\ loop' = [loop EXCEPT ![w] = "claim"]
    /\ UNCHANGED <<submitted, claim, task, reaper, doomed, crashes>>

\* Variant: the capacity test is off by one, one job too many.
HasSlot_OneMore(w) == Cardinality(Active(w)) <= MaxConcurrent

\* Variant: the capacity test is off by one, one job too few.
HasSlot_OneLess(w) == Cardinality(Active(w)) + 1 < MaxConcurrent

HasSlot(w) == Cardinality(Active(w)) < MaxConcurrent

\* len(active) >= max_jobs, or nothing to claim: sleep and poll again.
LoopSleep(w) ==
    /\ loop[w] = "claim"
    /\ ~HasSlot(w) \/ Claimable = {}
    /\ loop' = [loop EXCEPT ![w] = "refresh"]
    /\ UNCHANGED <<row, submitted, claim, task, reaper, doomed, crashes>>

\* The SELECT ... FOR UPDATE SKIP LOCKED of claim_next_queued_backtest.
ClaimSelect(w) ==
    /\ loop[w] = "claim"
    /\ HasSlot(w)
    /\ \E j \in Jobs :
          /\ Oldest(Claimable, j)
          /\ claim' = [claim EXCEPT ![w] = j]
    /\ loop' = [loop EXCEPT ![w] = "commit"]
    /\ UNCHANGED <<row, submitted, task, reaper, doomed, crashes>>

\* The UPDATE, the commit, and create_task for the claimed job.
ClaimCommit(w) ==
    /\ loop[w] = "commit"
    /\ LET j == claim[w] IN
          /\ row' = [row EXCEPT ![j] = Claimed(@)]
          /\ task' = [task EXCEPT ![w][j] = "start"]
    /\ claim' = [claim EXCEPT ![w] = NoJob]
    /\ loop' = [loop EXCEPT ![w] = "refresh"]
    /\ UNCHANGED <<submitted, reaper, doomed, crashes>>

-----------------------------------------------------------------------------
(* _run_backtest, from one commit to the next.  Its UPDATEs name the row by *)
(* id alone: none of them looks at the status it overwrites.                *)

Goto(w, j, pc) == task' = [task EXCEPT ![w][j] = pc]

OnlyTheTable == UNCHANGED <<submitted, loop, claim, reaper, doomed, crashes>>

\* _set_backtest_progress "fetching_data": at least once, then once per notice.
TaskFetch(w, j) ==
    /\ task[w][j] \in {"start", "fetch"}
    /\ row' = [row EXCEPT ![j] = Beating(@, "fetching_data")]
    /\ Goto(w, j, "fetch")
    /\ OnlyTheTable

TaskEngineStart(w, j) ==
    /\ task[w][j] = "fetch"
    /\ row' = [row EXCEPT ![j] = Beating(@, "engine")]
    /\ Goto(w, j, "engine")
    /\ OnlyTheTable

\* bar_progress, called back from the engine's thread.
TaskEngineBar(w, j) ==
    /\ task[w][j] = "engine"
    /\ row' = [row EXCEPT ![j] = Beating(@, "engine")]
    /\ UNCHANGED task
    /\ OnlyTheTable

\* An exception of the evaluator is swallowed, so evaluation has one outcome.
TaskLlmStart(w, j) ==
    /\ task[w][j] = "engine"
    /\ row' = [row EXCEPT ![j] = Beating(@, "llm_eval")]
    /\ Goto(w, j, "llm")
    /\ OnlyTheTable

\* One transaction: the trades, the equity curve and the completed status.
TaskSave(w, j) ==
    /\ task[w][j] = "llm"
    /\ row' = [row EXCEPT ![j] = Completed(@)]
    /\ Goto(w, j, "leaving")
    /\ OnlyTheTable

\* Any exception before the commit of the results.
TaskRaise(w, j) ==
    /\ task[w][j] \in {"start", "fetch", "engine", "llm"}
    /\ Goto(w, j, "failing")
    /\ UNCHANGED row
    /\ OnlyTheTable

TaskFail(w, j) ==
    /\ task[w][j] = "failing"
    /\ row' = [row EXCEPT ![j] = Failed(@, "raised")]
    /\ Goto(w, j, "leaving")
    /\ OnlyTheTable

\* The UPDATE of the exception handler raises in its turn (the database is
\* what failed): the task ends and the row keeps its status.
TaskFailRaises(w, j) ==
    /\ task[w][j] = "failing"
    /\ Goto(w, j, "leaving")
    /\ UNCHANGED row
    /\ OnlyTheTable

\* The finally clause of _run_one_backtest; then the task is done.
TaskLeave(w, j) ==
    /\ task[w][j] = "leaving"
    /\ RefreshQueued
    /\ Goto(w, j, "none")
    /\ OnlyTheTable

-----------------------------------------------------------------------------
(* _reap_once.  The cutoffs are computed from one reading of the clock.     *)

\* Variant: only rows without a heartbeat are reaped.
ReapRunning_NullBeatsOnly ==
    /\ reaper = "idle"
    /\ doomed' = [doomed EXCEPT !["running"] =
                    {j \in Jobs : row[j].status = "running" /\ row[j].beat = NoBeat}]
    /\ reaper' = "queued"
    /\ UNCHANGED <<row, submitted, loop, claim, task, crashes>>

ReapRunning ==
    /\ reaper = "idle"
    /\ doomed' = [doomed EXCEPT !["running"] =
                    {j \in Jobs : row[j].status = "running" /\ Silent(j, StaleAfter)}]
    /\ reaper' = "queued"
    /\ UNCHANGED <<row, submitted, loop, claim, task, crashes>>

\* Variant: the SELECT of stale queued rows forgets the status.
ReapQueued_AnyStatus ==
    /\ reaper = "queued"
    /\ doomed' = [doomed EXCEPT !["queued"] =
                    {j \in Jobs : Silent(j, QueuedStaleAfter)}]
    /\ reaper' = "update"
    /\ UNCHANGED <<row, submitted, loop, claim, task, crashes>>

ReapQueued ==
    /\ reaper = "queued"
    /\ doomed' = [doomed EXCEPT !["queued"] =
                    {j \in Queued : Silent(j, QueuedStaleAfter)}]
    /\ reaper' = "update"
    /\ UNCHANGED <<row, submitted, loop, claim, task, crashes>>

Doomed == doomed["running"] \cup doomed["queued"]

\* Both UPDATEs and the commit; they wait for rows a claim has locked.
ReapUpdate ==
    /\ reaper = "update"
    /\ Doomed \cap Locked = {}
    /\ row' = [j \in Jobs |->
                 IF j \in doomed["queued"] THEN Failed(row[j], "stale_queued")
                 ELSE IF j \in doomed["running"] THEN Failed(row[j], "stale_running")
                 ELSE row[j]]
    /\ doomed' = [s \in {"running", "queued"} |-> {}]
    /\ reaper' = "idle"
    /\ UNCHANGED <<submitted, loop, claim, task, crashes>>

-----------------------------------------------------------------------------
(* Time, and the death and restart of processes.                           *)

\* A tick is longer than the pause between the reaper's two SELECTs.
Tick ==
    /\ reaper # "queued"
    /\ row' = [j \in Jobs |-> [row[j] EXCEPT !.beat = Older(@)]]
    /\ UNCHANGED <<submitted, loop, claim, task, reaper, doomed, crashes>>

\* A dead worker drops its tasks; the database rolls its claim back.
WorkerCrash(w) ==
    /\ loop[w] # "down"
    /\ crashes < MaxCrashes
    /\ loop' = [loop EXCEPT ![w] = "down"]
    /\ claim' = [claim EXCEPT ![w] = NoJob]
    /\ task' = [task EXCEPT ![w] = [j \in Jobs |-> "none"]]
    /\ crashes' = crashes + 1
    /\ UNCHANGED <<row, submitted, reaper, doomed>>

WorkerRestart(w) ==
    /\ loop[w] = "down"
    /\ loop' = [loop EXCEPT ![w] = "refresh"]
    /\ UNCHANGED <<row, submitted, claim, task, reaper, doomed, crashes>>

ReaperCrash ==
    /\ reaper # "down"
    /\ crashes < MaxCrashes
    /\ reaper' = "down"
    /\ doomed' = [s \in {"running", "queued"} |-> {}]
    /\ crashes' = crashes + 1
    /\ UNCHANGED <<row, submitted, loop, claim, task>>

ReaperRestart ==
    /\ reaper = "down"
    /\ reaper' = "idle"
    /\ UNCHANGED <<row, submitted, loop, claim, task, doomed, crashes>>

-----------------------------------------------------------------------------
LoopStep(w) == LoopRefresh(w) \/ LoopSleep(w) \/ ClaimSelect(w) \/ ClaimCommit(w)

\* The steps that take a task nearer to its end: a run has finitely many
\* notices and bars, so the repeated heartbeats are not among them.
TaskAdvance(w, j) ==
    \/ task[w][j] = "start" /\ TaskFetch(w, j)
    \/ TaskEngineStart(w, j)
    \/ TaskLlmStart(w, j)
    \/ TaskSave(w, j)
    \/ TaskRaise(w, j)
    \/ TaskFail(w, j)
    \/ TaskFailRaises(w, j)
    \/ TaskLeave(w, j)

TaskStep(w, j) == TaskAdvance(w, j) \/ TaskFetch(w, j) \/ TaskEngineBar(w, j)

ReaperStep == ReapRunning \/ ReapQueued \/ ReapUpdate

Next ==
    \/ \E j \in Jobs : Submit(j)
    \/ \E w \in Workers : LoopStep(w) \/ WorkerCrash(w) \/ WorkerRestart(w)
    \/ \E w \in Workers, j \in Jobs : TaskStep(w, j)
    \/ ReaperStep \/ ReaperCrash \/ ReaperRestart
    \/ Tick

Spec == Init /\ [][Next]_vars

\* Processes are restarted by the container runtime (restart: unless-stopped),
\* the loops poll for ever, every await of a run returns, and time passes
\* however often the reaper interrupts a tick (hence the strong fairness).
Fairness ==
    /\ \A w \in Workers : WF_vars(LoopStep(w)) /\ WF_vars(WorkerRestart(w))
    /\ \A w \in Workers, j \in Jobs : WF_vars(TaskAdvance(w, j))
    /\ WF_vars(ReaperStep) /\ WF_vars(ReaperRestart)
    /\ SF_vars(Tick)

FairSpec == Spec /\ Fairness

-----------------------------------------------------------------------------
(* Properties.                                                             *)

Engaged(w, j) == claim[w] = j \/ task[w][j] # "none"

\* No job is ever claimed or executed by two workers at once, however their
\* claim transactions interleave (FOR UPDATE SKIP LOCKED in
\* claim_next_queued_backtest).
OneExecutor ==
    \A j \in Jobs : \A v, w \in Workers : Engaged(v, j) /\ Engaged(w, j) => v = w

\* A worker process never runs more than BACKTEST_WORKER_MAX_CONCURRENT jobs,
\* counting the one it is claiming.
WithinCapacity ==
    \A w \in Workers :
        Cardinality(Active(w)) + (IF claim[w] = NoJob THEN 0 ELSE 1) <= MaxConcurrent

\* The trades and the equity curve of a job are inserted at most once, a
\* completed row always has them, and a row that has them is in a final state:
\* a crashed, reaped or late run never leaves a second set behind.
ResultsOnce ==
    \A j \in Jobs :
        /\ row[j].saved <= 1
        /\ row[j].status = "completed" => row[j].saved = 1
        /\ row[j].saved = 1 => row[j].status \in Terminal

\* Every row the reaper may judge has a heartbeat, so its test on created_at
\* (for a row without one) never decides.
ActiveRowsBeat ==
    \A j \in Jobs : row[j].status \in {"queued", "running"} => row[j].beat # NoBeat

\* A worker between the two halves of a claim holds a row that is still queued.
ClaimsHold ==
    \A w \in Workers : /\ loop[w] = "commit" <=> claim[w] # NoJob
                       /\ claim[w] # NoJob => row[claim[w]].status = "queued"

\* A row that was not started has no task and no results.
NotStartedIsClean ==
    \A j \in Jobs : row[j].status \in {"absent", "queued"} =>
        row[j].saved = 0 /\ \A w \in Workers : task[w][j] = "none"

AtWork(w, j) == task[w][j] \in {"start", "fetch", "engine", "llm", "failing"}

\* Nobody else completes or puts back the row of a task still at work.
AtWorkIsUnpublished ==
    \A w \in Workers, j \in Jobs :
        AtWork(w, j) => row[j].status \in {"running", "failed"} /\ row[j].saved = 0

\* Who may write which row: the strengthening that makes OneExecutor and
\* ResultsOnce inductive.
Ownership ==
    /\ OneExecutor
    /\ ResultsOnce
    /\ ClaimsHold
    /\ NotStartedIsClean
    /\ AtWorkIsUnpublished
    /\ \A j \in Doomed : row[j].status # "absent"

\* Nothing can still write the row of a settled job: it has a final status,
\* no task, and the reaper does not hold its id.
Settled(j) ==
    /\ row[j].status \in Terminal
    /\ \A w \in Workers : ~Engaged(w, j)
    /\ j \notin Doomed

\* Once settled, a row is never written again (its heartbeat, if a late
\* progress report left one, only ages) and never claimed again.
SettledForever ==
    [][\A j \in Jobs : Settled(j) =>
          /\ Settled(j)'
          /\ row'[j] \in {row[j], [row[j] EXCEPT !.beat = Older(@)]}]_vars

\* A failed row becomes completed only through the task that was already
\* running it: a failed job is never executed a second time.
NoResurrection ==
    [][\A j \in Jobs :
          row[j].status = "failed" /\ row'[j].status # "failed" =>
              /\ row'[j].status = "completed"
              /\ \E w \in Workers : task[w][j] = "llm"]_vars

\* Every submitted job settles, through worker crashes, failing failure
\* handlers and reaper restarts: nobody waits for a job for ever.
JobsSettle == \A j \in Jobs : row[j].status = "queued" ~> Settled(j)

\* A row left `running` by a dead worker is marked failed in the end.
AbandonedIsReaped ==
    \A j \in Jobs :
        row[j].status = "running" /\ (\A w \in Workers : ~Engaged(w, j))
            ~> row[j].status = "failed"

\* The user's view of the queue.
Lifecycle == INSTANCE JobLifecycle WITH
    verdict <- [j \in Jobs |-> row[j].status],
    published <- {j \in Jobs : row[j].saved > 0}

\* The queue implements the lifecycle it promises.
ImplementsLifecycle == Lifecycle!Spec
=============================================================================
