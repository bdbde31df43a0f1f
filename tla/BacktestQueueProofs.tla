------------------------ MODULE BacktestQueueProofs ------------------------
(***************************************************************************)
(* Theorems about the backtest queue, for any set of jobs and workers, any *)
(* capacity and any limits.                                                *)
(***************************************************************************)
EXTENDS BacktestQueue, FiniteSetTheorems, TLAPS

-----------------------------------------------------------------------------
(* The three ways a row is overwritten, and ageing, stay within the type.  *)

LEMMA CapFacts == BeatCap \in Nat /\ 0 \in 0..BeatCap
  BY QueueAssumption DEF BeatCap

LEMMA RowWrites ==
  ASSUME NEW r \in Rows
  PROVE  /\ \A phase \in Phases \ {"none"} : Beating(r, phase) \in Rows
         /\ \A why \in Errors \ {"none"} : Failed(r, why) \in Rows
         /\ Completed(r) \in Rows
         /\ Enqueued(r) \in Rows /\ Claimed(r) \in Rows
         /\ r.status = "queued" => [r EXCEPT !.beat = 0] \in Rows
         /\ [r EXCEPT !.beat = Older(r.beat)] \in Rows
  <1>0. 0 \in (0..BeatCap) \cup {NoBeat} /\ NoBeat \in (0..BeatCap) \cup {NoBeat} /\ 0 # NoBeat
    BY CapFacts, QueueAssumption
  <1>1. Older(r.beat) \in (0..BeatCap) \cup {NoBeat} /\ (Older(r.beat) = NoBeat <=> r.beat = NoBeat)
    <2>1. CASE r.beat = NoBeat \/ r.beat = BeatCap
      BY <2>1 DEF Rows, Older
    <2>2. CASE r.beat # NoBeat /\ r.beat # BeatCap
      BY <2>2, CapFacts, QueueAssumption DEF Rows, Older
    <2>. QED BY <2>1, <2>2
  <1>. HIDE DEF Older
  <1>2. [r EXCEPT !.beat = Older(r.beat)] \in Rows
    BY <1>1 DEF Rows
  <1>3. r.status = "queued" => [r EXCEPT !.beat = 0] \in Rows
    BY <1>0 DEF Rows
  <1>4. \A phase \in Phases \ {"none"} : Beating(r, phase) \in Rows
    BY <1>0 DEF Rows, Beating
  <1>5. \A why \in Errors \ {"none"} : Failed(r, why) \in Rows
    BY <1>0 DEF Rows, Failed, Statuses, Phases
  <1>6. Completed(r) \in Rows
    <2>1. r.saved + 1 \in Nat /\ r.saved + 1 > 0
      BY DEF Rows
    <2>. QED BY <1>0, <2>1 DEF Rows, Completed, Statuses, Phases
  <1>7. Enqueued(r) \in Rows /\ Claimed(r) \in Rows
    BY <1>0 DEF Rows, Enqueued, Claimed, Statuses, Phases
  <1>. QED
    BY <1>2, <1>3, <1>4, <1>5, <1>6, <1>7

\* What each overwrite does to the status and to the stored results.
LEMMA RowEffects ==
  ASSUME NEW r \in Rows
  PROVE  /\ \A why : Failed(r, why).status = "failed" /\ Failed(r, why).saved = r.saved
         /\ \A phase : Beating(r, phase).status = r.status /\ Beating(r, phase).saved = r.saved
  BY DEF Rows, Failed, Beating

\* Type correctness: every step of every process keeps the table, the
\* workers' memory and the reaper's lists within their types.
LEMMA TypeStep == TypeOK /\ [Next]_vars => TypeOK'
  <1> SUFFICES ASSUME TypeOK, [Next]_vars PROVE TypeOK'
    OBVIOUS
  <1> USE DEF TypeOK
  <1>1. ASSUME NEW j \in Jobs, Submit(j) PROVE TypeOK'
    <2>1. row' \in [Jobs -> Rows]
      BY <1>1, RowWrites DEF Submit
    <2>. QED BY <1>1, <2>1 DEF Submit
  <1>2. ASSUME NEW w \in Workers, LoopRefresh(w) PROVE TypeOK'
    <2>1. row' \in [Jobs -> Rows]
      BY <1>2, RowWrites DEF LoopRefresh, RefreshQueued, Queued
    <2>. QED BY <1>2, <2>1 DEF LoopRefresh
  <1>3. ASSUME NEW w \in Workers, LoopSleep(w) PROVE TypeOK'
    BY <1>3 DEF LoopSleep
  <1>4. ASSUME NEW w \in Workers, ClaimSelect(w) PROVE TypeOK'
    BY <1>4 DEF ClaimSelect
  <1>5. ASSUME NEW w \in Workers, WorkerCrash(w) PROVE TypeOK'
    BY <1>5, QueueAssumption DEF WorkerCrash, TaskPcs
  <1>6. ASSUME NEW w \in Workers, WorkerRestart(w) PROVE TypeOK'
    BY <1>6 DEF WorkerRestart
  <1>7. ASSUME NEW w \in Workers, ClaimCommit(w) PROVE TypeOK'
    <2>1. CASE claim[w] \in Jobs
      <3>1. row' \in [Jobs -> Rows]
        BY <1>7, <2>1, RowWrites DEF ClaimCommit
      <3>. QED BY <1>7, <2>1, <3>1 DEF ClaimCommit, TaskPcs
    <2>2. CASE claim[w] \notin Jobs
      <3>1. row' = row /\ task' = task
        BY <1>7, <2>2 DEF ClaimCommit
      <3>. QED BY <1>7, <3>1 DEF ClaimCommit
    <2>. QED BY <2>1, <2>2
  <1>8. ASSUME NEW w \in Workers, NEW j \in Jobs, TaskStep(w, j) PROVE TypeOK'
    <2>1. row' \in [Jobs -> Rows]
      <3>1. Beating(row[j], "fetching_data") \in Rows /\ Beating(row[j], "engine") \in Rows
            /\ Beating(row[j], "llm_eval") \in Rows /\ Completed(row[j]) \in Rows
            /\ Failed(row[j], "raised") \in Rows
        BY RowWrites DEF Phases, Errors
      <3>2. CASE TaskLeave(w, j)
        BY <3>2, RowWrites DEF TaskLeave, RefreshQueued, Queued
      <3>3. CASE TaskRaise(w, j) \/ TaskFailRaises(w, j)
        BY <3>3 DEF TaskRaise, TaskFailRaises
      <3>4. CASE TaskFetch(w, j) \/ TaskEngineStart(w, j) \/ TaskEngineBar(w, j)
                 \/ TaskLlmStart(w, j) \/ TaskSave(w, j) \/ TaskFail(w, j)
        BY <3>1, <3>4
           DEF TaskFetch, TaskEngineStart, TaskEngineBar, TaskLlmStart, TaskSave, TaskFail
      <3>. QED BY <1>8, <3>2, <3>3, <3>4 DEF TaskStep, TaskAdvance
    <2>2. task' = task \/ \E pc \in TaskPcs : task' = [task EXCEPT ![w][j] = pc]
      BY <1>8 DEF TaskStep, TaskAdvance, TaskFetch, TaskEngineStart, TaskEngineBar,
         TaskLlmStart, TaskSave, TaskRaise, TaskFail, TaskFailRaises, TaskLeave, Goto, TaskPcs
    <2>3. OnlyTheTable
      BY <1>8 DEF TaskStep, TaskAdvance, TaskFetch, TaskEngineStart, TaskEngineBar,
         TaskLlmStart, TaskSave, TaskRaise, TaskFail, TaskFailRaises, TaskLeave
    <2>4. task' \in [Workers -> [Jobs -> TaskPcs]]
      <3>1. ASSUME NEW pc \in TaskPcs PROVE [task EXCEPT ![w][j] = pc] \in [Workers -> [Jobs -> TaskPcs]]
        <4>1. [task[w] EXCEPT ![j] = pc] \in [Jobs -> TaskPcs]
          OBVIOUS
        <4>. QED BY <4>1
      <3>. QED BY <2>2, <3>1
    <2>. QED BY <2>1, <2>3, <2>4 DEF OnlyTheTable
  <1>9. CASE ReapRunning
    BY <1>9 DEF ReapRunning
  <1>10. CASE ReapQueued
    BY <1>10 DEF ReapQueued, Queued
  <1>11. CASE ReapUpdate
    <2>1. row' \in [Jobs -> Rows]
      BY <1>11, RowWrites DEF ReapUpdate, Errors
    <2>. QED BY <1>11, <2>1 DEF ReapUpdate
  <1>12. CASE ReaperCrash \/ ReaperRestart
    BY <1>12, QueueAssumption DEF ReaperCrash, ReaperRestart
  <1>13. CASE Tick
    <2>1. row' \in [Jobs -> Rows]
      BY <1>13, RowWrites DEF Tick
    <2>. QED BY <1>13, <2>1 DEF Tick
  <1>14. CASE UNCHANGED vars
    BY <1>14 DEF vars
  <1>. QED
    BY <1>1, <1>2, <1>3, <1>4, <1>5, <1>6, <1>7, <1>8, <1>9, <1>10, <1>11, <1>12, <1>13, <1>14
       DEF Next, LoopStep, ReaperStep

THEOREM TypeCorrect == Spec => []TypeOK
  <1>1. Init => TypeOK
    BY QueueAssumption, CapFacts
       DEF Init, TypeOK, EmptyRow, Rows, Statuses, Phases, Errors, TaskPcs
  <1>2. TypeOK /\ [Next]_vars => TypeOK'
    BY TypeStep
  <1>. QED
    BY <1>1, <1>2, PTL DEF Spec

-----------------------------------------------------------------------------
(* Ownership.  Most steps either keep the verdict of every row or fail     *)
(* rows nobody is claiming, and start no task: one lemma covers them.      *)

LEMMA Frame ==
  ASSUME TypeOK, TypeOK', Ownership,
         \A j \in Jobs :
            /\ row'[j].saved = row[j].saved
            /\ \/ row'[j].status = row[j].status
               \/ /\ row'[j].status = "failed"
                  /\ row[j].status # "absent"
                  /\ \A w \in Workers : claim[w] # j,
         \A w \in Workers :
            /\ claim'[w] \in {claim[w], NoJob}
            /\ loop'[w] = "commit" <=> claim'[w] # NoJob,
         \A w \in Workers, j \in Jobs :
            /\ task'[w][j] # "none" => task[w][j] # "none"
            /\ AtWork(w, j)' => AtWork(w, j),
         \A j \in Doomed' : row[j].status # "absent"
  PROVE  Ownership'
  <1> USE DEF Ownership
  <1>0. NoJob \notin Jobs /\ \A w \in Workers : claim[w] \in Jobs \cup {NoJob}
    BY QueueAssumption DEF TypeOK
  <1>1. OneExecutor'
    BY <1>0 DEF OneExecutor, Engaged
  <1>2. ResultsOnce'
    BY DEF ResultsOnce, Terminal
  <1>3. ClaimsHold'
    BY <1>0 DEF ClaimsHold
  <1>4. NotStartedIsClean'
    BY DEF NotStartedIsClean
  <1>5. AtWorkIsUnpublished'
    BY DEF AtWorkIsUnpublished
  <1>6. (\A j \in Doomed : row[j].status # "absent")'
    <2>1. Doomed' \subseteq Jobs
      BY DEF Doomed, TypeOK
    <2>. QED BY <2>1
  <1>. QED
    BY <1>1, <1>2, <1>3, <1>4, <1>5, <1>6

\* A row a claim holds is not the row of any task, nor a row the reaper may
\* write: the exception handler of a task may fail its row.
LEMMA FailingIsUnclaimed ==
  ASSUME TypeOK, Ownership, NEW w \in Workers, NEW j \in Jobs, AtWork(w, j)
  PROVE  row[j].status # "absent" /\ \A v \in Workers : claim[v] # j
  <1>1. row[j].status \in {"running", "failed"}
    BY DEF Ownership, AtWorkIsUnpublished
  <1>2. \A v \in Workers : claim[v] # NoJob => row[claim[v]].status = "queued"
    BY DEF Ownership, ClaimsHold
  <1>. QED
    BY <1>1, <1>2, QueueAssumption

\* What every task step leaves alone, and where it takes its task.
LEMMA TaskStepFrame ==
  ASSUME TypeOK, NEW w \in Workers, NEW j \in Jobs, TaskStep(w, j)
  PROVE  /\ UNCHANGED <<submitted, loop, claim, reaper, doomed, crashes>>
         /\ \A v \in Workers, i \in Jobs :
               /\ <<v, i>> # <<w, j>> => task'[v][i] = task[v][i]
               /\ task'[v][i] # "none" => task[v][i] # "none"
               /\ AtWork(v, i)' => AtWork(v, i)
  <1>1. OnlyTheTable
    BY DEF TaskStep, TaskAdvance, TaskFetch, TaskEngineStart, TaskEngineBar,
       TaskLlmStart, TaskSave, TaskRaise, TaskFail, TaskFailRaises, TaskLeave
  <1>2. \/ task' = task
        \/ /\ task[w][j] # "none"
           /\ \E pc \in TaskPcs :
                 /\ task' = [task EXCEPT ![w][j] = pc]
                 /\ pc \in {"start", "fetch", "engine", "llm", "failing"} => AtWork(w, j)
    BY DEF TaskStep, TaskAdvance, TaskFetch, TaskEngineStart, TaskEngineBar, AtWork,
       TaskLlmStart, TaskSave, TaskRaise, TaskFail, TaskFailRaises, TaskLeave, Goto, TaskPcs
  <1>3. CASE task' = task
    BY <1>1, <1>3 DEF OnlyTheTable, AtWork
  <1>4. ASSUME NEW pc \in TaskPcs, task[w][j] # "none",
               task' = [task EXCEPT ![w][j] = pc],
               pc \in {"start", "fetch", "engine", "llm", "failing"} => AtWork(w, j)
        PROVE  \A v \in Workers, i \in Jobs :
               /\ <<v, i>> # <<w, j>> => task'[v][i] = task[v][i]
               /\ task'[v][i] # "none" => task[v][i] # "none"
               /\ AtWork(v, i)' => AtWork(v, i)
    <2>1. \A v \in Workers, i \in Jobs :
             task'[v][i] = IF v = w /\ i = j THEN pc ELSE task[v][i]
      BY <1>4 DEF TypeOK
    <2>. QED
      BY <1>4, <2>1 DEF AtWork
  <1>. QED
    BY <1>1, <1>2, <1>3, <1>4 DEF OnlyTheTable

LEMMA SubmitOwns ==
  ASSUME TypeOK, TypeOK', Ownership, NEW j \in Jobs, Submit(j)
  PROVE  Ownership'
  <1>1. /\ row[j].status = "absent"
        /\ row'[j].status = "queued" /\ row'[j].saved = row[j].saved
        /\ \A i \in Jobs \ {j} : row'[i] = row[i]
        /\ UNCHANGED <<loop, claim, task, doomed>>
    BY DEF Submit, Enqueued, TypeOK, Rows
  <1>. USE DEF Ownership
  <1>2. OneExecutor'
    BY <1>1 DEF OneExecutor, Engaged
  <1>3. ResultsOnce'
    BY <1>1 DEF ResultsOnce, NotStartedIsClean, Terminal
  <1>4. ClaimsHold'
    BY <1>1 DEF ClaimsHold, TypeOK
  <1>5. NotStartedIsClean'
    BY <1>1 DEF NotStartedIsClean
  <1>6. AtWorkIsUnpublished'
    BY <1>1 DEF AtWorkIsUnpublished, AtWork
  <1>7. (\A i \in Doomed : row[i].status # "absent")'
    BY <1>1 DEF Doomed, TypeOK
  <1>. QED
    BY <1>2, <1>3, <1>4, <1>5, <1>6, <1>7

LEMMA ClaimSelectOwns ==
  ASSUME TypeOK, TypeOK', Ownership, NEW w \in Workers, ClaimSelect(w)
  PROVE  Ownership'
  <1>0. PICK j \in Jobs : j \in Claimable /\ claim' = [claim EXCEPT ![w] = j]
    BY DEF ClaimSelect, Oldest
  <1>1. /\ row[j].status = "queued"
        /\ \A v \in Workers : claim[v] # j
        /\ j # NoJob
    BY <1>0, QueueAssumption DEF Claimable, Queued, Locked
  <1>2. /\ claim'[w] = j /\ loop'[w] = "commit"
        /\ \A v \in Workers \ {w} : claim'[v] = claim[v] /\ loop'[v] = loop[v]
        /\ UNCHANGED <<row, task, doomed>>
    BY <1>0 DEF ClaimSelect, TypeOK
  <1>. USE DEF Ownership
  <1>3. OneExecutor'
    <2>1. \A v \in Workers : task[v][j] = "none"
      BY <1>1 DEF NotStartedIsClean
    <2>. QED BY <1>1, <1>2, <2>1 DEF OneExecutor, Engaged
  <1>4. ClaimsHold'
    BY <1>1, <1>2 DEF ClaimsHold
  <1>5. ResultsOnce' /\ NotStartedIsClean' /\ AtWorkIsUnpublished'
    BY <1>2 DEF ResultsOnce, NotStartedIsClean, AtWorkIsUnpublished, AtWork
  <1>6. (\A i \in Doomed : row[i].status # "absent")'
    BY <1>2 DEF Doomed
  <1>. QED
    BY <1>3, <1>4, <1>5, <1>6

LEMMA ClaimCommitOwns ==
  ASSUME TypeOK, TypeOK', Ownership, NEW w \in Workers, ClaimCommit(w)
  PROVE  Ownership'
  <1> DEFINE j == claim[w]
  <1>0. j \in Jobs /\ j # NoJob /\ row[j].status = "queued"
    BY DEF ClaimCommit, Ownership, ClaimsHold, TypeOK
  <1>1. /\ \A v \in Workers : task[v][j] = "none"
        /\ row[j].saved = 0
        /\ \A v \in Workers \ {w} : claim[v] # j
    BY <1>0 DEF Ownership, NotStartedIsClean, OneExecutor, Engaged
  <1>2. /\ row'[j].status = "running" /\ row'[j].saved = row[j].saved
        /\ \A i \in Jobs \ {j} : row'[i] = row[i]
    BY <1>0 DEF ClaimCommit, Claimed, TypeOK, Rows
  <1>3. /\ task'[w][j] = "start"
        /\ \A v \in Workers, i \in Jobs : <<v, i>> # <<w, j>> => task'[v][i] = task[v][i]
    BY <1>0 DEF ClaimCommit, TypeOK
  <1>4. /\ claim'[w] = NoJob /\ loop'[w] = "refresh"
        /\ \A v \in Workers \ {w} : claim'[v] = claim[v] /\ loop'[v] = loop[v]
        /\ UNCHANGED doomed
    BY DEF ClaimCommit, TypeOK
  <1>. HIDE DEF j
  <1>. USE DEF Ownership
  <1>5. OneExecutor'
    BY <1>0, <1>1, <1>3, <1>4, QueueAssumption DEF OneExecutor, Engaged
  <1>6. ResultsOnce'
    BY <1>0, <1>1, <1>2 DEF ResultsOnce, Terminal
  <1>7. ClaimsHold'
    BY <1>0, <1>1, <1>2, <1>4 DEF ClaimsHold, TypeOK
  <1>8. NotStartedIsClean'
    BY <1>0, <1>2, <1>3 DEF NotStartedIsClean
  <1>9. AtWorkIsUnpublished'
    BY <1>0, <1>1, <1>2, <1>3 DEF AtWorkIsUnpublished, AtWork
  <1>10. (\A i \in Doomed : row[i].status # "absent")'
    BY <1>0, <1>2, <1>4 DEF Doomed, TypeOK
  <1>. QED
    BY <1>5, <1>6, <1>7, <1>8, <1>9, <1>10

LEMMA TaskSaveOwns ==
  ASSUME TypeOK, TypeOK', Ownership, NEW w \in Workers, NEW j \in Jobs, TaskSave(w, j)
  PROVE  Ownership'
  <1>1. /\ row[j].saved = 0 /\ row[j].status # "absent"
        /\ \A v \in Workers : claim[v] # j
        /\ \A v \in Workers \ {w} : task[v][j] = "none"
    <2>1. AtWork(w, j)
      BY DEF TaskSave, AtWork
    <2>2. Engaged(w, j)
      BY <2>1 DEF AtWork, Engaged
    <2>. QED
      BY <2>1, <2>2, FailingIsUnclaimed DEF Ownership, AtWorkIsUnpublished, OneExecutor, Engaged
  <1>2. /\ row'[j].status = "completed" /\ row'[j].saved = 1
        /\ \A i \in Jobs \ {j} : row'[i] = row[i]
    BY <1>1 DEF TaskSave, Completed, TypeOK, Rows
  <1>3. /\ task'[w][j] = "leaving"
        /\ \A v \in Workers, i \in Jobs : <<v, i>> # <<w, j>> => task'[v][i] = task[v][i]
        /\ UNCHANGED <<loop, claim, doomed>>
    BY DEF TaskSave, Goto, OnlyTheTable, TypeOK
  <1>. USE DEF Ownership
  <1>4. OneExecutor'
    BY <1>1, <1>3 DEF OneExecutor, Engaged, TaskSave
  <1>5. ResultsOnce'
    BY <1>2 DEF ResultsOnce, Terminal
  <1>6. ClaimsHold'
    BY <1>1, <1>2, <1>3 DEF ClaimsHold, TypeOK
  <1>7. NotStartedIsClean'
    BY <1>2, <1>3 DEF NotStartedIsClean
  <1>8. AtWorkIsUnpublished'
    BY <1>1, <1>2, <1>3 DEF AtWorkIsUnpublished, AtWork
  <1>9. (\A i \in Doomed : row[i].status # "absent")'
    BY <1>2, <1>3 DEF Doomed, TypeOK
  <1>. QED
    BY <1>4, <1>5, <1>6, <1>7, <1>8, <1>9

\* Every other step of a task keeps the verdict of each row, or fails the
\* row of its own job.
LEMMA TaskStepOwns ==
  ASSUME TypeOK, TypeOK', Ownership, NEW w \in Workers, NEW j \in Jobs, TaskStep(w, j)
  PROVE  Ownership'
  <1>1. CASE TaskSave(w, j)
    BY <1>1, TaskSaveOwns
  <1>2. CASE ~TaskSave(w, j)
    <2>1. \A i \in Jobs :
            /\ row'[i].saved = row[i].saved
            /\ \/ row'[i].status = row[i].status
               \/ /\ row'[i].status = "failed"
                  /\ row[i].status # "absent"
                  /\ \A v \in Workers : claim[v] # i
      <3>1. CASE TaskFail(w, j)
        <4>1. AtWork(w, j)
          BY <3>1 DEF TaskFail, AtWork
        <4>2. row[j].status # "absent" /\ \A v \in Workers : claim[v] # j
          BY <4>1, FailingIsUnclaimed
        <4>. QED
          BY <3>1, <4>2, RowEffects DEF TaskFail, TypeOK
      <3>2. CASE TaskLeave(w, j)
        BY <3>2 DEF TaskLeave, RefreshQueued, TypeOK, Rows
      <3>3. CASE TaskRaise(w, j) \/ TaskFailRaises(w, j)
        BY <3>3 DEF TaskRaise, TaskFailRaises
      <3>4. CASE TaskFetch(w, j) \/ TaskEngineStart(w, j) \/ TaskEngineBar(w, j) \/ TaskLlmStart(w, j)
        BY <3>4, RowEffects
           DEF TaskFetch, TaskEngineStart, TaskEngineBar, TaskLlmStart, TypeOK
      <3>. QED
        BY <1>2, <3>1, <3>2, <3>3, <3>4 DEF TaskStep, TaskAdvance
    <2>2. /\ UNCHANGED <<loop, claim, doomed>>
          /\ \A v \in Workers, i \in Jobs :
                /\ task'[v][i] # "none" => task[v][i] # "none"
                /\ AtWork(v, i)' => AtWork(v, i)
      BY TaskStepFrame
    <2>3. \A v \in Workers : claim'[v] \in {claim[v], NoJob}
                             /\ (loop'[v] = "commit" <=> claim'[v] # NoJob)
      BY <2>2 DEF Ownership, ClaimsHold
    <2>4. \A i \in Doomed' : row[i].status # "absent"
      BY <2>2 DEF Ownership, Doomed
    <2>. QED
      BY <2>1, <2>2, <2>3, <2>4, Frame
  <1>. QED
    BY <1>1, <1>2

\* The reaper's write fails rows it selected when they were queued or running,
\* and waits while one of them is locked.
LEMMA ReapUpdateOwns ==
  ASSUME TypeOK, TypeOK', Ownership, ReapUpdate
  PROVE  Ownership'
  <1>1. \A j \in Jobs :
            /\ row'[j].saved = row[j].saved
            /\ \/ row'[j].status = row[j].status
               \/ /\ row'[j].status = "failed"
                  /\ row[j].status # "absent"
                  /\ \A w \in Workers : claim[w] # j
    <2> SUFFICES ASSUME NEW j \in Jobs PROVE <1>1!(j)
      OBVIOUS
    <2>1. CASE j \in Doomed
      <3>1. row[j].status # "absent"
        BY <2>1 DEF Ownership
      <3>2. \A w \in Workers : claim[w] # j
        BY <2>1, QueueAssumption DEF ReapUpdate, Locked
      <3>3. row'[j].status = "failed" /\ row'[j].saved = row[j].saved
        BY <2>1, RowEffects DEF ReapUpdate, Doomed, TypeOK
      <3>. QED BY <3>1, <3>2, <3>3
    <2>2. CASE j \notin Doomed
      BY <2>2 DEF ReapUpdate, Doomed
    <2>. QED BY <2>1, <2>2
  <1>2. UNCHANGED <<loop, claim, task>> /\ Doomed' = {}
    BY DEF ReapUpdate, Doomed
  <1>3. \A w \in Workers : loop[w] = "commit" <=> claim[w] # NoJob
    BY DEF Ownership, ClaimsHold
  <1>4. \A w \in Workers, j \in Jobs : AtWork(w, j)' = AtWork(w, j)
    BY <1>2 DEF AtWork
  <1>. QED
    BY <1>1, <1>2, <1>3, <1>4, Frame

LEMMA OwnershipStep == TypeOK /\ TypeOK' /\ Ownership /\ [Next]_vars => Ownership'
  <1> SUFFICES ASSUME TypeOK, TypeOK', Ownership, [Next]_vars PROVE Ownership'
    OBVIOUS
  <1>0. /\ \A w \in Workers : loop[w] = "commit" <=> claim[w] # NoJob
        /\ \A j \in Doomed : row[j].status # "absent"
    BY DEF Ownership, ClaimsHold
  <1>1. ASSUME NEW j \in Jobs, Submit(j) PROVE Ownership'
    BY <1>1, SubmitOwns
  <1>2. ASSUME NEW w \in Workers, ClaimSelect(w) PROVE Ownership'
    BY <1>2, ClaimSelectOwns
  <1>3. ASSUME NEW w \in Workers, ClaimCommit(w) PROVE Ownership'
    BY <1>3, ClaimCommitOwns
  <1>4. ASSUME NEW w \in Workers, NEW j \in Jobs, TaskStep(w, j) PROVE Ownership'
    BY <1>4, TaskStepOwns
  <1>5. CASE ReapUpdate
    BY <1>5, ReapUpdateOwns
  <1>6. ASSUME NEW w \in Workers,
               LoopRefresh(w) \/ LoopSleep(w) \/ WorkerCrash(w) \/ WorkerRestart(w)
        PROVE  Ownership'
    <2>1. \A j \in Jobs : row'[j].saved = row[j].saved /\ row'[j].status = row[j].status
      BY <1>6 DEF LoopRefresh, LoopSleep, WorkerCrash, WorkerRestart, RefreshQueued, TypeOK, Rows
    <2>2. \A v \in Workers : claim'[v] \in {claim[v], NoJob}
                             /\ (loop'[v] = "commit" <=> claim'[v] # NoJob)
      BY <1>0, <1>6 DEF LoopRefresh, LoopSleep, WorkerCrash, WorkerRestart, TypeOK
    <2>3. \A v \in Workers, j \in Jobs : task'[v][j] \in {task[v][j], "none"}
      BY <1>6 DEF LoopRefresh, LoopSleep, WorkerCrash, WorkerRestart, TypeOK
    <2>4. Doomed' = Doomed
      BY <1>6 DEF LoopRefresh, LoopSleep, WorkerCrash, WorkerRestart, Doomed
    <2>. QED
      BY <1>0, <2>1, <2>2, <2>3, <2>4, Frame DEF AtWork
  <1>7. CASE ReapRunning \/ ReapQueued \/ ReaperCrash \/ ReaperRestart \/ Tick \/ UNCHANGED vars
    <2>1. \A j \in Jobs : row'[j].saved = row[j].saved /\ row'[j].status = row[j].status
      BY <1>7 DEF ReapRunning, ReapQueued, ReaperCrash, ReaperRestart, Tick, vars, TypeOK, Rows
    <2>2. UNCHANGED <<loop, claim, task>>
      BY <1>7 DEF ReapRunning, ReapQueued, ReaperCrash, ReaperRestart, Tick, vars
    <2>3. \A j \in Doomed' : row[j].status # "absent"
      BY <1>0, <1>7
         DEF ReapRunning, ReapQueued, ReaperCrash, ReaperRestart, Tick, vars, Doomed, Queued, TypeOK
    <2>. QED
      BY <1>0, <2>1, <2>2, <2>3, Frame DEF AtWork
  <1>. QED
    BY <1>1, <1>2, <1>3, <1>4, <1>5, <1>6, <1>7 DEF Next, LoopStep, ReaperStep

\* Ownership holds in every reachable state.
THEOREM OwnershipHolds == Spec => []Ownership
  <1>1. Init => Ownership
    BY QueueAssumption
       DEF Init, EmptyRow, Ownership, OneExecutor, ResultsOnce, ClaimsHold, NotStartedIsClean,
           AtWorkIsUnpublished, AtWork, Engaged, Doomed, Terminal
  <1>2. TypeOK /\ TypeOK' /\ Ownership /\ [Next]_vars => Ownership'
    BY OwnershipStep
  <1>. QED
    BY <1>1, <1>2, TypeCorrect, PTL DEF Spec

\* No two workers ever claim or execute the same job.
THEOREM ExecutorIsUnique == Spec => []OneExecutor
  <1>1. Ownership => OneExecutor
    BY DEF Ownership
  <1>. QED
    BY <1>1, OwnershipHolds, PTL

\* Results are stored at most once, and exactly for the jobs that completed.
THEOREM ResultsAreStoredOnce == Spec => []ResultsOnce
  <1>1. Ownership => ResultsOnce
    BY DEF Ownership
  <1>. QED
    BY <1>1, OwnershipHolds, PTL

-----------------------------------------------------------------------------
(* Capacity.  Only a claim raises the load of a worker, and only when there *)
(* is a free slot; the commit turns the claim into the task.                *)

Load(w) == Cardinality(Active(w)) + (IF claim[w] = NoJob THEN 0 ELSE 1)

LEMMA ActiveIsFinite ==
  ASSUME NEW w \in Workers
  PROVE  IsFiniteSet(Active(w)) /\ Cardinality(Active(w)) \in Nat
  <1>1. Active(w) \in SUBSET Jobs
    BY DEF Active
  <1>. QED
    BY <1>1, QueueAssumption, FS_Subset, FS_CardinalityType

LEMMA CapacityStep ==
  TypeOK /\ TypeOK' /\ Ownership /\ WithinCapacity /\ [Next]_vars => WithinCapacity'
  <1> SUFFICES ASSUME TypeOK, TypeOK', Ownership, WithinCapacity, [Next]_vars,
                      NEW w \in Workers
               PROVE  Load(w)' <= MaxConcurrent
    BY DEF WithinCapacity, Load
  <1>0. Load(w) <= MaxConcurrent
    BY DEF WithinCapacity, Load
  <1>f. /\ IsFiniteSet(Active(w)) /\ Cardinality(Active(w)) \in Nat
        /\ MaxConcurrent \in Nat
    BY ActiveIsFinite, QueueAssumption
  <1>1. ASSUME claim'[w] \in {claim[w], NoJob}, Active(w)' \subseteq Active(w)
        PROVE  Load(w)' <= MaxConcurrent
    <2>1. Cardinality(Active(w)') \in Nat /\ Cardinality(Active(w)') <= Cardinality(Active(w))
      BY <1>1, <1>f, FS_Subset, FS_CardinalityType
    <2>. QED
      BY <1>0, <1>1, <1>f, <2>1 DEF Load
  <1>2. ASSUME ClaimSelect(w) PROVE Load(w)' <= MaxConcurrent
    <2>1. Active(w)' = Active(w)
      BY <1>2 DEF ClaimSelect, Active
    <2>2. Cardinality(Active(w)) < MaxConcurrent
      BY <1>2 DEF ClaimSelect, HasSlot
    <2>. QED
      BY <1>f, <2>1, <2>2 DEF Load
  <1>3. ASSUME ClaimCommit(w) PROVE Load(w)' <= MaxConcurrent
    <2>1. claim[w] \in Jobs /\ claim[w] # NoJob
      BY <1>3 DEF ClaimCommit, Ownership, ClaimsHold, TypeOK
    <2>2. Active(w)' = Active(w) \cup {claim[w]} /\ claim'[w] = NoJob
      BY <1>3, <2>1 DEF ClaimCommit, Active, TypeOK
    <2>3. Cardinality(Active(w)') <= Cardinality(Active(w)) + 1 /\ Cardinality(Active(w)') \in Nat
      <3>1. Cardinality(Active(w) \cup {claim[w]})
              \in {Cardinality(Active(w)), Cardinality(Active(w)) + 1}
        BY <1>f, FS_AddElement
      <3>2. Cardinality(Active(w)') \in {Cardinality(Active(w)), Cardinality(Active(w)) + 1}
        BY <2>2, <3>1
      <3>. HIDE DEF Active
      <3>. QED BY <1>f, <3>2
    <2>. QED
      BY <1>0, <1>f, <2>1, <2>2, <2>3 DEF Load
  <1>4. ASSUME NEW v \in Workers \ {w}, ClaimSelect(v) \/ ClaimCommit(v)
        PROVE  Load(w)' <= MaxConcurrent
    <2>1. claim'[w] = claim[w] /\ task'[w] = task[w]
      BY <1>4 DEF ClaimSelect, ClaimCommit, TypeOK
    <2>. QED
      BY <1>1, <2>1 DEF Active
  <1>5. ASSUME NEW v \in Workers, NEW j \in Jobs, TaskStep(v, j)
        PROVE  Load(w)' <= MaxConcurrent
    BY <1>1, <1>5, TaskStepFrame DEF Active
  <1>6. ASSUME NEW v \in Workers,
               LoopRefresh(v) \/ LoopSleep(v) \/ WorkerCrash(v) \/ WorkerRestart(v)
        PROVE  Load(w)' <= MaxConcurrent
    <2>1. claim'[w] \in {claim[w], NoJob}
      BY <1>6 DEF LoopRefresh, LoopSleep, WorkerCrash, WorkerRestart, TypeOK
    <2>2. \A j \in Jobs : task'[w][j] \in {task[w][j], "none"}
      BY <1>6 DEF LoopRefresh, LoopSleep, WorkerCrash, WorkerRestart, TypeOK
    <2>. QED
      BY <1>1, <2>1, <2>2 DEF Active
  <1>7. CASE \/ ReaperStep \/ ReaperCrash \/ ReaperRestart \/ Tick \/ UNCHANGED vars
             \/ \E j \in Jobs : Submit(j)
    <2>1. UNCHANGED <<claim, task>>
      BY <1>7 DEF ReaperStep, ReapRunning, ReapQueued, ReapUpdate, ReaperCrash, ReaperRestart,
         Tick, vars, Submit
    <2>. QED
      BY <1>1, <2>1 DEF Active
  <1>. QED
    BY <1>2, <1>3, <1>4, <1>5, <1>6, <1>7 DEF Next, LoopStep

\* A worker process never runs more jobs than it is configured for.
THEOREM CapacityHolds == Spec => []WithinCapacity
  <1>1. Init => WithinCapacity
    <2> SUFFICES ASSUME Init, NEW w \in Workers PROVE Load(w) <= MaxConcurrent
      BY DEF WithinCapacity, Load
    <2>1. Active(w) = {} /\ claim[w] = NoJob
      BY DEF Init, Active
    <2>. QED
      BY <2>1, FS_EmptySet, QueueAssumption DEF Load
  <1>2. TypeOK /\ TypeOK' /\ Ownership /\ WithinCapacity /\ [Next]_vars => WithinCapacity'
    BY CapacityStep
  <1>. QED
    BY <1>1, <1>2, TypeCorrect, OwnershipHolds, PTL DEF Spec

-----------------------------------------------------------------------------
(* The queue implements the lifecycle.  A step of the queue maps to the     *)
(* lifecycle step named in the comment, or to a stutter.                    *)

LEMMA Stutters ==
  ASSUME \A j \in Jobs : row'[j].saved = row[j].saved /\ row'[j].status = row[j].status
  PROVE  UNCHANGED Lifecycle!vars
  BY DEF Lifecycle!vars

\* Failing a set of rows is giving up on it.
LEMMA GivesUp ==
  ASSUME NEW S \in SUBSET Jobs,
         \A j \in S : row[j].status # "absent",
         \A j \in Jobs : row'[j].saved = row[j].saved
                       /\ row'[j].status = IF j \in S THEN "failed" ELSE row[j].status
  PROVE  Lifecycle!Next
  <1>1. Lifecycle!GiveUp(S)
    BY DEF Lifecycle!GiveUp
  <1>. QED
    BY <1>1 DEF Lifecycle!Next

LEMMA LifecycleStep ==
  TypeOK /\ Ownership /\ [Next]_vars => [Lifecycle!Next]_(Lifecycle!vars)
  <1> SUFFICES ASSUME TypeOK, Ownership, [Next]_vars
               PROVE  Lifecycle!Next \/ UNCHANGED Lifecycle!vars
    OBVIOUS
  <1>1. ASSUME NEW j \in Jobs, Submit(j) PROVE Lifecycle!Enqueue(j)
    <2>1. /\ row[j].status = "absent" /\ row'[j].status = "queued"
          /\ row'[j].saved = row[j].saved /\ \A i \in Jobs \ {j} : row'[i] = row[i]
      BY <1>1 DEF Submit, Enqueued, TypeOK, Rows
    <2>. QED
      BY <2>1 DEF Lifecycle!Enqueue
  <1>2. ASSUME NEW w \in Workers, ClaimCommit(w), NEW j \in Jobs, j = claim[w]
        PROVE  Lifecycle!Start(j)
    <2>1. row[j].status = "queued"
      BY <1>2, QueueAssumption DEF Ownership, ClaimsHold
    <2>2. /\ row'[j].status = "running" /\ row'[j].saved = row[j].saved
          /\ \A i \in Jobs \ {j} : row'[i] = row[i]
      BY <1>2, <2>1 DEF ClaimCommit, Claimed, TypeOK, Rows
    <2>. QED
      BY <2>1, <2>2 DEF Lifecycle!Start
  <1>3. ASSUME NEW w \in Workers, NEW j \in Jobs, TaskSave(w, j) PROVE Lifecycle!Publish(j)
    <2>1. row[j].status \in {"running", "failed"} /\ row[j].saved = 0
      BY <1>3 DEF TaskSave, Ownership, AtWorkIsUnpublished, AtWork
    <2>2. /\ row'[j].status = "completed" /\ row'[j].saved = 1
          /\ \A i \in Jobs \ {j} : row'[i] = row[i]
      BY <1>3, <2>1 DEF TaskSave, Completed, TypeOK, Rows
    <2>3. {i \in Jobs : row'[i].saved > 0} = {i \in Jobs : row[i].saved > 0} \cup {j}
      BY <2>2
    <2>4. [i \in Jobs |-> row'[i].status]
            = [[i \in Jobs |-> row[i].status] EXCEPT ![j] = "completed"]
      BY <2>2
    <2>5. j \notin {i \in Jobs : row[i].saved > 0}
      BY <2>1
    <2>. QED
      BY <2>1, <2>3, <2>4, <2>5 DEF Lifecycle!Publish
  <1>4. ASSUME NEW w \in Workers, NEW j \in Jobs, TaskFail(w, j) PROVE Lifecycle!Next
    <2>1. row[j].status # "absent"
      BY <1>4 DEF TaskFail, Ownership, AtWorkIsUnpublished, AtWork
    <2>2. \A i \in Jobs : row'[i].saved = row[i].saved
             /\ row'[i].status = IF i \in {j} THEN "failed" ELSE row[i].status
      BY <1>4, RowEffects DEF TaskFail, TypeOK
    <2>. QED
      BY <2>1, <2>2, GivesUp
  <1>5. CASE ReapUpdate
    <2>1. Doomed \in SUBSET Jobs /\ \A j \in Doomed : row[j].status # "absent"
      BY DEF Ownership, Doomed, TypeOK
    <2>2. \A i \in Jobs : row'[i].saved = row[i].saved
             /\ row'[i].status = IF i \in Doomed THEN "failed" ELSE row[i].status
      BY <1>5, RowEffects DEF ReapUpdate, Doomed, TypeOK
    <2>. QED
      BY <2>1, <2>2, GivesUp
  <1>6. ASSUME NEW w \in Workers, NEW j \in Jobs, TaskStep(w, j), ~TaskSave(w, j), ~TaskFail(w, j)
        PROVE  UNCHANGED Lifecycle!vars
    <2>1. CASE TaskLeave(w, j)
      BY <2>1, Stutters DEF TaskLeave, RefreshQueued, TypeOK, Rows
    <2>2. CASE TaskRaise(w, j) \/ TaskFailRaises(w, j)
      BY <2>2, Stutters DEF TaskRaise, TaskFailRaises
    <2>3. CASE TaskFetch(w, j) \/ TaskEngineStart(w, j) \/ TaskEngineBar(w, j) \/ TaskLlmStart(w, j)
      <3>1. \A i \in Jobs : row'[i].saved = row[i].saved /\ row'[i].status = row[i].status
        BY <2>3, RowEffects
           DEF TaskFetch, TaskEngineStart, TaskEngineBar, TaskLlmStart, TypeOK
      <3>. QED BY <3>1, Stutters
    <2>. QED
      BY <1>6, <2>1, <2>2, <2>3 DEF TaskStep, TaskAdvance
  <1>7. ASSUME NEW w \in Workers,
               LoopRefresh(w) \/ LoopSleep(w) \/ ClaimSelect(w) \/ WorkerCrash(w) \/ WorkerRestart(w)
        PROVE  UNCHANGED Lifecycle!vars
    <2>1. \A i \in Jobs : row'[i].saved = row[i].saved /\ row'[i].status = row[i].status
      BY <1>7 DEF LoopRefresh, LoopSleep, ClaimSelect, WorkerCrash, WorkerRestart,
         RefreshQueued, TypeOK, Rows
    <2>. QED BY <2>1, Stutters
  <1>8. CASE ReapRunning \/ ReapQueued \/ ReaperCrash \/ ReaperRestart \/ Tick \/ UNCHANGED vars
    <2>1. \A i \in Jobs : row'[i].saved = row[i].saved /\ row'[i].status = row[i].status
      BY <1>8 DEF ReapRunning, ReapQueued, ReaperCrash, ReaperRestart, Tick, vars, TypeOK, Rows
    <2>. QED BY <2>1, Stutters
  <1>9. ASSUME NEW w \in Workers, ClaimCommit(w) PROVE Lifecycle!Next
    <2>1. claim[w] \in Jobs
      BY <1>9 DEF ClaimCommit, Ownership, ClaimsHold, TypeOK
    <2>2. PICK j \in Jobs : j = claim[w]
      BY <2>1
    <2>3. Lifecycle!Start(j)
      BY <1>2, <1>9, <2>2
    <2>. QED BY <2>3 DEF Lifecycle!Next
  <1>. QED
    BY <1>1, <1>3, <1>4, <1>5, <1>6, <1>7, <1>8, <1>9 DEF Next, LoopStep, ReaperStep, Lifecycle!Next

\* Every behaviour of the queue is one the lifecycle allows: started at most
\* once, published at most once, never put back.
THEOREM QueueImplementsLifecycle == Spec => ImplementsLifecycle
  <1>1. Init => Lifecycle!Init
    BY DEF Init, EmptyRow, Lifecycle!Init
  <1>2. TypeOK /\ Ownership /\ [Next]_vars => [Lifecycle!Next]_(Lifecycle!vars)
    BY LifecycleStep
  <1>. QED
    BY <1>1, <1>2, TypeCorrect, OwnershipHolds, PTL DEF Spec, ImplementsLifecycle, Lifecycle!Spec

-----------------------------------------------------------------------------
(* Heartbeats, failed rows and settled rows.                               *)

\* What a step writes into the row of a job: nothing, an insertion, a fresh
\* heartbeat, a claim, a report, a verdict, or a tick of the clock.
RowStep(j) ==
    \/ row'[j] = row[j]
    \/ row[j].status = "absent" /\ row'[j] = Enqueued(row[j])
    \/ row[j].status = "queued" /\ row'[j] = [row[j] EXCEPT !.beat = 0]
    \/ \E w \in Workers : /\ claim[w] = j /\ row[j].status = "queued"
                          /\ row'[j] = Claimed(row[j])
    \/ \E w \in Workers, phase \in Phases : task[w][j] # "none" /\ row'[j] = Beating(row[j], phase)
    \/ \E w \in Workers : task[w][j] = "llm" /\ row'[j] = Completed(row[j])
    \/ \E w \in Workers, why \in Errors : task[w][j] # "none" /\ row'[j] = Failed(row[j], why)
    \/ \E why \in Errors : j \in Doomed /\ row'[j] = Failed(row[j], why)
    \/ row'[j] = [row[j] EXCEPT !.beat = Older(@)]

LEMMA RowSteps ==
  ASSUME TypeOK, Ownership, [Next]_vars, NEW i \in Jobs
  PROVE  RowStep(i)
  <1>. USE DEF RowStep
  <1>1. ASSUME NEW j \in Jobs, Submit(j) PROVE RowStep(i)
    BY <1>1 DEF Submit, TypeOK
  <1>2. ASSUME NEW w \in Workers, LoopRefresh(w) PROVE RowStep(i)
    BY <1>2 DEF LoopRefresh, RefreshQueued, Queued
  <1>3. ASSUME NEW w \in Workers, ClaimCommit(w) PROVE RowStep(i)
    <2>1. claim[w] \in Jobs /\ row[claim[w]].status = "queued"
      BY <1>3 DEF ClaimCommit, Ownership, ClaimsHold, TypeOK
    <2>. QED BY <1>3, <2>1 DEF ClaimCommit, TypeOK
  <1>4. ASSUME NEW w \in Workers, NEW j \in Jobs, TaskStep(w, j) PROVE RowStep(i)
    <2>1. CASE TaskLeave(w, j)
      BY <2>1 DEF TaskLeave, RefreshQueued, Queued
    <2>2. CASE TaskRaise(w, j) \/ TaskFailRaises(w, j)
      BY <2>2 DEF TaskRaise, TaskFailRaises
    <2>3. CASE TaskFetch(w, j) \/ TaskEngineStart(w, j) \/ TaskEngineBar(w, j) \/ TaskLlmStart(w, j)
      <3>1. /\ task[w][j] # "none"
            /\ \E phase \in Phases : row' = [row EXCEPT ![j] = Beating(@, phase)]
        BY <2>3 DEF TaskFetch, TaskEngineStart, TaskEngineBar, TaskLlmStart, Phases
      <3>. QED BY <3>1 DEF TypeOK
    <2>4. CASE TaskSave(w, j)
      BY <2>4 DEF TaskSave, TypeOK
    <2>5. CASE TaskFail(w, j)
      BY <2>5 DEF TaskFail, TypeOK, Errors
    <2>. QED
      BY <1>4, <2>1, <2>2, <2>3, <2>4, <2>5 DEF TaskStep, TaskAdvance
  <1>5. CASE ReapUpdate
    BY <1>5 DEF ReapUpdate, Doomed, Errors
  <1>6. CASE Tick
    BY <1>6 DEF Tick
  <1>7. ASSUME UNCHANGED row PROVE RowStep(i)
    BY <1>7
  <1>. HIDE DEF RowStep
  <1>. QED
    BY <1>1, <1>2, <1>3, <1>4, <1>5, <1>6, <1>7
       DEF Next, LoopStep, ReaperStep, LoopSleep, ClaimSelect, WorkerCrash, WorkerRestart,
           ReapRunning, ReapQueued, ReaperCrash, ReaperRestart, vars

\* Every queued or running row has a heartbeat: the reaper never judges by the
\* creation time.
THEOREM RowsBeat == Spec => []ActiveRowsBeat
  <1>1. Init => ActiveRowsBeat
    BY DEF Init, EmptyRow, ActiveRowsBeat
  <1>2. TypeOK /\ Ownership /\ ActiveRowsBeat /\ [Next]_vars => ActiveRowsBeat'
    <2> SUFFICES ASSUME TypeOK, Ownership, ActiveRowsBeat, [Next]_vars, NEW j \in Jobs,
                        row'[j].status \in {"queued", "running"}
                 PROVE  row'[j].beat # NoBeat
      BY DEF ActiveRowsBeat
    <2>1. row[j] \in Rows /\ (row[j].status \in {"queued", "running"} => row[j].beat # NoBeat)
      BY DEF TypeOK, ActiveRowsBeat
    <2>2. 0 # NoBeat /\ \A b \in 0..BeatCap : Older(b) # NoBeat
      BY QueueAssumption, CapFacts DEF Older
    <2>3. row[j].beat \in 0..BeatCap \/ row[j].beat = NoBeat
      BY <2>1 DEF Rows
    <2>. HIDE DEF Older
    <2>4. CASE row'[j] = [row[j] EXCEPT !.beat = Older(@)]
      BY <2>1, <2>2, <2>3, <2>4 DEF Rows
    <2>5. CASE row'[j] # [row[j] EXCEPT !.beat = Older(@)]
      BY <2>1, <2>2, <2>5, RowSteps
         DEF RowStep, Enqueued, Claimed, Beating, Completed, Failed, Rows
    <2>. QED
      BY <2>4, <2>5
  <1>. QED
    BY <1>1, <1>2, TypeCorrect, OwnershipHolds, PTL DEF Spec

\* A failed row leaves that status only by the save of the task that was running
\* it all along.
THEOREM FailedRunsAreNotRepeated == Spec => NoResurrection
  <1>1. TypeOK /\ Ownership /\ [Next]_vars =>
          \A j \in Jobs :
             row[j].status = "failed" /\ row'[j].status # "failed" =>
                 /\ row'[j].status = "completed"
                 /\ \E w \in Workers : task[w][j] = "llm"
    <2> SUFFICES ASSUME TypeOK, Ownership, [Next]_vars, NEW j \in Jobs,
                        row[j].status = "failed", row'[j].status # "failed"
                 PROVE  /\ row'[j].status = "completed"
                        /\ \E w \in Workers : task[w][j] = "llm"
      OBVIOUS
    <2>1. row[j] \in Rows
      BY DEF TypeOK
    <2>. QED
      BY <2>1, RowSteps DEF RowStep, Beating, Completed, Failed, Rows
  <1>. QED
    BY <1>1, TypeCorrect, OwnershipHolds, PTL DEF Spec, NoResurrection

\* Once its final status is written, nobody works on it and the reaper does not
\* hold its id, a row is never written again: all later writes are by id, so
\* this rests on who can still hold the id.
THEOREM SettledRowsStay == Spec => SettledForever
  <1>1. TypeOK /\ Ownership /\ [Next]_vars =>
          \A j \in Jobs : Settled(j) =>
             /\ Settled(j)'
             /\ row'[j] \in {row[j], [row[j] EXCEPT !.beat = Older(@)]}
    <2> SUFFICES ASSUME TypeOK, Ownership, [Next]_vars, NEW j \in Jobs, Settled(j)
                 PROVE  /\ Settled(j)'
                        /\ row'[j] \in {row[j], [row[j] EXCEPT !.beat = Older(@)]}
      OBVIOUS
    <2>1. /\ row[j] \in Rows /\ row[j].status \in Terminal /\ j \notin Doomed
          /\ \A w \in Workers : claim[w] # j /\ task[w][j] = "none"
      BY DEF Settled, Engaged, TypeOK
    <2>2. row'[j] \in {row[j], [row[j] EXCEPT !.beat = Older(@)]}
      BY <2>1, RowSteps DEF RowStep, Terminal
    <2>3. row'[j].status \in Terminal
      BY <2>1, <2>2 DEF Rows
    <2>4. \A w \in Workers : claim'[w] # j /\ task'[w][j] = "none"
      <3>1. ASSUME NEW w \in Workers, ClaimSelect(w)
            PROVE  \A v \in Workers : claim'[v] # j /\ task'[v][j] = "none"
        <4>1. \E k \in Jobs : k # j /\ claim' = [claim EXCEPT ![w] = k]
          BY <2>1, <3>1 DEF ClaimSelect, Oldest, Claimable, Queued, Terminal
        <4>. QED BY <2>1, <3>1, <4>1 DEF ClaimSelect, TypeOK
      <3>2. ASSUME NEW w \in Workers, ClaimCommit(w)
            PROVE  \A v \in Workers : claim'[v] # j /\ task'[v][j] = "none"
        <4>1. j # NoJob
          BY QueueAssumption
        <4>. QED BY <2>1, <3>2, <4>1 DEF ClaimCommit, TypeOK
      <3>3. ASSUME NEW w \in Workers, NEW k \in Jobs, TaskStep(w, k)
            PROVE  \A v \in Workers : claim'[v] # j /\ task'[v][j] = "none"
        BY <2>1, <3>3, TaskStepFrame
      <3>4. ASSUME NEW w \in Workers, WorkerCrash(w)
            PROVE  \A v \in Workers : claim'[v] # j /\ task'[v][j] = "none"
        BY <2>1, <3>4, QueueAssumption DEF WorkerCrash, TypeOK
      <3>5. ASSUME UNCHANGED <<claim, task>>
            PROVE  \A v \in Workers : claim'[v] # j /\ task'[v][j] = "none"
        BY <2>1, <3>5
      <3>. QED
        BY <3>1, <3>2, <3>3, <3>4, <3>5
           DEF Next, LoopStep, ReaperStep, Submit, LoopRefresh, LoopSleep, WorkerRestart,
               ReapRunning, ReapQueued, ReapUpdate, ReaperCrash, ReaperRestart, Tick, vars
    <2>5. j \notin Doomed'
      <3>1. CASE ReapRunning \/ ReapQueued
        BY <2>1, <3>1 DEF ReapRunning, ReapQueued, Doomed, Queued, Terminal, TypeOK
      <3>2. CASE ReapUpdate \/ ReaperCrash
        BY <3>2 DEF ReapUpdate, ReaperCrash, Doomed
      <3>3. CASE UNCHANGED doomed
        BY <2>1, <3>3 DEF Doomed
      <3>4. ASSUME NEW w \in Workers, NEW k \in Jobs, TaskStep(w, k) PROVE UNCHANGED doomed
        BY <3>4, TaskStepFrame
      <3>. QED
        BY <3>1, <3>2, <3>3, <3>4
           DEF Next, LoopStep, ReaperStep, Submit, LoopRefresh, LoopSleep, ClaimSelect, ClaimCommit,
               WorkerCrash, WorkerRestart, ReaperRestart, Tick, vars
    <2>. QED
      BY <2>2, <2>3, <2>4, <2>5 DEF Settled, Engaged
  <1>. QED
    BY <1>1, TypeCorrect, OwnershipHolds, PTL DEF Spec, SettledForever
=============================================================================
