----------------------- MODULE StrategySchedulerProofs -----------------------
(***************************************************************************)
(* Proofs about LeaderLock and StrategyScheduler, for any set of API       *)
(* processes and any number of crashes and lost connections.               *)
(*                                                                         *)
(* The scheduler is built on the leader lock: it is shown to implement     *)
(* LeaderSpec, which hands it what is proved of that.  Hot reload is       *)
(* proved for any deployment, whatever start-ups and reloads raise: what   *)
(* the leader may miss is what the history variable "missed" holds.        *)
(***************************************************************************)
EXTENDS StrategyScheduler, TLAPS

-----------------------------------------------------------------------------
(* The leader lock.  OneLeader itself says nothing about the lock, so it is *)
(* not inductive: LeaderHoldsLock is, and two processes at work would both  *)
(* be the one the lock names.                                               *)

\* Every variable keeps its type: nothing outside the phases of lifespan.
THEOREM LeaderTypeCorrect == LeaderSpec => []LeaderTypeOK
<1>1. LeaderInit => LeaderTypeOK
  BY LeaderAssumption DEF LeaderInit, LeaderTypeOK, Phases
<1>2. LeaderTypeOK /\ [LeaderNext]_leaderVars => LeaderTypeOK'
  <2> SUFFICES ASSUME LeaderTypeOK, [LeaderNext]_leaderVars PROVE LeaderTypeOK'
    OBVIOUS
  <2> USE LeaderAssumption DEF LeaderTypeOK, Phases
  <2>1. ASSUME NEW a \in Apis, Acquire(a) PROVE LeaderTypeOK'
    BY <2>1 DEF Acquire
  <2>2. ASSUME NEW a \in Apis, Follow(a) PROVE LeaderTypeOK'
    BY <2>2 DEF Follow
  <2>3. ASSUME NEW a \in Apis, Lead(a) PROVE LeaderTypeOK'
    BY <2>3 DEF Lead
  <2>4. ASSUME NEW a \in Apis, StartFails(a) PROVE LeaderTypeOK'
    BY <2>4 DEF StartFails, Freed
  <2>5. ASSUME NEW a \in Apis, StopWork(a) PROVE LeaderTypeOK'
    BY <2>5 DEF StopWork, Serving
  <2>6. ASSUME NEW a \in Apis, Unlock(a) PROVE LeaderTypeOK'
    BY <2>6 DEF Unlock, Freed
  <2>7. ASSUME NEW a \in Apis, Crash(a) PROVE LeaderTypeOK'
    BY <2>7 DEF Crash, Freed
  <2>8. CASE DropConnection
    BY <2>8 DEF DropConnection
  <2>9. CASE UNCHANGED leaderVars
    BY <2>9 DEF leaderVars
  <2> QED
    BY <2>1, <2>2, <2>3, <2>4, <2>5, <2>6, <2>7, <2>8, <2>9 DEF LeaderNext
<1> QED
  BY <1>1, <1>2, PTL DEF LeaderSpec

\* While no connection was lost, the process between pg_try_advisory_lock and
\* pg_advisory_unlock is the one whose connection holds the lock.
THEOREM LeaderLockIsHeld == LeaderSpec => []LeaderHoldsLock
<1>1. LeaderInit => LeaderHoldsLock
  BY DEF LeaderInit, LeaderHoldsLock
<1>2. LeaderTypeOK /\ LeaderHoldsLock /\ [LeaderNext]_leaderVars => LeaderHoldsLock'
  <2> SUFFICES ASSUME LeaderTypeOK, LeaderHoldsLock, [LeaderNext]_leaderVars, drops' = 0,
                      NEW b \in Apis, phase'[b] \in {"starting", "leading", "stopping"}
               PROVE  lock' = b
    BY DEF LeaderHoldsLock
  <2> USE LeaderAssumption DEF LeaderTypeOK, LeaderHoldsLock
  <2>1. ASSUME NEW a \in Apis, Acquire(a) PROVE lock' = b
    BY <2>1 DEF Acquire
  <2>2. ASSUME NEW a \in Apis, Follow(a) PROVE lock' = b
    BY <2>2 DEF Follow
  <2>3. ASSUME NEW a \in Apis, Lead(a) PROVE lock' = b
    BY <2>3 DEF Lead
  <2>4. ASSUME NEW a \in Apis, StartFails(a) PROVE lock' = b
    BY <2>4 DEF StartFails, Freed
  <2>5. ASSUME NEW a \in Apis, StopWork(a) PROVE lock' = b
    BY <2>5 DEF StopWork, Serving
  <2>6. ASSUME NEW a \in Apis, Unlock(a) PROVE lock' = b
    BY <2>6 DEF Unlock, Freed
  <2>7. ASSUME NEW a \in Apis, Crash(a) PROVE lock' = b
    BY <2>7 DEF Crash, Freed
  <2>8. CASE DropConnection
    BY <2>8 DEF DropConnection
  <2>9. CASE UNCHANGED leaderVars
    BY <2>9 DEF leaderVars
  <2> QED
    BY <2>1, <2>2, <2>3, <2>4, <2>5, <2>6, <2>7, <2>8, <2>9 DEF LeaderNext
<1> QED
  BY <1>1, <1>2, LeaderTypeCorrect, PTL DEF LeaderSpec

\* The promise of core/leader_lock.py, as long as the database keeps the
\* leader's connection: at most one process runs the background tasks.
THEOREM LeaderIsUnique == LeaderSpec => []OneLeaderWhileConnected
<1>1. LeaderHoldsLock => OneLeaderWhileConnected
  BY DEF LeaderHoldsLock, OneLeaderWhileConnected, OneLeader
<1> QED
  BY <1>1, LeaderLockIsHeld, PTL

-----------------------------------------------------------------------------
(* The scheduler implements the leader lock.                               *)

\* Every process life is a life LeaderLock allows: handlers, reloads and runs
\* never touch the lock.
THEOREM SchedulerImplementsLeaderLock == Spec => LeaderSpec
<1>1. Init => LeaderInit
  BY DEF Init
<1>2. [Next]_vars => [LeaderNext]_leaderVars
  <2> SUFFICES ASSUME [Next]_vars PROVE [LeaderNext]_leaderVars
    OBVIOUS
  <2>1. ASSUME NEW a \in Apis, Boot(a) PROVE [LeaderNext]_leaderVars
    BY <2>1 DEF Boot, Start, StartupSelect, StartupRegister, StartupRaises, LeaderNext
  <2>2. ASSUME NEW a \in Apis, Shutdown(a) \/ Release(a) \/ Die(a)
        PROVE  [LeaderNext]_leaderVars
    BY <2>2 DEF Shutdown, Release, Die, LeaderNext
  <2>3. CASE LoseConnection
    BY <2>3 DEF LoseConnection, LeaderNext
  <2>4. ASSUME NEW r \in Requests, NEW a \in Apis, NEW u \in Users,
               AddStrategy(r, a, u) \/ Update(r, a, u) \/ Remove(r, a, u)
        PROVE  [LeaderNext]_leaderVars
    BY <2>4 DEF AddStrategy, Update, Remove
  <2>5. ASSUME NEW r \in Requests, RequestStep(r) PROVE [LeaderNext]_leaderVars
    BY <2>5 DEF RequestStep, CommitUpdate, CommitRemove, SkipReload, ReloadRemove,
                ReloadSelect, ReloadFails, ReloadRegister, ReloadRaises
  <2>6. ASSUME NEW a \in Apis, NEW k \in Keys,
               Fire(a, k) \/ LoadGroup(a, k) \/ SaveSignals(a, k) \/ RunFails(a, k)
        PROVE  [LeaderNext]_leaderVars
    BY <2>6 DEF Fire, LoadGroup, SaveSignals, RunFails
  <2>7. CASE UNCHANGED vars
    BY <2>7 DEF vars
  <2> QED
    BY <2>1, <2>2, <2>3, <2>4, <2>5, <2>6, <2>7 DEF Next
<1> QED
  BY <1>1, <1>2, PTL DEF Spec, LeaderSpec

-----------------------------------------------------------------------------
(* Types.                                                                  *)

\* What the fields of a handler are, from the statement it is at.
LEMMA HandlerFields ==
  ASSUME NEW h \in Handlers
  PROVE  /\ h.pc \notin {"idle", "done"} => h.api \in Apis
         /\ h.pc \in {"put", "delete", "added", "refresh"} => h.user \in Users /\ h.loaded \in Rows
         /\ h.pc = "put" => h.active \in BOOLEAN /\ h.key \in Keys
         /\ h.pc = "register" => h.found \subseteq Keys
BY DEF Handlers

\* What the steps of a run do to its record.
LEMMA RunUpdates ==
  ASSUME NEW x \in Runs, NEW S \in SUBSET Users
  PROVE  /\ [x EXCEPT !.since = @ \cup S] \in Runs
         /\ x.since \in SUBSET Users /\ x.left \in SUBSET Users
         /\ x.left \ S # {} =>
               [pc |-> "save", left |-> x.left \ S, since |-> x.since] \in Runs
         /\ S # {} => [pc |-> "save", left |-> S, since |-> x.since] \in Runs
         /\ [pc |-> "load", left |-> {}, since |-> S] \in Runs
<1>1. [x EXCEPT !.since = @ \cup S] = [pc |-> x.pc, left |-> x.left, since |-> x.since \cup S]
  BY DEF Runs
<1>2. x.since \in SUBSET Users /\ x.left \in SUBSET Users
  BY DEF Runs
<1>3. [x EXCEPT !.since = @ \cup S] \in Runs
  BY <1>1, <1>2 DEF Runs
<1>4. x.left \ S # {} => [pc |-> "save", left |-> x.left \ S, since |-> x.since] \in Runs
  BY <1>2 DEF Runs
<1>5. ASSUME S # {} PROVE [pc |-> "save", left |-> S, since |-> x.since] \in Runs
  <2>1. S \in (SUBSET Users) \ {{}}
    BY <1>5
  <2>2. [pc |-> "save", left |-> S, since |-> x.since] \in
           [pc : {"save"}, left : (SUBSET Users) \ {{}}, since : SUBSET Users]
    BY <2>1, <1>2
  <2> QED
    BY <2>2 DEF Runs
<1>6. [pc |-> "load", left |-> {}, since |-> S] \in Runs
  BY DEF Runs
<1> QED
  BY <1>2, <1>3, <1>4, <1>5, <1>6

\* Every variable keeps its type.
THEOREM SchedulerTypeCorrect == Spec => []TypeOK
<1> USE LeaderAssumption, SchedulerAssumption
<1>1. Init => TypeOK
  <2> SUFFICES ASSUME Init PROVE TypeOK
    OBVIOUS
  <2>1. LeaderTypeOK
    BY DEF Init, LeaderInit, LeaderTypeOK, Phases
  <2>2. row \in [Users -> Rows]
    <3>1. StoredRows \subseteq Rows
      <4>1. \A k \in Keys : [id |-> 0, there |-> FALSE, active |-> FALSE, key |-> k] \in Rows
        BY DEF Rows
      <4>2. \A b \in BOOLEAN, k \in Keys :
               [id |-> 1, there |-> TRUE, active |-> b, key |-> k] \in Rows
        BY DEF Rows
      <4> QED
        BY <4>1, <4>2 DEF StoredRows
    <3> QED
      BY <3>1 DEF Init
  <2> QED
    BY <2>1, <2>2 DEF Init, TypeOK, Startups, NotRead, Handlers, Idle, Runs, NotRunning
<1>2. LeaderTypeOK' /\ TypeOK /\ [Next]_vars => TypeOK'
  <2> SUFFICES ASSUME LeaderTypeOK', TypeOK, [Next]_vars PROVE TypeOK'
    OBVIOUS
  <2>m. \A k \in Keys : Members(k) \in SUBSET Users /\ Members(k)' \in SUBSET Users
    BY DEF Members
  <2>g. Groups \in SUBSET Keys
    BY DEF Groups
  <2>1. ASSUME NEW a \in Apis, Boot(a), ~StartupRaises(a) PROVE TypeOK'
    <3>1. CASE Start(a)
      BY <3>1 DEF Start, TypeOK
    <3>2. CASE StartupSelect(a)
      BY <3>2, <2>g DEF StartupSelect, TypeOK, Startups
    <3>3. CASE StartupRegister(a)
      <4>1. startup[a].groups \in SUBSET Keys
        BY DEF TypeOK, Startups
      <4> QED
        BY <3>3, <4>1 DEF StartupRegister, TypeOK, Startups, NotRead
    <3> QED
      BY <2>1, <3>1, <3>2, <3>3 DEF Boot
  <2>2. ASSUME NEW a \in Apis, Shutdown(a) \/ Die(a) \/ StartupRaises(a) PROVE TypeOK'
    <3>1. Lost(a)
      BY <2>2 DEF Shutdown, Die, StartupRaises
    <3>2. Done \in Handlers /\ NotRead \in Startups /\ NotRunning \in Runs
      BY DEF Done, Handlers, NotRead, Startups, NotRunning, Runs
    <3>3. request' \in [Requests -> Handlers]
      BY <3>1, <3>2 DEF Lost, TypeOK
    <3>4. run' \in [Apis -> [Keys -> Runs]]
      BY <3>1, <3>2 DEF Lost, TypeOK
    <3> QED
      BY <3>1, <3>2, <3>3, <3>4 DEF Lost, TypeOK
  <2>3. ASSUME NEW a \in Apis, Release(a) PROVE TypeOK'
    BY <2>3 DEF Release, TypeOK
  <2>4. CASE LoseConnection
    BY <2>4 DEF LoseConnection, TypeOK
  <2>5. ASSUME NEW r \in Requests, NEW a \in Apis, NEW u \in Users, AddStrategy(r, a, u)
        PROVE  TypeOK'
    BY <2>5 DEF AddStrategy, TypeOK, Handlers, Done, Rows
  <2>6. ASSUME NEW r \in Requests, NEW a \in Apis, NEW u \in Users, Update(r, a, u)
        PROVE  TypeOK'
    BY <2>6 DEF Update, TypeOK, Handlers
  <2>7. ASSUME NEW r \in Requests, NEW a \in Apis, NEW u \in Users, Remove(r, a, u)
        PROVE  TypeOK'
    BY <2>7 DEF Remove, TypeOK, Handlers
  <2>8. ASSUME NEW r \in Requests, CommitUpdate(r) PROVE TypeOK'
    <3> DEFINE h == request[r]
    <3>1. h \in Handlers /\ h.pc = "put"
      BY <2>8 DEF CommitUpdate, TypeOK
    <3>2. h.api \in Apis /\ h.user \in Users /\ h.loaded \in Rows
          /\ h.active \in BOOLEAN /\ h.key \in Keys
      BY <3>1, HandlerFields
    <3>3. Written(h) \in Rows
      BY <3>2 DEF Written, TypeOK, Rows
    <3>4. row' \in [Users -> Rows]
      BY <2>8, <3>3 DEF CommitUpdate, TypeOK
    <3>5. [pc |-> "refresh", api |-> h.api, user |-> h.user, loaded |-> h.loaded] \in Handlers
      BY <3>2 DEF Handlers
    <3>6. Done \in Handlers
      BY DEF Done, Handlers
    <3>7. request' \in [Requests -> Handlers]
      <4>1. CASE StillThere(h) /\ HasScheduler(h.api)
        BY <2>8, <3>5, <4>1 DEF CommitUpdate, TypeOK
      <4>2. CASE ~(StillThere(h) /\ HasScheduler(h.api))
        BY <2>8, <3>6, <4>2 DEF CommitUpdate, TypeOK
      <4> QED
        BY <4>1, <4>2
    <3>8. run' \in [Apis -> [Keys -> Runs]]
      <4>1. ASSUME NEW a \in Apis, NEW k \in Keys
            PROVE  [run[a][k] EXCEPT !.since = @ \cup Members(k)'] \in Runs
        <5>1. run[a][k] \in Runs
          BY DEF TypeOK
        <5> QED
          BY <2>m, <5>1, RunUpdates
      <4> QED
        BY <2>8, <4>1 DEF CommitUpdate, Witnessed, TypeOK
    <3>9. missed' \in [Apis -> SUBSET Users]
      <4>1. ASSUME NEW a \in Apis PROVE missed[a] \cup {h.user} \in SUBSET Users
        BY <3>2 DEF TypeOK
      <4> QED
        BY <2>8, <4>1 DEF CommitUpdate, MissedBy, TypeOK
    <3> QED
      BY <2>8, <3>4, <3>7, <3>8, <3>9 DEF CommitUpdate, TypeOK
  <2>9. ASSUME NEW r \in Requests, CommitRemove(r) PROVE TypeOK'
    <3>1. request[r].api \in Apis /\ request[r].user \in Users
      BY <2>9, HandlerFields DEF CommitRemove, TypeOK
    <3>2. [pc |-> "reload", api |-> request[r].api] \in Handlers /\ Done \in Handlers
      BY <3>1 DEF Handlers, Done
    <3>3. request' \in [Requests -> Handlers]
      BY <2>9, <3>2 DEF CommitRemove, TypeOK
    <3>4. row' \in [Users -> Rows]
      <4>1. [id |-> row[request[r].user].id, there |-> FALSE, active |-> FALSE,
             key |-> row[request[r].user].key] \in Rows
        BY <3>1 DEF TypeOK, Rows
      <4> QED
        BY <2>9, <3>1, <4>1 DEF CommitRemove, TypeOK
    <3> QED
      BY <2>9, <3>3, <3>4 DEF CommitRemove, TypeOK
  <2>10. ASSUME NEW r \in Requests,
                SkipReload(r) \/ ReloadRemove(r) \/ ReloadSelect(r)
                \/ ReloadFails(r) \/ ReloadRegister(r) \/ ReloadRaises(r)
         PROVE  TypeOK'
    <3>0. request[r] \in Handlers /\ request[r].pc \notin {"idle", "done"}
      BY <2>10 DEF SkipReload, ReloadRemove, RefreshReloads, ReloadSelect, ReloadFails,
                   ReloadRegister, ReloadRaises, TypeOK
    <3>1. request[r].api \in Apis /\ (request[r].pc = "register" => request[r].found \subseteq Keys)
      BY <3>0, HandlerFields
    <3>2. request' \in [Requests -> Handlers]
      <4>1. /\ Done \in Handlers
            /\ [pc |-> "select", api |-> request[r].api] \in Handlers
            /\ [pc |-> "register", api |-> request[r].api, found |-> Groups] \in Handlers
        BY <2>g, <3>1 DEF Handlers, Done
      <4>2. \E h \in Handlers : request' = [request EXCEPT ![r] = h]
        BY <2>10, <4>1 DEF SkipReload, ReloadRemove, ReloadSelect, ReloadFails, ReloadRegister,
                           ReloadRaises
      <4> QED
        BY <4>2 DEF TypeOK
    <3> QED
      BY <2>10, <3>1, <3>2
      DEF SkipReload, ReloadRemove, ReloadSelect, ReloadFails, ReloadRegister,
          ReloadRaises, TypeOK
  <2>11. ASSUME NEW a \in Apis, NEW k \in Keys,
                Fire(a, k) \/ LoadGroup(a, k) \/ SaveSignals(a, k) \/ RunFails(a, k)
         PROVE  TypeOK'
    <3>n. NotRunning \in Runs
      BY DEF NotRunning, Runs
    <3>1. run' \in [Apis -> [Keys -> Runs]]
      <4>r. run[a][k] \in Runs
        BY DEF TypeOK
      <4>1. CASE Fire(a, k)
        BY <4>1, <2>m, <4>r, RunUpdates DEF Fire, TypeOK
      <4>2. CASE LoadGroup(a, k)
        BY <4>2, <2>m, <3>n, <4>r, RunUpdates DEF LoadGroup, TypeOK
      <4>3. CASE SaveSignals(a, k)
        <5>1. PICK u \in run[a][k].left :
                run' = [run EXCEPT ![a][k] =
                    IF @.left = {u} THEN NotRunning
                    ELSE [pc |-> "save", left |-> @.left \ {u}, since |-> @.since]]
          BY <4>3 DEF SaveSignals
        <5>2. {u} \in SUBSET Users
          BY <4>r, <5>1 DEF Runs
        <5>3. run[a][k].left # {u} =>
                 [pc |-> "save", left |-> run[a][k].left \ {u}, since |-> run[a][k].since] \in Runs
          <6>1. run[a][k].left # {u} => run[a][k].left \ {u} # {}
            BY <5>1
          <6> QED
            BY <5>2, <6>1, <4>r, RunUpdates
        <5>4. PICK v \in Runs : run' = [run EXCEPT ![a][k] = v]
          BY <5>1, <5>3, <3>n
        <5> QED
          BY <5>4 DEF TypeOK
      <4>4. CASE RunFails(a, k)
        BY <4>4, <3>n DEF RunFails, TypeOK
      <4> QED
        BY <2>11, <4>1, <4>2, <4>3, <4>4
    <3> QED
      BY <2>11, <3>1 DEF Fire, LoadGroup, SaveSignals, RunFails, TypeOK
  <2>12. CASE UNCHANGED vars
    BY <2>12 DEF vars, TypeOK, Members
  <2> QED
    BY <2>1, <2>2, <2>3, <2>4, <2>5, <2>6, <2>7, <2>8, <2>9, <2>10, <2>11, <2>12
    DEF Next, Boot, RequestStep
<1> QED
  BY <1>1, <1>2, SchedulerImplementsLeaderLock, LeaderTypeCorrect, PTL DEF Spec

-----------------------------------------------------------------------------
(* Runs.                                                                   *)

\* Stopping or losing a process ends its runs, so a run that goes on has the
\* scheduler of a leader under it.
THEOREM RunsHaveLeader == Spec => []RunsBelongToLeader
<1>1. Init => RunsBelongToLeader
  BY DEF Init, NotRunning, RunsBelongToLeader
<1>2. TypeOK /\ RunsBelongToLeader /\ [Next]_vars => RunsBelongToLeader'
  <2> SUFFICES ASSUME TypeOK, RunsBelongToLeader, [Next]_vars,
                      NEW b \in Apis, NEW j \in Keys, run'[b][j].pc # "idle"
               PROVE  phase'[b] = "leading"
    BY DEF RunsBelongToLeader
  <2> USE DEF RunsBelongToLeader, TypeOK, LeaderTypeOK
  <2>1. ASSUME NEW a \in Apis, Start(a) \/ StartupSelect(a) \/ StartupRegister(a) PROVE phase'[b] = "leading"
    BY <2>1 DEF Start, StartupSelect, StartupRegister, Acquire, Follow, Lead, leaderVars
  <2>2. ASSUME NEW a \in Apis, Shutdown(a) PROVE phase'[b] = "leading"
    BY <2>2 DEF Shutdown, Lost, NotRunning, StopWork
  <2>3. ASSUME NEW a \in Apis, Die(a) \/ StartupRaises(a) PROVE phase'[b] = "leading"
    BY <2>3 DEF Die, StartupRaises, Lost, NotRunning, Crash, StartFails
  <2>4. ASSUME NEW a \in Apis, Release(a) PROVE phase'[b] = "leading"
    BY <2>4 DEF Release, Unlock
  <2>5. CASE LoseConnection
    BY <2>5 DEF LoseConnection, DropConnection
  <2>6. ASSUME NEW r \in Requests, NEW a \in Apis, NEW u \in Users,
               AddStrategy(r, a, u) \/ Update(r, a, u) \/ Remove(r, a, u)
        PROVE  phase'[b] = "leading"
    BY <2>6 DEF AddStrategy, Update, Remove, leaderVars
  <2>7. ASSUME NEW r \in Requests, CommitUpdate(r) PROVE phase'[b] = "leading"
    <3>1. run[b][j].pc # "idle"
      BY <2>7 DEF CommitUpdate, Witnessed
    <3> QED
      BY <2>7, <3>1 DEF CommitUpdate, leaderVars
  <2>8. ASSUME NEW r \in Requests,
               CommitRemove(r) \/ SkipReload(r) \/ ReloadRemove(r) \/ ReloadSelect(r)
               \/ ReloadFails(r) \/ ReloadRegister(r) \/ ReloadRaises(r)
        PROVE  phase'[b] = "leading"
    BY <2>8 DEF CommitRemove, SkipReload, ReloadRemove, ReloadSelect, ReloadFails,
                ReloadRegister, ReloadRaises, leaderVars
  <2>9. ASSUME NEW a \in Apis, NEW k \in Keys,
               Fire(a, k) \/ LoadGroup(a, k) \/ SaveSignals(a, k) \/ RunFails(a, k)
        PROVE  phase'[b] = "leading"
    <3>1. phase' = phase /\ phase[a] = "leading"
      BY <2>9 DEF Fire, LoadGroup, SaveSignals, RunFails, leaderVars
    <3>2. a # b => run'[b] = run[b]
      BY <2>9 DEF Fire, LoadGroup, SaveSignals, RunFails
    <3> QED
      BY <3>1, <3>2
  <2>10. CASE UNCHANGED vars
    BY <2>10 DEF vars, leaderVars
  <2> QED
    BY <2>1, <2>2, <2>3, <2>4, <2>5, <2>6, <2>7, <2>8, <2>9, <2>10 DEF Next, Boot, RequestStep
<1> QED
  BY <1>1, <1>2, SchedulerTypeCorrect, PTL DEF Spec

\* The lock's promise, carried up to the work: while the leader's connection
\* lives, no two processes run the same group.
THEOREM GroupRunsOnce == Spec => []OneRunPerGroup
<1>1. RunsBelongToLeader /\ OneLeaderWhileConnected => OneRunPerGroup
  BY DEF RunsBelongToLeader, OneLeaderWhileConnected, OneLeader, OneRunPerGroup
<1> QED
  BY <1>1, RunsHaveLeader, SchedulerImplementsLeaderLock, LeaderIsUnique, PTL

\* Whoever is subscribed while a run goes on counts as subscribed since it
\* was fired; what the run will save is among them.
RunsKnowMembers ==
    \A a \in Apis, k \in Keys :
        /\ run[a][k].left \subseteq run[a][k].since
        /\ run[a][k].pc # "idle" => Members(k) \subseteq run[a][k].since

\* A handler that does not commit a change leaves every group as it is.
LEMMA SameMembers ==
  ASSUME UNCHANGED row PROVE \A k \in Keys : Members(k)' = Members(k)
BY DEF Members, Subscribed

\* Adding or removing a subscription brings no member to any group.
LEMMA NoNewMembers ==
  ASSUME TypeOK,
         \/ \E r \in Requests, a \in Apis, u \in Users : AddStrategy(r, a, u)
         \/ \E r \in Requests : CommitRemove(r)
  PROVE  \A k \in Keys : Members(k)' \subseteq Members(k)
<1>1. ASSUME NEW r \in Requests, NEW a \in Apis, NEW v \in Users, AddStrategy(r, a, v),
             NEW k \in Keys, NEW u \in Users, Subscribed(u, k)'
      PROVE  Subscribed(u, k)
  BY <1>1 DEF AddStrategy, Subscribed, TypeOK, Rows
<1>2. ASSUME NEW r \in Requests, CommitRemove(r), NEW k \in Keys, NEW u \in Users,
             Subscribed(u, k)'
      PROVE  Subscribed(u, k)
  BY <1>2 DEF CommitRemove, Subscribed, TypeOK, Rows
<1> QED
  BY <1>1, <1>2 DEF Members

\* Stale jobs and long runs save nothing for users who did not subscribe.
THEOREM StaleJobsSaveNothing == Spec => []StaleJobsAreHarmless
<1>1. Init => RunsKnowMembers
  BY DEF Init, NotRunning, RunsKnowMembers
<1>2. TypeOK /\ RunsKnowMembers /\ [Next]_vars => RunsKnowMembers'
  <2> SUFFICES ASSUME TypeOK, RunsKnowMembers, [Next]_vars, NEW b \in Apis, NEW j \in Keys
               PROVE  /\ run'[b][j].left \subseteq run'[b][j].since
                      /\ run'[b][j].pc # "idle" => Members(j)' \subseteq run'[b][j].since
    BY DEF RunsKnowMembers
  <2> DEFINE Known == /\ run'[b][j].left \subseteq run'[b][j].since
                      /\ run'[b][j].pc # "idle" => Members(j)' \subseteq run'[b][j].since
  <2> SUFFICES Known
    OBVIOUS
  <2>u. UNCHANGED run /\ Members(j)' \subseteq Members(j) => Known
    BY DEF RunsKnowMembers
  <2>1. ASSUME NEW a \in Apis, Start(a) \/ StartupSelect(a) \/ StartupRegister(a)
               \/ Release(a)
        PROVE  Known
    BY <2>1, <2>u, SameMembers DEF Start, StartupSelect, StartupRegister, Release
  <2>2. ASSUME NEW a \in Apis, Shutdown(a) \/ Die(a) \/ StartupRaises(a) PROVE Known
    <3>1. Lost(a)
      BY <2>2 DEF Shutdown, Die, StartupRaises
    <3> QED
      BY <3>1, SameMembers DEF Lost, NotRunning, RunsKnowMembers, TypeOK
  <2>3. CASE LoseConnection
    BY <2>3, <2>u, SameMembers DEF LoseConnection
  <2>4. ASSUME NEW r \in Requests, NEW a \in Apis, NEW u \in Users,
               AddStrategy(r, a, u) \/ Update(r, a, u) \/ Remove(r, a, u)
        PROVE  Known
    BY <2>4, <2>u, SameMembers, NoNewMembers DEF AddStrategy, Update, Remove
  <2>5. ASSUME NEW r \in Requests, CommitUpdate(r) PROVE Known
    <3>1. run[b][j] \in Runs
      BY DEF TypeOK
    <3>2. CASE run[b][j].pc = "idle"
      BY <2>5, <3>2 DEF CommitUpdate, Witnessed, RunsKnowMembers
    <3>3. CASE run[b][j].pc # "idle"
      <4>1. run'[b][j] = [run[b][j] EXCEPT !.since = @ \cup Members(j)']
        BY <2>5, <3>3 DEF CommitUpdate, Witnessed
      <4>2. run'[b][j].since = run[b][j].since \cup Members(j)'
            /\ run'[b][j].left = run[b][j].left
        BY <3>1, <4>1 DEF Runs
      <4> QED
        BY <4>2 DEF RunsKnowMembers
    <3> QED
      BY <3>2, <3>3
  <2>6. ASSUME NEW r \in Requests,
               CommitRemove(r) \/ SkipReload(r) \/ ReloadRemove(r) \/ ReloadSelect(r)
               \/ ReloadFails(r) \/ ReloadRegister(r) \/ ReloadRaises(r)
        PROVE  Known
    BY <2>6, <2>u, SameMembers, NoNewMembers
    DEF CommitRemove, SkipReload, ReloadRemove, ReloadSelect, ReloadFails, ReloadRegister, ReloadRaises
  <2>7. ASSUME NEW a \in Apis, NEW k \in Keys,
               Fire(a, k) \/ LoadGroup(a, k) \/ SaveSignals(a, k) \/ RunFails(a, k)
        PROVE  Known
    <3>1. Members(j)' = Members(j)
      BY <2>7, SameMembers DEF Fire, LoadGroup, SaveSignals, RunFails
    <3>2. CASE a # b \/ k # j
      <4>1. run'[b][j] = run[b][j]
        BY <2>7, <3>2 DEF Fire, LoadGroup, SaveSignals, RunFails, TypeOK
      <4> QED
        BY <3>1, <4>1 DEF RunsKnowMembers
    <3>3. CASE a = b /\ k = j
      BY <2>7, <3>1, <3>3
      DEF Fire, LoadGroup, SaveSignals, RunFails, RunsKnowMembers, NotRunning, TypeOK, Runs
    <3> QED
      BY <3>2, <3>3
  <2>8. CASE UNCHANGED vars
    BY <2>8, <2>u, SameMembers DEF vars
  <2> QED
    BY <2>1, <2>2, <2>3, <2>4, <2>5, <2>6, <2>7, <2>8 DEF Next, Boot, RequestStep
<1>3. RunsKnowMembers => StaleJobsAreHarmless
  BY DEF RunsKnowMembers, StaleJobsAreHarmless
<1> QED
  BY <1>1, <1>2, <1>3, SchedulerTypeCorrect, PTL DEF Spec

-----------------------------------------------------------------------------
(* Hot reload.                                                             *)

\* Handlers in flight are those of a process that serves: shutdown waits for
\* them, a crash ends them.
LEMMA HandlersAreServed ==
  TypeOK /\ HandlersServed /\ [Next]_vars => HandlersServed'
<1> SUFFICES ASSUME TypeOK, HandlersServed, [Next]_vars,
                    NEW b \in Apis, NEW q \in Requests, q \in InFlight(b)'
             PROVE  Serving(b)'
  BY DEF HandlersServed, InFlight
<1> USE DEF HandlersServed, InFlight, Serving, TypeOK, LeaderTypeOK
<1>1. ASSUME NEW a \in Apis, Start(a) \/ StartupSelect(a) \/ StartupRegister(a) PROVE Serving(b)'
  BY <1>1 DEF Start, StartupSelect, StartupRegister, Acquire, Follow, Lead, leaderVars
<1>2. ASSUME NEW a \in Apis, Shutdown(a) \/ Die(a) \/ StartupRaises(a) PROVE Serving(b)'
  <2>1. Lost(a) /\ phase' = [phase EXCEPT ![a] = phase'[a]]
    BY <1>2 DEF Shutdown, Die, StartupRaises, StopWork, Crash, StartFails
  <2>2. q \in InFlight(b) /\ a # b
    BY <2>1 DEF Lost, Done
  <2> QED
    BY <2>1, <2>2
<1>3. ASSUME NEW a \in Apis, Release(a) PROVE Serving(b)'
  BY <1>3 DEF Release, Unlock
<1>4. CASE LoseConnection
  BY <1>4 DEF LoseConnection, DropConnection
<1>5. ASSUME NEW r \in Requests, NEW a \in Apis, NEW u \in Users,
             AddStrategy(r, a, u) \/ Update(r, a, u) \/ Remove(r, a, u)
      PROVE  Serving(b)'
  <2>1. phase' = phase /\ Serving(a)
    BY <1>5 DEF AddStrategy, Update, Remove, leaderVars
  <2>2. request'[r] = Done \/ request'[r].api = a
    BY <1>5 DEF AddStrategy, Update, Remove
  <2>3. \A s \in Requests : s # r => request'[s] = request[s]
    BY <1>5 DEF AddStrategy, Update, Remove
  <2>4. CASE q = r
    BY <2>1, <2>2, <2>4 DEF Done
  <2>5. CASE q # r
    BY <2>1, <2>3, <2>5
  <2> QED
    BY <2>4, <2>5
<1>6. ASSUME NEW r \in Requests, RequestStep(r) PROVE Serving(b)'
  <2>1. phase' = phase /\ request' = [request EXCEPT ![r] = request'[r]]
    BY <1>6 DEF RequestStep, CommitUpdate, CommitRemove, SkipReload, ReloadRemove,
                ReloadSelect, ReloadFails, ReloadRegister, ReloadRaises, leaderVars
  <2>2. request'[r] = Done \/ (r \in InFlight(request[r].api) /\ request'[r].api = request[r].api)
    <3>1. request[r].pc \notin {"idle", "done"} /\ request[r].api \in Apis
      <4>1. request[r].pc \notin {"idle", "done"}
        BY <1>6 DEF RequestStep, CommitUpdate, CommitRemove, SkipReload, ReloadRemove,
                    RefreshReloads, ReloadSelect, ReloadFails, ReloadRegister, ReloadRaises
      <4> QED
        BY <4>1, HandlerFields
    <3>2. request'[r] = Done \/ request'[r].api = request[r].api
      BY <1>6 DEF RequestStep, CommitUpdate, CommitRemove, SkipReload, ReloadRemove,
                  ReloadSelect, ReloadFails, ReloadRegister, ReloadRaises
    <3> QED
      BY <3>1, <3>2
  <2> QED
    BY <2>1, <2>2 DEF Done
<1>7. ASSUME NEW a \in Apis, NEW k \in Keys,
             Fire(a, k) \/ LoadGroup(a, k) \/ SaveSignals(a, k) \/ RunFails(a, k)
      PROVE  Serving(b)'
  BY <1>7 DEF Fire, LoadGroup, SaveSignals, RunFails, leaderVars
<1>8. CASE UNCHANGED vars
  BY <1>8 DEF vars, leaderVars
<1> QED
  BY <1>1, <1>2, <1>3, <1>4, <1>5, <1>6, <1>7, <1>8 DEF Next, Boot

\* Who writes a subscription while a process starts is another process.
LEMMA StartupStaysFresh ==
  TypeOK /\ HandlersServed /\ StartupFresh /\ [Next]_vars => StartupFresh'
<1> SUFFICES ASSUME TypeOK, HandlersServed, StartupFresh, [Next]_vars,
                    NEW b \in Apis, startup'[b].read
             PROVE  /\ phase'[b] = "starting"
                    /\ \A k \in Keys : \A u \in Members(k)' \ missed'[b] :
                           k \in startup'[b].groups
  BY DEF StartupFresh
<1> USE DEF StartupFresh, TypeOK, LeaderTypeOK
<1> DEFINE Fresh == /\ phase'[b] = "starting"
                    /\ \A k \in Keys : \A u \in Members(k)' \ missed'[b] :
                           k \in startup'[b].groups
<1> SUFFICES Fresh
  OBVIOUS
<1>g. (\A k \in Keys : Members(k)' \subseteq Members(k)) /\ missed'[b] = missed[b]
      /\ startup'[b] = startup[b] /\ phase'[b] = phase[b] => Fresh
  OBVIOUS
<1>r. UNCHANGED row => \A k \in Keys : Members(k)' \subseteq Members(k)
  BY SameMembers
<1>1. ASSUME NEW a \in Apis, Start(a) \/ StartupSelect(a) \/ StartupRegister(a) PROVE Fresh
  <2>1. CASE Start(a)
    <3>1. phase'[b] = phase[b]
      BY <2>1 DEF Start, Acquire, Follow
    <3> QED
      BY <2>1, <3>1, <1>g, <1>r DEF Start
  <2>2. CASE StartupSelect(a)
    <3>1. CASE a = b
      <4>1. \A k \in Keys : \A u \in Members(k)' : k \in Groups
        BY <2>2, SameMembers DEF StartupSelect, Groups
      <4>2. startup'[b].groups = Groups /\ phase'[b] = "starting"
        BY <2>2, <3>1 DEF StartupSelect, leaderVars
      <4> QED
        BY <4>1, <4>2
    <3>2. CASE a # b
      BY <2>2, <3>2, <1>g, <1>r DEF StartupSelect, leaderVars
    <3> QED
      BY <3>1, <3>2
  <2>3. CASE StartupRegister(a)
    <3>1. a # b
      BY <2>3 DEF StartupRegister, NotRead
    <3> QED
      BY <2>3, <3>1, <1>g, <1>r DEF StartupRegister, Lead
  <2> QED
    BY <1>1, <2>1, <2>2, <2>3
<1>2. ASSUME NEW a \in Apis, Shutdown(a) \/ Die(a) \/ StartupRaises(a) PROVE Fresh
  <2>1. Lost(a)
    BY <1>2 DEF Shutdown, Die, StartupRaises
  <2>2. a # b
    BY <2>1 DEF Lost, NotRead
  <2>3. phase'[b] = phase[b]
    BY <1>2, <2>2 DEF Shutdown, Die, StartupRaises, StopWork, Crash, StartFails
  <2> QED
    BY <2>1, <2>2, <2>3, <1>g, <1>r DEF Lost
<1>3. ASSUME NEW a \in Apis, Release(a) PROVE Fresh
  BY <1>3, <1>g, <1>r DEF Release, Unlock
<1>4. CASE LoseConnection
  BY <1>4, <1>g, <1>r DEF LoseConnection, DropConnection
<1>5. ASSUME NEW r \in Requests, NEW a \in Apis, NEW u \in Users,
             AddStrategy(r, a, u) \/ Update(r, a, u) \/ Remove(r, a, u)
      PROVE  Fresh
  BY <1>5, <1>g, <1>r, NoNewMembers DEF AddStrategy, Update, Remove, leaderVars
<1>6. ASSUME NEW r \in Requests, CommitUpdate(r) PROVE Fresh
  <2> DEFINE h == request[r]
  <2>1. h.api \in Apis /\ h.user \in Users /\ phase' = phase /\ startup' = startup
    BY <1>6, HandlerFields DEF CommitUpdate, leaderVars
  <2>2. h.api # b
    BY <1>6, <2>1 DEF CommitUpdate, HandlersServed, InFlight, Serving
  <2>3. CASE ~StillThere(h)
    BY <1>6, <2>1, <2>3, <1>g, <1>r DEF CommitUpdate
  <2>4. CASE StillThere(h)
    <3>1. missed'[b] = missed[b] \cup {h.user}
      BY <1>6, <2>2, <2>4 DEF CommitUpdate, MissedBy
    <3>2. ASSUME NEW k \in Keys, NEW u \in Members(k)' \ missed'[b]
          PROVE  k \in startup'[b].groups
      <4>1. u \in Users /\ row'[u] = row[u]
        BY <1>6, <2>4, <3>1 DEF CommitUpdate, Members
      <4>2. u \in Members(k) \ missed[b]
        BY <4>1, <3>1 DEF Members, Subscribed
      <4> QED
        BY <4>2, <2>1
    <3> QED
      BY <2>1, <3>2
  <2> QED
    BY <2>3, <2>4
<1>7. ASSUME NEW r \in Requests,
             CommitRemove(r) \/ SkipReload(r) \/ ReloadRemove(r) \/ ReloadSelect(r)
             \/ ReloadFails(r) \/ ReloadRegister(r) \/ ReloadRaises(r)
      PROVE  Fresh
  <2>1. request[r].pc \notin {"idle", "done"}
    BY <1>7 DEF CommitRemove, SkipReload, ReloadRemove, RefreshReloads, ReloadSelect,
                ReloadFails, ReloadRegister, ReloadRaises
  <2>2. request[r].api \in Apis
    BY <2>1, HandlerFields
  <2>3. startup' = startup /\ phase' = phase
    BY <1>7 DEF CommitRemove, SkipReload, ReloadRemove, ReloadSelect, ReloadFails,
                ReloadRegister, ReloadRaises, leaderVars
  <2>4. request[r].api # b
    BY <2>1, <2>2, <2>3 DEF HandlersServed, InFlight, Serving
  <2>5. missed'[b] = missed[b]
    BY <1>7, <2>4 DEF CommitRemove, SkipReload, ReloadRemove, ReloadSelect, ReloadFails,
                ReloadRegister, ReloadRaises
  <2>6. \A k \in Keys : Members(k)' \subseteq Members(k)
    BY <1>7, <1>r, NoNewMembers DEF SkipReload, ReloadRemove, ReloadSelect, ReloadFails,
                ReloadRegister, ReloadRaises
  <2> QED
    BY <2>3, <2>5, <2>6, <1>g
<1>8. ASSUME NEW a \in Apis, NEW k \in Keys,
             Fire(a, k) \/ LoadGroup(a, k) \/ SaveSignals(a, k) \/ RunFails(a, k)
      PROVE  Fresh
  BY <1>8, <1>g, <1>r DEF Fire, LoadGroup, SaveSignals, RunFails, leaderVars
<1>9. CASE UNCHANGED vars
  BY <1>9, <1>g, <1>r DEF vars, leaderVars
<1> QED
  BY <1>1, <1>2, <1>3, <1>4, <1>5, <1>6, <1>7, <1>8, <1>9 DEF Next, Boot, RequestStep

\* Every subscription the leader has not missed keeps its job, or a handler
\* that will register it.
LEMMA NobodyIsDropped ==
  TypeOK /\ ReloadInvariant /\ [Next]_vars => NobodyForgotten'
<1> SUFFICES ASSUME TypeOK, ReloadInvariant, [Next]_vars,
                    NEW b \in Apis, NEW j \in Keys, NEW v \in Users,
                    Subscribed(v, j)', v \notin missed'[b], phase'[b] = "leading"
             PROVE  j \in jobs'[b] \/ \E q \in Requests : WillRegister(q, b, j, v)'
  BY DEF NobodyForgotten, Members
<1> USE DEF TypeOK, LeaderTypeOK
<1> DEFINE Kept == j \in jobs'[b] \/ \E q \in Requests : WillRegister(q, b, j, v)'
           Due == phase[b] = "leading" /\ Subscribed(v, j) /\ v \notin missed[b]
<1>i. Due => j \in jobs[b] \/ \E q \in Requests : WillRegister(q, b, j, v)
  BY DEF ReloadInvariant, NobodyForgotten, Members
<1>w. ASSUME Due, jobs[b] \subseteq jobs'[b],
             \A q \in Requests : WillRegister(q, b, j, v) => Kept
      PROVE  Kept
  BY <1>i, <1>w
<1>s. UNCHANGED <<row, jobs, request, missed>> /\ phase[b] = "leading" => Kept
  BY <1>i DEF Subscribed, WillRegister, InFlight, StillThere
<1>1. ASSUME NEW a \in Apis, Start(a) \/ StartupSelect(a) \/ StartupRegister(a) PROVE Kept
  <2>1. CASE Start(a)
    BY <2>1, <1>s DEF Start, Acquire, Follow
  <2>2. CASE StartupSelect(a)
    <3>1. a # b
      BY <2>2 DEF StartupSelect, leaderVars
    <3>2. Due /\ jobs' = jobs
      BY <2>2, <3>1 DEF StartupSelect, leaderVars, Subscribed
    <3>3. ASSUME NEW q \in Requests, WillRegister(q, b, j, v) PROVE WillRegister(q, b, j, v)'
      BY <2>2, <3>3 DEF StartupSelect, WillRegister, InFlight, StillThere
    <3> QED
      BY <3>2, <3>3, <1>w
  <2>3. CASE StartupRegister(a)
    <3>1. CASE a = b
      <4>1. jobs'[b] = startup[b].groups /\ startup[b].read
        BY <2>3, <3>1 DEF StartupRegister
      <4>2. v \in Members(j) \ missed[b]
        BY <2>3 DEF StartupRegister, Members, Subscribed
      <4> QED
        BY <4>1, <4>2 DEF ReloadInvariant, StartupFresh
    <3>2. CASE a # b
      <4>1. Due /\ jobs'[b] = jobs[b]
        BY <2>3, <3>2 DEF StartupRegister, Lead, Subscribed
      <4>2. ASSUME NEW q \in Requests, WillRegister(q, b, j, v) PROVE WillRegister(q, b, j, v)'
        BY <2>3, <4>2 DEF StartupRegister, WillRegister, InFlight, StillThere
      <4> QED
        BY <4>1, <4>2, <1>w
    <3> QED
      BY <3>1, <3>2
  <2> QED
    BY <1>1, <2>1, <2>2, <2>3
<1>2. ASSUME NEW a \in Apis, Shutdown(a) \/ Die(a) \/ StartupRaises(a) PROVE Kept
  <2>1. a # b /\ Lost(a) /\ phase'[b] = phase[b]
    BY <1>2 DEF Shutdown, Die, StartupRaises, StopWork, Crash, StartFails
  <2>2. Due /\ jobs'[b] = jobs[b]
    BY <2>1 DEF Lost, Subscribed
  <2>3. ASSUME NEW q \in Requests, WillRegister(q, b, j, v) PROVE WillRegister(q, b, j, v)'
    <3>1. q \notin InFlight(a)
      BY <2>1, <2>3 DEF WillRegister, InFlight
    <3> QED
      BY <2>1, <2>3, <3>1 DEF Lost, WillRegister, InFlight, StillThere
  <2> QED
    BY <2>2, <2>3, <1>w
<1>3. ASSUME NEW a \in Apis, Release(a) PROVE Kept
  BY <1>3, <1>s DEF Release, Unlock
<1>4. CASE LoseConnection
  BY <1>4, <1>s DEF LoseConnection, DropConnection
<1>5. ASSUME NEW r \in Requests, NEW a \in Apis, NEW u \in Users, AddStrategy(r, a, u)
      PROVE  Kept
  <2>1. u # v /\ Due /\ jobs' = jobs
    BY <1>5 DEF AddStrategy, Subscribed, leaderVars, Rows
  <2>2. ASSUME NEW q \in Requests, WillRegister(q, b, j, v)
        PROVE  WillRegister(q, b, j, v)'
    <3>1. q # r /\ request'[q] = request[q] /\ row'[v] = row[v]
      BY <1>5, <2>1, <2>2 DEF AddStrategy, WillRegister, InFlight
    <3> QED
      BY <2>2, <3>1 DEF WillRegister, InFlight, StillThere
  <2> QED
    BY <2>1, <2>2, <1>w
<1>6. ASSUME NEW r \in Requests, NEW a \in Apis, NEW u \in Users,
             Update(r, a, u) \/ Remove(r, a, u)
      PROVE  Kept
  <2>1. Due /\ jobs' = jobs
    BY <1>6 DEF Update, Remove, Subscribed, leaderVars
  <2>2. ASSUME NEW q \in Requests, WillRegister(q, b, j, v)
        PROVE  WillRegister(q, b, j, v)'
    BY <1>6, <2>2 DEF Update, Remove, WillRegister, InFlight, StillThere
  <2> QED
    BY <2>1, <2>2, <1>w
<1>7. ASSUME NEW r \in Requests, CommitUpdate(r) PROVE Kept
  <2> DEFINE h == request[r]
  <2>1. h.api \in Apis /\ h.user \in Users /\ h.loaded \in Rows
    BY <1>7, HandlerFields DEF CommitUpdate
  <2>2. phase = phase' /\ jobs' = jobs
    BY <1>7 DEF CommitUpdate, leaderVars
  <2>3. CASE h.user = v /\ StillThere(h)
    <3>0. h.api = b
      BY <1>7, <2>3 DEF CommitUpdate, MissedBy
    <3>1. request'[r] = [pc |-> "refresh", api |-> b, user |-> v, loaded |-> h.loaded]
      BY <1>7, <3>0, <2>2, <2>3 DEF CommitUpdate, HasScheduler
    <3>2. row'[v].there = row[v].there /\ row'[v].id = row[v].id
      BY <1>7, <2>1, <2>3 DEF CommitUpdate, Written, Rows
    <3>3. WillRegister(r, b, j, v)'
      BY <3>1, <3>2, <2>3 DEF WillRegister, InFlight, StillThere
    <3> QED
      BY <3>3
  <2>4. CASE ~(h.user = v /\ StillThere(h))
    <3>1. row'[v] = row[v]
      BY <1>7, <2>4, <2>1 DEF CommitUpdate
    <3>2. ASSUME NEW q \in Requests, WillRegister(q, b, j, v)
          PROVE  WillRegister(q, b, j, v)'
      <4>1. q # r /\ request'[q] = request[q]
        BY <1>7, <3>2 DEF CommitUpdate, WillRegister
      <4> QED
        BY <3>1, <3>2, <4>1 DEF WillRegister, InFlight, StillThere
    <3>3. missed[b] \subseteq missed'[b]
      BY <1>7 DEF CommitUpdate, MissedBy
    <3>4. Due
      BY <2>2, <3>1, <3>3 DEF Subscribed
    <3> QED
      BY <1>w, <2>2, <3>2, <3>4
  <2> QED
    BY <2>3, <2>4
<1>8. ASSUME NEW r \in Requests, CommitRemove(r) PROVE Kept
  <2>1. Due /\ jobs' = jobs
    BY <1>8, NoNewMembers DEF CommitRemove, leaderVars, Members
  <2>2. ASSUME NEW q \in Requests, WillRegister(q, b, j, v) PROVE WillRegister(q, b, j, v)'
    <3>1. q # r /\ request'[q] = request[q]
      BY <1>8, <2>2 DEF CommitRemove, WillRegister
    <3>2. row'[v] = row[v]
      BY <1>8 DEF CommitRemove, Subscribed
    <3> QED
      BY <2>2, <3>1, <3>2 DEF WillRegister, InFlight, StillThere
  <2> QED
    BY <2>1, <2>2, <1>w
<1>9. ASSUME NEW r \in Requests, SkipReload(r) PROVE Kept
  <2>1. Due /\ jobs' = jobs /\ row' = row
    BY <1>9 DEF SkipReload, Subscribed, leaderVars
  <2>2. ASSUME NEW q \in Requests, WillRegister(q, b, j, v)
        PROVE  WillRegister(q, b, j, v)'
    <3>1. q # r /\ request'[q] = request[q]
      BY <1>9, <2>2 DEF SkipReload, RefreshReloads, WillRegister
    <3> QED
      BY <2>1, <2>2, <3>1 DEF WillRegister, InFlight, StillThere
  <2> QED
    BY <2>1, <2>2, <1>w
<1>10. ASSUME NEW r \in Requests, ReloadRemove(r) PROVE Kept
  <2>1. request[r].api \in Apis
    BY <1>10, HandlerFields DEF ReloadRemove, RefreshReloads
  <2>2. request'[r] = [pc |-> "select", api |-> request[r].api]
    BY <1>10, <2>1 DEF ReloadRemove
  <2>3. CASE request[r].api = b
    BY <2>2, <2>3 DEF WillRegister, InFlight
  <2>4. CASE request[r].api # b
    <3>1. Due /\ jobs'[b] = jobs[b] /\ row' = row
      BY <1>10, <2>4 DEF ReloadRemove, Subscribed, leaderVars
    <3>2. ASSUME NEW q \in Requests, WillRegister(q, b, j, v) PROVE WillRegister(q, b, j, v)'
      <4>1. q # r /\ request'[q] = request[q]
        BY <1>10, <2>4, <3>2 DEF ReloadRemove, WillRegister, InFlight
      <4> QED
        BY <3>1, <3>2, <4>1 DEF WillRegister, InFlight, StillThere
    <3> QED
      BY <3>1, <3>2, <1>w
  <2> QED
    BY <2>3, <2>4
<1>11. ASSUME NEW r \in Requests, ReloadSelect(r) PROVE Kept
  <2>2. request'[r] = [pc |-> "register", api |-> request[r].api, found |-> Groups]
    BY <1>11 DEF ReloadSelect
  <2>3. j \in Groups
    BY <1>11 DEF ReloadSelect, Groups, Members, Subscribed
  <2>4. CASE request[r].api = b
    BY <2>2, <2>3, <2>4 DEF WillRegister, InFlight
  <2>5. CASE request[r].api # b
    <3>1. Due /\ jobs' = jobs /\ row' = row
      BY <1>11, <2>5 DEF ReloadSelect, Subscribed, leaderVars
    <3>2. ASSUME NEW q \in Requests, WillRegister(q, b, j, v) PROVE WillRegister(q, b, j, v)'
      <4>1. q # r /\ request'[q] = request[q]
        BY <1>11, <2>5, <3>2 DEF ReloadSelect, WillRegister, InFlight
      <4> QED
        BY <3>1, <3>2, <4>1 DEF WillRegister, InFlight, StillThere
    <3> QED
      BY <3>1, <3>2, <1>w
  <2> QED
    BY <2>4, <2>5
<1>12. ASSUME NEW r \in Requests, ReloadFails(r) \/ ReloadRaises(r) PROVE Kept
  <2>0. request[r].api \in Apis
    BY <1>12, HandlerFields DEF ReloadFails, ReloadRaises
  <2>1. request[r].api # b
    BY <1>12, <2>0 DEF ReloadFails, ReloadRaises
  <2>2. Due /\ jobs'[b] = jobs[b] /\ row' = row
    BY <1>12, <2>1 DEF ReloadFails, ReloadRaises, Subscribed, leaderVars
  <2>3. ASSUME NEW q \in Requests, WillRegister(q, b, j, v) PROVE WillRegister(q, b, j, v)'
    <3>1. q # r /\ request'[q] = request[q]
      BY <1>12, <2>1, <2>3 DEF ReloadFails, ReloadRaises, WillRegister, InFlight
    <3> QED
      BY <2>2, <2>3, <3>1 DEF WillRegister, InFlight, StillThere
  <2> QED
    BY <2>2, <2>3, <1>w
<1>13. ASSUME NEW r \in Requests, ReloadRegister(r) PROVE Kept
  <2>0. request[r].api \in Apis
    BY <1>13, HandlerFields DEF ReloadRegister
  <2>1. Due /\ row' = row
    BY <1>13 DEF ReloadRegister, Subscribed, leaderVars
  <2>2. jobs[b] \subseteq jobs'[b]
        /\ (request[r].api = b => request[r].found \subseteq jobs'[b])
    BY <1>13, <2>0 DEF ReloadRegister
  <2>3. ASSUME NEW q \in Requests, WillRegister(q, b, j, v)
        PROVE  Kept
    <3>1. CASE q = r
      BY <1>13, <2>2, <2>3, <3>1 DEF ReloadRegister, WillRegister, InFlight
    <3>2. CASE q # r
      BY <1>13, <2>1, <2>3, <3>2 DEF ReloadRegister, WillRegister, InFlight, StillThere
    <3> QED
      BY <3>1, <3>2
  <2> QED
    BY <1>w, <2>1, <2>2, <2>3
<1>14. ASSUME NEW a \in Apis, NEW k \in Keys,
              Fire(a, k) \/ LoadGroup(a, k) \/ SaveSignals(a, k) \/ RunFails(a, k)
       PROVE  Kept
  BY <1>14, <1>s DEF Fire, LoadGroup, SaveSignals, RunFails, leaderVars
<1>15. CASE UNCHANGED vars
  BY <1>15, <1>s DEF vars, leaderVars
<1> QED
  BY <1>1, <1>2, <1>3, <1>4, <1>5, <1>6, <1>7, <1>8, <1>9, <1>10, <1>11, <1>12, <1>13,
     <1>14, <1>15
  DEF Next, Boot, RequestStep

\* However reloads interleave and fail, the leader forgets no subscription it
\* has not missed: each reload removes every job of the strategy, but only
\* after its own commit and before its own SELECT.
THEOREM ReloadsLoseNoJob == Spec => []ReloadInvariant
<1>1. Init => ReloadInvariant
  <2>1. Init => HandlersServed
    BY DEF Init, Idle, HandlersServed, InFlight
  <2>2. Init => StartupFresh
    BY DEF Init, NotRead, StartupFresh
  <2>3. Init => NobodyForgotten
    BY DEF Init, LeaderInit, NobodyForgotten
  <2> QED
    BY <2>1, <2>2, <2>3 DEF ReloadInvariant
<1>2. TypeOK /\ ReloadInvariant /\ [Next]_vars => ReloadInvariant'
  BY HandlersAreServed, StartupStaysFresh, NobodyIsDropped DEF ReloadInvariant
<1> QED
  BY <1>1, <1>2, SchedulerTypeCorrect, PTL DEF Spec

\* The hot reload, for any number of processes and whatever reloads raise:
\* when no handler of the leader is in flight it has a job for every
\* subscription it has not missed.
THEOREM HotReloadWorks == Spec => []HotReload
<1>1. ReloadInvariant => HotReload
  <2> SUFFICES ASSUME ReloadInvariant, NEW a \in Apis, phase[a] = "leading",
                      Quiet(a), NEW k \in Keys, Members(k) \ missed[a] # {}
               PROVE  k \in jobs[a]
    BY DEF HotReload, UpToDate
  <2>1. PICK u \in Members(k) : u \notin missed[a]
    OBVIOUS
  <2> QED
    BY <2>1 DEF ReloadInvariant, NobodyForgotten, WillRegister, Quiet
<1> QED
  BY <1>1, ReloadsLoseNoJob, PTL
=============================================================================
