-------------------------- MODULE StrategyScheduler --------------------------
(***************************************************************************)
(* The subscriptions of one strategy, the scheduler jobs that run it, and  *)
(* the handlers that change the first and reload the second.               *)
(*                                                                         *)
(*   api/routers/me_strategies.py  add, update and remove a subscription   *)
(*   scheduler/runner.py           the jobs of the leader process, their   *)
(*                                 registration, reload and runs           *)
(*   scheduler/job_groups.py       subscriptions that share schedule,      *)
(*                                 parameters and timeframes share a job   *)
(*   api/main.py                   who has a scheduler (LeaderLock)        *)
(*                                                                         *)
(* Jobs live in the memory of the leader (APScheduler's default store) and *)
(* subscriptions in PostgreSQL.  Every await is a point where another      *)
(* handler, or another process, may run: a handler is one action per       *)
(* statement it awaits.  Strategies are independent, because no strategy   *)
(* id is a prefix of another's, so one is modelled, one that is in         *)
(* REGISTRY: add_strategy demands it.  A "key" stands for what             *)
(* job_id_for_group hashes: run_frequency, parameters and timeframes.  A   *)
(* run_frequency is only checked to be five words, so some of the keys     *)
(* that are stored have no trigger: CronTrigger.from_crontab raises.       *)
(***************************************************************************)
EXTENDS LeaderLock

CONSTANTS Users,
          Keys,             \* the group keys a subscription can have
          BadKeys,          \* those whose run_frequency has no trigger
          Requests,         \* the HTTP requests users may send
          MaxRuns,          \* bound: jobs fired
          MaxReloadFailures \* bound: reloads whose SELECT raises

ASSUME SchedulerAssumption ==
    /\ Keys # {} /\ BadKeys \subseteq Keys
    /\ MaxRuns \in Nat /\ MaxReloadFailures \in Nat

VARIABLES row,       \* user_strategies, one row per user
          jobs,      \* the strategy_grp_ jobs of each process
          startup,   \* the groups _register_all_jobs has read
          request,   \* the handlers
          run,       \* the run of each job: APScheduler's max_instances is 1
          missed,    \* history: the users each process may have no job for
          fired, failures

vars == <<leaderVars, row, jobs, startup, request, run, missed, fired, failures>>

-----------------------------------------------------------------------------
\* "id" tells a subscription from the one added after its removal.
Rows == [id : Nat, there : BOOLEAN, active : BOOLEAN, key : Keys]

\* A handler has loaded the row ("put", "delete"), has committed and reads the
\* row back ("added", "refresh") or goes on to the reload ("reload"), has
\* removed the jobs ("select"), or has read the groups ("register").
Handlers ==
    [pc : {"idle", "done"}] \cup
    [pc : {"put"}, api : Apis, user : Users, loaded : Rows,
     active : BOOLEAN, key : Keys] \cup
    [pc : {"delete", "added", "refresh"}, api : Apis, user : Users, loaded : Rows] \cup
    [pc : {"reload", "select"}, api : Apis] \cup
    [pc : {"register"}, api : Apis, found : SUBSET Keys]

\* A run reads its group ("load"), then saves the signals of each member in
\* "left"; "since" are the users subscribed to its key at some moment since
\* it was fired.
Runs ==
    [pc : {"idle", "load"}, left : {{}}, since : SUBSET Users] \cup
    [pc : {"save"}, left : (SUBSET Users) \ {{}}, since : SUBSET Users]

\* What _register_all_jobs has read of the subscriptions.
Startups == [read : BOOLEAN, groups : SUBSET Keys]
NotRead == [read |-> FALSE, groups |-> {}]

\* No job without a trigger, no run that saves for nobody.
TypeOK ==
    /\ LeaderTypeOK
    /\ row \in [Users -> Rows]
    /\ jobs \in [Apis -> SUBSET (Keys \ BadKeys)]
    /\ startup \in [Apis -> Startups]
    /\ request \in [Requests -> Handlers]
    /\ run \in [Apis -> [Keys -> Runs]]
    /\ missed \in [Apis -> SUBSET Users]
    /\ fired \in 0 .. MaxRuns
    /\ failures \in 0 .. MaxReloadFailures

Idle == [pc |-> "idle"]
Done == [pc |-> "done"]
NotRunning == [pc |-> "idle", left |-> {}, since |-> {}]

\* The subscriptions the processes find in the database.
StoredRows ==
    {[id |-> 0, there |-> FALSE, active |-> FALSE, key |-> k] : k \in Keys} \cup
    {[id |-> 1, there |-> TRUE, active |-> b, key |-> k] : b \in BOOLEAN, k \in Keys}

Init ==
    /\ LeaderInit
    /\ row \in [Users -> StoredRows]
    /\ jobs = [a \in Apis |-> {}]
    /\ startup = [a \in Apis |-> NotRead]
    /\ request = [r \in Requests |-> Idle]
    /\ run = [a \in Apis |-> [k \in Keys |-> NotRunning]]
    /\ missed = [a \in Apis |-> {}]
    /\ fired = 0
    /\ failures = 0

-----------------------------------------------------------------------------
(* scheduler/job_groups.py, on the rows a SELECT returns.                  *)

Subscribed(u, k) == row[u].there /\ row[u].active /\ row[u].key = k

\* The members of group k.
Members(k) == {u \in Users : Subscribed(u, k)}

\* The keys group_active_user_strategies returns.
Groups == {k \in Keys : Members(k) # {}}

-----------------------------------------------------------------------------
(* The life of an API process.                                             *)

InFlight(a) == {r \in Requests : request[r].pc \notin {"idle", "done"}
                                 /\ request[r].api = a}

\* What the end of process a leaves: memory is lost, handlers and runs end.
Lost(a) ==
    /\ jobs' = [jobs EXCEPT ![a] = {}]
    /\ startup' = [startup EXCEPT ![a] = NotRead]
    /\ request' = [r \in Requests |-> IF r \in InFlight(a) THEN Done ELSE request[r]]
    /\ run' = [run EXCEPT ![a] = [k \in Keys |-> NotRunning]]
    /\ UNCHANGED <<row, missed, fired, failures>>

\* lifespan asks for the lock.
Start(a) ==
    /\ Acquire(a) \/ Follow(a)
    /\ UNCHANGED <<row, jobs, startup, request, run, missed, fired, failures>>

\* _register_all_jobs reads the active subscriptions ...
StartupSelect(a) ==
    /\ phase[a] = "starting"
    /\ startup[a] = NotRead
    /\ startup' = [startup EXCEPT ![a] = [read |-> TRUE, groups |-> Groups]]
    /\ missed' = [missed EXCEPT ![a] = {}]
    /\ UNCHANGED <<leaderVars, row, jobs, request, run, fired, failures>>

\* ... and registers their jobs; the scheduler starts.
StartupRegister(a) ==
    /\ startup[a].read
    /\ startup[a].groups \cap BadKeys = {}
    /\ Lead(a)
    /\ jobs' = [jobs EXCEPT ![a] = startup[a].groups]
    /\ startup' = [startup EXCEPT ![a] = NotRead]
    /\ UNCHANGED <<row, request, run, missed, fired, failures>>

\* A group without a trigger ends the start-up, and the process with it.
StartupRaises(a) ==
    /\ startup[a].groups \cap BadKeys # {}
    /\ StartFails(a)
    /\ Lost(a)

\* Variant: shutdown leaves the runs going.
Shutdown_KeepsRuns(a) ==
    /\ InFlight(a) = {}
    /\ StopWork(a)
    /\ jobs' = [jobs EXCEPT ![a] = {}]
    /\ UNCHANGED <<row, startup, request, run, missed, fired, failures>>

\* Shutdown waits for the handlers in flight, then shutdown(wait=False)
\* cancels the runs.
Shutdown(a) ==
    /\ InFlight(a) = {}
    /\ StopWork(a)
    /\ Lost(a)

Release(a) ==
    /\ Unlock(a)
    /\ UNCHANGED <<row, jobs, startup, request, run, missed, fired, failures>>

\* Killed at any point, or unable to start for want of a database.
Die(a) ==
    /\ Crash(a)
    /\ Lost(a)

LoseConnection ==
    /\ DropConnection
    /\ UNCHANGED <<row, jobs, startup, request, run, missed, fired, failures>>

-----------------------------------------------------------------------------
(* The handlers of api/routers/me_strategies.py.                           *)

\* Only a process with a scheduler reloads.
HasScheduler(a) == phase[a] = "leading"

\* add_strategy commits a new subscription, an inactive one with the key of
\* the pool.  A user who has one gets 409, or an IntegrityError from
\* uq_user_strategy.
AddStrategy(r, a, u) ==
    /\ request[r].pc = "idle"
    /\ Serving(a)
    /\ ~row[u].there
    /\ \E k \in Keys \ BadKeys :
          row' = [row EXCEPT ![u] = [id |-> @.id + 1, there |-> TRUE,
                                     active |-> FALSE, key |-> k]]
    /\ request' = [request EXCEPT ![r] =
                     IF HasScheduler(a)
                     THEN [pc |-> "added", api |-> a, user |-> u, loaded |-> row[u]']
                     ELSE Done]
    /\ UNCHANGED <<leaderVars, jobs, startup, run, missed, fired, failures>>

\* update_my_strategy loads the row.
Update(r, a, u) ==
    /\ request[r].pc = "idle"
    /\ Serving(a)
    /\ row[u].there
    /\ \E active \in BOOLEAN, k \in Keys :
          request' = [request EXCEPT ![r] =
                        [pc |-> "put", api |-> a, user |-> u, loaded |-> row[u],
                         active |-> active, key |-> k]]
    /\ UNCHANGED <<leaderVars, row, jobs, startup, run, missed, fired, failures>>

\* remove_my_strategy loads the row; an active one is refused with 400.
Remove(r, a, u) ==
    /\ request[r].pc = "idle"
    /\ Serving(a)
    /\ row[u].there
    /\ ~row[u].active
    /\ request' = [request EXCEPT ![r] = [pc |-> "delete", api |-> a, user |-> u,
                                          loaded |-> row[u]]]
    /\ UNCHANGED <<leaderVars, row, jobs, startup, run, missed, fired, failures>>

\* The row a handler loaded is still there.
StillThere(h) == row[h.user].there /\ row[h.user].id = h.loaded.id

\* SQLAlchemy writes the columns whose value differs from the loaded one.
Written(h) ==
    LET stored == row[h.user] IN
    [id     |-> stored.id,
     there  |-> stored.there,
     active |-> IF h.active = h.loaded.active THEN stored.active ELSE h.active,
     key    |-> IF h.key = h.loaded.key THEN stored.key ELSE h.key]

\* The runs, once the subscriptions are as in row'.
Witnessed ==
    run' = [a \in Apis |-> [k \in Keys |->
              IF run[a][k].pc = "idle" THEN run[a][k]
              ELSE [run[a][k] EXCEPT !.since = @ \cup Members(k)']]]

\* History: the processes handler h will not reload do not see what it writes.
MissedBy(h) ==
    missed' = [a \in Apis |-> IF a = h.api /\ HasScheduler(a) THEN missed[a]
                              ELSE missed[a] \cup {h.user}]

\* update_my_strategy commits; a row that is gone is a StaleDataError.
CommitUpdate(r) ==
    /\ request[r].pc = "put"
    /\ IF StillThere(request[r])
       THEN /\ row' = [row EXCEPT ![request[r].user] = Written(request[r])]
            /\ request' = [request EXCEPT ![r] =
                 IF HasScheduler(@.api)
                 THEN [pc |-> "refresh", api |-> @.api, user |-> @.user,
                       loaded |-> @.loaded]
                 ELSE Done]
            /\ MissedBy(request[r])
       ELSE /\ request' = [request EXCEPT ![r] = Done]
            /\ UNCHANGED <<row, missed>>
    /\ Witnessed
    /\ UNCHANGED <<leaderVars, jobs, startup, fired, failures>>

\* remove_my_strategy deletes by id and commits.
CommitRemove(r) ==
    /\ request[r].pc = "delete"
    /\ row' = IF StillThere(request[r])
              THEN [row EXCEPT ![request[r].user] =
                      [id |-> @.id, there |-> FALSE, active |-> FALSE, key |-> @.key]]
              ELSE row
    /\ request' = [request EXCEPT ![r] =
                     IF HasScheduler(@.api) THEN [pc |-> "reload", api |-> @.api] ELSE Done]
    /\ UNCHANGED <<leaderVars, jobs, startup, run, missed, fired, failures>>

\* What session.refresh reads makes handler h reload: after an update the row
\* itself, after add_strategy only a row another request has activated.
RefreshReloads(h) ==
    /\ h.pc \in {"added", "refresh"}
    /\ StillThere(h)
    /\ h.pc = "added" => row[h.user].active

\* No reload: session.refresh finds the row gone and raises, or the row that
\* was added is inactive.
SkipReload(r) ==
    /\ request[r].pc \in {"added", "refresh"}
    /\ ~RefreshReloads(request[r])
    /\ request' = [request EXCEPT ![r] = Done]
    /\ UNCHANGED <<leaderVars, row, jobs, startup, run, missed, fired, failures>>

-----------------------------------------------------------------------------
(* _reregister_strategy_groups.                                            *)

\* The strategy's jobs are removed before the subscriptions are read.
ReloadRemove(r) ==
    /\ request[r].pc = "reload" \/ RefreshReloads(request[r])
    /\ jobs' = [jobs EXCEPT ![request[r].api] = {}]
    /\ request' = [request EXCEPT ![r] = [pc |-> "select", api |-> @.api]]
    /\ UNCHANGED <<leaderVars, row, startup, run, missed, fired, failures>>

ReloadSelect(r) ==
    /\ request[r].pc = "select"
    /\ request' = [request EXCEPT ![r] = [pc |-> "register", api |-> @.api,
                                          found |-> Groups]]
    /\ missed' = [missed EXCEPT ![request[r].api] = {}]
    /\ UNCHANGED <<leaderVars, row, jobs, startup, run, fired, failures>>

\* The SELECT raises: the handler answers 500.
ReloadFails(r) ==
    /\ request[r].pc = "select"
    /\ failures < MaxReloadFailures
    /\ failures' = failures + 1
    /\ request' = [request EXCEPT ![r] = Done]
    /\ missed' = [missed EXCEPT ![request[r].api] = Users]
    /\ UNCHANGED <<leaderVars, row, jobs, startup, run, fired>>

\* Variant: the jobs become what was read, whatever other reloads did since.
ReloadRegister_Replaces(r) ==
    /\ request[r].pc = "register"
    /\ request[r].found \cap BadKeys = {}
    /\ jobs' = [jobs EXCEPT ![request[r].api] = request[r].found]
    /\ request' = [request EXCEPT ![r] = Done]
    /\ UNCHANGED <<leaderVars, row, startup, run, missed, fired, failures>>

\* add_job(replace_existing=True) for every group that was read.
ReloadRegister(r) ==
    /\ request[r].pc = "register"
    /\ request[r].found \cap BadKeys = {}
    /\ jobs' = [jobs EXCEPT ![request[r].api] = @ \cup request[r].found]
    /\ request' = [request EXCEPT ![r] = Done]
    /\ UNCHANGED <<leaderVars, row, startup, run, missed, fired, failures>>

\* A group without a trigger raises: the groups before it, in the order of the
\* SELECT, have their jobs, the others do not, and the handler answers 500.
ReloadRaises(r) ==
    /\ request[r].pc = "register"
    /\ request[r].found \cap BadKeys # {}
    /\ \E before \in SUBSET (request[r].found \ BadKeys) :
          jobs' = [jobs EXCEPT ![request[r].api] = @ \cup before]
    /\ request' = [request EXCEPT ![r] = Done]
    /\ missed' = [missed EXCEPT ![request[r].api] = Users]
    /\ UNCHANGED <<leaderVars, row, startup, run, fired, failures>>

-----------------------------------------------------------------------------
(* _run_strategy_group.                                                    *)

\* The trigger of a job fires.  A job removed later goes on with its run.
Fire(a, k) ==
    /\ phase[a] = "leading"
    /\ k \in jobs[a]
    /\ run[a][k].pc = "idle"
    /\ fired < MaxRuns
    /\ fired' = fired + 1
    /\ run' = [run EXCEPT ![a][k] = [pc |-> "load", left |-> {}, since |-> Members(k)]]
    /\ UNCHANGED <<leaderVars, row, jobs, startup, request, missed, failures>>

\* Variant: the run goes on although nobody is left in the group.
LoadGroup_Empty(a, k) ==
    /\ run[a][k].pc = "load"
    /\ run' = [run EXCEPT ![a][k] =
                 [pc |-> "save", left |-> Members(k), since |-> @.since]]
    /\ UNCHANGED <<leaderVars, row, jobs, startup, request, missed, fired, failures>>

\* Variant: the group is matched without its is_active filter.
LoadGroup_AnyRow(a, k) ==
    /\ run[a][k].pc = "load"
    /\ run' = [run EXCEPT ![a][k] =
                 LET found == {u \in Users : row[u].there /\ row[u].key = k} IN
                 IF found = {} THEN NotRunning
                 ELSE [pc |-> "save", left |-> found, since |-> @.since]]
    /\ UNCHANGED <<leaderVars, row, jobs, startup, request, missed, fired, failures>>

\* _load_strategy_group: the job's key is matched against the subscriptions
\* of now; no member, no run.
LoadGroup(a, k) ==
    /\ run[a][k].pc = "load"
    /\ run' = [run EXCEPT ![a][k] =
                 IF Members(k) = {} THEN NotRunning
                 ELSE [pc |-> "save", left |-> Members(k), since |-> @.since]]
    /\ UNCHANGED <<leaderVars, row, jobs, startup, request, missed, fired, failures>>

\* _save_signals commits for one member; the last one completes the run.
SaveSignals(a, k) ==
    /\ run[a][k].pc = "save"
    /\ \E u \in run[a][k].left :
          run' = [run EXCEPT ![a][k] =
                    IF @.left = {u} THEN NotRunning
                    ELSE [pc |-> "save", left |-> @.left \ {u}, since |-> @.since]]
    /\ UNCHANGED <<leaderVars, row, jobs, startup, request, missed, fired, failures>>

\* A timeout or an exception: the members left get nothing.
RunFails(a, k) ==
    /\ run[a][k].pc # "idle"
    /\ run' = [run EXCEPT ![a][k] = NotRunning]
    /\ UNCHANGED <<leaderVars, row, jobs, startup, request, missed, fired, failures>>

-----------------------------------------------------------------------------
RequestStep(r) ==
    \/ CommitUpdate(r) \/ CommitRemove(r) \/ SkipReload(r)
    \/ ReloadRemove(r) \/ ReloadSelect(r) \/ ReloadFails(r)
    \/ ReloadRegister(r) \/ ReloadRaises(r)

Boot(a) ==
    Start(a) \/ StartupSelect(a) \/ StartupRegister(a) \/ StartupRaises(a)

Next ==
    \/ \E a \in Apis : Boot(a) \/ Shutdown(a) \/ Release(a) \/ Die(a)
    \/ LoseConnection
    \/ \E r \in Requests, a \in Apis, u \in Users :
          AddStrategy(r, a, u) \/ Update(r, a, u) \/ Remove(r, a, u)
    \/ \E r \in Requests : RequestStep(r)
    \/ \E a \in Apis, k \in Keys :
          Fire(a, k) \/ LoadGroup(a, k) \/ SaveSignals(a, k) \/ RunFails(a, k)

Spec == Init /\ [][Next]_vars

\* The supervisor restarts a process that ended, and a handler that awaits
\* the database goes on.  Jobs need not fire and users need not click.
FairSpec ==
    /\ Spec
    /\ \A a \in Apis : WF_vars(Boot(a) \/ Release(a))
    /\ \A r \in Requests : WF_vars(RequestStep(r))

-----------------------------------------------------------------------------
(* Properties.                                                             *)

Quiet(a) == InFlight(a) = {}

\* A handler in flight that will bring the job of key k to process a, on
\* behalf of user u: it has not read the subscriptions yet, or has read k.
WillRegister(r, a, k, u) ==
    /\ r \in InFlight(a)
    /\ \/ request[r].pc \in {"reload", "select"}
       \/ request[r].pc = "register" /\ k \in request[r].found
       \/ request[r].pc = "refresh" /\ request[r].user = u /\ StillThere(request[r])

\* However reloads interleave, each removing every job of the strategy and
\* registering what it read earlier, or a part of it: a subscription that the
\* leader has not missed has its job, or a handler is about to register it.
NobodyForgotten ==
    \A a \in Apis, k \in Keys : \A u \in Members(k) \ missed[a] :
        phase[a] = "leading" =>
            k \in jobs[a] \/ \E r \in Requests : WillRegister(r, a, k, u)

\* Handlers run in a process that serves requests.
HandlersServed ==
    \A a \in Apis : \A r \in InFlight(a) : Serving(a)

\* Between its SELECT and its registrations a start-up misses only what other
\* processes write, and those have no scheduler to tell.
StartupFresh ==
    \A a \in Apis : startup[a].read =>
        /\ phase[a] = "starting"
        /\ \A k \in Keys : \A u \in Members(k) \ missed[a] : k \in startup[a].groups

\* Why the leader forgets no subscription it has not missed.
ReloadInvariant == HandlersServed /\ StartupFresh /\ NobodyForgotten

\* A run goes on only in a process that leads.
RunsBelongToLeader ==
    \A a \in Apis, k \in Keys : run[a][k].pc # "idle" => phase[a] = "leading"

\* Process a has the job of every active subscription it has not missed.
UpToDate(a) ==
    \A k \in Keys : Members(k) \ missed[a] # {} => k \in jobs[a]

\* The hot reload, as far as it goes: once the handlers of the leader have
\* ended, every active subscription has its job there, unless since the leader
\* last read them another process has written it, or a reload has raised.
HotReload == \A a \in Apis : phase[a] = "leading" /\ Quiet(a) => UpToDate(a)

\* A reload may leave jobs whose group is gone, and a run outlives its job.
\* Neither saves a signal for a user who was not subscribed to that very
\* schedule at some moment since the run was fired.
StaleJobsAreHarmless ==
    \A a \in Apis, k \in Keys : run[a][k].left \subseteq run[a][k].since

\* While the database keeps the leader's connection, no group is run by two
\* processes at once, so no member gets a signal twice.
OneRunPerGroup ==
    drops = 0 =>
        \A k \in Keys : \A a, b \in Apis :
            run[a][k].pc # "idle" /\ run[b][k].pc # "idle" => a = b

\* An active subscription without a trigger is stored: no process can start as
\* the leader.
StartBlocked == Groups \cap BadKeys # {}

\* Followers never ask for the lock again, and a subscription without a trigger
\* ends every start-up; yet once none is stored the background tasks come back:
\* whoever freed the lock is restarted and finds it free.
LeaderReturns == []<>(StartBlocked \/ \E a \in Apis : phase[a] = "leading")

\* After every crash, failed start-up and raising reload there is again a
\* leader that is up to date, unless start-up is blocked.
SchedulesReturn ==
    []<>(StartBlocked \/ \E a \in Apis : phase[a] = "leading" /\ Quiet(a) /\ UpToDate(a))
=============================================================================
