----------------------------- MODULE LeaderLock -----------------------------
(***************************************************************************)
(* Which API process runs the background tasks (core/leader_lock.py, and   *)
(* the lifespan of api/main.py).                                           *)
(*                                                                         *)
(* Every API process tries pg_try_advisory_lock once, when it starts.  The *)
(* one that gets it starts the scheduler and the stale reaper and holds    *)
(* the database connection, so the lock, until it stops; the others serve  *)
(* requests only and never try again.  The lock belongs to the connection: *)
(* PostgreSQL frees it when the connection ends, whoever ends it, and      *)
(* nothing tells the process.  A process that ends is started again by its *)
(* supervisor (uvicorn --workers, docker restart: unless-stopped).         *)
(***************************************************************************)
EXTENDS Integers, FiniteSets

CONSTANTS Apis,         \* the API processes
          Nobody,       \* no connection holds the lock
          MaxCrashes,   \* bound: processes killed
          MaxDrops      \* bound: leader connections the database loses

ASSUME LeaderAssumption ==
    /\ Nobody \notin Apis
    /\ MaxCrashes \in Nat /\ MaxDrops \in Nat

VARIABLES lock,         \* the process whose connection holds the lock
          phase,        \* where each process is in its lifespan
          crashes, drops

leaderVars == <<lock, phase, crashes, drops>>

\* A "starting" process was told it is the leader and registers its jobs; a
\* "stopping" one has shut its scheduler down and not yet unlocked.
Phases == {"down", "starting", "leading", "stopping", "following"}

LeaderTypeOK ==
    /\ lock \in Apis \cup {Nobody}
    /\ phase \in [Apis -> Phases]
    /\ crashes \in 0 .. MaxCrashes
    /\ drops \in 0 .. MaxDrops

LeaderInit ==
    /\ lock = Nobody
    /\ phase = [a \in Apis |-> "down"]
    /\ crashes = 0
    /\ drops = 0

\* The handlers run between start-up and shutdown.
Serving(a) == phase[a] \in {"leading", "following"}

\* Variant: the lock outlives the connection that took it.
Freed_Never(a) == lock

\* The lock once a's connection is closed.
Freed(a) == IF lock = a THEN Nobody ELSE lock

-----------------------------------------------------------------------------
\* Variant: whoever asks is told it is the leader.
Acquire_Unchecked(a) ==
    /\ phase[a] = "down"
    /\ lock' = a
    /\ phase' = [phase EXCEPT ![a] = "starting"]
    /\ UNCHANGED <<crashes, drops>>

\* pg_try_advisory_lock returns true.
Acquire(a) ==
    /\ phase[a] = "down"
    /\ lock = Nobody
    /\ lock' = a
    /\ phase' = [phase EXCEPT ![a] = "starting"]
    /\ UNCHANGED <<crashes, drops>>

\* pg_try_advisory_lock returns false: the process never asks again.
Follow(a) ==
    /\ phase[a] = "down"
    /\ lock # Nobody
    /\ phase' = [phase EXCEPT ![a] = "following"]
    /\ UNCHANGED <<lock, crashes, drops>>

\* StrategyScheduler.start has returned; the reaper task is created.
Lead(a) ==
    /\ phase[a] = "starting"
    /\ phase' = [phase EXCEPT ![a] = "leading"]
    /\ UNCHANGED <<lock, crashes, drops>>

\* Variant: the connection that took the lock is left open.
StartFails_KeepsLock(a) ==
    /\ phase[a] = "starting"
    /\ phase' = [phase EXCEPT ![a] = "down"]
    /\ UNCHANGED <<lock, crashes, drops>>

\* StrategyScheduler.start raises: the finally of api_background_leader
\* unlocks, and the process exits.  Not bounded: what makes it raise may be
\* stored, and then every start-up raises.
StartFails(a) ==
    /\ phase[a] = "starting"
    /\ lock' = Freed(a)
    /\ phase' = [phase EXCEPT ![a] = "down"]
    /\ UNCHANGED <<crashes, drops>>

\* Shutdown stops the reaper and the scheduler before it unlocks.
StopWork(a) ==
    /\ Serving(a)
    /\ phase' = [phase EXCEPT ![a] = IF @ = "leading" THEN "stopping" ELSE "down"]
    /\ UNCHANGED <<lock, crashes, drops>>

\* The finally of api_background_leader: unlock and close the connection.
Unlock(a) ==
    /\ phase[a] = "stopping"
    /\ lock' = Freed(a)
    /\ phase' = [phase EXCEPT ![a] = "down"]
    /\ UNCHANGED <<crashes, drops>>

\* The process is killed; its sockets close with it.
Crash(a) ==
    /\ phase[a] # "down"
    /\ crashes < MaxCrashes
    /\ crashes' = crashes + 1
    /\ lock' = Freed(a)
    /\ phase' = [phase EXCEPT ![a] = "down"]
    /\ UNCHANGED drops

\* PostgreSQL restarts, or ends the session: the lock is free, the process
\* that took it does not know.
DropConnection ==
    /\ lock # Nobody
    /\ drops < MaxDrops
    /\ drops' = drops + 1
    /\ lock' = Nobody
    /\ UNCHANGED <<phase, crashes>>

LeaderNext ==
    \/ \E a \in Apis :
        \/ Acquire(a) \/ Follow(a) \/ Lead(a) \/ StartFails(a)
        \/ StopWork(a) \/ Unlock(a) \/ Crash(a)
    \/ DropConnection

LeaderSpec == LeaderInit /\ [][LeaderNext]_leaderVars

-----------------------------------------------------------------------------
(* Properties.                                                             *)

\* What core/leader_lock.py promises: one process at a time runs the
\* scheduler and the stale reaper.
OneLeader == \A a, b \in Apis : phase[a] = "leading" /\ phase[b] = "leading" => a = b

\* As long as the database keeps the leader's connection, a process at work
\* between taking the lock and giving it back really holds it, through every
\* crash, failed start-up, graceful stop and restart.
LeaderHoldsLock ==
    drops = 0 => \A a \in Apis :
                    phase[a] \in {"starting", "leading", "stopping"} => lock = a

\* The promise, under the condition it needs.
OneLeaderWhileConnected == drops = 0 => OneLeader


=============================================================================
