----------------------------- MODULE SweepLock -----------------------------
(***************************************************************************)
(* The advisory lock around the daily trash sweep (FileCleanupService,     *)
(* sweepExpiredTrash).  It is a lock of the database SESSION, and each     *)
(* query the sweep sends goes out on whichever connection of the client's  *)
(* pool is free: the lock and the unlock need not share a connection.      *)
(***************************************************************************)
EXTENDS Integers, FiniteSets

CONSTANTS
  Instances,  \* server processes, one connection pool each
  Conns,
  PoolOf,     \* the connections of each instance
  Jobs,       \* bound: runs of the cron job at once (a run may outlast a day)
  InstanceOf, \* the instance a job runs on
  MaxDepth,   \* bound: how often one session takes the lock
  NoConn

ASSUME LockAssumption ==
  /\ PoolOf \in [Instances -> SUBSET Conns]
  /\ \A i, k \in Instances : i # k => PoolOf[i] \cap PoolOf[k] = {}
  /\ IsFiniteSet(Jobs)
  /\ InstanceOf \in [Jobs -> Instances]
  /\ MaxDepth \in Nat
  /\ NoConn \notin Conns

VARIABLES
  holder,  \* the connection whose session holds the lock
  depth,   \* how often that session has taken it
  job      \* what each job is doing

lockVars == <<holder, depth, job>>

Pool(j) == PoolOf[InstanceOf[j]]

LockInit ==
  /\ holder = NoConn
  /\ depth = 0
  /\ job = [j \in Jobs |-> "idle"]

\* Mutant: the answer of the query is not looked at.
SweepAnyway(j, c) ==
  /\ job[j] = "idle" /\ c \in Pool(j)
  /\ depth < MaxDepth
  /\ IF holder \in {NoConn, c} THEN holder' = c /\ depth' = depth + 1
                               ELSE UNCHANGED <<holder, depth>>
  /\ job' = [job EXCEPT ![j] = "sweeping"]

\* pg_try_advisory_lock: a session may take a lock it already holds.  Where
\* it answers false the job is over before it began.
TryLock(j, c) ==
  /\ job[j] = "idle" /\ c \in Pool(j)
  /\ holder \in {NoConn, c}
  /\ depth < MaxDepth
  /\ holder' = c /\ depth' = depth + 1
  /\ job' = [job EXCEPT ![j] = "sweeping"]

\* processExpired returns or throws; the finally block unlocks.
EndSweep(j) ==
  /\ job[j] = "sweeping"
  /\ job' = [job EXCEPT ![j] = "unlocking"]
  /\ UNCHANGED <<holder, depth>>

\* Mutant: the unlock frees the lock whoever holds it.
UnlockAlways(j, c) ==
  /\ job[j] = "unlocking" /\ c \in Pool(j)
  /\ depth' = depth - 1 /\ holder' = NoConn
  /\ job' = [job EXCEPT ![j] = "idle"]

\* pg_advisory_unlock on a session that does not hold the lock only warns.
Unlock(j, c) ==
  /\ job[j] = "unlocking" /\ c \in Pool(j)
  /\ IF holder = c
     THEN /\ depth' = depth - 1
          /\ holder' = IF depth = 1 THEN NoConn ELSE c
     ELSE UNCHANGED <<holder, depth>>
  /\ job' = [job EXCEPT ![j] = "idle"]

\* The process ends: so do its jobs, its connections and their locks.
Crash(i) ==
  /\ job' = [j \in Jobs |-> IF InstanceOf[j] = i THEN "idle" ELSE job[j]]
  /\ IF holder \in PoolOf[i] THEN holder' = NoConn /\ depth' = 0
                             ELSE UNCHANGED <<holder, depth>>

LockNext ==
  \/ \E j \in Jobs :
       \/ \E c \in Conns : TryLock(j, c) \/ Unlock(j, c)
       \/ EndSweep(j)
  \/ \E i \in Instances : Crash(i)

LockSpec == LockInit /\ [][LockNext]_lockVars

-----------------------------------------------------------------------------

Running == {j \in Jobs : job[j] # "idle"}

\* Type invariant.
LockTypeOK ==
  /\ holder \in Conns \cup {NoConn}
  /\ depth \in Nat
  /\ job \in [Jobs -> {"idle", "sweeping", "unlocking"}]
  /\ holder = NoConn <=> depth = 0

\* As long as its connections stay open, an instance that sweeps keeps every
\* other one out, however its jobs overlap and wherever their unlocks land.
InstancesExclude ==
  \A j, k \in Running : InstanceOf[j] = InstanceOf[k]
=============================================================================
