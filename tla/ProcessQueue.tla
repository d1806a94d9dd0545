---------------------------- MODULE ProcessQueue ----------------------------
(***************************************************************************)
(* The default job queue, mage_ai/orchestration/queue/process_queue.py:    *)
(* the scheduler process as the client that enqueues and cleans up, the    *)
(* server process that kills jobs, the pool process that starts workers,   *)
(* and the worker processes, each of which runs one job and ends.  They    *)
(* share an mp.Queue of jobs and a manager's dictionary of job statuses,   *)
(* and take no lock: every access to either of the two is a step.          *)
(*                                                                         *)
(* Without Redis (redis_client is None) and without QueueStatus: a client  *)
(* enqueues only after start().                                            *)
(***************************************************************************)
EXTENDS Naturals, Sequences, FiniteSets

CONSTANTS
  Jobs,         \* job ids
  Pids,         \* process ids of workers
  Pools,        \* pool processes; one that has ended may stand for a new one
  NoPool,       \* worker_pool_proc is None
  Size,         \* the size of the worker pool
  MaxQueue,     \* bound: jobs in the queue
  MaxCrashes,   \* bound: workers that die in the middle of something
  MaxRestarts,  \* bound: restarts of the scheduler process
  MaxKills      \* bound: calls of kill_job()

\* JobStatus; the status of a running job is the id of its process, and
\* "none" is a job that is not in the dictionary.
JobStatus == {"none", "queued", "completed", "cancelled"}

ASSUME QueueAssumption ==
  /\ Jobs # {}
  /\ Size \in Nat \ {0}
  /\ Pids \cap JobStatus = {}
  /\ NoPool \notin Pools
  /\ IsFiniteSet(Pids)
  /\ MaxQueue \in Nat
  /\ MaxCrashes \in Nat
  /\ MaxRestarts \in Nat
  /\ MaxKills \in Nat

VARIABLES
  queue,      \* jobs in the pipe of the mp.Queue
  buffer,     \* jobs put by the client that its feeder thread has not sent yet
  jobDict,    \* job_dict
  cpc,        \* what the client does next
  cjob,       \* the job it is busy with
  seen,       \* what it read of that job in job_dict
  handle,     \* the client's worker_pool_proc
  pool,       \* what every pool process does next
  workers,    \* the worker processes in each pool's list
  wpc,        \* what every worker process does next
  wjob,       \* the job every worker process got
  kpc,        \* what kill_job() does next in the server
  kjob,       \* its job
  kseen,      \* what it read of that job in job_dict
  crashes, restarts, kills   \* so far

clientVars == <<cpc, cjob, seen, handle>>
poolVars == <<pool, workers>>
workerVars == <<wpc, wjob>>
killVars == <<kpc, kjob, kseen>>
boundVars == <<crashes, restarts, kills>>
vars == <<queue, buffer, jobDict, cpc, cjob, seen, handle, pool, workers,
          wpc, wjob, kpc, kjob, kseen, crashes, restarts, kills>>

ClientPC == {"idle", "enqueue", "clean_up", "put", "record", "ensure_pool", "delete"}
PoolPC == {"off", "top", "fill", "leaving"}

\* "gone" is a process id without a process; a "zombie" has ended, and its
\* process id exists until the pool process waits for it.
WorkerPC == {"gone", "started", "get", "check", "claim", "running", "zombie"}

TypeOK ==
  /\ queue \in Seq(Jobs)
  /\ buffer \in Seq(Jobs)
  /\ jobDict \in [Jobs -> JobStatus \cup Pids]
  /\ cpc \in ClientPC
  /\ cjob \in Jobs
  /\ seen \in JobStatus \cup Pids
  /\ handle \in Pools \cup {NoPool}
  /\ pool \in [Pools -> PoolPC]
  /\ workers \in [Pools -> SUBSET Pids]
  /\ wpc \in [Pids -> WorkerPC]
  /\ wjob \in [Pids -> Jobs]
  /\ kpc \in {"idle", "signal", "mark"}
  /\ kjob \in Jobs
  /\ kseen \in JobStatus \cup Pids
  /\ crashes \in 0..MaxCrashes
  /\ restarts \in 0..MaxRestarts
  /\ kills \in 0..MaxKills

\* The value of a variable that names a job while its process has none.
AnyJob == CHOOSE j \in Jobs : TRUE

Init ==
  /\ queue = <<>>
  /\ buffer = <<>>
  /\ jobDict = [j \in Jobs |-> "none"]
  /\ cpc = "idle"
  /\ cjob = AnyJob
  /\ seen = "none"
  /\ handle = NoPool
  /\ pool = [q \in Pools |-> "off"]
  /\ workers = [q \in Pools |-> {}]
  /\ wpc = [p \in Pids |-> "gone"]
  /\ wjob = [p \in Pids |-> AnyJob]
  /\ kpc = "idle"
  /\ kjob = AnyJob
  /\ kseen = "none"
  /\ crashes = 0
  /\ restarts = 0
  /\ kills = 0

Live == {p \in Pids : wpc[p] \notin {"gone", "zombie"}}

Become(p, label) ==
  /\ wpc' = [wpc EXCEPT ![p] = label]
  /\ wjob' = IF label = "zombie" THEN [wjob EXCEPT ![p] = AnyJob] ELSE wjob

Record(j, status) == jobDict' = [jobDict EXCEPT ![j] = status]

-----------------------------------------------------------------------------
(* has_job(), by its two accesses: the dictionary is read first, and for a *)
(* job read as queued the queue is looked at after that.                   *)

LookUp(j) ==
  /\ cpc = "idle"
  /\ cjob' = j
  /\ seen' = jobDict[j]
  /\ cpc' \in {"enqueue", "clean_up"}
  /\ UNCHANGED <<queue, buffer, jobDict, handle, poolVars, workerVars, killVars, boundVars>>

Found ==
  \/ seen = "queued" /\ queue # <<>>
  \/ seen \in Pids /\ wpc[seen] # "gone"

ClientGoes(label) ==
  /\ cpc' = label
  /\ IF label = "idle" THEN cjob' = AnyJob /\ seen' = "none" ELSE UNCHANGED <<cjob, seen>>
  /\ UNCHANGED <<poolVars, workerVars, killVars, boundVars>>

-----------------------------------------------------------------------------
(* enqueue() and clean_up_jobs(), in the scheduler process.                *)

EnqueueOrSkip ==
  /\ cpc = "enqueue"
  /\ ClientGoes(IF Found THEN "idle" ELSE "put")
  /\ UNCHANGED <<queue, buffer, jobDict, handle>>

Put ==
  /\ cpc = "put"
  /\ Len(queue) + Len(buffer) < MaxQueue
  /\ buffer' = Append(buffer, cjob)
  /\ ClientGoes("record")
  /\ UNCHANGED <<queue, jobDict, handle>>

RecordQueued ==
  /\ cpc = "record"
  /\ Record(cjob, "queued")
  /\ ClientGoes("ensure_pool")
  /\ UNCHANGED <<queue, buffer, handle>>

\* Broken variant: a pool without workers counts as ended.
PoolBusy == handle # NoPool /\ pool[handle] # "off" /\ workers[handle] # {}

PoolAlive == handle # NoPool /\ pool[handle] # "off"

EnsurePool ==
  /\ cpc = "ensure_pool"
  /\ cpc' = "idle"
  /\ cjob' = AnyJob
  /\ seen' = "none"
  /\ \/ PoolAlive /\ UNCHANGED <<handle, pool>>
     \/ /\ ~PoolAlive
        /\ \E q \in Pools :
             /\ pool[q] = "off"
             /\ pool' = [pool EXCEPT ![q] = "top"]
             /\ handle' = q
  /\ UNCHANGED <<queue, buffer, jobDict, workers, workerVars, killVars, boundVars>>

CleanUpOrKeep ==
  /\ cpc = "clean_up"
  /\ ClientGoes(IF Found \/ seen = "none" THEN "idle" ELSE "delete")
  /\ UNCHANGED <<queue, buffer, jobDict, handle>>

DeleteJob ==
  /\ cpc = "delete"
  /\ Record(cjob, "none")
  /\ ClientGoes("idle")
  /\ UNCHANGED <<queue, buffer, handle>>

\* The feeder thread of the mp.Queue in the client.
Feed ==
  /\ buffer # <<>>
  /\ queue' = Append(queue, Head(buffer))
  /\ buffer' = Tail(buffer)
  /\ UNCHANGED <<jobDict, clientVars, poolVars, workerVars, killVars, boundVars>>

\* The scheduler dies and the server forks a new one, which has the queue and
\* the dictionary, no pool, and an empty buffer.
Restart ==
  /\ restarts < MaxRestarts
  /\ restarts' = restarts + 1
  /\ cpc' = "idle"
  /\ cjob' = AnyJob
  /\ seen' = "none"
  /\ handle' = NoPool
  /\ buffer' = <<>>
  /\ UNCHANGED <<queue, jobDict, poolVars, workerVars, killVars, crashes, kills>>

-----------------------------------------------------------------------------
(* poll_job_and_execute(), in a pool process.                              *)

\* is_alive() waits for the worker processes that have ended.

\* Broken variant: nobody waits.
ReapNone(ended) == wpc

Reap(ended) == [p \in Pids |-> IF p \in ended THEN "gone" ELSE wpc[p]]

\* Broken variant: leaves without a look into the queue.
PruneAndLeave(q) ==
  /\ pool[q] = "top"
  /\ workers' = [workers EXCEPT ![q] = @ \cap Live]
  /\ wpc' = Reap(workers[q] \ Live)
  /\ pool' = [pool EXCEPT ![q] = IF workers[q] \cap Live = {} THEN "leaving" ELSE "fill"]
  /\ UNCHANGED <<queue, buffer, jobDict, clientVars, wjob, killVars, boundVars>>

Prune(q) ==
  /\ pool[q] = "top"
  /\ workers' = [workers EXCEPT ![q] = @ \cap Live]
  /\ wpc' = Reap(workers[q] \ Live)
  /\ pool' = [pool EXCEPT ![q] =
                IF workers[q] \cap Live = {} /\ queue = <<>> THEN "leaving" ELSE "fill"]
  /\ UNCHANGED <<queue, buffer, jobDict, clientVars, wjob, killVars, boundVars>>

\* Starting a process waits for those that have ended, but keeps them in the
\* list.  A process id that job_dict, the list or a pending kill refers to is
\* not given to a new process.
StartWorker(q) ==
  /\ pool[q] = "fill"
  /\ queue # <<>>
  /\ Cardinality(workers[q]) < Size
  /\ \E p \in Pids :
       /\ wpc[p] = "gone"
       /\ p # kseen
       /\ \A j \in Jobs : jobDict[j] # p
       /\ \A r \in Pools : p \notin workers[r]
       /\ workers' = [workers EXCEPT ![q] = @ \cup {p}]
       /\ wpc' = [Reap(workers[q] \ Live) EXCEPT ![p] = "started"]
  /\ UNCHANGED <<queue, buffer, jobDict, clientVars, pool, wjob, killVars, boundVars>>

Sleep(q) ==
  /\ pool[q] = "fill"
  /\ queue = <<>> \/ Cardinality(workers[q]) >= Size
  /\ pool' = [pool EXCEPT ![q] = "top"]
  /\ UNCHANGED <<queue, buffer, jobDict, clientVars, workers, workerVars, killVars, boundVars>>

EndPool(q) ==
  /\ pool[q] = "leaving"
  /\ pool' = [pool EXCEPT ![q] = "off"]
  /\ UNCHANGED <<queue, buffer, jobDict, clientVars, workers, workerVars, killVars, boundVars>>

-----------------------------------------------------------------------------
(* Worker.run()                                                            *)

LookIntoQueue(p) ==
  /\ wpc[p] = "started"
  /\ Become(p, IF queue = <<>> THEN "zombie" ELSE "get")
  /\ UNCHANGED <<queue, buffer, jobDict, clientVars, poolVars, killVars, boundVars>>

\* get() blocks until there is a job.
GetJob(p) ==
  /\ wpc[p] = "get"
  /\ queue # <<>>
  /\ wjob' = [wjob EXCEPT ![p] = Head(queue)]
  /\ queue' = Tail(queue)
  /\ wpc' = [wpc EXCEPT ![p] = "check"]
  /\ UNCHANGED <<buffer, jobDict, clientVars, poolVars, killVars, boundVars>>

\* A job that is not in the dictionary ends the process with a KeyError, one
\* with any other status makes run() return.
CheckQueued(p) ==
  /\ wpc[p] = "check"
  /\ Become(p, IF jobDict[wjob[p]] = "queued" THEN "claim" ELSE "zombie")
  /\ UNCHANGED <<queue, buffer, jobDict, clientVars, poolVars, killVars, boundVars>>

\* Broken variant: claims with JobStatus.RUNNING instead of the process id.
ClaimAsRunning(p) ==
  /\ wpc[p] = "claim"
  /\ Record(wjob[p], "running")
  /\ Become(p, "running")
  /\ UNCHANGED <<queue, buffer, clientVars, poolVars, killVars, boundVars>>

ClaimJob(p) ==
  /\ wpc[p] = "claim"
  /\ Record(wjob[p], p)
  /\ Become(p, "running")
  /\ UNCHANGED <<queue, buffer, clientVars, poolVars, killVars, boundVars>>

FinishJob(p) ==
  /\ wpc[p] = "running"
  /\ Record(wjob[p], "completed")
  /\ Become(p, "zombie")
  /\ UNCHANGED <<queue, buffer, clientVars, poolVars, killVars, boundVars>>

\* A worker dies, out of memory or in the code of its job.  Death inside get(),
\* which would leave the lock of the mp.Queue held, is left out.
Crash(p) ==
  /\ p \in Live
  /\ wpc[p] # "get"
  /\ crashes < MaxCrashes
  /\ crashes' = crashes + 1
  /\ Become(p, "zombie")
  /\ UNCHANGED <<queue, buffer, jobDict, clientVars, poolVars, killVars, restarts, kills>>

-----------------------------------------------------------------------------
(* kill_job(), in the server process.                                      *)

KillJob(j) ==
  /\ kpc = "idle"
  /\ jobDict[j] # "none"
  /\ kills < MaxKills
  /\ kills' = kills + 1
  /\ kjob' = j
  /\ kseen' = jobDict[j]
  /\ kpc' = IF jobDict[j] \in Pids THEN "signal" ELSE "mark"
  /\ UNCHANGED <<queue, buffer, jobDict, clientVars, poolVars, workerVars, crashes, restarts>>

Signal ==
  /\ kpc = "signal"
  /\ kpc' = "mark"
  /\ IF kseen \in Live THEN Become(kseen, "zombie") ELSE UNCHANGED workerVars
  /\ UNCHANGED <<queue, buffer, jobDict, clientVars, poolVars, kjob, kseen, boundVars>>

MarkCancelled ==
  /\ kpc = "mark"
  /\ kpc' = "idle"
  /\ Record(kjob, "cancelled")
  /\ kjob' = AnyJob
  /\ kseen' = "none"
  /\ UNCHANGED <<queue, buffer, clientVars, poolVars, workerVars, boundVars>>

-----------------------------------------------------------------------------

ClientStep ==
  \/ EnqueueOrSkip \/ Put \/ RecordQueued \/ EnsurePool
  \/ CleanUpOrKeep \/ DeleteJob

PoolStep(q) == Prune(q) \/ StartWorker(q) \/ Sleep(q) \/ EndPool(q)

WorkerStep(p) ==
  LookIntoQueue(p) \/ GetJob(p) \/ CheckQueued(p) \/ ClaimJob(p) \/ FinishJob(p)

Next ==
  \/ \E j \in Jobs : LookUp(j) \/ KillJob(j)
  \/ ClientStep \/ Feed \/ Restart
  \/ \E q \in Pools : PoolStep(q)
  \/ \E p \in Pids : WorkerStep(p) \/ Crash(p)
  \/ Signal \/ MarkCancelled

Spec == Init /\ [][Next]_vars

\* Every process keeps running, and every job ends.
Fairness ==
  /\ WF_vars(ClientStep)
  /\ WF_vars(Feed)
  /\ \A q \in Pools : WF_vars(PoolStep(q))
  /\ \A p \in Pids : WF_vars(WorkerStep(p))
  /\ WF_vars(Signal \/ MarkCancelled)

FairSpec == Spec /\ Fairness

\* The client asks for every job again and again, as the scheduler's loop does
\* for what it finds without a job.
RetrySpec ==
  FairSpec /\ \A j \in Jobs : SF_vars(LookUp(j) /\ cpc' = "enqueue")

-----------------------------------------------------------------------------
(* Properties.                                                             *)

\* The pool starts workers one at a time from a list that it prunes once a
\* round, and the client starts another pool when its own has ended: one
\* scheduler process never has more workers than the size of the pool, whatever
\* crashes or is killed.  The pool of a scheduler that died goes on until the
\* queue is empty, so that every restart can add as many.
WithinConcurrency == Cardinality(Live) <= Size * (restarts + 1)

\* The pool process polls: the job at the head of the queue is taken by a
\* worker, the workers that found the queue empty, that died, or that wait for
\* another job notwithstanding.
Polling == \E q \in Pools : pool[q] \in {"top", "fill"}

HeadIsTaken ==
  \A j \in Jobs :
    (Polling /\ queue # <<>> /\ Head(queue) = j)
      ~> (\E p \in Pids : wjob[p] = j /\ wpc[p] = "check")

\* A worker process that dies leaves its id in job_dict, and a zombie's process
\* id exists: has_job() does not go on for ever taking its job for alive.
CrashDetected ==
  \A j \in Jobs :
    (jobDict[j] \in Pids /\ jobDict[j] \notin Live)
      ~> (jobDict[j] \notin Pids \/ jobDict[j] \in Live \/ wpc[jobDict[j]] = "gone")

\* A job that is in the queue or is being executed is not enqueued again, so
\* no two workers run the same job at the same time.
OneWorkerPerJob ==
  \A p, q \in Pids :
    wpc[p] = "running" /\ wpc[q] = "running" /\ wjob[p] = wjob[q] => p = q

\* A job that was enqueued is executed in the worker pool: a worker takes it.
\* Stated for the only job that waits, which no bound of the model holds up.
QueuedJobIsTaken ==
  \A j \in Jobs :
    (queue = <<j>> /\ buffer = <<>>) ~> (\E p \in Pids : wjob[p] = j /\ wpc[p] = "check")
=============================================================================
