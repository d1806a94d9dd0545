------------------------- MODULE PipelineScheduler -------------------------
(***************************************************************************)
(* One standard pipeline run, from its creation to a terminal status:      *)
(* PipelineScheduler.start() and schedule() as every scheduler process     *)
(* runs them, run_block() as the worker processes run it, and the server's *)
(* cancel and retry requests, which take no lock.                          *)
(*                                                                         *)
(* Source: mage_ai/orchestration/pipeline_scheduler_original.py and        *)
(* mage_ai/orchestration/db/models/schedules.py.                           *)
(*                                                                         *)
(* A step of an actor ends where the code commits to the database or asks  *)
(* another process, so what an actor read before is stale afterwards:      *)
(* `view' is the actor's copy of the block runs and `list' the block runs  *)
(* it decided to act on.  The job queue is the one a client hopes for: a   *)
(* job is present from add_job() until its process ends.                   *)
(***************************************************************************)
EXTENDS Integers, FiniteSets

CONSTANTS
  Blocks,             \* the pipeline's blocks; one block run each
  Upstream,           \* Upstream[b]: the blocks b depends on directly
  Conditional,        \* the blocks that have a conditional block
  Schedulers,         \* the scheduler processes, one per replica
  Server,             \* the process that serves cancel and retry requests
  UsesRedis,          \* whether the scheduler's lock is a Redis key
  LeaseOutlivesPass,  \* whether a schedule() call ends before its lock expires
  AllowBlocksToFail,  \* the trigger's allow_blocks_to_fail
  BlockRunLimit,      \* concurrency_config.block_run_limit
  TimeoutStatuses,    \* statuses a timed out run may get; {} without a timeout
  BlocksWithTimeout,  \* the blocks that have a timeout
  MaxCrashes,         \* bound: processes that die in the middle of something
  MaxCancels,         \* bound: cancellations by a user or by memory pressure
  MaxRetries          \* bound: retry requests and failed initialisations

Actors == Schedulers \cup {Server}

RunStatus == {"initial", "running", "completed", "failed", "cancelled"}

\* "absent" is a block run that is not in the database.
BlockStatus ==
  {"absent", "initial", "queued", "running", "completed", "failed",
   "cancelled", "upstream_failed", "condition_failed"}

InProgress == {"initial", "queued", "running"}
QueuedOrRunning == {"queued", "running"}
Done == {"completed", "condition_failed"}
Failures == {"failed", "upstream_failed"}

\* Where the job of a block run is: not in the queue, waiting in it, or held
\* by a worker process that is at a step of run_block().
JobState == {"none", "queued", "claimed", "admitted", "executing", "ending"}

PC == {"idle", "create", "mark", "enter", "beat", "stopped", "decide",
       "propagate", "crashes", "dispatch", "timed_out", "kill",
       "stop_read", "stop_write", "stop_kill",
       "fail_read", "fail_write", "fail_kill"}

ASSUME SchedulerAssumption ==
  /\ Upstream \in [Blocks -> SUBSET Blocks]
  /\ Conditional \subseteq Blocks
  /\ Server \notin Schedulers
  /\ UsesRedis \in BOOLEAN
  /\ LeaseOutlivesPass \in BOOLEAN
  /\ AllowBlocksToFail \in BOOLEAN
  /\ BlockRunLimit \in Nat
  /\ TimeoutStatuses \subseteq {"failed", "cancelled"}
  /\ BlocksWithTimeout \subseteq Blocks
  /\ MaxCrashes \in Nat
  /\ MaxCancels \in Nat
  /\ MaxRetries \in Nat
  /\ IsFiniteSet(Blocks)

VARIABLES
  run,       \* PipelineRun.status
  blk,       \* BlockRun.status of every block
  job,       \* the job queue's state of every block run's job
  toKill,    \* block runs named by the GenericJob rows still to be handled
  pc,        \* what every actor does next
  view,      \* the block runs as the actor last read them
  list,      \* the block runs the actor is working through
  key,       \* DistributedLock: the key pipeline_run_<id>
  holders,   \* DistributedLock: the schedulers inside start() or schedule()
  everDone,  \* history: the blocks that have completed at some time
  crashes,   \* crashes so far
  cancels,   \* cancellations so far
  retries    \* retries and failed initialisations so far

dbVars == <<run, blk>>
localVars == <<pc, view, list>>
lockVars == <<key, holders>>
auxVars == <<everDone, crashes, cancels, retries>>
vars == <<run, blk, job, toKill, pc, view, list, key, holders, everDone,
          crashes, cancels, retries>>

Lock == INSTANCE DistributedLock WITH Processes <- Schedulers

TypeOK ==
  /\ run \in RunStatus
  /\ blk \in [Blocks -> BlockStatus]
  /\ job \in [Blocks -> JobState]
  /\ toKill \subseteq Blocks
  /\ pc \in [Actors -> PC]
  /\ view \in [Actors -> [Blocks -> BlockStatus]]
  /\ list \in [Actors -> SUBSET Blocks]
  /\ Lock!LockTypeOK
  /\ everDone \subseteq Blocks
  /\ crashes \in 0..MaxCrashes
  /\ cancels \in 0..MaxCancels
  /\ retries \in 0..MaxRetries

\* A reading of no block run: what an actor that is idle knows.
Nothing == [b \in Blocks |-> "absent"]

Init ==
  /\ run = "initial"
  /\ blk = Nothing
  /\ job = [b \in Blocks |-> "none"]
  /\ toKill = {}
  /\ pc = [a \in Actors |-> "idle"]
  /\ view = [a \in Actors |-> Nothing]
  /\ list = [a \in Actors |-> {}]
  /\ Lock!LockInit
  /\ everDone = {}
  /\ crashes = 0
  /\ cancels = 0
  /\ retries = 0

-----------------------------------------------------------------------------
(* Queries over a reading v of the block runs.                             *)

Having(v, statuses) == {b \in Blocks : v[b] \in statuses}

\* Broken variant: a run is over once nothing is queued or running.
NothingQueuedOrRunning(v) == Having(v, QueuedOrRunning) = {}

\* all_blocks_completed()
AllBlocksCompleted(v) ==
  \A b \in Blocks :
    v[b] \in Done \cup {"absent"} \cup (IF AllowBlocksToFail THEN Failures ELSE {})

\* any_blocks_failed()
AnyBlocksFailed(v) == Having(v, {"failed"}) # {}

\* Broken variant: one completed upstream block is enough.
ExecutableAfterAnyUpstream(v) ==
  {b \in Having(v, {"initial"}) :
     Upstream[b] = {} \/ \E u \in Upstream[b] : v[u] = "completed"}

\* Broken variant: an upstream block that is over, however it ended, will do.
ExecutableAfterEnd(v) ==
  {b \in Having(v, {"initial"}) : \A u \in Upstream[b] : v[u] \notin InProgress}

\* executable_block_runs(), for blocks that are neither dynamic nor
\* data integration.
Executable(v) ==
  {b \in Having(v, {"initial"}) : \A u \in Upstream[b] : v[u] = "completed"}

\* Broken variant: every skipped block run looks like one behind a failure.
AlwaysUpstreamFailed(v, b) == "upstream_failed"

\* The status that one call of update_block_run_statuses() gives a block.
SkipStatus(v, b) ==
  IF \E u \in Upstream[b] : v[u] \in Failures THEN "upstream_failed"
  ELSE "condition_failed"

\* The block runs of bs to which one call of it gives a status.
Skipped(v, bs) ==
  {b \in bs : \E u \in Upstream[b] : v[u] \in Failures \cup {"condition_failed"}}

\* JobManager.has_block_run_job()
HasJob(b) == job[b] # "none"

Goto(a, label) == pc' = [pc EXCEPT ![a] = label]
Look(a, v) == view' = [view EXCEPT ![a] = v]
Plan(a, bs) == list' = [list EXCEPT ![a] = bs]

\* Broken variant: an update that keeps nothing of the other block runs.
WriteOnly(bs, status) == [b \in bs |-> status]

Write(bs, status) == [b \in Blocks |-> IF b \in bs THEN status ELSE blk[b]]

WithoutJobs(bs) == [b \in Blocks |-> IF b \in bs THEN "none" ELSE job[b]]

-----------------------------------------------------------------------------
(* PipelineScheduler.start()                                               *)

StartRun(s) ==
  /\ pc[s] = "idle"
  /\ run = "initial"
  /\ Lock!TryAcquire(s)
  /\ Goto(s, "create")
  /\ UNCHANGED <<dbVars, job, toKill, view, list, auxVars>>

\* The block runs are created only when the run has none.
CreateBlockRuns(s) ==
  /\ pc[s] = "create"
  /\ blk' = IF Having(blk, BlockStatus \ {"absent"}) = {}
            THEN [b \in Blocks |-> "initial"]
            ELSE blk
  /\ Lock!Release(s)
  /\ Goto(s, "mark")
  /\ UNCHANGED <<run, job, toKill, view, list, auxVars>>

\* create_block_runs() commits one block run at a time and raises part way.
FailToCreateBlockRuns(s) ==
  /\ pc[s] = "create"
  /\ Having(blk, BlockStatus \ {"absent"}) = {}
  /\ retries < MaxRetries
  /\ retries' = retries + 1
  /\ \E created \in SUBSET Blocks :
       /\ created # Blocks
       /\ blk' = Write(created, "initial")
  /\ run' = "failed"
  /\ Lock!Release(s)
  /\ Goto(s, "idle")
  /\ UNCHANGED <<job, toKill, view, list, everDone, crashes, cancels>>

\* The status is written after the lock is released.
MarkRunning(s) ==
  /\ pc[s] = "mark"
  /\ run' = "running"
  /\ Goto(s, "enter")
  /\ UNCHANGED <<blk, job, toKill, view, list, lockVars, auxVars>>

-----------------------------------------------------------------------------
(* PipelineScheduler.schedule(): one pass over the run.                    *)

\* schedule_all() calls schedule() for the runs it reads as running, and
\* start() calls it for the run it has just started.
BeginPass(s) ==
  /\ \/ pc[s] = "idle" /\ run = "running"
     \/ pc[s] = "enter"
  /\ Lock!TryAcquire(s)
  /\ Goto(s, "beat")
  /\ UNCHANGED <<dbVars, job, toKill, view, list, auxVars>>

SkipPass(s) ==
  /\ pc[s] = "enter"
  /\ UsesRedis
  /\ key
  /\ Goto(s, "idle")
  /\ UNCHANGED <<dbVars, job, toKill, view, list, lockVars, auxVars>>

\* __run_heartbeat() is over: every block run is refreshed.
Refresh(s) ==
  /\ pc[s] \in {"beat", "stopped"}
  /\ Look(s, blk)
  /\ Plan(s, Having(blk, {"initial"}))
  /\ Goto(s, "decide")
  /\ UNCHANGED <<dbVars, job, toKill, lockVars, auxVars>>

LeavePass(s) ==
  /\ Lock!Leave(s)
  /\ Goto(s, "idle")
  /\ Look(s, Nothing)
  /\ Plan(s, {})

CompleteRun(s) ==
  /\ pc[s] = "decide"
  /\ AllBlocksCompleted(view[s])
  /\ ~AnyBlocksFailed(view[s])
  /\ run' = "completed"
  /\ LeavePass(s)
  /\ UNCHANGED <<blk, job, toKill, auxVars>>

\* Some block failed, and either every block is over or failures are not
\* allowed: the run fails and on_pipeline_run_failure() cancels the rest.
FailRun(s) ==
  /\ pc[s] = "decide"
  /\ AnyBlocksFailed(view[s])
  /\ AllBlocksCompleted(view[s]) \/ ~AllowBlocksToFail
  /\ run' = "failed"
  /\ Goto(s, "fail_read")
  /\ UNCHANGED <<blk, job, toKill, view, list, lockVars, auxVars>>

TimeOutRun(s) ==
  /\ pc[s] = "decide"
  /\ ~AllBlocksCompleted(view[s])
  /\ \E status \in TimeoutStatuses : run' = status
  /\ Goto(s, "fail_read")
  /\ UNCHANGED <<blk, job, toKill, view, list, lockVars, auxVars>>

MaySchedule(s) ==
  /\ ~AllBlocksCompleted(view[s])
  /\ AnyBlocksFailed(view[s]) => AllowBlocksToFail

\* __check_block_run_timeout(): on_block_failure() for a block run read as
\* running for too long, whose job is killed after that.
TimeOutBlock(s) ==
  /\ \/ pc[s] = "decide" /\ MaySchedule(s)
     \/ pc[s] = "timed_out"
  /\ \E b \in Having(view[s], {"running"}) \cap BlocksWithTimeout :
       /\ blk' = Write({b}, "failed")
       /\ Look(s, [view[s] EXCEPT ![b] = "failed"])
       /\ Plan(s, {b})
  /\ Goto(s, "kill")
  /\ UNCHANGED <<run, job, toKill, lockVars, auxVars>>

KillTimedOut(s) ==
  /\ pc[s] = "kill"
  /\ job' = WithoutJobs(list[s])
  /\ Plan(s, {})
  /\ Goto(s, "timed_out")
  /\ UNCHANGED <<dbVars, toKill, view, lockVars, auxVars>>

\* One call of update_block_run_statuses(), which calls itself with the
\* block runs it did not update for as long as it updates some.
UpdateBlockRunStatuses(s) ==
  /\ \/ pc[s] = "decide" /\ MaySchedule(s)
     \/ pc[s] = "propagate"
  /\ Skipped(view[s], list[s]) # {}
  /\ blk' = [b \in Blocks |->
               IF b \in Skipped(view[s], list[s]) THEN SkipStatus(view[s], b)
               ELSE blk[b]]
  /\ Look(s, blk')
  /\ Plan(s, list[s] \ Skipped(view[s], list[s]))
  /\ Goto(s, "propagate")
  /\ UNCHANGED <<run, job, toKill, lockVars, auxVars>>

\* No more status to update: __schedule_blocks() picks the executable block
\* runs, and __fetch_crashed_block_runs() refreshes them all.
PickExecutable(s) ==
  /\ \/ pc[s] = "decide" /\ MaySchedule(s)
     \/ pc[s] = "propagate"
  /\ Skipped(view[s], list[s]) = {}
  /\ Plan(s, Executable(view[s]))
  /\ Look(s, blk)
  /\ Goto(s, "crashes")
  /\ UNCHANGED <<dbVars, job, toKill, lockVars, auxVars>>

\* Broken variant: only block runs that were running can have crashed.
CrashedRunning(s) == {b \in Having(view[s], {"running"}) : ~HasJob(b)}

\* Broken variant: a block run that completed has no job either.
CrashedOrCompleted(s) ==
  {b \in Having(view[s], QueuedOrRunning \cup {"completed"}) : ~HasJob(b)}

\* A block run read as queued or running whose job is gone by now.
Crashed(s) == {b \in Having(view[s], QueuedOrRunning) : ~HasJob(b)}

\* Broken variant: the quota forgets the block runs that are queued.
OccupyingRunning(s, crashed) == Having(view[s], {"running"})

\* The block runs counted against block_run_limit, after the crashed ones
\* were written back; without any, the reading is still the old one.
Occupying(s, crashed) ==
  IF crashed = {} THEN Having(view[s], QueuedOrRunning)
  ELSE Having(Write(crashed, "initial"), QueuedOrRunning)

\* The crashed block runs come first in the list that the quota cuts.
FetchCrashedBlockRuns(s) ==
  /\ pc[s] = "crashes"
  /\ LET crashed == Crashed(s)
         quota == BlockRunLimit - Cardinality(Occupying(s, crashed))
         wanted == crashed \cup list[s]
     IN /\ blk' = Write(crashed, "initial")
        /\ \/ /\ quota > 0
              /\ \E chosen \in SUBSET wanted :
                   /\ Cardinality(chosen) <= quota
                   /\ chosen = wanted \/ Cardinality(chosen) = quota
                   /\ crashed \subseteq chosen \/ chosen \subseteq crashed
                   /\ Plan(s, chosen)
              /\ Goto(s, "dispatch")
              /\ UNCHANGED <<view, lockVars>>
           \/ /\ quota <= 0
              /\ LeavePass(s)
  /\ UNCHANGED <<run, job, toKill, auxVars>>

\* The block run is marked queued, whatever it became in the meantime, and
\* add_job() adds its job unless it has one.
Dispatch(s) ==
  /\ pc[s] = "dispatch"
  /\ \E b \in list[s] :
       /\ blk' = Write({b}, "queued")
       /\ job' = IF HasJob(b) THEN job ELSE [job EXCEPT ![b] = "queued"]
       /\ Plan(s, list[s] \ {b})
  /\ UNCHANGED <<run, toKill, pc, view, lockVars, auxVars>>

EndPass(s) ==
  /\ pc[s] \in {"dispatch", "timed_out"}
  /\ list[s] = {}
  /\ LeavePass(s)
  /\ UNCHANGED <<dbVars, job, toKill, auxVars>>

-----------------------------------------------------------------------------
(* Cancellation: stop_pipeline_run() and cancel_block_runs_and_jobs().     *)

\* A user's request, or memory_usage_failure() from the heartbeat.
StopPipelineRun(a) ==
  /\ \/ a = Server /\ pc[a] = "idle"
     \/ a \in Schedulers /\ pc[a] = "beat"
  /\ cancels < MaxCancels
  /\ run \in {"initial", "running"}
  /\ run' = "cancelled"
  /\ cancels' = cancels + 1
  /\ Goto(a, "stop_read")
  /\ UNCHANGED <<blk, job, toKill, view, list, lockVars, everDone, crashes, retries>>

ReadBlockRunsToCancel(a) ==
  /\ pc[a] \in {"stop_read", "fail_read"}
  /\ Look(a, blk)
  /\ Plan(a, Having(blk, InProgress))
  /\ Goto(a, IF pc[a] = "stop_read" THEN "stop_write" ELSE "fail_write")
  /\ UNCHANGED <<dbVars, job, toKill, lockVars, auxVars>>

CancelBlockRuns(a) ==
  /\ pc[a] \in {"stop_write", "fail_write"}
  /\ blk' = Write(list[a], "cancelled")
  /\ Goto(a, IF pc[a] = "stop_write" THEN "stop_kill" ELSE "fail_kill")
  /\ UNCHANGED <<run, job, toKill, view, list, lockVars, auxVars>>

\* Only the jobs of the block runs read as running are killed here; the
\* others are left to the GenericJob row, added last.
KillRunningJobs(a) ==
  /\ pc[a] \in {"stop_kill", "fail_kill"}
  /\ job' = WithoutJobs(Having(view[a], {"running"}))
  /\ toKill' = toKill \cup list[a]
  /\ \/ /\ pc[a] = "stop_kill" /\ a # Server
        /\ Goto(a, "stopped")
        /\ UNCHANGED <<view, list, lockVars>>
     \/ /\ pc[a] = "fail_kill" \/ a = Server
        /\ LeavePass(a)
  /\ UNCHANGED <<dbVars, auxVars>>

\* schedule_generic_jobs() and kill_cancelled_runs(), after the passes.
KillCancelledRuns(s) ==
  /\ pc[s] = "idle"
  /\ toKill # {}
  /\ job' = WithoutJobs(toKill)
  /\ toKill' = {}
  /\ UNCHANGED <<dbVars, localVars, lockVars, auxVars>>

-----------------------------------------------------------------------------
(* Retry requests, offered for a run that is over.                         *)

\* get_all_descendants(): the blocks reached from b over Upstream.
Descendants(b) ==
  {c \in Blocks :
     \A S \in SUBSET Blocks :
       (\A d \in Blocks : Upstream[d] \cap (S \cup {b}) # {} => d \in S) => c \in S}

Present(bs) == bs \cap Having(blk, BlockStatus \ {"absent"})

\* pipeline_run_action 'retry_blocks' of PipelineRunResource.update(), from a
\* selected block or for what is incomplete.
RetryBlocks ==
  /\ pc[Server] = "idle"
  /\ retries < MaxRetries
  /\ run \in {"completed", "failed", "cancelled"}
  /\ \/ \E b \in Blocks : blk' = Write(Present({b} \cup Descendants(b)), "initial")
     \/ blk' = IF run = "completed" THEN blk
               ELSE Write(Present(Blocks) \ Having(blk, {"completed"}), "initial")
  /\ run' = "running"
  /\ retries' = retries + 1
  /\ UNCHANGED <<job, toKill, localVars, lockVars, everDone, crashes, cancels>>

\* 'retry_incomplete_block_runs' of PipelineResource: failed runs only.
RetryIncompleteBlockRuns ==
  /\ pc[Server] = "idle"
  /\ retries < MaxRetries
  /\ run = "failed"
  /\ Present(Blocks) \ Having(blk, Done) # {}
  /\ blk' = Write(Present(Blocks) \ Having(blk, Done), "initial")
  /\ run' = "initial"
  /\ retries' = retries + 1
  /\ UNCHANGED <<job, toKill, localVars, lockVars, everDone, crashes, cancels>>

-----------------------------------------------------------------------------
(* run_block() in a worker process.                                        *)

ClaimJob(b) ==
  /\ job[b] = "queued"
  /\ job' = [job EXCEPT ![b] = "claimed"]
  /\ UNCHANGED <<dbVars, toKill, localVars, lockVars, auxVars>>

\* The early returns of run_block(), on what it reads.
AdmitBlockRun(b) ==
  /\ job[b] = "claimed"
  /\ job' = [job EXCEPT ![b] =
               IF run = "running" /\ blk[b] \in InProgress THEN "admitted" ELSE "none"]
  /\ UNCHANGED <<dbVars, toKill, localVars, lockVars, auxVars>>

RunBlock(b) ==
  /\ job[b] = "admitted"
  /\ blk' = [blk EXCEPT ![b] = "running"]
  /\ job' = [job EXCEPT ![b] = "executing"]
  /\ UNCHANGED <<run, toKill, localVars, lockVars, auxVars>>

\* on_block_complete_without_schedule(), on_block_failure(), or a condition
\* that is not met; the status is written whatever it is by then.
FinishBlock(b) ==
  /\ job[b] = "executing"
  /\ \E status \in {"completed", "failed"}
                   \cup (IF b \in Conditional THEN {"condition_failed"} ELSE {}) :
       /\ blk' = [blk EXCEPT ![b] = status]
       /\ everDone' = IF status = "completed" THEN everDone \cup {b} ELSE everDone
  /\ job' = [job EXCEPT ![b] = "ending"]
  /\ UNCHANGED <<run, toKill, localVars, lockVars, crashes, cancels, retries>>

\* The worker process runs callbacks and ends.
EndJob(b) ==
  /\ job[b] = "ending"
  /\ job' = [job EXCEPT ![b] = "none"]
  /\ UNCHANGED <<dbVars, toKill, localVars, lockVars, auxVars>>

-----------------------------------------------------------------------------
(* The environment: processes that die, and Redis's clock.                 *)

CrashWorker(b) ==
  /\ job[b] \in {"claimed", "admitted", "executing", "ending"}
  /\ crashes < MaxCrashes
  /\ crashes' = crashes + 1
  /\ job' = [job EXCEPT ![b] = "none"]
  /\ UNCHANGED <<dbVars, toKill, localVars, lockVars, everDone, cancels, retries>>

\* The server restarts a dead scheduler, which begins a new loop; the job
\* queue belongs to the server process and stays.
CrashScheduler(s) ==
  /\ pc[s] # "idle"
  /\ crashes < MaxCrashes
  /\ crashes' = crashes + 1
  /\ LeavePass(s)
  /\ UNCHANGED <<dbVars, job, toKill, everDone, cancels, retries>>

ExpireLock ==
  /\ LeaseOutlivesPass => holders = {}
  /\ Lock!Expire
  /\ UNCHANGED <<dbVars, job, toKill, localVars, auxVars>>

-----------------------------------------------------------------------------

SchedulerStep(s) ==
  \/ StartRun(s) \/ CreateBlockRuns(s) \/ MarkRunning(s)
  \/ BeginPass(s) \/ SkipPass(s) \/ Refresh(s)
  \/ CompleteRun(s) \/ FailRun(s) \/ TimeOutRun(s)
  \/ TimeOutBlock(s) \/ KillTimedOut(s)
  \/ UpdateBlockRunStatuses(s) \/ PickExecutable(s)
  \/ FetchCrashedBlockRuns(s) \/ Dispatch(s) \/ EndPass(s)
  \/ ReadBlockRunsToCancel(s) \/ CancelBlockRuns(s) \/ KillRunningJobs(s)

WorkerStep(b) ==
  ClaimJob(b) \/ AdmitBlockRun(b) \/ RunBlock(b) \/ FinishBlock(b) \/ EndJob(b)

ServerStep ==
  \/ StopPipelineRun(Server)
  \/ ReadBlockRunsToCancel(Server)
  \/ CancelBlockRuns(Server) \/ KillRunningJobs(Server)
  \/ RetryBlocks \/ RetryIncompleteBlockRuns

Next ==
  \/ \E s \in Schedulers :
       \/ SchedulerStep(s) \/ KillCancelledRuns(s)
       \/ FailToCreateBlockRuns(s) \/ StopPipelineRun(s) \/ CrashScheduler(s)
  \/ \E b \in Blocks : WorkerStep(b) \/ CrashWorker(b)
  \/ ServerStep
  \/ ExpireLock

Spec == Init /\ [][Next]_vars

(***************************************************************************)
(* Fairness.  Every scheduler process loops over the active runs every few *)
(* seconds, the server restarts one that died, workers are started for as  *)
(* long as the queue has jobs, blocks end, and Redis counts an expiry      *)
(* down.  The last conjunct leaves out one way to run for ever: a block    *)
(* run that ends between the reading and the job check of one pass after   *)
(* the other is run again each time.                                       *)
(***************************************************************************)

LosesOutcome ==
  \E b \in Blocks :
    blk[b] \in {"completed", "failed", "condition_failed"} /\ blk'[b] = "initial"

Fairness ==
  /\ \A s \in Schedulers : WF_vars(SchedulerStep(s))
  /\ \A b \in Blocks : WF_vars(WorkerStep(b))
  /\ WF_vars(ReadBlockRunsToCancel(Server) \/ CancelBlockRuns(Server) \/ KillRunningJobs(Server))
  /\ WF_vars(ExpireLock)
  /\ <>[][~LosesOutcome]_vars

FairSpec == Spec /\ Fairness

-----------------------------------------------------------------------------
(* Properties.                                                             *)

Starts(b) == job[b] = "admitted" /\ job'[b] = "executing"

\* A block starts running only when all its upstream blocks are completed:
\* whatever ran, crashed or timed out between the pass that chose it and the
\* worker that runs it.
StartsAfterUpstream ==
  [][\A b \in Blocks : Starts(b) => \A u \in Upstream[b] : blk[u] = "completed"]_vars

\* Cancellations, retries and schedulers that overlap may undo the statuses a
\* block was chosen on, and still no block starts before each of its upstream
\* blocks has completed at least once.
UpstreamHasRun ==
  [][\A b \in Blocks : Starts(b) => Upstream[b] \subseteq everDone]_vars

\* The quota of __schedule_blocks() is computed from one reading of the block
\* runs and spent one block run at a time while workers change their statuses:
\* a run never has more block runs queued or running than block_run_limit.
WithinBlockRunLimit == Cardinality(Having(blk, QueuedOrRunning)) <= BlockRunLimit

\* schedule() decides on what it read at its start; a run it marks completed
\* is one whose blocks are over, in the database and not only in that reading,
\* and has a failed block only if blocks are allowed to fail.
CompletesWhenDone ==
  [][run # "completed" /\ run' = "completed"
     => \A b \in Blocks :
          blk[b] \in Done \cup (IF AllowBlocksToFail THEN {"upstream_failed"} ELSE {})]_vars

\* update_block_run_statuses() works on a reading too: a block run is skipped
\* only behind an upstream block that failed, did not meet its condition, or
\* was skipped for such a reason, and under the status that tells which.
SkippedForCause ==
  \A b \in Blocks :
    /\ blk[b] = "upstream_failed" => \E u \in Upstream[b] : blk[u] \in Failures
    /\ blk[b] = "condition_failed" =>
         b \in Conditional \/ \E u \in Upstream[b] : blk[u] = "condition_failed"

\* At most one scheduler is inside start() or schedule() of the run, crashes
\* and the expiry of the lock included.
OnePassAtATime == Lock!OneHolder

\* A block run that has completed is not run again unless a retry asks for it.
CompletedStays ==
  [][\A b \in Blocks :
       blk[b] = "completed" /\ retries' = retries => blk'[b] = "completed"]_vars

\* stop_pipeline_run() stops the run: nothing but a retry makes a cancelled
\* run anything else, whatever pass or start was under way.
StopIsFinal ==
  [][run = "cancelled" /\ retries' = retries => run' = "cancelled"]_vars

\* What the status of a block run says of its block.
PhaseOf(status) ==
  IF status \in {"absent", "initial", "queued"} THEN "waiting"
  ELSE IF status = "completed" THEN "done"
  ELSE IF status \in {"upstream_failed", "condition_failed"} THEN "skipped"
  ELSE status

Promise == INSTANCE PipelineRun WITH phase <- [b \in Blocks |-> PhaseOf(blk[b])]

\* The scheduler, the workers and their crashes implement the run as its user
\* sees it: each of their steps is a step of that run or changes nothing of it.
KeepsPromise == Promise!Spec

\* A run that has started comes to an end: no crash of a worker or of a
\* scheduler, no skipped block and no full quota leaves it running for ever.
RunTerminates == run = "running" ~> run \in {"completed", "failed", "cancelled"}
=============================================================================
