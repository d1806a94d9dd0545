------------------------ MODULE LoneScheduler_proofs ------------------------
(***************************************************************************)
(* What PipelineScheduler promises when one scheduler process works on the *)
(* run and nobody interferes with it: for every pipeline, every limit,     *)
(* every timeout of the run, whether or not blocks may fail, and whatever  *)
(* worker and scheduler processes crash.                                   *)
(***************************************************************************)
EXTENDS PipelineScheduler_proofs, FiniteSetTheorems

\* The hypothesis: one scheduler, no cancellation, no retry, no block with a
\* timeout.  Each of these breaks a property below.  The runs stop_during_start
\* and retry_with_stale_job show cancellations and retries; a second scheduler
\* may mark a run as running that the first has ended; and a scheduler that
\* dies before it kills the job of a timed out block lets that job complete
\* when blocks were already skipped because of it.
Alone(s) ==
  /\ Schedulers = {s}
  /\ MaxCancels = 0 /\ MaxRetries = 0
  /\ BlocksWithTimeout = {}

Stopped == {"failed", "cancelled"}

\* Where the scheduler is in which status of the run, and what there is of the
\* block runs.  A run that was stopped is not passed over again.
Control(s) ==
  /\ pc[Server] = "idle"
  /\ \/ pc[s] = "idle"
     \/ pc[s] \in {"create", "mark"} /\ run = "initial"
     \/ pc[s] \in {"enter", "beat", "decide", "propagate", "crashes", "dispatch"}
        /\ run = "running"
     \/ pc[s] \in {"fail_read", "fail_write", "fail_kill"} /\ run \in Stopped
  /\ run = "initial" =>
       \/ \A b \in Blocks : blk[b] = "absent" /\ job[b] = "none"
       \/ \A b \in Blocks : blk[b] = "initial" /\ job[b] = "none"
  /\ run # "initial" \/ pc[s] = "mark" => \A b \in Blocks : blk[b] # "absent"

\* A job and the status of its block run agree, unless the block run was
\* cancelled with the rest of a run that failed.
JobAndStatus ==
  \A b \in Blocks :
    /\ job[b] \in {"queued", "claimed", "admitted"} => blk[b] \in {"queued", "cancelled"}
    /\ job[b] = "executing" => blk[b] \in {"running", "cancelled"}
    /\ job[b] = "ending" => blk[b] \in {"completed", "failed", "condition_failed", "cancelled"}
    /\ blk[b] = "cancelled" => run \in Stopped
    /\ run = "completed" => blk[b] \in Done \cup {"upstream_failed"}

Deciding == {"decide", "propagate", "crashes"}

Ends(b) == {"completed", "failed"} \cup (IF b \in Conditional THEN {"condition_failed"} ELSE {})

\* While the scheduler decides, what it read differs from the database only in
\* block runs it read as queued or running: they have started or ended since.
ViewLags(s) ==
  pc[s] \in Deciding =>
    \A b \in Blocks :
      \/ view[s][b] = blk[b]
      \/ view[s][b] \in QueuedOrRunning /\ blk[b] \in QueuedOrRunning \cup Ends(b)

Ready(w, b) == \A u \in Upstream[b] : w[u] = "completed"

\* The list of a pass: block runs that have not begun, and that are ready when
\* they are picked and when they are dispatched.
ListWaits(s) ==
  /\ pc[s] \in Deciding \cup {"dispatch"} => \A b \in list[s] : blk[b] = "initial"
  /\ pc[s] = "crashes" => \A b \in list[s] : Ready(view[s], b)
  /\ pc[s] = "dispatch" => \A b \in list[s] : Ready(blk, b)

\* Block runs that count against the limit now or when their worker goes on.
Live == {b \in Blocks : blk[b] \in QueuedOrRunning \/ job[b] \notin {"none", "ending"}}

\* What the pass has still to dispatch has its share of the limit.
Pending(s) == IF pc[s] = "dispatch" THEN list[s] ELSE {}

WithinQuota(s) == Cardinality(Live \cup Pending(s)) <= BlockRunLimit

\* Why the block runs of a reading have the statuses they have.
Explained(w) ==
  \A b \in Blocks :
    /\ w[b] \in QueuedOrRunning \cup {"completed", "failed"} => Ready(w, b)
    /\ w[b] = "upstream_failed" => \E u \in Upstream[b] : w[u] \in Failures
    /\ w[b] = "condition_failed" =>
         \/ b \in Conditional /\ Ready(w, b)
         \/ \E u \in Upstream[b] : w[u] = "condition_failed"

JobsReady(w) == \A b \in Blocks : job[b] # "none" => Ready(w, b)

Sound(w) == Explained(w) /\ JobsReady(w)

\* That holds of the database, of what the scheduler knows while it decides,
\* and of the database as it will be when the rest of the run is cancelled.
AllSound(s) ==
  /\ Sound(blk)
  /\ pc[s] \in Deciding => Sound(view[s])
  /\ pc[s] = "fail_write" => Sound(Write(list[s], "cancelled"))

LoneInv(s) ==
  /\ Control(s) /\ JobAndStatus /\ ViewLags(s) /\ ListWaits(s)
  /\ WithinQuota(s) /\ AllSound(s)

-----------------------------------------------------------------------------
(* The steps that are left under the hypothesis.                           *)

SchedulerMoves(s) ==
  \/ StartRun(s) \/ CreateBlockRuns(s) \/ MarkRunning(s)
  \/ BeginPass(s) \/ SkipPass(s) \/ Refresh(s)
  \/ CompleteRun(s) \/ FailRun(s) \/ TimeOutRun(s)
  \/ UpdateBlockRunStatuses(s) \/ PickExecutable(s)
  \/ FetchCrashedBlockRuns(s) \/ Dispatch(s) \/ EndPass(s)
  \/ ReadBlockRunsToCancel(s) \/ CancelBlockRuns(s) \/ KillRunningJobs(s)
  \/ KillCancelledRuns(s) \/ CrashScheduler(s)

\* Nothing is cancelled by request, retried or timed out block by block.
LEMMA OnlyTheseSteps ==
  ASSUME NEW s, Alone(s), TypeOK, Control(s), [Next]_vars
  PROVE  \/ SchedulerMoves(s)
         \/ \E b \in Blocks : WorkerStep(b) \/ CrashWorker(b)
         \/ ExpireLock
         \/ UNCHANGED vars
<1>1. cancels = 0 /\ retries = 0 /\ MaxCancels = 0 /\ MaxRetries = 0 /\ s \in Schedulers
  BY DEF TypeOK, Alone
<1>2. ~ServerStep
  BY <1>1 DEF ServerStep, StopPipelineRun, ReadBlockRunsToCancel, CancelBlockRuns,
              KillRunningJobs, RetryBlocks, RetryIncompleteBlockRuns, Control
<1>3. ~FailToCreateBlockRuns(s) /\ ~StopPipelineRun(s)
  BY <1>1 DEF FailToCreateBlockRuns, StopPipelineRun
<1>4. ~TimeOutBlock(s)
  BY DEF TimeOutBlock, Alone
<1>5. ~KillTimedOut(s)
  BY DEF KillTimedOut, Control
<1> QED
  BY <1>2, <1>3, <1>4, <1>5 DEF Next, SchedulerStep, SchedulerMoves, Alone

\* What the places of an actor are after it goes to another.
LEMMA GotoOnly ==
  ASSUME NEW s, Alone(s), TypeOK, NEW l, Goto(s, l)
  PROVE  pc'[s] = l /\ pc'[Server] = pc[Server]
BY SchedulerAssumption DEF SchedulerAssumption, Alone, TypeOK, Actors, Goto

\* What an actor has read and has listed after it reads and lists anew.
LEMMA LookAndPlanOnly ==
  ASSUME NEW s, Alone(s), TypeOK, NEW w, NEW bs
  PROVE  /\ Look(s, w) => view'[s] = w
         /\ Plan(s, bs) => list'[s] = bs
BY DEF Alone, TypeOK, Actors, Look, Plan

\* Soundness depends on the jobs only in that they may disappear.
LEMMA SoundWithFewerJobs ==
  ASSUME NEW w, Sound(w), \A b \in Blocks : job'[b] # "none" => job[b] # "none"
  PROVE  Explained(w) /\ \A b \in Blocks : job'[b] # "none" => Ready(w, b)
BY DEF Sound, JobsReady

\* The limit is kept by a step that adds nothing to what counts against it.
LEMMA QuotaFrame ==
  ASSUME NEW s, Alone(s), TypeOK, WithinQuota(s),
         Live' \cup Pending(s)' \subseteq Live \cup Pending(s)
  PROVE  WithinQuota(s)'
<1>1. Live \cup Pending(s) \subseteq Blocks
  BY DEF Live, Pending, TypeOK, Alone, Actors
<1>2. IsFiniteSet(Live \cup Pending(s))
  BY <1>1, SchedulerAssumption, FS_Subset DEF SchedulerAssumption
<1>3. /\ IsFiniteSet(Live' \cup Pending(s)')
      /\ Cardinality(Live' \cup Pending(s)') <= Cardinality(Live \cup Pending(s))
  BY <1>2, FS_Subset
<1>4. /\ Cardinality(Live' \cup Pending(s)') \in Nat
      /\ Cardinality(Live \cup Pending(s)) \in Nat
      /\ BlockRunLimit \in Nat
  BY <1>2, <1>3, FS_CardinalityType, SchedulerAssumption DEF SchedulerAssumption
<1> QED
  BY <1>3, <1>4 DEF WithinQuota

\* A step that changes neither the run nor a block run, and at most lets jobs
\* disappear, keeps what does not depend on the scheduler's place.
LEMMA QuietFrame ==
  ASSUME NEW s, Alone(s), TypeOK, LoneInv(s), UNCHANGED dbVars,
         \A b \in Blocks : job'[b] # job[b] => job'[b] = "none"
  PROVE  JobAndStatus' /\ Live' \subseteq Live /\ Sound(blk)'
<1> USE DEF dbVars
<1>1. JobAndStatus'
  BY DEF LoneInv, JobAndStatus
<1>2. Live' \subseteq Live
  BY DEF Live
<1>3. Sound(blk)'
  BY DEF LoneInv, AllSound, Sound, Explained, JobsReady, Ready
<1> QED BY <1>1, <1>2, <1>3

-----------------------------------------------------------------------------
(* start(), and the beginning and the end of a pass.                       *)

\* Passes and start() begin and end without touching a block run.
LEMMA StartStep ==
  ASSUME NEW s, Alone(s), TypeOK, LoneInv(s),
         StartRun(s) \/ BeginPass(s) \/ SkipPass(s) \/ EndPass(s) \/ CrashScheduler(s)
         \/ KillCancelledRuns(s)
  PROVE  LoneInv(s)'
<1>0. s \in Actors
  BY DEF Alone, Actors
<1>1. UNCHANGED dbVars
  BY DEF StartRun, BeginPass, SkipPass, EndPass, CrashScheduler, KillCancelledRuns
<1>2. \A b \in Blocks : job'[b] # job[b] => job'[b] = "none"
  BY DEF StartRun, BeginPass, SkipPass, EndPass, CrashScheduler, KillCancelledRuns, WithoutJobs
<1>3. /\ pc'[Server] = pc[Server]
      /\ \/ pc'[s] = "idle"
         \/ pc'[s] = "create" /\ run = "initial"
         \/ pc'[s] = "beat" /\ run = "running"
  BY GotoOnly
  DEF StartRun, BeginPass, SkipPass, EndPass, CrashScheduler, KillCancelledRuns, LeavePass,
      localVars, LoneInv, Control
<1>4. JobAndStatus' /\ Live' \subseteq Live /\ Sound(blk)'
  BY <1>1, <1>2, QuietFrame
<1>5. Control(s)'
  BY <1>1, <1>2, <1>3 DEF LoneInv, Control, dbVars
<1>6. ViewLags(s)' /\ ListWaits(s)' /\ AllSound(s)'
  BY <1>3, <1>4 DEF ViewLags, ListWaits, AllSound, Deciding
<1>7. Pending(s)' = {}
  BY <1>3 DEF Pending
<1>8. WithinQuota(s)'
  BY <1>4, <1>7, QuotaFrame DEF LoneInv
<1> QED BY <1>4, <1>5, <1>6, <1>8 DEF LoneInv

\* start() creates the block runs, and then marks the run as running.
LEMMA CreateStep ==
  ASSUME NEW s, Alone(s), TypeOK, LoneInv(s), CreateBlockRuns(s) \/ MarkRunning(s)
  PROVE  LoneInv(s)'
<1>0. s \in Actors /\ blk \in [Blocks -> BlockStatus]
  BY DEF Alone, Actors, TypeOK
<1>1. run = "initial"
  BY DEF LoneInv, Control, CreateBlockRuns, MarkRunning
<1>2. \A b \in Blocks : blk'[b] = "initial" /\ job'[b] = "none" /\ job[b] = "none"
                        /\ blk[b] \in {"absent", "initial"}
  BY <1>0, <1>1
  DEF CreateBlockRuns, MarkRunning, LoneInv, Control, Having, BlockStatus
<1>3. /\ pc'[Server] = pc[Server]
      /\ \/ pc'[s] = "mark" /\ run' = "initial"
         \/ pc'[s] = "enter" /\ run' = "running"
  BY <1>1, GotoOnly DEF CreateBlockRuns, MarkRunning
<1>4. Control(s)'
  BY <1>2, <1>3 DEF LoneInv, Control
<1>5. JobAndStatus'
  BY <1>2, <1>3 DEF JobAndStatus
<1>6. ViewLags(s)' /\ ListWaits(s)'
  BY <1>3 DEF ViewLags, ListWaits, Deciding
<1>7. AllSound(s)'
  BY <1>2, <1>3 DEF AllSound, Sound, Explained, JobsReady, Deciding, QueuedOrRunning
<1>8. Live' \cup Pending(s)' \subseteq Live \cup Pending(s)
  BY <1>2, <1>3 DEF Live, Pending, QueuedOrRunning
<1>9. WithinQuota(s)'
  BY <1>8, QuotaFrame DEF LoneInv
<1> QED BY <1>4, <1>5, <1>6, <1>7, <1>9 DEF LoneInv

\* Every block run is read: the reading is the database.
LEMMA RefreshStep ==
  ASSUME NEW s, Alone(s), TypeOK, LoneInv(s), Refresh(s)
  PROVE  LoneInv(s)'
<1>1. UNCHANGED <<dbVars, job>>
  BY DEF Refresh
<1>2. /\ pc[s] = "beat" /\ run = "running"
      /\ pc'[s] = "decide" /\ pc'[Server] = pc[Server]
      /\ view'[s] = blk /\ list'[s] = Having(blk, {"initial"})
  BY GotoOnly, LookAndPlanOnly DEF Refresh, LoneInv, Control
<1>3. JobAndStatus' /\ Live' \subseteq Live /\ Sound(blk)'
  BY <1>1, QuietFrame
<1>4. Control(s)'
  BY <1>1, <1>2 DEF LoneInv, Control, dbVars
<1>5. ViewLags(s)' /\ ListWaits(s)' /\ AllSound(s)'
  BY <1>1, <1>2, <1>3 DEF ViewLags, ListWaits, AllSound, Deciding, Having, dbVars, Sound,
                          JobsReady, Explained, Ready
<1>6. WithinQuota(s)'
  BY <1>2, <1>3, QuotaFrame DEF LoneInv, Pending
<1> QED BY <1>3, <1>4, <1>5, <1>6 DEF LoneInv

-----------------------------------------------------------------------------
(* What schedule() decides.                                                *)

\* A reading in which every block run is over is the database.
LEMMA OverInView ==
  ASSUME NEW s, Alone(s), TypeOK, LoneInv(s), pc[s] \in Deciding,
         AllBlocksCompleted(view[s])
  PROVE  view[s] = blk /\ \A b \in Blocks : blk[b] \in Done \cup Failures
<1>1. \A b \in Blocks : view[s][b] \notin QueuedOrRunning
  BY DEF AllBlocksCompleted, Done, Failures, QueuedOrRunning
<1>2. \A b \in Blocks : view[s][b] = blk[b]
  BY <1>1 DEF LoneInv, ViewLags
<1>3. view[s] = blk
  BY <1>2 DEF TypeOK, Alone, Actors
<1>4. \A b \in Blocks : blk[b] # "absent"
  BY DEF LoneInv, Control, Deciding
<1>5. \A b \in Blocks : blk[b] \in Done \cup Failures
  BY <1>2, <1>4 DEF AllBlocksCompleted
<1> QED BY <1>3, <1>5

\* The run is marked completed, failed or cancelled.
LEMMA EndRunStep ==
  ASSUME NEW s, Alone(s), TypeOK, LoneInv(s),
         CompleteRun(s) \/ FailRun(s) \/ TimeOutRun(s)
  PROVE  LoneInv(s)'
<1>1. /\ pc[s] = "decide" /\ run = "running" /\ blk' = blk /\ job' = job
      /\ pc'[Server] = pc[Server]
  BY GotoOnly DEF CompleteRun, FailRun, TimeOutRun, LeavePass, LoneInv, Control
<1>2. \/ pc'[s] = "idle" /\ run' = "completed" /\ CompleteRun(s)
      \/ pc'[s] = "fail_read" /\ run' \in Stopped
  BY GotoOnly, SchedulerAssumption
  DEF CompleteRun, FailRun, TimeOutRun, LeavePass, SchedulerAssumption, Stopped
<1>3. Control(s)'
  BY <1>1, <1>2 DEF LoneInv, Control, Stopped
<1>4. run' = "completed" => \A b \in Blocks : blk[b] \in Done \cup {"upstream_failed"}
  <2>1. SUFFICES ASSUME CompleteRun(s)
                 PROVE  \A b \in Blocks : blk[b] \in Done \cup {"upstream_failed"}
    BY <1>2 DEF Stopped
  <2>2. view[s] = blk /\ \A b \in Blocks : blk[b] \in Done \cup Failures
    BY <1>1, <2>1, OverInView DEF CompleteRun, Deciding
  <2> QED BY <2>1, <2>2 DEF CompleteRun, AnyBlocksFailed, Having, Failures
<1>5. JobAndStatus'
  BY <1>1, <1>2, <1>4 DEF LoneInv, JobAndStatus, Stopped
<1>6. ViewLags(s)' /\ ListWaits(s)' /\ AllSound(s)'
  BY <1>1, <1>2 DEF ViewLags, ListWaits, AllSound, Deciding, LoneInv, Sound, Explained,
                    JobsReady, Ready
<1>7. WithinQuota(s)'
  BY <1>1, <1>2, QuotaFrame DEF LoneInv, Live, Pending
<1> QED BY <1>3, <1>5, <1>6, <1>7 DEF LoneInv

\* What update_block_run_statuses() writes: it finds the block runs of the list
\* as it read them, and their causes too.
LEMMA SkippedWait ==
  ASSUME NEW s, Alone(s), TypeOK, LoneInv(s), UpdateBlockRunStatuses(s),
         NEW b \in Skipped(view[s], list[s])
  PROVE  /\ b \in Blocks /\ b \in list[s] /\ blk[b] = "initial" /\ job[b] = "none"
         /\ SkipStatus(view[s], b) \in {"upstream_failed", "condition_failed"}
         /\ \E u \in Upstream[b] :
              /\ u \in Blocks /\ blk[u] = view[s][u]
              /\ blk[u] \in Failures \cup {"condition_failed"}
              /\ SkipStatus(view[s], b) = "upstream_failed" => blk[u] \in Failures
              /\ SkipStatus(view[s], b) = "condition_failed" => blk[u] = "condition_failed"
<1>1. pc[s] \in Deciding /\ s \in Actors /\ b \in list[s] /\ b \in Blocks
  BY DEF UpdateBlockRunStatuses, Deciding, Skipped, Alone, Actors, TypeOK
<1>2. blk[b] = "initial"
  BY <1>1 DEF LoneInv, ListWaits
<1>3. job[b] = "none"
  BY <1>1, <1>2 DEF LoneInv, JobAndStatus, TypeOK, JobState
<1>4. SkipStatus(view[s], b) \in {"upstream_failed", "condition_failed"}
  BY DEF SkipStatus
<1>5. PICK u \in Upstream[b] :
        /\ view[s][u] \in Failures \cup {"condition_failed"}
        /\ SkipStatus(view[s], b) = "upstream_failed" => view[s][u] \in Failures
        /\ SkipStatus(view[s], b) = "condition_failed" => view[s][u] = "condition_failed"
  BY DEF Skipped, SkipStatus
<1>6. u \in Blocks
  BY <1>1, SchedulerAssumption DEF SchedulerAssumption
<1>7. blk[u] = view[s][u]
  BY <1>1, <1>5, <1>6 DEF LoneInv, ViewLags, QueuedOrRunning, Failures
<1> QED BY <1>1, <1>2, <1>3, <1>4, <1>5, <1>6, <1>7

\* update_block_run_statuses() writes the statuses and their reasons together.
LEMMA UpdateStep ==
  ASSUME NEW s, Alone(s), TypeOK, LoneInv(s), UpdateBlockRunStatuses(s)
  PROVE  LoneInv(s)'
<1> DEFINE skipped == Skipped(view[s], list[s])
<1>1. /\ pc[s] \in Deciding /\ run = "running" /\ run' = "running" /\ job' = job
      /\ pc'[s] = "propagate" /\ pc'[Server] = pc[Server]
      /\ view'[s] = blk' /\ list'[s] = list[s] \ skipped
      /\ blk \in [Blocks -> BlockStatus]
  BY GotoOnly, LookAndPlanOnly DEF UpdateBlockRunStatuses, Deciding, LoneInv, Control, TypeOK
<1>2. \A b \in Blocks :
        \/ b \notin skipped /\ blk'[b] = blk[b]
        \/ /\ b \in skipped /\ b \in list[s] /\ blk[b] = "initial" /\ job[b] = "none"
           /\ blk'[b] \in {"upstream_failed", "condition_failed"}
           /\ \E u \in Upstream[b] :
                /\ u \in Blocks /\ blk[u] \in Failures \cup {"condition_failed"}
                /\ blk'[b] = "upstream_failed" => blk[u] \in Failures
                /\ blk'[b] = "condition_failed" => blk[u] = "condition_failed"
  BY SkippedWait DEF UpdateBlockRunStatuses
<1>3. \A b \in Blocks : blk[b] # "initial" => blk'[b] = blk[b]
  BY <1>2
<1> HIDE DEF skipped
<1>4. Control(s)'
  BY <1>1, <1>2, <1>3 DEF LoneInv, Control
<1>5. JobAndStatus'
  BY <1>1, <1>2 DEF LoneInv, JobAndStatus, Done
<1>6. ViewLags(s)'
  BY <1>1 DEF ViewLags
<1>7. ListWaits(s)'
  BY <1>1, <1>2 DEF ListWaits, LoneInv, Deciding, TypeOK, Alone, Actors
<1>8. \A u \in Blocks : blk[u] = "completed" => blk'[u] = "completed"
  BY <1>3
<1>9. \A b \in Blocks : Ready(blk, b) => Ready(blk', b)
  BY <1>8, SchedulerAssumption DEF Ready, SchedulerAssumption
<1>10. Explained(blk')
  <2> SUFFICES ASSUME NEW b \in Blocks
               PROVE  /\ blk'[b] \in QueuedOrRunning \cup {"completed", "failed"} => Ready(blk', b)
                      /\ blk'[b] = "upstream_failed" => \E u \in Upstream[b] : blk'[u] \in Failures
                      /\ blk'[b] = "condition_failed" =>
                           \/ b \in Conditional /\ Ready(blk', b)
                           \/ \E u \in Upstream[b] : blk'[u] = "condition_failed"
    BY DEF Explained
  <2>1. \A u \in Upstream[b] : u \in Blocks
    BY SchedulerAssumption DEF SchedulerAssumption
  <2>2. CASE blk'[b] = blk[b]
    BY <1>3, <1>9, <2>1, <2>2 DEF LoneInv, AllSound, Sound, Explained, Failures
  <2>3. CASE blk'[b] # blk[b]
    BY <1>2, <1>3, <2>1, <2>3 DEF QueuedOrRunning, Failures
  <2> QED BY <2>2, <2>3
<1>11. \A b \in Blocks : job'[b] # "none" => Ready(blk', b)
  BY <1>1, <1>9 DEF LoneInv, AllSound, Sound, JobsReady
<1>12. AllSound(s)'
  BY <1>1, <1>10, <1>11 DEF AllSound, Sound, Explained, JobsReady, Deciding, Ready
<1>13. Live' \cup Pending(s)' \subseteq Live \cup Pending(s)
  BY <1>1, <1>2 DEF Live, Pending, QueuedOrRunning
<1>14. WithinQuota(s)'
  BY <1>13, QuotaFrame DEF LoneInv
<1> QED BY <1>4, <1>5, <1>6, <1>7, <1>12, <1>14 DEF LoneInv

\* A block run that is executable in the reading is ready in the database.
LEMMA PickStep ==
  ASSUME NEW s, Alone(s), TypeOK, LoneInv(s), PickExecutable(s)
  PROVE  LoneInv(s)'
<1>1. UNCHANGED <<dbVars, job>>
  BY DEF PickExecutable
<1>2. /\ pc[s] \in Deciding /\ run = "running"
      /\ pc'[s] = "crashes" /\ pc'[Server] = pc[Server]
      /\ view'[s] = blk /\ list'[s] = Executable(view[s])
  BY GotoOnly, LookAndPlanOnly DEF PickExecutable, LoneInv, Control, Deciding
<1>3. JobAndStatus' /\ Live' \subseteq Live /\ Sound(blk)'
  BY <1>1, QuietFrame
<1>4. Control(s)'
  BY <1>1, <1>2 DEF LoneInv, Control, dbVars
<1>5. ViewLags(s)' /\ AllSound(s)'
  BY <1>1, <1>2, <1>3 DEF ViewLags, AllSound, Deciding, dbVars, Sound, JobsReady,
                          Explained, Ready
<1>6. ListWaits(s)'
  <2>1. \A b \in Executable(view[s]) :
          b \in Blocks /\ blk[b] = "initial" /\ Ready(blk, b)
    BY <1>2, SchedulerAssumption
    DEF SchedulerAssumption, Executable, Having, LoneInv, ViewLags, Ready, QueuedOrRunning
  <2> QED BY <1>1, <1>2, <2>1 DEF ListWaits, Ready, dbVars
<1>7. WithinQuota(s)'
  BY <1>2, <1>3, QuotaFrame DEF LoneInv, Pending
<1> QED BY <1>3, <1>4, <1>5, <1>6, <1>7 DEF LoneInv

\* Of the block runs that are written back, none was read as completed, and
\* none is the cause of another's status.
LEMMA CrashedFacts ==
  ASSUME NEW s, Alone(s), TypeOK, LoneInv(s), pc[s] = "crashes",
         NEW b \in Blocks
  PROVE  /\ b \in Crashed(s) => /\ job[b] = "none" /\ view[s][b] \in QueuedOrRunning
                                /\ blk[b] \in QueuedOrRunning \cup Ends(b)
         /\ b \notin Crashed(s) /\ blk[b] \in QueuedOrRunning => view[s][b] \in QueuedOrRunning
         /\ view[s][b] \notin QueuedOrRunning => b \notin Crashed(s) /\ blk[b] = view[s][b]
BY DEF LoneInv, ViewLags, Deciding, Crashed, Having, HasJob, QueuedOrRunning, Ends

\* The crashed block runs, with those that ended since they were read, are
\* written back, and the quota cuts what is dispatched.
LEMMA FetchStep ==
  ASSUME NEW s, Alone(s), TypeOK, LoneInv(s), FetchCrashedBlockRuns(s)
  PROVE  LoneInv(s)'
<1> DEFINE crashed == Crashed(s)
           quota == BlockRunLimit - Cardinality(Occupying(s, crashed))
<1>1. /\ pc[s] = "crashes" /\ run = "running" /\ run' = "running" /\ job' = job
      /\ blk' = Write(crashed, "initial") /\ s \in Actors
      /\ pc'[Server] = pc[Server]
  BY GotoOnly DEF FetchCrashedBlockRuns, LeavePass, LoneInv, Control, Alone, Actors
<1>2. \/ pc'[s] = "idle"
      \/ /\ pc'[s] = "dispatch" /\ quota > 0
         /\ list'[s] \subseteq crashed \cup list[s]
         /\ Cardinality(list'[s]) <= quota
  BY GotoOnly, LookAndPlanOnly DEF FetchCrashedBlockRuns, LeavePass
<1>3. \A b \in Blocks :
        /\ b \in crashed => /\ job[b] = "none" /\ view[s][b] \in QueuedOrRunning
                            /\ blk[b] \in QueuedOrRunning \cup Ends(b)
                            /\ blk'[b] = "initial"
        /\ b \notin crashed => blk'[b] = blk[b]
        /\ view[s][b] \notin QueuedOrRunning => b \notin crashed /\ blk[b] = view[s][b]
        /\ blk[b] = view[s][b] \/ (view[s][b] \in QueuedOrRunning
                                   /\ blk[b] \in QueuedOrRunning \cup Ends(b))
  BY <1>1, CrashedFacts DEF Write, LoneInv, ViewLags, Deciding
<1>4. crashed \subseteq Blocks /\ list[s] \subseteq Blocks
  BY <1>1 DEF Crashed, Having, TypeOK
<1> HIDE DEF crashed
<1>5. \A b \in Blocks : Ready(view[s], b) => Ready(blk, b) /\ Ready(blk', b)
  BY <1>3, SchedulerAssumption DEF SchedulerAssumption, Ready, QueuedOrRunning
<1>6. Control(s)'
  BY <1>1, <1>2, <1>3 DEF LoneInv, Control, QueuedOrRunning, Ends
<1>7. JobAndStatus'
  BY <1>1, <1>3 DEF LoneInv, JobAndStatus
<1>8. ViewLags(s)'
  BY <1>2 DEF ViewLags, Deciding
<1>9. Sound(view[s])
  BY <1>1 DEF LoneInv, AllSound, Deciding
<1>10. ListWaits(s)'
  <2>1. \A b \in crashed \cup list[s] : blk'[b] = "initial" /\ Ready(blk', b)
    BY <1>1, <1>3, <1>4, <1>5, <1>9
    DEF LoneInv, ListWaits, Deciding, Sound, Explained
  <2> QED BY <1>2, <2>1 DEF ListWaits, Deciding
<1>11. Explained(blk')
  <2> SUFFICES ASSUME NEW b \in Blocks, b \notin crashed
               PROVE  /\ blk'[b] \in QueuedOrRunning \cup {"completed", "failed"} => Ready(blk', b)
                      /\ blk'[b] = "upstream_failed" => \E u \in Upstream[b] : blk'[u] \in Failures
                      /\ blk'[b] = "condition_failed" =>
                           \/ b \in Conditional /\ Ready(blk', b)
                           \/ \E u \in Upstream[b] : blk'[u] = "condition_failed"
    BY <1>3 DEF Explained, QueuedOrRunning
  <2>1. \A u \in Upstream[b] : u \in Blocks
    BY SchedulerAssumption DEF SchedulerAssumption
  <2>2. blk'[b] = blk[b]
    BY <1>3
  <2>3. CASE view[s][b] \in QueuedOrRunning
    <3>1. Ready(blk', b)
      BY <1>5, <1>9, <2>3 DEF Sound, Explained
    <3> QED BY <1>3, <2>2, <2>3, <3>1 DEF Ends, QueuedOrRunning
  <2>4. CASE view[s][b] \notin QueuedOrRunning
    <3>1. blk'[b] = view[s][b]
      BY <1>3, <2>2, <2>4
    <3> QED BY <1>3, <1>5, <1>9, <2>1, <3>1 DEF Sound, Explained, Failures, QueuedOrRunning
  <2> QED BY <2>3, <2>4
<1>12. \A b \in Blocks : job'[b] # "none" => Ready(blk', b)
  BY <1>1, <1>5, <1>9 DEF Sound, JobsReady
<1>13. AllSound(s)'
  BY <1>1, <1>2, <1>11, <1>12 DEF AllSound, Sound, Explained, JobsReady, Ready, Deciding
<1>14. Live' \subseteq Live /\ Live' \subseteq Occupying(s, crashed)
  <2>1. \A b \in Blocks : b \in Live' => b \notin crashed /\ blk[b] \in QueuedOrRunning
    BY <1>1, <1>3 DEF Live, LoneInv, JobAndStatus, Stopped, QueuedOrRunning, TypeOK, JobState
  <2>2. Live' \subseteq Live
    BY <2>1 DEF Live
  <2>3. Live' \subseteq Occupying(s, crashed)
    BY <1>1, <1>3, <2>1 DEF Live, Occupying, Having, Write, QueuedOrRunning
  <2> QED BY <2>2, <2>3
<1>15. WithinQuota(s)'
  <2>1. CASE pc'[s] = "idle"
    BY <1>14, <2>1, QuotaFrame DEF LoneInv, Pending
  <2>2. CASE pc'[s] = "dispatch"
    <3>1. Live' \cup Pending(s)' = Live' \cup list'[s]
      BY <2>2 DEF Pending
    <3>2. /\ IsFiniteSet(Occupying(s, crashed)) /\ IsFiniteSet(list'[s])
      <4>1. Occupying(s, crashed) \subseteq Blocks /\ list'[s] \subseteq Blocks
        BY <1>2, <1>4, <2>2 DEF Occupying, Having
      <4> QED BY <4>1, SchedulerAssumption, FS_Subset DEF SchedulerAssumption
    <3>3. /\ IsFiniteSet(Occupying(s, crashed) \cup list'[s])
          /\ Cardinality(Occupying(s, crashed) \cup list'[s])
               <= Cardinality(Occupying(s, crashed)) + Cardinality(list'[s])
      <4>1. /\ Cardinality(Occupying(s, crashed) \cap list'[s]) \in Nat
            /\ Cardinality(Occupying(s, crashed)) \in Nat
            /\ Cardinality(list'[s]) \in Nat
        BY <3>2, FS_CardinalityType, FS_Intersection
      <4>2. /\ IsFiniteSet(Occupying(s, crashed) \cup list'[s])
            /\ Cardinality(Occupying(s, crashed) \cup list'[s])
                 = Cardinality(Occupying(s, crashed)) + Cardinality(list'[s])
                   - Cardinality(Occupying(s, crashed) \cap list'[s])
        BY <3>2, FS_Union
      <4> QED BY <4>1, <4>2
    <3>4. Live' \cup list'[s] \subseteq Occupying(s, crashed) \cup list'[s]
      BY <1>14
    <3>5. Cardinality(Live' \cup list'[s]) <= Cardinality(Occupying(s, crashed) \cup list'[s])
          /\ IsFiniteSet(Live' \cup list'[s])
      BY <3>3, <3>4, FS_Subset
    <3>6. /\ Cardinality(Live' \cup list'[s]) \in Nat
          /\ Cardinality(Occupying(s, crashed) \cup list'[s]) \in Nat
          /\ Cardinality(Occupying(s, crashed)) \in Nat
          /\ Cardinality(list'[s]) \in Nat
          /\ BlockRunLimit \in Nat
      BY <3>2, <3>3, <3>5, FS_CardinalityType, SchedulerAssumption DEF SchedulerAssumption
    <3>7. Cardinality(list'[s]) <= BlockRunLimit - Cardinality(Occupying(s, crashed))
      BY <1>2, <2>2
    <3>8. Cardinality(Live' \cup list'[s]) <= BlockRunLimit
      BY <3>3, <3>5, <3>6, <3>7
    <3> QED BY <3>1, <3>8 DEF WithinQuota
  <2> QED BY <1>2, <2>1, <2>2
<1> QED BY <1>6, <1>7, <1>8, <1>10, <1>13, <1>15 DEF LoneInv

\* A block run moves from the list to those that are queued.
LEMMA DispatchStep ==
  ASSUME NEW s, Alone(s), TypeOK, LoneInv(s), Dispatch(s)
  PROVE  LoneInv(s)'
<1>1. /\ pc[s] = "dispatch" /\ run = "running" /\ run' = "running" /\ pc' = pc
      /\ s \in Actors /\ blk \in [Blocks -> BlockStatus] /\ job \in [Blocks -> JobState]
  BY DEF Dispatch, LoneInv, Control, Alone, Actors, TypeOK
<1>2. PICK b \in list[s] : /\ blk' = Write({b}, "queued")
                           /\ job' = IF HasJob(b) THEN job ELSE [job EXCEPT ![b] = "queued"]
                           /\ list'[s] = list[s] \ {b}
  BY LookAndPlanOnly DEF Dispatch
<1>3. b \in Blocks /\ blk[b] = "initial" /\ Ready(blk, b)
  BY <1>1, <1>2 DEF LoneInv, ListWaits, TypeOK
<1>4. job[b] = "none"
  BY <1>1, <1>3 DEF LoneInv, JobAndStatus, JobState
<1>5. /\ blk'[b] = "queued" /\ job'[b] = "queued"
      /\ \A c \in Blocks \ {b} : blk'[c] = blk[c] /\ job'[c] = job[c]
  BY <1>1, <1>2, <1>3, <1>4 DEF Write, HasJob
<1>6. \A c \in Blocks : Ready(blk, c) => Ready(blk', c)
  BY <1>3, <1>5, SchedulerAssumption DEF SchedulerAssumption, Ready
<1>7. Control(s)'
  BY <1>1, <1>5 DEF LoneInv, Control
<1>8. JobAndStatus'
  BY <1>1, <1>5 DEF LoneInv, JobAndStatus
<1>9. ViewLags(s)'
  BY <1>1 DEF ViewLags, Deciding
<1>10. ListWaits(s)'
  BY <1>1, <1>2, <1>5, <1>6 DEF LoneInv, ListWaits, Deciding, TypeOK
<1>11. Explained(blk')
  BY <1>3, <1>5, <1>6, SchedulerAssumption
  DEF SchedulerAssumption, LoneInv, AllSound, Sound, Explained, Failures, QueuedOrRunning
<1>12. \A c \in Blocks : job'[c] # "none" => Ready(blk', c)
  BY <1>3, <1>5, <1>6 DEF LoneInv, AllSound, Sound, JobsReady
<1>13. AllSound(s)'
  BY <1>1, <1>11, <1>12 DEF AllSound, Sound, Explained, JobsReady, Ready, Deciding
<1>14. Live' \cup Pending(s)' \subseteq Live \cup Pending(s)
  BY <1>1, <1>2, <1>5 DEF Live, Pending, QueuedOrRunning
<1>15. WithinQuota(s)'
  BY <1>14, QuotaFrame DEF LoneInv
<1> QED BY <1>7, <1>8, <1>9, <1>10, <1>13, <1>15 DEF LoneInv

-----------------------------------------------------------------------------
(* The rest of a run that failed is cancelled.                             *)

\* cancel_block_runs_and_jobs() reads what is in progress: nothing that is over,
\* and so no reason of another block run's status, will be cancelled.
LEMMA ReadToCancelStep ==
  ASSUME NEW s, Alone(s), TypeOK, LoneInv(s), ReadBlockRunsToCancel(s)
  PROVE  LoneInv(s)'
<1>1. UNCHANGED <<dbVars, job>> /\ blk \in [Blocks -> BlockStatus]
  BY DEF ReadBlockRunsToCancel, TypeOK
<1>2. /\ pc[s] = "fail_read" /\ run \in Stopped
      /\ pc'[s] = "fail_write" /\ pc'[Server] = pc[Server]
      /\ list'[s] = Having(blk, InProgress)
  BY GotoOnly, LookAndPlanOnly DEF ReadBlockRunsToCancel, LoneInv, Control, Stopped
<1>3. JobAndStatus' /\ Live' \subseteq Live /\ Sound(blk)'
  BY <1>1, QuietFrame
<1>4. Control(s)'
  BY <1>1, <1>2 DEF LoneInv, Control, dbVars
<1>5. ViewLags(s)' /\ ListWaits(s)'
  BY <1>2 DEF ViewLags, ListWaits, Deciding
<1>6. AllSound(s)'
  <2> DEFINE w == Write(list'[s], "cancelled")
  <2>1. \A b \in Blocks :
          w[b] = IF blk[b] \in InProgress THEN "cancelled" ELSE blk[b]
    BY <1>2 DEF Write, Having
  <2>2. Write(list[s], "cancelled")' = w
    BY <1>1 DEF Write, dbVars
  <2> HIDE DEF w
  <2>3. \A b \in Blocks : Ready(blk, b) => Ready(w, b)
    BY <2>1, SchedulerAssumption DEF SchedulerAssumption, Ready, InProgress
  <2>4. Explained(w) /\ \A b \in Blocks : job'[b] # "none" => Ready(w, b)
    BY <1>1, <2>1, <2>3, SchedulerAssumption
    DEF SchedulerAssumption, LoneInv, AllSound, Sound, Explained, JobsReady, InProgress,
        QueuedOrRunning, Failures
  <2>5. Sound(Write(list[s], "cancelled"))'
    BY <2>2, <2>4 DEF Sound, Explained, JobsReady, Ready
  <2> QED BY <1>2, <1>3, <2>5 DEF AllSound, Deciding
<1>7. WithinQuota(s)'
  BY <1>2, <1>3, QuotaFrame DEF LoneInv, Pending
<1> QED BY <1>3, <1>4, <1>5, <1>6, <1>7 DEF LoneInv

\* The block runs that were read are written, whatever they are by now.
LEMMA CancelStep ==
  ASSUME NEW s, Alone(s), TypeOK, LoneInv(s), CancelBlockRuns(s)
  PROVE  LoneInv(s)'
<1>1. /\ pc[s] = "fail_write" /\ run \in Stopped /\ run' = run /\ job' = job
      /\ pc'[s] = "fail_kill" /\ pc'[Server] = pc[Server]
      /\ blk' = Write(list[s], "cancelled")
  BY GotoOnly DEF CancelBlockRuns, LoneInv, Control, Stopped
<1>2. \A b \in Blocks : blk'[b] = blk[b] \/ blk'[b] = "cancelled"
  BY <1>1 DEF Write
<1>3. Control(s)'
  BY <1>1, <1>2 DEF LoneInv, Control, Stopped
<1>4. JobAndStatus'
  BY <1>1, <1>2 DEF LoneInv, JobAndStatus, Stopped
<1>5. ViewLags(s)' /\ ListWaits(s)'
  BY <1>1 DEF ViewLags, ListWaits, Deciding
<1>6. Sound(blk')
  BY <1>1 DEF LoneInv, AllSound
<1>7. AllSound(s)'
  BY <1>1, <1>6 DEF AllSound, Sound, Explained, JobsReady, Ready, Deciding
<1>8. Live' \cup Pending(s)' \subseteq Live \cup Pending(s)
  BY <1>1, <1>2 DEF Live, Pending, QueuedOrRunning
<1>9. WithinQuota(s)'
  BY <1>8, QuotaFrame DEF LoneInv
<1> QED BY <1>3, <1>4, <1>5, <1>7, <1>9 DEF LoneInv

\* The jobs of the running ones are killed, and the pass is over.
LEMMA KillStep ==
  ASSUME NEW s, Alone(s), TypeOK, LoneInv(s), KillRunningJobs(s)
  PROVE  LoneInv(s)'
<1>1. UNCHANGED dbVars /\ \A b \in Blocks : job'[b] # job[b] => job'[b] = "none"
  BY DEF KillRunningJobs, WithoutJobs
<1>2. pc[s] = "fail_kill" /\ pc'[s] = "idle" /\ pc'[Server] = pc[Server]
  BY GotoOnly DEF KillRunningJobs, LeavePass, LoneInv, Control
<1>3. JobAndStatus' /\ Live' \subseteq Live /\ Sound(blk)'
  BY <1>1, QuietFrame
<1>4. Control(s)'
  BY <1>1, <1>2 DEF LoneInv, Control, dbVars
<1>5. ViewLags(s)' /\ ListWaits(s)' /\ AllSound(s)'
  BY <1>2, <1>3 DEF ViewLags, ListWaits, AllSound, Deciding
<1>6. WithinQuota(s)'
  BY <1>2, <1>3, QuotaFrame DEF LoneInv, Pending
<1> QED BY <1>3, <1>4, <1>5, <1>6 DEF LoneInv

-----------------------------------------------------------------------------
(* The workers.                                                            *)

\* A job that is claimed, turned away, over or lost.
LEMMA JobStep ==
  ASSUME NEW s, Alone(s), TypeOK, LoneInv(s), NEW b \in Blocks,
         ClaimJob(b) \/ AdmitBlockRun(b) \/ EndJob(b) \/ CrashWorker(b)
  PROVE  LoneInv(s)'
<1>1. UNCHANGED <<dbVars, localVars>> /\ job \in [Blocks -> JobState]
  BY DEF ClaimJob, AdmitBlockRun, EndJob, CrashWorker, TypeOK
<1>2. \A c \in Blocks :
        \/ job'[c] = job[c] \/ job'[c] = "none"
        \/ job[c] \in {"queued", "claimed"} /\ job'[c] \in {"claimed", "admitted"}
  BY <1>1 DEF ClaimJob, AdmitBlockRun, EndJob, CrashWorker
<1>3. Control(s)'
  BY <1>1, <1>2 DEF LoneInv, Control, dbVars, localVars
<1>4. JobAndStatus'
  BY <1>1, <1>2 DEF LoneInv, JobAndStatus, dbVars
<1>5. ViewLags(s)' /\ ListWaits(s)'
  BY <1>1 DEF LoneInv, ViewLags, ListWaits, Ready, dbVars, localVars
<1>6. AllSound(s)'
  BY <1>1, <1>2
  DEF LoneInv, AllSound, Sound, Explained, JobsReady, Ready, Write, dbVars, localVars
<1>7. Live' \cup Pending(s)' \subseteq Live \cup Pending(s)
  BY <1>1, <1>2 DEF Live, Pending, dbVars, localVars
<1>8. WithinQuota(s)'
  BY <1>7, QuotaFrame DEF LoneInv
<1> QED BY <1>3, <1>4, <1>5, <1>6, <1>8 DEF LoneInv

\* A block run that starts or ends keeps a reading sound: its job says that it
\* is ready, and no other block run has its status because of this one.
LEMMA SoundAfterWork ==
  ASSUME NEW w, NEW x, Sound(w), NEW b \in Blocks, job[b] # "none",
         \A c \in Blocks : c # b => x[c] = w[c],
         \/ x[b] = w[b]
         \/ w[b] \in {"queued", "running", "cancelled"} /\ x[b] \in {"running"} \cup Ends(b)
  PROVE  Explained(x) /\ \A c \in Blocks : job[c] # "none" => Ready(x, c)
<1>1. \A c \in Blocks : Ready(w, c) => Ready(x, c)
  BY SchedulerAssumption DEF SchedulerAssumption, Ready
<1>2. \A c \in Blocks : job[c] # "none" => Ready(x, c)
  BY <1>1 DEF Sound, JobsReady
<1>3. Explained(x)
  <2> SUFFICES ASSUME NEW c \in Blocks
               PROVE  /\ x[c] \in QueuedOrRunning \cup {"completed", "failed"} => Ready(x, c)
                      /\ x[c] = "upstream_failed" => \E u \in Upstream[c] : x[u] \in Failures
                      /\ x[c] = "condition_failed" =>
                           \/ c \in Conditional /\ Ready(x, c)
                           \/ \E u \in Upstream[c] : x[u] = "condition_failed"
    BY DEF Explained
  <2>1. \A u \in Upstream[c] : u \in Blocks
    BY SchedulerAssumption DEF SchedulerAssumption
  <2>2. CASE x[c] = w[c]
    BY <1>1, <2>1, <2>2 DEF Sound, Explained, Failures, Ends
  <2>3. CASE x[c] # w[c]
    BY <1>2, <2>3 DEF Ends
  <2> QED BY <2>2, <2>3
<1> QED BY <1>2, <1>3

\* run_block() marks its block run as running, and later as over.
LEMMA WorkStep ==
  ASSUME NEW s, Alone(s), TypeOK, LoneInv(s), NEW b \in Blocks, RunBlock(b) \/ FinishBlock(b)
  PROVE  LoneInv(s)'
<1>1. /\ UNCHANGED <<run, localVars>>
      /\ blk \in [Blocks -> BlockStatus] /\ job \in [Blocks -> JobState]
      /\ \A c \in Blocks : c # b => blk'[c] = blk[c] /\ job'[c] = job[c]
  BY DEF RunBlock, FinishBlock, TypeOK
<1>2. /\ run # "initial" /\ run # "completed"
      /\ job[b] \in {"admitted", "executing"}
      /\ blk[b] \in {"queued", "running", "cancelled"}
      /\ blk[b] = "cancelled" => run \in Stopped
  BY DEF RunBlock, FinishBlock, LoneInv, Control, JobAndStatus, Done
<1>3. \/ job'[b] = "executing" /\ blk'[b] = "running"
      \/ job'[b] = "ending" /\ blk'[b] \in Ends(b)
  BY <1>1 DEF RunBlock, FinishBlock, Ends
<1>4. Control(s)'
  BY <1>1, <1>2, <1>3 DEF LoneInv, Control, Ends, localVars
<1>5. JobAndStatus'
  BY <1>1, <1>2, <1>3 DEF LoneInv, JobAndStatus, Ends
<1>6. ViewLags(s)'
  BY <1>1, <1>2, <1>3
  DEF LoneInv, ViewLags, Control, Deciding, Stopped, localVars, QueuedOrRunning
<1>7. \A c \in Blocks : Ready(blk, c) => Ready(blk', c)
  BY <1>1, <1>2, SchedulerAssumption DEF SchedulerAssumption, Ready
<1>8. ListWaits(s)'
  BY <1>1, <1>2, <1>7
  DEF LoneInv, ListWaits, Ready, localVars, TypeOK, Alone, Actors
<1>9. \A c \in Blocks : job'[c] # "none" => job[c] # "none"
  BY <1>1, <1>2
<1>10. Sound(blk)'
  <2>1. Explained(blk') /\ \A c \in Blocks : job[c] # "none" => Ready(blk', c)
    BY <1>1, <1>2, <1>3, SoundAfterWork DEF LoneInv, AllSound
  <2> QED BY <1>9, <2>1 DEF Sound, Explained, JobsReady, Ready
<1>11. pc[s] \in Deciding => Sound(view[s])'
  BY <1>1, <1>9 DEF LoneInv, AllSound, Sound, Explained, JobsReady, Ready, localVars
<1>12. pc[s] = "fail_write" => Sound(Write(list[s], "cancelled"))'
  <2> SUFFICES ASSUME pc[s] = "fail_write" PROVE Sound(Write(list[s], "cancelled"))'
    OBVIOUS
  <2> DEFINE w == Write(list[s], "cancelled")
             x == [c \in Blocks |-> IF c \in list[s] THEN "cancelled" ELSE blk'[c]]
  <2>1. Write(list[s], "cancelled")' = x
    BY <1>1 DEF Write, localVars
  <2>2. /\ \A c \in Blocks : c # b => x[c] = w[c]
        /\ \/ x[b] = w[b]
           \/ w[b] \in {"queued", "running", "cancelled"} /\ x[b] \in {"running"} \cup Ends(b)
    BY <1>1, <1>2, <1>3 DEF Write
  <2>3. Sound(w)
    BY DEF LoneInv, AllSound
  <2> HIDE DEF w, x
  <2>4. Explained(x) /\ \A c \in Blocks : job[c] # "none" => Ready(x, c)
    BY <1>2, <2>2, <2>3, SoundAfterWork
  <2> QED BY <1>9, <2>1, <2>4 DEF Sound, Explained, JobsReady, Ready
<1>13. AllSound(s)'
  BY <1>1, <1>10, <1>11, <1>12 DEF AllSound, localVars
<1>14. Live' \cup Pending(s)' \subseteq Live \cup Pending(s)
  BY <1>1, <1>2 DEF Live, Pending, localVars
<1>15. WithinQuota(s)'
  BY <1>14, QuotaFrame DEF LoneInv
<1> QED BY <1>4, <1>5, <1>6, <1>8, <1>13, <1>15 DEF LoneInv

-----------------------------------------------------------------------------
(* The invariant, and what follows from it.                                *)

\* The invariant holds before the run is started.
LEMMA LoneInit ==
  ASSUME NEW s, Alone(s), Init
  PROVE  LoneInv(s)
<1>1. /\ \A b \in Blocks : blk[b] = "absent" /\ job[b] = "none"
      /\ pc[s] = "idle" /\ pc[Server] = "idle" /\ run = "initial"
  BY DEF Init, Nothing, Alone, Actors
<1>2. Control(s) /\ JobAndStatus /\ ViewLags(s) /\ ListWaits(s)
  BY <1>1 DEF Control, JobAndStatus, ViewLags, ListWaits, Deciding, Done
<1>3. AllSound(s)
  BY <1>1 DEF AllSound, Sound, Explained, JobsReady, Deciding, QueuedOrRunning
<1>4. Live \cup Pending(s) = {}
  BY <1>1 DEF Live, Pending, QueuedOrRunning
<1>5. Cardinality(Live \cup Pending(s)) = 0
  BY <1>4, FS_EmptySet
<1>6. BlockRunLimit \in Nat
  BY SchedulerAssumption DEF SchedulerAssumption
<1>7. WithinQuota(s)
  BY <1>5, <1>6 DEF WithinQuota
<1> QED BY <1>2, <1>3, <1>7 DEF LoneInv

\* Every step keeps the invariant: one lemma per operation, above.
LEMMA LoneStep ==
  ASSUME NEW s, Alone(s), TypeOK, LoneInv(s), [Next]_vars
  PROVE  LoneInv(s)'
<1>1. ASSUME SchedulerMoves(s) PROVE LoneInv(s)'
  BY <1>1, StartStep, CreateStep, RefreshStep, EndRunStep, UpdateStep, PickStep, FetchStep,
     DispatchStep, ReadToCancelStep, CancelStep, KillStep
  DEF SchedulerMoves
<1>2. ASSUME NEW b \in Blocks, WorkerStep(b) \/ CrashWorker(b) PROVE LoneInv(s)'
  BY <1>2, JobStep, WorkStep DEF WorkerStep
<1>3. ASSUME UNCHANGED <<run, blk, job, pc, view, list>> PROVE LoneInv(s)'
  BY <1>3
  DEF LoneInv, Control, JobAndStatus, ViewLags, ListWaits, WithinQuota, Live, Pending,
      AllSound, Sound, Explained, JobsReady, Ready, Write
<1>4. CASE ExpireLock \/ UNCHANGED vars
  BY <1>3, <1>4 DEF ExpireLock, vars, dbVars, localVars
<1>5. Control(s)
  BY DEF LoneInv
<1> QED BY <1>1, <1>2, <1>4, <1>5, OnlyTheseSteps

\* A scheduler that works undisturbed keeps LoneInv.
LEMMA LoneCorrect ==
  ASSUME NEW s, Alone(s)
  PROVE  Spec => []LoneInv(s)
<1>1. Init => LoneInv(s)
  BY LoneInit
<1>2. TypeOK /\ LoneInv(s) /\ [Next]_vars => LoneInv(s)'
  BY LoneStep
<1> QED BY <1>1, <1>2, TypeCorrect, PTL DEF Spec

\* The quota is computed once and spent one block run at a time while block
\* runs start, end and crash, and no run has more of them queued or running
\* than block_run_limit.
THEOREM LimitRespected ==
  ASSUME NEW s, Alone(s)
  PROVE  Spec => []WithinBlockRunLimit
<1>1. LoneInv(s) /\ TypeOK => WithinBlockRunLimit
  <2> SUFFICES ASSUME LoneInv(s), TypeOK PROVE WithinBlockRunLimit OBVIOUS
  <2>1. Having(blk, QueuedOrRunning) \subseteq Live \cup Pending(s)
    BY DEF Having, Live
  <2>2. IsFiniteSet(Live \cup Pending(s))
    <3>1. Live \cup Pending(s) \subseteq Blocks
      BY DEF Live, Pending, TypeOK, Alone, Actors
    <3> QED BY <3>1, SchedulerAssumption, FS_Subset DEF SchedulerAssumption
  <2>3. /\ IsFiniteSet(Having(blk, QueuedOrRunning))
        /\ Cardinality(Having(blk, QueuedOrRunning)) <= Cardinality(Live \cup Pending(s))
    BY <2>1, <2>2, FS_Subset
  <2>4. /\ Cardinality(Having(blk, QueuedOrRunning)) \in Nat
        /\ Cardinality(Live \cup Pending(s)) \in Nat
        /\ BlockRunLimit \in Nat
    BY <2>2, <2>3, FS_CardinalityType, SchedulerAssumption DEF SchedulerAssumption
  <2> QED BY <2>3, <2>4 DEF LoneInv, WithinQuota, WithinBlockRunLimit
<1> QED BY <1>1, LoneCorrect, TypeCorrect, PTL

\* update_block_run_statuses() decides on a reading; still every skipped block
\* run has its reason in the database, now and after the run has failed.
THEOREM SkipsExplained ==
  ASSUME NEW s, Alone(s)
  PROVE  Spec => []SkippedForCause
<1>1. LoneInv(s) => SkippedForCause
  BY DEF LoneInv, AllSound, Sound, Explained, SkippedForCause
<1> QED BY <1>1, LoneCorrect, PTL

\* A block starts only when its upstream blocks are completed, whatever crashed
\* and was run again between the pass that chose it and its worker.
THEOREM StartsInOrder ==
  ASSUME NEW s, Alone(s)
  PROVE  Spec => StartsAfterUpstream
<1>1. LoneInv(s) => \A b \in Blocks : Starts(b) => \A u \in Upstream[b] : blk[u] = "completed"
  BY DEF LoneInv, AllSound, Sound, JobsReady, Ready, Starts
<1> QED BY <1>1, LoneCorrect, PTL DEF StartsAfterUpstream

\* A run is marked completed only when its blocks are over in the database.
THEOREM CompletedWhenDone ==
  ASSUME NEW s, Alone(s)
  PROVE  Spec => CompletesWhenDone
<1>1. TypeOK /\ LoneInv(s) /\ [Next]_vars =>
        (run # "completed" /\ run' = "completed"
         => \A b \in Blocks :
              blk[b] \in Done \cup (IF AllowBlocksToFail THEN {"upstream_failed"} ELSE {}))
  <2> SUFFICES ASSUME TypeOK, LoneInv(s), [Next]_vars, run # "completed", run' = "completed"
               PROVE  \A b \in Blocks : blk[b] \in Done
                        \cup (IF AllowBlocksToFail THEN {"upstream_failed"} ELSE {})
    OBVIOUS
  <2>1. CompleteRun(s)
    <3>1. Control(s)
      BY DEF LoneInv
    <3>2. SchedulerMoves(s)
      BY <3>1, OnlyTheseSteps
      DEF WorkerStep, ClaimJob, AdmitBlockRun, RunBlock, FinishBlock, EndJob, CrashWorker,
          ExpireLock, vars, dbVars
    <3> QED
      BY <3>2, SchedulerAssumption
      DEF SchedulerMoves, StartRun, CreateBlockRuns, MarkRunning, BeginPass, SkipPass, Refresh,
          FailRun, TimeOutRun, UpdateBlockRunStatuses, PickExecutable, FetchCrashedBlockRuns,
          Dispatch, EndPass, ReadBlockRunsToCancel, CancelBlockRuns, KillRunningJobs,
          KillCancelledRuns, CrashScheduler, dbVars, SchedulerAssumption
  <2>2. view[s] = blk /\ \A b \in Blocks : blk[b] # "absent"
    BY <2>1, OverInView DEF CompleteRun, Deciding, Done, Failures
  <2> QED BY <2>1, <2>2 DEF CompleteRun, AllBlocksCompleted, AnyBlocksFailed, Having, Failures
<1> QED BY <1>1, LoneCorrect, TypeCorrect, PTL DEF CompletesWhenDone, Spec

-----------------------------------------------------------------------------
(* PipelineRun is implemented: every step is a step of the abstract run,   *)
(* or changes neither the run's status nor what is known of a block.       *)

Phase == [b \in Blocks |-> PhaseOf(blk[b])]

PromiseKept == [Promise!Next]_<<run, Phase>>

\* Nothing of the abstract run changes when the block runs keep their phases.
LEMMA SamePhases ==
  ASSUME UNCHANGED run, \A b \in Blocks : PhaseOf(blk'[b]) = PhaseOf(blk[b])
  PROVE  PromiseKept
BY DEF PromiseKept, Phase

\* The steps of the scheduler that start or end the run.
LEMMA RunStepsPromised ==
  ASSUME NEW s, Alone(s), AllowBlocksToFail, TypeOK, LoneInv(s),
         MarkRunning(s) \/ CompleteRun(s) \/ FailRun(s) \/ TimeOutRun(s)
  PROVE  PromiseKept
<1>1. UNCHANGED Phase
  BY DEF MarkRunning, CompleteRun, FailRun, TimeOutRun, Phase
<1>2. CASE MarkRunning(s)
  <2>1. Promise!Start
    BY <1>1, <1>2 DEF MarkRunning, LoneInv, Control, Promise!Start, Phase
  <2> QED BY <2>1 DEF PromiseKept, Promise!Next
<1>3. CASE TimeOutRun(s)
  <2>1. Promise!TimeOut
    BY <1>1, <1>3 DEF TimeOutRun, LoneInv, Control, Promise!TimeOut, Phase
  <2> QED BY <2>1 DEF PromiseKept, Promise!Next
<1>4. CASE CompleteRun(s) \/ FailRun(s)
  <2>1. run = "running" /\ AllBlocksCompleted(view[s])
    BY <1>4 DEF CompleteRun, FailRun, LoneInv, Control
  <2>2. view[s] = blk /\ \A b \in Blocks : blk[b] \in Done \cup Failures
    BY <1>4, <2>1, OverInView DEF CompleteRun, FailRun, Deciding
  <2>3. \A b \in Blocks :
          /\ Phase[b] \in Promise!Over
          /\ Phase[b] = "failed" <=> blk[b] = "failed"
    BY <2>2 DEF Phase, PhaseOf, Promise!Over, Done, Failures
  <2>4. AnyBlocksFailed(view[s]) <=> \E b \in Blocks : Phase[b] = "failed"
    BY <2>2, <2>3 DEF AnyBlocksFailed, Having
  <2>5. run' = IF \E b \in Blocks : Phase[b] = "failed" THEN "failed" ELSE "completed"
    BY <1>4, <2>4 DEF CompleteRun, FailRun
  <2>6. Promise!End
    BY <1>1, <2>1, <2>3, <2>5 DEF Promise!End, Phase
  <2> QED BY <2>6 DEF PromiseKept, Promise!Next
<1> QED BY <1>2, <1>3, <1>4

\* update_block_run_statuses() skips behind what failed or was skipped.
LEMMA SkipPromised ==
  ASSUME NEW s, Alone(s), TypeOK, LoneInv(s), UpdateBlockRunStatuses(s)
  PROVE  PromiseKept
<1> DEFINE bs == Skipped(view[s], list[s])
<1>1. run = "running" /\ run' = run
  BY DEF UpdateBlockRunStatuses, LoneInv, Control
<1>2. \A b \in bs :
        /\ b \in Blocks /\ Phase[b] = "waiting"
        /\ \E u \in Upstream[b] : Phase[u] \in {"failed", "skipped"}
  BY SkippedWait DEF Phase, PhaseOf, Failures
<1>3. Phase' = [b \in Blocks |-> IF b \in bs THEN "skipped" ELSE Phase[b]]
  BY SkippedWait DEF UpdateBlockRunStatuses, Phase, PhaseOf
<1> HIDE DEF bs
<1>4. Promise!Skip(bs) /\ bs \in SUBSET Blocks
  BY <1>1, <1>2, <1>3 DEF Promise!Skip, Promise!Become, Phase
<1> QED BY <1>4 DEF PromiseKept, Promise!Next

\* __fetch_crashed_block_runs() runs nothing again that another block builds on.
LEMMA RunAgainPromised ==
  ASSUME NEW s, Alone(s), TypeOK, LoneInv(s), FetchCrashedBlockRuns(s)
  PROVE  PromiseKept
<1> DEFINE bs == Crashed(s)
<1>1. run = "running" /\ run' = run /\ pc[s] = "crashes" /\ blk' = Write(bs, "initial")
  BY DEF FetchCrashedBlockRuns, LoneInv, Control
<1>2. bs \in SUBSET Blocks
  BY DEF Crashed, Having
<1>3. \A b \in Blocks :
        /\ b \in bs => view[s][b] \in QueuedOrRunning
        /\ view[s][b] \notin QueuedOrRunning => b \notin bs /\ blk[b] = view[s][b]
        /\ blk[b] = view[s][b] \/ (view[s][b] \in QueuedOrRunning
                                   /\ blk[b] \in QueuedOrRunning \cup Ends(b))
  BY <1>1, CrashedFacts DEF LoneInv, ViewLags, Deciding
<1>4. Phase' = [b \in Blocks |-> IF b \in bs THEN "waiting" ELSE Phase[b]]
  BY <1>1 DEF Write, Phase, PhaseOf
<1> HIDE DEF bs
<1>5. ASSUME NEW b \in bs, NEW c \in Blocks, b \in Upstream[c]
      PROVE  \/ Phase[c] = "waiting"
             \/ Phase[c] = "skipped"
                /\ \E u \in Upstream[c] \ bs : Phase[u] \in {"failed", "skipped"}
  <2>1. Sound(view[s]) /\ blk[c] \in BlockStatus /\ blk[c] # "cancelled" /\ blk[c] # "absent"
    BY <1>1 DEF LoneInv, AllSound, Deciding, TypeOK, JobAndStatus, Control, Stopped
  <2>2. ~Ready(view[s], c)
    BY <1>2, <1>3, <1>5 DEF Ready, QueuedOrRunning
  <2>3. view[s][c] = blk[c]
    BY <1>3, <2>1, <2>2 DEF Sound, Explained
  <2>4. blk[c] \in {"initial", "upstream_failed", "condition_failed"}
    BY <2>1, <2>2, <2>3 DEF Sound, Explained, QueuedOrRunning, BlockStatus
  <2>5. CASE blk[c] = "initial"
    BY <2>5 DEF Phase, PhaseOf
  <2>6. CASE blk[c] \in {"upstream_failed", "condition_failed"}
    <3>1. PICK u \in Upstream[c] : view[s][u] \in Failures \cup {"condition_failed"}
      BY <2>1, <2>2, <2>3, <2>6 DEF Sound, Explained
    <3>2. u \in Blocks
      BY SchedulerAssumption DEF SchedulerAssumption
    <3>3. u \notin bs /\ blk[u] = view[s][u]
      BY <1>3, <3>1, <3>2 DEF QueuedOrRunning, Failures
    <3> QED BY <2>6, <3>1, <3>2, <3>3 DEF Phase, PhaseOf, Failures
  <2> QED BY <2>4, <2>5, <2>6
<1>6. Promise!RunAgain(bs)
  BY <1>1, <1>4, <1>5 DEF Promise!RunAgain, Promise!Become, Phase
<1> QED BY <1>2, <1>6 DEF PromiseKept, Promise!Next

\* A worker starts or ends a block.
LEMMA WorkPromised ==
  ASSUME NEW s, Alone(s), TypeOK, LoneInv(s), NEW b \in Blocks, RunBlock(b) \/ FinishBlock(b)
  PROVE  PromiseKept
<1>1. /\ run \in {"running"} \cup Promise!Ended /\ run' = run
      /\ blk \in [Blocks -> BlockStatus]
      /\ job[b] # "none"
  BY DEF RunBlock, FinishBlock, LoneInv, Control, JobAndStatus, TypeOK, RunStatus,
         Done, Promise!Ended
<1>2. CASE RunBlock(b)
  <2>1. Phase[b] \in {"waiting", "cancelled"}
    BY <1>2 DEF RunBlock, LoneInv, JobAndStatus, Phase, PhaseOf
  <2>2. \A u \in Upstream[b] : Phase[u] = "done"
    BY <1>1, SchedulerAssumption
    DEF SchedulerAssumption, LoneInv, AllSound, Sound, JobsReady, Ready, Phase, PhaseOf
  <2>3. Phase' = [Phase EXCEPT ![b] = "running"]
    BY <1>1, <1>2 DEF RunBlock, Phase, PhaseOf
  <2>4. Promise!StartBlock(b)
    BY <1>1, <2>1, <2>2, <2>3 DEF Promise!StartBlock, Phase
  <2> QED BY <2>4 DEF PromiseKept, Promise!Next
<1>3. CASE FinishBlock(b)
  <2>1. Phase[b] \in {"running", "cancelled"}
    BY <1>3 DEF FinishBlock, LoneInv, JobAndStatus, Phase, PhaseOf
  <2>2. \E over \in {"done", "failed"} \cup (IF b \in Conditional THEN {"skipped"} ELSE {}) :
          Phase' = [Phase EXCEPT ![b] = over]
    <3>1. PICK status \in Ends(b) : blk' = [blk EXCEPT ![b] = status]
      BY <1>3 DEF FinishBlock, Ends
    <3>2. Phase' = [Phase EXCEPT ![b] = PhaseOf(status)]
      BY <1>1, <3>1 DEF Phase
    <3>3. PhaseOf(status) \in {"done", "failed"}
                              \cup (IF b \in Conditional THEN {"skipped"} ELSE {})
      BY DEF PhaseOf, Ends
    <3> QED BY <3>2, <3>3
  <2>3. Promise!EndBlock(b)
    BY <1>1, <2>1, <2>2 DEF Promise!EndBlock, Phase
  <2> QED BY <2>3 DEF PromiseKept, Promise!Next
<1> QED BY <1>2, <1>3

\* What is left of a run that failed is cancelled.
LEMMA CancelPromised ==
  ASSUME NEW s, Alone(s), TypeOK, LoneInv(s), CancelBlockRuns(s)
  PROVE  PromiseKept
<1>1. /\ run \in Promise!Ended /\ run' = run /\ list[s] \in SUBSET Blocks
      /\ blk' = Write(list[s], "cancelled")
  BY DEF CancelBlockRuns, LoneInv, Control, Stopped, Promise!Ended, TypeOK, Alone, Actors
<1>2. Phase' = [b \in Blocks |-> IF b \in list[s] THEN "cancelled" ELSE Phase[b]]
  BY <1>1 DEF Write, Phase, PhaseOf
<1>3. Promise!CancelRest(list[s])
  BY <1>1, <1>2 DEF Promise!CancelRest, Promise!Become, Phase
<1> QED BY <1>1, <1>3 DEF PromiseKept, Promise!Next

\* All other steps stutter.
LEMMA StuttersPromised ==
  ASSUME NEW s, Alone(s), TypeOK, LoneInv(s),
         \/ StartRun(s) \/ CreateBlockRuns(s) \/ BeginPass(s) \/ SkipPass(s) \/ Refresh(s)
         \/ PickExecutable(s) \/ Dispatch(s) \/ EndPass(s) \/ ReadBlockRunsToCancel(s)
         \/ KillRunningJobs(s) \/ KillCancelledRuns(s) \/ CrashScheduler(s)
         \/ \E b \in Blocks : ClaimJob(b) \/ AdmitBlockRun(b) \/ EndJob(b) \/ CrashWorker(b)
         \/ ExpireLock \/ UNCHANGED vars
  PROVE  PromiseKept
<1>1. CASE CreateBlockRuns(s)
  <2>1. run' = run /\ \A b \in Blocks : {blk[b], blk'[b]} \subseteq {"absent", "initial"}
    BY <1>1 DEF CreateBlockRuns, LoneInv, Control
  <2> QED BY <2>1, SamePhases DEF PhaseOf
<1>2. CASE Dispatch(s)
  <2>1. run' = run
    BY <1>2 DEF Dispatch
  <2>2. ASSUME NEW c \in Blocks
        PROVE  blk'[c] = blk[c] \/ (blk[c] = "initial" /\ blk'[c] = "queued")
    <3>1. PICK b \in list[s] : blk' = Write({b}, "queued")
      BY <1>2 DEF Dispatch
    <3>2. blk[b] = "initial"
      BY <1>2 DEF Dispatch, LoneInv, ListWaits
    <3> QED BY <3>1, <3>2 DEF Write
  <2> QED BY <2>1, <2>2, SamePhases DEF PhaseOf
<1>3. CASE ~CreateBlockRuns(s) /\ ~Dispatch(s)
  <2>1. UNCHANGED <<run, blk>>
    BY <1>3
    DEF StartRun, BeginPass, SkipPass, Refresh, PickExecutable, EndPass, ReadBlockRunsToCancel,
        KillRunningJobs, KillCancelledRuns, CrashScheduler, ClaimJob, AdmitBlockRun, EndJob,
        CrashWorker, ExpireLock, vars, dbVars
  <2> QED BY <2>1, SamePhases
<1> QED BY <1>1, <1>2, <1>3

\* With blocks that may fail, the scheduler, its workers and their crashes
\* implement the run as its user sees it, for every pipeline.
THEOREM PromiseImplemented ==
  ASSUME NEW s, Alone(s), AllowBlocksToFail
  PROVE  Spec => KeepsPromise
<1>1. Init => Promise!Init
  BY DEF Init, Promise!Init, Nothing, PhaseOf
<1>2. TypeOK /\ LoneInv(s) /\ [Next]_vars => PromiseKept
  <2> SUFFICES ASSUME TypeOK, LoneInv(s), [Next]_vars PROVE PromiseKept OBVIOUS
  <2>1. Control(s)
    BY DEF LoneInv
  <2>2. ASSUME SchedulerMoves(s) PROVE PromiseKept
    BY <2>2, RunStepsPromised, SkipPromised, RunAgainPromised, CancelPromised, StuttersPromised
    DEF SchedulerMoves
  <2>3. ASSUME NEW b \in Blocks, WorkerStep(b) \/ CrashWorker(b) PROVE PromiseKept
    BY <2>3, WorkPromised, StuttersPromised DEF WorkerStep
  <2>4. CASE ExpireLock \/ UNCHANGED vars
    BY <2>4, StuttersPromised
  <2> QED BY <2>1, <2>2, <2>3, <2>4, OnlyTheseSteps
<1> QED BY <1>1, <1>2, LoneCorrect, TypeCorrect, PTL
        DEF Spec, KeepsPromise, Promise!Spec, PromiseKept, Phase
=============================================================================
