---------------------- MODULE PipelineScheduler_proofs ----------------------
(***************************************************************************)
(* Proofs about PipelineScheduler, for every value of its constants.       *)
(***************************************************************************)
EXTENDS PipelineScheduler, TLAPS

\* The helpers that change one component of the state keep its type.
LEMMA HelperTypes ==
  ASSUME TypeOK
  PROVE  /\ \A bs, st : st \in BlockStatus => Write(bs, st) \in [Blocks -> BlockStatus]
         /\ \A bs : WithoutJobs(bs) \in [Blocks -> JobState]
         /\ \A a \in Actors, l \in PC : Goto(a, l) => pc' \in [Actors -> PC]
         /\ \A a \in Actors, v \in [Blocks -> BlockStatus] :
              Look(a, v) => view' \in [Actors -> [Blocks -> BlockStatus]]
         /\ \A a \in Actors, bs \in SUBSET Blocks :
              Plan(a, bs) => list' \in [Actors -> SUBSET Blocks]
         /\ Nothing \in [Blocks -> BlockStatus]
<1>1. \A bs, st : st \in BlockStatus => Write(bs, st) \in [Blocks -> BlockStatus]
  BY DEF TypeOK, Write
<1>2. \A bs : WithoutJobs(bs) \in [Blocks -> JobState]
  BY DEF TypeOK, WithoutJobs, JobState
<1>3. \A a \in Actors, l \in PC : Goto(a, l) => pc' \in [Actors -> PC]
  BY DEF TypeOK, Goto
<1>4. \A a \in Actors, v \in [Blocks -> BlockStatus] :
        Look(a, v) => view' \in [Actors -> [Blocks -> BlockStatus]]
  BY DEF TypeOK, Look
<1>5. \A a \in Actors, bs \in SUBSET Blocks :
        Plan(a, bs) => list' \in [Actors -> SUBSET Blocks]
  BY DEF TypeOK, Plan
<1>6. Nothing \in [Blocks -> BlockStatus]
  BY DEF Nothing, BlockStatus
<1> QED BY <1>1, <1>2, <1>3, <1>4, <1>5, <1>6

\* Leaving a pass keeps the types of everything it changes.
LEMMA LeaveTypes ==
  ASSUME TypeOK, NEW a \in Actors, LeavePass(a)
  PROVE  /\ pc' \in [Actors -> PC]
         /\ view' \in [Actors -> [Blocks -> BlockStatus]]
         /\ list' \in [Actors -> SUBSET Blocks]
         /\ Lock!LockTypeOK'
BY HelperTypes DEF LeavePass, PC, TypeOK, Lock!Leave, Lock!LockTypeOK

\* No step of any process takes a variable out of its type.
LEMMA TypeStep == TypeOK /\ [Next]_vars => TypeOK'
<1> SUFFICES ASSUME TypeOK, [Next]_vars PROVE TypeOK' OBVIOUS
<1> USE SchedulerAssumption DEF SchedulerAssumption, dbVars, localVars, lockVars, auxVars, Lock!LockTypeOK
<1>1. ASSUME NEW s \in Schedulers, StartRun(s) PROVE TypeOK'
  BY <1>1, HelperTypes DEF StartRun, TypeOK, Actors, Lock!TryAcquire, PC
<1>2. ASSUME NEW s \in Schedulers, CreateBlockRuns(s) PROVE TypeOK'
  BY <1>2, HelperTypes DEF CreateBlockRuns, TypeOK, Actors, Lock!Release, PC, BlockStatus
<1>3. ASSUME NEW s \in Schedulers, FailToCreateBlockRuns(s) PROVE TypeOK'
  <2>1. blk' \in [Blocks -> BlockStatus]
    BY <1>3, HelperTypes DEF FailToCreateBlockRuns, BlockStatus
  <2>2. pc' \in [Actors -> PC]
    BY <1>3, HelperTypes DEF FailToCreateBlockRuns, Actors, PC
  <2>3. retries' \in 0..MaxRetries /\ run' \in RunStatus
    BY <1>3 DEF FailToCreateBlockRuns, TypeOK, RunStatus
  <2> QED BY <1>3, <2>1, <2>2, <2>3 DEF FailToCreateBlockRuns, TypeOK, Lock!Release
<1>4. ASSUME NEW s \in Schedulers, MarkRunning(s) PROVE TypeOK'
  BY <1>4, HelperTypes DEF MarkRunning, TypeOK, Actors, PC, RunStatus
<1>5. ASSUME NEW s \in Schedulers, BeginPass(s) PROVE TypeOK'
  BY <1>5, HelperTypes DEF BeginPass, TypeOK, Actors, Lock!TryAcquire, PC
<1>6. ASSUME NEW s \in Schedulers, SkipPass(s) PROVE TypeOK'
  BY <1>6, HelperTypes DEF SkipPass, TypeOK, Actors, PC
<1>7. ASSUME NEW s \in Schedulers, Refresh(s) PROVE TypeOK'
  BY <1>7, HelperTypes DEF Refresh, TypeOK, Actors, PC, Having
<1>8. ASSUME NEW s \in Schedulers, CompleteRun(s) PROVE TypeOK'
  BY <1>8, HelperTypes, LeaveTypes DEF CompleteRun, TypeOK, Actors, RunStatus
<1>9. ASSUME NEW s \in Schedulers, FailRun(s) PROVE TypeOK'
  BY <1>9, HelperTypes DEF FailRun, TypeOK, Actors, PC, RunStatus
<1>10. ASSUME NEW s \in Schedulers, TimeOutRun(s) PROVE TypeOK'
  BY <1>10, HelperTypes DEF TimeOutRun, TypeOK, Actors, PC, RunStatus
<1>11. ASSUME NEW s \in Schedulers, TimeOutBlock(s) PROVE TypeOK'
  BY <1>11, HelperTypes DEF TimeOutBlock, TypeOK, Actors, PC, BlockStatus, Having
<1>12. ASSUME NEW s \in Schedulers, KillTimedOut(s) PROVE TypeOK'
  BY <1>12, HelperTypes DEF KillTimedOut, TypeOK, Actors, PC
<1>13. ASSUME NEW s \in Schedulers, UpdateBlockRunStatuses(s) PROVE TypeOK'
  BY <1>13, HelperTypes DEF UpdateBlockRunStatuses, TypeOK, Actors, PC, SkipStatus, Skipped, BlockStatus
<1>14. ASSUME NEW s \in Schedulers, PickExecutable(s) PROVE TypeOK'
  BY <1>14, HelperTypes DEF PickExecutable, TypeOK, Actors, PC, Executable, Having
<1>15. ASSUME NEW s \in Schedulers, FetchCrashedBlockRuns(s) PROVE TypeOK'
  BY <1>15, HelperTypes, LeaveTypes DEF FetchCrashedBlockRuns, TypeOK, Actors, PC, BlockStatus, Crashed, Having
<1>16. ASSUME NEW s \in Schedulers, Dispatch(s) PROVE TypeOK'
  BY <1>16, HelperTypes DEF Dispatch, TypeOK, Actors, BlockStatus, JobState
<1>17. ASSUME NEW s \in Schedulers, EndPass(s) PROVE TypeOK'
  BY <1>17, HelperTypes, LeaveTypes DEF EndPass, TypeOK, Actors
<1>18. ASSUME NEW a \in Actors, ReadBlockRunsToCancel(a) PROVE TypeOK'
  BY <1>18, HelperTypes DEF ReadBlockRunsToCancel, TypeOK, PC, Having
<1>19. ASSUME NEW a \in Actors, CancelBlockRuns(a) PROVE TypeOK'
  BY <1>19, HelperTypes DEF CancelBlockRuns, TypeOK, PC, BlockStatus
<1>20. ASSUME NEW a \in Actors, KillRunningJobs(a) PROVE TypeOK'
  BY <1>20, HelperTypes, LeaveTypes DEF KillRunningJobs, TypeOK, PC
<1>21. ASSUME NEW a \in Actors, StopPipelineRun(a) PROVE TypeOK'
  BY <1>21, HelperTypes DEF StopPipelineRun, TypeOK, PC, RunStatus
<1>22. ASSUME NEW s \in Schedulers, KillCancelledRuns(s) PROVE TypeOK'
  BY <1>22, HelperTypes DEF KillCancelledRuns, TypeOK, Actors
<1>23. ASSUME NEW s \in Schedulers, CrashScheduler(s) PROVE TypeOK'
  BY <1>23, HelperTypes, LeaveTypes DEF CrashScheduler, TypeOK, Actors
<1>24. ASSUME RetryBlocks PROVE TypeOK'
  <2>1. blk' \in [Blocks -> BlockStatus]
    <3>1. "initial" \in BlockStatus
      BY DEF BlockStatus
    <3>2. blk \in [Blocks -> BlockStatus]
      BY DEF TypeOK
    <3>3. \A bs : Write(bs, "initial") \in [Blocks -> BlockStatus]
      BY <3>1, HelperTypes
    <3> QED BY <1>24, <3>2, <3>3 DEF RetryBlocks
  <2>2. retries' \in 0..MaxRetries /\ run' \in RunStatus
    BY <1>24 DEF RetryBlocks, TypeOK, RunStatus
  <2> QED BY <1>24, <2>1, <2>2 DEF RetryBlocks, TypeOK
<1>25. ASSUME RetryIncompleteBlockRuns PROVE TypeOK'
  BY <1>25, HelperTypes DEF RetryIncompleteBlockRuns, TypeOK, BlockStatus, RunStatus
<1>26. ASSUME NEW b \in Blocks, ClaimJob(b) PROVE TypeOK'
  BY <1>26, HelperTypes DEF ClaimJob, TypeOK, JobState
<1>27. ASSUME NEW b \in Blocks, AdmitBlockRun(b) PROVE TypeOK'
  BY <1>27, HelperTypes DEF AdmitBlockRun, TypeOK, JobState
<1>28. ASSUME NEW b \in Blocks, RunBlock(b) PROVE TypeOK'
  BY <1>28, HelperTypes DEF RunBlock, TypeOK, JobState, BlockStatus
<1>29. ASSUME NEW b \in Blocks, FinishBlock(b) PROVE TypeOK'
  BY <1>29, HelperTypes DEF FinishBlock, TypeOK, JobState, BlockStatus
<1>30. ASSUME NEW b \in Blocks, EndJob(b) PROVE TypeOK'
  BY <1>30, HelperTypes DEF EndJob, TypeOK, JobState
<1>31. ASSUME NEW b \in Blocks, CrashWorker(b) PROVE TypeOK'
  BY <1>31, HelperTypes DEF CrashWorker, TypeOK, JobState
<1>32. ASSUME ExpireLock PROVE TypeOK'
  BY <1>32, HelperTypes DEF ExpireLock, TypeOK, Lock!Expire, Lock!LockTypeOK
<1>33. CASE UNCHANGED vars
  BY <1>33 DEF TypeOK, vars
<1> QED
  BY <1>1, <1>2, <1>3, <1>4, <1>5, <1>6, <1>7, <1>8, <1>9, <1>10, <1>11, <1>12, <1>13, <1>14, <1>15, <1>16, <1>17, <1>18, <1>19, <1>20, <1>21, <1>22, <1>23, <1>24, <1>25, <1>26, <1>27, <1>28, <1>29, <1>30, <1>31, <1>32, <1>33
     DEF Next, SchedulerStep, WorkerStep, ServerStep, Actors

\* Every variable keeps its type in every behaviour.
THEOREM TypeCorrect == Spec => []TypeOK
<1>1. Init => TypeOK
  <2> SUFFICES ASSUME Init PROVE TypeOK OBVIOUS
  <2>1. blk \in [Blocks -> BlockStatus] /\ job \in [Blocks -> JobState]
    BY DEF Init, Nothing, BlockStatus, JobState
  <2>2. Nothing \in [Blocks -> BlockStatus]
    BY DEF Nothing, BlockStatus
  <2>3. view \in [Actors -> [Blocks -> BlockStatus]]
    BY <2>2 DEF Init
  <2>4. pc \in [Actors -> PC] /\ list \in [Actors -> SUBSET Blocks]
    BY DEF Init, PC
  <2>5. crashes \in 0..MaxCrashes /\ cancels \in 0..MaxCancels /\ retries \in 0..MaxRetries
    BY SchedulerAssumption DEF SchedulerAssumption, Init
  <2>6. Lock!LockTypeOK
    BY DEF Init, Lock!LockInit, Lock!LockTypeOK
  <2> QED BY <2>1, <2>3, <2>4, <2>5, <2>6 DEF Init, TypeOK, RunStatus
<1> QED BY <1>1, TypeStep, PTL DEF Spec

-----------------------------------------------------------------------------
(* One pass at a time.  The invariant says why Release(), which deletes    *)
(* the key of whoever holds it, deletes only the caller's own: a scheduler *)
(* releases from "create", where it is a holder, and so the only one.      *)

LockInv ==
  /\ Lock!OneHolder
  /\ Lock!KeyGuardsHolders
  /\ \A s \in Schedulers : pc[s] = "create" => s \in holders

\* Every step keeps LockInv: only Expire() takes the key from its holder, and
\* the lease is assumed to outlive the pass.
LEMMA LockStep ==
  ASSUME UsesRedis, LeaseOutlivesPass, TypeOK, LockInv, [Next]_vars
  PROVE  LockInv'
<1> USE DEF Lock!OneHolder, Lock!KeyGuardsHolders
<1>1. ASSUME NEW s \in Schedulers, StartRun(s) \/ BeginPass(s) PROVE LockInv'
  BY <1>1 DEF StartRun, BeginPass, LockInv, TypeOK, Actors, Goto, Lock!TryAcquire
<1>2. ASSUME NEW s \in Schedulers, CreateBlockRuns(s) \/ FailToCreateBlockRuns(s)
      PROVE  LockInv'
  BY <1>2 DEF CreateBlockRuns, FailToCreateBlockRuns, LockInv, TypeOK, Actors, Goto, Lock!Release
<1>3. ASSUME NEW a \in Actors, LeavePass(a) PROVE LockInv'
  <2>1. pc' = [pc EXCEPT ![a] = "idle"]
    BY <1>3 DEF LeavePass, Goto
  <2>2. holders' = holders \ {a} /\ key' = key
    BY <1>3 DEF LeavePass, Lock!Leave
  <2> QED BY <2>1, <2>2 DEF LockInv, TypeOK, Actors
<1>4. ASSUME NEW a \in Actors, NEW l \in PC \ {"create"}, Goto(a, l), UNCHANGED lockVars
      PROVE  LockInv'
  BY <1>4 DEF LockInv, TypeOK, Actors, Goto, lockVars
<1>5. ASSUME UNCHANGED <<pc, lockVars>> PROVE LockInv'
  BY <1>5 DEF LockInv, lockVars
<1>6. CASE ExpireLock
  BY <1>6 DEF ExpireLock, LockInv, Lock!Expire, localVars
<1>7. ASSUME NEW s \in Schedulers, SchedulerStep(s) PROVE LockInv'
  <2>1. CASE StartRun(s) \/ CreateBlockRuns(s) \/ BeginPass(s)
    BY <2>1, <1>1, <1>2
  <2>2. CASE \/ MarkRunning(s) \/ SkipPass(s) \/ Refresh(s) \/ FailRun(s) \/ TimeOutRun(s)
             \/ TimeOutBlock(s) \/ KillTimedOut(s) \/ UpdateBlockRunStatuses(s)
             \/ PickExecutable(s)
    BY <2>2, <1>4
    DEF MarkRunning, SkipPass, Refresh, FailRun, TimeOutRun, TimeOutBlock, KillTimedOut,
        UpdateBlockRunStatuses, PickExecutable, PC, Actors
  <2>3. CASE CompleteRun(s) \/ EndPass(s)
    BY <2>3, <1>3 DEF CompleteRun, EndPass, Actors
  <2>4. CASE FetchCrashedBlockRuns(s)
    BY <2>4, <1>3, <1>4 DEF FetchCrashedBlockRuns, PC, Actors, lockVars
  <2>5. CASE Dispatch(s)
    BY <2>5, <1>5 DEF Dispatch
  <2>6. CASE ReadBlockRunsToCancel(s) \/ CancelBlockRuns(s) \/ KillRunningJobs(s)
    BY <2>6, <1>3, <1>4
    DEF ReadBlockRunsToCancel, CancelBlockRuns, KillRunningJobs, PC, Actors
  <2> QED BY <1>7, <2>1, <2>2, <2>3, <2>4, <2>5, <2>6 DEF SchedulerStep
<1>8. CASE \E s \in Schedulers : KillCancelledRuns(s) \/ StopPipelineRun(s) \/ CrashScheduler(s)
  BY <1>8, <1>3, <1>4, <1>5
  DEF KillCancelledRuns, StopPipelineRun, CrashScheduler, PC, Actors, localVars
<1>9. CASE ServerStep
  BY <1>9, <1>3, <1>4, <1>5
  DEF ServerStep, StopPipelineRun, ReadBlockRunsToCancel, CancelBlockRuns, KillRunningJobs,
      RetryBlocks, RetryIncompleteBlockRuns, PC, Actors, localVars
<1>10. CASE \E b \in Blocks : WorkerStep(b) \/ CrashWorker(b)
  BY <1>10, <1>5
  DEF WorkerStep, ClaimJob, AdmitBlockRun, RunBlock, FinishBlock, EndJob, CrashWorker, localVars
<1>11. CASE UNCHANGED vars
  BY <1>11, <1>5 DEF vars, lockVars
<1> QED BY <1>2, <1>6, <1>7, <1>8, <1>9, <1>10, <1>11 DEF Next

\* With Redis, and a lease that outlives every pass, no two schedulers are in
\* start() or schedule() of the run at the same time: the guarantee that the
\* checks of the lock in start() and schedule() are there for.
THEOREM OneScheduler ==
  ASSUME UsesRedis, LeaseOutlivesPass
  PROVE  Spec => []OnePassAtATime
<1>1. Init => LockInv
  BY DEF Init, LockInv, Lock!LockInit, Lock!OneHolder, Lock!KeyGuardsHolders, Actors
<1>2. TypeOK /\ LockInv /\ [Next]_vars => LockInv'
  BY LockStep
<1>3. LockInv => OnePassAtATime
  BY DEF LockInv, OnePassAtATime
<1> QED BY <1>1, <1>2, <1>3, TypeCorrect, PTL DEF Spec

-----------------------------------------------------------------------------
(* No block before its upstream blocks.  The invariant follows the fact    *)
(* that the upstream blocks of b have completed through every place it is  *)
(* acted on after it was read: the scheduler's list, the status "queued",  *)
(* the job, and a later reading of a block run that lost its job.          *)

UpstreamRan(b) == Upstream[b] \subseteq everDone

CompletedIsRecorded ==
  /\ \A b \in Blocks : blk[b] = "completed" => b \in everDone
  /\ \A a \in Actors, b \in Blocks : view[a][b] = "completed" => b \in everDone

UpstreamInv ==
  /\ CompletedIsRecorded
  /\ \A b \in Blocks : job[b] # "none" => UpstreamRan(b)
  /\ \A b \in Blocks : blk[b] \in QueuedOrRunning => UpstreamRan(b)
  /\ \A a \in Actors, b \in Blocks : view[a][b] \in QueuedOrRunning => UpstreamRan(b)
  /\ \A a \in Actors : pc[a] \in {"crashes", "dispatch"} => \A b \in list[a] : UpstreamRan(b)

\* A step that adds no upstream obligation: block runs only leave the statuses
\* that need one, or get one of them from a list whose blocks have it.
LEMMA UpstreamFrame ==
  ASSUME TypeOK, UpstreamInv, everDone \subseteq everDone',
         \A b \in Blocks : blk'[b] = "completed" => blk[b] = "completed" \/ b \in everDone',
         \A b \in Blocks : blk'[b] \in QueuedOrRunning => blk[b] \in QueuedOrRunning \/ UpstreamRan(b),
         \A b \in Blocks : job'[b] # "none" => job[b] # "none" \/ UpstreamRan(b),
         \A a \in Actors : \/ view'[a] = view[a] \/ view'[a] = blk \/ view'[a] = blk'
                           \/ \A b \in Blocks : view'[a][b] # view[a][b]
                                => view'[a][b] \notin QueuedOrRunning \cup {"completed"},
         \A a \in Actors : \/ pc'[a] \notin {"crashes", "dispatch"}
                           \/ pc'[a] = pc[a] /\ list'[a] \subseteq list[a]
                           \/ \A b \in list'[a] : b \in Blocks /\ UpstreamRan(b)
  PROVE  UpstreamInv'
<1>1. \A b : UpstreamRan(b) => UpstreamRan(b)'
  BY DEF UpstreamRan
<1>2. CompletedIsRecorded'
  BY DEF UpstreamInv, CompletedIsRecorded, QueuedOrRunning
<1>3. \A b \in Blocks : job'[b] # "none" => UpstreamRan(b)'
  BY <1>1 DEF UpstreamInv
<1>4. \A b \in Blocks : blk'[b] \in QueuedOrRunning => UpstreamRan(b)'
  BY <1>1 DEF UpstreamInv
<1>5. \A a \in Actors, b \in Blocks : view'[a][b] \in QueuedOrRunning => UpstreamRan(b)'
  BY <1>1, <1>4 DEF UpstreamInv
<1>6. \A a \in Actors :
        pc'[a] \in {"crashes", "dispatch"} => \A b \in list'[a] : UpstreamRan(b)'
  BY <1>1 DEF UpstreamInv
<1> QED BY <1>2, <1>3, <1>4, <1>5, <1>6 DEF UpstreamInv

\* Every step keeps UpstreamInv: a block run enters the list of a pass as an
\* executable one or as one that was queued or running, and the status "queued"
\* and the job come from that list.
LEMMA UpstreamStep ==
  ASSUME TypeOK, UpstreamInv, [Next]_vars
  PROVE  UpstreamInv'
<1> USE DEF dbVars, localVars, lockVars, auxVars, Goto, Look, Plan
<1>1. ASSUME NEW s \in Schedulers,
             StartRun(s) \/ CreateBlockRuns(s) \/ FailToCreateBlockRuns(s) \/ MarkRunning(s)
             \/ BeginPass(s) \/ SkipPass(s)
      PROVE  UpstreamInv'
  BY <1>1, UpstreamFrame
  DEF StartRun, CreateBlockRuns, FailToCreateBlockRuns, MarkRunning, BeginPass, SkipPass,
      TypeOK, Actors, Write, QueuedOrRunning
<1>2. ASSUME NEW s \in Schedulers, Refresh(s) PROVE UpstreamInv'
  BY <1>2, UpstreamFrame DEF Refresh, TypeOK, Actors
<1>3. ASSUME NEW s \in Schedulers,
             CompleteRun(s) \/ EndPass(s) \/ CrashScheduler(s)
      PROVE  UpstreamInv'
  BY <1>3, UpstreamFrame
  DEF CompleteRun, EndPass, CrashScheduler, LeavePass, Nothing, TypeOK, Actors, QueuedOrRunning
<1>4. ASSUME NEW s \in Schedulers, FailRun(s) \/ TimeOutRun(s) PROVE UpstreamInv'
  BY <1>4, UpstreamFrame DEF FailRun, TimeOutRun, TypeOK, Actors
<1>5. ASSUME NEW s \in Schedulers, TimeOutBlock(s) PROVE UpstreamInv'
  BY <1>5, UpstreamFrame DEF TimeOutBlock, Having, Write, TypeOK, Actors, QueuedOrRunning
<1>6. ASSUME NEW s \in Schedulers, KillTimedOut(s) PROVE UpstreamInv'
  BY <1>6, UpstreamFrame DEF KillTimedOut, WithoutJobs, TypeOK, Actors
<1>7. ASSUME NEW s \in Schedulers, UpdateBlockRunStatuses(s) PROVE UpstreamInv'
  BY <1>7, UpstreamFrame
  DEF UpdateBlockRunStatuses, SkipStatus, TypeOK, Actors, QueuedOrRunning
<1>8. ASSUME NEW s \in Schedulers, PickExecutable(s) PROVE UpstreamInv'
  <2>1. \A b \in Executable(view[s]) : b \in Blocks /\ UpstreamRan(b)
    BY SchedulerAssumption
    DEF SchedulerAssumption, Executable, Having, UpstreamRan, UpstreamInv, CompletedIsRecorded,
        Actors
  <2> QED BY <1>8, <2>1, UpstreamFrame DEF PickExecutable, TypeOK, Actors
<1>9. ASSUME NEW s \in Schedulers, FetchCrashedBlockRuns(s) PROVE UpstreamInv'
  <2>1. \A b \in Crashed(s) \cup list[s] : b \in Blocks /\ UpstreamRan(b)
    BY <1>9 DEF FetchCrashedBlockRuns, Crashed, Having, UpstreamInv, TypeOK, Actors
  <2>2. \A b \in Blocks : blk'[b] = blk[b] \/ blk'[b] = "initial"
    BY <1>9 DEF FetchCrashedBlockRuns, Write, TypeOK
  <2>3. \/ view' = view
        \/ \E a \in Actors : view' = [view EXCEPT ![a] = Nothing]
    BY <1>9 DEF FetchCrashedBlockRuns, LeavePass, Actors
  <2>4. \A a \in Actors :
          \/ pc'[a] \notin {"crashes", "dispatch"}
          \/ pc'[a] = pc[a] /\ list'[a] \subseteq list[a]
          \/ \A b \in list'[a] : b \in Blocks /\ UpstreamRan(b)
    BY <1>9, <2>1 DEF FetchCrashedBlockRuns, LeavePass, TypeOK, Actors
  <2>5. job' = job /\ everDone' = everDone
    BY <1>9 DEF FetchCrashedBlockRuns
  <2> QED
    BY <2>2, <2>3, <2>4, <2>5, UpstreamFrame DEF Nothing, QueuedOrRunning, TypeOK
<1>10. ASSUME NEW s \in Schedulers, Dispatch(s) PROVE UpstreamInv'
  <2>1. PICK b \in list[s] :
          /\ blk' = Write({b}, "queued")
          /\ job' = IF HasJob(b) THEN job ELSE [job EXCEPT ![b] = "queued"]
          /\ list' = [list EXCEPT ![s] = list[s] \ {b}]
    BY <1>10 DEF Dispatch
  <2>2. b \in Blocks /\ UpstreamRan(b)
    BY <1>10 DEF Dispatch, UpstreamInv, TypeOK, Actors
  <2> QED
    BY <1>10, <2>1, <2>2, UpstreamFrame DEF Dispatch, Write, TypeOK, Actors, QueuedOrRunning
<1>11. ASSUME NEW a \in Actors,
              StopPipelineRun(a) \/ ReadBlockRunsToCancel(a) \/ CancelBlockRuns(a)
       PROVE  UpstreamInv'
  BY <1>11, UpstreamFrame
  DEF StopPipelineRun, ReadBlockRunsToCancel, CancelBlockRuns, Write, TypeOK, QueuedOrRunning
<1>12. ASSUME NEW a \in Actors, KillRunningJobs(a) PROVE UpstreamInv'
  BY <1>12, UpstreamFrame
  DEF KillRunningJobs, LeavePass, Nothing, WithoutJobs, TypeOK, QueuedOrRunning
<1>13. ASSUME NEW s \in Schedulers, KillCancelledRuns(s) PROVE UpstreamInv'
  BY <1>13, UpstreamFrame DEF KillCancelledRuns, WithoutJobs, TypeOK
<1>14. CASE RetryBlocks \/ RetryIncompleteBlockRuns
  <2>1. \A b \in Blocks : blk'[b] = blk[b] \/ blk'[b] = "initial"
    BY <1>14 DEF RetryBlocks, RetryIncompleteBlockRuns, Write, TypeOK
  <2> QED
    BY <1>14, <2>1, UpstreamFrame
    DEF RetryBlocks, RetryIncompleteBlockRuns, TypeOK, QueuedOrRunning
<1>15. ASSUME NEW b \in Blocks, ClaimJob(b) \/ AdmitBlockRun(b) \/ EndJob(b) \/ CrashWorker(b)
       PROVE  UpstreamInv'
  BY <1>15, UpstreamFrame DEF ClaimJob, AdmitBlockRun, EndJob, CrashWorker, TypeOK
<1>16. ASSUME NEW b \in Blocks, RunBlock(b) PROVE UpstreamInv'
  BY <1>16, UpstreamFrame DEF RunBlock, UpstreamInv, TypeOK, QueuedOrRunning
<1>17. ASSUME NEW b \in Blocks, FinishBlock(b) PROVE UpstreamInv'
  BY <1>17, UpstreamFrame DEF FinishBlock, TypeOK, QueuedOrRunning
<1>18. CASE ExpireLock \/ UNCHANGED vars
  BY <1>18, UpstreamFrame DEF ExpireLock, vars
<1> QED
  BY <1>1, <1>2, <1>3, <1>4, <1>5, <1>6, <1>7, <1>8, <1>9, <1>10, <1>11, <1>12, <1>13,
     <1>14, <1>15, <1>16, <1>17, <1>18
  DEF Next, SchedulerStep, WorkerStep, ServerStep, Actors

\* However many schedulers run, with or without the lock, whatever crashes, is
\* cancelled or is retried: run_block() never marks a block run as running
\* before each upstream block of it has completed.
THEOREM NoBlockBeforeUpstream == Spec => UpstreamHasRun
<1>1. Init => UpstreamInv
  BY DEF Init, UpstreamInv, CompletedIsRecorded, Nothing, QueuedOrRunning
<1>2. TypeOK /\ UpstreamInv /\ [Next]_vars => UpstreamInv'
  BY UpstreamStep
<1>3. UpstreamInv => \A b \in Blocks : Starts(b) => Upstream[b] \subseteq everDone
  BY DEF UpstreamInv, UpstreamRan, Starts
<1>4. Spec => []UpstreamInv
  BY <1>1, <1>2, TypeCorrect, PTL DEF Spec
<1> QED BY <1>3, <1>4, PTL DEF UpstreamHasRun
=============================================================================
