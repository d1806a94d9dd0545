----------------------------- MODULE RunLimits -----------------------------
(***************************************************************************)
(* How one pipeline's runs are created and started: steps 4.1 to 4.4 of    *)
(* schedule_all() in mage_ai/orchestration/pipeline_scheduler_original.py, *)
(* with the limits on concurrent runs of concurrency.py.  Every scheduler  *)
(* replica passes over the triggers of the pipeline, each under a lock in  *)
(* Redis, decides which initial runs to start within the trigger's limit,  *)
(* and after the last trigger starts them within the pipeline's limit.     *)
(* API requests create runs meanwhile, and runs end and are stopped.       *)
(*                                                                         *)
(* What a started run does is PipelineScheduler's subject.  Left out:      *)
(* runs that are started outside schedule_all() (retries, and callers of   *)
(* create_and_start_pipeline_run() with should_schedule), which no limit   *)
(* holds back, backfills, landing time and streaming restarts.             *)
(***************************************************************************)
EXTENDS Integers, Sequences, FiniteSets

CONSTANTS
  Schedulers,    \* scheduler replicas
  Triggers,      \* active pipeline_schedules of the pipeline
  TimeTriggers,  \* those that run at intervals; the others on request
  SkipIfRunning, \* triggers with the setting skip_if_previous_running
  TriggerLimit,  \* pipeline_run_limit, of the trigger or else of the pipeline
  PipelineLimit, \* pipeline_run_limit_all_triggers
  Policies,      \* values on_pipeline_run_limit_reached may have
  NoTrigger,     \* the trigger of a pass that is at none
  UsesRedis,     \* whether REDIS_URL is configured
  LeaseOutlivesSection, \* assumption: 30 s are enough for a locked section
  MaxInterval,   \* bound: intervals that elapse
  MaxRequests,   \* bound: runs created on request
  MaxCrashes     \* bound: schedulers that die in a pass

ASSUME LimitsAssumption ==
  /\ TimeTriggers \subseteq Triggers
  /\ SkipIfRunning \subseteq TimeTriggers
  /\ NoTrigger \notin Triggers
  /\ TriggerLimit \in [Triggers -> Nat \ {0}]
  /\ PipelineLimit \in Nat \ {0}
  /\ Policies # {} /\ Policies \subseteq {"wait", "skip"}
  /\ UsesRedis \in BOOLEAN
  /\ LeaseOutlivesSection \in BOOLEAN
  /\ MaxInterval \in Nat
  /\ MaxRequests \in Nat
  /\ MaxCrashes \in Nat
  /\ IsFiniteSet(Schedulers)

VARIABLES
  runs,       \* the pipeline_run table: trigger, execution date, status, by id
  interval,   \* how many intervals have elapsed
  key,        \* the triggers whose lock's key is in Redis
  pass,       \* what every scheduler knows in its pass
  crashes     \* so far

vars == <<runs, interval, key, pass, crashes>>

\* An execution date: that of an interval is its beginning, that of a request
\* lies between two of them.
DateOf(i) == 2 * i
RequestDate(i) == 2 * i + 1
Dates == 0..RequestDate(MaxInterval)

\* What the limits tell apart: "ended" stands for completed, failed and cancelled.
RunStatus == {"initial", "running", "ended"}
PassPC == {"idle", "triggers", "decide", "release", "count", "create",
           "insert", "insert_skipped", "cancel_skipped", "select", "start"}

IdlePass ==
  [pc |-> "idle", todo |-> {}, trigger |-> NoTrigger, policy |-> "wait",
   active |-> 0, due |-> FALSE, initial |-> {}, running |-> 0, date |-> 0,
   toStart |-> {}, excluded |-> {}]

RunIds == 1..Len(runs)

TypeOK ==
  /\ runs \in Seq([trigger : Triggers, date : Dates, status : RunStatus])
  /\ interval \in 0..MaxInterval
  /\ key \subseteq Triggers
  /\ crashes \in 0..MaxCrashes
  /\ pass \in [Schedulers ->
       [pc : PassPC, todo : SUBSET Triggers, trigger : Triggers \cup {NoTrigger},
        policy : {"wait", "skip"}, active : Nat, due : BOOLEAN,
        initial : SUBSET RunIds, running : Nat, date : Nat,
        toStart : SUBSET RunIds, excluded : SUBSET RunIds]]

Init ==
  /\ runs = <<>>
  /\ interval = 0
  /\ key = {}
  /\ pass = [s \in Schedulers |-> IdlePass]
  /\ crashes = 0

-----------------------------------------------------------------------------

RunsOf(t, status) == {r \in RunIds : runs[r].trigger = t /\ runs[r].status = status}

ActiveRuns == {r \in RunIds : runs[r].status = "running"}

\* Broken variant: no look at the runs of the interval.
DueWheneverElapsed(t) == t \in TimeTriggers /\ interval > 0

\* should_schedule(): no run has the execution date of the interval.
ShouldSchedule(t) ==
  /\ t \in TimeTriggers
  /\ interval > 0
  /\ \A r \in RunIds : runs[r].trigger = t => runs[r].date # DateOf(interval)

Before(q, r) ==
  runs[q].date < runs[r].date \/ (runs[q].date = runs[r].date /\ q < r)

\* The first n of a list of runs sorted by execution date.
Earliest(ids, n) == {r \in ids : Cardinality({q \in ids : Before(q, r)}) < n}

\* The triggers whose section, between lock and release, a scheduler is in.
InSection == {pass[s].trigger : s \in Schedulers}

Step(s, label) == pass' = [pass EXCEPT ![s].pc = label]

Become(r, status) == runs' = [runs EXCEPT ![r].status = status]

CreateRun(t, date, status) ==
  runs' = Append(runs, [trigger |-> t, date |-> date, status |-> status])

\* The next trigger, and nothing kept of the last one but its selected runs;
\* those left out by a limit only where something becomes of them.
Excluded(s, ids) == IF pass[s].policy = "skip" THEN ids ELSE {}

NextTrigger(s, started, left) ==
  pass' = [pass EXCEPT ![s] =
             [IdlePass EXCEPT !.pc = "triggers", !.todo = pass[s].todo,
                !.policy = pass[s].policy, !.active = pass[s].active,
                !.toStart = started, !.excluded = Excluded(s, left)]]

-----------------------------------------------------------------------------
(* One pass of schedule_all() over the triggers of the pipeline.           *)

\* The active runs of the pipeline are counted before the loop.
BeginPass(s) ==
  /\ pass[s].pc = "idle"
  /\ \E policy \in Policies :
       pass' = [pass EXCEPT ![s] =
                  [IdlePass EXCEPT !.pc = "triggers", !.todo = Triggers,
                     !.policy = policy, !.active = Cardinality(ActiveRuns)]]
  /\ UNCHANGED <<runs, interval, key, crashes>>

LockTrigger(s) ==
  /\ pass[s].pc = "triggers"
  /\ \E t \in pass[s].todo :
       /\ t \notin key
       /\ key' = IF UsesRedis THEN key \cup {t} ELSE key
       /\ pass' = [pass EXCEPT ![s].pc = "decide", ![s].trigger = t,
                               ![s].todo = @ \ {t}]
  /\ UNCHANGED <<runs, interval, crashes>>

SkipLockedTrigger(s) ==
  /\ pass[s].pc = "triggers"
  /\ \E t \in pass[s].todo \cap key :
       pass' = [pass EXCEPT ![s].todo = @ \ {t}]
  /\ UNCHANGED <<runs, interval, key, crashes>>

\* Broken variant: initial runs are looked at only when a new one is due.
DecideWhenDue(s) ==
  LET t == pass[s].trigger
      due == ShouldSchedule(t)
      initial == RunsOf(t, "initial")
  IN
  /\ pass[s].pc = "decide"
  /\ IF ~due
       THEN key' = key \ {t} /\ Step(s, "release")
       ELSE /\ pass' = [pass EXCEPT ![s].pc = "count", ![s].due = due,
                                    ![s].initial = initial]
            /\ UNCHANGED key
  /\ UNCHANGED <<runs, interval, crashes>>

\* With nothing to do the lock is released here, and once more in the finally
\* clause that the continue statement runs through.
Decide(s) ==
  LET t == pass[s].trigger
      due == ShouldSchedule(t)
      initial == RunsOf(t, "initial")
  IN
  /\ pass[s].pc = "decide"
  /\ IF ~due /\ initial = {}
       THEN key' = key \ {t} /\ Step(s, "release")
       ELSE /\ pass' = [pass EXCEPT ![s].pc = "count", ![s].due = due,
                                    ![s].initial = initial]
            /\ UNCHANGED key
  /\ UNCHANGED <<runs, interval, crashes>>

ReleaseAgain(s) ==
  /\ pass[s].pc = "release"
  /\ key' = key \ {pass[s].trigger}
  /\ NextTrigger(s, pass[s].toStart, pass[s].excluded)
  /\ UNCHANGED <<runs, interval, crashes>>

\* Broken variant: a run that waits is not a previous run.
CountRunningOnly(s) ==
  LET p == pass[s]
      count == Cardinality(RunsOf(p.trigger, "running"))
      skipped == p.trigger \in SkipIfRunning /\ count > 0
  IN
  /\ p.pc = "count"
  /\ pass' = [pass EXCEPT ![s].running = count, ![s].due = FALSE,
                ![s].date = IF p.due THEN DateOf(interval) ELSE 0,
                ![s].pc = IF ~p.due THEN "select"
                          ELSE IF skipped THEN "insert_skipped" ELSE "create"]
  /\ UNCHANGED <<runs, interval, key, crashes>>

\* The running runs of the trigger, and what becomes of the interval's run.
CountRunning(s) ==
  LET p == pass[s]
      count == Cardinality(RunsOf(p.trigger, "running"))
      skipped == p.trigger \in SkipIfRunning /\ (p.initial # {} \/ count > 0)
  IN
  /\ p.pc = "count"
  /\ pass' = [pass EXCEPT ![s].running = count, ![s].due = FALSE,
                ![s].date = IF p.due THEN DateOf(interval) ELSE 0,
                ![s].pc = IF ~p.due THEN "select"
                          ELSE IF skipped THEN "insert_skipped" ELSE "create"]
  /\ UNCHANGED <<runs, interval, key, crashes>>

\* PipelineRun.create(prevent_duplicates=True) looks for a run of the same
\* date, and inserts one when there is none.
LookForDuplicate(s) ==
  /\ pass[s].pc = "create"
  /\ IF \E r \in RunIds : runs[r].trigger = pass[s].trigger /\ runs[r].date = pass[s].date
       THEN pass' = [pass EXCEPT ![s].pc = "select", ![s].date = 0]
       ELSE Step(s, "insert")
  /\ UNCHANGED <<runs, interval, key, crashes>>

\* Broken variant: the insertion is rolled back, and its run selected.
InsertNothing(s) ==
  /\ pass[s].pc = "insert"
  /\ pass' = [pass EXCEPT ![s].pc = "select", ![s].date = 0,
                          ![s].initial = @ \cup {Len(runs) + 1}]
  /\ UNCHANGED <<runs, interval, key, crashes>>

InsertRun(s) ==
  /\ pass[s].pc = "insert"
  /\ CreateRun(pass[s].trigger, pass[s].date, "initial")
  /\ pass' = [pass EXCEPT ![s].pc = "select", ![s].date = 0,
                          ![s].initial = @ \cup {Len(runs) + 1}]
  /\ UNCHANGED <<interval, key, crashes>>

\* create_and_cancel_pipeline_run(): no look for a duplicate, and the new run
\* is not among the initial runs of the pass.  While it is being cancelled its
\* id stands in the field date, which the pass no longer needs.
InsertSkipped(s) ==
  /\ pass[s].pc = "insert_skipped"
  /\ CreateRun(pass[s].trigger, pass[s].date, "initial")
  /\ pass' = [pass EXCEPT ![s].pc = "cancel_skipped", ![s].date = Len(runs) + 1]
  /\ UNCHANGED <<interval, key, crashes>>

CancelSkipped(s) ==
  /\ pass[s].pc = "cancel_skipped"
  /\ Become(pass[s].date, "ended")
  /\ pass' = [pass EXCEPT ![s].pc = "select", ![s].date = 0]
  /\ UNCHANGED <<interval, key, crashes>>

\* Broken variant: the count of running runs does not lower the quota.
SelectUpToLimit(s) ==
  LET p == pass[s]
      started == Earliest(p.initial, TriggerLimit[p.trigger])
  IN
  /\ p.pc = "select"
  /\ NextTrigger(s, p.toStart \cup started, p.excluded \cup (p.initial \ started))
  /\ key' = key \ {p.trigger}
  /\ UNCHANGED <<runs, interval, crashes>>

\* The trigger's quota.  When nothing is left of it the initial runs are
\* neither started nor excluded.  The lock is released here, before any of
\* them is started.
Select(s) ==
  LET p == pass[s]
      quota == TriggerLimit[p.trigger] - p.running
      started == Earliest(p.initial, quota)
  IN
  /\ p.pc = "select"
  /\ IF quota > 0
       THEN NextTrigger(s, p.toStart \cup started, p.excluded \cup (p.initial \ started))
       ELSE NextTrigger(s, p.toStart, p.excluded)
  /\ key' = key \ {p.trigger}
  /\ UNCHANGED <<runs, interval, crashes>>

\* Broken variant: the pipeline's limit is not applied.
ApplyNoPipelineLimit(s) ==
  /\ pass[s].pc = "triggers"
  /\ pass[s].todo = {}
  /\ Step(s, "start")
  /\ UNCHANGED <<runs, interval, key, crashes>>

\* The pipeline's quota, from the count taken when the pass began.
ApplyPipelineLimit(s) ==
  LET p == pass[s]
      started == IF p.active < PipelineLimit
                   THEN Earliest(p.toStart, PipelineLimit - p.active) ELSE {}
  IN
  /\ p.pc = "triggers"
  /\ p.todo = {}
  /\ pass' = [pass EXCEPT ![s].pc = "start", ![s].toStart = started,
                          ![s].excluded = Excluded(s, @ \cup (p.toStart \ started))]
  /\ UNCHANGED <<runs, interval, key, crashes>>

\* start() in the order of the execution dates.  It turns away only a run that
\* is running, and otherwise writes RUNNING whatever the run has become.  A
\* start that fails is marked FAILED.  (The lock it takes turns away a scheduler
\* whose write the one that holds the lock would repeat.)
StartRun(s) ==
  /\ pass[s].pc = "start"
  /\ \E r \in Earliest(pass[s].toStart, 1) :
       /\ pass' = [pass EXCEPT ![s].toStart = @ \ {r}]
       /\ \/ Become(r, "running")
          \/ Become(r, "ended")
  /\ UNCHANGED <<interval, key, crashes>>

\* The policy SKIP cancels what the limits excluded, whatever it is by now.
CancelExcluded(s) ==
  /\ pass[s].pc = "start"
  /\ pass[s].toStart = {}
  /\ pass[s].policy = "skip"
  /\ \E r \in pass[s].excluded :
       /\ Become(r, "ended")
       /\ pass' = [pass EXCEPT ![s].excluded = @ \ {r}]
  /\ UNCHANGED <<interval, key, crashes>>

EndPass(s) ==
  /\ pass[s].pc = "start"
  /\ pass[s].toStart = {}
  /\ pass[s].policy = "skip" => pass[s].excluded = {}
  /\ pass' = [pass EXCEPT ![s] = IdlePass]
  /\ UNCHANGED <<runs, interval, key, crashes>>

\* The process dies and is started again; what it locked stays locked.
Crash(s) ==
  /\ pass[s].pc # "idle"
  /\ crashes < MaxCrashes
  /\ crashes' = crashes + 1
  /\ pass' = [pass EXCEPT ![s] = IdlePass]
  /\ UNCHANGED <<runs, interval, key>>

-----------------------------------------------------------------------------
(* What happens beside the schedulers.                                     *)

\* The key of a lock expires after 30 seconds.
Expire(t) ==
  /\ t \in key
  /\ LeaseOutlivesSection => t \notin InSection
  /\ key' = key \ {t}
  /\ UNCHANGED <<runs, interval, pass, crashes>>

Tick ==
  /\ interval < MaxInterval
  /\ interval' = interval + 1
  /\ UNCHANGED <<runs, key, pass, crashes>>

\* create_and_start_pipeline_run() for an API or event trigger, which leaves
\* the start to the schedulers.
Requests == {r \in RunIds : runs[r].trigger \notin TimeTriggers}

RequestRun(t) ==
  /\ t \notin TimeTriggers
  /\ Cardinality(Requests) < MaxRequests
  /\ CreateRun(t, RequestDate(interval), "initial")
  /\ UNCHANGED <<interval, key, pass, crashes>>

\* A run completes, fails, or is stopped by a user.
EndRun(r) ==
  /\ r \in ActiveRuns
  /\ Become(r, "ended")
  /\ UNCHANGED <<interval, key, pass, crashes>>

\* stop_pipeline_run() for a user, of a run that waits.
StopRun(r) ==
  /\ runs[r].status = "initial"
  /\ Become(r, "ended")
  /\ UNCHANGED <<interval, key, pass, crashes>>

-----------------------------------------------------------------------------

SchedulerStep(s) ==
  \/ BeginPass(s) \/ LockTrigger(s) \/ SkipLockedTrigger(s)
  \/ Decide(s) \/ ReleaseAgain(s) \/ CountRunning(s)
  \/ LookForDuplicate(s) \/ InsertRun(s) \/ InsertSkipped(s) \/ CancelSkipped(s)
  \/ Select(s) \/ ApplyPipelineLimit(s)
  \/ StartRun(s) \/ CancelExcluded(s) \/ EndPass(s)

Next ==
  \/ \E s \in Schedulers : SchedulerStep(s) \/ Crash(s)
  \/ \E t \in Triggers : Expire(t) \/ RequestRun(t)
  \/ \E r \in RunIds : EndRun(r) \/ StopRun(r)
  \/ Tick

Spec == Init /\ [][Next]_vars

\* No more runs than this are ever created: one for every interval by every
\* scheduler that finds none, and one for every request.
MaxRuns == Cardinality(Schedulers) * Cardinality(TimeTriggers) * MaxInterval + MaxRequests

\* The loop of every scheduler goes on, keys expire, and runs end.
Fairness ==
  /\ \A s \in Schedulers : WF_vars(SchedulerStep(s))
  /\ \A t \in Triggers : WF_vars(Expire(t))
  /\ \A r \in 1..MaxRuns : WF_vars(r \in RunIds /\ EndRun(r))

FairSpec == Spec /\ Fairness

-----------------------------------------------------------------------------
(* Properties.                                                             *)

\* pipeline_run_limit.  The lock of a trigger is released before the selected
\* runs are started: each scheduler keeps the limit, whatever runs are
\* requested, end or are stopped while it decides, and whenever it dies.
WithinTriggerLimit ==
  \A t \in Triggers :
    Cardinality(RunsOf(t, "running")) <= TriggerLimit[t] * Cardinality(Schedulers)

\* pipeline_run_limit_all_triggers, compared with a count that is as old as the
\* pass: again each scheduler keeps it.
WithinPipelineLimit ==
  Cardinality(ActiveRuns) <= PipelineLimit * Cardinality(Schedulers)

\* An interval of a trigger has one run, for every scheduler: a crash between
\* the decision and the insertion or after it, or a key that expired, adds none.
OneRunPerInterval ==
  \A t \in TimeTriggers : \A i \in 1..MaxInterval :
    Cardinality({r \in RunIds : runs[r].trigger = t /\ runs[r].date = DateOf(i)})
      <= Cardinality(Schedulers)

\* Runs create_and_cancel_pipeline_run() has inserted and not yet cancelled.
BeingSkipped ==
  {pass[s].date : s \in {q \in Schedulers : pass[q].pc = "cancel_skipped"}}

\* skip_if_previous_running: a trigger that has it does not have a second run
\* that waits or runs, but for the one a pass is about to cancel.  A scheduler
\* that dies in between leaves that one waiting, to be started later; and of
\* several schedulers, one may start runs that were stopped after it selected
\* them, when another has created the next.
OneRunAtATime ==
  crashes = 0 /\ Cardinality(Schedulers) = 1 => \A t \in SkipIfRunning :
    Cardinality((RunsOf(t, "initial") \cup RunsOf(t, "running")) \ BeingSkipped) <= 1

Waiting(r) == r \in RunIds /\ runs[r].status = "initial"

\* A run that waits is started or cancelled in the end: the limits, a scheduler
\* that died in a section, or newer runs do not hold it back for ever.
EveryRunLeavesInitial ==
  \A r \in 1..MaxRuns : Waiting(r) ~> ~Waiting(r)
=============================================================================
