-------------------------- MODULE RunLimits_proofs --------------------------
(***************************************************************************)
(* The limits of RunLimits, for any number of schedulers, triggers and     *)
(* intervals, with or without Redis, whatever keys expire and whoever dies *)
(* in a pass.                                                              *)
(***************************************************************************)
EXTENDS RunLimits, FiniteSetTheorems, TLAPS

-----------------------------------------------------------------------------
(* What a scheduler is about to do in its pass.                            *)

\* The places of the loop's body, where a scheduler is at a trigger, those
\* where it will create a run, and those where it has counted what runs.
Handling == {"decide", "release", "count", "create", "insert", "insert_skipped",
             "cancel_skipped", "select"}
Creating == {"create", "insert", "insert_skipped"}
Counted == Creating \cup {"cancel_skipped", "select"}

\* A trigger is handled once in a pass: what was selected is of triggers that
\* were handled before.
PassSound(s) ==
  /\ pass[s].pc \in Handling => pass[s].trigger \in Triggers \ pass[s].todo
  /\ pass[s].pc = "count" /\ pass[s].due => pass[s].trigger \in TimeTriggers /\ interval >= 1
  /\ pass[s].pc \in Creating =>
       /\ pass[s].trigger \in TimeTriggers
       /\ \E i \in 1..interval : pass[s].date = DateOf(i)
  /\ pass[s].pc = "cancel_skipped" =>
       /\ pass[s].date \in RunIds
       /\ pass[s].date \notin pass[s].initial \cup pass[s].toStart
  /\ pass[s].pc \notin Handling => pass[s].initial = {}
  /\ \A r \in pass[s].initial : runs[r].trigger = pass[s].trigger
  /\ \A r \in pass[s].toStart :
       /\ runs[r].trigger \notin pass[s].todo
       /\ pass[s].pc \in Handling => runs[r].trigger # pass[s].trigger

PassInv == \A s \in Schedulers : PassSound(s)

-----------------------------------------------------------------------------
(* Shares of a limit.  A scheduler that has counted what runs may still    *)
(* start as many as are left of the limit, and then those it selected.     *)

Left(limit, n) == IF n < limit THEN limit - n ELSE 0

Selected(t, s) == {r \in pass[s].toStart : runs[r].trigger = t}

TriggerShare(t) ==
  [s \in Schedulers |->
     IF pass[s].pc \in Counted /\ pass[s].trigger = t
       THEN Left(TriggerLimit[t], pass[s].running)
       ELSE Cardinality(Selected(t, s))]

PipelineShare ==
  [s \in Schedulers |->
     IF pass[s].pc = "idle" THEN 0
     ELSE IF pass[s].pc = "start" THEN Cardinality(pass[s].toStart)
     ELSE Left(PipelineLimit, pass[s].active)]

\* As a set, a share for each scheduler is one pair for every run it may start.
Slots(limit, share) ==
  {p \in Schedulers \X (1..limit) : p[2] <= share[p[1]]}

WithinShares(limit, count, share) ==
  /\ share \in [Schedulers -> 0..limit]
  /\ count + Cardinality(Slots(limit, share)) <= limit * Cardinality(Schedulers)

SharesInv ==
  /\ \A t \in Triggers :
       WithinShares(TriggerLimit[t], Cardinality(RunsOf(t, "running")), TriggerShare(t))
  /\ WithinShares(PipelineLimit, Cardinality(ActiveRuns), PipelineShare)

-----------------------------------------------------------------------------
(* Runs of an interval.                                                    *)

Made(t, i) == {r \in RunIds : runs[r].trigger = t /\ runs[r].date = DateOf(i)}

\* The schedulers that may still create a run of the interval.
AboutTo(s, t, i) ==
  /\ pass[s].trigger = t
  /\ \/ pass[s].pc = "count" /\ pass[s].due /\ interval <= i
     \/ pass[s].pc \in Creating /\ pass[s].date = DateOf(i)

About(t, i) == {s \in Schedulers : AboutTo(s, t, i)}

OneEach(t, i) ==
  /\ interval < i => Made(t, i) = {}
  /\ Cardinality(Made(t, i)) + Cardinality(About(t, i)) <= Cardinality(Schedulers)

IntervalInv ==
  \A t \in TimeTriggers : \A i \in 1..MaxInterval : OneEach(t, i)

-----------------------------------------------------------------------------
(* One run at a time, for one scheduler.                                   *)

\* Runs that wait or run, or that the scheduler will start all the same.
Held(t, s) ==
  (RunsOf(t, "initial") \cup RunsOf(t, "running")
     \cup {r \in pass[s].initial \cup pass[s].toStart : runs[r].trigger = t}) \ BeingSkipped

OneHeld(t, s) ==
  /\ \A q, r \in Held(t, s) : q = r
  /\ pass[s].pc \in {"create", "insert"} /\ pass[s].trigger = t => Held(t, s) = {}
  /\ pass[s].pc = "count" /\ pass[s].trigger = t => RunsOf(t, "initial") \subseteq pass[s].initial

AloneInv(s) == crashes = 0 => \A t \in SkipIfRunning : OneHeld(t, s)

-----------------------------------------------------------------------------
(* Lemmas about the operators.                                             *)

\* Rows of the pipeline_run table, and what a pass may know when it has these.
Row == [trigger : Triggers, date : Dates, status : RunStatus]

Known(ids) ==
  [pc : PassPC, todo : SUBSET Triggers, trigger : Triggers \cup {NoTrigger},
   policy : {"wait", "skip"}, active : Nat, due : BOOLEAN,
   initial : SUBSET ids, running : Nat, date : Nat,
   toStart : SUBSET ids, excluded : SUBSET ids]

\* A row of the table has its fields.
LEMMA RowOfTable ==
  ASSUME runs \in Seq(Row)
  PROVE  /\ Len(runs) \in Nat
         /\ \A r \in RunIds : /\ r \in Int /\ runs[r] \in Row
                             /\ runs[r].trigger \in Triggers
                             /\ runs[r].date \in Int
                             /\ runs[r].status \in RunStatus
<1>1. Len(runs) \in Nat /\ \A r \in RunIds : r \in Int /\ runs[r] \in Row
  <2> HIDE DEF Row
  <2> QED BY DEF RunIds
<1>2. Dates \subseteq Int
  BY DEF Dates
<1> QED BY <1>1, <1>2 DEF Row

\* Sets of run ids are finite.
LEMMA RunIdsFinite ==
  ASSUME Len(runs) \in Nat, NEW S, S \subseteq RunIds
  PROVE  IsFiniteSet(S) /\ Cardinality(S) \in Nat
<1>1. IsFiniteSet(RunIds)
  BY FS_Interval DEF RunIds
<1> QED BY <1>1, FS_Subset, FS_CardinalityType

\* So are sets of schedulers.
LEMMA SchedulersFinite ==
  ASSUME NEW S, S \subseteq Schedulers
  PROVE  IsFiniteSet(S) /\ Cardinality(S) \in Nat /\ Cardinality(S) <= Cardinality(Schedulers)
<1>1. IsFiniteSet(Schedulers)
  BY LimitsAssumption DEF LimitsAssumption
<1> QED BY <1>1, FS_Subset, FS_CardinalityType

\* The first n of a list of runs are at most n: no two of them have the same
\* number of runs before them.
LEMMA EarliestBound ==
  ASSUME runs \in Seq(Row),
         NEW ids, ids \subseteq RunIds, NEW n \in Nat
  PROVE  /\ Earliest(ids, n) \subseteq ids
         /\ Cardinality(Earliest(ids, n)) <= n
<1> DEFINE Preds(r) == {q \in ids : Before(q, r)}
           f == [r \in Earliest(ids, n) |-> Cardinality(Preds(r))]
<1>1. Earliest(ids, n) \subseteq ids
  BY DEF Earliest
<1>2. Len(runs) \in Nat /\ \A r \in RunIds : runs[r].date \in Int /\ r \in Int
  BY RowOfTable
<1>3. \A r : IsFiniteSet(Preds(r)) /\ Cardinality(Preds(r)) \in Nat
  BY <1>2, RunIdsFinite
<1>4. f \in [Earliest(ids, n) -> 0..(n - 1)]
  <2>1. \A r \in Earliest(ids, n) : Cardinality(Preds(r)) < n
    BY DEF Earliest
  <2> HIDE DEF Preds
  <2>2. \A r \in Earliest(ids, n) : Cardinality(Preds(r)) \in 0..(n - 1)
    BY <1>3, <2>1
  <2> QED BY <2>2
<1>5. ASSUME NEW q \in Earliest(ids, n), NEW r \in Earliest(ids, n), Before(q, r)
      PROVE  f[q] # f[r]
  <2>1. q \in RunIds /\ r \in RunIds /\ q \in ids
    BY <1>1
  <2>2. Preds(q) \cup {q} \subseteq Preds(r)
    BY <1>2, <1>5, <2>1 DEF Before
  <2>3. q \notin Preds(q)
    BY <1>2, <2>1 DEF Before
  <2>4. Cardinality(Preds(q) \cup {q}) = Cardinality(Preds(q)) + 1
    BY <1>3, <2>3, FS_AddElement
  <2>5. Cardinality(Preds(q) \cup {q}) <= Cardinality(Preds(r))
    BY <1>3, <2>2, FS_Subset
  <2>6. Cardinality(Preds(q)) \in Nat /\ Cardinality(Preds(r)) \in Nat
    BY <1>3
  <2> QED BY <2>4, <2>5, <2>6
<1>6. \A q, r \in Earliest(ids, n) : q # r => f[q] # f[r]
  <2> SUFFICES ASSUME NEW q \in Earliest(ids, n), NEW r \in Earliest(ids, n), q # r
               PROVE  f[q] # f[r]
    OBVIOUS
  <2>1. Before(q, r) \/ Before(r, q)
    BY <1>1, <1>2 DEF Before
  <2> QED BY <1>5, <2>1
<1>7. f \in Injection(Earliest(ids, n), 0..(n - 1))
  BY <1>4, <1>6 DEF Injection, IsInjective
<1>8. IsFiniteSet(0..(n - 1)) /\ Cardinality(0..(n - 1)) = n
  BY FS_Interval
<1>9. Cardinality(Earliest(ids, n)) <= n
  BY <1>7, <1>8, FS_Injection
<1> QED BY <1>1, <1>9

\* The pairs of one scheduler can be counted apart from those of the others.
LEMMA SlotsSplit ==
  ASSUME NEW limit \in Nat, NEW s \in Schedulers, NEW f \in [Schedulers -> 0..limit]
  PROVE  LET rest == {p \in Slots(limit, f) : p[1] # s} IN
         /\ IsFiniteSet(rest) /\ Cardinality(rest) \in Nat
         /\ Cardinality(rest) + limit <= limit * Cardinality(Schedulers)
         /\ Cardinality(Slots(limit, f)) = Cardinality(rest) + f[s]
<1> DEFINE rest == {p \in Slots(limit, f) : p[1] # s}
           others == Schedulers \ {s}
           own == {s} \X (1..f[s])
           n == Cardinality(Schedulers)
<1>1. /\ IsFiniteSet(others) /\ Cardinality(others) = n - 1
      /\ n \in Nat /\ n >= 1
  <2>1. IsFiniteSet(Schedulers)
    BY SchedulersFinite
  <2> QED BY <2>1, FS_RemoveElement, FS_CardinalityType, SchedulersFinite, FS_EmptySet
<1>2. IsFiniteSet(1..limit) /\ Cardinality(1..limit) = limit
  BY FS_Interval
<1>3. /\ IsFiniteSet(others \X (1..limit))
      /\ Cardinality(others \X (1..limit)) = (n - 1) * limit
  <2>1. /\ IsFiniteSet(others \X (1..limit))
        /\ Cardinality(others \X (1..limit)) = Cardinality(others) * Cardinality(1..limit)
    <3> HIDE DEF others
    <3> QED BY <1>1, <1>2, FS_Product
  <2> QED BY <1>1, <1>2, <2>1
<1>4. rest \subseteq others \X (1..limit)
  BY DEF Slots
<1>5. /\ IsFiniteSet(rest) /\ Cardinality(rest) \in Nat
      /\ Cardinality(rest) <= (n - 1) * limit
  BY <1>3, <1>4, FS_Subset, FS_CardinalityType
<1>6. f[s] \in 0..limit
  OBVIOUS
<1>7. IsFiniteSet(own) /\ Cardinality(own) = f[s]
  <2>1. IsFiniteSet(1..f[s]) /\ Cardinality(1..f[s]) = f[s]
    BY <1>6, FS_Interval
  <2>2. IsFiniteSet({s}) /\ Cardinality({s}) = 1
    BY FS_Singleton
  <2>3. IsFiniteSet(own) /\ Cardinality(own) = 1 * f[s]
    BY <2>1, <2>2, FS_Product
  <2> QED BY <1>6, <2>3
<1>8. Slots(limit, f) = rest \cup own
  <2>1. own \subseteq Slots(limit, f)
    BY <1>6 DEF Slots
  <2>2. Slots(limit, f) \subseteq rest \cup own
    <3> SUFFICES ASSUME NEW p \in Slots(limit, f), p[1] = s PROVE p \in own
      OBVIOUS
    <3>1. p \in Schedulers \X (1..limit) /\ p[2] <= f[s]
      BY DEF Slots
    <3> QED BY <1>6, <3>1
  <2> QED BY <2>1, <2>2
<1>9. rest \cap own = {}
  OBVIOUS
<1>10. Cardinality(Slots(limit, f)) = Cardinality(rest) + f[s]
  <2> HIDE DEF rest, own
  <2>1. Cardinality(rest \cup own)
          = Cardinality(rest) + Cardinality(own) - Cardinality(rest \cap own)
    BY <1>5, <1>7, FS_Union
  <2> QED BY <1>5, <1>6, <1>7, <1>8, <1>9, <2>1, FS_EmptySet
<1>11. Cardinality(rest) + limit <= limit * n
  <2> HIDE DEF rest, n
  <2>1. (n - 1) * limit + limit = limit * n
    BY <1>1
  <2>2. (n - 1) * limit \in Nat
    BY <1>1
  <2> QED BY <1>1, <1>5, <2>1, <2>2
<1> QED BY <1>5, <1>10, <1>11

\* A scheduler changes its share: it takes what the count of running runs has
\* left of the limit, or no more than it had.
LEMMA ShareChanges ==
  ASSUME NEW limit \in Nat, NEW count \in Nat, NEW f, WithinShares(limit, count, f),
         NEW s \in Schedulers, NEW count2 \in Nat, NEW g \in [Schedulers -> 0..limit],
         \A q \in Schedulers \ {s} : g[q] = f[q],
         count2 + g[s] <= count + f[s] \/ count2 + g[s] <= limit
  PROVE  WithinShares(limit, count2, g)
<1> DEFINE rest == {p \in Slots(limit, f) : p[1] # s}
<1>1. f \in [Schedulers -> 0..limit]
  BY DEF WithinShares
<1>2. {p \in Slots(limit, g) : p[1] # s} = rest
  BY DEF Slots
<1>3. /\ Cardinality(rest) \in Nat
      /\ Cardinality(rest) + limit <= limit * Cardinality(Schedulers)
      /\ Cardinality(Slots(limit, f)) = Cardinality(rest) + f[s]
  BY <1>1, SlotsSplit
<1>4. Cardinality(Slots(limit, g)) = Cardinality(rest) + g[s]
  BY <1>2, SlotsSplit
<1>5. count + Cardinality(Slots(limit, f)) <= limit * Cardinality(Schedulers)
  BY DEF WithinShares
<1>6. limit * Cardinality(Schedulers) \in Nat /\ f[s] \in Nat /\ g[s] \in Nat
  BY <1>1, SchedulersFinite
<1> HIDE DEF rest
<1>7. count2 + Cardinality(Slots(limit, g)) <= limit * Cardinality(Schedulers)
  BY <1>3, <1>4, <1>5, <1>6
<1> QED BY <1>7 DEF WithinShares

\* Fewer runs run, and every scheduler has its share.
LEMMA CountFalls ==
  ASSUME NEW limit \in Nat, NEW count \in Nat, NEW f, WithinShares(limit, count, f),
         NEW count2 \in Nat, count2 <= count
  PROVE  WithinShares(limit, count2, f)
<1>1. IsFiniteSet(Slots(limit, f))
  <2>1. IsFiniteSet(Schedulers) /\ IsFiniteSet(1..limit)
    BY SchedulersFinite, FS_Interval
  <2>2. IsFiniteSet(Schedulers \X (1..limit))
    BY <2>1, FS_Product
  <2> QED BY <2>2, FS_Subset DEF Slots
<1>2. Cardinality(Slots(limit, f)) \in Nat /\ limit * Cardinality(Schedulers) \in Nat
  BY <1>1, FS_CardinalityType, SchedulersFinite
<1> QED BY <1>2 DEF WithinShares

-----------------------------------------------------------------------------
(* What steps do to the table and to the passes.                           *)

\* Rows are never deleted, and keep their trigger and date.
Kept ==
  /\ RunIds \subseteq RunIds'
  /\ \A r \in RunIds : /\ runs'[r].trigger = runs[r].trigger
                       /\ runs'[r].date = runs[r].date

\* An update writes the status of one row.
LEMMA BecomeEffect ==
  ASSUME runs \in Seq(Row), NEW r \in RunIds, NEW status \in RunStatus, Become(r, status)
  PROVE  /\ runs' \in Seq(Row) /\ RunIds' = RunIds /\ Kept
         /\ \A q \in RunIds : runs'[q].status = IF q = r THEN status ELSE runs[q].status
<1> DEFINE row == [runs[r] EXCEPT !.status = status]
<1>1. row \in Row
  BY RowOfTable DEF Row
<1>2. runs' = [runs EXCEPT ![r] = row]
  BY DEF Become
<1>3. runs' \in Seq(Row) /\ Len(runs') = Len(runs)
        /\ \A q \in RunIds : runs'[q] = IF q = r THEN row ELSE runs[q]
  <2> HIDE DEF row, Row
  <2> QED BY <1>1, <1>2 DEF RunIds
<1>4. RunIds' = RunIds
  BY <1>3 DEF RunIds
<1>5. row.trigger = runs[r].trigger /\ row.date = runs[r].date /\ row.status = status
  BY RowOfTable DEF Row
<1> QED BY <1>3, <1>4, <1>5 DEF Kept

\* An insertion adds a row at the end.
LEMMA CreateEffect ==
  ASSUME runs \in Seq(Row), NEW t \in Triggers, NEW date \in Dates, NEW status \in RunStatus,
         CreateRun(t, date, status)
  PROVE  /\ runs' \in Seq(Row) /\ Kept
         /\ RunIds' = RunIds \cup {Len(runs) + 1} /\ Len(runs) + 1 \notin RunIds
         /\ \A q \in RunIds : runs'[q] = runs[q]
         /\ runs'[Len(runs) + 1] = [trigger |-> t, date |-> date, status |-> status]
<1> DEFINE row == [trigger |-> t, date |-> date, status |-> status]
<1>1. row \in Row
  BY DEF Row
<1>2. runs' = Append(runs, row)
  BY DEF CreateRun
<1>3. runs' \in Seq(Row) /\ Len(runs) \in Nat /\ Len(runs') = Len(runs) + 1
        /\ (\A q \in RunIds : runs'[q] = runs[q]) /\ runs'[Len(runs) + 1] = row
  <2> HIDE DEF row, Row
  <2> QED BY <1>1, <1>2 DEF RunIds
<1>4. RunIds' = RunIds \cup {Len(runs) + 1} /\ Len(runs) + 1 \notin RunIds
  BY <1>3 DEF RunIds
<1> QED BY <1>3, <1>4 DEF Kept

\* The type invariant, with what a pass knows.
LEMMA TypeForm ==
  TypeOK <=> /\ runs \in Seq(Row) /\ interval \in 0..MaxInterval
             /\ key \subseteq Triggers /\ crashes \in 0..MaxCrashes
             /\ pass \in [Schedulers -> Known(RunIds)]
  BY DEF TypeOK, Row, Known

\* A step of one scheduler changes what that one knows, of a table that may
\* have grown.
LEMMA PassOfOne ==
  ASSUME pass \in [Schedulers -> Known(RunIds)], RunIds \subseteq RunIds',
         NEW s \in Schedulers, NEW p \in Known(RunIds'), pass' = [pass EXCEPT ![s] = p]
  PROVE  pass' \in [Schedulers -> Known(RunIds')]
<1>1. Known(RunIds) \subseteq Known(RunIds')
  BY DEF Known
<1> QED BY <1>1

\* A pass that is at no trigger.
LEMMA IdleKnown == \A ids : IdlePass \in Known(ids)
  BY DEF IdlePass, Known, PassPC

\* What the next trigger's pass keeps.
LEMMA NextKnown ==
  ASSUME pass \in [Schedulers -> Known(RunIds)], NEW s \in Schedulers,
         NEW started \in SUBSET RunIds, NEW left \in SUBSET RunIds,
         NextTrigger(s, started, left)
  PROVE  /\ pass' = [pass EXCEPT ![s] = pass'[s]]
         /\ pass'[s] \in Known(RunIds)
         /\ pass'[s].pc = "triggers" /\ pass'[s].todo = pass[s].todo
         /\ pass'[s].active = pass[s].active /\ pass'[s].initial = {}
         /\ pass'[s].toStart = started
<1> DEFINE p == [IdlePass EXCEPT !.pc = "triggers", !.todo = pass[s].todo,
                   !.policy = pass[s].policy, !.active = pass[s].active,
                   !.toStart = started, !.excluded = Excluded(s, left)]
<1>1. pass' = [pass EXCEPT ![s] = p]
  BY DEF NextTrigger
<1>2. pass'[s] = p
  BY <1>1
<1>3. Excluded(s, left) \in SUBSET RunIds
  BY DEF Excluded
<1>4. p \in Known(RunIds)
  BY <1>3, IdleKnown DEF Known, PassPC
<1>5. p.pc = "triggers" /\ p.todo = pass[s].todo /\ p.active = pass[s].active
        /\ p.initial = {} /\ p.toStart = started
  BY DEF IdlePass
<1> HIDE DEF p
<1> QED BY <1>1, <1>2, <1>4, <1>5

\* The type invariant is kept when the step of a scheduler is.
LEMMA TypeOfOne ==
  ASSUME TypeOK, NEW s \in Schedulers, Kept, runs' \in Seq(Row),
         interval' = interval, key' \subseteq Triggers, crashes' \in 0..MaxCrashes,
         NEW p \in Known(RunIds'), pass' = [pass EXCEPT ![s] = p]
  PROVE  TypeOK'
<1>1. pass' \in [Schedulers -> Known(RunIds')]
  BY TypeForm, PassOfOne DEF Kept
<1> QED BY <1>1, TypeForm DEF TypeOK, Row, Known

-----------------------------------------------------------------------------
(* Types, and what a scheduler knows in its pass.                          *)

\* The step of one scheduler changes its own pass only, and keeps the rows.
StepOfOne(s) ==
  /\ runs' \in Seq(Row) /\ Kept
  /\ interval' = interval /\ key' \subseteq Triggers /\ crashes' \in 0..MaxCrashes
  /\ crashes <= crashes'
  /\ pass' = [pass EXCEPT ![s] = pass'[s]] /\ pass'[s] \in Known(RunIds')

\* Steps that leave the table alone.
LEMMA SameTable ==
  ASSUME TypeOK, UNCHANGED runs
  PROVE  runs' \in Seq(Row) /\ RunIds' = RunIds /\ Kept
  BY TypeForm DEF Kept, RunIds

\* Every step of a scheduler is one of its own.
LEMMA SchedulerStepOfOne ==
  ASSUME TypeOK, PassInv, NEW s \in Schedulers, SchedulerStep(s) \/ Crash(s)
  PROVE  StepOfOne(s)
<1> USE DEF StepOfOne
<1>t. /\ runs \in Seq(Row) /\ interval \in 0..MaxInterval
      /\ key \subseteq Triggers /\ crashes \in 0..MaxCrashes
      /\ pass \in [Schedulers -> Known(RunIds)] /\ pass[s] \in Known(RunIds)
      /\ MaxCrashes \in Nat /\ MaxInterval \in Nat
  BY TypeForm, LimitsAssumption DEF LimitsAssumption
<1>p. PassSound(s)
  BY DEF PassInv
<1>1. CASE BeginPass(s)
  <2>1. PICK policy \in Policies :
          pass' = [pass EXCEPT ![s] =
                    [IdlePass EXCEPT !.pc = "triggers", !.todo = Triggers,
                       !.policy = policy, !.active = Cardinality(ActiveRuns)]]
    BY <1>1 DEF BeginPass
  <2>2. Cardinality(ActiveRuns) \in Nat
    BY <1>t, RowOfTable, RunIdsFinite DEF ActiveRuns
  <2>3. policy \in {"wait", "skip"}
    BY LimitsAssumption DEF LimitsAssumption
  <2>4. pass'[s] \in Known(RunIds)
    BY <1>t, <2>1, <2>2, <2>3, IdleKnown DEF Known, PassPC
  <2> QED BY <1>1, <1>t, <2>1, <2>4, SameTable DEF BeginPass
<1>2. CASE LockTrigger(s)
  <2>1. pass'[s] \in Known(RunIds)
    BY <1>2, <1>t DEF LockTrigger, Known, PassPC
  <2>2. key' \subseteq Triggers
    BY <1>2, <1>t DEF LockTrigger, Known
  <2>3. pass' = [pass EXCEPT ![s] = pass'[s]]
    BY <1>2, <1>t DEF LockTrigger
  <2> QED BY <1>2, <1>t, <2>1, <2>2, <2>3, SameTable DEF LockTrigger
<1>3. CASE SkipLockedTrigger(s)
  <2>1. PICK t \in pass[s].todo : pass' = [pass EXCEPT ![s].todo = @ \ {t}]
    BY <1>3 DEF SkipLockedTrigger
  <2>2. pass'[s] \in Known(RunIds)
    BY <1>t, <2>1 DEF Known
  <2>3. pass' = [pass EXCEPT ![s] = pass'[s]]
    BY <1>t, <2>1
  <2> QED BY <1>3, <1>t, <2>2, <2>3, SameTable DEF SkipLockedTrigger
<1>4. CASE Decide(s)
  <2> DEFINE due == ShouldSchedule(pass[s].trigger)
             initial == RunsOf(pass[s].trigger, "initial")
  <2>1. due \in BOOLEAN /\ initial \in SUBSET RunIds
    BY DEF ShouldSchedule, RunsOf
  <2>2. \/ pass' = [pass EXCEPT ![s].pc = "release"]
        \/ pass' = [pass EXCEPT ![s].pc = "count", ![s].due = due, ![s].initial = initial]
    BY <1>4 DEF Decide, Step
  <2> HIDE DEF due, initial
  <2>3. pass'[s] \in Known(RunIds)
    <3>1. CASE pass' = [pass EXCEPT ![s].pc = "release"]
      BY <1>t, <3>1 DEF Known, PassPC
    <3>2. CASE pass' = [pass EXCEPT ![s].pc = "count", ![s].due = due, ![s].initial = initial]
      BY <1>t, <2>1, <3>2 DEF Known, PassPC
    <3> QED BY <2>2, <3>1, <3>2
  <2>4. pass' = [pass EXCEPT ![s] = pass'[s]]
    BY <1>t, <2>2
  <2> QED BY <1>4, <1>t, <2>3, <2>4, SameTable DEF Decide
<1>5. CASE ReleaseAgain(s)
  <2>1. pass' = [pass EXCEPT ![s] = pass'[s]] /\ pass'[s] \in Known(RunIds)
    <3>1. pass[s].toStart \in SUBSET RunIds /\ pass[s].excluded \in SUBSET RunIds
      BY <1>t DEF Known
    <3> QED BY <1>5, <1>t, <3>1, NextKnown DEF ReleaseAgain
  <2> QED BY <1>5, <1>t, <2>1, SameTable DEF ReleaseAgain
<1>6. CASE CountRunning(s)
  <2>1. Cardinality(RunsOf(pass[s].trigger, "running")) \in Nat
    BY <1>t, RowOfTable, RunIdsFinite DEF RunsOf
  <2>2. DateOf(interval) \in Nat
    BY <1>t DEF DateOf
  <2>3. pass'[s] \in Known(RunIds)
    BY <1>6, <1>t, <2>1, <2>2 DEF CountRunning, Known, PassPC
  <2>4. pass' = [pass EXCEPT ![s] = pass'[s]]
    BY <1>6, <1>t DEF CountRunning
  <2> QED BY <1>6, <1>t, <2>3, <2>4, SameTable DEF CountRunning
<1>7. CASE LookForDuplicate(s)
  <2>1. \/ pass' = [pass EXCEPT ![s].pc = "select", ![s].date = 0]
        \/ pass' = [pass EXCEPT ![s].pc = "insert"]
    BY <1>7 DEF LookForDuplicate, Step
  <2>2. pass'[s] \in Known(RunIds)
    <3>1. CASE pass' = [pass EXCEPT ![s].pc = "select", ![s].date = 0]
      BY <1>t, <3>1 DEF Known, PassPC
    <3>2. CASE pass' = [pass EXCEPT ![s].pc = "insert"]
      BY <1>t, <3>2 DEF Known, PassPC
    <3> QED BY <2>1, <3>1, <3>2
  <2>3. pass' = [pass EXCEPT ![s] = pass'[s]]
    BY <1>t, <2>1
  <2> QED BY <1>7, <1>t, <2>2, <2>3, SameTable DEF LookForDuplicate
<1>8. ASSUME pass[s].pc \in {"insert", "insert_skipped"},
             CreateRun(pass[s].trigger, pass[s].date, "initial")
      PROVE  /\ runs' \in Seq(Row) /\ Kept
             /\ RunIds' = RunIds \cup {Len(runs) + 1} /\ Len(runs) \in Nat
  <2>1. pass[s].trigger \in Triggers /\ \E i \in 1..interval : pass[s].date = DateOf(i)
    BY <1>8, <1>p, LimitsAssumption DEF PassSound, Creating, LimitsAssumption
  <2>2. pass[s].date \in Dates
    BY <1>t, <2>1 DEF Dates, DateOf, RequestDate
  <2> QED BY <1>8, <1>t, <2>1, <2>2, CreateEffect, RowOfTable DEF RunStatus
<1>9. CASE InsertRun(s)
  <2>1. /\ runs' \in Seq(Row) /\ Kept
        /\ RunIds' = RunIds \cup {Len(runs) + 1} /\ Len(runs) \in Nat
    BY <1>8, <1>9 DEF InsertRun
  <2>2. pass'[s] \in Known(RunIds')
    BY <1>9, <1>t, <2>1 DEF InsertRun, Known, PassPC
  <2>3. pass' = [pass EXCEPT ![s] = pass'[s]]
    BY <1>9, <1>t DEF InsertRun
  <2> QED BY <1>9, <1>t, <2>1, <2>2, <2>3 DEF InsertRun
<1>10. CASE InsertSkipped(s)
  <2>1. /\ runs' \in Seq(Row) /\ Kept
        /\ RunIds' = RunIds \cup {Len(runs) + 1} /\ Len(runs) \in Nat
    BY <1>8, <1>10 DEF InsertSkipped
  <2>2. pass' = [pass EXCEPT ![s].pc = "cancel_skipped", ![s].date = Len(runs) + 1]
    BY <1>10 DEF InsertSkipped
  <2>3. pass'[s] \in Known(RunIds')
    <3> DEFINE p(n) == [pass[s] EXCEPT !.pc = "cancel_skipped", !.date = n]
    <3>1. pass'[s] = p(Len(runs) + 1)
      BY <1>t, <2>2
    <3>2. \A n \in Nat : p(n) \in Known(RunIds)
      BY <1>t DEF Known, PassPC
    <3>3. Known(RunIds) \subseteq Known(RunIds')
      BY <2>1 DEF Known
    <3>4. Len(runs) + 1 \in Nat
      BY <2>1
    <3> HIDE DEF p
    <3> QED BY <3>1, <3>2, <3>3, <3>4
  <2>4. pass' = [pass EXCEPT ![s] = pass'[s]]
    BY <1>t, <2>2
  <2> QED BY <1>10, <1>t, <2>1, <2>3, <2>4 DEF InsertSkipped
<1>11. CASE CancelSkipped(s)
  <2>1. runs' \in Seq(Row) /\ RunIds' = RunIds /\ Kept
    <3>1. pass[s].date \in RunIds
      BY <1>11, <1>p DEF CancelSkipped, PassSound
    <3> QED BY <1>11, <1>t, <3>1, BecomeEffect DEF CancelSkipped, RunStatus
  <2>2. pass'[s] \in Known(RunIds)
    BY <1>11, <1>t DEF CancelSkipped, Known, PassPC
  <2>3. pass' = [pass EXCEPT ![s] = pass'[s]]
    BY <1>11, <1>t DEF CancelSkipped
  <2> QED BY <1>11, <1>t, <2>1, <2>2, <2>3 DEF CancelSkipped
<1>12. CASE Select(s)
  <2>1. PICK started \in SUBSET RunIds, left \in SUBSET RunIds : NextTrigger(s, started, left)
    <3> DEFINE n == TriggerLimit[pass[s].trigger] - pass[s].running
    <3>1. Earliest(pass[s].initial, n) \subseteq pass[s].initial
      BY DEF Earliest
    <3>2. /\ pass[s].initial \in SUBSET RunIds /\ pass[s].toStart \in SUBSET RunIds
          /\ pass[s].excluded \in SUBSET RunIds
      BY <1>t DEF Known
    <3> QED BY <1>12, <3>1, <3>2 DEF Select
  <2>2. pass' = [pass EXCEPT ![s] = pass'[s]] /\ pass'[s] \in Known(RunIds)
    BY <1>t, <2>1, NextKnown
  <2> QED BY <1>12, <1>t, <2>2, SameTable DEF Select
<1>13. CASE ApplyPipelineLimit(s)
  <2> DEFINE started == IF pass[s].active < PipelineLimit
                          THEN Earliest(pass[s].toStart, PipelineLimit - pass[s].active) ELSE {}
             left == Excluded(s, pass[s].excluded \cup (pass[s].toStart \ started))
  <2>1. started \in SUBSET RunIds
    BY <1>t DEF Earliest, Known
  <2>2. left \in SUBSET RunIds
    BY <1>t, <2>1 DEF Excluded, Known
  <2>3. pass' = [pass EXCEPT ![s] = [pass[s] EXCEPT !.pc = "start", !.toStart = started,
                                                    !.excluded = left]]
    BY <1>13, <1>t DEF ApplyPipelineLimit
  <2> HIDE DEF started, left
  <2>4. pass'[s] \in Known(RunIds)
    BY <1>t, <2>1, <2>2, <2>3 DEF Known, PassPC
  <2>5. pass' = [pass EXCEPT ![s] = pass'[s]]
    BY <1>t, <2>3
  <2> QED BY <1>13, <1>t, <2>4, <2>5, SameTable DEF ApplyPipelineLimit
<1>14. CASE StartRun(s)
  <2>1. PICK r \in Earliest(pass[s].toStart, 1) :
          /\ pass' = [pass EXCEPT ![s].toStart = @ \ {r}]
          /\ Become(r, "running") \/ Become(r, "ended")
    BY <1>14 DEF StartRun
  <2>2. r \in RunIds
    BY <1>t DEF Earliest, Known
  <2>3. runs' \in Seq(Row) /\ RunIds' = RunIds /\ Kept
    BY <1>t, <2>1, <2>2, BecomeEffect DEF RunStatus
  <2>4. pass'[s] \in Known(RunIds)
    BY <1>t, <2>1 DEF Known
  <2> QED BY <1>14, <1>t, <2>1, <2>3, <2>4 DEF StartRun
<1>15. CASE CancelExcluded(s)
  <2>1. PICK r \in pass[s].excluded :
          Become(r, "ended") /\ pass' = [pass EXCEPT ![s].excluded = @ \ {r}]
    BY <1>15 DEF CancelExcluded
  <2>2. r \in RunIds
    BY <1>t DEF Known
  <2>3. runs' \in Seq(Row) /\ RunIds' = RunIds /\ Kept
    BY <1>t, <2>1, <2>2, BecomeEffect DEF RunStatus
  <2>4. pass'[s] \in Known(RunIds)
    BY <1>t, <2>1 DEF Known
  <2> QED BY <1>15, <1>t, <2>1, <2>3, <2>4 DEF CancelExcluded
<1>16. CASE EndPass(s)
  BY <1>16, <1>t, IdleKnown, SameTable DEF EndPass
<1>17. CASE Crash(s)
  BY <1>17, <1>t, IdleKnown, SameTable DEF Crash
<1> QED BY <1>1, <1>2, <1>3, <1>4, <1>5, <1>6, <1>7, <1>9, <1>10, <1>11, <1>12, <1>13,
           <1>14, <1>15, <1>16, <1>17 DEF SchedulerStep

\* What a pass no longer at a trigger, or at its lock, looks like after a step.
LEMMA AfterOutside ==
  ASSUME TypeOK, NEW s \in Schedulers
  PROVE
  /\ BeginPass(s) =>
       /\ pass'[s].pc = "triggers" /\ pass'[s].todo = Triggers
       /\ pass'[s].initial = {} /\ pass'[s].toStart = {}
       /\ pass'[s].active = Cardinality(ActiveRuns)
  /\ LockTrigger(s) =>
       /\ pass[s].pc = "triggers" /\ pass'[s].pc = "decide"
       /\ pass'[s].trigger \in pass[s].todo /\ pass'[s].todo = pass[s].todo \ {pass'[s].trigger}
       /\ pass'[s].toStart = pass[s].toStart /\ pass'[s].active = pass[s].active
       /\ pass'[s].initial = pass[s].initial
  /\ SkipLockedTrigger(s) =>
       /\ pass[s].pc = "triggers" /\ pass'[s].pc = "triggers"
       /\ pass'[s].todo \subseteq pass[s].todo /\ pass'[s].trigger = pass[s].trigger
       /\ pass'[s].toStart = pass[s].toStart /\ pass'[s].active = pass[s].active
       /\ pass'[s].initial = pass[s].initial
  /\ ReleaseAgain(s) =>
       /\ pass[s].pc = "release" /\ pass'[s].pc = "triggers"
       /\ pass'[s].todo = pass[s].todo /\ pass'[s].initial = {}
       /\ pass'[s].toStart = pass[s].toStart /\ pass'[s].active = pass[s].active
  /\ ApplyPipelineLimit(s) =>
       /\ pass[s].pc = "triggers" /\ pass[s].todo = {}
       /\ pass'[s].pc = "start" /\ pass'[s].todo = {} /\ pass'[s].initial = pass[s].initial
       /\ pass'[s].trigger = pass[s].trigger
       /\ pass'[s].toStart = IF pass[s].active < PipelineLimit
                               THEN Earliest(pass[s].toStart, PipelineLimit - pass[s].active)
                               ELSE {}
  /\ CancelExcluded(s) =>
       /\ pass[s].pc = "start" /\ pass'[s].pc = "start" /\ pass'[s].todo = pass[s].todo
       /\ pass'[s].trigger = pass[s].trigger /\ pass'[s].initial = pass[s].initial
       /\ pass'[s].toStart = pass[s].toStart
  /\ EndPass(s) \/ Crash(s) => pass'[s] = IdlePass
<1>t. pass \in [Schedulers -> Known(RunIds)] /\ pass[s] \in Known(RunIds)
  BY TypeForm
<1>1. ASSUME BeginPass(s)
      PROVE  /\ pass'[s].pc = "triggers" /\ pass'[s].todo = Triggers
             /\ pass'[s].initial = {} /\ pass'[s].toStart = {}
             /\ pass'[s].active = Cardinality(ActiveRuns)
  BY <1>t, <1>1 DEF BeginPass, IdlePass
<1>2. ASSUME LockTrigger(s)
      PROVE  /\ pass[s].pc = "triggers" /\ pass'[s].pc = "decide"
             /\ pass'[s].trigger \in pass[s].todo
             /\ pass'[s].todo = pass[s].todo \ {pass'[s].trigger}
             /\ pass'[s].toStart = pass[s].toStart /\ pass'[s].active = pass[s].active
             /\ pass'[s].initial = pass[s].initial
  BY <1>t, <1>2 DEF LockTrigger, Known
<1>3. ASSUME SkipLockedTrigger(s)
      PROVE  /\ pass[s].pc = "triggers" /\ pass'[s].pc = "triggers"
             /\ pass'[s].todo \subseteq pass[s].todo /\ pass'[s].trigger = pass[s].trigger
             /\ pass'[s].toStart = pass[s].toStart /\ pass'[s].active = pass[s].active
             /\ pass'[s].initial = pass[s].initial
  BY <1>t, <1>3 DEF SkipLockedTrigger, Known
<1>4. ASSUME ReleaseAgain(s)
      PROVE  /\ pass[s].pc = "release" /\ pass'[s].pc = "triggers"
             /\ pass'[s].todo = pass[s].todo /\ pass'[s].initial = {}
             /\ pass'[s].toStart = pass[s].toStart /\ pass'[s].active = pass[s].active
  <2>1. pass[s].toStart \in SUBSET RunIds /\ pass[s].excluded \in SUBSET RunIds
    BY <1>t DEF Known
  <2> QED BY <1>t, <1>4, <2>1, NextKnown DEF ReleaseAgain
<1>5. ASSUME ApplyPipelineLimit(s)
      PROVE  /\ pass[s].pc = "triggers" /\ pass[s].todo = {}
             /\ pass'[s].pc = "start" /\ pass'[s].todo = {}
             /\ pass'[s].initial = pass[s].initial
             /\ pass'[s].trigger = pass[s].trigger
             /\ pass'[s].toStart = IF pass[s].active < PipelineLimit
                               THEN Earliest(pass[s].toStart, PipelineLimit - pass[s].active)
                               ELSE {}
  BY <1>t, <1>5 DEF ApplyPipelineLimit, Known
<1>6. ASSUME CancelExcluded(s)
      PROVE  /\ pass[s].pc = "start" /\ pass'[s].pc = "start" /\ pass'[s].todo = pass[s].todo
             /\ pass'[s].trigger = pass[s].trigger /\ pass'[s].initial = pass[s].initial
             /\ pass'[s].toStart = pass[s].toStart
  BY <1>t, <1>6 DEF CancelExcluded, Known
<1>7. ASSUME EndPass(s) \/ Crash(s) PROVE pass'[s] = IdlePass
  BY <1>t, <1>7 DEF EndPass, Crash
<1> QED BY <1>1, <1>2, <1>3, <1>4, <1>5, <1>6, <1>7

\* The same of a pass that stays at its trigger.
SameTrigger(s) ==
  /\ pass'[s].trigger = pass[s].trigger /\ pass'[s].todo = pass[s].todo
  /\ pass'[s].toStart = pass[s].toStart /\ pass'[s].active = pass[s].active

\* Each action at a trigger leaves what the next ones rest on.
LEMMA AfterAtTrigger ==
  ASSUME TypeOK, NEW s \in Schedulers
  PROVE
  /\ Decide(s) =>
       /\ SameTrigger(s) /\ pass[s].pc = "decide"
       /\ \/ pass'[s].pc = "release" /\ pass'[s].initial = pass[s].initial
          \/ /\ pass'[s].pc = "count" /\ pass'[s].due = ShouldSchedule(pass[s].trigger)
             /\ pass'[s].initial = RunsOf(pass[s].trigger, "initial")
  /\ CountRunning(s) =>
       /\ SameTrigger(s) /\ pass[s].pc = "count" /\ pass'[s].initial = pass[s].initial
       /\ pass'[s].running = Cardinality(RunsOf(pass[s].trigger, "running"))
       /\ pass'[s].pc \in {"select", "insert_skipped", "create"}
       /\ pass'[s].pc # "select" => pass[s].due /\ pass'[s].date = DateOf(interval)
       /\ pass'[s].pc = "create" =>
            ~ (/\ pass[s].trigger \in SkipIfRunning
               /\ \/ pass[s].initial # {}
                  \/ Cardinality(RunsOf(pass[s].trigger, "running")) > 0)
  /\ LookForDuplicate(s) =>
       /\ SameTrigger(s) /\ pass[s].pc = "create" /\ pass'[s].pc \in {"select", "insert"}
       /\ pass'[s].initial = pass[s].initial /\ pass'[s].running = pass[s].running
       /\ pass'[s].pc = "insert" => pass'[s].date = pass[s].date
  /\ InsertRun(s) =>
       /\ SameTrigger(s) /\ pass[s].pc = "insert" /\ pass'[s].pc = "select"
       /\ pass'[s].initial = pass[s].initial \cup {Len(runs) + 1}
       /\ pass'[s].running = pass[s].running
  /\ InsertSkipped(s) =>
       /\ SameTrigger(s) /\ pass[s].pc = "insert_skipped" /\ pass'[s].pc = "cancel_skipped"
       /\ pass'[s].initial = pass[s].initial /\ pass'[s].running = pass[s].running
       /\ pass'[s].date = Len(runs) + 1
  /\ CancelSkipped(s) =>
       /\ SameTrigger(s) /\ pass[s].pc = "cancel_skipped" /\ pass'[s].pc = "select"
       /\ pass'[s].initial = pass[s].initial /\ pass'[s].running = pass[s].running
<1>t. pass \in [Schedulers -> Known(RunIds)] /\ pass[s] \in Known(RunIds)
  BY TypeForm
<1> USE DEF SameTrigger
<1>1. ASSUME Decide(s)
      PROVE  /\ SameTrigger(s) /\ pass[s].pc = "decide"
             /\ \/ pass'[s].pc = "release" /\ pass'[s].initial = pass[s].initial
                \/ /\ pass'[s].pc = "count" /\ pass'[s].due = ShouldSchedule(pass[s].trigger)
                   /\ pass'[s].initial = RunsOf(pass[s].trigger, "initial")
  <2> DEFINE due == ShouldSchedule(pass[s].trigger)
             initial == RunsOf(pass[s].trigger, "initial")
  <2>1. \/ pass' = [pass EXCEPT ![s].pc = "release"]
        \/ pass' = [pass EXCEPT ![s].pc = "count", ![s].due = due, ![s].initial = initial]
    BY <1>1 DEF Decide, Step
  <2> HIDE DEF due, initial
  <2>2. /\ SameTrigger(s)
        /\ \/ pass'[s].pc = "release" /\ pass'[s].initial = pass[s].initial
           \/ pass'[s].pc = "count" /\ pass'[s].due = due /\ pass'[s].initial = initial
    BY <1>t, <2>1 DEF Known
  <2> QED BY <1>1, <2>2 DEF Decide, due, initial
<1>2. ASSUME CountRunning(s)
      PROVE  /\ SameTrigger(s) /\ pass[s].pc = "count" /\ pass'[s].initial = pass[s].initial
             /\ pass'[s].running = Cardinality(RunsOf(pass[s].trigger, "running"))
             /\ pass'[s].pc \in {"select", "insert_skipped", "create"}
             /\ pass'[s].pc # "select" => pass[s].due /\ pass'[s].date = DateOf(interval)
             /\ pass'[s].pc = "create" =>
                  ~ (/\ pass[s].trigger \in SkipIfRunning
                     /\ \/ pass[s].initial # {}
                        \/ Cardinality(RunsOf(pass[s].trigger, "running")) > 0)
  BY <1>t, <1>2 DEF CountRunning, Known
<1>3. ASSUME LookForDuplicate(s)
      PROVE  /\ SameTrigger(s) /\ pass[s].pc = "create" /\ pass'[s].pc \in {"select", "insert"}
             /\ pass'[s].initial = pass[s].initial /\ pass'[s].running = pass[s].running
             /\ pass'[s].pc = "insert" => pass'[s].date = pass[s].date
  <2>1. \/ pass' = [pass EXCEPT ![s].pc = "select", ![s].date = 0]
        \/ pass' = [pass EXCEPT ![s].pc = "insert"]
    BY <1>3 DEF LookForDuplicate, Step
  <2> QED BY <1>t, <1>3, <2>1 DEF LookForDuplicate, Known
<1>4. ASSUME InsertRun(s)
      PROVE  /\ SameTrigger(s) /\ pass[s].pc = "insert" /\ pass'[s].pc = "select"
             /\ pass'[s].initial = pass[s].initial \cup {Len(runs) + 1}
             /\ pass'[s].running = pass[s].running
  BY <1>t, <1>4 DEF InsertRun, Known
<1>5. ASSUME InsertSkipped(s)
      PROVE  /\ SameTrigger(s) /\ pass[s].pc = "insert_skipped"
             /\ pass'[s].pc = "cancel_skipped"
             /\ pass'[s].initial = pass[s].initial /\ pass'[s].running = pass[s].running
             /\ pass'[s].date = Len(runs) + 1
  BY <1>t, <1>5 DEF InsertSkipped, Known
<1>6. ASSUME CancelSkipped(s)
      PROVE  /\ SameTrigger(s) /\ pass[s].pc = "cancel_skipped" /\ pass'[s].pc = "select"
             /\ pass'[s].initial = pass[s].initial /\ pass'[s].running = pass[s].running
  BY <1>t, <1>6 DEF CancelSkipped, Known
<1> HIDE DEF SameTrigger
<1> QED BY <1>1, <1>2, <1>3, <1>4, <1>5, <1>6

\* The runs selected for a trigger are no more than what is left of its limit.
LEMMA AfterSelect ==
  ASSUME TypeOK, PassInv, NEW s \in Schedulers, Select(s)
  PROVE  /\ pass[s].pc = "select" /\ pass'[s].pc = "triggers"
         /\ pass'[s].todo = pass[s].todo /\ pass'[s].active = pass[s].active
         /\ pass'[s].initial = {}
         /\ \E started \in SUBSET pass[s].initial :
              /\ pass'[s].toStart = pass[s].toStart \cup started
              /\ Cardinality(started) <= Left(TriggerLimit[pass[s].trigger], pass[s].running)
<1>t. /\ runs \in Seq(Row) /\ pass \in [Schedulers -> Known(RunIds)]
      /\ pass[s].initial \in SUBSET RunIds /\ pass[s].toStart \in SUBSET RunIds
      /\ pass[s].excluded \in SUBSET RunIds /\ pass[s].running \in Nat
  BY TypeForm DEF Known
<1>1. pass[s].pc = "select" /\ TriggerLimit[pass[s].trigger] \in Nat
  <2>1. pass[s].pc = "select"
    BY DEF Select
  <2>2. pass[s].trigger \in Triggers
    BY <2>1 DEF PassInv, PassSound, Handling
  <2> QED BY <2>1, <2>2, LimitsAssumption DEF LimitsAssumption
<1> DEFINE n == TriggerLimit[pass[s].trigger] - pass[s].running
<1>2. CASE n > 0
  <2>1. n \in Nat /\ Left(TriggerLimit[pass[s].trigger], pass[s].running) = n
    BY <1>1, <1>2, <1>t DEF Left
  <2> DEFINE started == Earliest(pass[s].initial, n)
             all == pass[s].toStart \cup started
             left == pass[s].excluded \cup (pass[s].initial \ started)
  <2>2. started \subseteq pass[s].initial /\ Cardinality(started) <= n
    BY <1>t, <2>1, EarliestBound
  <2>3. NextTrigger(s, all, left)
    BY <1>2 DEF Select
  <2> HIDE DEF started, n
  <2>4. all \in SUBSET RunIds /\ left \in SUBSET RunIds
    BY <1>t, <2>2
  <2> HIDE DEF all, left
  <2>5. /\ pass'[s].pc = "triggers" /\ pass'[s].todo = pass[s].todo
        /\ pass'[s].active = pass[s].active /\ pass'[s].initial = {}
        /\ pass'[s].toStart = all
    BY <1>t, <2>3, <2>4, NextKnown
  <2> QED BY <1>1, <2>1, <2>2, <2>5 DEF all
<1>3. CASE ~(n > 0)
  <2>1. NextTrigger(s, pass[s].toStart, pass[s].excluded)
    BY <1>3 DEF Select
  <2>2. /\ pass'[s].pc = "triggers" /\ pass'[s].todo = pass[s].todo
        /\ pass'[s].active = pass[s].active /\ pass'[s].initial = {}
        /\ pass'[s].toStart = pass[s].toStart
    BY <1>t, <2>1, NextKnown
  <2>3. Left(TriggerLimit[pass[s].trigger], pass[s].running) \in Nat /\ Cardinality({}) = 0
    BY <1>1, <1>t, FS_EmptySet DEF Left
  <2>4. pass'[s].toStart = pass[s].toStart \cup {}
    BY <2>2
  <2> QED BY <1>1, <2>2, <2>3, <2>4
<1> QED BY <1>2, <1>3

\* The earliest of the selected runs is started, or fails to start.
LEMMA AfterStart ==
  ASSUME TypeOK, NEW s \in Schedulers, StartRun(s)
  PROVE  /\ pass[s].pc = "start" /\ pass'[s].pc = "start" /\ pass'[s].todo = pass[s].todo
         /\ pass'[s].trigger = pass[s].trigger /\ pass'[s].initial = pass[s].initial
         /\ \E r \in pass[s].toStart :
              /\ pass'[s].toStart = pass[s].toStart \ {r}
              /\ Become(r, "running") \/ Become(r, "ended")
<1>t. pass \in [Schedulers -> Known(RunIds)] /\ pass[s] \in Known(RunIds)
  BY TypeForm
<1>1. PICK r \in Earliest(pass[s].toStart, 1) :
        /\ pass' = [pass EXCEPT ![s].toStart = @ \ {r}]
        /\ Become(r, "running") \/ Become(r, "ended")
  BY DEF StartRun
<1>2. r \in pass[s].toStart
  BY DEF Earliest
<1>3. /\ pass'[s].pc = pass[s].pc /\ pass'[s].todo = pass[s].todo
      /\ pass'[s].trigger = pass[s].trigger /\ pass'[s].initial = pass[s].initial
      /\ pass'[s].toStart = pass[s].toStart \ {r}
  BY <1>t, <1>1 DEF Known
<1>4. pass[s].pc = "start"
  BY DEF StartRun
<1> QED BY <1>1, <1>2, <1>3, <1>4

\* What happens beside the schedulers keeps the rows and the passes.
EnvironmentStep ==
  \/ \E t \in Triggers : Expire(t) \/ RequestRun(t)
  \/ \E r \in RunIds : EndRun(r) \/ StopRun(r)
  \/ Tick

\* Whatever it is, no pass notices.
LEMMA EnvironmentKeeps ==
  ASSUME TypeOK, EnvironmentStep
  PROVE  /\ runs' \in Seq(Row) /\ Kept
         /\ interval' \in 0..MaxInterval /\ interval <= interval'
         /\ key' \subseteq Triggers /\ pass' = pass /\ crashes' = crashes
<1>t. /\ runs \in Seq(Row) /\ interval \in 0..MaxInterval /\ key \subseteq Triggers
      /\ MaxInterval \in Nat
  BY TypeForm, LimitsAssumption DEF LimitsAssumption
<1>1. ASSUME NEW t \in Triggers, Expire(t)
      PROVE  /\ runs' = runs /\ interval' = interval
             /\ key' \subseteq Triggers /\ pass' = pass /\ crashes' = crashes
  BY <1>1, <1>t DEF Expire
<1>2. ASSUME NEW t \in Triggers, RequestRun(t)
      PROVE  /\ runs' \in Seq(Row) /\ Kept /\ interval' = interval
             /\ key' = key /\ pass' = pass /\ crashes' = crashes
  <2>1. RequestDate(interval) \in Dates
    BY <1>t DEF Dates, RequestDate
  <2> QED BY <1>2, <1>t, <2>1, CreateEffect DEF RequestRun, RunStatus
<1>3. ASSUME NEW r \in RunIds, EndRun(r) \/ StopRun(r)
      PROVE  /\ runs' \in Seq(Row) /\ Kept /\ interval' = interval
             /\ key' = key /\ pass' = pass /\ crashes' = crashes
  BY <1>3, <1>t, BecomeEffect DEF EndRun, StopRun, RunStatus
<1>4. ASSUME Tick
      PROVE  /\ runs' = runs /\ interval' = interval + 1 /\ interval' \in 0..MaxInterval
             /\ key' = key /\ pass' = pass /\ crashes' = crashes
  BY <1>4, <1>t DEF Tick
<1>5. CASE \E t \in Triggers : Expire(t)
  BY <1>1, <1>5, <1>t, SameTable
<1>6. CASE Tick
  BY <1>4, <1>6, <1>t, SameTable
<1> QED BY <1>2, <1>3, <1>5, <1>6, <1>t DEF EnvironmentStep

\* A pass that takes no step stays sound while rows are added and time passes.
LEMMA PassUndisturbed ==
  ASSUME TypeOK, NEW s \in Schedulers, PassSound(s), pass'[s] = pass[s], Kept,
         interval' \in 0..MaxInterval, interval <= interval'
  PROVE  PassSound(s)'
<1>t. /\ pass[s].initial \subseteq RunIds /\ pass[s].toStart \subseteq RunIds
      /\ interval \in Int /\ interval' \in Int
  BY TypeForm DEF Known
<1>1. 1..interval \subseteq 1..interval'
  BY <1>t
<1> QED BY <1>t, <1>1 DEF PassSound, Kept, DateOf

\* And so does one that takes a step of its own.
LEMMA PassOfOneSound ==
  ASSUME TypeOK, PassInv, NEW s \in Schedulers, SchedulerStep(s) \/ Crash(s)
  PROVE  PassSound(s)'
<1>t. /\ runs \in Seq(Row) /\ interval \in 0..MaxInterval /\ MaxInterval \in Nat
      /\ interval \in Nat /\ Len(runs) \in Nat
      /\ pass \in [Schedulers -> Known(RunIds)] /\ pass[s].todo \subseteq Triggers
      /\ pass[s].initial \subseteq RunIds /\ pass[s].toStart \subseteq RunIds
  BY TypeForm, RowOfTable, LimitsAssumption DEF Known, LimitsAssumption
<1>p. PassSound(s)
  BY DEF PassInv
<1>k. Kept /\ interval' = interval
  BY SchedulerStepOfOne DEF StepOfOne
<1>1. CASE BeginPass(s)
  BY <1>1, AfterOutside DEF PassSound, Handling, Creating
<1>2. CASE LockTrigger(s)
  <2>1. \A r \in pass'[s].initial : FALSE
    BY <1>2, <1>p, AfterOutside DEF PassSound, Handling
  <2>2. \A r \in pass'[s].toStart : r \in RunIds /\ runs'[r].trigger \notin pass[s].todo
    BY <1>2, <1>t, <1>p, <1>k, AfterOutside DEF PassSound, Kept
  <2> QED BY <1>2, <1>t, <2>1, <2>2, AfterOutside DEF PassSound, Handling, Creating
<1>3. CASE SkipLockedTrigger(s)
  <2>1. \A r \in pass'[s].toStart : r \in RunIds /\ runs'[r].trigger \notin pass[s].todo
    BY <1>3, <1>t, <1>p, <1>k, AfterOutside DEF PassSound, Kept
  <2>2. \A r \in pass'[s].initial : r \in RunIds /\ runs'[r].trigger = pass'[s].trigger
    BY <1>3, <1>t, <1>p, <1>k, AfterOutside DEF PassSound, Kept
  <2> QED BY <1>3, <1>t, <1>p, <2>1, <2>2, AfterOutside DEF PassSound, Handling, Creating
<1>4. ASSUME SameTrigger(s), pass[s].pc \in Handling
      PROVE  /\ pass'[s].trigger \in Triggers \ pass'[s].todo
             /\ \A r \in pass'[s].toStart : /\ runs'[r].trigger \notin pass'[s].todo
                                            /\ runs'[r].trigger # pass'[s].trigger
  BY <1>4, <1>t, <1>p, <1>k DEF PassSound, Kept, SameTrigger
<1>5. ASSUME pass'[s].initial = pass[s].initial, pass'[s].trigger = pass[s].trigger
      PROVE  \A r \in pass'[s].initial : runs'[r].trigger = pass'[s].trigger
  BY <1>5, <1>t, <1>p, <1>k DEF PassSound, Kept
<1>6. CASE Decide(s)
  <2>1. SameTrigger(s) /\ pass[s].pc \in Handling /\ pass'[s].pc \in {"release", "count"}
    BY <1>6, AfterAtTrigger DEF Handling
  <2>2. \A r \in pass'[s].initial : runs'[r].trigger = pass'[s].trigger
    <3>1. CASE pass'[s].initial = pass[s].initial
      BY <2>1, <3>1, <1>5 DEF SameTrigger
    <3>2. CASE pass'[s].initial = RunsOf(pass[s].trigger, "initial")
      BY <2>1, <3>2, <1>k DEF SameTrigger, RunsOf, Kept
    <3> QED BY <1>6, <3>1, <3>2, AfterAtTrigger
  <2>3. pass'[s].pc = "count" /\ pass'[s].due => pass[s].trigger \in TimeTriggers /\ interval >= 1
    <3>1. pass'[s].pc = "count" => pass'[s].due = ShouldSchedule(pass[s].trigger)
      BY <1>6, AfterAtTrigger
    <3>2. ShouldSchedule(pass[s].trigger) => pass[s].trigger \in TimeTriggers /\ interval >= 1
      BY <1>t DEF ShouldSchedule
    <3> QED BY <3>1, <3>2
  <2> QED BY <1>4, <1>k, <2>1, <2>2, <2>3 DEF PassSound, SameTrigger, Creating, Handling
<1>7. CASE ReleaseAgain(s)
  <2>1. \A r \in pass'[s].toStart : r \in RunIds /\ runs'[r].trigger \notin pass[s].todo
    BY <1>7, <1>t, <1>p, <1>k, AfterOutside DEF PassSound, Kept
  <2> QED BY <1>7, <2>1, AfterOutside DEF PassSound, Handling, Creating
<1>8. CASE CountRunning(s)
  <2>1. /\ SameTrigger(s) /\ pass[s].pc \in Handling
        /\ pass'[s].pc \in {"select", "insert_skipped", "create"}
        /\ pass'[s].initial = pass[s].initial
    BY <1>8, AfterAtTrigger DEF Handling
  <2>2. pass'[s].pc # "select" =>
          /\ pass[s].trigger \in TimeTriggers
          /\ interval \in 1..interval /\ pass'[s].date = DateOf(interval)
    BY <1>8, <1>t, <1>p, AfterAtTrigger DEF PassSound
  <2> QED BY <1>4, <1>5, <1>k, <2>1, <2>2 DEF PassSound, SameTrigger, Creating, Handling, DateOf
<1>9. CASE LookForDuplicate(s)
  <2>1. /\ SameTrigger(s) /\ pass[s].pc \in Handling /\ pass[s].pc \in Creating
        /\ pass'[s].pc \in {"select", "insert"}
        /\ pass'[s].initial = pass[s].initial
        /\ pass'[s].pc = "insert" => pass'[s].date = pass[s].date
    BY <1>9, AfterAtTrigger DEF Handling, Creating
  <2> QED BY <1>4, <1>5, <1>k, <1>p, <2>1 DEF PassSound, SameTrigger, DateOf, Creating, Handling
<1>10. ASSUME pass[s].pc \in {"insert", "insert_skipped"},
              CreateRun(pass[s].trigger, pass[s].date, "initial")
       PROVE  /\ RunIds' = RunIds \cup {Len(runs) + 1} /\ Len(runs) + 1 \notin RunIds
              /\ runs'[Len(runs) + 1].trigger = pass[s].trigger
  <2>1. pass[s].trigger \in Triggers /\ \E i \in 1..interval : pass[s].date = DateOf(i)
    BY <1>10, <1>p, LimitsAssumption DEF PassSound, Creating, LimitsAssumption
  <2>2. pass[s].date \in Dates
    BY <1>t, <2>1 DEF Dates, DateOf, RequestDate
  <2>3. /\ RunIds' = RunIds \cup {Len(runs) + 1} /\ Len(runs) + 1 \notin RunIds
        /\ runs'[Len(runs) + 1] =
             [trigger |-> pass[s].trigger, date |-> pass[s].date, status |-> "initial"]
    BY <1>10, <1>t, <2>1, <2>2, CreateEffect DEF RunStatus
  <2> QED BY <2>3
<1>11. CASE InsertRun(s)
  <2>1. /\ SameTrigger(s) /\ pass[s].pc \in Handling /\ pass'[s].pc = "select"
        /\ pass'[s].initial = pass[s].initial \cup {Len(runs) + 1}
    BY <1>11, AfterAtTrigger DEF Handling
  <2>2. runs'[Len(runs) + 1].trigger = pass[s].trigger
    BY <1>10, <1>11 DEF InsertRun
  <2>3. \A r \in pass'[s].initial : runs'[r].trigger = pass'[s].trigger
    BY <1>t, <1>p, <1>k, <2>1, <2>2 DEF PassSound, SameTrigger, Kept
  <2> QED BY <1>4, <2>1, <2>3 DEF PassSound, Creating, Handling
<1>12. CASE InsertSkipped(s)
  <2>1. /\ SameTrigger(s) /\ pass[s].pc \in Handling /\ pass'[s].pc = "cancel_skipped"
        /\ pass'[s].initial = pass[s].initial /\ pass'[s].date = Len(runs) + 1
    BY <1>12, AfterAtTrigger DEF Handling
  <2>2. RunIds' = RunIds \cup {Len(runs) + 1} /\ Len(runs) + 1 \notin RunIds
    BY <1>10, <1>12 DEF InsertSkipped
  <2>3. pass'[s].date \in RunIds' /\ pass'[s].date \notin pass'[s].initial \cup pass'[s].toStart
    BY <1>t, <2>1, <2>2 DEF SameTrigger
  <2> QED BY <1>4, <1>5, <2>1, <2>3 DEF PassSound, Creating, Handling, SameTrigger
<1>13. CASE CancelSkipped(s)
  <2>1. /\ SameTrigger(s) /\ pass[s].pc \in Handling /\ pass'[s].pc = "select"
        /\ pass'[s].initial = pass[s].initial
    BY <1>13, AfterAtTrigger DEF Handling
  <2> QED BY <1>4, <1>5, <2>1 DEF PassSound, Creating, Handling, SameTrigger
<1>14. CASE Select(s)
  <2>1. /\ pass[s].pc \in Handling /\ pass'[s].pc = "triggers"
        /\ pass'[s].todo = pass[s].todo /\ pass'[s].initial = {}
        /\ pass'[s].toStart \subseteq pass[s].toStart \cup pass[s].initial
    BY <1>14, AfterSelect DEF Handling
  <2>2. \A r \in pass[s].toStart \cup pass[s].initial :
          r \in RunIds /\ runs'[r].trigger \notin pass[s].todo
    BY <1>t, <1>p, <1>k, <2>1 DEF PassSound, Kept
  <2> QED BY <2>1, <2>2 DEF PassSound, Handling, Creating
<1>15. ASSUME pass[s].pc \notin Handling, pass'[s].pc = "start",
              pass'[s].todo \subseteq pass[s].todo,
              pass'[s].trigger = pass[s].trigger, pass'[s].initial = pass[s].initial,
              pass'[s].toStart \subseteq pass[s].toStart
       PROVE  PassSound(s)'
  <2>1. \A r \in pass'[s].toStart : r \in RunIds /\ runs'[r].trigger \notin pass'[s].todo
    BY <1>15, <1>t, <1>p, <1>k DEF PassSound, Kept
  <2> QED BY <1>5, <1>15, <1>p, <2>1 DEF PassSound, Handling, Creating
<1>16. CASE ApplyPipelineLimit(s)
  <2>1. pass'[s].toStart \subseteq pass[s].toStart
    BY <1>16, AfterOutside DEF Earliest
  <2> QED BY <1>15, <1>16, <2>1, AfterOutside DEF Handling
<1>17. CASE StartRun(s)
  BY <1>15, <1>17, AfterStart DEF Handling
<1>18. CASE CancelExcluded(s)
  BY <1>15, <1>18, AfterOutside DEF Handling
<1>19. CASE EndPass(s) \/ Crash(s)
  <2>1. pass'[s] = IdlePass
    BY <1>19, AfterOutside
  <2> QED BY <2>1 DEF PassSound, IdlePass, Handling, Creating
<1> QED BY <1>1, <1>2, <1>3, <1>6, <1>7, <1>8, <1>9, <1>11, <1>12, <1>13, <1>14, <1>16,
           <1>17, <1>18, <1>19 DEF SchedulerStep

\* Steps are of one scheduler, or beside them.
LEMMA NextCases ==
  ASSUME Next
  PROVE  (\E s \in Schedulers : SchedulerStep(s) \/ Crash(s)) \/ EnvironmentStep
  BY DEF Next, EnvironmentStep

\* What a scheduler's step leaves to the others.
LEMMA OthersSame ==
  ASSUME TypeOK, NEW s \in Schedulers, StepOfOne(s), NEW q \in Schedulers, q # s
  PROVE  pass'[q] = pass[q]
  BY TypeForm DEF StepOfOne

\* Types and soundness of the passes are inductive together: the date of a row
\* that is inserted, and the row that is cancelled, come from the pass.
LEMMA TypeStep ==
  ASSUME TypeOK, PassInv, Next
  PROVE  TypeOK' /\ PassInv'
<1>1. ASSUME NEW s \in Schedulers, SchedulerStep(s) \/ Crash(s) PROVE TypeOK' /\ PassInv'
  <2>1. StepOfOne(s)
    BY <1>1, SchedulerStepOfOne
  <2>2. TypeOK'
    BY <2>1, TypeOfOne DEF StepOfOne
  <2>3. interval' \in 0..MaxInterval /\ interval <= interval' /\ Kept
    BY <2>1, TypeForm DEF StepOfOne
  <2>4. ASSUME NEW q \in Schedulers PROVE PassSound(q)'
    <3>1. CASE q = s
      BY <1>1, <3>1, PassOfOneSound
    <3>2. CASE q # s
      BY <2>1, <2>3, <3>2, OthersSame, PassUndisturbed DEF PassInv
    <3> QED BY <3>1, <3>2
  <2> QED BY <2>2, <2>4 DEF PassInv
<1>2. CASE EnvironmentStep
  <2>1. /\ runs' \in Seq(Row) /\ Kept
        /\ interval' \in 0..MaxInterval /\ interval <= interval'
        /\ key' \subseteq Triggers /\ pass' = pass /\ crashes' = crashes
    BY <1>2, EnvironmentKeeps
  <2>2. pass' \in [Schedulers -> Known(RunIds')]
    <3>1. Known(RunIds) \subseteq Known(RunIds')
      BY <2>1 DEF Known, Kept
    <3> QED BY <2>1, <3>1, TypeForm
  <2>3. TypeOK'
    BY <2>1, <2>2, TypeForm DEF TypeOK, Row, Known
  <2>4. \A q \in Schedulers : PassSound(q)'
    BY <2>1, PassUndisturbed DEF PassInv
  <2> QED BY <2>3, <2>4 DEF PassInv
<1> QED BY <1>1, <1>2, NextCases

\* At first every pass is idle.
LEMMA InitTypes ==
  ASSUME Init PROVE TypeOK /\ PassInv
<1>1. runs = <<>> /\ RunIds = {} /\ runs \in Seq(Row)
  BY DEF Init, RunIds
<1>2. pass \in [Schedulers -> Known(RunIds)]
  BY IdleKnown DEF Init
<1>3. TypeOK
  BY <1>1, <1>2, TypeForm, LimitsAssumption DEF Init, LimitsAssumption
<1>4. PassInv
  BY DEF Init, PassInv, PassSound, IdlePass, Handling, Creating
<1> QED BY <1>3, <1>4

\* A state that stays is as it was.
LEMMA TypeStutter ==
  ASSUME TypeOK, PassInv, UNCHANGED vars
  PROVE  TypeOK' /\ PassInv'
  BY DEF TypeOK, PassInv, PassSound, vars, RunIds, Dates, RequestDate

\* The table, the locks and the passes have their types: what a pass knows are
\* rows of the table, whatever has been inserted since it read them.
THEOREM LimitsTypeCorrect == Spec => []TypeOK
<1>1. Init => TypeOK /\ PassInv
  BY InitTypes
<1>2. (TypeOK /\ PassInv) /\ [Next]_vars => (TypeOK /\ PassInv)'
  BY TypeStep, TypeStutter
<1> QED BY <1>1, <1>2, PTL DEF Spec

-----------------------------------------------------------------------------
(* The limits.                                                             *)

\* The runs that run, of a trigger and of the pipeline, are finitely many.
LEMMA CountsFinite ==
  ASSUME TypeOK, NEW t
  PROVE  /\ IsFiniteSet(RunsOf(t, "running")) /\ Cardinality(RunsOf(t, "running")) \in Nat
         /\ IsFiniteSet(ActiveRuns) /\ Cardinality(ActiveRuns) \in Nat
  BY TypeForm, RowOfTable, RunIdsFinite DEF RunsOf, ActiveRuns

\* So they are after a step.
LEMMA CountsFiniteNext ==
  ASSUME TypeOK', NEW t
  PROVE  Cardinality(RunsOf(t, "running"))' \in Nat /\ Cardinality(ActiveRuns)' \in Nat
<1>1. Len(runs') \in Nat
  BY DEF TypeOK
<1>2. IsFiniteSet(RunIds')
  BY <1>1, FS_Interval DEF RunIds
<1>3. RunsOf(t, "running")' \subseteq RunIds' /\ ActiveRuns' \subseteq RunIds'
  BY DEF RunsOf, ActiveRuns
<1> QED BY <1>2, <1>3, FS_Subset, FS_CardinalityType

\* No step but the start of a run lets one run.
NoneStarts ==
  \A r \in RunIds' : runs'[r].status = "running" => r \in RunIds /\ runs[r].status = "running"

\* Insertions are of initial runs, and all other updates end one.
LEMMA OnlyStartsStart ==
  ASSUME TypeOK, PassInv,
         \/ \E s \in Schedulers : (SchedulerStep(s) \/ Crash(s)) /\ ~StartRun(s)
         \/ EnvironmentStep
  PROVE  NoneStarts
<1>t. /\ runs \in Seq(Row) /\ interval \in 0..MaxInterval /\ MaxInterval \in Nat
      /\ pass \in [Schedulers -> Known(RunIds)]
  BY TypeForm, LimitsAssumption DEF LimitsAssumption
<1>1. CASE runs' = runs
  BY <1>1 DEF NoneStarts, RunIds
<1>2. ASSUME NEW r \in RunIds, Become(r, "ended") PROVE NoneStarts
  BY <1>2, <1>t, BecomeEffect DEF NoneStarts, RunStatus
<1>3. ASSUME NEW t \in Triggers, NEW date \in Dates, CreateRun(t, date, "initial")
      PROVE  NoneStarts
  <2>1. /\ RunIds' = RunIds \cup {Len(runs) + 1}
        /\ \A q \in RunIds : runs'[q] = runs[q]
        /\ runs'[Len(runs) + 1] = [trigger |-> t, date |-> date, status |-> "initial"]
    BY <1>3, <1>t, CreateEffect DEF RunStatus
  <2>2. runs'[Len(runs) + 1].status = "initial"
    BY <2>1
  <2> QED BY <2>1, <2>2 DEF NoneStarts
<1>4. ASSUME NEW s \in Schedulers, SchedulerStep(s) \/ Crash(s), ~StartRun(s) PROVE NoneStarts
  <2>1. CASE InsertRun(s) \/ InsertSkipped(s)
    <3>1. pass[s].pc \in Creating /\ CreateRun(pass[s].trigger, pass[s].date, "initial")
      BY <2>1 DEF InsertRun, InsertSkipped, Creating
    <3>2. pass[s].trigger \in Triggers /\ \E i \in 1..interval : pass[s].date = DateOf(i)
      BY <3>1, LimitsAssumption DEF PassInv, PassSound, LimitsAssumption
    <3>3. pass[s].date \in Dates
      BY <1>t, <3>2 DEF Dates, DateOf, RequestDate
    <3> QED BY <1>3, <3>1, <3>2, <3>3
  <2>2. CASE CancelSkipped(s)
    <3>1. pass[s].date \in RunIds /\ Become(pass[s].date, "ended")
      BY <2>2 DEF CancelSkipped, PassInv, PassSound
    <3> QED BY <1>2, <3>1
  <2>3. CASE CancelExcluded(s)
    <3>1. PICK r \in pass[s].excluded : Become(r, "ended")
      BY <2>3 DEF CancelExcluded
    <3>2. r \in RunIds
      BY <1>t DEF Known
    <3> QED BY <1>2, <3>1, <3>2
  <2>4. CASE ~(InsertRun(s) \/ InsertSkipped(s) \/ CancelSkipped(s) \/ CancelExcluded(s))
    <3>1. runs' = runs
      BY <1>4, <2>4 DEF SchedulerStep, Crash, BeginPass, LockTrigger, SkipLockedTrigger, Decide,
                       ReleaseAgain, CountRunning, LookForDuplicate, Select,
                       ApplyPipelineLimit, EndPass
    <3> QED BY <1>1, <3>1
  <2> QED BY <2>1, <2>2, <2>3, <2>4
<1>5. CASE EnvironmentStep
  <2>1. ASSUME NEW t \in Triggers, Expire(t) PROVE NoneStarts
    BY <1>1, <2>1 DEF Expire
  <2>2. ASSUME NEW t \in Triggers, RequestRun(t) PROVE NoneStarts
    <3>1. RequestDate(interval) \in Dates
      BY <1>t DEF Dates, RequestDate
    <3> QED BY <1>3, <2>2, <3>1 DEF RequestRun
  <2>3. ASSUME NEW r \in RunIds, EndRun(r) \/ StopRun(r) PROVE NoneStarts
    BY <1>2, <2>3 DEF EndRun, StopRun
  <2>4. CASE Tick
    BY <1>1, <2>4 DEF Tick
  <2> QED BY <1>5, <2>1, <2>2, <2>3, <2>4 DEF EnvironmentStep
<1> QED BY <1>4, <1>5

\* The counts fall when none starts.
LEMMA CountsFall ==
  ASSUME TypeOK, TypeOK', NEW t, NoneStarts, Kept
  PROVE  /\ Cardinality(RunsOf(t, "running"))' <= Cardinality(RunsOf(t, "running"))
         /\ Cardinality(ActiveRuns)' <= Cardinality(ActiveRuns)
<1>1. RunsOf(t, "running")' \subseteq RunsOf(t, "running") /\ ActiveRuns' \subseteq ActiveRuns
  BY DEF NoneStarts, RunsOf, ActiveRuns, Kept
<1> QED BY <1>1, CountsFinite, FS_Subset

\* The start of a run adds one to the counts, of its trigger only.
LEMMA CountsRise ==
  ASSUME TypeOK, TypeOK', NEW t \in Triggers, NEW r \in RunIds, Become(r, "running")
  PROVE  /\ Cardinality(RunsOf(t, "running"))' <= Cardinality(RunsOf(t, "running")) + 1
         /\ runs[r].trigger # t =>
              Cardinality(RunsOf(t, "running"))' <= Cardinality(RunsOf(t, "running"))
         /\ Cardinality(ActiveRuns)' <= Cardinality(ActiveRuns) + 1
<1>1. RunIds' = RunIds /\ Kept
        /\ \A q \in RunIds : runs'[q].status = IF q = r THEN "running" ELSE runs[q].status
  BY TypeForm, BecomeEffect DEF RunStatus
<1>2. ASSUME NEW S, NEW T, IsFiniteSet(S), T \subseteq S \cup {r}
      PROVE  Cardinality(T) <= Cardinality(S) + 1
  <2>1. CASE T \subseteq S
    <3>1. Cardinality(T) <= Cardinality(S) /\ Cardinality(T) \in Nat /\ Cardinality(S) \in Nat
      BY <1>2, <2>1, FS_Subset, FS_CardinalityType
    <3> QED BY <3>1
  <2>2. CASE ~(T \subseteq S)
    <3> DEFINE U == T \ {r}
    <3>1. r \in T /\ U \subseteq S /\ r \notin U /\ T = U \cup {r}
      BY <1>2, <2>2
    <3> HIDE DEF U
    <3>2. IsFiniteSet(U) /\ Cardinality(U) <= Cardinality(S)
      BY <1>2, <3>1, FS_Subset
    <3>3. Cardinality(U \cup {r}) = Cardinality(U) + 1
      BY <3>1, <3>2, FS_AddElement
    <3>4. Cardinality(U) \in Nat /\ Cardinality(S) \in Nat
      BY <1>2, <3>2, FS_CardinalityType
    <3>5. Cardinality(T) = Cardinality(U) + 1
      BY <3>1, <3>3, Zenon
    <3> QED BY <3>2, <3>4, <3>5
  <2> QED BY <2>1, <2>2
<1>3. RunsOf(t, "running")' \subseteq RunsOf(t, "running") \cup {r}
        /\ ActiveRuns' \subseteq ActiveRuns \cup {r}
  BY <1>1 DEF RunsOf, ActiveRuns, Kept
<1>4. runs[r].trigger # t => RunsOf(t, "running")' \subseteq RunsOf(t, "running")
  BY <1>1 DEF RunsOf, Kept
<1> QED BY <1>2, <1>3, <1>4, CountsFinite, FS_Subset

\* Shares are numbers, for every scheduler.
LEMMA SharesTyped ==
  ASSUME TypeOK, NEW t \in Triggers, NEW s \in Schedulers
  PROVE  /\ TriggerShare(t)[s] \in Nat /\ PipelineShare[s] \in Nat
         /\ IsFiniteSet(Selected(t, s)) /\ IsFiniteSet(pass[s].toStart)
         /\ TriggerLimit[t] \in Nat /\ PipelineLimit \in Nat
         /\ \A n \in Nat : /\ Left(TriggerLimit[t], n) \in Nat
                           /\ Left(TriggerLimit[t], n) <= TriggerLimit[t]
                           /\ n <= TriggerLimit[t] =>
                                n + Left(TriggerLimit[t], n) <= TriggerLimit[t]
                           /\ n >= TriggerLimit[t] => Left(TriggerLimit[t], n) = 0
                           /\ Left(PipelineLimit, n) \in Nat
                           /\ Left(PipelineLimit, n) <= PipelineLimit
                           /\ n <= PipelineLimit => n + Left(PipelineLimit, n) <= PipelineLimit
                           /\ n >= PipelineLimit => Left(PipelineLimit, n) = 0
<1>1. /\ pass[s].running \in Nat /\ pass[s].active \in Nat
      /\ pass[s].toStart \subseteq RunIds /\ Len(runs) \in Nat
  BY TypeForm, RowOfTable DEF Known
<1>2. /\ IsFiniteSet(Selected(t, s)) /\ Cardinality(Selected(t, s)) \in Nat
      /\ IsFiniteSet(pass[s].toStart) /\ Cardinality(pass[s].toStart) \in Nat
  BY <1>1, RunIdsFinite DEF Selected
<1>3. TriggerLimit[t] \in Nat /\ PipelineLimit \in Nat
  BY LimitsAssumption DEF LimitsAssumption
<1>4. \A limit, n \in Nat : /\ Left(limit, n) \in Nat /\ Left(limit, n) <= limit
                            /\ n <= limit => n + Left(limit, n) <= limit
                            /\ n >= limit => Left(limit, n) = 0
  BY DEF Left
<1>5. TriggerShare(t)[s] \in Nat /\ PipelineShare[s] \in Nat
  BY <1>1, <1>2, <1>3, <1>4 DEF TriggerShare, PipelineShare
<1> QED BY <1>2, <1>3, <1>4, <1>5

\* So they are after a step.
LEMMA SharesTypedNext ==
  ASSUME TypeOK', NEW t, NEW q \in Schedulers
  PROVE  (t \in Triggers => TriggerShare(t)'[q] \in Nat) /\ PipelineShare'[q] \in Nat
<1>1. /\ pass'[q].active \in Nat /\ pass'[q].running \in Nat
      /\ pass'[q].toStart \subseteq RunIds' /\ Len(runs') \in Nat
  BY DEF TypeOK
<1>2. IsFiniteSet(RunIds')
  BY <1>1, FS_Interval DEF RunIds
<1>3. Cardinality(pass'[q].toStart) \in Nat /\ Cardinality(Selected(t, q)') \in Nat
  BY <1>1, <1>2, FS_Subset, FS_CardinalityType DEF Selected
<1>4. t \in Triggers => Left(TriggerLimit[t], pass'[q].running) \in Nat
  BY <1>1, LimitsAssumption DEF LimitsAssumption, Left
<1>5. Left(PipelineLimit, pass'[q].active) \in Nat
  BY <1>1, LimitsAssumption DEF LimitsAssumption, Left
<1> QED BY <1>3, <1>4, <1>5 DEF TriggerShare, PipelineShare

\* A step of one scheduler changes its share of a trigger's limit only.
LEMMA TriggerShareOfOne ==
  ASSUME TypeOK, TypeOK', NEW s \in Schedulers, StepOfOne(s), NEW t \in Triggers,
         WithinShares(TriggerLimit[t], Cardinality(RunsOf(t, "running")), TriggerShare(t)),
         LET count == Cardinality(RunsOf(t, "running"))
             share == TriggerShare(t)[s]
         IN  \/ share' <= share /\ count' + share' <= count + share
             \/ count' + share' <= TriggerLimit[t]
  PROVE  WithinShares(TriggerLimit[t], Cardinality(RunsOf(t, "running")), TriggerShare(t))'
<1> DEFINE count == Cardinality(RunsOf(t, "running"))
           f == TriggerShare(t)
           count2 == count'
           g == f'
<1>1. count \in Nat /\ count2 \in Nat
  BY CountsFinite, CountsFiniteNext
<1>2. TriggerLimit[t] \in Nat /\ f \in [Schedulers -> 0..TriggerLimit[t]]
  BY SharesTyped DEF WithinShares
<1>3. \A q \in Schedulers : g[q] \in Nat
  BY SharesTypedNext
<1>4. \A q \in Schedulers \ {s} : g[q] = f[q]
  <2> SUFFICES ASSUME NEW q \in Schedulers \ {s} PROVE g[q] = f[q]
    OBVIOUS
  <2>1. pass'[q] = pass[q] /\ pass[q].toStart \subseteq RunIds
    BY OthersSame, TypeForm DEF Known
  <2>2. Selected(t, q)' = Selected(t, q)
    BY <2>1 DEF Selected, StepOfOne, Kept
  <2> QED BY <2>1, <2>2 DEF TriggerShare
<1>5. DOMAIN g = Schedulers /\ g = [q \in Schedulers |-> g[q]]
  BY DEF TriggerShare
<1>6. g[s] <= TriggerLimit[t]
        /\ (count2 + g[s] <= count + f[s] \/ count2 + g[s] <= TriggerLimit[t])
  <2> HIDE DEF count, f
  <2>1. f[s] <= TriggerLimit[t] /\ f[s] \in Nat /\ g[s] \in Nat
    BY <1>2, <1>3
  <2>2. (g[s] <= f[s] /\ count2 + g[s] <= count + f[s]) \/ count2 + g[s] <= TriggerLimit[t]
    BY DEF count, f
  <2> QED BY <1>1, <1>2, <2>1, <2>2
<1>7. g \in [Schedulers -> 0..TriggerLimit[t]]
  <2> HIDE DEF count, f
  <2>1. \A q \in Schedulers : g[q] \in 0..TriggerLimit[t]
    BY <1>2, <1>3, <1>4, <1>6
  <2> QED BY <1>5, <2>1
<1>8. WithinShares(TriggerLimit[t], count2, g)
  <2> HIDE DEF f
  <2>1. WithinShares(TriggerLimit[t], count, f)
    BY DEF f
  <2> HIDE DEF count
  <2> QED BY <1>1, <1>2, <1>4, <1>6, <1>7, <2>1, ShareChanges
<1> QED BY <1>8 DEF WithinShares, Slots

\* And so for the pipeline's.
LEMMA PipelineShareOfOne ==
  ASSUME TypeOK, TypeOK', NEW s \in Schedulers, StepOfOne(s),
         WithinShares(PipelineLimit, Cardinality(ActiveRuns), PipelineShare),
         LET count == Cardinality(ActiveRuns)
             share == PipelineShare[s]
         IN  \/ share' <= share /\ count' + share' <= count + share
             \/ count' + share' <= PipelineLimit
  PROVE  WithinShares(PipelineLimit, Cardinality(ActiveRuns), PipelineShare)'
<1> DEFINE count == Cardinality(ActiveRuns)
           f == PipelineShare
           count2 == count'
           g == f'
<1>1. count \in Nat /\ count2 \in Nat
  BY CountsFinite, CountsFiniteNext
<1>2. PipelineLimit \in Nat /\ f \in [Schedulers -> 0..PipelineLimit]
  BY LimitsAssumption DEF WithinShares, LimitsAssumption
<1>3. \A q \in Schedulers : g[q] \in Nat
  BY SharesTypedNext
<1>4. \A q \in Schedulers \ {s} : g[q] = f[q]
  BY OthersSame DEF PipelineShare
<1>5. g = [q \in Schedulers |-> g[q]]
  BY DEF PipelineShare
<1>6. g[s] <= PipelineLimit
        /\ (count2 + g[s] <= count + f[s] \/ count2 + g[s] <= PipelineLimit)
  <2> HIDE DEF count, f
  <2>1. f[s] <= PipelineLimit /\ f[s] \in Nat /\ g[s] \in Nat
    BY <1>2, <1>3
  <2>2. (g[s] <= f[s] /\ count2 + g[s] <= count + f[s]) \/ count2 + g[s] <= PipelineLimit
    BY DEF count, f
  <2> QED BY <1>1, <1>2, <2>1, <2>2
<1>7. g \in [Schedulers -> 0..PipelineLimit]
  <2> HIDE DEF count, f
  <2>1. \A q \in Schedulers : g[q] \in 0..PipelineLimit
    BY <1>2, <1>3, <1>4, <1>6
  <2> QED BY <1>5, <2>1
<1>8. WithinShares(PipelineLimit, count2, g)
  <2> HIDE DEF f
  <2>1. WithinShares(PipelineLimit, count, f)
    BY DEF f
  <2> HIDE DEF count
  <2> QED BY <1>1, <1>2, <1>4, <1>6, <1>7, <2>1, ShareChanges
<1> QED BY <1>8 DEF WithinShares, Slots

\* Each scheduler keeps to its share of a trigger's limit: it takes it when it
\* counts, selects no more runs, and gives a part back with every start.
LEMMA TriggerSharesKept ==
  ASSUME TypeOK, PassInv, TypeOK', NEW s \in Schedulers, SchedulerStep(s) \/ Crash(s),
         NEW t \in Triggers,
         WithinShares(TriggerLimit[t], Cardinality(RunsOf(t, "running")), TriggerShare(t))
  PROVE  WithinShares(TriggerLimit[t], Cardinality(RunsOf(t, "running")), TriggerShare(t))'
<1> DEFINE count == Cardinality(RunsOf(t, "running"))
           share == TriggerShare(t)[s]
<1>t. /\ StepOfOne(s) /\ Kept /\ PassSound(s)
      /\ pass[s].toStart \subseteq RunIds /\ pass[s].initial \subseteq RunIds
      /\ pass[s].running \in Nat
  BY SchedulerStepOfOne, TypeForm DEF StepOfOne, PassInv, Known
<1>n. count \in Nat /\ count' \in Nat /\ share \in Nat /\ share' \in Nat
  BY CountsFinite, CountsFiniteNext, SharesTyped, SharesTypedNext
<1>m. \A a, b, c, d \in Nat : c <= a /\ d <= b => c + d <= a + b
  OBVIOUS
<1>1. ASSUME ~StartRun(s), share' <= share
      PROVE  WithinShares(TriggerLimit[t], Cardinality(RunsOf(t, "running")), TriggerShare(t))'
  <2>1. count' <= count
    BY <1>1, <1>t, OnlyStartsStart, CountsFall
  <2>2. share' <= share /\ count' + share' <= count + share
    BY <1>1, <1>m, <1>n, <2>1
  <2> QED BY <1>t, <2>2, TriggerShareOfOne
<1>2. ASSUME pass'[s].toStart = pass[s].toStart,
             (pass'[s].pc \in Counted /\ pass'[s].trigger = t)
               <=> (pass[s].pc \in Counted /\ pass[s].trigger = t),
             (pass[s].pc \in Counted /\ pass[s].trigger = t)
               => pass'[s].running = pass[s].running
      PROVE  share' = share
  <2>1. Selected(t, s)' = Selected(t, s)
    BY <1>2, <1>t DEF Selected, Kept
  <2> QED BY <1>2, <2>1 DEF TriggerShare
<1>3. ASSUME pass[s].pc \notin Counted, pass'[s].pc \notin Counted,
             pass'[s].toStart \subseteq pass[s].toStart
      PROVE  share' <= share
  <2>1. Selected(t, s)' \subseteq Selected(t, s)
    BY <1>3, <1>t DEF Selected, Kept
  <2>2. Cardinality(Selected(t, s)') <= Cardinality(Selected(t, s))
    BY <2>1, SharesTyped, FS_Subset
  <2> QED BY <1>3, <2>2 DEF TriggerShare
<1>4. ASSUME pass'[s].pc \notin Counted, pass'[s].toStart = {} PROVE share' <= share
  <2>1. Selected(t, s)' = {}
    BY <1>4 DEF Selected
  <2>2. share' = Cardinality(Selected(t, s)')
    BY <1>4 DEF TriggerShare
  <2>3. share' = 0
    BY <2>1, <2>2, FS_EmptySet
  <2> HIDE DEF share
  <2> QED BY <1>n, <2>3
<1>5. CASE BeginPass(s)
  <2>1. ~StartRun(s)
    BY <1>5 DEF BeginPass, StartRun
  <2> QED BY <1>1, <1>4, <1>5, <2>1, AfterOutside DEF Counted, Creating
<1>6. CASE LockTrigger(s) \/ SkipLockedTrigger(s) \/ ReleaseAgain(s)
  <2>1. ~StartRun(s)
    BY <1>6 DEF LockTrigger, SkipLockedTrigger, ReleaseAgain, StartRun
  <2>2. pass[s].pc \notin Counted /\ pass'[s].pc \notin Counted
          /\ pass'[s].toStart = pass[s].toStart
    BY <1>6, AfterOutside DEF Counted, Creating
  <2> QED BY <1>1, <1>3, <2>1, <2>2
<1>7. CASE Decide(s)
  <2>1. ~StartRun(s)
    BY <1>7 DEF Decide, StartRun
  <2>2. pass[s].pc \notin Counted /\ pass'[s].pc \notin Counted
          /\ pass'[s].toStart = pass[s].toStart
    BY <1>7, AfterAtTrigger DEF Counted, Creating, SameTrigger
  <2> QED BY <1>1, <1>3, <2>1, <2>2
<1>8. CASE CountRunning(s)
  <2>1. ~StartRun(s) /\ runs' = runs
    BY <1>8 DEF CountRunning, StartRun
  <2>2. /\ pass[s].pc = "count" /\ pass'[s].pc \in Counted
        /\ pass'[s].trigger = pass[s].trigger /\ pass'[s].toStart = pass[s].toStart
        /\ pass'[s].running = Cardinality(RunsOf(pass[s].trigger, "running"))
    BY <1>8, AfterAtTrigger DEF Counted, Creating, SameTrigger
  <2>3. CASE pass[s].trigger # t
    BY <1>1, <1>2, <1>n, <2>1, <2>2, <2>3 DEF Counted, Creating
  <2>4. CASE pass[s].trigger = t
    <3>1. count' = count
      BY <2>1 DEF RunsOf, RunIds
    <3>2. share' = Left(TriggerLimit[t], count)
      BY <2>2, <2>4 DEF TriggerShare
    <3> HIDE DEF count, share
    <3>3. count + Left(TriggerLimit[t], count) <= TriggerLimit[t]
            \/ Left(TriggerLimit[t], count) = 0
      BY <1>n, SharesTyped
    <3>4. \/ count' + share' <= TriggerLimit[t]
          \/ share' <= share /\ count' + share' <= count + share
      BY <1>n, <3>1, <3>2, <3>3
    <3> QED BY <1>t, <3>4, TriggerShareOfOne DEF count, share
  <2> QED BY <2>3, <2>4
<1>9. CASE LookForDuplicate(s) \/ InsertRun(s) \/ InsertSkipped(s) \/ CancelSkipped(s)
  <2>1. ~StartRun(s)
    BY <1>9 DEF LookForDuplicate, InsertRun, InsertSkipped, CancelSkipped, StartRun
  <2>2. /\ pass[s].pc \in Counted /\ pass'[s].pc \in Counted
        /\ pass'[s].trigger = pass[s].trigger /\ pass'[s].toStart = pass[s].toStart
        /\ pass'[s].running = pass[s].running
    BY <1>9, AfterAtTrigger DEF Counted, Creating, SameTrigger
  <2>3. share' = share
    BY <1>2, <2>2
  <2> QED BY <1>1, <1>n, <2>1, <2>3
<1>10. CASE Select(s)
  <2>1. ~StartRun(s)
    BY <1>10 DEF Select, StartRun
  <2>2. PICK started \in SUBSET pass[s].initial :
          /\ pass'[s].toStart = pass[s].toStart \cup started
          /\ Cardinality(started) <= Left(TriggerLimit[pass[s].trigger], pass[s].running)
    BY <1>10, AfterSelect
  <2>3. pass[s].pc = "select" /\ pass'[s].pc = "triggers"
    BY <1>10, AfterSelect
  <2>4. \A r \in started : r \in RunIds /\ runs'[r].trigger = pass[s].trigger
    BY <1>t, <2>2 DEF PassSound, Kept
  <2>5. share' = Cardinality(Selected(t, s)')
    BY <2>3 DEF TriggerShare, Counted, Creating
  <2>6. CASE pass[s].trigger = t
    <3>1. \A r \in pass[s].toStart : r \in RunIds /\ runs'[r].trigger # t
      BY <1>t, <2>3, <2>6 DEF PassSound, Kept, Handling
    <3>2. Selected(t, s)' = started
      BY <2>2, <2>4, <2>6, <3>1 DEF Selected
    <3>3. share = Left(TriggerLimit[t], pass[s].running)
      BY <2>3, <2>6 DEF TriggerShare, Counted
    <3>4. share' <= share
      <4> HIDE DEF share
      <4> QED BY <2>2, <2>5, <2>6, <3>2, <3>3
    <3> QED BY <1>1, <2>1, <3>4
  <2>7. CASE pass[s].trigger # t
    <3>1. Selected(t, s)' = Selected(t, s)
      BY <1>t, <2>2, <2>4, <2>7 DEF Selected, Kept
    <3>2. share = Cardinality(Selected(t, s))
      BY <2>7 DEF TriggerShare
    <3>3. share' <= share
      <4> HIDE DEF share
      <4> QED BY <1>n, <2>5, <3>1, <3>2
    <3> QED BY <1>1, <2>1, <3>3
  <2> QED BY <2>6, <2>7
<1>11. CASE ApplyPipelineLimit(s)
  <2>1. ~StartRun(s)
    BY <1>11 DEF ApplyPipelineLimit, StartRun
  <2>2. /\ pass[s].pc \notin Counted /\ pass'[s].pc \notin Counted
        /\ pass'[s].toStart \subseteq pass[s].toStart
    BY <1>11, AfterOutside DEF Counted, Creating, Earliest
  <2> QED BY <1>1, <1>3, <2>1, <2>2
<1>12. CASE StartRun(s)
  <2>1. PICK r \in pass[s].toStart : /\ pass'[s].toStart = pass[s].toStart \ {r}
                                     /\ Become(r, "running") \/ Become(r, "ended")
    BY <1>12, AfterStart
  <2>2. pass[s].pc = "start" /\ pass'[s].pc = "start"
    BY <1>12, AfterStart
  <2>3. r \in RunIds
    BY <1>t
  <2>4. share' <= share
    BY <1>3, <2>1, <2>2 DEF Counted, Creating
  <2>5. CASE Become(r, "ended")
    <3>1. NoneStarts
      BY <2>3, <2>5, TypeForm, BecomeEffect DEF NoneStarts, RunStatus
    <3>2. count' <= count
      BY <1>t, <3>1, CountsFall
    <3>3. count' + share' <= count + share
      BY <1>m, <1>n, <2>4, <3>2
    <3> QED BY <1>t, <2>4, <3>3, TriggerShareOfOne
  <2>6. CASE Become(r, "running") /\ runs[r].trigger # t
    <3>1. count' <= count
      BY <2>3, <2>6, CountsRise
    <3>2. count' + share' <= count + share
      BY <1>m, <1>n, <2>4, <3>1
    <3> QED BY <1>t, <2>4, <3>2, TriggerShareOfOne
  <2>7. CASE Become(r, "running") /\ runs[r].trigger = t
    <3>1. count' <= count + 1
      BY <2>3, <2>7, CountsRise
    <3>2. r \in Selected(t, s) /\ Selected(t, s)' = Selected(t, s) \ {r}
      BY <1>t, <2>1, <2>7 DEF Selected, Kept
    <3>3. Cardinality(Selected(t, s)') = Cardinality(Selected(t, s)) - 1
      <4>1. IsFiniteSet(Selected(t, s))
        BY SharesTyped
      <4> QED BY <3>2, <4>1, FS_RemoveElement
    <3>4. share = Cardinality(Selected(t, s)) /\ share' = Cardinality(Selected(t, s)')
      BY <2>2 DEF TriggerShare, Counted, Creating
    <3>5. count' + share' <= count + share
      <4> HIDE DEF count, share
      <4> QED BY <1>n, <3>1, <3>3, <3>4
    <3> QED BY <1>t, <2>4, <3>5, TriggerShareOfOne
  <2> QED BY <2>1, <2>5, <2>6, <2>7
<1>13. CASE CancelExcluded(s)
  <2>1. ~StartRun(s)
    BY <1>13 DEF CancelExcluded, StartRun, Earliest
  <2>2. /\ pass[s].pc \notin Counted /\ pass'[s].pc \notin Counted
        /\ pass'[s].toStart = pass[s].toStart
    BY <1>13, AfterOutside DEF Counted, Creating
  <2> QED BY <1>1, <1>3, <2>1, <2>2
<1>14. CASE EndPass(s) \/ Crash(s)
  <2>1. pass'[s].pc \notin Counted /\ pass'[s].toStart = {}
    BY <1>14, AfterOutside DEF Counted, Creating, IdlePass
  <2>2. NoneStarts
    <3>1. runs' = runs
      BY <1>14 DEF EndPass, Crash
    <3> QED BY <3>1 DEF NoneStarts, RunIds
  <2>3. count' <= count
    BY <1>t, <2>2, CountsFall
  <2>4. share' <= share
    BY <1>4, <2>1
  <2>5. count' + share' <= count + share
    BY <1>m, <1>n, <2>3, <2>4
  <2> QED BY <1>t, <2>4, <2>5, TriggerShareOfOne
<1> QED BY <1>5, <1>6, <1>7, <1>8, <1>9, <1>10, <1>11, <1>12, <1>13, <1>14 DEF SchedulerStep

\* And to its share of the pipeline's, which it takes when its pass begins.
LEMMA PipelineSharesKept ==
  ASSUME TypeOK, PassInv, TypeOK', NEW s \in Schedulers, SchedulerStep(s) \/ Crash(s),
         WithinShares(PipelineLimit, Cardinality(ActiveRuns), PipelineShare)
  PROVE  WithinShares(PipelineLimit, Cardinality(ActiveRuns), PipelineShare)'
<1> DEFINE count == Cardinality(ActiveRuns)
           share == PipelineShare[s]
           Goal == WithinShares(PipelineLimit, Cardinality(ActiveRuns), PipelineShare)'
<1>t. /\ StepOfOne(s) /\ Kept /\ runs \in Seq(Row)
      /\ pass[s].toStart \subseteq RunIds /\ IsFiniteSet(pass[s].toStart)
      /\ pass[s].active \in Nat /\ PipelineLimit \in Nat
  <2>1. /\ pass[s].toStart \subseteq RunIds /\ pass[s].active \in Nat
        /\ runs \in Seq(Row) /\ Len(runs) \in Nat
    BY TypeForm, RowOfTable DEF Known
  <2> QED
    BY <2>1, SchedulerStepOfOne, RunIdsFinite, LimitsAssumption
    DEF StepOfOne, LimitsAssumption
<1>n. count \in Nat /\ count' \in Nat /\ share \in Nat /\ share' \in Nat
  <2>1. count \in Nat /\ count' \in Nat
    BY CountsFinite, CountsFiniteNext
  <2>2. share' \in Nat
    BY SharesTypedNext
  <2>3. share \in Nat
    BY DEF WithinShares
  <2> QED BY <2>1, <2>2, <2>3
<1>m. \A a, b, c, d \in Nat : c <= a /\ d <= b => c + d <= a + b
  OBVIOUS
<1>1. ASSUME NoneStarts, share' <= share PROVE Goal
  <2>1. count' <= count
    BY <1>1, <1>t, CountsFall
  <2>2. share' <= share /\ count' + share' <= count + share
    BY <1>1, <1>m, <1>n, <2>1
  <2> QED BY <1>t, <2>2, PipelineShareOfOne
<1>2. ASSUME ~StartRun(s) PROVE NoneStarts
  BY <1>2, OnlyStartsStart
<1>3. ASSUME pass[s].pc \notin {"idle", "start"}, pass'[s].pc \notin {"idle", "start"},
             pass'[s].active = pass[s].active
      PROVE  share' <= share
  <2>1. share' = share
    BY <1>3 DEF PipelineShare
  <2> QED BY <1>n, <2>1
<1>4. CASE BeginPass(s)
  <2>1. pass[s].pc = "idle" /\ pass'[s].pc = "triggers" /\ pass'[s].active = count
          /\ runs' = runs
    BY <1>4, AfterOutside DEF BeginPass
  <2>2. count' = count /\ share = 0 /\ share' = Left(PipelineLimit, count)
    BY <2>1 DEF ActiveRuns, RunIds, PipelineShare
  <2>3. count + Left(PipelineLimit, count) <= PipelineLimit \/ Left(PipelineLimit, count) = 0
    BY <1>t, <1>n DEF Left
  <2>4. CASE count + Left(PipelineLimit, count) <= PipelineLimit
    <3>1. count' + share' <= PipelineLimit
      BY <2>2, <2>4
    <3> QED BY <1>t, <3>1, PipelineShareOfOne
  <2>5. CASE Left(PipelineLimit, count) = 0
    <3>1. ~StartRun(s) /\ share' <= share
      BY <2>1, <2>2, <2>5 DEF StartRun
    <3> QED BY <1>1, <1>2, <3>1
  <2> QED BY <2>3, <2>4, <2>5
<1>5. CASE LockTrigger(s) \/ SkipLockedTrigger(s) \/ ReleaseAgain(s)
  <2>1. /\ pass[s].pc \notin {"idle", "start"} /\ pass'[s].pc \notin {"idle", "start"}
        /\ pass'[s].active = pass[s].active
    BY <1>5, AfterOutside
  <2> QED BY <1>1, <1>2, <1>3, <2>1 DEF StartRun
<1>6. CASE \/ Decide(s) \/ CountRunning(s) \/ LookForDuplicate(s)
           \/ InsertRun(s) \/ InsertSkipped(s) \/ CancelSkipped(s)
  <2>1. /\ pass[s].pc \notin {"idle", "start"} /\ pass'[s].pc \notin {"idle", "start"}
        /\ pass'[s].active = pass[s].active
    BY <1>6, AfterAtTrigger DEF SameTrigger
  <2> QED BY <1>1, <1>2, <1>3, <2>1 DEF StartRun
<1>7. CASE Select(s)
  <2>1. /\ pass[s].pc \notin {"idle", "start"} /\ pass'[s].pc \notin {"idle", "start"}
        /\ pass'[s].active = pass[s].active
    BY <1>7, AfterSelect
  <2> QED BY <1>1, <1>2, <1>3, <2>1 DEF StartRun
<1>8. CASE ApplyPipelineLimit(s)
  <2> DEFINE n == PipelineLimit - pass[s].active
  <2>1. /\ pass[s].pc = "triggers" /\ pass'[s].pc = "start"
        /\ pass'[s].toStart = IF pass[s].active < PipelineLimit
                                THEN Earliest(pass[s].toStart, n) ELSE {}
    BY <1>8, AfterOutside
  <2>2. share = Left(PipelineLimit, pass[s].active) /\ share' = Cardinality(pass'[s].toStart)
    BY <2>1 DEF PipelineShare
  <2>3. CASE pass[s].active < PipelineLimit
    <3>1. n \in Nat /\ Left(PipelineLimit, pass[s].active) = n
      BY <1>t, <2>3 DEF Left
    <3> HIDE DEF n
    <3>2. Cardinality(Earliest(pass[s].toStart, n)) <= n
      BY <1>t, <3>1, EarliestBound
    <3>3. share' <= share
      BY <2>1, <2>2, <2>3, <3>1, <3>2
    <3> QED BY <1>1, <1>2, <2>1, <3>3 DEF StartRun
  <2>4. CASE ~(pass[s].active < PipelineLimit)
    <3>1. pass'[s].toStart = {}
      BY <2>1, <2>4
    <3>2. share' = 0
      BY <2>2, <3>1, FS_EmptySet
    <3>3. share' <= share
      BY <1>n, <3>2
    <3> QED BY <1>1, <1>2, <2>1, <3>3 DEF StartRun
  <2> QED BY <2>3, <2>4
<1>9. CASE StartRun(s)
  <2>1. PICK r \in pass[s].toStart : /\ pass'[s].toStart = pass[s].toStart \ {r}
                                     /\ Become(r, "running") \/ Become(r, "ended")
    BY <1>9, AfterStart
  <2>2. pass[s].pc = "start" /\ pass'[s].pc = "start" /\ r \in RunIds
    BY <1>9, <1>t, AfterStart
  <2>3. /\ share = Cardinality(pass[s].toStart)
        /\ share' = Cardinality(pass'[s].toStart)
    BY <2>2 DEF PipelineShare
  <2>4. Cardinality(pass'[s].toStart) = Cardinality(pass[s].toStart) - 1
    BY <1>t, <2>1, FS_RemoveElement
  <2>5. share' = share - 1
    BY <2>3, <2>4
  <2>6. share' <= share
    BY <1>n, <2>5
  <2>7. CASE Become(r, "ended")
    <3>1. NoneStarts
      BY <1>t, <2>2, <2>7, BecomeEffect DEF NoneStarts, RunStatus
    <3> QED BY <1>1, <2>6, <3>1
  <2>8. CASE Become(r, "running")
    <3>1. count' <= count + 1
      <4>1. PICK t \in Triggers : TRUE
        BY <2>2, <1>t, RowOfTable
      <4> QED BY <2>2, <2>8, <4>1, CountsRise
    <3>2. \A a, b, c, d \in Nat : c <= a + 1 /\ d = b - 1 => c + d <= a + b
      OBVIOUS
    <3>3. count' + share' <= count + share
      BY <1>n, <2>5, <3>1, <3>2
    <3> QED BY <1>t, <2>6, <3>3, PipelineShareOfOne
  <2> QED BY <2>1, <2>7, <2>8
<1>10. CASE CancelExcluded(s)
  <2>1. /\ pass[s].pc = "start" /\ pass'[s].pc = "start"
        /\ pass'[s].toStart = pass[s].toStart
    BY <1>10, AfterOutside
  <2>2. share' = share
    BY <2>1 DEF PipelineShare
  <2>3. share' <= share
    BY <1>n, <2>2
  <2>4. ~StartRun(s)
    BY <1>10 DEF CancelExcluded, StartRun, Earliest
  <2> QED BY <1>1, <1>2, <2>3, <2>4
<1>11. CASE EndPass(s) \/ Crash(s)
  <2>1. pass'[s].pc = "idle"
    BY <1>11, AfterOutside DEF IdlePass
  <2>2. share' = 0
    BY <2>1 DEF PipelineShare
  <2>3. NoneStarts
    <3>1. runs' = runs
      BY <1>11 DEF EndPass, Crash
    <3> QED BY <3>1 DEF NoneStarts, RunIds
  <2>4. share' <= share
    BY <1>n, <2>2
  <2> QED BY <1>1, <2>3, <2>4
<1> QED BY <1>4, <1>5, <1>6, <1>7, <1>8, <1>9, <1>10, <1>11 DEF SchedulerStep

\* What happens beside the schedulers leaves them their shares.
LEMMA SharesBeside ==
  ASSUME TypeOK, PassInv, SharesInv, TypeOK', EnvironmentStep
  PROVE  SharesInv'
<1>1. NoneStarts /\ Kept /\ pass' = pass
  BY OnlyStartsStart, EnvironmentKeeps
<1>2. ASSUME NEW t \in Triggers
      PROVE  WithinShares(TriggerLimit[t], Cardinality(RunsOf(t, "running")), TriggerShare(t))'
  <2>1. TriggerShare(t)' = TriggerShare(t)
    <3>1. \A s \in Schedulers : Selected(t, s)' = Selected(t, s)
      <4>1. \A s \in Schedulers : pass[s].toStart \subseteq RunIds
        BY TypeForm DEF Known
      <4> QED BY <1>1, <4>1 DEF Selected, Kept
    <3> QED BY <1>1, <3>1 DEF TriggerShare
  <2> DEFINE count == Cardinality(RunsOf(t, "running"))
  <2>2. count \in Nat /\ count' \in Nat /\ count' <= count /\ TriggerLimit[t] \in Nat
    BY <1>1, CountsFinite, CountsFiniteNext, CountsFall, LimitsAssumption DEF LimitsAssumption
  <2>3. WithinShares(TriggerLimit[t], count, TriggerShare(t))
    BY DEF SharesInv
  <2>4. WithinShares(TriggerLimit[t], count', TriggerShare(t))
    <3> HIDE DEF count
    <3> QED BY <2>2, <2>3, CountFalls
  <2> QED BY <2>1, <2>4 DEF WithinShares, Slots
<1>3. WithinShares(PipelineLimit, Cardinality(ActiveRuns), PipelineShare)'
  <2>1. PipelineShare' = PipelineShare
    BY <1>1 DEF PipelineShare
  <2> DEFINE count == Cardinality(ActiveRuns)
  <2>2. count \in Nat /\ count' \in Nat /\ count' <= count /\ PipelineLimit \in Nat
    BY <1>1, CountsFinite, CountsFiniteNext, CountsFall, LimitsAssumption DEF LimitsAssumption
  <2>3. WithinShares(PipelineLimit, count, PipelineShare)
    BY DEF SharesInv
  <2>4. WithinShares(PipelineLimit, count', PipelineShare)
    <3> HIDE DEF count
    <3> QED BY <2>2, <2>3, CountFalls
  <2> QED BY <2>1, <2>4 DEF WithinShares, Slots
<1> QED BY <1>2, <1>3 DEF SharesInv

\* At first no run runs, and no scheduler has a share.
LEMMA InitShares ==
  ASSUME Init PROVE SharesInv
<1>1. \A s \in Schedulers : pass[s] = IdlePass
  BY DEF Init
<1>2. RunIds = {}
  BY DEF Init, RunIds
<1>3. ASSUME NEW limit \in Nat, NEW share,
             share \in [Schedulers -> 0..limit], \A s \in Schedulers : share[s] = 0
      PROVE  WithinShares(limit, 0, share)
  <2>1. Slots(limit, share) = {}
    BY <1>3 DEF Slots
  <2>2. Cardinality(Slots(limit, share)) = 0
    BY <2>1, FS_EmptySet
  <2>3. limit * Cardinality(Schedulers) \in Nat
    BY SchedulersFinite
  <2> QED BY <1>3, <2>2, <2>3 DEF WithinShares
<1>4. ASSUME NEW t \in Triggers
      PROVE  WithinShares(TriggerLimit[t], Cardinality(RunsOf(t, "running")), TriggerShare(t))
  <2>1. Cardinality(RunsOf(t, "running")) = 0
    <3>1. RunsOf(t, "running") = {}
      BY <1>2 DEF RunsOf
    <3> QED BY <3>1, FS_EmptySet
  <2>2. \A s \in Schedulers : TriggerShare(t)[s] = 0
    <3>1. \A s \in Schedulers : Selected(t, s) = {}
      BY <1>1 DEF Selected, IdlePass
    <3>2. \A s \in Schedulers : Cardinality(Selected(t, s)) = 0
      BY <3>1, FS_EmptySet
    <3> QED BY <1>1, <3>2 DEF TriggerShare, Counted, Creating, IdlePass
  <2>3. TriggerLimit[t] \in Nat
    BY LimitsAssumption DEF LimitsAssumption
  <2>4. TriggerShare(t) \in [Schedulers -> 0..TriggerLimit[t]]
    <3>1. TriggerShare(t) = [s \in Schedulers |-> TriggerShare(t)[s]]
      BY DEF TriggerShare
    <3> QED BY <2>2, <2>3, <3>1
  <2> QED BY <1>3, <2>1, <2>2, <2>3, <2>4
<1>5. WithinShares(PipelineLimit, Cardinality(ActiveRuns), PipelineShare)
  <2>1. Cardinality(ActiveRuns) = 0
    <3>1. ActiveRuns = {}
      BY <1>2 DEF ActiveRuns
    <3> QED BY <3>1, FS_EmptySet
  <2>2. \A s \in Schedulers : PipelineShare[s] = 0
    BY <1>1 DEF PipelineShare, IdlePass
  <2>3. PipelineLimit \in Nat
    BY LimitsAssumption DEF LimitsAssumption
  <2>4. PipelineShare \in [Schedulers -> 0..PipelineLimit]
    <3>1. PipelineShare = [s \in Schedulers |-> PipelineShare[s]]
      BY DEF PipelineShare
    <3> QED BY <2>2, <2>3, <3>1
  <2> QED BY <1>3, <2>1, <2>2, <2>3, <2>4
<1> QED BY <1>4, <1>5 DEF SharesInv

LimitsInv == TypeOK /\ PassInv /\ SharesInv

\* The shares are kept by every step.
LEMMA LimitsStep == LimitsInv /\ [Next]_vars => LimitsInv'
<1> SUFFICES ASSUME TypeOK, PassInv, SharesInv, [Next]_vars PROVE LimitsInv'
  BY DEF LimitsInv
<1>1. TypeOK' /\ PassInv'
  BY TypeStep, TypeStutter
<1>2. ASSUME NEW s \in Schedulers, SchedulerStep(s) \/ Crash(s) PROVE SharesInv'
  BY <1>1, <1>2, TriggerSharesKept, PipelineSharesKept DEF SharesInv
<1>3. ASSUME UNCHANGED vars PROVE SharesInv'
  <2>1. pass' = pass /\ runs' = runs
    BY <1>3 DEF vars
  <2>2. ActiveRuns' = ActiveRuns /\ PipelineShare' = PipelineShare
    BY <2>1 DEF ActiveRuns, RunIds, PipelineShare
  <2>3. ASSUME NEW t \in Triggers
        PROVE  RunsOf(t, "running")' = RunsOf(t, "running") /\ TriggerShare(t)' = TriggerShare(t)
    BY <2>1 DEF RunsOf, RunIds, TriggerShare, Selected
  <2>4. ASSUME NEW t \in Triggers
        PROVE  WithinShares(TriggerLimit[t], Cardinality(RunsOf(t, "running")), TriggerShare(t))'
    <3>1. WithinShares(TriggerLimit[t], Cardinality(RunsOf(t, "running")), TriggerShare(t))
      BY DEF SharesInv
    <3>2. RunsOf(t, "running")' = RunsOf(t, "running") /\ TriggerShare(t)' = TriggerShare(t)
      BY <2>3
    <3> QED BY <3>1, <3>2 DEF WithinShares, Slots
  <2>5. WithinShares(PipelineLimit, Cardinality(ActiveRuns), PipelineShare)'
    <3>1. WithinShares(PipelineLimit, Cardinality(ActiveRuns), PipelineShare)
      BY DEF SharesInv
    <3> QED BY <2>2, <3>1 DEF WithinShares, Slots
  <2> QED BY <2>4, <2>5 DEF SharesInv
<1>4. SharesInv'
  <2>1. CASE EnvironmentStep
    BY <1>1, <2>1, SharesBeside
  <2>2. Next \/ UNCHANGED vars
    OBVIOUS
  <2>3. CASE Next
    <3>1. (\E s \in Schedulers : SchedulerStep(s) \/ Crash(s)) \/ EnvironmentStep
      BY <2>3, NextCases
    <3> QED BY <1>2, <2>1, <3>1
  <2> QED BY <1>3, <2>2, <2>3
<1> QED BY <1>1, <1>4 DEF LimitsInv

\* A count within its shares is within the limit of every scheduler.
LEMMA SharesWithin ==
  ASSUME NEW limit \in Nat, NEW count \in Nat, NEW f, WithinShares(limit, count, f)
  PROVE  count <= limit * Cardinality(Schedulers)
<1>1. IsFiniteSet(Slots(limit, f))
  <2>1. IsFiniteSet(Schedulers) /\ IsFiniteSet(1..limit)
    BY SchedulersFinite, FS_Interval
  <2>2. IsFiniteSet(Schedulers \X (1..limit))
    BY <2>1, FS_Product
  <2> QED BY <2>2, FS_Subset DEF Slots
<1>2. Cardinality(Slots(limit, f)) \in Nat /\ limit * Cardinality(Schedulers) \in Nat
  BY <1>1, FS_CardinalityType, SchedulersFinite
<1> QED BY <1>2 DEF WithinShares

\* A trigger never has more running runs than its limit allows each scheduler.
THEOREM TriggerLimitKept == Spec => []WithinTriggerLimit
<1>1. Init => LimitsInv
  BY InitTypes, InitShares DEF LimitsInv
<1>2. LimitsInv => WithinTriggerLimit
  <2> SUFFICES ASSUME LimitsInv, NEW t \in Triggers
               PROVE  Cardinality(RunsOf(t, "running"))
                        <= TriggerLimit[t] * Cardinality(Schedulers)
    BY DEF WithinTriggerLimit
  <2>1. WithinShares(TriggerLimit[t], Cardinality(RunsOf(t, "running")), TriggerShare(t))
    BY DEF LimitsInv, SharesInv
  <2>2. Cardinality(RunsOf(t, "running")) \in Nat /\ TriggerLimit[t] \in Nat
    BY CountsFinite, LimitsAssumption DEF LimitsInv, LimitsAssumption
  <2> QED BY <2>1, <2>2, SharesWithin
<1> QED BY <1>1, <1>2, LimitsStep, PTL DEF Spec

\* Nor has the pipeline, of all its triggers.
THEOREM PipelineLimitKept == Spec => []WithinPipelineLimit
<1>1. Init => LimitsInv
  BY InitTypes, InitShares DEF LimitsInv
<1>2. LimitsInv => WithinPipelineLimit
  <2> SUFFICES ASSUME LimitsInv
               PROVE  Cardinality(ActiveRuns) <= PipelineLimit * Cardinality(Schedulers)
    BY DEF WithinPipelineLimit
  <2>1. WithinShares(PipelineLimit, Cardinality(ActiveRuns), PipelineShare)
    BY DEF LimitsInv, SharesInv
  <2>2. Cardinality(ActiveRuns) \in Nat /\ PipelineLimit \in Nat
    BY CountsFinite, LimitsAssumption DEF LimitsInv, LimitsAssumption
  <2> QED BY <2>1, <2>2, SharesWithin
<1> QED BY <1>1, <1>2, LimitsStep, PTL DEF Spec

-----------------------------------------------------------------------------
(* One run of an interval for every scheduler.                             *)

\* Runs of an interval, and schedulers about to add one, can be counted.
LEMMA MadeFinite ==
  ASSUME TypeOK, NEW t, NEW i
  PROVE  /\ IsFiniteSet(Made(t, i)) /\ Cardinality(Made(t, i)) \in Nat
         /\ IsFiniteSet(About(t, i)) /\ Cardinality(About(t, i)) \in Nat
         /\ Cardinality(Schedulers) \in Nat
  BY TypeForm, RowOfTable, RunIdsFinite, SchedulersFinite DEF Made, About

\* When no run of the interval is added, and no scheduler is newly about to add
\* one, there are not more than before.
LEMMA NoneMade ==
  ASSUME TypeOK, NEW t, NEW i \in Int, OneEach(t, i), interval \in Int,
         Made(t, i)' \subseteq Made(t, i), About(t, i)' \subseteq About(t, i),
         interval' \in Int, interval <= interval'
  PROVE  OneEach(t, i)'
<1>1. /\ Cardinality(Made(t, i)') <= Cardinality(Made(t, i))
      /\ Cardinality(About(t, i)') <= Cardinality(About(t, i))
      /\ Cardinality(Made(t, i)') \in Nat /\ Cardinality(About(t, i)') \in Nat
  <2>1. /\ IsFiniteSet(Made(t, i)) /\ IsFiniteSet(About(t, i))
        /\ IsFiniteSet(Made(t, i)') /\ IsFiniteSet(About(t, i)')
    BY MadeFinite, FS_Subset
  <2> QED BY <2>1, FS_Subset, FS_CardinalityType
<1>2. Cardinality(Made(t, i))' + Cardinality(About(t, i))' <= Cardinality(Schedulers)
  <2>1. Cardinality(Made(t, i)) + Cardinality(About(t, i)) <= Cardinality(Schedulers)
    BY DEF OneEach
  <2> QED BY <1>1, <2>1, MadeFinite
<1>3. interval' < i => Made(t, i)' = {}
  BY DEF OneEach
<1> QED BY <1>2, <1>3 DEF OneEach

\* A scheduler that finds no run of the interval is about to add one: then there
\* is none yet, and the schedulers may add one each.
LEMMA NoneYet ==
  ASSUME TypeOK, NEW t, NEW i, Made(t, i)' = {}
  PROVE  OneEach(t, i)'
<1>1. Cardinality(Made(t, i)') = 0
  BY FS_EmptySet
<1>2. About(t, i)' \subseteq Schedulers
  BY DEF About
<1>3. Cardinality(About(t, i)') <= Cardinality(Schedulers) /\ Cardinality(About(t, i)') \in Nat
  BY <1>2, SchedulersFinite
<1>4. Cardinality(Schedulers) \in Nat
  BY MadeFinite
<1>5. Cardinality(Made(t, i))' + Cardinality(About(t, i))' <= Cardinality(Schedulers)
  BY <1>1, <1>3, <1>4
<1> QED BY <1>5 DEF OneEach

\* The scheduler that adds it is no longer about to.
LEMMA OneMade ==
  ASSUME TypeOK, NEW t, NEW i, OneEach(t, i), NEW s \in About(t, i), NEW r, r \notin Made(t, i),
         Made(t, i)' = Made(t, i) \cup {r}, About(t, i)' \subseteq About(t, i) \ {s},
         ~(interval' < i)
  PROVE  OneEach(t, i)'
<1>1. IsFiniteSet(Made(t, i)) /\ IsFiniteSet(About(t, i))
  BY MadeFinite
<1>2. Cardinality(Made(t, i)') = Cardinality(Made(t, i)) + 1
  BY <1>1, FS_AddElement
<1>3. /\ IsFiniteSet(About(t, i) \ {s})
      /\ Cardinality(About(t, i) \ {s}) = Cardinality(About(t, i)) - 1
  BY <1>1, FS_RemoveElement
<1>4. /\ Cardinality(About(t, i)') <= Cardinality(About(t, i) \ {s})
      /\ IsFiniteSet(About(t, i)')
  BY <1>3, FS_Subset
<1>5. Cardinality(About(t, i)') \in Nat
  BY <1>4, FS_CardinalityType
<1>6. Cardinality(Made(t, i)) + Cardinality(About(t, i)) <= Cardinality(Schedulers)
  BY DEF OneEach
<1>7. Cardinality(Made(t, i))' + Cardinality(About(t, i))' <= Cardinality(Schedulers)
  BY <1>2, <1>3, <1>4, <1>5, <1>6, MadeFinite
<1> QED BY <1>7 DEF OneEach

\* Updates and passes leave the dates of the runs.
LEMMA MadeSame ==
  ASSUME Kept, RunIds' = RunIds, NEW t, NEW i
  PROVE  Made(t, i)' = Made(t, i)
  BY DEF Kept, Made, DateOf

\* Only insertions add a row, and only the start of a selected run revives one.
LEMMA NoInsertion ==
  ASSUME TypeOK, PassInv, NEW s \in Schedulers, SchedulerStep(s) \/ Crash(s),
         ~InsertRun(s), ~InsertSkipped(s)
  PROVE  /\ RunIds' = RunIds
         /\ \A r \in RunIds : \/ runs'[r].status \in {runs[r].status, "ended"}
                              \/ r \in pass[s].toStart
<1> DEFINE Goal == /\ RunIds' = RunIds
                   /\ \A r \in RunIds : \/ runs'[r].status \in {runs[r].status, "ended"}
                                        \/ r \in pass[s].toStart
<1>t. runs \in Seq(Row) /\ pass \in [Schedulers -> Known(RunIds)] /\ pass[s] \in Known(RunIds)
  BY TypeForm
<1>1. ASSUME NEW r \in RunIds, Become(r, "ended") PROVE Goal
  BY <1>t, <1>1, BecomeEffect DEF RunStatus
<1>2. CASE CancelSkipped(s)
  BY <1>1, <1>2 DEF CancelSkipped, PassInv, PassSound
<1>3. CASE CancelExcluded(s)
  <2>1. PICK r \in pass[s].excluded : Become(r, "ended")
    BY <1>3 DEF CancelExcluded
  <2>2. r \in RunIds
    BY <1>t DEF Known
  <2> QED BY <1>1, <2>1, <2>2
<1>4. CASE StartRun(s)
  <2>1. PICK r \in pass[s].toStart : Become(r, "running") \/ Become(r, "ended")
    BY <1>4, AfterStart
  <2>2. r \in RunIds
    BY <1>t DEF Known
  <2> QED BY <1>t, <2>1, <2>2, BecomeEffect DEF RunStatus
<1>5. CASE ~(CancelSkipped(s) \/ CancelExcluded(s) \/ StartRun(s))
  <2>1. runs' = runs
    BY <1>5 DEF SchedulerStep, Crash, BeginPass, LockTrigger, SkipLockedTrigger, Decide,
                ReleaseAgain, CountRunning, LookForDuplicate, Select, ApplyPipelineLimit, EndPass
  <2> QED BY <2>1 DEF RunIds
<1> QED BY <1>2, <1>3, <1>4, <1>5

\* A step of a scheduler leaves the others about to do what they were about to do.
LEMMA AboutOthers ==
  ASSUME TypeOK, NEW s \in Schedulers, StepOfOne(s), NEW t, NEW i
  PROVE  /\ About(t, i)' \subseteq About(t, i) \cup {s}
         /\ ~AboutTo(s, t, i)' => About(t, i)' \subseteq About(t, i) \ {s}
<1>1. \A q \in Schedulers \ {s} : pass'[q] = pass[q]
  BY OthersSame
<1>2. interval' = interval
  BY DEF StepOfOne
<1> QED BY <1>1, <1>2 DEF About, AboutTo, DateOf

\* Every step of a scheduler keeps the runs of an interval to one each.
LEMMA OneEachOfOne ==
  ASSUME TypeOK, PassInv, NEW s \in Schedulers, SchedulerStep(s) \/ Crash(s),
         NEW t \in TimeTriggers, NEW i \in 1..MaxInterval, OneEach(t, i)
  PROVE  OneEach(t, i)'
<1>t. /\ StepOfOne(s) /\ Kept /\ interval' = interval /\ interval \in Int /\ i \in Int
      /\ runs \in Seq(Row) /\ PassSound(s) /\ interval <= interval'
  <2>1. StepOfOne(s) /\ PassSound(s)
    BY SchedulerStepOfOne DEF PassInv
  <2>2. interval \in Int /\ i \in Int /\ runs \in Seq(Row)
    BY TypeForm
  <2> QED BY <2>1, <2>2 DEF StepOfOne
<1>1. ASSUME RunIds' = RunIds, AboutTo(s, t, i)' => AboutTo(s, t, i) PROVE OneEach(t, i)'
  <2>1. Made(t, i)' \subseteq Made(t, i)
    BY <1>1, <1>t, MadeSame
  <2>2. About(t, i)' \subseteq About(t, i)
    <3>1. CASE AboutTo(s, t, i)'
      <4>1. s \in About(t, i)
        BY <1>1, <3>1 DEF About
      <4> QED BY <1>t, <4>1, AboutOthers
    <3>2. CASE ~AboutTo(s, t, i)'
      BY <1>t, <3>2, AboutOthers
    <3> QED BY <3>1, <3>2
  <2> QED BY <1>t, <2>1, <2>2, NoneMade
<1>2. ASSUME pass'[s].pc \notin {"count"} \cup Creating PROVE ~AboutTo(s, t, i)'
  BY <1>2 DEF AboutTo, Creating
<1>3. CASE \/ BeginPass(s) \/ LockTrigger(s) \/ SkipLockedTrigger(s) \/ ReleaseAgain(s)
           \/ ApplyPipelineLimit(s) \/ CancelExcluded(s) \/ EndPass(s) \/ Crash(s)
  <2>1. pass'[s].pc \in {"triggers", "decide", "start", "idle"}
    BY <1>3, AfterOutside DEF IdlePass
  <2>2. pass'[s].pc \notin {"count"} \cup Creating
    BY <2>1 DEF Creating
  <2>3. ~InsertRun(s) /\ ~InsertSkipped(s)
    BY <2>1, AfterAtTrigger
  <2> QED BY <1>1, <1>2, <2>2, <2>3, NoInsertion
<1>4. CASE CancelSkipped(s) \/ Select(s) \/ StartRun(s)
  <2>1. pass'[s].pc \notin {"count"} \cup Creating
    BY <1>4, AfterAtTrigger, AfterSelect, AfterStart DEF Creating
  <2>2. ~InsertRun(s) /\ ~InsertSkipped(s)
    BY <1>4 DEF InsertRun, InsertSkipped, CancelSkipped, Select, StartRun
  <2> QED BY <1>1, <1>2, <2>1, <2>2, NoInsertion
<1>5. CASE Decide(s)
  <2>1. runs' = runs
    BY <1>5 DEF Decide
  <2>2. CASE pass'[s].pc = "release"
    <3>1. ~AboutTo(s, t, i)'
      BY <1>2, <2>2 DEF Creating
    <3> QED BY <1>1, <2>1, <3>1 DEF RunIds
  <2>3. CASE pass'[s].pc = "count" /\ pass'[s].due = ShouldSchedule(pass[s].trigger)
    <3>1. CASE AboutTo(s, t, i)'
      <4>1. /\ pass'[s].trigger = t /\ pass'[s].due /\ interval <= i
        BY <2>3, <3>1, <1>t DEF AboutTo, Creating
      <4>2. pass[s].trigger = t
        BY <1>5, <4>1, AfterAtTrigger DEF SameTrigger
      <4>3. ShouldSchedule(t)
        BY <2>3, <4>1, <4>2
      <4>4. Made(t, interval) = {}
        BY <4>3 DEF ShouldSchedule, Made
      <4>5. Made(t, i) = {}
        <5>1. CASE interval = i
          BY <4>4, <5>1
        <5>2. CASE interval < i
          BY <5>2 DEF OneEach
        <5> QED BY <1>t, <4>1, <5>1, <5>2
      <4>6. Made(t, i)' = {}
        BY <2>1, <4>5 DEF Made, RunIds, DateOf
      <4> QED BY <4>6, NoneYet
    <3>2. CASE ~AboutTo(s, t, i)'
      BY <1>1, <2>1, <3>2 DEF RunIds
    <3> QED BY <3>1, <3>2
  <2> QED BY <1>5, <2>2, <2>3, AfterAtTrigger
<1>6. CASE CountRunning(s)
  <2>1. RunIds' = RunIds
    BY <1>6 DEF CountRunning, RunIds
  <2>2. AboutTo(s, t, i)' => AboutTo(s, t, i)
    <3>1. /\ pass[s].pc = "count" /\ pass'[s].trigger = pass[s].trigger
          /\ pass'[s].pc \in {"select", "insert_skipped", "create"}
          /\ pass'[s].pc # "select" => pass[s].due /\ pass'[s].date = DateOf(interval)
      BY <1>6, AfterAtTrigger DEF SameTrigger
    <3>2. DateOf(interval) = DateOf(i) => interval = i
      BY <1>t DEF DateOf
    <3>3. DateOf(i)' = DateOf(i) /\ interval <= interval
      BY <1>t DEF DateOf
    <3> QED BY <3>1, <3>2, <3>3 DEF AboutTo, Creating
  <2> QED BY <1>1, <2>1, <2>2
<1>7. CASE LookForDuplicate(s)
  <2>1. RunIds' = RunIds
    BY <1>7 DEF LookForDuplicate, RunIds, Step
  <2>2. AboutTo(s, t, i)' => AboutTo(s, t, i)
    BY <1>7, AfterAtTrigger DEF SameTrigger, AboutTo, Creating, DateOf
  <2> QED BY <1>1, <2>1, <2>2
<1>8. CASE InsertRun(s) \/ InsertSkipped(s)
  <2> DEFINE new == Len(runs) + 1
  <2>1. /\ pass[s].pc \in Creating /\ pass[s].pc # "count"
        /\ CreateRun(pass[s].trigger, pass[s].date, "initial")
    BY <1>8 DEF InsertRun, InsertSkipped, Creating
  <2>2. pass[s].trigger \in Triggers /\ \E j \in 1..interval : pass[s].date = DateOf(j)
    BY <1>t, <2>1, LimitsAssumption DEF PassSound, LimitsAssumption
  <2>3. pass[s].date \in Dates
    BY <2>2, TypeForm, LimitsAssumption DEF Dates, DateOf, RequestDate, LimitsAssumption
  <2>4. /\ RunIds' = RunIds \cup {new} /\ new \notin RunIds
        /\ \A r \in RunIds : runs'[r] = runs[r]
        /\ runs'[new] = [trigger |-> pass[s].trigger, date |-> pass[s].date, status |-> "initial"]
    BY <1>t, <2>1, <2>2, <2>3, CreateEffect DEF RunStatus
  <2>5. runs'[new].trigger = pass[s].trigger /\ runs'[new].date = pass[s].date
    BY <2>4
  <2>6. ~AboutTo(s, t, i)'
    <3>1. pass'[s].pc \notin {"count"} \cup Creating
      BY <1>8, AfterAtTrigger DEF Creating
    <3> QED BY <1>2, <3>1
  <2>7. About(t, i)' \subseteq About(t, i) \ {s}
    BY <1>t, <2>6, AboutOthers
  <2> HIDE DEF new
  <2>8. CASE pass[s].trigger = t /\ pass[s].date = DateOf(i)
    <3>1. s \in About(t, i)
      BY <2>1, <2>8 DEF About, AboutTo
    <3>2. new \notin Made(t, i) /\ Made(t, i)' = Made(t, i) \cup {new}
      BY <2>4, <2>5, <2>8 DEF Made, DateOf
    <3>3. ~(interval' < i)
      BY <1>t, <2>2, <2>8 DEF DateOf
    <3> QED BY <2>7, <3>1, <3>2, <3>3, OneMade
  <2>9. CASE ~(pass[s].trigger = t /\ pass[s].date = DateOf(i))
    <3>1. Made(t, i)' \subseteq Made(t, i)
      BY <2>4, <2>5, <2>9 DEF Made, DateOf
    <3> QED BY <1>t, <2>7, <3>1, NoneMade
  <2> QED BY <2>8, <2>9
<1> QED BY <1>3, <1>4, <1>5, <1>6, <1>7, <1>8 DEF SchedulerStep

\* And so does what happens beside them: a request creates a run of another
\* trigger, and the time that passes makes no scheduler due that was not.
LEMMA OneEachBeside ==
  ASSUME TypeOK, PassInv, EnvironmentStep,
         NEW t \in TimeTriggers, NEW i \in 1..MaxInterval, OneEach(t, i)
  PROVE  OneEach(t, i)'
<1>t. /\ Kept /\ pass' = pass /\ interval \in Int /\ interval' \in Int /\ i \in Int
      /\ interval <= interval' /\ runs \in Seq(Row) /\ interval \in 0..MaxInterval
  BY EnvironmentKeeps, TypeForm
<1>1. Made(t, i)' \subseteq Made(t, i)
  <2>1. ASSUME NEW u \in Triggers, RequestRun(u) PROVE Made(t, i)' \subseteq Made(t, i)
    <3>1. RequestDate(interval) \in Dates
      BY <1>t, LimitsAssumption DEF Dates, RequestDate, LimitsAssumption
    <3>2. /\ RunIds' = RunIds \cup {Len(runs) + 1}
          /\ \A r \in RunIds : runs'[r] = runs[r]
          /\ runs'[Len(runs) + 1] =
               [trigger |-> u, date |-> RequestDate(interval), status |-> "initial"]
      BY <1>t, <2>1, <3>1, CreateEffect DEF RequestRun, RunStatus
    <3>3. runs'[Len(runs) + 1].trigger = u /\ u # t
      BY <2>1, <3>2 DEF RequestRun
    <3> QED BY <3>2, <3>3 DEF Made, DateOf
  <2>2. ASSUME NEW r \in RunIds, EndRun(r) \/ StopRun(r) PROVE Made(t, i)' \subseteq Made(t, i)
    <3>1. RunIds' = RunIds
      BY <1>t, <2>2, BecomeEffect DEF EndRun, StopRun, RunStatus
    <3> QED BY <1>t, <3>1, MadeSame
  <2>3. ASSUME runs' = runs PROVE Made(t, i)' \subseteq Made(t, i)
    BY <2>3 DEF Made, RunIds, DateOf
  <2>4. (\E u \in Triggers : Expire(u)) \/ Tick => runs' = runs
    BY DEF Expire, Tick
  <2> QED BY <2>1, <2>2, <2>3, <2>4 DEF EnvironmentStep
<1>2. About(t, i)' \subseteq About(t, i)
  BY <1>t DEF About, AboutTo, DateOf
<1> QED BY <1>t, <1>1, <1>2, NoneMade

\* An interval of a trigger has one run for every scheduler at most.
THEOREM OneRunEach == Spec => []OneRunPerInterval
<1> DEFINE Inv == TypeOK /\ PassInv /\ IntervalInv
<1>1. Init => Inv
  <2> SUFFICES ASSUME Init PROVE IntervalInv
    BY InitTypes
  <2>1. \A t, i : Made(t, i) = {} /\ About(t, i) = {}
    BY DEF Init, Made, RunIds, About, AboutTo, IdlePass, Creating
  <2>2. Cardinality({}) = 0 /\ Cardinality(Schedulers) \in Nat
    BY SchedulersFinite, FS_EmptySet
  <2>3. \A t, i : Cardinality(Made(t, i)) = 0 /\ Cardinality(About(t, i)) = 0
    BY <2>1, <2>2
  <2> QED BY <2>1, <2>2, <2>3 DEF IntervalInv, OneEach
<1>2. Inv /\ [Next]_vars => Inv'
  <2> SUFFICES ASSUME TypeOK, PassInv, IntervalInv, [Next]_vars PROVE Inv'
    OBVIOUS
  <2>1. TypeOK' /\ PassInv'
    BY TypeStep, TypeStutter
  <2>2. ASSUME NEW t \in TimeTriggers, NEW i \in 1..MaxInterval PROVE OneEach(t, i)'
    <3>1. OneEach(t, i)
      BY DEF IntervalInv
    <3>2. CASE UNCHANGED vars
      BY <3>1, <3>2 DEF vars, OneEach, Made, RunIds, About, AboutTo, DateOf
    <3>3. CASE Next
      BY <3>1, <3>3, NextCases, OneEachOfOne, OneEachBeside
    <3> QED BY <3>2, <3>3
  <2> QED BY <2>1, <2>2 DEF IntervalInv
<1>3. Inv => OneRunPerInterval
  <2> SUFFICES ASSUME Inv, NEW t \in TimeTriggers, NEW i \in 1..MaxInterval
               PROVE  Cardinality(Made(t, i)) <= Cardinality(Schedulers)
    BY DEF OneRunPerInterval, Made
  <2>1. Cardinality(Made(t, i)) + Cardinality(About(t, i)) <= Cardinality(Schedulers)
    BY DEF IntervalInv, OneEach
  <2> QED BY <2>1, MadeFinite
<1> QED BY <1>1, <1>2, <1>3, PTL DEF Spec

-----------------------------------------------------------------------------
(* One run at a time, under one scheduler.                                 *)

\* The runs that are held, run by run.
Holds(r, t, s) ==
  /\ runs[r].trigger = t
  /\ runs[r].status \in {"initial", "running"} \/ r \in pass[s].initial \cup pass[s].toStart
  /\ ~(pass[s].pc = "cancel_skipped" /\ pass[s].date = r)

\* Only the one scheduler is skipping a run.
LEMMA HeldRuns ==
  ASSUME NEW s, Schedulers = {s}, NEW t,
         pass[s].initial \subseteq RunIds, pass[s].toStart \subseteq RunIds
  PROVE  Held(t, s) = {r \in RunIds : Holds(r, t, s)}
<1>1. BeingSkipped = {d \in {pass[s].date} : pass[s].pc = "cancel_skipped"}
  BY DEF BeingSkipped
<1> QED BY <1>1 DEF Held, Holds, RunsOf

\* The same after a step.
LEMMA HeldRunsNext ==
  ASSUME NEW s, Schedulers = {s}, NEW t,
         pass'[s].initial \subseteq RunIds', pass'[s].toStart \subseteq RunIds'
  PROVE  Held(t, s)' = {r \in RunIds' : Holds(r, t, s)'}
<1>1. BeingSkipped' = {d \in {pass'[s].date} : pass'[s].pc = "cancel_skipped"}
  BY DEF BeingSkipped
<1> QED BY <1>1 DEF Held, Holds, RunsOf

\* When no run is newly held, nor the scheduler newly about to create one.
LEMMA NoneHeld ==
  ASSUME NEW t, NEW s, OneHeld(t, s), Held(t, s)' \subseteq Held(t, s),
         pass'[s].pc \in {"create", "insert"} /\ pass'[s].trigger = t =>
           (pass[s].pc \in {"create", "insert"} /\ pass[s].trigger = t) \/ Held(t, s) = {},
         pass'[s].pc = "count" /\ pass'[s].trigger = t =>
           RunsOf(t, "initial")' \subseteq pass'[s].initial
  PROVE  OneHeld(t, s)'
<1>1. \A q, r \in Held(t, s)' : q = r
  BY DEF OneHeld
<1>2. pass'[s].pc \in {"create", "insert"} /\ pass'[s].trigger = t => Held(t, s)' = {}
  BY DEF OneHeld
<1> QED BY <1>1, <1>2 DEF OneHeld

\* What a scheduler does keeps it to one run of the trigger.
LEMMA OneHeldOfOne ==
  ASSUME TypeOK, PassInv, TypeOK', NEW s, Schedulers = {s}, SchedulerStep(s),
         NEW t \in SkipIfRunning, OneHeld(t, s)
  PROVE  OneHeld(t, s)'
<1>t. /\ runs \in Seq(Row) /\ Kept /\ PassSound(s) /\ Len(runs) \in Nat
      /\ pass[s].initial \subseteq RunIds /\ pass[s].toStart \subseteq RunIds
      /\ pass'[s].initial \subseteq RunIds' /\ pass'[s].toStart \subseteq RunIds'
  <2>1. s \in Schedulers
    OBVIOUS
  <2>2. runs \in Seq(Row) /\ pass[s] \in Known(RunIds)
    BY <2>1, TypeForm
  <2>3. StepOfOne(s)
    BY <2>1, SchedulerStepOfOne
  <2> QED BY <2>1, <2>2, <2>3, RowOfTable DEF PassInv, StepOfOne, Known
<1>s. s \in Schedulers
  OBVIOUS
<1>h. /\ Held(t, s) = {r \in RunIds : Holds(r, t, s)}
      /\ Held(t, s)' = {r \in RunIds' : Holds(r, t, s)'}
  BY <1>t, HeldRuns, HeldRunsNext
<1>1. ASSUME ~InsertRun(s), ~InsertSkipped(s), pass[s].pc # "cancel_skipped",
             \A r \in pass'[s].initial \cup pass'[s].toStart :
               \/ r \in pass[s].initial \cup pass[s].toStart
               \/ runs[r].status = "initial"
      PROVE  Held(t, s)' \subseteq Held(t, s)
  <2>1. /\ RunIds' = RunIds
        /\ \A r \in RunIds : \/ runs'[r].status \in {runs[r].status, "ended"}
                             \/ r \in pass[s].toStart
    BY <1>s, <1>1, NoInsertion
  <2>2. ASSUME NEW r \in RunIds, Holds(r, t, s)' PROVE Holds(r, t, s)
    BY <1>1, <1>t, <2>1, <2>2 DEF Holds, Kept
  <2> QED BY <1>h, <2>1, <2>2
<1>2. ASSUME pass'[s].pc \notin {"create", "insert", "count"}, Held(t, s)' \subseteq Held(t, s)
      PROVE  OneHeld(t, s)'
  BY <1>2, NoneHeld
<1>3. CASE \/ BeginPass(s) \/ LockTrigger(s) \/ SkipLockedTrigger(s) \/ ReleaseAgain(s)
           \/ ApplyPipelineLimit(s) \/ CancelExcluded(s) \/ EndPass(s)
  <2>1. pass'[s].pc \in {"triggers", "decide", "start", "idle"}
    BY <1>3, <1>s, AfterOutside DEF IdlePass
  <2>2. ~InsertRun(s) /\ ~InsertSkipped(s)
    BY <1>s, <2>1, AfterAtTrigger
  <2>3. pass'[s].initial \subseteq pass[s].initial /\ pass'[s].toStart \subseteq pass[s].toStart
    <3>1. CASE ApplyPipelineLimit(s)
      BY <1>s, <3>1, AfterOutside DEF Earliest
    <3>2. CASE ~ApplyPipelineLimit(s)
      BY <1>3, <1>s, <3>2, AfterOutside DEF IdlePass
    <3> QED BY <3>1, <3>2
  <2>4. pass[s].pc # "cancel_skipped"
    BY <1>3, <1>s, AfterOutside DEF BeginPass, EndPass
  <2>5. Held(t, s)' \subseteq Held(t, s)
    BY <1>1, <2>2, <2>3, <2>4
  <2> QED BY <1>2, <2>1, <2>5
<1>4. CASE Decide(s)
  <2>1. /\ pass[s].pc = "decide" /\ pass'[s].pc \in {"release", "count"}
        /\ SameTrigger(s)
        /\ pass'[s].pc = "count" => pass'[s].initial = RunsOf(pass[s].trigger, "initial")
        /\ pass'[s].initial \in {pass[s].initial, RunsOf(pass[s].trigger, "initial")}
    BY <1>4, <1>s, AfterAtTrigger
  <2>2. runs' = runs
    BY <1>4 DEF Decide
  <2>3. ~InsertRun(s) /\ ~InsertSkipped(s)
    BY <2>1 DEF InsertRun, InsertSkipped
  <2>4. Held(t, s)' \subseteq Held(t, s)
    BY <1>1, <2>1, <2>3 DEF SameTrigger, RunsOf
  <2>5. pass'[s].pc = "count" /\ pass'[s].trigger = t =>
          RunsOf(t, "initial")' \subseteq pass'[s].initial
    BY <2>1, <2>2 DEF SameTrigger, RunsOf, RunIds
  <2> QED BY <2>1, <2>4, <2>5, NoneHeld
<1>5. CASE CountRunning(s)
  <2>1. /\ pass[s].pc = "count" /\ pass'[s].pc \in {"select", "insert_skipped", "create"}
        /\ SameTrigger(s) /\ pass'[s].initial = pass[s].initial
        /\ pass'[s].pc = "create" =>
             ~ (/\ pass[s].trigger \in SkipIfRunning
                /\ \/ pass[s].initial # {}
                   \/ Cardinality(RunsOf(pass[s].trigger, "running")) > 0)
    BY <1>5, <1>s, AfterAtTrigger
  <2>2. ~InsertRun(s) /\ ~InsertSkipped(s)
    BY <2>1 DEF InsertRun, InsertSkipped
  <2>3. Held(t, s)' \subseteq Held(t, s)
    BY <1>1, <2>1, <2>2 DEF SameTrigger
  <2>4. ASSUME pass'[s].pc = "create", pass'[s].trigger = t PROVE Held(t, s) = {}
    <3>1. pass[s].trigger = t /\ pass[s].initial = {}
            /\ ~(Cardinality(RunsOf(t, "running")) > 0)
      BY <2>1, <2>4 DEF SameTrigger
    <3>2. RunsOf(t, "running") = {}
      <4>1. IsFiniteSet(RunsOf(t, "running")) /\ Cardinality(RunsOf(t, "running")) \in Nat
        BY CountsFinite
      <4>2. Cardinality(RunsOf(t, "running")) = 0
        BY <3>1, <4>1
      <4> QED BY <4>1, <4>2, FS_EmptySet
    <3>3. RunsOf(t, "initial") = {}
      BY <2>1, <3>1 DEF OneHeld
    <3>4. \A r \in pass[s].toStart : runs[r].trigger # t
      BY <1>t, <2>1, <3>1 DEF PassSound, Handling
    <3> QED BY <3>1, <3>2, <3>3, <3>4 DEF Held
  <2> QED BY <2>1, <2>3, <2>4, NoneHeld
<1>6. CASE LookForDuplicate(s)
  <2>1. /\ pass[s].pc = "create" /\ pass'[s].pc \in {"select", "insert"}
        /\ SameTrigger(s) /\ pass'[s].initial = pass[s].initial
    BY <1>6, <1>s, AfterAtTrigger
  <2>2. ~InsertRun(s) /\ ~InsertSkipped(s)
    BY <2>1 DEF InsertRun, InsertSkipped
  <2>3. Held(t, s)' \subseteq Held(t, s)
    BY <1>1, <2>1, <2>2 DEF SameTrigger
  <2> QED BY <2>1, <2>3, NoneHeld DEF SameTrigger
<1>7. ASSUME pass[s].pc \in {"insert", "insert_skipped"},
             CreateRun(pass[s].trigger, pass[s].date, "initial")
      PROVE  /\ RunIds' = RunIds \cup {Len(runs) + 1} /\ Len(runs) + 1 \notin RunIds
             /\ \A r \in RunIds : runs'[r] = runs[r]
             /\ runs'[Len(runs) + 1].trigger = pass[s].trigger
  <2>1. pass[s].trigger \in Triggers /\ \E i \in 1..interval : pass[s].date = DateOf(i)
    BY <1>7, <1>t, LimitsAssumption DEF PassSound, Creating, LimitsAssumption
  <2>2. pass[s].date \in Dates
    BY <2>1, TypeForm, LimitsAssumption DEF Dates, DateOf, RequestDate, LimitsAssumption
  <2>3. /\ RunIds' = RunIds \cup {Len(runs) + 1} /\ Len(runs) + 1 \notin RunIds
        /\ \A r \in RunIds : runs'[r] = runs[r]
        /\ runs'[Len(runs) + 1] =
             [trigger |-> pass[s].trigger, date |-> pass[s].date, status |-> "initial"]
    BY <1>7, <1>t, <2>1, <2>2, CreateEffect DEF RunStatus
  <2> QED BY <2>3
<1>8. CASE InsertRun(s)
  <2>0. PICK new : new = Len(runs) + 1
    OBVIOUS
  <2>1. /\ RunIds' = RunIds \cup {new} /\ \A r \in RunIds : runs'[r] = runs[r]
        /\ runs'[new].trigger = pass[s].trigger /\ new \notin RunIds
    BY <1>7, <1>8, <2>0 DEF InsertRun
  <2>2. /\ pass[s].pc = "insert" /\ pass'[s].pc = "select" /\ SameTrigger(s)
        /\ pass'[s].initial = pass[s].initial \cup {new}
    BY <1>8, <1>s, <2>0, AfterAtTrigger
  <2>3. ASSUME NEW r \in RunIds, Holds(r, t, s)' PROVE Holds(r, t, s)
    BY <1>t, <2>1, <2>2, <2>3 DEF Holds, SameTrigger
  <2>4. CASE pass[s].trigger # t
    <3>1. ~Holds(new, t, s)'
      BY <2>1, <2>4 DEF Holds
    <3>2. Held(t, s)' \subseteq Held(t, s)
      BY <1>h, <2>1, <2>3, <3>1
    <3> QED BY <1>2, <2>2, <3>2
  <2>5. CASE pass[s].trigger = t
    <3>1. Held(t, s) = {}
      BY <2>2, <2>5 DEF OneHeld
    <3>2. Held(t, s)' \subseteq {new}
      BY <1>h, <2>1, <2>3, <3>1
    <3> QED BY <2>2, <3>2 DEF OneHeld
  <2> QED BY <2>4, <2>5
<1>9. CASE InsertSkipped(s)
  <2>0. PICK new : new = Len(runs) + 1
    OBVIOUS
  <2>1. /\ RunIds' = RunIds \cup {new} /\ \A r \in RunIds : runs'[r] = runs[r]
    BY <1>7, <1>9, <2>0 DEF InsertSkipped
  <2>2. /\ pass[s].pc = "insert_skipped" /\ pass'[s].pc = "cancel_skipped" /\ SameTrigger(s)
        /\ pass'[s].initial = pass[s].initial /\ pass'[s].date = new
    BY <1>9, <1>s, <2>0, AfterAtTrigger
  <2>3. ASSUME NEW r \in RunIds, Holds(r, t, s)' PROVE Holds(r, t, s)
    BY <1>t, <2>1, <2>2, <2>3 DEF Holds, SameTrigger
  <2>4. ~Holds(new, t, s)'
    BY <2>2 DEF Holds
  <2>5. Held(t, s)' \subseteq Held(t, s)
    BY <1>h, <2>1, <2>3, <2>4
  <2> QED BY <1>2, <2>2, <2>5
<1>10. CASE CancelSkipped(s)
  <2>1. /\ pass[s].pc = "cancel_skipped" /\ pass'[s].pc = "select" /\ SameTrigger(s)
        /\ pass'[s].initial = pass[s].initial
    BY <1>10, <1>s, AfterAtTrigger
  <2>2. /\ pass[s].date \in RunIds /\ pass[s].date \notin pass[s].initial \cup pass[s].toStart
        /\ Become(pass[s].date, "ended")
    BY <1>10, <1>t, <2>1 DEF CancelSkipped, PassSound
  <2>3. /\ RunIds' = RunIds
        /\ \A r \in RunIds : runs'[r].status =
                               IF r = pass[s].date THEN "ended" ELSE runs[r].status
    BY <1>t, <2>2, BecomeEffect DEF RunStatus
  <2>4. ASSUME NEW r \in RunIds, Holds(r, t, s)' PROVE Holds(r, t, s)
    BY <1>t, <2>1, <2>2, <2>3, <2>4 DEF Holds, SameTrigger, Kept
  <2>5. Held(t, s)' \subseteq Held(t, s)
    BY <1>h, <2>3, <2>4
  <2> QED BY <1>2, <2>1, <2>5
<1>11. CASE Select(s)
  <2>1. /\ pass[s].pc = "select" /\ pass'[s].pc = "triggers" /\ pass'[s].initial = {}
        /\ pass'[s].toStart \subseteq pass[s].toStart \cup pass[s].initial
    BY <1>11, <1>s, AfterSelect
  <2>2. ~InsertRun(s) /\ ~InsertSkipped(s)
    BY <2>1 DEF InsertRun, InsertSkipped
  <2>3. Held(t, s)' \subseteq Held(t, s)
    BY <1>1, <2>1, <2>2
  <2> QED BY <1>2, <2>1, <2>3
<1>12. CASE StartRun(s)
  <2>1. /\ pass[s].pc = "start" /\ pass'[s].pc = "start" /\ pass'[s].initial = pass[s].initial
        /\ pass'[s].toStart \subseteq pass[s].toStart
    BY <1>12, <1>s, AfterStart
  <2>2. ~InsertRun(s) /\ ~InsertSkipped(s)
    BY <2>1 DEF InsertRun, InsertSkipped
  <2>3. Held(t, s)' \subseteq Held(t, s)
    BY <1>1, <2>1, <2>2
  <2> QED BY <1>2, <2>1, <2>3
<1> QED BY <1>3, <1>4, <1>5, <1>6, <1>8, <1>9, <1>10, <1>11, <1>12 DEF SchedulerStep

\* And so does what happens beside it: requests are for other triggers, and runs
\* only end.
LEMMA OneHeldBeside ==
  ASSUME TypeOK, PassInv, TypeOK', NEW s, Schedulers = {s}, EnvironmentStep,
         NEW t \in SkipIfRunning, OneHeld(t, s)
  PROVE  OneHeld(t, s)'
<1>t. /\ runs \in Seq(Row) /\ Kept /\ pass' = pass /\ interval \in 0..MaxInterval
      /\ pass[s].initial \subseteq RunIds /\ pass[s].toStart \subseteq RunIds
      /\ pass[s].initial \subseteq RunIds' /\ pass[s].toStart \subseteq RunIds'
      /\ t \in TimeTriggers
  <2>1. s \in Schedulers
    OBVIOUS
  <2>2. /\ runs \in Seq(Row) /\ pass[s] \in Known(RunIds) /\ interval \in 0..MaxInterval
    BY <2>1, TypeForm
  <2>3. Kept /\ pass' = pass
    BY EnvironmentKeeps
  <2> QED BY <2>2, <2>3, LimitsAssumption DEF Kept, Known, LimitsAssumption
<1>1. \A r \in RunIds' : runs'[r].trigger = t =>
        /\ r \in RunIds /\ runs[r].trigger = t
        /\ runs'[r].status \in {runs[r].status, "ended"}
  <2> DEFINE Goal == \A r \in RunIds' : runs'[r].trigger = t =>
                       /\ r \in RunIds /\ runs[r].trigger = t
                       /\ runs'[r].status \in {runs[r].status, "ended"}
  <2>1. ASSUME NEW u \in Triggers, RequestRun(u) PROVE Goal
    <3>1. RequestDate(interval) \in Dates
      BY <1>t, LimitsAssumption DEF Dates, RequestDate, LimitsAssumption
    <3>2. /\ RunIds' = RunIds \cup {Len(runs) + 1}
          /\ \A r \in RunIds : runs'[r] = runs[r]
          /\ runs'[Len(runs) + 1] =
               [trigger |-> u, date |-> RequestDate(interval), status |-> "initial"]
      BY <1>t, <2>1, <3>1, CreateEffect DEF RequestRun, RunStatus
    <3>3. runs'[Len(runs) + 1].trigger = u /\ u # t
      BY <1>t, <2>1, <3>2 DEF RequestRun
    <3> QED BY <3>2, <3>3
  <2>2. ASSUME NEW r \in RunIds, EndRun(r) \/ StopRun(r) PROVE Goal
    <3>1. RunIds' = RunIds /\ \A q \in RunIds : runs'[q].status =
                                 IF q = r THEN "ended" ELSE runs[q].status
      BY <1>t, <2>2, BecomeEffect DEF EndRun, StopRun, RunStatus
    <3> QED BY <1>t, <3>1 DEF Kept
  <2>3. ASSUME runs' = runs PROVE Goal
    BY <2>3 DEF RunIds
  <2>4. (\E u \in Triggers : Expire(u)) \/ Tick => runs' = runs
    BY DEF Expire, Tick
  <2> QED BY <2>1, <2>2, <2>3, <2>4 DEF EnvironmentStep
<1>2. Held(t, s)' \subseteq Held(t, s)
  <2>1. /\ Held(t, s) = {r \in RunIds : Holds(r, t, s)}
        /\ Held(t, s)' = {r \in RunIds' : Holds(r, t, s)'}
    BY <1>t, HeldRuns, HeldRunsNext
  <2>2. ASSUME NEW r \in RunIds', Holds(r, t, s)' PROVE r \in RunIds /\ Holds(r, t, s)
    BY <1>t, <1>1, <2>2 DEF Holds
  <2> QED BY <2>1, <2>2
<1>3. RunsOf(t, "initial")' \subseteq RunsOf(t, "initial")
  BY <1>1 DEF RunsOf
<1> QED BY <1>t, <1>2, <1>3, NoneHeld DEF OneHeld

\* Under one scheduler that has not died in a pass, a trigger with the setting
\* skip_if_previous_running has one run that waits or runs, at most.
THEOREM OneAtATime == Spec => []OneRunAtATime
<1> DEFINE Inv == TypeOK /\ PassInv /\ \A s : Schedulers = {s} => AloneInv(s)
<1>1. Init => Inv
  <2> SUFFICES ASSUME Init, NEW s, Schedulers = {s}, NEW t \in SkipIfRunning
               PROVE  OneHeld(t, s)
    BY InitTypes DEF AloneInv
  <2>1. pass[s] = IdlePass /\ RunIds = {}
    BY DEF Init, RunIds
  <2>2. Held(t, s) = {}
    BY <2>1 DEF Held, RunsOf, IdlePass
  <2> QED BY <2>1, <2>2 DEF OneHeld, IdlePass
<1>2. Inv /\ [Next]_vars => Inv'
  <2> SUFFICES ASSUME TypeOK, PassInv, \A s : Schedulers = {s} => AloneInv(s), [Next]_vars
               PROVE  Inv'
    OBVIOUS
  <2>1. TypeOK' /\ PassInv'
    BY TypeStep, TypeStutter
  <2>2. ASSUME NEW s, Schedulers = {s}, crashes' = 0, NEW t \in SkipIfRunning
        PROVE  OneHeld(t, s)'
    <3>1. CASE UNCHANGED vars
      <4>1. OneHeld(t, s)
        BY <2>2, <3>1 DEF AloneInv, vars
      <4>2. pass' = pass /\ runs' = runs
        BY <3>1 DEF vars
      <4>3. Held(t, s)' = Held(t, s) /\ RunsOf(t, "initial")' = RunsOf(t, "initial")
        BY <4>2 DEF Held, RunsOf, RunIds, BeingSkipped
      <4> QED BY <4>1, <4>2, <4>3 DEF OneHeld
    <3>2. ASSUME NEW q \in Schedulers, SchedulerStep(q) \/ Crash(q) PROVE OneHeld(t, s)'
      <4>1. crashes \in Nat
        BY TypeForm, LimitsAssumption DEF LimitsAssumption
      <4>2. q = s /\ crashes' >= crashes
        BY <2>2, <3>2, <4>1, SchedulerStepOfOne DEF StepOfOne
      <4>3. crashes = 0 /\ ~Crash(q)
        BY <2>2, <4>1, <4>2 DEF Crash
      <4>4. OneHeld(t, s)
        BY <2>2, <4>3 DEF AloneInv
      <4> QED BY <2>1, <2>2, <3>2, <4>2, <4>3, <4>4, OneHeldOfOne
    <3>3. CASE EnvironmentStep
      <4>1. crashes' = crashes
        BY <3>3, EnvironmentKeeps
      <4>2. OneHeld(t, s)
        BY <2>2, <4>1 DEF AloneInv
      <4> QED BY <2>1, <2>2, <3>3, <4>2, OneHeldBeside
    <3> QED BY <3>1, <3>2, <3>3, NextCases
  <2>3. ASSUME NEW s, Schedulers = {s} PROVE AloneInv(s)'
    BY <2>2, <2>3 DEF AloneInv
  <2> QED BY <2>1, <2>3
<1>3. Inv => OneRunAtATime
  <2> SUFFICES ASSUME Inv, crashes = 0, Cardinality(Schedulers) = 1, NEW t \in SkipIfRunning
               PROVE  Cardinality((RunsOf(t, "initial") \cup RunsOf(t, "running"))
                                    \ BeingSkipped) <= 1
    BY DEF OneRunAtATime
  <2> DEFINE S == (RunsOf(t, "initial") \cup RunsOf(t, "running")) \ BeingSkipped
  <2>1. IsFiniteSet(Schedulers)
    BY LimitsAssumption DEF LimitsAssumption
  <2>2. PICK s : Schedulers = {s}
    BY <2>1, FS_Singleton
  <2>3. \A q, r \in Held(t, s) : q = r
    BY <2>2 DEF AloneInv, OneHeld
  <2>4. S \subseteq Held(t, s)
    BY DEF Held
  <2> HIDE DEF S
  <2>5. CASE S = {}
    <3>1. Cardinality(S) = 0
      BY <2>5, FS_EmptySet
    <3> QED BY <3>1 DEF S
  <2>6. CASE S # {}
    <3>1. PICK r : S = {r}
      BY <2>3, <2>4, <2>6
    <3>2. Cardinality(S) = 1
      BY <3>1, FS_Singleton
    <3> QED BY <3>2 DEF S
  <2> QED BY <2>5, <2>6
<1> QED BY <1>1, <1>2, <1>3, PTL DEF Spec
=============================================================================
