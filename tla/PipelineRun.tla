---------------------------- MODULE PipelineRun ----------------------------
(***************************************************************************)
(* What a pipeline run promises its user, without the scheduler that keeps *)
(* the promise: a block runs when the blocks it depends on are done, may   *)
(* be run again as long as nothing has been built on it, and is skipped    *)
(* behind a block that failed or was skipped.  The run ends when every     *)
(* block is over or when its time is; a completed run is final, and of one *)
(* that failed what is left may end or be cancelled.                       *)
(*                                                                         *)
(* For a run whose blocks may fail and that nobody stops or retries;       *)
(* PipelineScheduler implements it.  The statuses are those of             *)
(* mage_ai/orchestration/db/models/schedules.py.                           *)
(***************************************************************************)
CONSTANTS
  Blocks,         \* the pipeline's blocks
  Upstream,       \* Upstream[b]: the blocks b depends on directly
  Conditional,    \* the blocks that have a conditional block
  TimeoutStatuses \* statuses a timed out run may get; {} without a timeout

VARIABLES
  run,            \* the status of the run
  phase           \* what is known of every block

Over == {"done", "failed", "skipped"}
Ended == {"failed", "cancelled"}

Init ==
  /\ run = "initial"
  /\ phase = [b \in Blocks |-> "waiting"]

Start ==
  /\ run = "initial"
  /\ run' = "running"
  /\ UNCHANGED phase

\* A block that was on its way when the run's time was over may still start.
StartBlock(b) ==
  /\ run \in {"running"} \cup Ended
  /\ phase[b] \in {"waiting", "cancelled"}
  /\ \A u \in Upstream[b] : phase[u] = "done"
  /\ phase' = [phase EXCEPT ![b] = "running"]
  /\ UNCHANGED run

EndBlock(b) ==
  /\ phase[b] \in {"running", "cancelled"}
  /\ \E over \in {"done", "failed"} \cup (IF b \in Conditional THEN {"skipped"} ELSE {}) :
       phase' = [phase EXCEPT ![b] = over]
  /\ UNCHANGED run

Become(bs, new) == phase' = [b \in Blocks |-> IF b \in bs THEN new ELSE phase[b]]

\* Several blocks at a time: update_block_run_statuses() writes a whole list.
Skip(bs) ==
  /\ run = "running"
  /\ \A b \in bs :
       /\ phase[b] = "waiting"
       /\ \E u \in Upstream[b] : phase[u] \in {"failed", "skipped"}
  /\ Become(bs, "skipped")
  /\ UNCHANGED run

\* Blocks whose worker is gone are to be run again, those that had just ended
\* included: nothing that depends on one of them has begun, or been skipped
\* because of it.
RunAgain(bs) ==
  /\ run = "running"
  /\ \A b \in bs, c \in Blocks : b \in Upstream[c] =>
       \/ phase[c] = "waiting"
       \/ phase[c] = "skipped" /\ \E u \in Upstream[c] \ bs : phase[u] \in {"failed", "skipped"}
  /\ Become(bs, "waiting")
  /\ UNCHANGED run

End ==
  /\ run = "running"
  /\ \A b \in Blocks : phase[b] \in Over
  /\ run' = IF \E b \in Blocks : phase[b] = "failed" THEN "failed" ELSE "completed"
  /\ UNCHANGED phase

\* Even when the last block has just ended.
TimeOut ==
  /\ run = "running"
  /\ run' \in TimeoutStatuses
  /\ UNCHANGED phase

\* What is left of a run that failed, a block that is just ending included.
CancelRest(bs) ==
  /\ run \in Ended
  /\ Become(bs, "cancelled")
  /\ UNCHANGED run

Next ==
  \/ Start \/ End \/ TimeOut
  \/ \E b \in Blocks : StartBlock(b) \/ EndBlock(b)
  \/ \E bs \in SUBSET Blocks : Skip(bs) \/ RunAgain(bs) \/ CancelRest(bs)

Spec == Init /\ [][Next]_<<run, phase>>
=============================================================================
