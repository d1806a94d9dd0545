------------------------ MODULE MCPipelineScheduler ------------------------
(***************************************************************************)
(* Instances of PipelineScheduler for TLC.                                 *)
(***************************************************************************)
EXTENDS PipelineScheduler, TLC

CONSTANTS extract, transform, export

\* The blocks of the larger pipeline.
JoinBlocks == {extract, transform, export}

\* Two independent blocks and one that joins them.
Join ==
  [b \in JoinBlocks |->
     IF b = export THEN {extract, transform} ELSE {}]

\* A block and one that depends on it.
PairBlocks == {extract, export}

Pair == [b \in PairBlocks |-> IF b = export THEN {extract} ELSE {}]

\* The schedulers run the same code.
SchedulerSymmetry == Permutations(Schedulers)
=============================================================================
