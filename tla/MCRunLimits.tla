---------------------------- MODULE MCRunLimits ----------------------------
(***************************************************************************)
(* Instances of RunLimits for TLC.                                         *)
(***************************************************************************)
EXTENDS RunLimits

CONSTANTS daily, api

\* A trigger of each kind.  Their limits add up to more than the pipeline's.
Limits == [t \in {daily, api} |-> IF t = daily THEN 1 ELSE 2]
=============================================================================
