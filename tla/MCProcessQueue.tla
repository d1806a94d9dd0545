--------------------------- MODULE MCProcessQueue ---------------------------
(***************************************************************************)
(* Instances of ProcessQueue for TLC.                                      *)
(***************************************************************************)
EXTENDS ProcessQueue, TLC

\* Process ids and pool processes are interchangeable.
ProcessSymmetry == Permutations(Pids) \cup Permutations(Pools)
=============================================================================
