----------------------------- MODULE MCNotebook -----------------------------
(* Values of the constants of Notebook for TLC. *)
EXTENDS Notebook

\* A block may be in several pipelines.
EveryBlock == [p \in Pipelines |-> Blocks]
=============================================================================
