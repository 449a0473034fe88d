------------------------------- MODULE Parts --------------------------------
(***************************************************************************)
(* The parts of the system that are functions or small objects are run one *)
(* at a time, each as a process of its own: `st' is the state of the part  *)
(* that runs, a record whose field `unit' names it.                        *)
(***************************************************************************)
EXTENDS Integers, Sequences, FiniteSets, FiniteSetsExt, SequencesExt, Functions

VARIABLE st

=============================================================================
