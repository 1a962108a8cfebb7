----------------------------- MODULE MCWorkflow -----------------------------
(***************************************************************************)
(* Instances of Workflow for TLC.                                          *)
(***************************************************************************)
EXTENDS Workflow, TLC

\* a start finds everything on, or one feature switched off
mcFlagSets == {Features, Features \ {"execution"}, Features \ {"diagnosis"}}

mcAllOn == {Features}

mcSymmetry == Permutations(Sessions) \cup Permutations(Execs) \cup Permutations(Handlers)
=============================================================================
