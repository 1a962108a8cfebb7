------------------------------ MODULE MCOutbox ------------------------------
(***************************************************************************)
(* Instances of Outbox for TLC.                                            *)
(***************************************************************************)
EXTENDS Outbox, TLC

\* the knowledge flag may differ from one start to the next; diagnosis stays on
mcFlagSets == {{"session.analyze_requested"}, Gated}

mcAllOn == {Gated}

mcSymmetry == Permutations(Events) \cup Permutations(Dispatchers)
=============================================================================
