---------------------------- MODULE MCRegistries ----------------------------
(***************************************************************************)
(* What the server keeps in files of its own: the registries of connectors *)
(* and skills, the candidates, which reach the skill registry through      *)
(* imports only, the configuration the first-run wizard fills, and the     *)
(* signals.  They share no other state, so a behaviour moves one of them,  *)
(* part.                                                                   *)
(***************************************************************************)
EXTENDS Connectors, Extensions, Setup, Signals

VARIABLE part

M(ver, body, on) == [ver |-> ver, body |-> body, on |-> on]
MCOffered == {M(1, "a", TRUE), M(1, "b", FALSE), M(2, "a", TRUE)}
MCUploads == {[text |-> "a", on |-> TRUE]}
MCBundled == [c \in Candidates |-> [id |-> CHOOSE s \in SkillIds : TRUE, m |-> [text |-> "b", on |-> TRUE]]]

MCInit == /\ ConnInit /\ SkillsInit /\ ExtInit /\ SetupInit /\ SignalsInit
          /\ part \in {"connectors", "skills", "extensions", "setup", "signals"}
          /\ part # "connectors" => useFile
          /\ part \in {"connectors", "setup", "signals"} => hasPath
          /\ part # "setup" => shipped = NoAccess /\ database
          /\ ~database => shipped \in {NoAccess, [NoAccess EXCEPT !.admin = TRUE]}

MCNext == /\ part' = part
          /\ \/ part = "connectors" /\ ConnNext /\ UNCHANGED <<skillVars, extVars, setupVars, signalVars>>
             \/ part = "skills" /\ SkillsNext /\ UNCHANGED <<connVars, extVars, setupVars, signalVars>>
             \/ part = "extensions" /\ ExtNext /\ UNCHANGED <<connVars, setupVars, signalVars>>
             \/ part = "setup" /\ SetupNext /\ UNCHANGED <<connVars, skillVars, extVars, signalVars>>
             \/ part = "signals" /\ SignalsNext /\ UNCHANGED <<connVars, skillVars, extVars, setupVars>>

MCSpec == MCInit /\ [][MCNext]_<<part, connVars, skillVars, extVars, setupVars, signalVars>>

Symmetry == Permutations(Operators)
=============================================================================
