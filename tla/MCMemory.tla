------------------------------ MODULE MCMemory ------------------------------
(***************************************************************************)
(* Instances of MemoryWorkflow and Knowledge for TLC, explored one at a    *)
(* time.  MemoryWorkflow comes in two parts: several executions and        *)
(* verdicts on an outbox nobody disturbs, and one execution with replays,  *)
(* deletions, lost messages and a repeated alert.  No fair step is         *)
(* withheld in either.                                                     *)
(***************************************************************************)
EXTENDS MemoryWorkflow, Knowledge

VARIABLE part

\* everything on, executions and ingestion off, or diagnosis off
mcFlagSets == {Features, {"diagnosis", "approval"}, {"approval", "execution"}}

\* the component that is not explored keeps an initial state, in which none of
\* its fair steps is enabled
MCInit == /\ part \in {"verdicts", "outbox", "knowledge"}
          /\ MemInit /\ KnowledgeInit
          /\ part = "knowledge" => flags = Features

MCNext == /\ part' = part
          /\ \/ /\ part = "verdicts" /\ MemNext /\ UNCHANGED knVars
                /\ replays' = 0 /\ lostSends' = 0
                /\ \E k \in AlertKeys : alertOf'[k] = None
                /\ \A e \in DOMAIN outbox' : outbox'[e].st # "deleted"
             \/ /\ part = "outbox" /\ MemNext /\ UNCHANGED knVars
                /\ UNCHANGED asked
                /\ \A x \in Execs \ {1} : exec'[x].st = "none"
             \/ part = "knowledge" /\ KnowledgeNext /\ UNCHANGED memVars

MCSpec == /\ MCInit /\ [][MCNext]_<<part, memVars, knVars>>
          /\ MemFairness /\ KnowledgeFairness
=============================================================================
