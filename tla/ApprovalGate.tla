---------------------------- MODULE ApprovalGate ----------------------------
(***************************************************************************)
(* What the approval flow promises of every execution request, without the *)
(* sessions, the outbox, the goroutines and the crashes of the Workflow    *)
(* module that implements it: a request is cleared by policy when it is    *)
(* created, or waits for one verdict; only a cleared request is started,   *)
(* once; a refusal is final.                                               *)
(***************************************************************************)
CONSTANT Requests

VARIABLE gate

Stages == {"absent", "waiting", "cleared", "started", "finished", "refused", "parked"}

GateTypeOK == gate \in [Requests -> Stages]

GateInit == gate = [r \in Requests |-> "absent"]

Move(r, from, to) ==
    /\ gate[r] = from
    /\ gate' = [gate EXCEPT ![r] = to]

Ask(r)         == Move(r, "absent", "waiting")
ClearByRule(r) == Move(r, "absent", "cleared")
Clear(r)       == Move(r, "waiting", "cleared")
Park(r)        == Move(r, "waiting", "parked")     \* approved, but execution is off
StartRun(r)    == Move(r, "cleared", "started")
Finish(r)      == Move(r, "started", "finished")

\* an operator refuses one request, the timeout a set of them
Refuse(R) ==
    /\ R # {}
    /\ \A r \in R : gate[r] = "waiting"
    /\ gate' = [r \in Requests |-> IF r \in R THEN "refused" ELSE gate[r]]

GateNext ==
    \/ \E r \in Requests :
        Ask(r) \/ ClearByRule(r) \/ Clear(r) \/ Park(r) \/ StartRun(r) \/ Finish(r)
    \/ \E R \in SUBSET Requests : Refuse(R)

GateSpec == GateInit /\ [][GateNext]_gate
=============================================================================
