--------------------------- MODULE MCAutomations ----------------------------
(* Small instances of Automations.                                         *)
EXTENDS Automations

job(e, a, s, n) == [enabled |-> e, auto |-> a, schedule |-> s, attempts |-> n]

\* a job with a retry, one that needs approval and is submitted disabled, and one
\* whose schedule matches no date
Submitted == {job(TRUE, TRUE, "recurring", 2), job(FALSE, FALSE, "recurring", 1),
              job(TRUE, TRUE, "never", 1)}
=============================================================================
