--------------------------- MODULE MCAlertIntake ----------------------------
(***************************************************************************)
(* Instances of AlertIntake for TLC.                                       *)
(***************************************************************************)
EXTENDS AlertIntake, TLC

CONSTANTS a, b, d, cpu

\* a and b are two versions of one alert: same name, other annotations; d has
\* neither alertname nor instance and is always sent in the first place
mcNameOf == (a :> cpu) @@ (b :> cpu) @@ (d :> Anonymous)

mcPayloads == {<<a>>, <<b, a>>, <<a, b>>, <<d, a>>}
=============================================================================
