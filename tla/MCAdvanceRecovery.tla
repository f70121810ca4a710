-------------------------- MODULE MCAdvanceRecovery --------------------------
(* Model-checking instance of AdvanceRecovery: two runs of two periods.    *)
EXTENDS AdvanceRecovery, TLC

CONSTANTS m1, m2

MCRuns == {m1, m2}

(* The salary of the first period is credited after the period has ended. *)
MCPeriodEnd == m1 :> 1 @@ m2 :> 2
MCCutoff    == m1 :> 2 @@ m2 :> 2

MCNetPay == {-1, 3}
=============================================================================
