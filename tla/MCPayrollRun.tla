---------------------------- MODULE MCPayrollRun ----------------------------
(* Model-checking instance of PayrollRun: symmetry of runs and sessions.   *)
EXTENDS PayrollRun, TLC

MCSymmetry == Permutations(Runs) \cup Permutations(Sessions)
=============================================================================
