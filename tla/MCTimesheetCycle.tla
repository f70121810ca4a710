-------------------------- MODULE MCTimesheetCycle --------------------------
(* Model-checking instance of TimesheetCycle: one approver for the first    *)
(* step, two for the second, who are interchangeable.                      *)
EXTENDS TimesheetCycle, TLC

CONSTANTS u1, u2, u3

MCApprovers == <<{u1}, {u2, u3}>>
MCAttendance == {0, 1}
MCSymmetry == Permutations({u2, u3}) \cup Permutations(Sessions)
=============================================================================
