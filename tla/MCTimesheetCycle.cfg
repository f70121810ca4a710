\* Two requests in flight, two steps, a day of one unit: an attendance of none
\* leaves room for one manual entry, and two that overlap are one too many.
SPECIFICATION Spec
CONSTANTS
  u1 = u1
  u2 = u2
  u3 = u3
  Users = {u1, u2, u3}
  Sessions = {s1, s2}
  NoUser = NoUser
  NoSession = NoSession
  NSteps = 2
  Approvers <- MCApprovers
  DayMinutes = 1
  Attendance <- MCAttendance
SYMMETRY MCSymmetry
INVARIANTS
  TypeOK
  TotalsAgree
  ApprovedByPolicy
  PayrollPaysApproved
PROPERTY ApprovedHoursFrozen
