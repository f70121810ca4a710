\* One request at a time, two steps, a day of two units.
SPECIFICATION Spec
CONSTANTS
  u1 = u1
  u2 = u2
  u3 = u3
  Users = {u1, u2, u3}
  Sessions = {s1}
  NoUser = NoUser
  NoSession = NoSession
  NSteps = 2
  Approvers <- MCApprovers
  DayMinutes = 2
  Attendance <- MCAttendance
SYMMETRY MCSymmetry
INVARIANT ApprovalsAreCurrent
