\* One request, two sessions: overlapping cancellations and decisions.
SPECIFICATION Spec
CONSTANTS
  Requests = {r1, r2}
  Sessions = {s1, s2}
  NoRequest = NoRequest
  LastDay = 2
  YearEnd = 2
  WorkDays = {1, 2}
  NSteps = 1
  Entitlements = {2}
  Adjustments <- MCAdjustments
  MaxAdjusted = 0
  EventDays = {}
SYMMETRY MCSymmetry
INVARIANT ReleasedOnce
CHECK_DEADLOCK FALSE
