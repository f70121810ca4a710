\* Two requests, two sessions; a leave year of two working days, then a weekend
\* day of the next one.
SPECIFICATION Spec
CONSTANTS
  Requests = {r1, r2}
  Sessions = {s1, s2}
  NoRequest = NoRequest
  LastDay = 3
  YearEnd = 2
  WorkDays = {1, 2}
  NSteps = 2
  Entitlements = {2}
  Adjustments <- MCAdjustments
  MaxAdjusted = 1
  EventDays = {1}
SYMMETRY MCSymmetry
INVARIANTS
  TypeOK
  EntitlementConserved
  LedgerTellsStory
  PolicyFollowed
  ApprovedLeaveOnCalendar
PROPERTIES
  DecisionsAreFinal
  ImplementsAccount
CHECK_DEADLOCK FALSE
