\* Two runs (an original and its correction, or two originals), two sessions.
SPECIFICATION Spec
CONSTANTS
  Runs = {p1, p2}
  Sessions = {s1, s2}
  NoRun = NoRun
  NoSession = NoSession
  MaxInputs = 1
  MaxTerms = 1
  MaxAdjustments = 1
SYMMETRY MCSymmetry
INVARIANTS
  TypeOK
  FiguresCurrent
  StaleIsCalculable
  PaidOnce
PROPERTY ImplementsLifecycle
CHECK_DEADLOCK FALSE
