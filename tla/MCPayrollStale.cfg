\* One run, two sessions: an input changes while the run is being calculated.
\* Every change marks runs (MaxTerms = 0).
SPECIFICATION Spec
CONSTANTS
  Runs = {p1}
  Sessions = {s1, s2}
  NoRun = NoRun
  NoSession = NoSession
  MaxInputs = 2
  MaxTerms = 0
  MaxAdjustments = 1
SYMMETRY MCSymmetry
INVARIANT ChangesMarkStale
CHECK_DEADLOCK FALSE
