\* A day of two instants and the first of the next, which is the time people
\* state; two approval steps.
\* Two people decide at once; two forms or sweeps propose check-outs at once.
SPECIFICATION Spec
CONSTANTS
  Deciders = {d1, d2}
  Requesters = {r1, r2}
  NSteps = 2
  MaxShift = 2
  Cutoff = 2
  DayEnd = 2
  MaxTime = 3
  Stated = {3}
  MaxPunches = 3
  MaxCorrections = 2
SYMMETRY MCSymmetry
CONSTRAINT MCBound
INVARIANTS
  TypeOK
  UncorrectedDayAddsUp
  ApprovedByEveryStep
  NeverHolidayAndWork
PROPERTY AddedCheckOutClosesDay
CHECK_DEADLOCK FALSE
