\* One advance and one run, calculated twice: nothing overlaps.
SPECIFICATION Spec
CONSTANTS
  m1 = m1
  m2 = m2
  NAdvances = 1
  Runs = {m1}
  Amounts = {4}
  NetPay <- MCNetPay
  LastDay = 1
  PeriodEnd <- MCPeriodEnd
  Cutoff <- MCCutoff
INVARIANT ReversedOnRecalculation
CHECK_DEADLOCK FALSE
