\* Two advances, two runs; net pay that covers nothing, part, or all of them.
SPECIFICATION Spec
CONSTANTS
  m1 = m1
  m2 = m2
  NAdvances = 2
  Runs <- MCRuns
  Amounts = {2}
  NetPay <- MCNetPay
  LastDay = 2
  PeriodEnd <- MCPeriodEnd
  Cutoff <- MCCutoff
INVARIANTS
  TypeOK
  NeverOverRecovered
  RecoveryWithinNetPay
  RowsExplainRecovered
CHECK_DEADLOCK FALSE
