\* Liveness of one failed delivery: no faults, nobody asks for a replay.
SPECIFICATION FairSpec
CONSTANTS
  Events = {e1}
  Subscriptions = {s1}
  Workers = {w1}
  NoJob = NoJob
  MaxAttempts = 2
  MaxFaults = 0
  MaxReplays = 0
PROPERTY FailedIsRetried
CHECK_DEADLOCK FALSE
