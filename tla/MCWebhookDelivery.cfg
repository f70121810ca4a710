\* One event, one subscription, two workers; two faults and two replays.
SPECIFICATION FairSpec
CONSTANTS
  Events = {e1}
  Subscriptions = {s1}
  Workers = {w1, w2}
  NoJob = NoJob
  MaxAttempts = 2
  MaxFaults = 2
  MaxReplays = 2
INVARIANTS
  TypeOK
  AttemptSentOnce
  DeliveredWasHeard
PROPERTIES
  ImplementsAttempts
  FirstAttemptMade
CHECK_DEADLOCK FALSE
