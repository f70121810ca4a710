\* Three calls of one key with two bodies, one of a request without an event,
\* and an event of somebody else among theirs; pages of two events, two
\* milliseconds, one fault.
SPECIFICATION ExchangeSpec
CONSTANTS
  Calls = {1, 3, 4}
  Bodies = {b1, b2}
  Silent = {b2}
  NoBody = NoBody
  MaxFaults = 1
  Events = {1, 2, 3, 4}
  Limit = 2
  MaxTime = 2
INVARIANTS
  ExchangeTypeOK
  OneRunner
  EffectOnce
  AnswersAgree
  ReplayedInOrder
  OnlyLateMissed
  StreamTellsEffects
PROPERTY ImplementsKey
CHECK_DEADLOCK FALSE
