\* Termination: one slot, two networks, requests that may be abandoned.
SPECIFICATION FairSpec
CONSTANTS
  None = None
  Callers = {c1, c2, c3}
  Keys = {k1, k2}
  Max = 2
  MaxClock = 0
  AnswerTTL = 2
  ErrorTTL = 1
  Cap = 1
  DialTimeout = 1
  ReadTimeout = 1
PROPERTY EveryLookupReturns
