\* Three requests about two networks compete for one slot.
SPECIFICATION Spec
CONSTANTS
  None = None
  Callers = {c1, c2, c3}
  Keys = {k1, k2}
  Max = 2
  MaxClock = 3
  AnswerTTL = 2
  ErrorTTL = 1
  Cap = 1
  DialTimeout = 1
  ReadTimeout = 1
SYMMETRY MCSymmetry
INVARIANTS SlotsReturned HeldBriefly OnlyAnswersLast QueueEnds
