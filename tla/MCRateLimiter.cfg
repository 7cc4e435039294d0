\* Two goroutines with times out of order, and three clients for two buckets.
SPECIFICATION Spec
CONSTANTS
  None = None
  Callers = {c1, c2}
  Clients = {k1, k2, k3}
  Cost = 2
  Burst = 2
  Max = 2
  MaxSkew = 1
  MaxClock = 5
SYMMETRY MCSymmetry
INVARIANTS Budget
PROPERTIES RefusalIsFree EvictionSparesTheActive Implements
