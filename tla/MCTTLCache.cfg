\* Goroutines meet on three keys in a cache of two entries: coalescing, failure,
\* expiry and eviction.
SPECIFICATION Spec
CONSTANTS
  answer = answer
  failure = failure
  dropped = dropped
  None = None
  Callers = {c1, c2, c3}
  Keys = {k1, k2, k3}
  Outcomes = {answer, failure, dropped}
  TTL <- MCTTL
  Max = 2
  MaxClock = 2
SYMMETRY MCSymmetry
INVARIANTS SingleFlight Fresh NoWastedQuery Bounded
PROPERTIES EvictLiveLast Implements
