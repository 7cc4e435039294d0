SPECIFICATION Spec
CONSTANTS
  a1 = a1
  a2 = a2
  a3 = a3
  b1 = b1
  n1 = n1
  n2 = n2
  Names <- MCNames
  Addresses = {a1, a2, a3, b1}
  Nets = {n1, n2}
  NetOf <- MCNetOf
  RelayAddrs <- MCRelayAddrs
  MaxRelays = 2
SYMMETRY MCSymmetry
INVARIANTS Resolved Agreed ReadyMeansData
CHECK_DEADLOCK FALSE
