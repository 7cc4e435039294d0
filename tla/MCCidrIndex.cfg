SPECIFICATION Spec
CONSTANTS
  Width = 3
  Providers = {apple, other}
  MaxEntries = 3
  None = None
  Top <- MCTop
  Prefixes <- MCPrefixes
SYMMETRY MCSymmetry
INVARIANTS TypeOK Disjoint NothingLost MatchesLinearScan
CHECK_DEADLOCK FALSE
