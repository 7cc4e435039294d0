\* A refresh whose fetches all fail, after one that loaded data.
SPECIFICATION Spec
CONSTANTS
  Sources = {s1, s2}
  MaxRounds = 2
PROPERTY LoadedBySuccess
CHECK_DEADLOCK FALSE
