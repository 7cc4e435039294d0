\* Two feeds, two refreshes, two connections; the process is stopped by a signal or
\* by its listener, or it crashes once.
SPECIFICATION LifeSpec
CONSTANTS
  Sources = {s1, s2}
  MaxRounds = 2
  Conns = {c1, c2}
  Grace = 2
  MaxCrashes = 1
INVARIANTS LastKnownGood
PROPERTIES StaysReady RefreshEnds NoneCutYoung StopEnds ServesAgain
CHECK_DEADLOCK FALSE
