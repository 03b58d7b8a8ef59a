\* Two threads, a wall clock that is set back, remote timestamps, restarts.
CONSTANTS
  a = a
  b = b
  Threads = {a, b}
  LogicalRange = 2
  Remotes <- FewRemotes
  MayStepBack = TRUE
  MayRestart = TRUE
  MaxWall = 2
  MaxLogical = 3
SYMMETRY ThreadSymmetry
SPECIFICATION Spec
PROPERTIES IncreasesUntilWrap AheadOfRemote MillisecondsInOrder
CHECK_DEADLOCK FALSE
