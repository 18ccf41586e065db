SPECIFICATION ExecutionSpec
CONSTANTS
  Plan <- MCPlan
  Pids = {p1, p2, p3}
  MaxUps = 2
  MaxDowns = 1
  MaxStarts = 4
  MaxExits = 1
  MaxCrashes = 1
  Extensions <- NoExtensions
  Applications <- OneApplication
  MaxComposeUps = 2
  MaxComposeDowns = 1
  MaxMishaps = 2
SYMMETRY PidSymmetry
INVARIANTS OnlyOwnSignalled NothingUnrecorded ReleaseMeansReady StoppedMeansStopped OwnershipIsKept WorksWhenReleased
CHECK_DEADLOCK FALSE
