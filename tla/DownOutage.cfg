\* The docker daemon is unreachable once while `down` removes a graph.
SPECIFICATION ExecutionSpec
CONSTANTS
  Plan <- MCPlan
  Pids = {p1}
  MaxUps = 0
  MaxDowns = 0
  MaxStarts = 0
  MaxExits = 0
  MaxCrashes = 0
  Extensions <- NoExtensions
  Applications <- OneApplication
  MaxComposeUps = 1
  MaxComposeDowns = 1
  MaxMishaps = 1
INVARIANT DownRemovesOwned
CHECK_DEADLOCK FALSE
