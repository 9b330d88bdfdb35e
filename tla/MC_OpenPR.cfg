CONSTANTS
  a = a  b = b  c = c  s1 = s1  s2 = s2  NoRun = NoRun
  Runs <- MCRuns
  Actions = {b}
  Shell = {b}
  Scoped = {a, c}
  KeepWorkflows = FALSE
  Suites <- MCSuites
  Suite <- MCSuite
  Workflows = {a, b}
  MaxFaults = 1
  MaxTouches = 1
SPECIFICATION FairSpec
INVARIANTS TypeOK DescribesPushedFiles RacesAreAbsorbed UndisturbedSuccess
PROPERTIES DecisionsStand EventuallyReturns
CHECK_DEADLOCK FALSE
