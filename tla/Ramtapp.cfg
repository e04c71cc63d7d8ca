\* The app manager and one more; up to two iterations per test, any number of tests.
SPECIFICATION Spec
CONSTANTS
  Managers = {"AppManager", "other"}
  MaxIterations = 2
INVARIANTS StopReachesItsTest NoUseAfterRelease LaunchesPaired
PROPERTIES ExitEnds
CHECK_DEADLOCK FALSE
