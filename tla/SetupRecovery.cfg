\* One client that only asks ensure-ready, over repeated deaths of the
\* process and one upgrade.
SPECIFICATION Spec
CONSTANTS
  Threads = {t1}
  Main = main
  Nobody = nobody
  Workspaces = {w1}
  NoWorkspace = none
  Kinds = {"ensure"}
  Windows = FALSE
  DiskFaults = TRUE
  MaxRequests = 5
  MaxCrashes = 4
  MaxUpgrades = 1
INVARIANTS
  CrashLoopBounded
PROPERTIES
  InterruptionRecorded
  NoAutomaticRestart
CHECK_DEADLOCK FALSE
