\* Fair threads, one death of the process at most.
SPECIFICATION FairSpec
CONSTANTS
  Threads = {t1, t2}
  Main = main
  Nobody = nobody
  Workspaces = {w1}
  NoWorkspace = none
  Kinds = {"ensure", "initialize", "retry", "prepare", "restore", "manage"}
  Windows = TRUE
  DiskFaults = TRUE
  MaxRequests = 2
  MaxCrashes = 1
  MaxUpgrades = 0
PROPERTIES
  ReservationReleased
  InstallationEnds
CHECK_DEADLOCK FALSE
