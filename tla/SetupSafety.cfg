\* Two clients, two workspaces, every kind of request, on Unix with a
\* failing disk; three requests, one death of the process.
SPECIFICATION Spec
CONSTANTS
  Threads = {t1, t2}
  Main = main
  Nobody = nobody
  Workspaces = {w1, w2}
  NoWorkspace = none
  Kinds = {"ensure", "initialize", "retry", "prepare", "restore", "manage"}
  Windows = FALSE
  DiskFaults = TRUE
  MaxRequests = 3
  MaxCrashes = 1
  MaxUpgrades = 0
SYMMETRY Interchangeable
INVARIANTS
  TypeOK
  InstallerOwnsStatus
  GateStable
PROPERTIES
  SerialOperations
CHECK_DEADLOCK FALSE
