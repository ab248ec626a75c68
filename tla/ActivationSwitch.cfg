\* Every operation, fairly scheduled; three failing calls and two deaths of the
\* manager.
SPECIFICATION FairSpec
CONSTANTS
  Workspaces = {default, w1, w2}
  Default = default
  Unset = unset
  Legacy = legacy
  Nothing = nothing
  Kinds = {"switch", "launch", "restart", "restore"}
  MaxFaults = 3
  MaxCrashes = 2
INVARIANTS
  FailedSwitchRestores
  ReadersSeeOneWorkspace
  SwitchEstablishes
PROPERTIES
  ManagerStartsActive
  SwitchSucceeds
