SPECIFICATION FairSpec
CONSTANTS
  Flows = {f1, f2}
  MaxClicks = 2
  MaxFaults = 1
  MaxOthers = 1
INVARIANTS
  TypeOK
PROPERTIES
  ControlsReturn
CHECK_DEADLOCK FALSE
