SPECIFICATION Spec
CONSTANTS
  MaxAttempts = 2
  MaxFaults = 2
INVARIANTS
  TypeOK
  OutcomeShown
  ApplicationComesBack
\* The attempts end.
CHECK_DEADLOCK FALSE
