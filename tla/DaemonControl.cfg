SPECIFICATION Spec
CONSTANTS
  Servers = {p1, p2, p3}
  Commands = {c1, c2, c3}
  No = No
  Old = Old
INVARIANTS
  TypeOK
  StopFindsServer
  PidFileNamesServer
\* The commands end.
CHECK_DEADLOCK FALSE
