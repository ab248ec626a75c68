SPECIFICATION Spec
CONSTANTS
  Procs = {l, p, q}
  l = l
  p = p
  q = q
  Leader = l
  Stubborn = {q}
  Deadline = 2
  Grace = 2
  Races = 1
INVARIANTS
  TypeOK
  AnswersInTime
PROPERTIES
  LeavesNothing
