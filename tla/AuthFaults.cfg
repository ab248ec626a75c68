\* Two channels, two workspaces and one failing write; no re-authorization.
SPECIFICATION Spec
CONSTANTS
  Channels = {c1, c2}
  Personal = chatgpt
  NoProfile = noprofile
  Workspaces = {w0, w1}
  Default = w0
  NoWorkspace = none
  Kinds = {"prepare", "install", "switch", "create"}
  Origins = {"fresh", "old"}
  MaxLogins = 2
  MaxKeys = 2
  MaxFaults = 1
  MaxCrashes = 0
SYMMETRY Interchangeable
INVARIANTS
  TypeOK
  ArchivesPure
  HomesAgree
  FailedLeavesNoTrace
CHECK_DEADLOCK FALSE
