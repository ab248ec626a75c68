\* A refreshed login in a workspace that is no longer active.
SPECIFICATION Spec
CONSTANTS
  Channels = {c1}
  Personal = chatgpt
  NoProfile = noprofile
  Workspaces = {w0, w1}
  Default = w0
  NoWorkspace = none
  Kinds = {"install", "switch", "create"}
  Origins = {"fresh"}
  MaxLogins = 2
  MaxKeys = 1
  MaxFaults = 0
  MaxCrashes = 0
INVARIANTS
  LoginKept
CHECK_DEADLOCK FALSE
