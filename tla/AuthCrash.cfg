\* Every operation; one failing write and two deaths of the process.
SPECIFICATION Spec
CONSTANTS
  Channels = {c1}
  Personal = chatgpt
  NoProfile = noprofile
  Workspaces = {w0, w1}
  Default = w0
  NoWorkspace = none
  Kinds = {"prepare", "install", "switch", "create", "reauthorize"}
  Origins = {"fresh", "old", "legacy"}
  MaxLogins = 1
  MaxKeys = 1
  MaxFaults = 1
  MaxCrashes = 2
INVARIANTS
  DefaultAgrees
  EveryWorkspaceHasProfile
  PrepareIsIdempotent
  SwitchArchivesLogin
  KeysAgree
  UpgradeKeepsLogins
CHECK_DEADLOCK FALSE
