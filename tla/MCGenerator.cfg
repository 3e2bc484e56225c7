\* Started from the script's directory; one premade file missing; writes may fail.
CONSTANTS
  ScriptDir = ScriptDir
  Cwds = {ScriptDir}
  PremadeFiles <- MCPremadeFiles
  Members = {"a", "b"}
  ScanResults <- MCScanResults
  Presence <- MCPresence
  CanFail = TRUE
  OldFile = OldFile
SPECIFICATION Spec
INVARIANT TypeOK
INVARIANT JavaFilesRegenerated
