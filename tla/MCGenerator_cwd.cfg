\* Started from the repository root as well as from the script's directory.
CONSTANTS
  ScriptDir = ScriptDir
  Cwds = {ScriptDir, RepoRoot}
  PremadeFiles <- MCPremadeFiles
  Members = {"a", "b"}
  ScanResults <- MCScanResults
  Presence <- MCPresence
  CanFail = FALSE
  OldFile = OldFile
  RepoRoot = RepoRoot
SPECIFICATION Spec
INVARIANT JavaFilesRegenerated
