\* A file that imports both from google/protobuf and from a directory of
\* in_path; nothing fails.
CONSTANTS
  Root = "services"
  SubDirs = {"state"}
  Google = "google/protobuf"
  Names <- MCNames
  ProtoNames <- MCProtoNames
  Pkgs <- MCPkgs
  PkgRewrite <- MCPkgRewrite
  DirEntry = DirEntry
  DO_NOT_REMOVE = {}
  CanFail = FALSE
  Files <- MCFiles
  Contents <- MCContentsMixed
  Trees <- MCTrees
  Outs <- MCOuts
  NoInput = NoInput
  NoOut = NoOut
SPECIFICATION Spec
INVARIANT ImportsResolve
