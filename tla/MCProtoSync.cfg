\* in_path with one subdirectory; unlink, read and write may raise.
CONSTANTS
  Root = "services"
  SubDirs = {"state"}
  Google = "google/protobuf"
  Names <- MCNames
  ProtoNames <- MCProtoNames
  Pkgs <- MCPkgs
  PkgRewrite <- MCPkgRewrite
  DirEntry = DirEntry
  DO_NOT_REMOVE = {}
  CanFail = TRUE
  Files <- MCFiles
  Contents <- MCContents
  Trees <- MCTrees
  Outs <- MCOuts
  NoInput = NoInput
  NoOut = NoOut
SPECIFICATION Spec
INVARIANT TypeOK
INVARIANT EveryProtoWrittenOrReported
