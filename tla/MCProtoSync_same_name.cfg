\* x.proto both in in_path and in its subdirectory.
CONSTANTS
  Root = "services"
  SubDirs = {"state"}
  Google = "google/protobuf"
  Names <- MCNames
  ProtoNames <- MCProtoNames
  Pkgs <- MCPkgs
  PkgRewrite <- MCPkgRewrite
  DirEntry = DirEntry
  DO_NOT_REMOVE = {}
  CanFail = FALSE
  Files <- MCFilesSameName
  Contents <- MCContents
  Trees <- MCTrees
  Outs <- MCOuts
  NoInput = NoInput
  NoOut = NoOut
SPECIFICATION Spec
INVARIANT EveryProtoWrittenOrReported
