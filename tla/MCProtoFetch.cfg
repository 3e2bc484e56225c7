\* Two runs of the script; the first may be killed while cloning.
CONSTANTS
  Tags = {"v64", "v65"}
  Branches = {"main", "dev"}
  RemoteHead <- MCRemoteHead
  DEFAULT_CHECKOUT_REF = "v64"
  DefaultBranch = "main"
  Args <- MCArgs
  NoArg = NoArg
  TooMany = TooMany
  Clones <- MCClones
  CanCrash = TRUE
  MaxRuns = 2
SPECIFICATION Spec
INVARIANT TypeOK
INVARIANT GeneratesRequestedRef
