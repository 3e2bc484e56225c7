----------------------------- MODULE MCProtoFetch -----------------------------
(***************************************************************************)
(* Instantiates ProtoFetch with two tags (the default one and a newer    *)
(* one) and two branches, each branch one version ahead on the remote of *)
(* what an older clone has, and the clones hedera-protos-git may start   *)
(* as: absent, left by an earlier run before either the newer tag or the *)
(* dev branch existed, such a clone with dev checked out, or current.    *)
(***************************************************************************)
EXTENDS ProtoFetch

MCRemoteHead ==
  [r \in {"v64", "v65", "main", "dev"} |->
     IF r \in {"main", "dev"} THEN <<r, 2>> ELSE <<r, 1>>]

MCArgs == {NoArg, "v65", "main", "dev", "nosuch", TooMany}

MCClones ==
  { [cloned |-> FALSE, known |-> <<>>, local |-> <<>>, head |-> <<"main", 1>>],
    [cloned |-> TRUE,
     known  |-> ("main" :> <<"main", 1>>) @@ ("v64" :> <<"v64", 1>>),
     local  |-> ("main" :> <<"main", 1>>),
     head   |-> <<"main", 1>>],
    [cloned |-> TRUE,
     known  |-> ("main" :> <<"main", 1>>) @@ ("dev" :> <<"dev", 1>>)
                @@ ("v64" :> <<"v64", 1>>),
     local  |-> ("main" :> <<"main", 1>>) @@ ("dev" :> <<"dev", 1>>),
     head   |-> <<"dev", 1>>],
    [cloned |-> TRUE, known |-> MCRemoteHead,
     local  |-> ("main" :> <<"main", 2>>), head |-> <<"main", 2>>] }
=============================================================================
