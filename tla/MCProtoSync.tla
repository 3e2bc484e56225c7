----------------------------- MODULE MCProtoSync -----------------------------
(***************************************************************************)
(* Instantiates ProtoSync with an input tree in the shape of the hapi    *)
(* services directory: in_path with one subdirectory, proto files that   *)
(* import one another with a directory part, bare, or from              *)
(* google/protobuf, and a file that is not a proto.  out_path may be     *)
(* absent, empty, or hold the previous run's protos and a mirror/        *)
(* directory.                                                             *)
(***************************************************************************)
EXTENDS ProtoSync, TLC

CONSTANTS
  Files,     \* the <<directory, name>> paths an input tree may hold
  Contents   \* the contents an input file may have

MCPkgs == {"api", "service", "mirror", "sdk", "sdk_mirror"}

\* The three java_package rewrites of PROTO_REPLACEMENTS.
MCPkgRewrite ==
  [p \in MCPkgs |-> CASE p \in {"api", "service"} -> "sdk"
                      [] p = "mirror"             -> "sdk_mirror"
                      [] OTHER                    -> p]

MCNames == {"x.proto", "y.proto", "ts.proto", "old.proto", "mirror", "README"}
MCProtoNames == {"x.proto", "y.proto", "ts.proto", "old.proto"}

cLocal  == [pkg |-> "api",     imports |-> {<<"state", "y.proto">>}]
cGoogle == [pkg |-> "service", imports |-> {<<"google/protobuf", "ts.proto">>}]
cPlain  == [pkg |-> "mirror",  imports |-> {}]
cBare   == [pkg |-> "sdk",     imports |-> {<<"services", "x.proto">>}]

\* Imports from google/protobuf and, with its directory, from state/, as
\* in a services proto that uses wrappers.proto.
cMixed  == [pkg |-> "service",
            imports |-> {<<"google/protobuf", "ts.proto">>, <<"state", "y.proto">>}]

MCContents      == {cLocal, cGoogle, cPlain, cBare}
MCContentsMixed == MCContents \cup {cMixed}

MCFiles == {<<"services", "x.proto">>, <<"state", "y.proto">>, <<"state", "README">>}
\* The same file name in in_path and in its subdirectory.
MCFilesSameName == MCFiles \cup {<<"state", "x.proto">>}

\* Every import that is not a google one names another file of the tree.
ValidTree(t) ==
  \A f \in DOMAIN t : \A p \in t[f].imports : p[1] = Google \/ p \in DOMAIN t \ {f}

MCTrees ==
  {t \in UNION {[F -> Contents] : F \in SUBSET Files} : ValidTree(t)}

MCOuts ==
  { <<>>,
    ("mirror" :> DirEntry) @@ ("old.proto" :> cPlain),
    ("x.proto" :> cBare) @@ ("mirror" :> DirEntry) }
=============================================================================
