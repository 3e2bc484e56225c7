------------------------------ MODULE ProtoSync ------------------------------
(***************************************************************************)
(* ProtoSync of scripts/update_protobufs.py: the last two steps of       *)
(* ProtoGenerator.run, clear_dir(PROTO_OUT_PATH) and                      *)
(* generate_modified_protos (do_generate_modified_protos over os.walk,   *)
(* do_replacements and do_replacements_proto_imports).                    *)
(*                                                                         *)
(* A directory is a function from names to entries.  The input tree is   *)
(* a function from <<directory, file name>> to the file's content; the   *)
(* output directory out_path is flat: a function from names to a         *)
(* content, or to DirEntry for a subdirectory such as mirror/.  A        *)
(* content keeps only what the rewrite acts on: the java_package option  *)
(* and the set of import paths, an import path being <<dir, name>>.      *)
(***************************************************************************)
EXTENDS FiniteSets, Functions

CONSTANTS
  Root,            \* in_path itself, the first directory os.walk yields
  SubDirs,         \* its subdirectories
  Google,          \* the directory part of "google/protobuf/..." imports
  Names,           \* file names
  ProtoNames,      \* those ending in ".proto"
  Pkgs,            \* java_package values
  PkgRewrite,      \* PROTO_REPLACEMENTS: java_package -> java_package
  DirEntry,        \* an entry of out_path that is a directory
  DO_NOT_REMOVE,   \* PROTO_DO_NOT_REMOVE
  CanFail,         \* file operations may raise (unlink, read, write)
  Trees,           \* the input trees in_path may hold
  Outs,            \* the contents out_path may have before the run
  NoInput,         \* in_path does not exist
  NoOut            \* out_path does not exist

ASSUME /\ ProtoNames \subseteq Names
       /\ PkgRewrite \in [Pkgs -> Pkgs]
       /\ CanFail \in BOOLEAN

Dirs == {Root} \cup SubDirs
Path == (Dirs \cup {Google}) \X Names
Content == [pkg : Pkgs, imports : SUBSET Path]

VARIABLES
  inTree,     \* in_path's files, or NoInput when in_path does not exist
  out,        \* out_path's entries; NoOut when out_path does not exist
  toWalk,     \* directories os.walk has still to yield
  files,      \* files of the directory being walked not yet handled
  warnings,   \* entries clear_dir failed to remove
  errors,     \* input files whose processing raised
  pc

vars == <<inTree, out, toWalk, files, warnings, errors, pc>>

-----------------------------------------------------------------------------
(* do_replacements_proto_imports: unless 'google' occurs in the file,    *)
(* import ".*/(.*.proto)" becomes import "\1": the directory is dropped. *)
MentionsGoogle(c) == \E p \in c.imports : p[1] = Google

FlattenImports(c) ==
  IF MentionsGoogle(c) THEN c.imports
  ELSE {<<Root, p[2]>> : p \in c.imports}

(* do_replacements(PROTO_REPLACEMENTS), then the import rewrite. *)
Rewrite(c) == [pkg |-> PkgRewrite[c.pkg], imports |-> FlattenImports(c)]

(* out_path / file_name written with text: a new or replaced entry. *)
WriteOut(name, text) == [n \in DOMAIN out \cup {name} |->
                           IF n = name THEN text ELSE out[n]]

-----------------------------------------------------------------------------
Init ==
  /\ inTree \in Trees \cup {NoInput}
  /\ out \in Outs \cup {NoOut}
  /\ toWalk = {} /\ files = {}
  /\ warnings = {} /\ errors = {}
  /\ pc = "clear"

(* clear_dir: out_path does not exist. *)
ClearDirMissing ==
  /\ pc = "clear"
  /\ out = NoOut
  /\ pc' = "generate"
  /\ UNCHANGED <<inTree, out, toWalk, files, warnings, errors>>

(* clear_dir: every entry not in PROTO_DO_NOT_REMOVE is unlinked or      *)
(* rmtree'd; one that raises is warned about and left.                   *)
ClearDir ==
  /\ pc = "clear"
  /\ out # NoOut
  /\ \E failed \in IF CanFail THEN SUBSET DOMAIN out ELSE {{}} :
       LET left == {n \in DOMAIN out : n \in DO_NOT_REMOVE \/ n \in failed}
       IN  /\ out' = Restrict(out, left)
           /\ warnings' = left \ DO_NOT_REMOVE
  /\ pc' = "generate"
  /\ UNCHANGED <<inTree, toWalk, files, errors>>

(* do_generate_modified_protos: in_path does not exist; returns. *)
GenerateNoInput ==
  /\ pc = "generate"
  /\ inTree = NoInput
  /\ pc' = "done"
  /\ UNCHANGED <<inTree, out, toWalk, files, warnings, errors>>

(* out_path.mkdir(parents=True, exist_ok=True), then os.walk(in_path). *)
GenerateStart ==
  /\ pc = "generate"
  /\ inTree # NoInput
  /\ out' = IF out = NoOut THEN <<>> ELSE out
  /\ toWalk' = Dirs
  /\ pc' = "walk"
  /\ UNCHANGED <<inTree, files, warnings, errors>>

(* A slip in the walk: only in_path itself is listed (no recursion). *)
WalkDirNoRecurse ==
  /\ pc = "walk"
  /\ files = {}
  /\ \E d \in toWalk :
       /\ Root \in toWalk => d = Root
       /\ files' = {f \in DOMAIN inTree : f[1] = d}
       /\ toWalk' = {}
  /\ UNCHANGED <<inTree, out, warnings, errors, pc>>

(* os.walk yields the next directory, top-down: in_path first. *)
WalkDir ==
  /\ pc = "walk"
  /\ files = {}
  /\ \E d \in toWalk :
       /\ Root \in toWalk => d = Root
       /\ files' = {f \in DOMAIN inTree : f[1] = d}
       /\ toWalk' = toWalk \ {d}
  /\ UNCHANGED <<inTree, out, warnings, errors, pc>>

(* A file not ending in ".proto" is skipped. *)
SkipFile ==
  /\ pc = "walk"
  /\ \E f \in files :
       /\ f[2] \notin ProtoNames
       /\ files' = files \ {f}
  /\ UNCHANGED <<inTree, out, toWalk, warnings, errors, pc>>

(* A slip: the file written under its directory, as with               *)
(* out_path / Path(root).relative_to(in_path) / file_name.                *)
ProcessFileKeepDirs ==
  /\ pc = "walk"
  /\ \E f \in files :
       /\ f[2] \in ProtoNames
       /\ out' = WriteOut(f, Rewrite(inTree[f]))
       /\ files' = files \ {f}
  /\ UNCHANGED <<inTree, toWalk, warnings, errors, pc>>

(* A proto file is read, rewritten and written to out_path / file_name. *)
ProcessFile ==
  /\ pc = "walk"
  /\ \E f \in files :
       /\ f[2] \in ProtoNames
       /\ out' = WriteOut(f[2], Rewrite(inTree[f]))
       /\ files' = files \ {f}
  /\ UNCHANGED <<inTree, toWalk, warnings, errors, pc>>

(* Reading or writing it raises: the error is printed, the walk goes on. *)
ProcessFileFails ==
  /\ pc = "walk"
  /\ CanFail
  /\ \E f \in files :
       /\ f[2] \in ProtoNames
       /\ errors' = errors \cup {f}
       /\ files' = files \ {f}
  /\ UNCHANGED <<inTree, out, toWalk, warnings, pc>>

WalkDone ==
  /\ pc = "walk"
  /\ files = {} /\ toWalk = {}
  /\ pc' = "done"
  /\ UNCHANGED <<inTree, out, toWalk, files, warnings, errors>>

Terminating == pc = "done" /\ UNCHANGED vars

Next ==
  \/ ClearDirMissing \/ ClearDir
  \/ GenerateNoInput \/ GenerateStart
  \/ WalkDir \/ SkipFile \/ ProcessFile \/ ProcessFileFails \/ WalkDone
  \/ Terminating

Spec == Init /\ [][Next]_vars

-----------------------------------------------------------------------------
TypeOK ==
  /\ \/ inTree = NoInput
     \/ DOMAIN inTree \subseteq Dirs \X Names /\ Range(inTree) \subseteq Content
  /\ \/ out = NoOut
     \/ /\ \A n \in DOMAIN out : n \notin Path /\ n \in Names   \* flat
        /\ Range(out) \subseteq Content \cup {DirEntry}
  /\ toWalk \subseteq Dirs /\ files \subseteq Dirs \X Names
  /\ warnings \subseteq Names /\ errors \subseteq Dirs \X Names
  /\ pc \in {"clear", "generate", "walk", "done"}

InFiles == IF inTree = NoInput THEN {} ELSE DOMAIN inTree
InProtos == {f \in InFiles : f[2] \in ProtoNames}

(* Every proto file of the input tree reaches out_path, rewritten, or    *)
(* its failure is printed: os.walk descends into every subdirectory and  *)
(* do_generate_modified_protos writes each file under its own name.      *)
EveryProtoWrittenOrReported ==
  pc = "done" =>
    \A f \in InProtos :
      \/ f \in errors
      \/ f[2] \in DOMAIN out /\ out[f[2]] = Rewrite(inTree[f])

(* Every import of a written proto file resolves in the flat out_path:  *)
(* it is a google/protobuf import, or a bare name that out_path holds    *)
(* (or whose file failed and was reported).  About the rewrite of        *)
(* do_replacements_proto_imports, which is skipped for the whole file    *)
(* when 'google' occurs anywhere in it.                                   *)
ImportsResolve ==
  pc = "done" =>
    \A f \in InProtos \ errors :
      \A p \in Rewrite(inTree[f]).imports :
        \/ p[1] = Google
        \/ p[1] = Root /\ (p[2] \in DOMAIN out \/ \E e \in errors : e[2] = p[2])
=============================================================================
