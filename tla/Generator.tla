------------------------------ MODULE Generator ------------------------------
(***************************************************************************)
(* The four Java targets of scripts/update_protobufs.py, from the        *)
(* construction of ProtoGenerator in main to the end of run():            *)
(* setup_java_sections with load_premade, go_to_script_dir,               *)
(* ensure_protobufs, then for RequestType, Status, FeeDataType and        *)
(* FreezeType in turn parse_enum_from_file (add_to_<Target>,              *)
(* finalize_<Target>) and output_java_file, then the proto sync.          *)
(*                                                                         *)
(* The scan of one enum body is abstracted to its result, as EnumScanner *)
(* shows it to be (EnumExtract): the members in source order, and        *)
(* whether finalize_<Target> was reached (the loop ended) or not (the    *)
(* enum was not found, or an exception ended the scan).  A section of a  *)
(* Java file is a sequence of items: a premade fragment, a declaration   *)
(* with its separator, a valueOf case or a toString case.  The section   *)
(* lists keep the code's 0-based indices.                                 *)
(***************************************************************************)
EXTENDS Naturals, Sequences, SequencesExt

CONSTANTS
  ScriptDir,      \* the directory of the script, which holds premade/
  Cwds,           \* the directories the script may be started from
  PremadeFiles,   \* the <<name, n>> of the files premade/<name>-<n>.txt
  Members,        \* enum member names
  ScanResults,    \* what the scan of one enum body may yield
  Presence,       \* the sets of input proto files a checkout may hold
  CanFail,        \* output_java_file may raise
  OldFile         \* a Java file as it was before the run

Targets == {"RequestType", "Status", "FeeDataType", "FreezeType"}

(* The order of run(). *)
Order == <<"RequestType", "Status", "FeeDataType", "FreezeType">>

(* setup_paths: the proto file each target reads. *)
SourceFile == [RequestType |-> "basic_types", Status |-> "response_code",
               FeeDataType |-> "basic_types", FreezeType |-> "freeze_type"]

(* setup_java_sections: the length of each section list. *)
SectionCount == [RequestType |-> 7, Status |-> 5, FeeDataType |-> 7, FreezeType |-> 5]

(* The dynamic sections add_to_<Target> appends to. *)
AddSlots == [RequestType |-> {1, 3, 5}, Status |-> {1, 3},
             FeeDataType |-> {1, 3, 5}, FreezeType |-> {1, 3}]

Item == [premade : Targets \X {0, 2, 4, 6}]
          \cup [decl : Members, sep : {",", ";"}]
          \cup [valueOf : Members] \cup [toString : Members]

VARIABLES
  cwd,           \* the process's working directory
  sections,      \* <Target>_sections
  present,       \* the input proto files of the checkout
  tgt,           \* the index in Order of the target being generated
  pending,       \* the members the current scan has still to hand over
  javaFiles,     \* the four Java files
  pc,
  results,       \* the scan result of each target (history)
  failedWrites   \* the targets whose output_java_file raised (history)

vars == <<cwd, sections, present, tgt, pending, javaFiles, pc, results, failedWrites>>

NoScan == [members |-> <<>>, finalized |-> FALSE]

-----------------------------------------------------------------------------
(* load_premade(name, n): Path("premade") / f"{name}-{n}.txt" is relative *)
(* to the working directory; a missing file gives "".                    *)
LoadPremade(t, n) ==
  IF cwd = ScriptDir /\ <<t, n>> \in PremadeFiles
  THEN <<[premade |-> <<t, n>>]>> ELSE <<>>

(* A slip: the fragments looked up one index too far. *)
SetupJavaSectionsShifted ==
  /\ pc = "init"
  /\ sections' = [t \in Targets |-> [i \in 0 .. SectionCount[t] - 1 |->
                    IF i % 2 = 0 THEN LoadPremade(t, i + 2) ELSE <<>>]]
  /\ pc' = "chdir"
  /\ UNCHANGED <<cwd, present, tgt, pending, javaFiles, results, failedWrites>>

(* A slip: every section list copied from RequestType's seven. *)
SetupJavaSectionsCopied ==
  /\ pc = "init"
  /\ sections' = [t \in Targets |-> [i \in 0 .. 6 |->
                    IF i % 2 = 0 THEN LoadPremade(t, i) ELSE <<>>]]
  /\ pc' = "chdir"
  /\ UNCHANGED <<cwd, present, tgt, pending, javaFiles, results, failedWrites>>

(* ProtoGenerator() in main: __init__ calls setup_java_sections, which    *)
(* loads the even sections; the odd ones start as "".                      *)
SetupJavaSections ==
  /\ pc = "init"
  /\ sections' = [t \in Targets |-> [i \in 0 .. SectionCount[t] - 1 |->
                    IF i % 2 = 0 THEN LoadPremade(t, i) ELSE <<>>]]
  /\ pc' = "chdir"
  /\ UNCHANGED <<cwd, present, tgt, pending, javaFiles, results, failedWrites>>

(* run(): go_to_script_dir. *)
GoToScriptDir ==
  /\ pc = "chdir"
  /\ cwd' = ScriptDir
  /\ pc' = "ensure"
  /\ UNCHANGED <<sections, present, tgt, pending, javaFiles, results, failedWrites>>

(* ensure_protobufs returns with some checkout (ProtoFetch) ... *)
EnsureProtobufs ==
  /\ pc = "ensure"
  /\ present' \in Presence
  /\ pc' = "parse"
  /\ UNCHANGED <<cwd, sections, tgt, pending, javaFiles, results, failedWrites>>

(* ... or calls sys.exit(1). *)
EnsureExits ==
  /\ pc = "ensure"
  /\ pc' = "exited"
  /\ UNCHANGED <<cwd, sections, present, tgt, pending, javaFiles, results, failedWrites>>

Current == Order[tgt]

(* parse_enum_from_file: the input file does not exist; returns. *)
ParseMissingFile ==
  /\ pc = "parse"
  /\ SourceFile[Current] \notin present
  /\ results' = [results EXCEPT ![Current] = NoScan]
  /\ pc' = "write"
  /\ UNCHANGED <<cwd, sections, present, tgt, pending, javaFiles, failedWrites>>

(* parse_enum_from_file scans the enum body (EnumScanner). *)
ParseScan ==
  /\ pc = "parse"
  /\ SourceFile[Current] \in present
  /\ \E r \in ScanResults :
       /\ results' = [results EXCEPT ![Current] = r]
       /\ pending' = r.members
  /\ pc' = "emit"
  /\ UNCHANGED <<cwd, sections, present, tgt, javaFiles, failedWrites>>

(* add_to_<Target>: generate_enum, generate_valueOf and, for two targets, *)
(* generate_toString appended to sections 1, 3 and 5.                     *)
AddToTarget ==
  /\ pc = "emit"
  /\ pending # <<>>
  /\ LET t == Current
         m == Head(pending)
         entry == [i \in {1, 3, 5} |->
                    CASE i = 1 -> [decl |-> m, sep |-> ","]
                      [] i = 3 -> [valueOf |-> m]
                      [] i = 5 -> [toString |-> m]]
         s == sections[t]
     IN  sections' = [sections EXCEPT ![t] =
                        [i \in DOMAIN s |-> IF i \in AddSlots[t]
                                            THEN s[i] \o <<entry[i]>> ELSE s[i]]]
  /\ pending' = Tail(pending)
  /\ UNCHANGED <<cwd, present, tgt, javaFiles, pc, results, failedWrites>>

(* A slip: the first declaration's comma replaced. *)
ReplaceFirstEnumComma(s) ==
  IF s # <<>> /\ s[1].sep = "," THEN [s EXCEPT ![1].sep = ";"] ELSE s

(* replace_last_enum_comma: a trailing ",\n\n" becomes ";\n\n". *)
ReplaceLastEnumComma(s) ==
  IF s # <<>> /\ Last(s).sep = "," THEN [s EXCEPT ![Len(s)].sep = ";"] ELSE s

(* The scan loop ended: finalize_<Target>. *)
FinalizeTarget ==
  /\ pc = "emit"
  /\ pending = <<>>
  /\ results[Current].finalized
  /\ sections' = [sections EXCEPT ![Current][1] = ReplaceLastEnumComma(@)]
  /\ pc' = "write"
  /\ UNCHANGED <<cwd, present, tgt, pending, javaFiles, results, failedWrites>>

(* The enum was not found, or the scan raised: finalize is skipped. *)
ParseEndsEarly ==
  /\ pc = "emit"
  /\ pending = <<>>
  /\ ~results[Current].finalized
  /\ pc' = "write"
  /\ UNCHANGED <<cwd, sections, present, tgt, pending, javaFiles, results, failedWrites>>

(* The text of the first k sections of target t. *)
SectionsText(t, k) == FlattenSeq([i \in 1 .. k |-> sections[t][i - 1]])

NextTarget == IF tgt = Len(Order) THEN "sync" ELSE "parse"

(* output_java_file writes every section in order. *)
OutputJavaFile ==
  /\ pc = "write"
  /\ javaFiles' = [javaFiles EXCEPT ![Current] = SectionsText(Current, SectionCount[Current])]
  /\ tgt' = IF tgt = Len(Order) THEN tgt ELSE tgt + 1
  /\ pc' = NextTarget
  /\ UNCHANGED <<cwd, sections, present, pending, results, failedWrites>>

(* output_java_file raises: in mkdir or open the file is left as it was; *)
(* in a write, open(..., "w") has truncated it to the sections written.   *)
OutputJavaFileFails ==
  /\ pc = "write"
  /\ CanFail
  /\ \/ UNCHANGED javaFiles
     \/ \E k \in 0 .. SectionCount[Current] - 1 :
          javaFiles' = [javaFiles EXCEPT ![Current] = SectionsText(Current, k)]
  /\ failedWrites' = failedWrites \cup {Current}
  /\ tgt' = IF tgt = Len(Order) THEN tgt ELSE tgt + 1
  /\ pc' = NextTarget
  /\ UNCHANGED <<cwd, sections, present, pending, results>>

(* clear_dir and generate_modified_protos (ProtoSync), then "Done". *)
SyncProtos ==
  /\ pc = "sync"
  /\ pc' = "done"
  /\ UNCHANGED <<cwd, sections, present, tgt, pending, javaFiles, results, failedWrites>>

Terminating == pc \in {"done", "exited"} /\ UNCHANGED vars

Init ==
  /\ cwd \in Cwds
  /\ sections = [t \in Targets |-> <<>>]
  /\ present = {}
  /\ tgt = 1
  /\ pending = <<>>
  /\ javaFiles = [t \in Targets |-> OldFile]
  /\ pc = "init"
  /\ results = [t \in Targets |-> NoScan]
  /\ failedWrites = {}

Next ==
  \/ SetupJavaSections \/ GoToScriptDir \/ EnsureProtobufs \/ EnsureExits
  \/ ParseMissingFile \/ ParseScan \/ AddToTarget \/ FinalizeTarget
  \/ ParseEndsEarly \/ OutputJavaFile \/ OutputJavaFileFails \/ SyncProtos
  \/ Terminating

Spec == Init /\ [][Next]_vars

-----------------------------------------------------------------------------
TypeOK ==
  /\ cwd \in Cwds \cup {ScriptDir}
  /\ pc # "init" =>
       \A t \in Targets :
         /\ DOMAIN sections[t] = 0 .. SectionCount[t] - 1
         /\ \A i \in DOMAIN sections[t] : sections[t][i] \in Seq(Item)
  /\ tgt \in 1 .. Len(Order)
  /\ pending \in Seq(Members)
  /\ \A t \in Targets : javaFiles[t] = OldFile \/ javaFiles[t] \in Seq(Item)
  /\ pc \in {"init", "chdir", "ensure", "parse", "emit", "write", "sync",
             "done", "exited"}
  /\ failedWrites \subseteq Targets

(* The targets whose file carries the reverse mapping (toString).  The   *)
(* code gives it to RequestType and FeeDataType (add_to_RequestType,     *)
(* add_to_FeeDataType); the specification, section 4.5, to the request  *)
(* and status codes.                                                      *)
HasReverse == {"RequestType", "FeeDataType"}

(* The file the specification (sections 6 and 7) describes for target t: *)
(* prologue, declarations, separator, forward mapping, separator,        *)
(* [reverse mapping, separator], epilogue; a fragment is there exactly   *)
(* when its premade file exists beside the script; one declaration, one  *)
(* case per member in source order; the last declaration terminated,    *)
(* since finalize runs once after all members and before synthesis      *)
(* (section 3).                                                           *)
Layout(t) ==
  LET ms == results[t].members
      P(n) == IF <<t, n>> \in PremadeFiles THEN <<[premade |-> <<t, n>>]>> ELSE <<>>
      Decl == [i \in 1 .. Len(ms) |->
                [decl |-> ms[i],
                 sep |-> IF i = Len(ms) THEN ";" ELSE ","]]
      Fwd == [i \in 1 .. Len(ms) |-> [valueOf |-> ms[i]]]
      Rev == [i \in 1 .. Len(ms) |-> [toString |-> ms[i]]]
  IN  P(0) \o Decl \o P(2) \o Fwd \o P(4)
        \o (IF t \in HasReverse THEN Rev \o P(6) ELSE <<>>)

(* At the end of a run every Java file whose write did not raise is      *)
(* exactly the file the specification describes for the scan of its      *)
(* enum and the premade fragments beside the script: nothing missing,    *)
(* nothing from another target, nothing from before the run.             *)
JavaFilesRegenerated ==
  pc = "done" =>
    \A t \in Targets : t \in failedWrites \/ javaFiles[t] = Layout(t)
=============================================================================
