----------------------------- MODULE EnumScanner -----------------------------
(***************************************************************************)
(* Scanner, CommentAccumulator and SectionAssembler of one target enum:  *)
(* ProtoGenerator.parse_enum_from_file and the scan loop it drives        *)
(* (parse_enum_code, parse_enum_line, parse_sl_comment, parse_ml_comment, *)
(* parse_ml_comment_line), the add_to_<Target> and finalize_<Target>      *)
(* callbacks and the output_java_file call of generate_<Target>.          *)
(*                                                                         *)
(* The proto file is a sequence of tokens.  Each marker the scanner      *)
(* searches for ("=", "//", "/*", "*/", the newline, "}") is one token,   *)
(* so the code's "+ 2" past a two-character marker is "+ 1" here.  A      *)
(* position is a 0-based offset as in Python: token k is text[k + 1].     *)
(* Whitespace other than the newline is left out, so str.strip() is the  *)
(* identity on a slice.  Each generated fragment is a record holding     *)
(* what the Java text is built from.                                      *)
(***************************************************************************)
EXTENDS Integers, Sequences, SequencesExt, CapSnake

CONSTANTS
  Inputs,       \* the proto files the target may read: token sequences
  NoFile,       \* in_path does not exist
  EnumName,     \* the enum_name argument of parse_enum_from_file
  HasToString,  \* the target's add_to_ fills a toString section too
  Spelling,     \* the characters of each token that can end up as a name
  MaxMembers    \* bound on appended members (reached only by a re-scan)

NL == "\n"

VARIABLES
  text,           \* content: the file read by parse_enum_from_file
  i,              \* the scan cursor
  comment_lines,  \* documentation lines buffered for the next member
  decl,           \* <Target>_sections[1]: the enum constant declarations
  valueOf,        \* <Target>_sections[3]: the valueOf switch cases
  toString,       \* <Target>_sections[5]: the toString switch cases
  pc              \* where parse_enum_from_file / generate_<Target> is

vars == <<text, i, comment_lines, decl, valueOf, toString, pc>>
slots == <<decl, valueOf, toString>>

-----------------------------------------------------------------------------
(* s.find(tok, from): the first offset >= from holding tok, or -1. *)
Find(tok, from) ==
  SelectInSubSeq(text, from + 1, Len(text), LAMBDA t : t = tok) - 1

(* s[a:b] for 0 <= a; a negative b counts from the end. *)
Slice(a, b) ==
  SubSeq(text, a + 1, IF b < 0 THEN Len(text) + b ELSE b)

(* content.find(f"enum {enum_name}") *)
EnumStart ==
  LET at == {k \in 0 .. Len(text) - 2 :
               text[k + 1] = "enum" /\ text[k + 2] = EnumName}
  IN  IF at = {} THEN -1 ELSE Min(at)

(* The five searches of parse_enum_code from the cursor, and their      *)
(* minimum over those found at or after it.                             *)
EqualI   == Find("=", i)
SlI      == Find("//", i)
MlI      == Find("/*", i)
LineEndI == Find(NL, i)
EnumEndI == Find("}", i)
Indices  == {x \in {EqualI, SlI, MlI, LineEndI, EnumEndI} : x >= i}
NextI    == Min(Indices)

(* A comment line buffered even when empty: a plausible slip. *)
ParseSlCommentKeepEmpty(lines, sl_comment_i, line_end_i) ==
  Append(lines, Slice(sl_comment_i + 1, line_end_i))

(* parse_sl_comment: the text after "//" up to line_end_i, if any. *)
ParseSlComment(lines, sl_comment_i, line_end_i) ==
  LET comment_text == Slice(sl_comment_i + 1, line_end_i)
  IN  IF comment_text # <<>> THEN Append(lines, comment_text) ELSE lines

(* The leading "*" of a block-comment line is stripped, one level only. *)
StripStar(line) ==
  IF line # <<>> /\ Head(line) = "*" THEN Tail(line) ELSE line

(* The loop of parse_ml_comment over parse_ml_comment_line: each line   *)
(* between j and the closer, star-stripped, appended when non-empty.    *)
RECURSIVE ParseMlCommentLines(_, _, _)
ParseMlCommentLines(j, ml_comment_end_i, lines) ==
  IF j >= ml_comment_end_i THEN lines
  ELSE LET nl         == Find(NL, j)
           line_end_i == IF nl = -1 THEN ml_comment_end_i ELSE nl
           stripped   == StripStar(Slice(j, Min({line_end_i, ml_comment_end_i})))
       IN  ParseMlCommentLines(line_end_i + 1, ml_comment_end_i,
             IF stripped # <<>> THEN Append(lines, stripped) ELSE lines)

(* The characters of an original name: its tokens joined by spaces. *)
Spell(orig) ==
  FlattenSeq([k \in DOMAIN orig |->
                (IF k > 1 THEN <<" ">> ELSE <<>>) \o Spelling[orig[k]]])

(* generate_comment: do_replacements(COMMENT_REPLACEMENTS) on each line. *)
GenerateComment(lines) ==
  [k \in DOMAIN lines |->
     SelectSeq(ReplaceAll(lines[k], "&", "and"),
               LAMBDA t : t \notin {"<tt>", "</tt>"})]

(* generate_toString handed the proto name where the Java name belongs. *)
AddToOutputOrigToString(orig, canon, lines) ==
  /\ decl' = Append(decl, [orig |-> orig, canon |-> canon,
                           doc |-> GenerateComment(lines), sep |-> ","])
  /\ valueOf' = Append(valueOf, <<orig, canon>>)
  /\ toString' = IF HasToString THEN Append(toString, orig) ELSE toString

(* add_to_<Target>: generate_enum appends a declaration ending in ",",   *)
(* generate_valueOf a case, and for RequestType and FeeDataType          *)
(* generate_toString a case.                                             *)
AddToOutput(orig, canon, lines) ==
  /\ decl' = Append(decl, [orig |-> orig, canon |-> canon,
                           doc |-> GenerateComment(lines), sep |-> ","])
  /\ valueOf' = Append(valueOf, <<orig, canon>>)
  /\ toString' = IF HasToString THEN Append(toString, canon) ELSE toString

(* A declaration section left as it is: the finalize call forgotten. *)
KeepLastEnumComma(d) == d

(* replace_last_enum_comma: a trailing ",\n\n" becomes ";\n\n". *)
ReplaceLastEnumComma(d) ==
  IF d # <<>> /\ Last(d).sep = ","
  THEN [d EXCEPT ![Len(d)].sep = ";"]
  ELSE d

-----------------------------------------------------------------------------
(* generate_<Target> starts on the file t. *)
InitWith(t) ==
  /\ text = t
  /\ i = 0
  /\ comment_lines = <<>>
  /\ decl = <<>> /\ valueOf = <<>> /\ toString = <<>>
  /\ pc = "locate"

Init == \E t \in Inputs : InitWith(t)

(* parse_enum_from_file: in_path does not exist; returns, no finalize. *)
LocateMissingFile ==
  /\ pc = "locate"
  /\ text = NoFile
  /\ pc' = "write"
  /\ UNCHANGED <<text, i, comment_lines, slots>>

(* parse_enum_from_file: "enum <enum_name>" is not in the file. *)
LocateEnumNotFound ==
  /\ pc = "locate"
  /\ text # NoFile
  /\ EnumStart = -1
  /\ pc' = "write"
  /\ UNCHANGED <<text, i, comment_lines, slots>>

(* parse_enum_from_file: the cursor starts after the next "{". *)
LocateEnum ==
  /\ pc = "locate"
  /\ text # NoFile
  /\ EnumStart # -1
  /\ i' = Find("{", EnumStart) + 1
  /\ comment_lines' = <<>>
  /\ pc' = "scan"
  /\ UNCHANGED <<text, slots>>

Scanning == pc = "scan" /\ i >= 0

(* parse_enum_code: none of the markers occurs after the cursor. *)
ScanNoMarker ==
  /\ Scanning
  /\ Indices = {}
  /\ i' = -1
  /\ UNCHANGED <<text, comment_lines, slots, pc>>

(* parse_enum_code -> parse_enum_line: a trailing "//" comment of the   *)
(* line is buffered, the name before "=" is converted and handed to     *)
(* add_to_output with the buffer, the buffer is cleared, and the cursor *)
(* moves past the end of the line.                                      *)
ScanEnumLine ==
  /\ Scanning
  /\ Indices # {}
  /\ NextI = EqualI
  /\ LET lines == IF EqualI < SlI /\ SlI < LineEndI
                  THEN ParseSlComment(comment_lines, SlI, LineEndI)
                  ELSE comment_lines
         original_name == Slice(i, EqualI)
     IN  /\ original_name # <<>>
         /\ Len(decl) < MaxMembers
         /\ AddToOutput(original_name, FinalName(Spell(original_name)), lines)
         /\ comment_lines' = <<>>
         /\ i' = LineEndI + 1
  /\ UNCHANGED <<text, pc>>

(* parse_enum_line with nothing before "=": name[0] raises IndexError in *)
(* ensure_cap_snake_name; the handler of parse_enum_from_file catches it *)
(* and returns without finalize_output.                                  *)
ScanEnumLineEmptyName ==
  /\ Scanning
  /\ Indices # {}
  /\ NextI = EqualI
  /\ Slice(i, EqualI) = <<>>
  /\ comment_lines' = IF EqualI < SlI /\ SlI < LineEndI
                      THEN ParseSlComment(comment_lines, SlI, LineEndI)
                      ELSE comment_lines
  /\ pc' = "write"
  /\ UNCHANGED <<text, i, slots>>

(* parse_enum_code -> parse_sl_comment, then past the end of the line. *)
ScanSlComment ==
  /\ Scanning
  /\ Indices # {}
  /\ NextI = SlI
  /\ comment_lines' = ParseSlComment(comment_lines, SlI, LineEndI)
  /\ i' = LineEndI + 1
  /\ UNCHANGED <<text, slots, pc>>

(* parse_enum_code -> parse_ml_comment: every line up to "*/" buffered, *)
(* the cursor just after "*/".                                          *)
ScanMlComment ==
  /\ Scanning
  /\ Indices # {}
  /\ NextI = MlI
  /\ LET ml_comment_end_i == Find("*/", MlI + 1)
     IN  /\ ml_comment_end_i # -1
         /\ comment_lines' = ParseMlCommentLines(MlI + 1, ml_comment_end_i,
                                                 comment_lines)
         /\ i' = ml_comment_end_i + 1
  /\ UNCHANGED <<text, slots, pc>>

(* parse_ml_comment without a closing "*/": returns -1, the scan ends. *)
ScanMlCommentUnterminated ==
  /\ Scanning
  /\ Indices # {}
  /\ NextI = MlI
  /\ Find("*/", MlI + 1) = -1
  /\ i' = -1
  /\ UNCHANGED <<text, comment_lines, slots, pc>>

(* parse_enum_code: a line without markers is skipped. *)
ScanLineEnd ==
  /\ Scanning
  /\ Indices # {}
  /\ NextI = LineEndI
  /\ i' = LineEndI + 1
  /\ UNCHANGED <<text, comment_lines, slots, pc>>

(* parse_enum_code: "}" ends the scan. *)
ScanEnumEnd ==
  /\ Scanning
  /\ Indices # {}
  /\ NextI = EnumEndI
  /\ i' = -1
  /\ UNCHANGED <<text, comment_lines, slots, pc>>

(* The loop "while i >= 0" has ended: finalize_output. *)
Finalize ==
  /\ pc = "scan"
  /\ i < 0
  /\ decl' = ReplaceLastEnumComma(decl)
  /\ pc' = "write"
  /\ UNCHANGED <<text, i, comment_lines, valueOf, toString>>

(* generate_<Target>: output_java_file writes the sections. *)
WriteJavaFile ==
  /\ pc = "write"
  /\ pc' = "done"
  /\ UNCHANGED <<text, i, comment_lines, slots>>

Terminating ==
  /\ pc = "done"
  /\ UNCHANGED vars

Next ==
  \/ LocateMissingFile \/ LocateEnumNotFound \/ LocateEnum
  \/ ScanNoMarker \/ ScanEnumLine \/ ScanEnumLineEmptyName
  \/ ScanSlComment \/ ScanMlComment \/ ScanMlCommentUnterminated
  \/ ScanLineEnd \/ ScanEnumEnd
  \/ Finalize \/ WriteJavaFile \/ Terminating

Spec == Init /\ [][Next]_vars

-----------------------------------------------------------------------------
DeclEntry == [orig : Seq(STRING), canon : Seq(Chars),
              doc : Seq(Seq(STRING)), sep : {",", ";"}]

TypeOK ==
  /\ \/ text = NoFile
     \/ text \in Seq(STRING) /\ i \in -1 .. Len(text)
  /\ comment_lines \in Seq(Seq(STRING))
  /\ decl \in Seq(DeclEntry)
  /\ valueOf \in Seq(Seq(STRING) \X Seq(Chars))
  /\ toString \in Seq(Seq(Chars))
  /\ pc \in {"locate", "scan", "write", "done"}

(* The declarations written to the Java file are a well-formed enum     *)
(* constant list: every one but the last ends with ",", the last with   *)
(* ";" (replace_last_enum_comma has run on what add_to_ produced).      *)
DeclTerminated ==
  pc = "done" /\ decl # <<>> =>
    /\ Last(decl).sep = ";"
    /\ \A k \in 1 .. Len(decl) - 1 : decl[k].sep = ","

(* The scan cursor never moves back (specification, section 3): every   *)
(* step of the loop leaves it where it was or further on, or ends the   *)
(* scan with -1.                                                        *)
CursorNeverMovesBack ==
  [][Scanning => i' >= i \/ i' = -1]_vars
=============================================================================
