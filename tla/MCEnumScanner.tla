---------------------------- MODULE MCEnumScanner ----------------------------
(***************************************************************************)
(* Instantiates EnumScanner for one target over every proto file of a    *)
(* small grammar: an enum body of up to MaxItems members, each with a    *)
(* leading comment form and a trailing form, optionally a comment after  *)
(* the last member, and a way the enum ends.  The cfg chooses which      *)
(* forms occur.  The ghost variable layout remembers what was written,   *)
(* so that the members the specification extracts from it can be        *)
(* compared with what the scanner produces from the rendered text.       *)
(***************************************************************************)
EXTENDS EnumScanner

CONSTANTS
  MemberNames,  \* identifier tokens used as member names (NoName: none)
  LeadForms,    \* comment forms written before a member
  TrailForms,   \* forms written after "NAME = 5;" on the member line
  CloseForms,   \* how the file goes on after the last member
  MaxItems,     \* most members in one enum body
  NamelessAfterMember  \* a line " = 5;" may follow a member

NoName == "<no name>"

\* Alphabet of CapSnake, as in MCCapSnake, plus the space that joins tokens.
MCUpperChars == {"A", "B", "I", "D"}
MCLowerChars == {"a", "b", "i", "d"}
MCOtherChars == {"1", " "}
MCUpperOf ==
  [c \in MCUpperChars \cup MCLowerChars \cup MCOtherChars \cup {"_"} |->
     CASE c = "a" -> "A" [] c = "b" -> "B" [] c = "i" -> "I" [] c = "d" -> "D"
       [] OTHER -> c]
MCOverride == [n \in {<<"A", "A", "_", "B", "B">>} |-> <<"B", "B">>]

\* Tokens that can stand before "=": the members, and the names of the
\* declarations before and after the enum.
MCSpelling ==
  [t \in {"AccountID", "UtilPrng", "OK", "syntax", "field"} |->
     CASE t = "AccountID" -> <<"A", "a", "I", "D">>
       [] t = "UtilPrng"  -> <<"A", "a", "B", "b">>
       [] t = "OK"        -> <<"B", "B", "A">>
       [] t = "syntax"    -> <<"a", "b">>
       [] t = "field"     -> <<"b", "a">>]

NameTok(n) == IF n = NoName THEN <<>> ELSE <<n>>
NameChars(n) == IF n = NoName THEN <<>> ELSE MCSpelling[n]

\* Comment forms: their tokens, and the documentation lines they carry.
LeadTok ==
  [none       |-> <<>>,
   blank      |-> <<NL>>,
   line       |-> <<"//", "w1", NL>>,
   empty_line |-> <<"//", NL>>,
   block      |-> <<"/*", "w2", "*/", NL>>,
   javadoc    |-> <<"/*", "*", NL, "*", "w1", NL, "*", "&", NL, "*/", NL>>,
   line_block |-> <<"//", "w1", NL, "/*", "w2", "*/", NL>>]
LeadDoc ==
  [none |-> <<>>, blank |-> <<>>, line |-> <<<<"w1">>>>, empty_line |-> <<>>,
   block |-> <<<<"w2">>>>, javadoc |-> <<<<"w1">>, <<"&">>>>,
   line_block |-> <<<<"w1">>, <<"w2">>>>]
TrailTok ==
  [none  |-> <<NL>>,
   line  |-> <<"//", "w2", NL>>,
   block |-> <<"/*", "w1", NL, "*", "w2", NL, "*/", NL>>]
TrailDoc ==
  [none |-> <<>>, line |-> <<<<"w2">>>>, block |-> <<<<"w1">>, <<"w2">>>>]

Member == [name : MemberNames, lead : LeadForms, trail : TrailForms]

Body(ms) ==
  FlattenSeq([k \in DOMAIN ms |->
    LeadTok[ms[k].lead] \o NameTok(ms[k].name) \o <<"=", "v">>
                        \o TrailTok[ms[k].trail]])

Preamble == <<"syntax", "=", "v", NL>>
Open     == <<"enum", EnumName, "{", NL>>
Trailer  == <<"message", "M", "{", NL, "field", "=", "v", NL, "}", NL>>

\* The file for a layout c.  own_line: "}" on its own line, another
\* declaration after the enum.  inline: "}" after the last member on its
\* line.  inline_eof: the same line ends the file.  truncated: the file
\* ends inside the body.  unterminated: a block comment is never closed.
\* no_enum: the file has no such enum.  missing: the file does not exist.
Render(c) ==
  CASE c.close = "own_line" ->
         Preamble \o Open \o Body(c.ms) \o LeadTok[c.dangling]
                  \o <<"}", NL>> \o Trailer
    [] c.close = "inline"       ->
         Preamble \o Open \o Front(Body(c.ms)) \o <<"}", NL>> \o Trailer
    [] c.close = "inline_eof"   -> Preamble \o Open \o Front(Body(c.ms)) \o <<"}">>
    [] c.close = "truncated"    ->
         Preamble \o Open \o Body(c.ms) \o LeadTok[c.dangling]
    [] c.close = "unterminated" -> Preamble \o Open \o Body(c.ms) \o <<"/*", "w1">>
    [] c.close = "no_enum"      -> Preamble \o Trailer
    [] c.close = "missing"      -> NoFile

Valid(c) ==
  /\ c.close \in {"inline", "inline_eof"} =>
        c.ms # <<>> /\ Last(c.ms).trail = "none" /\ c.dangling = "none"
  /\ c.close \in {"unterminated", "no_enum", "missing"} => c.dangling = "none"
  /\ c.close \in {"no_enum", "missing"} => c.ms = <<>>
  /\ ~NamelessAfterMember =>
        \A k \in DOMAIN c.ms : c.ms[k].name = NoName => k = 1

Layouts ==
  {c \in [ms : BoundedSeq(Member, MaxItems), dangling : LeadForms,
          close : CloseForms] : Valid(c)}

MCInputs == {Render(c) : c \in Layouts}

\* The members before the first line without a name: garbled input halts
\* the scan of the enum body and what came before is kept (specification,
\* section 5 and the error list of section 7).
Kept(ms) ==
  LET garbled == {k \in DOMAIN ms : ms[k].name = NoName}
  IN  IF garbled = {} THEN ms ELSE SubSeq(ms, 1, Min(garbled) - 1)

\* What the specification extracts (sections 4.1, 4.2, 4.3, 7): every
\* member kept, in order, its canonical name by the reference rule, its
\* leading then trailing comment lines with the substitutions.
Expected(c) ==
  IF c.close \in {"no_enum", "missing"} THEN <<>>
  ELSE LET ms == Kept(c.ms)
       IN  [k \in DOMAIN ms |->
              [orig  |-> NameTok(ms[k].name),
               canon |-> SpecFinalName(NameChars(ms[k].name)),
               doc   |-> GenerateComment(LeadDoc[ms[k].lead]
                                         \o TrailDoc[ms[k].trail])]]

VARIABLE layout

MCInit == /\ layout \in Layouts
          /\ InitWith(Render(layout))
MCNext == Next /\ UNCHANGED layout
MCSpec == MCInit /\ [][MCNext]_<<vars, layout>>

-----------------------------------------------------------------------------
Emitted == [k \in DOMAIN decl |->
              [orig |-> decl[k].orig, canon |-> decl[k].canon, doc |-> decl[k].doc]]

Extract == INSTANCE EnumExtract
             WITH source <- Expected(layout), emitted <- Emitted,
                  closed <- pc = "done"

(* The scanner implements the extraction the specification describes:   *)
(* each member kept reaches the sections once, in order, with its        *)
(* canonical name and exactly its own comment lines, even when the file  *)
(* ends early, a block comment is never closed or the enum is absent;   *)
(* and the Java file is written only after the last one.                 *)
ImplementsEnumExtract == Extract!SafetySpec
=============================================================================
