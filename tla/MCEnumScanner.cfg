\* Enum bodies laid out the way the upstream protos are (every member on
\* its own line, comments before it or "//" after it, "}" on its own
\* line), and files the scan cannot finish cleanly: cut short by the end
\* of the file or by a block comment never closed, without the enum, or
\* absent.  A line with no name before "=" occurs only as the first line
\* of the body (MCEnumScanner_garbled.cfg has one after a member).
CONSTANTS
  UpperChars <- MCUpperChars
  LowerChars <- MCLowerChars
  OtherChars <- MCOtherChars
  UpperOf <- MCUpperOf
  ENUM_OVERRIDE <- MCOverride
  Spelling <- MCSpelling
  Inputs <- MCInputs
  NoFile = NoFile
  EnumName = "HederaFunctionality"
  HasToString = TRUE
  MaxMembers = 4
  MaxItems = 2
  MemberNames = {"AccountID", "UtilPrng", "<no name>"}
  LeadForms = {"none", "blank", "line", "empty_line", "block", "javadoc", "line_block"}
  TrailForms = {"none", "line"}
  CloseForms = {"own_line", "truncated", "unterminated", "no_enum", "missing"}
  NamelessAfterMember = FALSE
SPECIFICATION MCSpec
INVARIANT TypeOK
INVARIANT DeclTerminated
PROPERTY ImplementsEnumExtract
