\* The last line of the file holds the last member and "}", and no newline
\* follows it.
CONSTANTS
  UpperChars <- MCUpperChars
  LowerChars <- MCLowerChars
  OtherChars <- MCOtherChars
  UpperOf <- MCUpperOf
  ENUM_OVERRIDE <- MCOverride
  Spelling <- MCSpelling
  Inputs <- MCInputs
  NoFile = NoFile
  EnumName = "HederaFunctionality"
  HasToString = TRUE
  MaxMembers = 4
  MaxItems = 2
  MemberNames = {"AccountID"}
  LeadForms = {"none"}
  TrailForms = {"none"}
  CloseForms = {"inline_eof"}
  NamelessAfterMember = FALSE
SPECIFICATION MCSpec
PROPERTY CursorNeverMovesBack
