\* A block comment after a member, on the member line, as in the CryptoTransfer
\* example of the specification (section 8).
CONSTANTS
  UpperChars <- MCUpperChars
  LowerChars <- MCLowerChars
  OtherChars <- MCOtherChars
  UpperOf <- MCUpperOf
  ENUM_OVERRIDE <- MCOverride
  Spelling <- MCSpelling
  Inputs <- MCInputs
  NoFile = NoFile
  EnumName = "HederaFunctionality"
  HasToString = TRUE
  MaxMembers = 4
  MaxItems = 2
  MemberNames = {"AccountID", "UtilPrng"}
  LeadForms = {"none", "line"}
  TrailForms = {"none", "block"}
  CloseForms = {"own_line"}
  NamelessAfterMember = FALSE
SPECIFICATION MCSpec
PROPERTY ImplementsEnumExtract
