CONSTANTS
  UpperChars <- MCUpperChars
  LowerChars <- MCLowerChars
  OtherChars <- MCOtherChars
  UpperOf <- MCUpperOf
  ENUM_OVERRIDE <- MCOverride
  MaxNameLen = 5
SPECIFICATION Spec
INVARIANT CapSnakeMatchesSpec
