SPECIFICATION TermSpec
CONSTANTS
  BufSize = 3
  NUL <- MCNUL
  LF <- MCLF
  CR <- MCCR
  Char <- MCChar
  MaxLine = 5
  Order <- MCOrder
  Kind <- MCKind
  Accepts = {"S_Temp", "Manual", "M_1"}
  Initial <- MCInitial
  Cap = 3
  Numbers <- MCNumbers
INVARIANTS
  TypeOK
  ParsesTheRemainder
  TermTypeOK
PROPERTIES
  RangeErrorIsFinal
  OnlyGluedClears
  ReachesTheNamed
