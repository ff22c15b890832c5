CONSTANTS
  Widths = {1, 3}
  MaxCharacters = 0
  LongText = 31
  Texts <- MCTexts
  SplitSizes = {6}
  Modulus = 1024
  MaxAllocSize = 255
SPECIFICATION Spec
INVARIANT OneBlockHoldsAll
CHECK_DEADLOCK FALSE
