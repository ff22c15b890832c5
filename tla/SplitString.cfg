\* Texts of up to 4 characters of 1, 3 and 4 bytes; and a text of 31 one-byte characters whose block no longer fits;
\* every boundary of $2.
CONSTANTS
  Widths = {1, 3, 4}
  MaxCharacters = 4
  LongText = 31
  Texts <- MCTexts
  SplitSizes <- MCSplitSizes
  Modulus = 1024
  MaxAllocSize = 255
SPECIFICATION Spec
INVARIANTS TypeOK ReadsInBounds CopyInBounds WindowsOfCharacters
CHECK_DEADLOCK FALSE
