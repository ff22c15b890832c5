CONSTANTS
  Bytes = {Shared, TailA, TailB}
  NUL = NUL
  Junk = Junk
  MaxLength = 2
  Shared = Shared TailA = TailA TailB = TailB
  Characters <- TwoByteCharacters
  Strings <- TwoByteStrings
SPECIFICATION Spec
INVARIANT ResultIsText
CHECK_DEADLOCK FALSE
