\* All pairs of strings of up to 4 bytes over 2 letters, empty ones included.
CONSTANTS
  Bytes = {a, b}
  NUL = NUL
  Junk = Junk
  MaxLength = 4
  Shared = Shared TailA = TailA TailB = TailB
  Characters <- OneByteCharacters
  Strings <- OneByteStrings
SPECIFICATION FairSpec
INVARIANTS TypeOK TableIsLCS NeverSpins ResultInBlock ResultIsCommon ResultIsLongest
PROPERTY Returns
CHECK_DEADLOCK FALSE
