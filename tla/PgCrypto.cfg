\* Any sequence of calls; texts of up to two blocks of 2 bytes.
CONSTANTS
  AES_BLOCKLEN = 2
  AES_KEYLEN = 2
  MaxTail = 1
  MaxByte = 3
  Block <- MCBlock
  Key <- MCKey
  Enc <- MCEnc
  Dec <- MCDec
  XorWithIv <- MCXor
  KeyTexts <- MCKeyTexts
  IvTexts <- MCIvTexts
  DataTexts <- MCDataTexts
  Texts <- MCTexts
SPECIFICATION Spec
INVARIANTS TypeOK WholeBlocks RoundTrip NullIsTruncation FreedOnReturn
