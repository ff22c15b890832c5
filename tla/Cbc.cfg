\* Messages of up to 3 blocks over 4 values, every way to cut them into calls;
\* then in CTR mode texts of up to 5 bytes, every way to cut them.
CONSTANTS
  MaxBlocks = 3
  Key <- MCKey
  Block <- MCBlock
  Enc <- MCEnc
  Dec <- MCDec
  XorWithIv <- MCXor
  Messages <- MCMessages
  AES_BLOCKLEN = 2
  MaxByte = 1
  XorByte <- MCXorByte
  Texts <- MCTexts
  CtrAfter = 1
SPECIFICATION CtrSpec
INVARIANTS TypeOK EncryptedSoFar ContextCarriesOn RestoredSoFar
INVARIANTS CountersAreNew SamePiecesRestore WholePiecesAreOneCall
PROPERTY ImplementsMessage
CHECK_DEADLOCK FALSE
