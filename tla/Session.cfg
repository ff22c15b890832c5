\* int64 of 30 bits, int32 of 24, int8-like row counts; 1024 is 4, 0x8000 is 8.
CONSTANTS
  MaxInt64 = 536870911
  MaxInt32 = 8388607
  MaxUInt32 = 3
  Digits = 8
  Serials <- MCSerials
  Precisions <- MCPrecisions
  Scans = {s1, s2}
  ScanArgs <- MCScanArgs
  FormatLimit = 3
  PowLimit = 4
  Kilo = 4
  Roundings <- MCRoundings
  Sizes <- MCSizes
  MaxCount = 8
  Lengths <- MCLengths
  Flags <- MCFlags
  Randoms <- MCRandoms
  Texts <- MCTexts
  Stray <- MCStray
SYMMETRY ScanSymmetry
SPECIFICATION SessionSpec
INVARIANTS TypeOK PartsJoin DateIsDayOfYear ScanSendsItsRows
INVARIANTS HalfUp HalfEven ShownIsNear
INVARIANTS KindsAsAskedFor CharactersAsCounted CrcIsOfTextAndStray
