\* All pairs of texts of up to 4 bytes over 2 letters, empty ones included.
CONSTANTS
  Bytes = {a, b}
  MaxLength = 4
  Strings <- MCStrings
SPECIFICATION Spec
INVARIANTS TypeOK RowsAreLCS SimilarityIsLCS
CHECK_DEADLOCK FALSE
