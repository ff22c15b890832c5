\* The vectors of aes.c and of pg_scrypto.md, and blocks of every byte.
CONSTANT Vectors <- MCVectors
SPECIFICATION Spec
INVARIANTS DocumentedCiphertext RoundsTakenBack FieldIsAsDefined
CHECK_DEADLOCK FALSE
