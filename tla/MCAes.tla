-------------------------------- MODULE MCAes --------------------------------
(***************************************************************************)
(* AesBlock on the blocks the repository gives the ciphertext of, and on   *)
(* 16 blocks in which every byte occurs.                                   *)
(***************************************************************************)
EXTENDS AesBlock

Bytes(s) == [n \in 0..15 |-> s[n + 1]]

Vector(key, plain, cipher) ==
  [key |-> Bytes(key), plain |-> Bytes(plain), cipher |-> cipher]

\* The head of aes.c: four blocks under one key.
HeadOfAes ==
  LET key == <<43, 126, 21, 22, 40, 174, 210, 166, 171, 247, 21, 136, 9, 207, 79, 60>>
  IN  {
    Vector(key,
      <<107, 193, 190, 226, 46, 64, 159, 150, 233, 61, 126, 17, 115, 147, 23, 42>>,
      Bytes(<<58, 215, 123, 180, 13, 122, 54, 96, 168, 158, 202, 243, 36, 102, 239, 151>>)),
    Vector(key,
      <<174, 45, 138, 87, 30, 3, 172, 156, 158, 183, 111, 172, 69, 175, 142, 81>>,
      Bytes(<<245, 211, 213, 133, 3, 185, 105, 157, 231, 133, 137, 90, 150, 253, 186, 175>>)),
    Vector(key,
      <<48, 200, 28, 70, 163, 92, 228, 17, 229, 251, 193, 25, 26, 10, 82, 239>>,
      Bytes(<<67, 177, 205, 127, 89, 142, 206, 35, 136, 27, 0, 227, 237, 3, 6, 136>>)),
    Vector(key,
      <<246, 159, 36, 69, 223, 79, 155, 23, 173, 43, 65, 123, 230, 108, 55, 16>>,
      Bytes(<<123, 12, 120, 94, 39, 232, 173, 63, 130, 35, 32, 113, 4, 114, 93, 212>>))}

\* The example of pg_scrypto.md: its ciphertext has two blocks, and the text it
\* belongs to, filled up with two zeros, is xored with the IV and with the
\* first block of the ciphertext.
ExampleOfDocs ==
  LET key == <<236, 211, 148, 189, 18, 100, 88, 5, 141, 5, 133, 154, 152, 197, 97, 200>>
  IN  {
    Vector(key,
      <<69, 248, 235, 44, 138, 194, 164, 150, 127, 230, 155, 40, 74, 127, 131, 181>>,
      Bytes(<<96, 247, 105, 121, 162, 49, 173, 16, 117, 227, 5, 175, 217, 242, 21, 165>>)),
    Vector(key,
      <<250, 115, 140, 216, 9, 212, 40, 149, 147, 117, 188, 74, 101, 125, 21, 165>>,
      Bytes(<<27, 142, 95, 10, 64, 152, 39, 149, 70, 192, 30, 179, 30, 52, 26, 52>>))}

\* All bytes, 16 in a block, under a key of zeros.
EveryByte ==
  {Vector([n \in 1..16 |-> 0], [n \in 1..16 |-> 16 * row + n - 1], Undocumented) :
     row \in 0..15}

MCVectors == HeadOfAes \cup ExampleOfDocs \cup EveryByte
=============================================================================
