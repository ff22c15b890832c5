----------------------------- MODULE MCPgCrypto -----------------------------
(***************************************************************************)
(* PgCrypto with blocks and keys of 2 bytes and bytes of 2 bits: good,     *)
(* too short, too long and undecodable arguments; texts of 0 to 4 bytes.   *)
(***************************************************************************)
EXTENDS PgCrypto

MCBlock == [1..2 -> Byte]
MCKey   == [1..2 -> Byte]

\* A cipher that mixes both bytes of the block and depends on the key.
MCEnc(k, b) ==
  LET x == (b[1] + b[2] + k[1]) % 4
  IN  <<x, (b[2] + 3 * x + k[2]) % 4>>
MCDec(k, b) ==
  LET y == (b[2] - 3 * b[1] - k[2]) % 4
  IN  <<(b[1] - y - k[1]) % 4, y>>

XorByte(a, b) ==
  LET high == (a \div 2 + b \div 2) % 2
      low  == (a + b) % 2
  IN  2 * high + low
MCXor(a, b) == <<XorByte(a[1], b[1]), XorByte(a[2], b[2])>>

MCKeyTexts  == {Malformed, Base64(<<2>>), Base64(<<3, 1>>), Base64(<<1, 3, 0>>)}
MCIvTexts   == {Empty, Base64(<<1>>), Base64(<<3, 0>>)}
MCDataTexts == {Empty, Malformed, Base64(<<>>), Base64(<<1, 2, 3>>),
                Base64(<<0, 1>>)}
MCTexts     == {<<>>, <<1>>, <<1, 3>>, <<3, 1, 1>>, <<2, 1, 3, 1>>}
=============================================================================
