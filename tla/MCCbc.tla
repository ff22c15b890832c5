-------------------------------- MODULE MCCbc --------------------------------
(***************************************************************************)
(* Cbc and Ctr on short messages of blocks of two bits, with a small       *)
(* cipher that is no exclusive or, nor its own inverse for both keys.      *)
(***************************************************************************)
EXTENDS Ctr

CONSTANTS MaxBlocks

MCKey   == 0..1
MCBlock == {<<a, b>> : a, b \in 0..1}

\* A permutation of the blocks, as numbers, for each key.
Permuted(k) == IF k = 0 THEN <<1, 2, 0, 3>> ELSE <<2, 1, 0, 3>>

MCEnc(k, b) ==
  LET y == Permuted(k)[2 * b[1] + b[2] + 1] IN <<y \div 2, y % 2>>

MCDec(k, b) == CHOOSE x \in MCBlock : MCEnc(k, x) = b

MCXorByte(a, b) == (a + b) % 2

MCXor(a, b) == <<MCXorByte(a[1], b[1]), MCXorByte(a[2], b[2])>>

MCMessages == UNION {[1..n -> MCBlock] : n \in 0..MaxBlocks}

MCTexts == {<<>>, <<1, 0, 1>>, <<0, 1, 1, 0, 1>>}
=============================================================================
