------------------------------ MODULE AesBlock ------------------------------
(***************************************************************************)
(* KeyExpansion, Cipher and InvCipher of aes.c, for AES128: the key of a   *)
(* vector is expanded word by word, its block encrypted round by round     *)
(* (AES_ECB_encrypt), and decrypted again (AES_ECB_decrypt).               *)
(***************************************************************************)
EXTENDS AesField

CONSTANT Vectors   \* records of a key, a plaintext and its ciphertext, if it is known

Undocumented == <<>>   \* in place of a ciphertext

ASSUME VectorsAssumption ==
  \A v \in Vectors : v.key \in State /\ v.plain \in State /\ v.cipher \in State \cup {Undocumented}

Nb == 4    \* columns of a state
Nk == 4    \* words of a key
Nr == 10   \* rounds

VARIABLES
  pc,        \* "expand", "encrypt", "decrypt" or "done"
  vector,
  RoundKey,  \* the bytes of the round keys computed so far
  i,         \* the next word of RoundKey
  round,     \* the next round, 0 before the first key is added
  state,     \* the buffer
  trace      \* trace[r]: state after round r of Cipher (history)

vars == <<pc, vector, RoundKey, i, round, state, trace>>

\* The first round key is the key.
Init ==
  /\ pc = "expand"
  /\ vector \in Vectors
  /\ RoundKey = vector.key
  /\ i = Nk
  /\ round = 0
  /\ state = vector.plain
  /\ trace = <<>>

\* Word w of the round keys, byte b.
At(w, b) == RoundKey[4 * w + b]

\* Fault: Rcon is used from its element 0.
tempa_RconFromZero(b) ==
  IF i % Nk # 0 THEN At(i - 1, b)
  ELSE Xor(getSBoxValue(At(i - 1, (b + 1) % 4)), IF b = 0 THEN Rcon[i \div Nk - 1] ELSE 0)

\* Byte b of tempa when it is added: the word before, every Nk-th time with
\* RotWord, SubWord and Rcon applied.
tempa(b) ==
  IF i % Nk # 0 THEN At(i - 1, b)
  ELSE Xor(getSBoxValue(At(i - 1, (b + 1) % 4)), IF b = 0 THEN Rcon[i \div Nk] ELSE 0)

\* The words of the expanded key.
Words == Nb * (Nr + 1)

\* One iteration of KeyExpansion.
ExpandWord ==
  /\ pc = "expand"
  /\ i < Words
  /\ RoundKey' = [n \in 0..(4 * i + 3) |->
                    IF n < 4 * i THEN RoundKey[n]
                    ELSE Xor(At(i - Nk, n - 4 * i), tempa(n - 4 * i))]
  /\ i' = i + 1
  /\ UNCHANGED <<pc, vector, round, state, trace>>

\* The key is complete; Cipher adds the first of its parts.
StartCipher ==
  /\ pc = "expand"
  /\ i = Words
  /\ pc' = "encrypt"
  /\ state' = AddRoundKey(0, state, RoundKey)
  /\ trace' = [r \in {0} |-> state']
  /\ round' = 1
  /\ UNCHANGED <<vector, RoundKey, i>>

\* One iteration of Cipher's loop, or the last round, which mixes no columns.
Round ==
  /\ pc = "encrypt"
  /\ round <= Nr
  /\ LET shifted == ShiftRows(SubBytes(state))
     IN  state' = AddRoundKey(round, IF round < Nr THEN MixColumns(shifted) ELSE shifted,
                              RoundKey)
  /\ trace' = [r \in 0..round |-> IF r = round THEN state' ELSE trace[r]]
  /\ round' = round + 1
  /\ UNCHANGED <<pc, vector, RoundKey, i>>

\* AES_ECB_decrypt is called: InvCipher takes the last part of the key away.
StartInvCipher ==
  /\ pc = "encrypt"
  /\ round > Nr
  /\ pc' = "decrypt"
  /\ state' = AddRoundKey(Nr, state, RoundKey)
  /\ round' = Nr - 1
  /\ UNCHANGED <<vector, RoundKey, i, trace>>

\* Fault: columns are mixed before the key is added, as in Cipher.
InvRound_MixFirst ==
  /\ pc = "decrypt"
  /\ round >= 0
  /\ LET back == InvSubBytes(InvShiftRows(state))
     IN  state' = IF round > 0
                  THEN AddRoundKey(round, InvMixColumns(back), RoundKey)
                  ELSE AddRoundKey(0, back, RoundKey)
  /\ round' = round - 1
  /\ UNCHANGED <<pc, vector, RoundKey, i, trace>>

\* One iteration of InvCipher's loop, or the last round.
InvRound ==
  /\ pc = "decrypt"
  /\ round >= 0
  /\ LET added == AddRoundKey(round, InvSubBytes(InvShiftRows(state)), RoundKey)
     IN  state' = IF round > 0 THEN InvMixColumns(added) ELSE added
  /\ round' = round - 1
  /\ UNCHANGED <<pc, vector, RoundKey, i, trace>>

Return ==
  /\ pc = "decrypt"
  /\ round < 0
  /\ pc' = "done"
  /\ UNCHANGED <<vector, RoundKey, i, round, state, trace>>

Next ==
  \/ ExpandWord
  \/ StartCipher
  \/ Round
  \/ StartInvCipher
  \/ InvRound
  \/ Return

Spec == Init /\ [][Next]_vars

-----------------------------------------------------------------------------

\* Cipher computes the documented ciphertexts.
DocumentedCiphertext ==
  pc = "encrypt" /\ round > Nr /\ vector.cipher # Undocumented =>
    state = vector.cipher

\* InvCipher goes the rounds of Cipher backwards: with round r still to do, it
\* is where Cipher was in round r + 1 when it had shifted the rows, and at the
\* end it has the plaintext.
RoundsTakenBack ==
  /\ pc = "decrypt" /\ round >= 0 => state = ShiftRows(SubBytes(trace[round]))
  /\ pc = "decrypt" /\ round < 0 => state = vector.plain

-----------------------------------------------------------------------------

\* The powers of 2 below 256, and bit n of a byte, counted around.
Weight == <<1, 2, 4, 8, 16, 32, 64, 128>>
BitOf(v, n) == (v \div Weight[(n % 8) + 1]) % 2

\* The product of polynomials a and b over GF(2) modulo X^8+X^4+X^3+X+1,
\* from the highest coefficient of b down.
Product(a, b) ==
  LET double(p) == IF p < 128 THEN 2 * p ELSE Xor(2 * p - 256, 27)
      p[n \in 0..8] ==
        IF n = 0 THEN 0
        ELSE Xor(double(p[n - 1]), IF BitOf(b, 8 - n) = 1 THEN a ELSE 0)
  IN  p[8]

\* The inverse of each byte, of 0 by convention 0.
InverseOf(a) == CHOOSE b \in Byte : Product(a, b) = 1
Inverses == [a \in Byte |-> IF a = 0 THEN 0 ELSE InverseOf(a)]

\* The affine map of the S-box: bit n is the sum of bits n, n+4 .. n+7 and of 63.
Affine(a) ==
  LET new(n) == (BitOf(a, n) + BitOf(a, n + 4) + BitOf(a, n + 5) + BitOf(a, n + 6)
                   + BitOf(a, n + 7) + BitOf(99, n)) % 2
  IN  new(0) + 2 * new(1) + 4 * new(2) + 8 * new(3)
        + 16 * new(4) + 32 * new(5) + 64 * new(6) + 128 * new(7)

\* Table and arithmetic are those of the field: sbox has the affine map of each
\* inverse, and Multiply, with its chain of calls of xtime, is the product for
\* the factors InvMixColumns has.  (That rsbox turns sbox around and
\* InvMixColumns takes back MixColumns is part of RoundsTakenBack.)
FieldIsAsDefined ==
  \A n \in 0..15 :
    /\ getSBoxValue(state[n]) = Affine(Inverses[state[n]])
    /\ \A y \in {9, 11, 13, 14} : Multiply(state[n], y) = Product(state[n], y)
=============================================================================
