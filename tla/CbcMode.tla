------------------------------- MODULE CbcMode -------------------------------
(***************************************************************************)
(* What CBC mode promises, whatever the block cipher: the relation between *)
(* a message and its ciphertext.  The cipher is a parameter here, as it is *)
(* for the CBC functions of aes.c, which only call Cipher and InvCipher.   *)
(***************************************************************************)
EXTENDS Integers, Sequences

CONSTANTS
  Key,       \* the expanded keys
  Block,     \* blocks of AES_BLOCKLEN bytes
  Enc(_, _), \* Cipher, given key and block
  Dec(_, _), \* InvCipher, given key and block
  XorWithIv(_, _) \* the mixing of a block with Iv

\* Of the cipher the mode needs no more than that InvCipher takes back Cipher.
ASSUME CbcAssumption ==
  /\ \A k \in Key, b \in Block :
       Enc(k, b) \in Block /\ Dec(k, b) \in Block /\ Dec(k, Enc(k, b)) = b
  /\ \A a, b \in Block : XorWithIv(a, b) \in Block /\ XorWithIv(XorWithIv(a, b), b) = a

\* The block that is mixed with block n: the IV, or the ciphertext before it.
Previous(iv, cipher, n) == IF n = 1 THEN iv ELSE cipher[n - 1]

\* The first n blocks of cipher encrypt those of plain.
Encrypts(key, iv, plain, cipher, n) ==
  \A m \in 1..n : cipher[m] = Enc(key, XorWithIv(plain[m], Previous(iv, cipher, m)))
=============================================================================
