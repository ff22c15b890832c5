------------------------------- MODULE ByteXor -------------------------------
(***************************************************************************)
(* The operator ^ of C on bytes, which AES and the check sum are made of.  *)
(***************************************************************************)
EXTENDS Integers

Byte == 0..255

\* Halves of a byte: the bits in which they differ.
XorHalf ==
  [p \in (0..15) \X (0..15) |->
     LET bit(x, n) == (x \div n) % 2
         differ(n) == IF bit(p[1], n) # bit(p[2], n) THEN n ELSE 0
     IN  differ(1) + differ(2) + differ(4) + differ(8)]
Xor(a, b) == 16 * XorHalf[<<a \div 16, b \div 16>>] + XorHalf[<<a % 16, b % 16>>]
=============================================================================
