------------------------------ MODULE AesProofs ------------------------------
(***************************************************************************)
(* Proofs about the AES-128 block cipher: InvCipher takes back what Cipher *)
(* did, for every key and every block, and tables and Multiply are what    *)
(* the field of 256 elements defines.  A step of Cipher is undone by a     *)
(* step of InvCipher: the table by the other one, the turns by turns, the  *)
(* sum with a round key by the same sum, and the mixing of a column        *)
(* because xtime is linear and because x^8 + x^4 + x^3 + x + 1 is 0.       *)
(***************************************************************************)
EXTENDS AesBlock, Facts, TLAPS

-----------------------------------------------------------------------------
\* The field.

LEMMA XtimeBits ==
  ASSUME NEW a \in Byte
  PROVE  /\ xtime(a) \in Byte
         /\ Bit(xtime(a), 1) <=> Bit(a, 128)
         /\ Bit(xtime(a), 2) <=> ~(Bit(a, 1) <=> Bit(a, 128))
         /\ Bit(xtime(a), 4) <=> Bit(a, 2)
         /\ Bit(xtime(a), 8) <=> ~(Bit(a, 4) <=> Bit(a, 128))
         /\ Bit(xtime(a), 16) <=> ~(Bit(a, 8) <=> Bit(a, 128))
         /\ Bit(xtime(a), 32) <=> Bit(a, 16)
         /\ Bit(xtime(a), 64) <=> Bit(a, 32)
         /\ Bit(xtime(a), 128) <=> Bit(a, 64)
<1>1. PICK d \in Byte : d = (2 * a) % 256
  BY DEF Byte
<1>2. PICK p \in Byte : p = (a \div 128) * 27
  BY DEF Byte
<1>3. xtime(a) = Xor(d, p)
  BY <1>1, <1>2 DEF xtime
<1>4. ~Bit(d, 1) /\ (Bit(d, 2) <=> Bit(a, 1)) /\ (Bit(d, 4) <=> Bit(a, 2))
  BY <1>1 DEF Byte, Bit
<1>5. (Bit(d, 8) <=> Bit(a, 4)) /\ (Bit(d, 16) <=> Bit(a, 8))
  BY <1>1 DEF Byte, Bit
<1>6. (Bit(d, 32) <=> Bit(a, 16)) /\ (Bit(d, 64) <=> Bit(a, 32))
  BY <1>1 DEF Byte, Bit
<1>7. Bit(d, 128) <=> Bit(a, 64)
  BY <1>1 DEF Byte, Bit
<1>8. /\ \A w \in {1, 2, 8, 16} : Bit(p, w) <=> Bit(a, 128)
      /\ \A w \in {4, 32, 64, 128} : ~Bit(p, w)
  BY <1>2 DEF Byte, Bit
<1> QED
  BY <1>3, <1>4, <1>5, <1>6, <1>7, <1>8, XorBits DEF Weights

LEMMA XtimeOfXor ==
  ASSUME NEW a \in Byte, NEW b \in Byte
  PROVE  xtime(Xor(a, b)) = Xor(xtime(a), xtime(b))
<1>1. PICK l \in Byte, r \in Byte, c \in Byte :
        c = Xor(a, b) /\ l = xtime(c) /\ r = Xor(xtime(a), xtime(b))
  BY XorLaws, XtimeBits
<1>2. ASSUME NEW w \in Weights PROVE Bit(c, w) <=> ~(Bit(a, w) <=> Bit(b, w))
  BY <1>1, XorBits
<1>3. ASSUME NEW w \in Weights PROVE Bit(r, w) <=> ~(Bit(xtime(a), w) <=> Bit(xtime(b), w))
  BY <1>1, XorBits, XtimeBits
<1>4. ASSUME NEW w \in Weights PROVE Bit(l, w) <=> Bit(r, w)
  BY <1>1, <1>2, <1>3, XtimeBits DEF Weights
<1> QED
  BY <1>1, <1>4, SameBits

\* What Multiply makes of the factors of InvMixColumns.
LEMMA MultiplyIs ==
  ASSUME NEW a \in Byte
  PROVE  LET a2 == xtime(a)
             a4 == xtime(a2)
             a8 == xtime(a4)
         IN  /\ Multiply(a, 14) = Xor(Xor(a2, a4), a8)
             /\ Multiply(a, 11) = Xor(Xor(a, a2), a8)
             /\ Multiply(a, 13) = Xor(Xor(a, a4), a8)
             /\ Multiply(a, 9) = Xor(a, a8)
<1>1. PICK a2 \in Byte, a4 \in Byte, a8 \in Byte, a16 \in Byte :
        a2 = xtime(a) /\ a4 = xtime(a2) /\ a8 = xtime(a4) /\ a16 = xtime(a8)
  BY XtimeBits
<1>2. \A x \in Byte : 1 * x = x /\ 0 * x = 0
  BY DEF Byte
<1>3. ASSUME NEW y \in {9, 11, 13, 14}
      PROVE  /\ (y \div 1) % 2 = IF y = 14 THEN 0 ELSE 1
             /\ (y \div 2) % 2 = IF y \in {11, 14} THEN 1 ELSE 0
             /\ (y \div 4) % 2 = IF y \in {13, 14} THEN 1 ELSE 0
             /\ (y \div 8) % 2 = 1
             /\ (y \div 16) % 2 = 0
  OBVIOUS
<1>4. ASSUME NEW y \in {9, 11, 13, 14}
      PROVE  Multiply(a, y) = Xor(Xor(Xor(Xor(IF y = 14 THEN 0 ELSE a,
                IF y \in {11, 14} THEN a2 ELSE 0), IF y \in {13, 14} THEN a4 ELSE 0), a8), 0)
  BY <1>1, <1>2, <1>3 DEF Multiply
<1>5. Multiply(a, 14) = Xor(Xor(Xor(Xor(0, a2), a4), a8), 0)
  BY <1>4
<1>6. Multiply(a, 11) = Xor(Xor(Xor(Xor(a, a2), 0), a8), 0)
  BY <1>4
<1>7. Multiply(a, 13) = Xor(Xor(Xor(Xor(a, 0), a4), a8), 0)
  BY <1>4
<1>8. Multiply(a, 9) = Xor(Xor(Xor(Xor(a, 0), 0), a8), 0)
  BY <1>4
<1> QED
  BY <1>1, <1>5, <1>6, <1>7, <1>8, XorLaws

-----------------------------------------------------------------------------
\* Products.  X+1 generates the field: its powers are all bytes but 0, and the
\* product of two of them is the power of the sum of the exponents.

Tripled(p) == Xor(xtime(p), p)

\* What Product adds to p[n - 1], doubled.
Selected(a, b, n) == IF BitOf(b, 8 - n) = 1 THEN a ELSE 0

LEMMA ProductIs ==
  ASSUME NEW a \in Byte, NEW b \in Byte
  PROVE  \E p \in [0..8 -> Byte] :
           /\ p[0] = 0
           /\ \A n \in 1..8 : p[n] = Xor(xtime(p[n - 1]), Selected(a, b, n))
           /\ Product(a, b) = p[8]
<1> DEFINE double(p) == IF p < 128 THEN 2 * p ELSE Xor(2 * p - 256, 27)
           Is(p) == p = [n \in 0..8 |-> IF n = 0 THEN 0
                                        ELSE Xor(double(p[n - 1]),
                                                 IF BitOf(b, 8 - n) = 1 THEN a ELSE 0)]
           step == [n \in Nat |-> [p \in Byte |-> Xor(double(p), Selected(a, b, n))]]
<1>1. Product(a, b) = (CHOOSE p : Is(p))[8]
  BY DEF Product
<1>2. 0 \in Byte /\ \A n \in Nat : Selected(a, b, n) \in Byte
  BY DEF Selected, Byte
<1>3. \A p \in Byte : double(p) = xtime(p)
  <2>1. ASSUME NEW p \in Byte, p < 128 PROVE xtime(p) = 2 * p
    <3>1. (2 * p) % 256 = 2 * p /\ (p \div 128) * 27 = 0 /\ 2 * p \in Byte
      BY <2>1 DEF Byte
    <3> QED
      BY <3>1, XorLaws DEF xtime
  <2>2. ASSUME NEW p \in Byte, ~(p < 128) PROVE xtime(p) = Xor(2 * p - 256, 27)
    <3>1. (2 * p) % 256 = 2 * p - 256 /\ p \div 128 = 1
      BY <2>2 DEF Byte
    <3> QED
      BY <3>1 DEF xtime
  <2> QED
    BY <2>1, <2>2
<1> HIDE DEF double
<1>4. ASSUME NEW n \in Nat, NEW p \in Byte
      PROVE  Xor(double(p), Selected(a, b, n)) \in Byte
  <2>1. PICK x \in Byte, y \in Byte : x = double(p) /\ y = Selected(a, b, n)
    BY <1>2, <1>3, XtimeBits
  <2> QED
    BY <2>1, XorBits
<1>5. step \in [Nat -> [Byte -> Byte]]
  BY <1>4
<1>6. PICK f \in [0..8 -> Byte] : Iterates(f, 0, step, 8)
  <2> HIDE DEF step
  <2> QED
    BY <1>2, <1>5, IteratesExists
<1>7. Is(f)
  <2>1. f = [n \in 0..8 |-> IF n = 0 THEN 0 ELSE step[n][f[n - 1]]]
    BY <1>6, Zenon DEF Iterates
  <2>2. ASSUME NEW n \in 0..8, n # 0
        PROVE  step[n][f[n - 1]] = Xor(double(f[n - 1]), IF BitOf(b, 8 - n) = 1 THEN a ELSE 0)
    <3>1. n \in Nat /\ f[n - 1] \in Byte
      BY <2>2
    <3> QED
      BY <3>1 DEF Selected
  <2> HIDE DEF step
  <2> QED
    BY <2>1, <2>2
<1> HIDE DEF step
<1>8. PICK p : Is(p) /\ Product(a, b) = p[8]
  <2> HIDE DEF Is
  <2> QED
    BY <1>1, <1>7
<1>9. p[0] = 0 /\ \A n \in 1..8 : p[n] = Xor(double(p[n - 1]), Selected(a, b, n))
  BY <1>8 DEF Selected
<1>10. \A n \in 1..8 : p[n - 1] \in Byte => p[n] \in Byte
  BY <1>4, <1>9
<1>11. \A n \in 0..8 : p[n] \in Byte
  BY <1>2, <1>9, <1>10
<1>12. p \in [0..8 -> Byte]
  BY <1>8, <1>11
<1>13. \A n \in 1..8 : p[n] = Xor(xtime(p[n - 1]), Selected(a, b, n))
  BY <1>3, <1>9, <1>11
<1> QED
  BY <1>8, <1>9, <1>12, <1>13

LEMMA ProductIsByte ==
  ASSUME NEW a \in Byte, NEW b \in Byte
  PROVE  Product(a, b) \in Byte
<1>1. PICK p \in [0..8 -> Byte] : Product(a, b) = p[8]
  BY ProductIs
<1> QED
  BY <1>1

\* A number below 128, doubled, with a new lowest bit.
LEMMA BitAppended ==
  ASSUME NEW k \in 0..127, NEW e \in 0..1
  PROVE  Xor(xtime(k), e) = 2 * k + e
<1>1. PICK r \in Byte : r = 2 * k + e
  BY DEF Byte
<1>2. k \in Byte /\ e \in Byte
  BY DEF Byte
<1>3. /\ Bit(r, 1) <=> e = 1
      /\ (Bit(r, 2) <=> Bit(k, 1)) /\ (Bit(r, 4) <=> Bit(k, 2))
  BY <1>1 DEF Bit
<1>4. (Bit(r, 8) <=> Bit(k, 4)) /\ (Bit(r, 16) <=> Bit(k, 8))
  BY <1>1 DEF Bit
<1>5. (Bit(r, 32) <=> Bit(k, 16)) /\ (Bit(r, 64) <=> Bit(k, 32))
  BY <1>1 DEF Bit
<1>6. (Bit(r, 128) <=> Bit(k, 64)) /\ ~Bit(k, 128)
  BY <1>1 DEF Bit
<1>7. (Bit(e, 1) <=> e = 1) /\ \A w \in {2, 4, 8, 16, 32, 64, 128} : ~Bit(e, w)
  BY DEF Bit
<1>8. PICK x \in Byte : x = xtime(k)
  BY <1>2, XtimeBits
<1>9. PICK l \in Byte : l = Xor(x, e)
  BY <1>2, XorBits
<1>10. \A w \in Weights : Bit(l, w) <=> ~(Bit(x, w) <=> Bit(e, w))
  BY <1>2, <1>9, XorBits
<1>11. /\ ~Bit(x, 1) /\ (Bit(x, 2) <=> Bit(k, 1)) /\ (Bit(x, 4) <=> Bit(k, 2))
       /\ (Bit(x, 8) <=> Bit(k, 4)) /\ (Bit(x, 16) <=> Bit(k, 8))
       /\ (Bit(x, 32) <=> Bit(k, 16)) /\ (Bit(x, 64) <=> Bit(k, 32))
       /\ (Bit(x, 128) <=> Bit(k, 64))
  BY <1>2, <1>6, <1>8, XtimeBits
<1>12. \A w \in Weights : Bit(l, w) <=> Bit(r, w)
  BY <1>3, <1>4, <1>5, <1>6, <1>7, <1>10, <1>11 DEF Weights
<1> QED
  BY <1>1, <1>8, <1>9, <1>12, SameBits

LEMMA BitOfIs ==
  ASSUME NEW b \in Byte
  PROVE  /\ BitOf(b, 7) = (b \div 128) % 2 /\ BitOf(b, 6) = (b \div 64) % 2
         /\ BitOf(b, 5) = (b \div 32) % 2 /\ BitOf(b, 4) = (b \div 16) % 2
         /\ BitOf(b, 3) = (b \div 8) % 2 /\ BitOf(b, 2) = (b \div 4) % 2
         /\ BitOf(b, 1) = (b \div 2) % 2 /\ BitOf(b, 0) = b % 2
         /\ \A n \in 0..7 : BitOf(b, n) \in 0..1
<1>1. /\ Weight[7 + 1] = 128 /\ Weight[6 + 1] = 64 /\ Weight[5 + 1] = 32 /\ Weight[4 + 1] = 16
      /\ Weight[3 + 1] = 8 /\ Weight[2 + 1] = 4 /\ Weight[1 + 1] = 2 /\ Weight[0 + 1] = 1
  BY DEF Weight
<1>2. \A n \in 0..7 : n % 8 = n
  OBVIOUS
<1>3. /\ BitOf(b, 7) = (b \div 128) % 2 /\ BitOf(b, 6) = (b \div 64) % 2
      /\ BitOf(b, 5) = (b \div 32) % 2 /\ BitOf(b, 4) = (b \div 16) % 2
      /\ BitOf(b, 3) = (b \div 8) % 2 /\ BitOf(b, 2) = (b \div 4) % 2
      /\ BitOf(b, 1) = (b \div 2) % 2 /\ BitOf(b, 0) = (b \div 1) % 2
  BY <1>1, <1>2 DEF BitOf
<1>4. \A w \in Weights : (b \div w) % 2 \in 0..1
  BY DEF Byte, Weights
<1>5. b \div 1 = b
  BY DEF Byte
<1>6. \A n \in 0..7 : n = 0 \/ n = 1 \/ n = 2 \/ n = 3 \/ n = 4 \/ n = 5 \/ n = 6 \/ n = 7
  OBVIOUS
<1> QED
  BY <1>3, <1>4, <1>5, <1>6 DEF Weights

LEMMA ProductOfOne ==
  ASSUME NEW b \in Byte
  PROVE  Product(1, b) = b
<1>1. 1 \in Byte
  BY DEF Byte
<1>2. PICK p \in [0..8 -> Byte] :
        /\ p[0] = 0
        /\ \A n \in 1..8 : p[n] = Xor(xtime(p[n - 1]), Selected(1, b, n))
        /\ Product(1, b) = p[8]
  BY <1>1, ProductIs
<1>3. ASSUME NEW m \in 0..7, NEW k \in 0..127, p[m] = k
      PROVE  p[m + 1] = 2 * k + BitOf(b, 7 - m)
  <2>1. m + 1 \in 1..8 /\ (m + 1) - 1 = m /\ 8 - (m + 1) = 7 - m
    OBVIOUS
  <2>2. PICK e \in 0..1 : e = BitOf(b, 7 - m)
    BY BitOfIs
  <2>3. Selected(1, b, m + 1) = e
    BY <2>1, <2>2 DEF Selected
  <2>4. p[m + 1] = Xor(xtime(k), e)
    BY <1>2, <1>3, <2>1, <2>3
  <2> QED
    BY <2>2, <2>4, BitAppended
<1>4. /\ BitOf(b, 7) = (b \div 128) % 2 /\ BitOf(b, 6) = (b \div 64) % 2
      /\ BitOf(b, 5) = (b \div 32) % 2 /\ BitOf(b, 4) = (b \div 16) % 2
      /\ BitOf(b, 3) = (b \div 8) % 2 /\ BitOf(b, 2) = (b \div 4) % 2
      /\ BitOf(b, 1) = (b \div 2) % 2 /\ BitOf(b, 0) = b % 2
  BY BitOfIs
<1>5. /\ b \div 128 = 2 * 0 + ((b \div 128) % 2)
      /\ b \div 64 = 2 * (b \div 128) + ((b \div 64) % 2)
      /\ b \div 32 = 2 * (b \div 64) + ((b \div 32) % 2)
      /\ b \div 16 = 2 * (b \div 32) + ((b \div 16) % 2)
  BY DEF Byte
<1>6. /\ b \div 8 = 2 * (b \div 16) + ((b \div 8) % 2)
      /\ b \div 4 = 2 * (b \div 8) + ((b \div 4) % 2)
      /\ b \div 2 = 2 * (b \div 4) + ((b \div 2) % 2)
      /\ b = 2 * (b \div 2) + (b % 2)
  BY DEF Byte
<1>7. /\ b \div 128 \in 0..127 /\ b \div 64 \in 0..127 /\ b \div 32 \in 0..127
      /\ b \div 16 \in 0..127
  BY DEF Byte
<1>8. b \div 8 \in 0..127 /\ b \div 4 \in 0..127 /\ b \div 2 \in 0..127
  BY DEF Byte
<1>9. PICK k1 \in 0..127, k2 \in 0..127, k3 \in 0..127, k4 \in 0..127 :
        k1 = b \div 128 /\ k2 = b \div 64 /\ k3 = b \div 32 /\ k4 = b \div 16
  BY <1>7
<1>10. PICK k5 \in 0..127, k6 \in 0..127, k7 \in 0..127 :
         k5 = b \div 8 /\ k6 = b \div 4 /\ k7 = b \div 2
  BY <1>8
<1>11. /\ k1 = 2 * 0 + BitOf(b, 7) /\ k2 = 2 * k1 + BitOf(b, 6)
       /\ k3 = 2 * k2 + BitOf(b, 5) /\ k4 = 2 * k3 + BitOf(b, 4)
  BY <1>4, <1>5, <1>9
<1>12. /\ k5 = 2 * k4 + BitOf(b, 3) /\ k6 = 2 * k5 + BitOf(b, 2)
       /\ k7 = 2 * k6 + BitOf(b, 1) /\ b = 2 * k7 + BitOf(b, 0)
  BY <1>4, <1>6, <1>9, <1>10
<1>13. p[1] = k1
  <2>1. p[0 + 1] = 2 * 0 + BitOf(b, 7 - 0)
    BY <1>2, <1>3
  <2> QED
    BY <1>11, <2>1
<1>14. p[2] = k2
  <2>1. p[1 + 1] = 2 * k1 + BitOf(b, 7 - 1)
    BY <1>3, <1>13
  <2> QED
    BY <1>11, <2>1
<1>15. p[3] = k3
  <2>1. p[2 + 1] = 2 * k2 + BitOf(b, 7 - 2)
    BY <1>3, <1>14
  <2> QED
    BY <1>11, <2>1
<1>16. p[4] = k4
  <2>1. p[3 + 1] = 2 * k3 + BitOf(b, 7 - 3)
    BY <1>3, <1>15
  <2> QED
    BY <1>11, <2>1
<1>17. p[5] = k5
  <2>1. p[4 + 1] = 2 * k4 + BitOf(b, 7 - 4)
    BY <1>3, <1>16
  <2> QED
    BY <1>12, <2>1
<1>18. p[6] = k6
  <2>1. p[5 + 1] = 2 * k5 + BitOf(b, 7 - 5)
    BY <1>3, <1>17
  <2> QED
    BY <1>12, <2>1
<1>19. p[7] = k7
  <2>1. p[6 + 1] = 2 * k6 + BitOf(b, 7 - 6)
    BY <1>3, <1>18
  <2> QED
    BY <1>12, <2>1
<1>20. p[8] = b
  <2>1. p[7 + 1] = 2 * k7 + BitOf(b, 7 - 7)
    BY <1>3, <1>19
  <2> QED
    BY <1>12, <2>1
<1> QED
  BY <1>2, <1>20

LEMMA ZeroTripled == 0 \in Byte /\ xtime(0) = 0 /\ Xor(0, 0) = 0 /\ Tripled(0) = 0
<1>1. 0 \in Byte /\ (2 * 0) % 256 = 0 /\ (0 \div 128) * 27 = 0
  BY DEF Byte
<1> QED
  BY <1>1, XorLaws DEF Tripled, xtime

LEMMA ProductOfZero ==
  ASSUME NEW a \in Byte
  PROVE  Product(a, 0) = 0
<1>1. PICK p \in [0..8 -> Byte] :
        /\ p[0] = 0
        /\ \A n \in 1..8 : p[n] = Xor(xtime(p[n - 1]), Selected(a, 0, n))
        /\ Product(a, 0) = p[8]
  BY ProductIs, ZeroTripled
<1>2. \A n \in 1..8 : Selected(a, 0, n) = 0
  <2>1. /\ BitOf(0, 7) = 0 /\ BitOf(0, 6) = 0 /\ BitOf(0, 5) = 0 /\ BitOf(0, 4) = 0
        /\ BitOf(0, 3) = 0 /\ BitOf(0, 2) = 0 /\ BitOf(0, 1) = 0 /\ BitOf(0, 0) = 0
    BY ZeroTripled, BitOfIs
  <2>2. \A n \in 1..8 : 8 - n \in 0..7
    OBVIOUS
  <2>3. \A n \in 0..7 : BitOf(0, n) = 0
    BY <2>1
  <2> QED
    BY <2>2, <2>3 DEF Selected
<1>3. \A n \in 1..8 : p[n - 1] = 0 => p[n] = 0
  BY <1>1, <1>2, ZeroTripled
<1> QED
  BY <1>1, <1>3

LEMMA TripledIs ==
  ASSUME NEW a \in Byte, NEW b \in Byte
  PROVE  /\ Tripled(a) \in Byte
         /\ Tripled(Xor(a, b)) = Xor(Tripled(a), Tripled(b))
         /\ xtime(Tripled(a)) = Tripled(xtime(a))
<1>1. PICK x \in Byte, y \in Byte : x = xtime(a) /\ y = xtime(b)
  BY XtimeBits
<1>2. xtime(Xor(a, b)) = Xor(x, y) /\ xtime(Xor(x, a)) = Xor(xtime(x), x)
  BY <1>1, XtimeOfXor
<1>3. PICK l \in Byte, r \in Byte :
        l = Xor(Xor(x, y), Xor(a, b)) /\ r = Xor(Xor(x, a), Xor(y, b))
  BY XorBits
<1>4. ASSUME NEW w \in Weights PROVE Bit(l, w) <=> Bit(r, w)
  BY <1>3, XorBits
<1>5. l = r
  BY <1>4, SameBits
<1> QED
  BY <1>1, <1>2, <1>3, <1>5, XorBits DEF Tripled

LEMMA ProductTripled ==
  ASSUME NEW a \in Byte, NEW b \in Byte
  PROVE  Product(Tripled(a), b) = Tripled(Product(a, b))
<1>1. PICK c \in Byte : c = Tripled(a)
  BY TripledIs
<1>2. PICK p \in [0..8 -> Byte] :
        /\ p[0] = 0
        /\ \A n \in 1..8 : p[n] = Xor(xtime(p[n - 1]), Selected(a, b, n))
        /\ Product(a, b) = p[8]
  BY ProductIs
<1>3. PICK q \in [0..8 -> Byte] :
        /\ q[0] = 0
        /\ \A n \in 1..8 : q[n] = Xor(xtime(q[n - 1]), Selected(c, b, n))
        /\ Product(c, b) = q[8]
  BY ProductIs
<1>4. 0 \in Byte /\ Tripled(0) = 0
  BY ZeroTripled
<1>5. ASSUME NEW n \in 1..8, q[n - 1] = Tripled(p[n - 1]) PROVE q[n] = Tripled(p[n])
  <2>1. PICK x \in Byte, s \in Byte : x = xtime(p[n - 1]) /\ s = Selected(a, b, n)
    BY <1>4, XtimeBits DEF Selected
  <2>2. Selected(c, b, n) = Tripled(s)
    BY <1>1, <1>4, <2>1 DEF Selected
  <2>3. xtime(q[n - 1]) = Tripled(x)
    BY <1>5, <2>1, TripledIs
  <2> QED
    BY <1>2, <1>3, <2>1, <2>2, <2>3, TripledIs
<1>6. q[8] = Tripled(p[8])
  BY <1>2, <1>3, <1>4, <1>5
<1> QED
  BY <1>1, <1>2, <1>3, <1>6

-----------------------------------------------------------------------------
\* The tables, entry by entry: the provers compute with the numbers in them.

\* The powers of X+1, their exponents (of 0, which is none, 0) and the inverses.
powerRows ==
  << <<  1,   3,   5,  15,  17,  51,  85, 255,  26,  46, 114, 150, 161, 248,  19,  53>>,
     << 95, 225,  56,  72, 216, 115, 149, 164, 247,   2,   6,  10,  30,  34, 102, 170>>,
     <<229,  52,  92, 228,  55,  89, 235,  38, 106, 190, 217, 112, 144, 171, 230,  49>>,
     << 83, 245,   4,  12,  20,  60,  68, 204,  79, 209, 104, 184, 211, 110, 178, 205>>,
     << 76, 212, 103, 169, 224,  59,  77, 215,  98, 166, 241,   8,  24,  40, 120, 136>>,
     <<131, 158, 185, 208, 107, 189, 220, 127, 129, 152, 179, 206,  73, 219, 118, 154>>,
     <<181, 196,  87, 249,  16,  48,  80, 240,  11,  29,  39, 105, 187, 214,  97, 163>>,
     <<254,  25,  43, 125, 135, 146, 173, 236,  47, 113, 147, 174, 233,  32,  96, 160>>,
     <<251,  22,  58,  78, 210, 109, 183, 194,  93, 231,  50,  86, 250,  21,  63,  65>>,
     <<195,  94, 226,  61,  71, 201,  64, 192,  91, 237,  44, 116, 156, 191, 218, 117>>,
     <<159, 186, 213, 100, 172, 239,  42, 126, 130, 157, 188, 223, 122, 142, 137, 128>>,
     <<155, 182, 193,  88, 232,  35, 101, 175, 234,  37, 111, 177, 200,  67, 197,  84>>,
     <<252,  31,  33,  99, 165, 244,   7,   9,  27,  45, 119, 153, 176, 203,  70, 202>>,
     << 69, 207,  74, 222, 121, 139, 134, 145, 168, 227,  62,  66, 198,  81, 243,  14>>,
     << 18,  54,  90, 238,  41, 123, 141, 140, 143, 138, 133, 148, 167, 242,  13,  23>>,
     << 57,  75, 221, 124, 132, 151, 162, 253,  28,  36, 108, 180, 199,  82, 246,   1>> >>

logRows ==
  << <<  0,   0,  25,   1,  50,   2,  26, 198,  75, 199,  27, 104,  51, 238, 223,   3>>,
     <<100,   4, 224,  14,  52, 141, 129, 239,  76, 113,   8, 200, 248, 105,  28, 193>>,
     <<125, 194,  29, 181, 249, 185,  39, 106,  77, 228, 166, 114, 154, 201,   9, 120>>,
     <<101,  47, 138,   5,  33,  15, 225,  36,  18, 240, 130,  69,  53, 147, 218, 142>>,
     <<150, 143, 219, 189,  54, 208, 206, 148,  19,  92, 210, 241,  64,  70, 131,  56>>,
     <<102, 221, 253,  48, 191,   6, 139,  98, 179,  37, 226, 152,  34, 136, 145,  16>>,
     <<126, 110,  72, 195, 163, 182,  30,  66,  58, 107,  40,  84, 250, 133,  61, 186>>,
     << 43, 121,  10,  21, 155, 159,  94, 202,  78, 212, 172, 229, 243, 115, 167,  87>>,
     <<175,  88, 168,  80, 244, 234, 214, 116,  79, 174, 233, 213, 231, 230, 173, 232>>,
     << 44, 215, 117, 122, 235,  22,  11, 245,  89, 203,  95, 176, 156, 169,  81, 160>>,
     <<127,  12, 246, 111,  23, 196,  73, 236, 216,  67,  31,  45, 164, 118, 123, 183>>,
     <<204, 187,  62,  90, 251,  96, 177, 134,  59,  82, 161, 108, 170,  85,  41, 157>>,
     <<151, 178, 135, 144,  97, 190, 220, 252, 188, 149, 207, 205,  55,  63,  91, 209>>,
     << 83,  57, 132,  60,  65, 162, 109,  71,  20,  42, 158,  93,  86, 242, 211, 171>>,
     << 68,  17, 146, 217,  35,  32,  46, 137, 180, 124, 184,  38, 119, 153, 227, 165>>,
     <<103,  74, 237, 222, 197,  49, 254,  24,  13,  99, 140, 128, 192, 247, 112,   7>> >>

inverseRows ==
  << <<  0,   1, 141, 246, 203,  82, 123, 209, 232,  79,  41, 192, 176, 225, 229, 199>>,
     <<116, 180, 170,  75, 153,  43,  96,  95,  88,  63, 253, 204, 255,  64, 238, 178>>,
     << 58, 110,  90, 241,  85,  77, 168, 201, 193,  10, 152,  21,  48,  68, 162, 194>>,
     << 44,  69, 146, 108, 243,  57, 102,  66, 242,  53,  32, 111, 119, 187,  89,  25>>,
     << 29, 254,  55, 103,  45,  49, 245, 105, 167, 100, 171,  19,  84,  37, 233,   9>>,
     <<237,  92,   5, 202,  76,  36, 135, 191,  24,  62,  34, 240,  81, 236,  97,  23>>,
     << 22,  94, 175, 211,  73, 166,  54,  67, 244,  71, 145, 223,  51, 147,  33,  59>>,
     <<121, 183, 151, 133,  16, 181, 186,  60, 182, 112, 208,   6, 161, 250, 129, 130>>,
     <<131, 126, 127, 128, 150, 115, 190,  86, 155, 158, 149, 217, 247,   2, 185, 164>>,
     <<222, 106,  50, 109, 216, 138, 132, 114,  42,  20, 159, 136, 249, 220, 137, 154>>,
     <<251, 124,  46, 195, 143, 184, 101,  72,  38, 200,  18,  74, 206, 231, 210,  98>>,
     << 12, 224,  31, 239,  17, 117, 120, 113, 165, 142, 118,  61, 189, 188, 134,  87>>,
     << 11,  40,  47, 163, 218, 212, 228,  15, 169,  39,  83,   4,  27, 252, 172, 230>>,
     <<122,   7, 174,  99, 197, 219, 226, 234, 148, 139, 196, 213, 157, 248, 144, 107>>,
     <<177,  13, 214, 235, 198,  14, 207, 173,   8,  78, 215, 227,  93,  80,  30, 179>>,
     << 91,  35,  56,  52, 104,  70,   3, 140, 221, 156, 125, 160, 205,  26,  65,  28>> >>
\* Entry n of 16 rows of 16.
Entry(rows, n) == rows[(n \div 16) + 1][(n % 16) + 1]

Power(n) == Entry(powerRows, n)
Exponent(b) == Entry(logRows, b)

LEMMA RowAndColumn ==
  ASSUME NEW n \in Byte
  PROVE  \E r \in 1..16, c \in 1..16 :
           n = 16 * r + c - 17 /\ (n \div 16) + 1 = r /\ (n % 16) + 1 = c
<1>1. PICK r \in 1..16 : r = (n \div 16) + 1
  BY DEF Byte
<1>2. PICK c \in 1..16 : c = (n % 16) + 1
  BY DEF Byte
<1>3. n = 16 * (n \div 16) + (n % 16)
  BY DEF Byte
<1>4. n = 16 * r + c - 17
  BY <1>1, <1>2, <1>3 DEF Byte
<1> QED
  BY <1>1, <1>2, <1>4

\* rsbox turns sbox around.
LEMMA TablesTurned ==
  ASSUME NEW b \in Byte
  PROVE  getSBoxValue(b) \in Byte /\ getSBoxInvert(getSBoxValue(b)) = b
<1>1. \A r, c \in 1..16 : sboxRows[r][c] \in 0..255
  BY SMTT(30) DEF sboxRows
<1>2. \A r, c \in 1..16 : getSBoxInvert(sboxRows[r][c]) = 16 * r + c - 17
  BY SMTT(30) DEF sboxRows, rsboxRows, getSBoxInvert
<1>3. PICK r \in 1..16, c \in 1..16 :
        b = 16 * r + c - 17 /\ (b \div 16) + 1 = r /\ (b % 16) + 1 = c
  BY RowAndColumn
<1>4. getSBoxValue(b) = sboxRows[r][c]
  BY <1>3 DEF getSBoxValue
<1>5. sboxRows[r][c] \in Byte
  BY <1>1 DEF Byte
<1> QED
  BY <1>2, <1>3, <1>4, <1>5

\* A power of X+1 is not 0, and below 255 its exponent can be looked up.
LEMMA PowerIs ==
  ASSUME NEW n \in 0..255
  PROVE  /\ Power(n) \in Byte /\ Power(n) # 0
         /\ n # 255 => Exponent(Power(n)) = n
<1>1. \A r, c \in 1..16 : powerRows[r][c] \in 1..255
  BY SMTT(30) DEF powerRows
<1>2. \A r, c \in 1..16 : 16 * r + c < 272 => Exponent(powerRows[r][c]) = 16 * r + c - 17
  BY SMTT(30) DEF powerRows, logRows, Entry, Exponent
<1>3. PICK r \in 1..16, c \in 1..16 :
        n = 16 * r + c - 17 /\ (n \div 16) + 1 = r /\ (n % 16) + 1 = c
  BY RowAndColumn DEF Byte
<1>4. Power(n) = powerRows[r][c]
  BY <1>3 DEF Power, Entry
<1>5. PICK p \in 1..255 : p = powerRows[r][c]
  BY <1>1
<1>6. p \in Byte /\ p # 0
  BY DEF Byte
<1> QED
  BY <1>2, <1>3, <1>4, <1>5, <1>6

\* Every byte but 0 is a power of X+1.
LEMMA ExponentIs ==
  ASSUME NEW b \in Byte, b # 0
  PROVE  Exponent(b) \in 0..254 /\ Power(Exponent(b)) = b
<1>1. \A r, c \in 1..16 : logRows[r][c] \in 0..254
  BY SMTT(30) DEF logRows
<1>2. \A r, c \in 1..16 : 16 * r + c > 17 => Power(logRows[r][c]) = 16 * r + c - 17
  BY SMTT(30) DEF powerRows, logRows, Entry, Power
<1>3. PICK r \in 1..16, c \in 1..16 :
        b = 16 * r + c - 17 /\ (b \div 16) + 1 = r /\ (b % 16) + 1 = c
  BY RowAndColumn
<1>4. Exponent(b) = logRows[r][c]
  BY <1>3 DEF Exponent, Entry
<1>5. Power(logRows[r][c]) = b
  BY <1>2, <1>3
<1>6. logRows[r][c] \in 0..254
  BY <1>1
<1> QED
  BY <1>4, <1>5, <1>6

\* The bits of the sum of a byte doubled and the byte, where the latter is p.
LowTripled(q, p) ==
  /\ Bit(q, 1) <=> ~(Bit(p, 1) <=> Bit(p, 128))
  /\ Bit(q, 2) <=> ~(~(Bit(p, 1) <=> Bit(p, 128)) <=> Bit(p, 2))
  /\ Bit(q, 4) <=> ~(Bit(p, 2) <=> Bit(p, 4))
  /\ Bit(q, 8) <=> ~(~(Bit(p, 4) <=> Bit(p, 128)) <=> Bit(p, 8))
HighTripled(q, p) ==
  /\ Bit(q, 16) <=> ~(~(Bit(p, 8) <=> Bit(p, 128)) <=> Bit(p, 16))
  /\ Bit(q, 32) <=> ~(Bit(p, 16) <=> Bit(p, 32))
  /\ Bit(q, 64) <=> ~(Bit(p, 32) <=> Bit(p, 64))
  /\ Bit(q, 128) <=> ~(Bit(p, 64) <=> Bit(p, 128))
IsTripled(q, p) == LowTripled(q, p) /\ HighTripled(q, p)

LEMMA NextPower ==
  ASSUME NEW n \in 0..254
  PROVE  Power(n + 1) = Tripled(Power(n))
<1> DEFINE LowAcross(row)  == \A c \in 1..15 : LowTripled(row[c + 1], row[c])
           HighAcross(row) == \A c \in 1..15 : HighTripled(row[c + 1], row[c])
<1>1. \A r \in 1..16, c \in 1..15 : IsTripled(powerRows[r][c + 1], powerRows[r][c])
  <2>1. \A r \in 1..16 : LowAcross(powerRows[r])
    BY SMTT(60) DEF powerRows, LowTripled, Bit
  <2>2. \A r \in 1..16 : HighAcross(powerRows[r])
    BY SMTT(60) DEF powerRows, HighTripled, Bit
  <2> QED
    BY <2>1, <2>2 DEF IsTripled
<1>2. \A r \in 1..15 : IsTripled(powerRows[r + 1][1], powerRows[r][16])
  <2>1. \A r \in 1..15 : LowTripled(powerRows[r + 1][1], powerRows[r][16])
    BY SMTT(60) DEF powerRows, LowTripled, Bit
  <2>2. \A r \in 1..15 : HighTripled(powerRows[r + 1][1], powerRows[r][16])
    BY SMTT(60) DEF powerRows, HighTripled, Bit
  <2> QED
    BY <2>1, <2>2 DEF IsTripled
<1>3. PICK r \in 1..16, c \in 1..16 :
        n = 16 * r + c - 17 /\ (n \div 16) + 1 = r /\ (n % 16) + 1 = c
  BY RowAndColumn DEF Byte
<1>4. Power(n) = powerRows[r][c]
  BY <1>3 DEF Power, Entry
<1>5. IsTripled(Power(n + 1), Power(n))
  <2>1. CASE c < 16
    <3>1. ((n + 1) \div 16) + 1 = r /\ ((n + 1) % 16) + 1 = c + 1 /\ c \in 1..15
      BY <1>3, <2>1
    <3>2. Power(n + 1) = powerRows[r][c + 1]
      BY <3>1 DEF Power, Entry
    <3>3. IsTripled(powerRows[r][c + 1], powerRows[r][c])
      BY <1>1, <3>1
    <3> QED
      BY <1>4, <3>2, <3>3
  <2>2. CASE c = 16
    <3>1. ((n + 1) \div 16) + 1 = r + 1 /\ ((n + 1) % 16) + 1 = 1 /\ r \in 1..15
      BY <1>3, <2>2
    <3>2. Power(n + 1) = powerRows[r + 1][1]
      BY <3>1 DEF Power, Entry
    <3>3. IsTripled(powerRows[r + 1][1], powerRows[r][16])
      BY <1>2, <3>1
    <3> QED
      BY <1>4, <2>2, <3>2, <3>3
  <2> QED
    BY <2>1, <2>2
<1>6. PICK p \in Byte, q \in Byte : p = Power(n) /\ q = Power(n + 1)
  <2>1. n \in 0..255 /\ n + 1 \in 0..255
    OBVIOUS
  <2> QED
    BY <2>1, PowerIs
<1>7. PICK x \in Byte, t \in Byte : x = xtime(p) /\ t = Xor(x, p)
  BY XtimeBits, XorBits
<1>8. \A w \in Weights : Bit(t, w) <=> ~(Bit(x, w) <=> Bit(p, w))
  BY <1>7, XorBits
<1>9. \A w \in Weights : Bit(q, w) <=> Bit(t, w)
  BY <1>5, <1>6, <1>7, <1>8, XtimeBits DEF IsTripled, LowTripled, HighTripled, Weights
<1> QED
  BY <1>6, <1>7, <1>9, SameBits DEF Tripled

\* Exponents add, around 255.
Around(n, m) == IF n + m < 255 THEN n + m ELSE n + m - 255

LEMMA ProductOfPowers ==
  ASSUME NEW n \in 0..254, NEW m \in 0..254
  PROVE  Product(Power(n), Power(m)) = Power(Around(n, m))
<1> DEFINE Good == {k \in Nat : k <= 254 => Product(Power(k), Power(m)) = Power(Around(k, m))}
<1>1. Power(0) = 1 /\ Power(255) = 1
  BY DEF Power, Entry, powerRows
<1>2. \A k \in 0..255 : Power(k) \in Byte
  BY PowerIs
<1>3. 0 \in Good
  <2>1. Around(0, m) = m /\ m \in 0..255
    BY DEF Around
  <2> QED
    BY <1>1, <1>2, <2>1, ProductOfOne
<1>4. ASSUME NEW k \in Nat, k \in Good PROVE k + 1 \in Good
  <2>1. SUFFICES ASSUME k + 1 <= 254
                 PROVE  Product(Power(k + 1), Power(m)) = Power(Around(k + 1, m))
    OBVIOUS
  <2>2. k \in 0..254 /\ k \in 0..255 /\ m \in 0..255 /\ Around(k, m) \in 0..254
    BY <2>1 DEF Around
  <2>3. Product(Power(k), Power(m)) = Power(Around(k, m))
    BY <1>4, <2>1
  <2>4. Product(Power(k + 1), Power(m)) = Tripled(Power(Around(k, m)))
    <3>1. PICK a \in Byte, b \in Byte : a = Power(k) /\ b = Power(m)
      BY <1>2, <2>2
    <3>2. Power(k + 1) = Tripled(a)
      BY <2>2, <3>1, NextPower
    <3> QED
      BY <2>3, <3>1, <3>2, ProductTripled
  <2>5. Tripled(Power(Around(k, m))) = Power(Around(k, m) + 1)
    BY <2>2, NextPower
  <2>6. Power(Around(k, m) + 1) = Power(Around(k + 1, m))
    <3>1. Around(k, m) + 1 = Around(k + 1, m) \/ (Around(k, m) + 1 = 255 /\ Around(k + 1, m) = 0)
      BY <2>2 DEF Around
    <3> QED
      BY <1>1, <3>1
  <2> QED
    BY <2>4, <2>5, <2>6
<1>5. Nat \subseteq Good
  <2> HIDE DEF Good
  <2> QED
    BY <1>3, <1>4, Induction
<1> QED
  BY <1>5

LEMMA InverseIs ==
  ASSUME NEW n \in 0..254
  PROVE  Inverses[Power(n)] = Power(255 - n)
<1>1. Power(0) = 1 /\ Power(255) = 1
  BY DEF Power, Entry, powerRows
<1>2. /\ Power(n) \in Byte /\ Power(n) # 0
      /\ Power(255 - n) \in Byte
  <2>1. n \in 0..255 /\ 255 - n \in 0..255
    OBVIOUS
  <2> QED
    BY <2>1, PowerIs
<1>3. Product(Power(n), Power(255 - n)) = 1
  <2>1. CASE n = 0
    BY <1>1, <1>2, <2>1, ProductOfOne
  <2>2. CASE n # 0
    <3>1. PICK m \in 0..254 : m = 255 - n
      BY <2>2
    <3>2. Product(Power(n), Power(m)) = Power(Around(n, m))
      BY ProductOfPowers
    <3>3. Around(n, m) = 0
      BY <3>1, <2>2 DEF Around
    <3> QED
      BY <1>1, <3>1, <3>2, <3>3
  <2> QED
    BY <2>1, <2>2
<1>4. ASSUME NEW b \in Byte, Product(Power(n), b) = 1 PROVE b = Power(255 - n)
  <2>1. b # 0
    BY <1>2, <1>4, ProductOfZero
  <2>2. PICK m \in 0..254 : b = Power(m)
    BY <2>1, ExponentIs
  <2>3. PICK k \in 0..254 : k = Around(n, m)
    BY DEF Around
  <2>4. Product(Power(n), Power(m)) = Power(k)
    <3>1. Product(Power(n), Power(m)) = Power(Around(n, m))
      BY ProductOfPowers
    <3> QED
      BY <2>3, <3>1
  <2>5. k = 0
    <3>1. Power(k) = Power(0)
      BY <1>1, <1>4, <2>2, <2>4
    <3>2. k \in 0..255 /\ 0 \in 0..255 /\ k # 255 /\ 0 # 255
      OBVIOUS
    <3>3. Exponent(Power(k)) = k /\ Exponent(Power(0)) = 0
      BY <3>2, PowerIs
    <3> QED
      BY <3>1, <3>3
  <2>6. m = 255 - n \/ (m = 0 /\ n = 0)
    BY <2>3, <2>5 DEF Around
  <2> QED
    BY <1>1, <2>2, <2>6
<1>5. PICK a \in Byte : a = Power(n) /\ a # 0
  BY <1>2
<1>6. Inverses[a] = InverseOf(a)
  BY <1>5 DEF Inverses
<1>7. InverseOf(a) = Power(255 - n)
  BY <1>2, <1>3, <1>4, <1>5 DEF InverseOf
<1> QED
  BY <1>5, <1>6, <1>7

\* The bits of a byte a of which Affine makes s: the affine map turned around
\* has fewer terms.
LowUnaffine(a, s) ==
  /\ Bit(a, 1) <=> (~(Bit(s, 4) <=> Bit(s, 32)) <=> Bit(s, 128))
  /\ Bit(a, 2) <=> ~(~(Bit(s, 8) <=> Bit(s, 64)) <=> Bit(s, 1))
  /\ Bit(a, 4) <=> (~(Bit(s, 16) <=> Bit(s, 128)) <=> Bit(s, 2))
  /\ Bit(a, 8) <=> ~(~(Bit(s, 32) <=> Bit(s, 1)) <=> Bit(s, 4))
HighUnaffine(a, s) ==
  /\ Bit(a, 16) <=> ~(~(Bit(s, 64) <=> Bit(s, 2)) <=> Bit(s, 8))
  /\ Bit(a, 32) <=> ~(~(Bit(s, 128) <=> Bit(s, 4)) <=> Bit(s, 16))
  /\ Bit(a, 64) <=> ~(~(Bit(s, 1) <=> Bit(s, 8)) <=> Bit(s, 32))
  /\ Bit(a, 128) <=> ~(~(Bit(s, 2) <=> Bit(s, 16)) <=> Bit(s, 64))
IsUnaffine(a, s) == LowUnaffine(a, s) /\ HighUnaffine(a, s)

LEMMA AffineIs ==
  ASSUME NEW a \in Byte, NEW s \in Byte, IsUnaffine(a, s)
  PROVE  Affine(a) = s
<1>1. PICK a0 \in 0..1, a1 \in 0..1, a2 \in 0..1, a3 \in 0..1,
          a4 \in 0..1, a5 \in 0..1, a6 \in 0..1, a7 \in 0..1 :
        /\ a0 = BitOf(a, 0) /\ a1 = BitOf(a, 1) /\ a2 = BitOf(a, 2) /\ a3 = BitOf(a, 3)
        /\ a4 = BitOf(a, 4) /\ a5 = BitOf(a, 5) /\ a6 = BitOf(a, 6) /\ a7 = BitOf(a, 7)
  BY BitOfIs
<1>2. PICK s0 \in 0..1, s1 \in 0..1, s2 \in 0..1, s3 \in 0..1,
          s4 \in 0..1, s5 \in 0..1, s6 \in 0..1, s7 \in 0..1 :
        /\ s0 = BitOf(s, 0) /\ s1 = BitOf(s, 1) /\ s2 = BitOf(s, 2) /\ s3 = BitOf(s, 3)
        /\ s4 = BitOf(s, 4) /\ s5 = BitOf(s, 5) /\ s6 = BitOf(s, 6) /\ s7 = BitOf(s, 7)
  BY BitOfIs
<1>3. /\ (Bit(a, 1) <=> a0 = 1) /\ (Bit(a, 2) <=> a1 = 1)
      /\ (Bit(a, 4) <=> a2 = 1) /\ (Bit(a, 8) <=> a3 = 1)
      /\ (Bit(a, 16) <=> a4 = 1) /\ (Bit(a, 32) <=> a5 = 1)
      /\ (Bit(a, 64) <=> a6 = 1) /\ (Bit(a, 128) <=> a7 = 1)
  <2>1. /\ a7 = (a \div 128) % 2 /\ a6 = (a \div 64) % 2 /\ a5 = (a \div 32) % 2
        /\ a4 = (a \div 16) % 2 /\ a3 = (a \div 8) % 2 /\ a2 = (a \div 4) % 2
        /\ a1 = (a \div 2) % 2 /\ a0 = a % 2
    BY <1>1, BitOfIs
  <2>2. a \div 1 = a
    BY DEF Byte
  <2> QED
    BY <2>1, <2>2 DEF Bit
<1>4. /\ (Bit(s, 1) <=> s0 = 1) /\ (Bit(s, 2) <=> s1 = 1)
      /\ (Bit(s, 4) <=> s2 = 1) /\ (Bit(s, 8) <=> s3 = 1)
      /\ (Bit(s, 16) <=> s4 = 1) /\ (Bit(s, 32) <=> s5 = 1)
      /\ (Bit(s, 64) <=> s6 = 1) /\ (Bit(s, 128) <=> s7 = 1)
  <2>1. /\ s7 = (s \div 128) % 2 /\ s6 = (s \div 64) % 2 /\ s5 = (s \div 32) % 2
        /\ s4 = (s \div 16) % 2 /\ s3 = (s \div 8) % 2 /\ s2 = (s \div 4) % 2
        /\ s1 = (s \div 2) % 2 /\ s0 = s % 2
    BY <1>2, BitOfIs
  <2>2. s \div 1 = s
    BY DEF Byte
  <2> QED
    BY <2>1, <2>2 DEF Bit
<1>5. /\ BitOf(a, 8) = a0 /\ BitOf(a, 9) = a1 /\ BitOf(a, 10) = a2 /\ BitOf(a, 11) = a3
      /\ BitOf(a, 12) = a4 /\ BitOf(a, 13) = a5 /\ BitOf(a, 14) = a6
  BY <1>1 DEF BitOf
<1>6. /\ BitOf(99, 0) = 1 /\ BitOf(99, 1) = 1 /\ BitOf(99, 2) = 0 /\ BitOf(99, 3) = 0
      /\ BitOf(99, 4) = 0 /\ BitOf(99, 5) = 1 /\ BitOf(99, 6) = 1 /\ BitOf(99, 7) = 0
  BY DEF BitOf, Weight
<1>7. /\ s0 = (a0 + a4 + a5 + a6 + a7 + 1) % 2
      /\ s1 = (a1 + a5 + a6 + a7 + a0 + 1) % 2
      /\ s2 = (a2 + a6 + a7 + a0 + a1 + 0) % 2
      /\ s3 = (a3 + a7 + a0 + a1 + a2 + 0) % 2
      /\ s4 = (a4 + a0 + a1 + a2 + a3 + 0) % 2
      /\ s5 = (a5 + a1 + a2 + a3 + a4 + 1) % 2
      /\ s6 = (a6 + a2 + a3 + a4 + a5 + 1) % 2
      /\ s7 = (a7 + a3 + a4 + a5 + a6 + 0) % 2
  BY <1>3, <1>4 DEF IsUnaffine, LowUnaffine, HighUnaffine
<1>8. Affine(a) = s0 + 2 * s1 + 4 * s2 + 8 * s3 + 16 * s4 + 32 * s5 + 64 * s6 + 128 * s7
  BY <1>1, <1>5, <1>6, <1>7 DEF Affine
<1>9. s = s0 + 2 * s1 + 4 * s2 + 8 * s3 + 16 * s4 + 32 * s5 + 64 * s6 + 128 * s7
  <2>1. /\ s7 = (s \div 128) % 2 /\ s6 = (s \div 64) % 2 /\ s5 = (s \div 32) % 2
        /\ s4 = (s \div 16) % 2 /\ s3 = (s \div 8) % 2 /\ s2 = (s \div 4) % 2
        /\ s1 = (s \div 2) % 2 /\ s0 = s % 2
    BY <1>2, BitOfIs
  <2>2. s \div 128 = s7
    BY <2>1 DEF Byte
  <2>3. s \div 64 = 2 * s7 + s6
    BY <2>1, <2>2 DEF Byte
  <2>4. s \div 32 = 4 * s7 + 2 * s6 + s5
    BY <2>1, <2>3 DEF Byte
  <2>5. s \div 16 = 8 * s7 + 4 * s6 + 2 * s5 + s4
    BY <2>1, <2>4 DEF Byte
  <2>6. s \div 8 = 16 * s7 + 8 * s6 + 4 * s5 + 2 * s4 + s3
    BY <2>1, <2>5 DEF Byte
  <2>7. s \div 4 = 32 * s7 + 16 * s6 + 8 * s5 + 4 * s4 + 2 * s3 + s2
    BY <2>1, <2>6 DEF Byte
  <2>8. s \div 2 = 64 * s7 + 32 * s6 + 16 * s5 + 8 * s4 + 4 * s3 + 2 * s2 + s1
    BY <2>1, <2>7 DEF Byte
  <2> QED
    BY <2>1, <2>8 DEF Byte
<1> QED
  BY <1>8, <1>9

LEMMA SBoxIsAffine ==
  ASSUME NEW b \in Byte
  PROVE  getSBoxValue(b) = Affine(Inverses[b])
<1>1. \A r, c \in 1..16 : IsUnaffine(inverseRows[r][c], sboxRows[r][c])
  <2> DEFINE Low(inverses, values) == \A c \in 1..16 : LowUnaffine(inverses[c], values[c])
             High(inverses, values) == \A c \in 1..16 : HighUnaffine(inverses[c], values[c])
  <2>1. \A r \in 1..16 : Low(inverseRows[r], sboxRows[r])
    BY SMTT(90) DEF inverseRows, sboxRows, LowUnaffine, Bit
  <2>2. \A r \in 1..16 : High(inverseRows[r], sboxRows[r])
    BY SMTT(90) DEF inverseRows, sboxRows, HighUnaffine, Bit
  <2> QED
    BY <2>1, <2>2 DEF IsUnaffine
<1> DEFINE Inverted(r, c) ==
             16 * r + c > 17 => inverseRows[r][c] = Power(255 - logRows[r][c])
<1>2. \A r, c \in 1..16 : Inverted(r, c)
  BY SMTT(90) DEF inverseRows, logRows, powerRows, Power, Entry
<1> HIDE DEF Inverted
<1>3. inverseRows[1][1] = 0
  BY DEF inverseRows
<1>4. PICK r \in 1..16, c \in 1..16 :
        b = 16 * r + c - 17 /\ (b \div 16) + 1 = r /\ (b % 16) + 1 = c
  BY RowAndColumn
<1>5. getSBoxValue(b) = sboxRows[r][c] /\ Exponent(b) = logRows[r][c]
  BY <1>4 DEF getSBoxValue, Exponent, Entry
<1>6. Inverses[b] = inverseRows[r][c] /\ Inverses[b] \in Byte
  <2>1. CASE b = 0
    <3>1. r = 1 /\ c = 1
      BY <1>4, <2>1
    <3>2. Inverses[b] = 0
      BY <2>1 DEF Inverses, Byte
    <3> QED
      BY <1>3, <2>1, <3>1, <3>2
  <2>2. CASE b # 0
    <3>1. PICK n \in 0..254 : n = Exponent(b) /\ b = Power(n)
      BY <2>2, ExponentIs
    <3>2. Inverses[b] = Power(255 - n)
      BY <3>1, InverseIs
    <3>3. 255 - n \in 0..255
      OBVIOUS
    <3>4. Power(255 - n) \in Byte
      BY <3>3, PowerIs
    <3>5. 16 * r + c > 17
      BY <1>4, <2>2
    <3>6. logRows[r][c] = n
      BY <1>5, <3>1
    <3>7. Inverted(r, c)
      BY <1>2
    <3>8. inverseRows[r][c] = Power(255 - logRows[r][c])
      BY <3>5, <3>7 DEF Inverted
    <3> QED
      BY <1>5, <3>2, <3>4, <3>6, <3>8
  <2> QED
    BY <2>1, <2>2
<1>7. IsUnaffine(Inverses[b], getSBoxValue(b))
  BY <1>1, <1>5, <1>6
<1> QED
  BY <1>6, <1>7, AffineIs, TablesTurned

\* Horner's rule for the factors of InvMixColumns, whose bit 3 is the highest.
LEMMA ProductOfNibble ==
  ASSUME NEW a \in Byte, NEW y \in {9, 11, 13, 14},
         NEW f2 \in Byte, NEW f1 \in Byte, NEW f0 \in Byte,
         f2 = IF y \in {13, 14} THEN a ELSE 0,
         f1 = IF y \in {11, 14} THEN a ELSE 0,
         f0 = IF y = 14 THEN 0 ELSE a
  PROVE  Product(a, y) = Xor(xtime(Xor(xtime(Xor(xtime(a), f2)), f1)), f0)
<1>1. y \in Byte
  BY DEF Byte
<1>2. PICK p \in [0..8 -> Byte] :
        /\ p[0] = 0
        /\ \A n \in 1..8 : p[n] = Xor(xtime(p[n - 1]), Selected(a, y, n))
        /\ Product(a, y) = p[8]
  BY <1>1, ProductIs
<1>3. /\ BitOf(y, 7) = 0 /\ BitOf(y, 6) = 0 /\ BitOf(y, 5) = 0 /\ BitOf(y, 4) = 0
      /\ BitOf(y, 3) = 1
      /\ BitOf(y, 2) = IF y \in {13, 14} THEN 1 ELSE 0
      /\ BitOf(y, 1) = IF y \in {11, 14} THEN 1 ELSE 0
      /\ BitOf(y, 0) = IF y = 14 THEN 0 ELSE 1
  <2>1. /\ BitOf(y, 7) = (y \div 128) % 2 /\ BitOf(y, 6) = (y \div 64) % 2
        /\ BitOf(y, 5) = (y \div 32) % 2 /\ BitOf(y, 4) = (y \div 16) % 2
        /\ BitOf(y, 3) = (y \div 8) % 2 /\ BitOf(y, 2) = (y \div 4) % 2
        /\ BitOf(y, 1) = (y \div 2) % 2 /\ BitOf(y, 0) = y % 2
    BY <1>1, BitOfIs
  <2>2. /\ (y \div 128) % 2 = 0 /\ (y \div 64) % 2 = 0 /\ (y \div 32) % 2 = 0
        /\ (y \div 16) % 2 = 0 /\ (y \div 8) % 2 = 1
        /\ (y \div 4) % 2 = IF y \in {13, 14} THEN 1 ELSE 0
        /\ (y \div 2) % 2 = IF y \in {11, 14} THEN 1 ELSE 0
        /\ y % 2 = IF y = 14 THEN 0 ELSE 1
    OBVIOUS
  <2> QED
    BY <2>1, <2>2
<1>4. /\ Selected(a, y, 1) = 0 /\ Selected(a, y, 2) = 0
      /\ Selected(a, y, 3) = 0 /\ Selected(a, y, 4) = 0
      /\ Selected(a, y, 5) = a /\ Selected(a, y, 6) = f2
      /\ Selected(a, y, 7) = f1 /\ Selected(a, y, 8) = f0
  BY <1>3 DEF Selected
<1>5. /\ p[1] = Xor(xtime(p[0]), 0) /\ p[2] = Xor(xtime(p[1]), 0)
      /\ p[3] = Xor(xtime(p[2]), 0) /\ p[4] = Xor(xtime(p[3]), 0)
      /\ p[5] = Xor(xtime(p[4]), a) /\ p[6] = Xor(xtime(p[5]), f2)
      /\ p[7] = Xor(xtime(p[6]), f1) /\ p[8] = Xor(xtime(p[7]), f0)
  BY <1>2, <1>4
<1>6. Xor(xtime(0), 0) = 0
  BY BitAppended
<1>7. p[4] = 0
  BY <1>2, <1>5, <1>6
<1>8. Xor(xtime(0), a) = a
  <2>1. PICK x \in Byte : x = xtime(0)
    <3>1. 0 \in Byte
      BY DEF Byte
    <3> QED
      BY <3>1, XtimeBits
  <2>2. x = 0
    BY <1>6, <2>1, XorLaws
  <2> QED
    BY <2>1, <2>2, XorLaws
<1> QED
  BY <1>2, <1>5, <1>7, <1>8

LEMMA MultiplyIsProduct ==
  ASSUME NEW a \in Byte, NEW y \in {9, 11, 13, 14}
  PROVE  Multiply(a, y) = Product(a, y)
<1>1. PICK a2 \in Byte, a4 \in Byte, a8 \in Byte :
        a2 = xtime(a) /\ a4 = xtime(a2) /\ a8 = xtime(a4)
  BY XtimeBits
<1>2. /\ Multiply(a, 14) = Xor(Xor(a2, a4), a8)
      /\ Multiply(a, 11) = Xor(Xor(a, a2), a8)
      /\ Multiply(a, 13) = Xor(Xor(a, a4), a8)
      /\ Multiply(a, 9) = Xor(a, a8)
  BY <1>1, MultiplyIs
<1>3. 0 \in Byte
  BY DEF Byte
<1>4. PICK b6 \in Byte, b7 \in Byte, c7 \in Byte :
        b6 = Xor(a2, a) /\ b7 = Xor(a4, a2) /\ c7 = Xor(a4, a)
  BY XorBits
<1>5. PICK d7 \in Byte : d7 = Xor(b7, a)
  BY XorBits
<1>6. /\ xtime(b6) = b7 /\ xtime(b7) = Xor(a8, a4) /\ xtime(c7) = Xor(a8, a2)
  BY <1>1, <1>4, XtimeOfXor
<1>7. xtime(d7) = Xor(Xor(a8, a4), a2)
  BY <1>1, <1>5, <1>6, XtimeOfXor
<1>8. \A x \in Byte : Xor(x, 0) = x
  BY XorLaws
<1>9. CASE y = 14
  <2>1. Product(a, 14) = Xor(xtime(Xor(xtime(Xor(xtime(a), a)), a)), 0)
    BY <1>3, ProductOfNibble
  <2>2. Product(a, 14) = xtime(d7)
    BY <1>1, <1>4, <1>5, <1>6, <1>8, <2>1, XtimeBits
  <2> QED
    BY <1>2, <1>7, <1>9, <2>2, XorLaws
<1>10. CASE y = 13
  <2>1. Product(a, 13) = Xor(xtime(Xor(xtime(Xor(xtime(a), a)), 0)), a)
    BY <1>3, ProductOfNibble
  <2>2. Product(a, 13) = Xor(Xor(a8, a4), a)
    BY <1>1, <1>4, <1>6, <1>8, <2>1
  <2> QED
    BY <1>2, <1>10, <2>2, XorLaws
<1>11. CASE y = 11
  <2>1. Product(a, 11) = Xor(xtime(Xor(xtime(Xor(xtime(a), 0)), a)), a)
    BY <1>3, ProductOfNibble
  <2>2. Product(a, 11) = Xor(Xor(a8, a2), a)
    BY <1>1, <1>4, <1>6, <1>8, <2>1
  <2> QED
    BY <1>2, <1>11, <2>2, XorLaws
<1>12. CASE y = 9
  <2>1. Product(a, 9) = Xor(xtime(Xor(xtime(Xor(xtime(a), 0)), 0)), a)
    BY <1>3, ProductOfNibble
  <2>2. Product(a, 9) = Xor(a8, a)
    BY <1>1, <1>8, <2>1
  <2> QED
    BY <1>2, <1>12, <2>2, XorLaws
<1> QED
  BY <1>9, <1>10, <1>11, <1>12

-----------------------------------------------------------------------------
\* Sums in which something occurs twice.

LEMMA MiddleTwice ==
  ASSUME NEW a \in Byte, NEW b \in Byte, NEW c \in Byte
  PROVE  Xor(Xor(a, b), Xor(b, c)) = Xor(a, c)
<1>1. PICK l \in Byte, r \in Byte : l = Xor(Xor(a, b), Xor(b, c)) /\ r = Xor(a, c)
  BY XorBits
<1>2. ASSUME NEW w \in Weights PROVE Bit(l, w) <=> Bit(r, w)
  BY <1>1, XorBits
<1> QED
  BY <1>1, <1>2, SameBits

LEMMA EndTwice ==
  ASSUME NEW a \in Byte, NEW b \in Byte, NEW c \in Byte
  PROVE  Xor(Xor(a, c), Xor(b, c)) = Xor(a, b)
<1>1. PICK l \in Byte, r \in Byte : l = Xor(Xor(a, c), Xor(b, c)) /\ r = Xor(a, b)
  BY XorBits
<1>2. ASSUME NEW w \in Weights PROVE Bit(l, w) <=> Bit(r, w)
  BY <1>1, XorBits
<1> QED
  BY <1>1, <1>2, SameBits

sumTwice(a, b, c, d, e) ==
  Xor(Xor(a, Xor(c, e)), Xor(b, Xor(d, e)))
    = Xor(Xor(a, b), Xor(c, d))

LEMMA SumTwice ==
  ASSUME NEW a \in Byte, NEW b \in Byte, NEW c \in Byte, NEW d \in Byte,
         NEW e \in Byte
  PROVE  sumTwice(a, b, c, d, e)
<1>1. PICK l \in Byte, r \in Byte :
        /\ l = Xor(Xor(a, Xor(c, e)), Xor(b, Xor(d, e)))
        /\ r = Xor(Xor(a, b), Xor(c, d))
  BY XorBits
<1>2. ASSUME NEW w \in Weights PROVE Bit(l, w) <=> Bit(r, w)
  BY <1>1, XorBits
<1> QED
  BY <1>1, <1>2, SameBits DEF sumTwice

allButOneTwice(a, b, c, d, e) ==
  Xor(Xor(Xor(b, Xor(a, Xor(c, b))), Xor(c, d)), Xor(Xor(d, e), e))
    = a

LEMMA AllButOneTwice ==
  ASSUME NEW a \in Byte, NEW b \in Byte, NEW c \in Byte, NEW d \in Byte,
         NEW e \in Byte
  PROVE  allButOneTwice(a, b, c, d, e)
<1>1. PICK l \in Byte, r \in Byte :
        /\ l = Xor(Xor(Xor(b, Xor(a, Xor(c, b))), Xor(c, d)), Xor(Xor(d, e), e))
        /\ r = a
  BY XorBits
<1>2. ASSUME NEW w \in Weights PROVE Bit(l, w) <=> Bit(r, w)
  BY <1>1, XorBits
<1> QED
  BY <1>1, <1>2, SameBits DEF allButOneTwice

\* One byte of MixColumns, for the byte a, the one behind it and the column's
\* sum.
Mixed(a, b, sum) == Xor(a, Xor(xtime(Xor(a, b)), sum))

\* Twice mixed bytes come to light again: the column of a, b, c, d, mixed, is
\* taken back to a.
LEMMA ColumnTakenBack ==
  ASSUME NEW a \in Byte, NEW b \in Byte, NEW c \in Byte, NEW d \in Byte, NEW sum \in Byte,
         sum = Xor(Xor(a, b), Xor(c, d)),
         NEW m0, m0 = Mixed(a, b, sum), NEW m1, m1 = Mixed(b, c, sum),
         NEW m2, m2 = Mixed(c, d, sum), NEW m3, m3 = Mixed(d, a, sum)
  PROVE  Xor(Xor(Multiply(m0, 14), Multiply(m1, 11)),
             Xor(Multiply(m2, 13), Multiply(m3, 9))) = a
<1>1. m0 \in Byte /\ m1 \in Byte /\ m2 \in Byte /\ m3 \in Byte
  BY XorLaws, XtimeBits DEF Mixed
\* The factors are powers of x: four powers of sums of mixed bytes remain.
<1>2. PICK p01 \in Byte, p02 \in Byte, p \in Byte :
        p01 = Xor(m0, m1) /\ p02 = Xor(m0, m2) /\ p = Xor(Xor(m0, m1), Xor(m2, m3))
  BY <1>1, XorBits
<1>3. Xor(Xor(Multiply(m0, 14), Multiply(m1, 11)), Xor(Multiply(m2, 13), Multiply(m3, 9)))
        = Xor(Xor(Xor(p, m0), xtime(p01)), Xor(xtime(xtime(p02)), xtime(xtime(xtime(p)))))
  <2> DEFINE T(x) == xtime(x)
             T2(x) == xtime(xtime(x))
             T3(x) == xtime(xtime(xtime(x)))
  <2>1. \A x \in Byte : T(x) \in Byte /\ T2(x) \in Byte /\ T3(x) \in Byte
    BY XtimeBits
  <2>2. T(p01) = Xor(T(m0), T(m1)) /\ T2(p02) = Xor(T2(m0), T2(m2))
    BY <1>1, <1>2, XtimeBits, XtimeOfXor
  <2>3. T3(p) = Xor(Xor(T3(m0), T3(m1)), Xor(T3(m2), T3(m3)))
    <3>1. \A x, y \in Byte : T3(Xor(x, y)) = Xor(T3(x), T3(y))
      BY XtimeBits, XtimeOfXor, XorBits
    <3>2. PICK u \in Byte, v \in Byte : u = Xor(m0, m1) /\ v = Xor(m2, m3) /\ p = Xor(u, v)
      BY <1>1, <1>2, XorBits
    <3> HIDE DEF T3
    <3> QED
      BY <1>1, <3>1, <3>2
  <2>4. /\ Multiply(m0, 14) = Xor(Xor(T(m0), T2(m0)), T3(m0))
        /\ Multiply(m1, 11) = Xor(Xor(m1, T(m1)), T3(m1))
        /\ Multiply(m2, 13) = Xor(Xor(m2, T2(m2)), T3(m2))
        /\ Multiply(m3, 9) = Xor(m3, T3(m3))
    BY <1>1, MultiplyIs
  <2> HIDE DEF T, T2, T3
  <2>5. PICK l \in Byte, r \in Byte :
          /\ l = Xor(Xor(Multiply(m0, 14), Multiply(m1, 11)),
                     Xor(Multiply(m2, 13), Multiply(m3, 9)))
          /\ r = Xor(Xor(Xor(p, m0), T(p01)), Xor(T2(p02), T3(p)))
    BY <1>1, <1>2, <2>1, <2>4, XorBits
  <2>6. ASSUME NEW w \in Weights PROVE Bit(l, w) <=> Bit(r, w)
    <3>1. Bit(p, w) <=> ~((Bit(m0, w) <=> Bit(m1, w)) <=> (Bit(m2, w) <=> Bit(m3, w)))
      BY <1>1, <1>2, XorBits
    <3> QED
      BY <1>1, <1>2, <2>1, <2>2, <2>3, <2>4, <2>5, <3>1, XorBits
  <2> QED
    BY <2>5, <2>6, SameBits DEF T, T2, T3
\* And these are short.
<1>4. PICK ab \in Byte, ac \in Byte : ab = Xor(a, b) /\ ac = Xor(a, c)
  BY XorBits
<1>5. PICK bc \in Byte, cd \in Byte, da \in Byte :
        bc = Xor(b, c) /\ cd = Xor(c, d) /\ da = Xor(d, a)
  BY XorBits
<1>6. /\ m0 = Xor(a, Xor(xtime(ab), sum)) /\ m1 = Xor(b, Xor(xtime(bc), sum))
      /\ m2 = Xor(c, Xor(xtime(cd), sum)) /\ m3 = Xor(d, Xor(xtime(da), sum))
  BY <1>4, <1>5 DEF Mixed
<1> DEFINE T(x) == xtime(x)
<1>7. \A x \in Byte : T(x) \in Byte
  BY XtimeBits
<1>8. \A x, y \in Byte : T(Xor(x, y)) = Xor(T(x), T(y))
  BY XtimeOfXor
<1> HIDE DEF T
<1>9. /\ m0 = Xor(a, Xor(T(ab), sum)) /\ m1 = Xor(b, Xor(T(bc), sum))
      /\ m2 = Xor(c, Xor(T(cd), sum)) /\ m3 = Xor(d, Xor(T(da), sum))
  BY <1>6 DEF T
<1>10. /\ Xor(m0, m1) = Xor(ab, Xor(T(ab), T(bc)))
       /\ Xor(m0, m2) = Xor(ac, Xor(T(ab), T(cd)))
       /\ Xor(m2, m3) = Xor(cd, Xor(T(cd), T(da)))
  <2>1. T(ab) \in Byte /\ T(bc) \in Byte /\ T(cd) \in Byte /\ T(da) \in Byte
    BY <1>4, <1>5, <1>7
  <2>2. /\ sumTwice(a, b, T(ab), T(bc), sum)
        /\ sumTwice(a, c, T(ab), T(cd), sum)
        /\ sumTwice(c, d, T(cd), T(da), sum)
    BY <2>1, SumTwice
  <2> QED
    BY <1>4, <1>5, <1>9, <2>2 DEF sumTwice
<1>11. /\ T(ac) = Xor(T(ab), T(bc))
       /\ T(sum) = Xor(T(ab), T(cd))
       /\ T(ac) = Xor(T(cd), T(da))
  <2>1. ac = Xor(ab, bc) /\ ac = Xor(cd, da) /\ sum = Xor(ab, cd)
    BY <1>4, <1>5, MiddleTwice, XorLaws
  <2>2. /\ T(Xor(ab, bc)) = Xor(T(ab), T(bc))
        /\ T(Xor(cd, da)) = Xor(T(cd), T(da))
        /\ T(Xor(ab, cd)) = Xor(T(ab), T(cd))
    BY <1>8
  <2> QED
    BY <2>1, <2>2
<1>12. p01 = Xor(ab, T(ac)) /\ p02 = Xor(ac, T(sum))
  BY <1>2, <1>10, <1>11
<1>13. p = sum
  <2>1. p = Xor(Xor(ab, T(ac)), Xor(cd, T(ac)))
    BY <1>2, <1>10, <1>11
  <2> QED
    BY <1>4, <1>5, <1>7, <2>1, EndTwice
<1>14. PICK x \in Byte, y \in Byte, z \in Byte :
         x = T(ab) /\ y = T(T(ac)) /\ z = T(T(T(sum)))
  BY <1>4, <1>7
<1>15. T(p01) = Xor(x, y) /\ T(T(p02)) = Xor(y, z) /\ T(T(T(p))) = z
  BY <1>4, <1>7, <1>8, <1>12, <1>13, <1>14
<1>16. allButOneTwice(a, sum, x, y, z)
  BY AllButOneTwice
<1>17. Xor(Xor(Xor(sum, m0), Xor(x, y)), Xor(Xor(y, z), z)) = a
  BY <1>9, <1>14, <1>16 DEF allButOneTwice
<1> QED
  BY <1>3, <1>13, <1>15, <1>17 DEF T

-----------------------------------------------------------------------------
\* The transformations of a state.

LEMMA ShiftRowsTakenBack ==
  ASSUME NEW s \in State
  PROVE  ShiftRows(s) \in State /\ InvShiftRows(ShiftRows(s)) = s
<1>1. \A n \in 0..15 : (n + 4 * (n % 4)) % 16 \in 0..15 /\ (n - 4 * (n % 4)) % 16 \in 0..15
  OBVIOUS
<1>2. ASSUME NEW n \in 0..15, NEW k, k = (n - 4 * (n % 4)) % 16
      PROVE  (k + 4 * (k % 4)) % 16 = n
  <2>1. PICK q \in 0..3, r \in 0..3 : n = 4 * q + r /\ n % 4 = r
    OBVIOUS
  <2>2. k = (4 * q - 3 * r) % 16
    BY <1>2, <2>1
  <2>3. k % 4 = r /\ (k + 4 * r) % 16 = 4 * q + r
    BY <2>2
  <2> QED
    BY <2>1, <2>3
<1>3. ShiftRows(s) \in State
  BY <1>1 DEF ShiftRows, State
<1>4. ASSUME NEW n \in 0..15 PROVE InvShiftRows(ShiftRows(s))[n] = s[n]
  <2>1. PICK k \in 0..15 : k = (n - 4 * (n % 4)) % 16
    BY <1>1
  <2>2. InvShiftRows(ShiftRows(s))[n] = ShiftRows(s)[k]
    BY <2>1 DEF InvShiftRows
  <2>3. ShiftRows(s)[k] = s[n]
    BY <1>2, <2>1 DEF ShiftRows
  <2> QED
    BY <2>2, <2>3
<1> QED
  BY <1>3, <1>4 DEF State, InvShiftRows

LEMMA SubBytesTakenBack ==
  ASSUME NEW s \in State
  PROVE  SubBytes(s) \in State /\ InvSubBytes(SubBytes(s)) = s
BY TablesTurned DEF State, SubBytes, InvSubBytes

LEMMA AddRoundKeyTwice ==
  ASSUME NEW s \in State, NEW key, NEW r,
         \A n \in 0..15 : key[16 * r + n] \in Byte
  PROVE  /\ AddRoundKey(r, s, key) \in State
         /\ AddRoundKey(r, AddRoundKey(r, s, key), key) = s
<1>1. ASSUME NEW n \in 0..15
      PROVE  /\ Xor(s[n], key[16 * r + n]) \in Byte
             /\ Xor(Xor(s[n], key[16 * r + n]), key[16 * r + n]) = s[n]
  <2>1. PICK a \in Byte, b \in Byte : a = s[n] /\ b = key[16 * r + n]
    BY DEF State
  <2>2. Xor(a, b) \in Byte /\ Xor(Xor(a, b), b) = a
    BY XorLaws
  <2> QED
    BY <2>1, <2>2
<1> QED
  BY <1>1 DEF AddRoundKey, State

\* The sum of a column does not depend on where it begins.
LEMMA SumTurns ==
  ASSUME NEW a \in Byte, NEW b \in Byte, NEW c \in Byte, NEW d \in Byte
  PROVE  /\ Xor(Xor(b, c), Xor(d, a)) = Xor(Xor(a, b), Xor(c, d))
         /\ Xor(Xor(c, d), Xor(a, b)) = Xor(Xor(a, b), Xor(c, d))
         /\ Xor(Xor(d, a), Xor(b, c)) = Xor(Xor(a, b), Xor(c, d))
<1>1. PICK l1 \in Byte, l2 \in Byte, l3 \in Byte, r \in Byte :
        /\ l1 = Xor(Xor(b, c), Xor(d, a))
        /\ l2 = Xor(Xor(c, d), Xor(a, b))
        /\ l3 = Xor(Xor(d, a), Xor(b, c))
        /\ r = Xor(Xor(a, b), Xor(c, d))
  BY XorBits
<1>2. ASSUME NEW w \in Weights
      PROVE  (Bit(l1, w) <=> Bit(r, w)) /\ (Bit(l2, w) <=> Bit(r, w)) /\ (Bit(l3, w) <=> Bit(r, w))
  BY <1>1, XorBits
<1> QED
  BY <1>1, <1>2, SameBits

LEMMA MixColumnsTakenBack ==
  ASSUME NEW s \in State
  PROVE  MixColumns(s) \in State /\ InvMixColumns(MixColumns(s)) = s
<1> DEFINE t == MixColumns(s)
           sum(n) == Xor(Xor(InColumn(s, n, 0), InColumn(s, n, 1)),
                         Xor(InColumn(s, n, 2), InColumn(s, n, 3)))
<1>1. ASSUME NEW n \in 0..15, NEW j \in 0..8
      PROVE  4 * (n \div 4) + (j % 4) \in 0..15
  OBVIOUS
<1>2. ASSUME NEW n \in 0..15, NEW j \in 0..8 PROVE InColumn(s, n, j) \in Byte
  BY <1>1 DEF InColumn, State
<1>3. ASSUME NEW n \in 0..15
      PROVE  t[n] = Mixed(s[n], InColumn(s, n, (n % 4) + 1), sum(n)) /\ t[n] \in Byte
  <2>1. t[n] = Mixed(s[n], InColumn(s, n, (n % 4) + 1), sum(n))
    BY DEF MixColumns, Mixed
  <2>2. PICK a \in Byte, b \in Byte, c \in Byte :
          a = s[n] /\ b = InColumn(s, n, (n % 4) + 1) /\ c = sum(n)
    <3>1. (n % 4) + 1 \in 0..8
      OBVIOUS
    <3> QED
      BY <1>2, <3>1, XorBits DEF State
  <2>3. Mixed(a, b, c) \in Byte
    BY XorBits, XtimeBits DEF Mixed
  <2> QED
    BY <2>1, <2>2, <2>3
<1>4. t \in State
  BY <1>3 DEF MixColumns, State
\* Seen from place j of its column, the byte behind and the sum are the same.
<1>5. ASSUME NEW n \in 0..15, NEW j \in 0..7
      PROVE  InColumn(t, n, j) = Mixed(InColumn(s, n, j), InColumn(s, n, j + 1), sum(n))
  <2>1. PICK k \in 0..15 : k = 4 * (n \div 4) + (j % 4)
    OBVIOUS
  <2>2. k \div 4 = n \div 4 /\ k % 4 = j % 4 /\ ((k % 4) + 1) % 4 = (j + 1) % 4
    BY <2>1
  <2>3. InColumn(t, n, j) = t[k] /\ InColumn(s, n, j) = s[k]
    BY <2>1 DEF InColumn
  <2>4. InColumn(s, k, (k % 4) + 1) = InColumn(s, n, j + 1) /\ sum(k) = sum(n)
    BY <2>2 DEF InColumn
  <2> QED
    BY <1>3, <2>3, <2>4
<1>6. ASSUME NEW n \in 0..15 PROVE InvMixColumns(t)[n] = s[n]
  <2> DEFINE at(m) == InColumn(s, n, (n % 4) + m)
             new(m) == InColumn(t, n, (n % 4) + m)
  <2>1. PICK r \in 0..3 : r = n % 4
    OBVIOUS
  <2>2. PICK a \in Byte, b \in Byte, c \in Byte, d \in Byte :
          /\ a = InColumn(s, n, 0) /\ b = InColumn(s, n, 1)
          /\ c = InColumn(s, n, 2) /\ d = InColumn(s, n, 3)
    BY <1>2
  <2>3. /\ InColumn(s, n, 4) = a /\ InColumn(s, n, 5) = b
        /\ InColumn(s, n, 6) = c /\ InColumn(s, n, 7) = d
    BY <2>2 DEF InColumn
  <2>4. PICK a0 \in Byte, a1 \in Byte, a2 \in Byte, a3 \in Byte, all \in Byte :
          /\ a0 = InColumn(s, n, r) /\ a1 = InColumn(s, n, r + 1)
          /\ a2 = InColumn(s, n, r + 2) /\ a3 = InColumn(s, n, r + 3)
          /\ all = sum(n)
    BY <1>2, <2>1, XorBits
  <2>5. all = Xor(Xor(a0, a1), Xor(a2, a3))
    <3>1. all = Xor(Xor(a, b), Xor(c, d))
      BY <2>2, <2>4
    <3>2. \/ a0 = a /\ a1 = b /\ a2 = c /\ a3 = d
          \/ a0 = b /\ a1 = c /\ a2 = d /\ a3 = a
          \/ a0 = c /\ a1 = d /\ a2 = a /\ a3 = b
          \/ a0 = d /\ a1 = a /\ a2 = b /\ a3 = c
      BY <2>1, <2>2, <2>3, <2>4
    <3> QED
      BY <3>1, <3>2, SumTurns
  <2>6. InColumn(s, n, r + 4) = a0 /\ s[n] = a0
    BY <2>1, <2>4 DEF InColumn
  <2>7. PICK m0, m1, m2, m3 :
          /\ m0 = InColumn(t, n, r) /\ m1 = InColumn(t, n, r + 1)
          /\ m2 = InColumn(t, n, r + 2) /\ m3 = InColumn(t, n, r + 3)
    OBVIOUS
  <2>8. /\ m0 = Mixed(a0, a1, all) /\ m1 = Mixed(a1, a2, all)
        /\ m2 = Mixed(a2, a3, all) /\ m3 = Mixed(a3, a0, all)
    BY <1>5, <2>4, <2>6, <2>7
  <2>9. InvMixColumns(t)[n] = Xor(Xor(Multiply(m0, 14), Multiply(m1, 11)),
                                  Xor(Multiply(m2, 13), Multiply(m3, 9)))
    BY <2>1, <2>7 DEF InvMixColumns
  <2> QED
    BY <2>5, <2>6, <2>8, <2>9, ColumnTakenBack
<1>7. InvMixColumns(t) = [n \in 0..15 |-> InvMixColumns(t)[n]] /\ s = [n \in 0..15 |-> s[n]]
  BY DEF InvMixColumns, State
<1> QED
  BY <1>4, <1>6, <1>7

-----------------------------------------------------------------------------
\* The rounds.

\* State s after round r of Cipher.
Shifted(s) == ShiftRows(SubBytes(s))
AfterRound(r, s) == AddRoundKey(r, IF r < Nr THEN MixColumns(Shifted(s)) ELSE Shifted(s), RoundKey)

\* The key is expanded up to word i.
KeyShape ==
  /\ vector \in Vectors
  /\ i \in Nk..Words
  /\ RoundKey \in [0..(4 * i - 1) -> Byte]
  /\ pc # "expand" => i = Words

\* trace has the first n rounds of Cipher.
Traced(n) ==
  /\ trace \in [0..n -> State]
  /\ trace[0] = AddRoundKey(0, vector.plain, RoundKey)
  /\ \A r \in 1..n : trace[r] = AfterRound(r, trace[r - 1])

Encrypting ==
  /\ round \in 1..(Nr + 1)
  /\ Traced(round - 1)
  /\ state = trace[round - 1]

Decrypting ==
  /\ round \in -1..(Nr - 1)
  /\ Traced(Nr)
  /\ RoundsTakenBack

AesIInv ==
  /\ pc \in {"expand", "encrypt", "decrypt", "done"}
  /\ KeyShape
  /\ pc = "expand" => state = vector.plain
  /\ pc = "encrypt" => Encrypting
  /\ pc = "decrypt" => Decrypting
  /\ pc = "done" => state \in State

USE DEF Nb, Nk, Nr, Words

\* The bytes of a round key.
LEMMA RoundKeyBytes ==
  ASSUME NEW key \in [0..175 -> Byte], NEW r \in 0..Nr
  PROVE  \A n \in 0..15 : key[16 * r + n] \in Byte
<1>1. \A n \in 0..15 : 16 * r + n \in 0..175
  OBVIOUS
<1> QED
  BY <1>1

LEMMA ShiftedTakenBack ==
  ASSUME NEW s \in State
  PROVE  Shifted(s) \in State /\ InvSubBytes(InvShiftRows(Shifted(s))) = s
BY SubBytesTakenBack, ShiftRowsTakenBack DEF Shifted

LEMMA AesStarts == Init => AesIInv
<1> SUFFICES ASSUME Init PROVE AesIInv
  OBVIOUS
<1>1. vector.key \in State
  BY VectorsAssumption DEF Init
<1> QED
  BY <1>1 DEF Init, AesIInv, KeyShape, State

LEMMA KeyIsExpanded ==
  ASSUME KeyShape, ExpandWord
  PROVE  KeyShape'
<1>1. i \in 4..43 /\ i' = i + 1 /\ vector' = vector /\ pc' = pc /\ pc = "expand"
  BY DEF KeyShape, ExpandWord
<1>2. ASSUME NEW w \in 0..(i - 1), NEW b \in 0..3 PROVE At(w, b) \in Byte
  <2>1. 4 * w + b \in 0..(4 * i - 1)
    BY <1>1
  <2> QED
    BY <2>1 DEF KeyShape, At
<1>3. ASSUME NEW b \in 0..3 PROVE tempa(b) \in Byte
  <2>1. At(i - 1, b) \in Byte
    BY <1>1, <1>2
  <2>2. PICK s \in Byte : s = getSBoxValue(At(i - 1, (b + 1) % 4))
    <3>1. (b + 1) % 4 \in 0..3 /\ i - 1 \in 0..(i - 1)
      BY <1>1
    <3> QED
      BY <1>2, <3>1, TablesTurned
  <2>3. PICK c \in Byte : c = IF b = 0 THEN Rcon[i \div Nk] ELSE 0
    <3>1. i \div Nk \in 1..10
      BY <1>1
    <3>2. \A n \in 1..10 : Rcon[n] \in Byte
      BY DEF Rcon, Byte
    <3> QED
      BY <3>1, <3>2 DEF Byte
  <2> QED
    BY <2>1, <2>2, <2>3, XorBits DEF tempa
<1>4. ASSUME NEW n \in 0..(4 * i + 3) PROVE RoundKey'[n] \in Byte
  <2>1. RoundKey'[n] = IF n < 4 * i THEN RoundKey[n]
                       ELSE Xor(At(i - Nk, n - 4 * i), tempa(n - 4 * i))
    BY DEF ExpandWord
  <2>2. ASSUME n < 4 * i PROVE RoundKey[n] \in Byte
    BY <1>1, <2>2 DEF KeyShape
  <2>3. ASSUME ~(n < 4 * i) PROVE Xor(At(i - Nk, n - 4 * i), tempa(n - 4 * i)) \in Byte
    <3>1. PICK b \in 0..3 : b = n - 4 * i
      BY <1>1, <2>3
    <3>2. i - Nk \in 0..(i - 1)
      BY <1>1
    <3> QED
      BY <1>2, <1>3, <3>1, <3>2, XorBits
  <2> QED
    BY <2>1, <2>2, <2>3
<1>5. RoundKey' \in [0..(4 * i + 3) -> Byte]
  BY <1>4 DEF ExpandWord
<1>6. 4 * i' - 1 = 4 * i + 3 /\ i' \in Nk..Words
  BY <1>1
<1> QED
  BY <1>1, <1>5, <1>6 DEF KeyShape

\* A round of Cipher gives a state.
LEMMA RoundOfCipher ==
  ASSUME KeyShape, i = Words, NEW s \in State, NEW r \in 1..Nr
  PROVE  AfterRound(r, s) \in State
<1>1. Shifted(s) \in State /\ MixColumns(Shifted(s)) \in State
  BY ShiftedTakenBack, MixColumnsTakenBack
<1>2. \A n \in 0..15 : RoundKey[16 * r + n] \in Byte
  BY RoundKeyBytes DEF KeyShape
<1> QED
  BY <1>1, <1>2, AddRoundKeyTwice DEF AfterRound

LEMMA CipherStarts ==
  ASSUME AesIInv, StartCipher
  PROVE  AesIInv'
<1>1. /\ pc = "expand" /\ i = Words /\ pc' = "encrypt" /\ round' = 1
      /\ state' = AddRoundKey(0, vector.plain, RoundKey)
      /\ trace' = [r \in {0} |-> state']
      /\ vector' = vector /\ RoundKey' = RoundKey /\ i' = i
  BY DEF StartCipher, AesIInv
<1>2. KeyShape'
  BY <1>1 DEF AesIInv, KeyShape
<1>3. vector.plain \in State
  BY VectorsAssumption DEF AesIInv, KeyShape
<1>4. \A n \in 0..15 : RoundKey[16 * 0 + n] \in Byte
  BY <1>1, RoundKeyBytes DEF AesIInv, KeyShape
<1>5. state' \in State
  BY <1>1, <1>3, <1>4, AddRoundKeyTwice
<1>6. round' - 1 = 0 /\ 0..0 = {0} /\ 1..0 = {} /\ round' \in 1..(Nr + 1)
  BY <1>1
<1>7. Traced(0)'
  BY <1>1, <1>5, <1>6 DEF Traced
<1>8. Encrypting'
  BY <1>1, <1>6, <1>7 DEF Encrypting
<1> QED
  BY <1>1, <1>2, <1>8 DEF AesIInv

LEMMA CipherGoesOn ==
  ASSUME AesIInv, Round
  PROVE  AesIInv'
<1>0. PICK n : n = round
  OBVIOUS
<1>1. /\ pc = "encrypt" /\ n \in 1..Nr /\ i = Words
      /\ Traced(n - 1) /\ state = trace[n - 1] /\ KeyShape
  BY <1>0 DEF Round, AesIInv, Encrypting, KeyShape
<1>2. /\ state' = AfterRound(n, state)
      /\ trace' = [r \in 0..n |-> IF r = n THEN state' ELSE trace[r]]
      /\ round' = n + 1 /\ pc' = pc /\ vector' = vector /\ RoundKey' = RoundKey /\ i' = i
  BY <1>0 DEF Round, AfterRound, Shifted
<1>3. \A r \in 0..(n - 1) : trace[r] \in State /\ trace'[r] = trace[r]
  BY <1>1, <1>2 DEF Traced
<1>4. state' \in State /\ trace'[n] = state'
  <2>1. state \in State
    BY <1>1 DEF Traced
  <2> QED
    BY <1>1, <1>2, <2>1, RoundOfCipher
<1>5. trace' \in [0..n -> State]
  BY <1>1, <1>2, <1>3, <1>4
<1>6. ASSUME NEW r \in 1..n PROVE trace'[r] = AfterRound(r, trace'[r - 1])
  <2>1. r - 1 \in 0..(n - 1) /\ trace'[r - 1] = trace[r - 1]
    BY <1>1, <1>3
  <2>2. CASE r = n
    BY <1>1, <1>2, <1>4, <2>1, <2>2
  <2>3. CASE r # n
    <3>1. r \in 1..(n - 1) /\ r \in 0..(n - 1)
      BY <1>1, <2>3
    <3> QED
      BY <1>1, <1>3, <2>1, <3>1 DEF Traced
  <2> QED
    BY <2>2, <2>3
<1>7. trace'[0] = AddRoundKey(0, vector.plain, RoundKey)
  BY <1>1, <1>3 DEF Traced
<1>8. Traced(n)'
  <2>1. \A r \in 1..n : trace'[r] = (AfterRound(r, trace[r - 1]))'
    BY <1>6, <1>2 DEF AfterRound, Shifted
  <2> QED
    BY <1>2, <1>5, <1>7, <2>1 DEF Traced
<1>9. Encrypting'
  BY <1>1, <1>2, <1>4, <1>8 DEF Encrypting
<1>10. KeyShape'
  BY <1>1, <1>2 DEF KeyShape
<1> QED
  BY <1>1, <1>2, <1>9, <1>10 DEF AesIInv

LEMMA InvCipherStarts ==
  ASSUME AesIInv, StartInvCipher
  PROVE  AesIInv'
<1>1. /\ pc = "encrypt" /\ round = Nr + 1 /\ i = Words /\ KeyShape
      /\ Traced(Nr) /\ state = trace[Nr]
  <2>1. pc = "encrypt" /\ round = Nr + 1 /\ round - 1 = Nr
    BY DEF StartInvCipher, AesIInv, Encrypting
  <2> QED
    BY <2>1 DEF AesIInv, Encrypting, KeyShape
<1>2. /\ pc' = "decrypt" /\ round' = Nr - 1 /\ state' = AddRoundKey(Nr, state, RoundKey)
      /\ trace' = trace /\ vector' = vector /\ RoundKey' = RoundKey /\ i' = i
  BY DEF StartInvCipher
<1>3. trace[9] \in State /\ state = AddRoundKey(Nr, Shifted(trace[9]), RoundKey)
  <2>1. trace[10] = AfterRound(10, trace[10 - 1])
    BY <1>1 DEF Traced
  <2> QED
    BY <1>1, <2>1 DEF AfterRound, Traced
<1>4. \A n \in 0..15 : RoundKey[16 * Nr + n] \in Byte
  BY <1>1, RoundKeyBytes DEF KeyShape
<1>5. state' = Shifted(trace[9])
  BY <1>2, <1>3, <1>4, ShiftedTakenBack, AddRoundKeyTwice
<1>6. Traced(Nr)'
  BY <1>1, <1>2 DEF Traced, AfterRound, Shifted
<1>7. RoundsTakenBack'
  BY <1>2, <1>5 DEF RoundsTakenBack, Shifted
<1> QED
  BY <1>1, <1>2, <1>6, <1>7 DEF AesIInv, Decrypting, KeyShape

LEMMA InvCipherGoesOn ==
  ASSUME AesIInv, InvRound
  PROVE  AesIInv'
<1>0. PICK n : n = round
  OBVIOUS
<1>1. /\ pc = "decrypt" /\ n \in 0..(Nr - 1) /\ i = Words /\ KeyShape /\ Traced(Nr)
      /\ state = Shifted(trace[n])
  BY <1>0 DEF InvRound, AesIInv, Decrypting, KeyShape, RoundsTakenBack, Shifted
<1>2. /\ pc' = pc /\ round' = n - 1 /\ trace' = trace
      /\ vector' = vector /\ RoundKey' = RoundKey /\ i' = i
      /\ state' = LET added == AddRoundKey(n, InvSubBytes(InvShiftRows(state)), RoundKey)
                  IN  IF n > 0 THEN InvMixColumns(added) ELSE added
  BY <1>0 DEF InvRound
<1>3. trace[n] \in State /\ InvSubBytes(InvShiftRows(state)) = trace[n]
  BY <1>1, ShiftedTakenBack DEF Traced
<1>4. \A b \in 0..15 : RoundKey[16 * n + b] \in Byte
  BY <1>1, RoundKeyBytes DEF KeyShape
<1>5. ASSUME n > 0 PROVE state' = Shifted(trace[n - 1])
  <2>1. n - 1 \in 0..Nr /\ n \in 1..Nr /\ n < Nr
    BY <1>1, <1>5
  <2>2. PICK s \in State : s = Shifted(trace[n - 1])
    BY <1>1, <2>1, ShiftedTakenBack DEF Traced
  <2>3. trace[n] = AddRoundKey(n, MixColumns(s), RoundKey)
    BY <1>1, <2>1, <2>2 DEF Traced, AfterRound
  <2>4. MixColumns(s) \in State /\ InvMixColumns(MixColumns(s)) = s
    BY MixColumnsTakenBack
  <2>5. AddRoundKey(n, trace[n], RoundKey) = MixColumns(s)
    <3>1. PICK m \in State : m = MixColumns(s)
      BY <2>4
    <3>2. AddRoundKey(n, AddRoundKey(n, m, RoundKey), RoundKey) = m
      BY <1>4, AddRoundKeyTwice
    <3> QED
      BY <2>3, <3>1, <3>2
  <2> QED
    BY <1>2, <1>3, <1>5, <2>2, <2>4, <2>5
<1>6. ASSUME n = 0 PROVE state' = vector.plain
  <2>1. vector.plain \in State /\ trace[n] = AddRoundKey(n, vector.plain, RoundKey)
    BY <1>1, <1>6, VectorsAssumption DEF KeyShape, Traced
  <2>2. AddRoundKey(n, trace[n], RoundKey) = vector.plain
    BY <1>4, <2>1, AddRoundKeyTwice, ZenonT(30)
  <2> QED
    BY <1>2, <1>3, <1>6, <2>2
<1>7. Traced(Nr)'
  BY <1>1, <1>2 DEF Traced, AfterRound, Shifted
<1>8. RoundsTakenBack'
  <2>1. round' >= 0 => n > 0
    BY <1>1, <1>2
  <2>2. round' < 0 => n = 0
    BY <1>1, <1>2
  <2> QED
    BY <1>2, <1>5, <1>6, <2>1, <2>2 DEF RoundsTakenBack, Shifted
<1>9. round' \in -1..(Nr - 1)
  BY <1>1, <1>2
<1>10. KeyShape'
  BY <1>1, <1>2 DEF KeyShape
<1> QED
  BY <1>1, <1>2, <1>7, <1>8, <1>9, <1>10 DEF AesIInv, Decrypting

-----------------------------------------------------------------------------

\* What the proof rests on: up to the end of KeyExpansion the round keys are
\* bytes, after it every round of Cipher is the one before, transformed.
THEOREM AesInvariant == Spec => []AesIInv
<1>1. AesIInv /\ [Next]_vars => AesIInv'
  <2> SUFFICES ASSUME AesIInv, [Next]_vars PROVE AesIInv'
    OBVIOUS
  <2>1. CASE ExpandWord
    <3>1. KeyShape'
      BY <2>1, KeyIsExpanded DEF AesIInv
    <3>2. pc = "expand" /\ pc' = pc /\ state' = state /\ vector' = vector
      BY <2>1 DEF ExpandWord
    <3> QED
      BY <3>1, <3>2 DEF AesIInv
  <2>2. CASE StartCipher
    BY <2>2, CipherStarts
  <2>3. CASE Round
    BY <2>3, CipherGoesOn
  <2>4. CASE StartInvCipher
    BY <2>4, InvCipherStarts
  <2>5. CASE InvRound
    BY <2>5, InvCipherGoesOn
  <2>6. CASE Return
    <3>1. pc = "decrypt" /\ round < 0 /\ state = vector.plain /\ vector \in Vectors
      BY <2>6 DEF Return, AesIInv, Decrypting, RoundsTakenBack, KeyShape
    <3>2. state' \in State
      BY <2>6, <3>1, VectorsAssumption DEF Return
    <3> QED
      BY <2>6, <3>2 DEF Return, AesIInv, KeyShape
  <2>7. CASE UNCHANGED vars
    BY <2>7 DEF vars, AesIInv, KeyShape, Encrypting, Decrypting, Traced, AfterRound, Shifted,
                RoundsTakenBack
  <2> QED
    BY <2>1, <2>2, <2>3, <2>4, <2>5, <2>6, <2>7 DEF Next
<1> QED
  BY <1>1, AesStarts, PTL DEF Spec

\* For every key and every block InvCipher goes the rounds of Cipher backwards
\* and ends with the block.
THEOREM InvCipherTakesBack == Spec => []RoundsTakenBack
<1>1. AesIInv => RoundsTakenBack
  BY DEF AesIInv, Decrypting, RoundsTakenBack
<1> QED
  BY <1>1, AesInvariant, PTL

\* The bytes the cipher works on.
LEMMA BlockIsState == AesIInv => state \in State
<1> SUFFICES ASSUME AesIInv PROVE state \in State
  OBVIOUS
<1>1. vector.plain \in State
  BY VectorsAssumption DEF AesIInv, KeyShape
<1>2. ASSUME pc = "encrypt" PROVE state \in State
  BY <1>2 DEF AesIInv, Encrypting, Traced
<1>3. ASSUME pc = "decrypt", round >= 0 PROVE state \in State
  <2>1. trace[round] \in State /\ state = ShiftRows(SubBytes(trace[round]))
    BY <1>3 DEF AesIInv, Decrypting, Traced, RoundsTakenBack
  <2> QED
    BY <2>1, ShiftedTakenBack DEF Shifted
<1>4. ASSUME pc = "decrypt", ~(round >= 0) PROVE state \in State
  <2>1. round < 0
    BY <1>4 DEF AesIInv, Decrypting
  <2> QED
    BY <1>1, <1>4, <2>1 DEF AesIInv, Decrypting, RoundsTakenBack
<1> QED
  BY <1>1, <1>2, <1>3, <1>4 DEF AesIInv

\* For every key and every block, in every state of the cipher: what the tables
\* and Multiply give for its bytes is what the field of 256 elements defines,
\* the affine map of the inverse and the products with 9, 11, 13 and 14.
THEOREM FieldIsDefined == Spec => []FieldIsAsDefined
<1>1. AesIInv => FieldIsAsDefined
  <2> SUFFICES ASSUME AesIInv, NEW n \in 0..15
               PROVE  /\ getSBoxValue(state[n]) = Affine(Inverses[state[n]])
                      /\ \A y \in {9, 11, 13, 14} :
                           Multiply(state[n], y) = Product(state[n], y)
    BY DEF FieldIsAsDefined
  <2>1. PICK b \in Byte : b = state[n]
    BY BlockIsState DEF State
  <2> QED
    BY <2>1, SBoxIsAffine, MultiplyIsProduct
<1> QED
  BY <1>1, AesInvariant, PTL
=============================================================================
