-------------------------------- MODULE Facts --------------------------------
(***************************************************************************)
(* The lemmas that the proofs of several components rest on: about         *)
(* division, about induction over the natural numbers, stated with sets    *)
(* instead of predicates, about the bits of a byte and about the           *)
(* subsequences two sequences have in common.                              *)
(***************************************************************************)
EXTENDS LCS, ByteXor, FiniteSetTheorems, WellFoundedInduction, TLAPS

-----------------------------------------------------------------------------
\* Division.

LEMMA DivideRest ==
  ASSUME NEW n \in Nat, NEW b \in Nat \ {0}
  PROVE  /\ n \div b \in Nat
         /\ b * (n \div b) <= n
         /\ n < b * (n \div b) + b
OBVIOUS

\* The quotient is the only number that leaves a rest below the divisor.
LEMMA QuotientIs ==
  ASSUME NEW n \in Nat, NEW b \in Nat \ {0}, NEW q \in Nat, b * q <= n, n < b * q + b
  PROVE  n \div b = q
<1> DEFINE d == n \div b
<1>1. d \in Nat /\ b * d <= n /\ n < b * d + b
  BY DivideRest
<1> HIDE DEF d
<1>2. ASSUME d >= q + 1 PROVE FALSE
  <2>1. b * d >= b * (q + 1)
    BY <1>1, <1>2
  <2> QED
    BY <1>1, <2>1
<1>3. ASSUME q >= d + 1 PROVE FALSE
  <2>1. b * q >= b * (d + 1)
    BY <1>1, <1>3
  <2> QED
    BY <1>1, <2>1
<1> QED
  BY <1>1, <1>2, <1>3 DEF d

\* A multiple of b leaves no rest.
LEMMA MultipleModulo ==
  ASSUME NEW q \in Int, NEW b \in Nat \ {0}
  PROVE  (q * b) % b = 0
<1> DEFINE r == (q * b) % b
           d == (q * b) \div b
<1>1. r \in 0..(b - 1) /\ d \in Int /\ q * b = b * d + r
  OBVIOUS
<1>2. r = (q - d) * b
  BY <1>1
<1> HIDE DEF r, d
<1>3. CASE q - d >= 1
  <2>1. (q - d) * b >= b
    BY <1>1, <1>3
  <2> QED
    BY <1>1, <1>2, <2>1
<1>4. CASE q - d <= -1
  <2>1. (q - d) * b <= -b
    BY <1>1, <1>4
  <2> QED
    BY <1>1, <1>2, <2>1
<1>5. CASE q - d = 0
  BY <1>1, <1>2, <1>5 DEF r
<1> QED
  BY <1>1, <1>3, <1>4, <1>5

-----------------------------------------------------------------------------
\* Induction.

LessOnNat == OpToRel(<, Nat)

LEMMA LessOnNatIs == LessOnNat = {p \in Nat \X Nat : p[1] < p[2]}
BY DEF LessOnNat, OpToRel

LEMMA LessIsWellFounded == IsWellFoundedOn(LessOnNat, Nat)
BY NatLessThanWellFounded DEF LessOnNat

\* A set of natural numbers has a least element.
LEMMA LeastNumber ==
  ASSUME NEW T, T \subseteq Nat, T # {}
  PROVE  \E x \in T : \A y \in T : x <= y
<1>1. PICK x \in T : \A y \in T : ~(<<y, x>> \in LessOnNat)
  BY LessIsWellFounded, WFMin
<1>2. ASSUME NEW y \in T, y < x PROVE FALSE
  <2>1. <<y, x>> \in Nat \X Nat /\ <<y, x>>[1] < <<y, x>>[2]
    BY <1>2
  <2>2. <<y, x>> \in LessOnNat
    BY <2>1, LessOnNatIs
  <2> QED
    BY <1>1, <2>2
<1> QED
  BY <1>2

\* What holds of 0, and of a number when it holds of the one before, holds of
\* all.
LEMMA Induction ==
  ASSUME NEW S, 0 \in S, \A n \in Nat : n \in S => n + 1 \in S
  PROVE  Nat \subseteq S
<1> SUFFICES ASSUME Nat \ S # {} PROVE FALSE
  OBVIOUS
<1>1. PICK x \in Nat \ S : \A y \in Nat \ S : x <= y
  BY LeastNumber
<1>2. x # 0 /\ x - 1 \in Nat /\ x - 1 \in S
  BY <1>1
<1> QED
  BY <1>1, <1>2

-----------------------------------------------------------------------------

\* f is what "start first, then step n from the one before" defines.
Iterates(f, start, step, N) ==
  f = [n \in 0..N |-> IF n = 0 THEN start ELSE step[n][f[n - 1]]]

\* Such a function exists.
LEMMA IteratesExists ==
  ASSUME NEW S, NEW start \in S, NEW step \in [Nat -> [S -> S]]
  PROVE  \A N \in Nat : \E f \in [0..N -> S] : Iterates(f, start, step, N)
<1> DEFINE Good == {N \in Nat : \E f \in [0..N -> S] : Iterates(f, start, step, N)}
<1>1. 0 \in Good
  <2> DEFINE f == [n \in 0..0 |-> start]
  <2>1. f \in [0..0 -> S] /\ Iterates(f, start, step, 0)
    BY DEF Iterates
  <2> QED
    BY <2>1
<1>2. ASSUME NEW N \in Nat, N \in Good PROVE N + 1 \in Good
  <2>1. PICK f \in [0..N -> S] : Iterates(f, start, step, N)
    BY <1>2
  <2> DEFINE g == [n \in 0..(N + 1) |-> IF n <= N THEN f[n] ELSE step[N + 1][f[N]]]
  <2>2. \A n \in 0..(N + 1) : n <= N => n \in 0..N
    OBVIOUS
  <2>3. g \in [0..(N + 1) -> S]
    BY <2>2
  <2>4. ASSUME NEW n \in 0..(N + 1)
        PROVE  g[n] = IF n = 0 THEN start ELSE step[n][g[n - 1]]
    <3>1. ASSUME n <= N PROVE f[n] = IF n = 0 THEN start ELSE step[n][f[n - 1]]
      BY <2>1, <3>1 DEF Iterates
    <3>2. n # 0 => n - 1 \in 0..N /\ n - 1 \in 0..(N + 1) /\ g[n - 1] = f[n - 1]
      OBVIOUS
    <3>3. n <= N => g[n] = f[n]
      OBVIOUS
    <3>4. ~(n <= N) => n - 1 = N /\ n # 0 /\ g[n] = step[N + 1][f[N]]
      OBVIOUS
    <3> QED
      BY <3>1, <3>2, <3>3, <3>4
  <2>5. Iterates(g, start, step, N + 1)
    BY <2>4, Zenon DEF Iterates
  <2> QED
    BY <2>3, <2>5
<1>3. Nat \subseteq Good
  <2> HIDE DEF Good
  <2> QED
    BY <1>1, <1>2, Induction
<1> QED
  BY <1>3

-----------------------------------------------------------------------------
\* Bytes.

\* The weights of a byte's bits.
Weights == {1, 2, 4, 8, 16, 32, 64, 128}

\* The bit of weight w is 1.
Bit(a, w) == (a \div w) % 2 = 1

Differ(p, q, w) == IF (p \div w) % 2 # (q \div w) % 2 THEN w ELSE 0

\* The exclusive or of half bytes and of bytes, bit by bit.
LEMMA HalfBits ==
  ASSUME NEW p \in 0..15, NEW q \in 0..15
  PROVE  /\ XorHalf[<<p, q>>] \in 0..15
         /\ \A w \in {1, 2, 4, 8} : Bit(XorHalf[<<p, q>>], w) <=> ~(Bit(p, w) <=> Bit(q, w))
<1>1. PICK x : x = XorHalf[<<p, q>>]
  OBVIOUS
<1>2. x = Differ(p, q, 1) + Differ(p, q, 2) + Differ(p, q, 4) + Differ(p, q, 8)
  BY <1>1 DEF XorHalf, Differ
<1>3. x \in 0..15
  BY <1>2 DEF Differ
<1>4. Bit(x, 1) <=> ~(Bit(p, 1) <=> Bit(q, 1))
  BY <1>2 DEF Differ, Bit
<1>5. Bit(x, 2) <=> ~(Bit(p, 2) <=> Bit(q, 2))
  BY <1>2 DEF Differ, Bit
<1>6. Bit(x, 4) <=> ~(Bit(p, 4) <=> Bit(q, 4))
  BY <1>2 DEF Differ, Bit
<1>7. Bit(x, 8) <=> ~(Bit(p, 8) <=> Bit(q, 8))
  BY <1>2 DEF Differ, Bit
<1> QED
  BY <1>1, <1>3, <1>4, <1>5, <1>6, <1>7

\* The bits of a byte are those of its halves.
LEMMA BitsOfHalves ==
  ASSUME NEW c \in Byte
  PROVE  /\ c \div 16 \in 0..15 /\ c % 16 \in 0..15
         /\ Bit(c, 1) <=> Bit(c % 16, 1)
         /\ Bit(c, 2) <=> Bit(c % 16, 2)
         /\ Bit(c, 4) <=> Bit(c % 16, 4)
         /\ Bit(c, 8) <=> Bit(c % 16, 8)
         /\ Bit(c, 16) <=> Bit(c \div 16, 1)
         /\ Bit(c, 32) <=> Bit(c \div 16, 2)
         /\ Bit(c, 64) <=> Bit(c \div 16, 4)
         /\ Bit(c, 128) <=> Bit(c \div 16, 8)
<1>1. c \div 16 \in 0..15 /\ c % 16 \in 0..15
  BY DEF Byte
<1>2. Bit(c, 1) <=> Bit(c % 16, 1)
  BY DEF Bit, Byte
<1>3. Bit(c, 2) <=> Bit(c % 16, 2)
  BY DEF Bit, Byte
<1>4. Bit(c, 4) <=> Bit(c % 16, 4)
  BY DEF Bit, Byte
<1>5. Bit(c, 8) <=> Bit(c % 16, 8)
  BY DEF Bit, Byte
<1>6. Bit(c, 16) <=> Bit(c \div 16, 1)
  BY DEF Bit, Byte
<1>7. Bit(c, 32) <=> Bit(c \div 16, 2)
  BY DEF Bit, Byte
<1>8. Bit(c, 64) <=> Bit(c \div 16, 4)
  BY DEF Bit, Byte
<1>9. Bit(c, 128) <=> Bit(c \div 16, 8)
  BY DEF Bit, Byte
<1> QED
  BY <1>1, <1>2, <1>3, <1>4, <1>5, <1>6, <1>7, <1>8, <1>9

\* Xor is a byte, and has the bits in which its arguments differ.
LEMMA XorBits ==
  ASSUME NEW a \in Byte, NEW b \in Byte
  PROVE  /\ Xor(a, b) \in Byte
         /\ \A w \in Weights : Bit(Xor(a, b), w) <=> ~(Bit(a, w) <=> Bit(b, w))
<1>1. PICK ah \in 0..15, al \in 0..15, bh \in 0..15, bl \in 0..15 :
        ah = a \div 16 /\ al = a % 16 /\ bh = b \div 16 /\ bl = b % 16
  BY BitsOfHalves
<1> DEFINE Halves(x, p, q) ==
             \A w \in {1, 2, 4, 8} : Bit(x, w) <=> ~(Bit(p, w) <=> Bit(q, w))
<1>4. /\ XorHalf[<<ah, bh>>] \in 0..15 /\ Halves(XorHalf[<<ah, bh>>], ah, bh)
      /\ XorHalf[<<al, bl>>] \in 0..15 /\ Halves(XorHalf[<<al, bl>>], al, bl)
  BY HalfBits, Zenon
<1>2. PICK h \in 0..15 :
        /\ h = XorHalf[<<ah, bh>>]
        /\ \A w \in {1, 2, 4, 8} : Bit(h, w) <=> ~(Bit(ah, w) <=> Bit(bh, w))
  BY <1>4, Zenon
<1>3. PICK l \in 0..15 :
        /\ l = XorHalf[<<al, bl>>]
        /\ \A w \in {1, 2, 4, 8} : Bit(l, w) <=> ~(Bit(al, w) <=> Bit(bl, w))
  BY <1>4, Zenon
<1>5. PICK x \in Byte : x = Xor(a, b) /\ x \div 16 = h /\ x % 16 = l
  <2>1. Xor(a, b) = 16 * h + l
    BY <1>1, <1>2, <1>3 DEF Xor
  <2> QED
    BY <2>1 DEF Byte
<1>6. /\ Bit(x, 1) <=> Bit(l, 1)
      /\ Bit(x, 2) <=> Bit(l, 2)
      /\ Bit(x, 4) <=> Bit(l, 4)
      /\ Bit(x, 8) <=> Bit(l, 8)
      /\ Bit(x, 16) <=> Bit(h, 1)
      /\ Bit(x, 32) <=> Bit(h, 2)
      /\ Bit(x, 64) <=> Bit(h, 4)
      /\ Bit(x, 128) <=> Bit(h, 8)
  BY <1>5, BitsOfHalves
<1>7. \A w \in Weights : Bit(x, w) <=> ~(Bit(a, w) <=> Bit(b, w))
  BY <1>1, <1>2, <1>3, <1>6, BitsOfHalves DEF Weights
<1> QED
  BY <1>5, <1>7

\* Bytes are the same when their bits are.
LEMMA SameBits ==
  ASSUME NEW a \in Byte, NEW b \in Byte, \A w \in Weights : Bit(a, w) <=> Bit(b, w)
  PROVE  a = b
<1> DEFINE rest(c, w) == (c \div w) % 2
<1>1. ASSUME NEW c \in Byte
      PROVE  c = rest(c, 1) + 2 * rest(c, 2) + 4 * rest(c, 4) + 8 * rest(c, 8)
                   + 16 * rest(c, 16) + 32 * rest(c, 32) + 64 * rest(c, 64) + 128 * rest(c, 128)
  <2>1. \A w \in {2, 4, 8, 16, 32, 64, 128} : 2 * (c \div w) \in Int
    BY DEF Byte
  <2>2. c \div 1 = c /\ c \div 128 < 2
    BY DEF Byte
  <2>3. /\ (c \div 2) \div 2 = c \div 4
        /\ (c \div 4) \div 2 = c \div 8
        /\ (c \div 8) \div 2 = c \div 16
    BY DEF Byte
  <2>4. /\ (c \div 16) \div 2 = c \div 32
        /\ (c \div 32) \div 2 = c \div 64
        /\ (c \div 64) \div 2 = c \div 128
    BY DEF Byte
  <2>5. \A d \in Nat : d = (d % 2) + 2 * (d \div 2)
    OBVIOUS
  <2>6. c = (c % 2) + 2 * (c \div 2) /\ (c \div 128) \div 2 = 0
    BY <2>2 DEF Byte
  <2> QED
    BY <2>2, <2>3, <2>4, <2>5, <2>6 DEF Byte
<1>2. ASSUME NEW w \in Weights PROVE rest(a, w) = rest(b, w)
  <2>1. a \div w \in Nat /\ b \div w \in Nat
    BY DEF Byte, Weights
  <2>2. Bit(a, w) <=> Bit(b, w)
    OBVIOUS
  <2> QED
    BY <2>1, <2>2 DEF Bit
<1> HIDE DEF rest
<1> QED
  BY <1>1, <1>2 DEF Weights

\* So it is commutative and associative, and what is added twice is gone.
LEMMA XorLaws ==
  /\ \A a, b \in Byte : Xor(a, b) \in Byte /\ Xor(a, b) = Xor(b, a)
  /\ \A a, b, c \in Byte : Xor(Xor(a, b), c) = Xor(a, Xor(b, c))
  /\ \A a \in Byte : Xor(a, 0) = a /\ Xor(0, a) = a /\ Xor(a, a) = 0
<1>1. 0 \in Byte /\ \A w \in Weights : ~Bit(0, w)
  BY DEF Byte, Bit, Weights
<1>2. ASSUME NEW a \in Byte, NEW b \in Byte
      PROVE  Xor(a, b) \in Byte /\ Xor(a, b) = Xor(b, a)
  BY XorBits, SameBits
<1>3. ASSUME NEW a \in Byte, NEW b \in Byte, NEW c \in Byte
      PROVE  Xor(Xor(a, b), c) = Xor(a, Xor(b, c))
  <2>1. PICK l \in Byte, r \in Byte : l = Xor(Xor(a, b), c) /\ r = Xor(a, Xor(b, c))
    BY <1>2
  <2>2. ASSUME NEW w \in Weights PROVE Bit(l, w) <=> Bit(r, w)
    BY <2>1, <1>2, XorBits
  <2> QED
    BY <2>1, <2>2, SameBits
<1>4. ASSUME NEW a \in Byte PROVE Xor(a, 0) = a /\ Xor(0, a) = a /\ Xor(a, a) = 0
  BY <1>1, XorBits, SameBits
<1> QED
  BY <1>2, <1>3, <1>4

-----------------------------------------------------------------------------
\* Common subsequences: the recurrence every table of common lengths is filled
\* by.  What simil and same store in a cell is right when the cell's three
\* neighbours are.

\* Nothing is in common with an empty prefix.
LEMMA EmptyPrefix ==
  ASSUME NEW s, NEW t, NEW a \in Nat, NEW b \in Nat, a = 0 \/ b = 0
  PROVE  IsLCSLength(0, s, b, t, a)
<1> DEFINE f == [k \in 1..0 |-> 0]
<1>1. f \in Increasing(0, b) /\ f \in Increasing(0, a)
  BY DEF Increasing
<1>2. HaveInCommon(0, s, b, t, a)
  BY <1>1 DEF HaveInCommon
<1>3. ASSUME NEW m \in (0 + 1)..a PROVE ~HaveInCommon(m, s, b, t, a)
  <2>1. b = 0 /\ 1 \in 1..m
    BY <1>3
  <2>2. [1..m -> 1..b] = {}
    <3>1. 1..b = {}
      BY <2>1
    <3>2. ASSUME NEW g \in [1..m -> 1..b] PROVE FALSE
      BY <2>1, <3>1, <3>2
    <3> QED
      BY <3>2
  <2> QED
    BY <2>2 DEF HaveInCommon, Increasing
<1> QED
  BY <1>2, <1>3 DEF IsLCSLength

\* A selection from a prefix is one from every longer prefix.
LEMMA IncreasingWider ==
  ASSUME NEW n \in Nat, NEW m \in Nat, NEW m2 \in Nat, m <= m2,
         NEW f \in Increasing(n, m)
  PROVE  f \in Increasing(n, m2)
<1>1. 1..m \subseteq 1..m2
  OBVIOUS
<1> QED
  BY <1>1 DEF Increasing

\* Without its last element a selection fits in a shorter prefix.
LEMMA IncreasingDrop ==
  ASSUME NEW n \in Nat \ {0}, NEW m \in Nat \ {0}, NEW f \in Increasing(n, m)
  PROVE  [k \in 1..(n - 1) |-> f[k]] \in Increasing(n - 1, m - 1)
<1> DEFINE g == [k \in 1..(n - 1) |-> f[k]]
<1>1. f \in [1..n -> 1..m] /\ \A x, y \in 1..n : x < y => f[x] < f[y]
  BY DEF Increasing
<1>2. \A k \in 1..(n - 1) : k \in 1..n /\ k < n /\ n \in 1..n
  OBVIOUS
<1>3. \A k \in 1..(n - 1) : f[k] \in 1..m /\ f[n] \in 1..m /\ f[k] < f[n]
  BY <1>1, <1>2
<1>4. \A k \in 1..(n - 1) : f[k] \in 1..(m - 1)
  BY <1>3
<1>5. g \in [1..(n - 1) -> 1..(m - 1)]
  BY <1>4
<1>6. \A x, y \in 1..(n - 1) : x < y => g[x] < g[y]
  BY <1>1, <1>2
<1> QED
  BY <1>5, <1>6 DEF Increasing

\* A selection whose last place is not m does not need place m.
LEMMA IncreasingNarrower ==
  ASSUME NEW n \in Nat, NEW m \in Nat \ {0}, NEW f \in Increasing(n, m),
         n > 0 => f[n] # m
  PROVE  f \in Increasing(n, m - 1)
<1>1. f \in [1..n -> 1..m] /\ \A x, y \in 1..n : x < y => f[x] < f[y]
  BY DEF Increasing
<1>2. ASSUME NEW k \in 1..n PROVE f[k] \in 1..(m - 1)
  <2>1. n \in 1..n /\ f[n] \in 1..m /\ f[n] < m /\ f[k] \in 1..m
    BY <1>1, <1>2
  <2>2. k = n \/ f[k] < f[n]
    BY <1>1, <1>2, <2>1
  <2> QED
    BY <2>1, <2>2
<1>3. f \in [1..n -> 1..(m - 1)]
  BY <1>1, <1>2
<1> QED
  BY <1>1, <1>3 DEF Increasing

\* A place behind the last one makes a selection longer.
LEMMA IncreasingExtend ==
  ASSUME NEW n \in Nat, NEW m \in Nat \ {0}, NEW f \in Increasing(n, m - 1)
  PROVE  [k \in 1..(n + 1) |-> IF k = n + 1 THEN m ELSE f[k]]
           \in Increasing(n + 1, m)
<1> DEFINE g == [k \in 1..(n + 1) |-> IF k = n + 1 THEN m ELSE f[k]]
<1>1. f \in [1..n -> 1..(m - 1)] /\ \A x, y \in 1..n : x < y => f[x] < f[y]
  BY DEF Increasing
<1>2. \A k \in 1..(n + 1) : k = n + 1 \/ k \in 1..n
  OBVIOUS
<1>3. \A k \in 1..n : f[k] \in 1..m /\ f[k] < m
  BY <1>1
<1>4. g \in [1..(n + 1) -> 1..m]
  BY <1>2, <1>3
<1>5. ASSUME NEW x \in 1..(n + 1), NEW y \in 1..(n + 1), x < y
      PROVE  g[x] < g[y]
  <2>1. x \in 1..n /\ g[x] = f[x]
    BY <1>5
  <2>2. CASE y = n + 1
    BY <1>3, <2>1, <2>2
  <2>3. CASE y # n + 1
    BY <1>1, <1>2, <1>5, <2>1, <2>3
  <2> QED
    BY <2>2, <2>3
<1> QED
  BY <1>4, <1>5 DEF Increasing

-----------------------------------------------------------------------------
(* What two prefixes have in common.                                       *)

\* No more places can be picked than there are.
LEMMA IncreasingBound ==
  ASSUME NEW n \in Nat, NEW m \in Nat, NEW f \in Increasing(n, m)
  PROVE  n <= m
<1>1. f \in [1..n -> 1..m] /\ \A x, y \in 1..n : x < y => f[x] < f[y]
  BY DEF Increasing
<1>2. \A x, y \in 1..n : f[x] \in Int /\ (f[x] = f[y] => x = y)
  BY <1>1
<1>3. f \in Injection(1..n, 1..m)
  BY <1>1, <1>2 DEF Injection, IsInjective
<1>4. IsFiniteSet(1..n) /\ Cardinality(1..n) = n
  BY FS_Interval
<1>5. IsFiniteSet(1..m) /\ Cardinality(1..m) = m
  BY FS_Interval
<1> QED
  BY <1>3, <1>4, <1>5, FS_Injection

LEMMA CommonBound ==
  ASSUME NEW n \in Nat, NEW s, NEW b \in Nat, NEW t, NEW a \in Nat,
         HaveInCommon(n, s, b, t, a)
  PROVE  n <= a
BY IncreasingBound DEF HaveInCommon

LEMMA CommonWider ==
  ASSUME NEW n \in Nat, NEW s, NEW b \in Nat, NEW t, NEW a \in Nat,
         NEW b2 \in Nat, NEW a2 \in Nat, b <= b2, a <= a2,
         HaveInCommon(n, s, b, t, a)
  PROVE  HaveInCommon(n, s, b2, t, a2)
BY IncreasingWider DEF HaveInCommon

LEMMA CommonDrop ==
  ASSUME NEW n \in Nat \ {0}, NEW s, NEW b \in Nat \ {0}, NEW t,
         NEW a \in Nat \ {0}, HaveInCommon(n, s, b, t, a)
  PROVE  HaveInCommon(n - 1, s, b - 1, t, a - 1)
<1>1. PICK f \in Increasing(n, b), g \in Increasing(n, a) :
        \A k \in 1..n : s[f[k]] = t[g[k]]
  BY DEF HaveInCommon
<1> DEFINE f2 == [k \in 1..(n - 1) |-> f[k]]
           g2 == [k \in 1..(n - 1) |-> g[k]]
<1>2. f2 \in Increasing(n - 1, b - 1) /\ g2 \in Increasing(n - 1, a - 1)
  BY IncreasingDrop
<1>3. \A k \in 1..(n - 1) : s[f2[k]] = t[g2[k]]
  BY <1>1
<1> QED
  BY <1>2, <1>3 DEF HaveInCommon

LEMMA CommonExtend ==
  ASSUME NEW n \in Nat, NEW s, NEW b \in Nat \ {0}, NEW t,
         NEW a \in Nat \ {0}, HaveInCommon(n, s, b - 1, t, a - 1), s[b] = t[a]
  PROVE  HaveInCommon(n + 1, s, b, t, a)
<1>1. PICK f \in Increasing(n, b - 1), g \in Increasing(n, a - 1) :
        \A k \in 1..n : s[f[k]] = t[g[k]]
  BY DEF HaveInCommon
<1> DEFINE f2 == [k \in 1..(n + 1) |-> IF k = n + 1 THEN b ELSE f[k]]
           g2 == [k \in 1..(n + 1) |-> IF k = n + 1 THEN a ELSE g[k]]
<1>2. f2 \in Increasing(n + 1, b) /\ g2 \in Increasing(n + 1, a)
  BY IncreasingExtend
<1>3. \A k \in 1..(n + 1) : s[f2[k]] = t[g2[k]]
  <2>1. \A k \in 1..(n + 1) : k = n + 1 \/ k \in 1..n
    OBVIOUS
  <2> QED
    BY <1>1, <2>1
<1> QED
  BY <1>2, <1>3 DEF HaveInCommon

\* When the last elements differ, one of them is not needed.
LEMMA CommonNarrower ==
  ASSUME NEW n \in Nat, NEW s, NEW b \in Nat \ {0}, NEW t,
         NEW a \in Nat \ {0}, HaveInCommon(n, s, b, t, a), s[b] # t[a]
  PROVE  HaveInCommon(n, s, b - 1, t, a) \/ HaveInCommon(n, s, b, t, a - 1)
<1>1. PICK f \in Increasing(n, b), g \in Increasing(n, a) :
        \A k \in 1..n : s[f[k]] = t[g[k]]
  BY DEF HaveInCommon
<1>2. n > 0 => f[n] # b \/ g[n] # a
  BY <1>1
<1>3. CASE n > 0 => f[n] # b
  <2>1. f \in Increasing(n, b - 1)
    BY <1>3, IncreasingNarrower
  <2> QED
    BY <1>1, <2>1 DEF HaveInCommon
<1>4. CASE n > 0 => g[n] # a
  <2>1. g \in Increasing(n, a - 1)
    BY <1>4, IncreasingNarrower
  <2> QED
    BY <1>1, <2>1 DEF HaveInCommon
<1> QED
  BY <1>2, <1>3, <1>4

-----------------------------------------------------------------------------

\* The recurrence of the tables of simil and same computes the length of the
\* longest common subsequence, for any two sequences and any two prefixes,
\* from the cells on the diagonal (d), above (u) and to the left (l).
THEOREM LCSRecurrence ==
  ASSUME NEW s, NEW t, NEW b \in Nat \ {0}, NEW a \in Nat \ {0},
         NEW b1, NEW a1, b1 = b - 1, a1 = a - 1,
         NEW d, NEW u, NEW l,
         IsLCSLength(d, s, b1, t, a1),
         IsLCSLength(u, s, b, t, a1),
         IsLCSLength(l, s, b1, t, a)
  PROVE  /\ s[b] = t[a] => IsLCSLength(d + 1, s, b, t, a)
         /\ s[b] # t[a] /\ u >= l => IsLCSLength(u, s, b, t, a)
         /\ s[b] # t[a] /\ ~(u >= l) => IsLCSLength(l, s, b, t, a)
<1>1. /\ d \in 0..(a - 1) /\ u \in 0..(a - 1) /\ l \in 0..a
      /\ HaveInCommon(d, s, b - 1, t, a - 1)
      /\ HaveInCommon(u, s, b, t, a - 1)
      /\ HaveInCommon(l, s, b - 1, t, a)
      /\ \A m \in (d + 1)..(a - 1) : ~HaveInCommon(m, s, b - 1, t, a - 1)
      /\ \A m \in (u + 1)..(a - 1) : ~HaveInCommon(m, s, b, t, a - 1)
      /\ \A m \in (l + 1)..a : ~HaveInCommon(m, s, b - 1, t, a)
  BY DEF IsLCSLength
<1>2. CASE s[b] = t[a]
  <2>1. HaveInCommon(d + 1, s, b, t, a)
    BY <1>1, <1>2, CommonExtend
  <2>2. ASSUME NEW m \in ((d + 1) + 1)..a, HaveInCommon(m, s, b, t, a)
        PROVE  FALSE
    <3>1. HaveInCommon(m - 1, s, b - 1, t, a - 1)
      BY <1>1, <2>2, CommonDrop
    <3>2. m - 1 \in (d + 1)..(a - 1)
      BY <1>1
    <3> QED
      BY <1>1, <3>1, <3>2
  <2>3. IsLCSLength(d + 1, s, b, t, a)
    BY <1>1, <2>1, <2>2 DEF IsLCSLength
  <2> QED
    BY <1>2, <2>3
<1>3. CASE s[b] # t[a]
  <2> DEFINE n == IF u >= l THEN u ELSE l
  <2>1. HaveInCommon(u, s, b, t, a) /\ HaveInCommon(l, s, b, t, a)
    BY <1>1, CommonWider
  <2>2. n \in 0..a /\ n >= u /\ n >= l /\ HaveInCommon(n, s, b, t, a)
    BY <1>1, <2>1
  <2>3. ASSUME NEW m \in (n + 1)..a, HaveInCommon(m, s, b, t, a)
        PROVE  FALSE
    <3>1. m \in Nat /\ m > u /\ m > l
      BY <1>1, <2>2
    <3>2. ~HaveInCommon(m, s, b - 1, t, a)
      BY <1>1, <3>1
    <3>3. HaveInCommon(m, s, b, t, a - 1)
      BY <1>3, <2>3, <3>1, <3>2, CommonNarrower
    <3>4. m <= a - 1
      BY <3>1, <3>3, CommonBound
    <3> QED
      BY <1>1, <3>1, <3>3, <3>4
  <2>4. IsLCSLength(n, s, b, t, a)
    BY <2>2, <2>3 DEF IsLCSLength
  <2> QED
    BY <1>3, <2>4
<1> QED
  BY <1>2, <1>3

\* The order of the two sequences does not matter.
LEMMA LCSSymmetric ==
  ASSUME NEW s, NEW t, NEW b \in Nat, NEW a \in Nat, NEW n,
         IsLCSLength(n, s, b, t, a)
  PROVE  IsLCSLength(n, t, a, s, b)
<1>1. n \in 0..a /\ HaveInCommon(n, s, b, t, a)
  BY DEF IsLCSLength
<1>2. PICK f \in Increasing(n, b), g \in Increasing(n, a) :
        \A k \in 1..n : s[f[k]] = t[g[k]]
  BY <1>1 DEF HaveInCommon
<1>3. HaveInCommon(n, t, a, s, b) /\ n <= b
  BY <1>1, <1>2, IncreasingBound DEF HaveInCommon
<1>4. ASSUME NEW m \in (n + 1)..b, HaveInCommon(m, t, a, s, b) PROVE FALSE
  <2>1. PICK h \in Increasing(m, a), e \in Increasing(m, b) :
          \A k \in 1..m : t[h[k]] = s[e[k]]
    BY <1>4 DEF HaveInCommon
  <2>2. HaveInCommon(m, s, b, t, a)
    BY <2>1 DEF HaveInCommon
  <2>3. m \in Nat /\ m <= a
    BY <1>1, <2>1, IncreasingBound
  <2>4. m \in (n + 1)..a
    BY <1>1, <2>3
  <2> QED
    BY <2>2, <2>4 DEF IsLCSLength
<1> QED
  BY <1>1, <1>3, <1>4 DEF IsLCSLength
=============================================================================
