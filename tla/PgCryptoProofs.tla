---------------------------- MODULE PgCryptoProofs ----------------------------
(***************************************************************************)
(* Proofs about the SQL functions of pg_crypto.c, for every block cipher   *)
(* that CbcAssumption describes, every length of blocks and keys and every *)
(* set of arguments: aes_decrypt takes back aes_encrypt.                   *)
(***************************************************************************)
EXTENDS PgCrypto, TLAPS

B == AES_BLOCKLEN

LEMMA BlockLength == B \in Nat \ {0}
BY PgCryptoAssumption DEF B

-----------------------------------------------------------------------------
\* Bytes and blocks.

LEMMA Division ==
  ASSUME NEW n \in Nat
  PROVE  /\ n \div B \in Nat /\ n % B \in 0..(B - 1)
         /\ n = (n \div B) * B + (n % B)
BY BlockLength

LEMMA DivisionIs ==
  ASSUME NEW q \in Nat, NEW r \in 0..(B - 1)
  PROVE  /\ q * B + r \in Nat
         /\ (q * B + r) \div B = q /\ (q * B + r) % B = r
<1> DEFINE n == q * B + r
           d == n \div B
           e == n % B
<1>1. n \in Nat
  BY BlockLength
<1>2. d \in Nat /\ e \in 0..(B - 1) /\ n = d * B + e
  BY <1>1, Division
<1>3. (d - q) * B = r - e
  BY <1>2, BlockLength
<1> HIDE DEF n, d, e
<1>4. CASE d - q >= 1
  <2>1. (d - q) * B >= B
    BY <1>2, <1>4, BlockLength
  <2> QED
    BY <1>2, <1>3, <2>1, BlockLength
<1>5. CASE d - q <= -1
  <2>1. (d - q) * B <= -B
    BY <1>2, <1>5, BlockLength
  <2> QED
    BY <1>2, <1>3, <2>1, BlockLength
<1>6. CASE d = q
  BY <1>1, <1>2, <1>3, <1>6, BlockLength DEF n, d, e
<1> QED
  BY <1>2, <1>4, <1>5, <1>6

LEMMA MultipleOfBlock ==
  ASSUME NEW k \in Nat
  PROVE  k * B \in Nat /\ (k * B) % B = 0 /\ (k * B) \div B = k
<1>1. k * B + 0 = k * B /\ 0 \in 0..(B - 1)
  BY BlockLength
<1> QED
  BY <1>1, DivisionIs

\* The place of a byte in its block.
LEMMA BytePlace ==
  ASSUME NEW k \in Nat, NEW n \in 1..(k * B)
  PROVE  /\ ((n - 1) \div B) + 1 \in 1..k
         /\ ((n - 1) % B) + 1 \in 1..B
         /\ ((n - 1) \div B) * B + ((n - 1) % B) + 1 = n
<1>1. k * B \in Nat /\ n - 1 \in Nat /\ n - 1 < k * B
  BY BlockLength
<1> DEFINE q == (n - 1) \div B
           r == (n - 1) % B
<1>2. q \in Nat /\ r \in 0..(B - 1) /\ n - 1 = q * B + r
  BY <1>1, Division
<1> HIDE DEF q, r
<1>3. ASSUME q >= k PROVE FALSE
  <2>1. q * B >= k * B
    BY <1>2, <1>3, BlockLength
  <2> QED
    BY <1>1, <1>2, <2>1, BlockLength
<1> QED
  BY <1>2, <1>3, BlockLength DEF q, r

\* The place of byte m of block n.
At(n, m) == (n - 1) * B + m

LEMMA BlockPlace ==
  ASSUME NEW k \in Nat, NEW n \in 1..k, NEW m \in 1..B
  PROVE  /\ At(n, m) \in 1..(k * B)
         /\ ((At(n, m) - 1) \div B) + 1 = n /\ ((At(n, m) - 1) % B) + 1 = m
<1> DEFINE p == At(n, m)
<1>1. n - 1 \in Nat /\ m - 1 \in 0..(B - 1)
  BY BlockLength
<1>2. (n - 1) * B \in Nat /\ p \in Nat /\ p - 1 = (n - 1) * B + (m - 1)
  BY <1>1, BlockLength DEF At
<1> HIDE DEF p
<1>3. (p - 1) \div B = n - 1 /\ (p - 1) % B = m - 1
  BY <1>1, <1>2, DivisionIs
<1>4. (n - 1) * B + B <= k * B /\ k * B \in Nat
  <2>1. n * B <= k * B
    BY BlockLength
  <2>2. (n - 1) * B + B = n * B
    BY BlockLength
  <2> QED
    BY <2>1, <2>2, BlockLength
<1>5. p \in 1..(k * B)
  BY <1>2, <1>4, BlockLength
<1> QED
  BY <1>3, <1>5 DEF p

LEMMA IsSeq ==
  ASSUME NEW S, NEW n \in Nat, NEW f \in [1..n -> S]
  PROVE  f \in Seq(S) /\ Len(f) = n
OBVIOUS

LEMMA SeqIs ==
  ASSUME NEW S, NEW f \in Seq(S)
  PROVE  Len(f) \in Nat /\ f \in [1..Len(f) -> S]
OBVIOUS

LEMMA SameBytes ==
  ASSUME NEW n \in Nat, NEW f \in [1..n -> Byte], NEW g \in [1..n -> Byte],
         \A m \in 1..n : f[m] = g[m]
  PROVE  f = g
OBVIOUS

LEMMA BlocksAreBytes ==
  ASSUME NEW k \in Nat, NEW blocks \in [1..k -> Block]
  PROVE  /\ BytesOf(blocks) \in [1..(k * B) -> Byte]
         /\ \A n \in 1..(k * B) :
              BytesOf(blocks)[n] = blocks[((n - 1) \div B) + 1][((n - 1) % B) + 1]
<1>1. Len(blocks) = k
  BY IsSeq
<1>2. ASSUME NEW n \in 1..(k * B)
      PROVE  blocks[((n - 1) \div B) + 1][((n - 1) % B) + 1] \in Byte
  <2>1. ((n - 1) \div B) + 1 \in 1..k /\ ((n - 1) % B) + 1 \in 1..B
    BY BytePlace
  <2>2. blocks[((n - 1) \div B) + 1] \in [1..B -> Byte]
    BY <2>1, PgCryptoAssumption DEF B
  <2> QED
    BY <2>1, <2>2
<1> QED
  BY <1>1, <1>2 DEF BytesOf, B

LEMMA BytesAreBlocks ==
  ASSUME NEW k \in Nat, NEW bytes \in [1..(k * B) -> Byte]
  PROVE  /\ BlocksOf(bytes) \in [1..k -> Block]
         /\ \A n \in 1..k, m \in 1..B : BlocksOf(bytes)[n][m] = bytes[At(n, m)]
<1>1. k * B \in Nat /\ (k * B) \div B = k
  BY MultipleOfBlock
<1>2. Len(bytes) = k * B
  BY <1>1, IsSeq
<1>3. ASSUME NEW n \in 1..k, NEW m \in 1..B
      PROVE  bytes[At(n, m)] \in Byte
  BY BlockPlace
<1>4. BlocksOf(bytes) = [n \in 1..k |-> [m \in 1..B |-> bytes[At(n, m)]]]
  BY <1>1, <1>2 DEF BlocksOf, At, B
<1>5. Block = [1..B -> Byte]
  BY PgCryptoAssumption DEF B
<1>6. \A n \in 1..k : [m \in 1..B |-> bytes[At(n, m)]] \in Block
  BY <1>3, <1>5
<1>7. BlocksOf(bytes) \in [1..k -> Block]
  BY <1>4, <1>6
<1>8. ASSUME NEW n \in 1..k, NEW m \in 1..B
      PROVE  BlocksOf(bytes)[n][m] = bytes[At(n, m)]
  <2>1. BlocksOf(bytes)[n] = [l \in 1..B |-> bytes[At(n, l)]]
    BY <1>4
  <2> QED
    BY <2>1
<1> QED
  BY <1>7, <1>8

\* Bytes made of blocks and cut into blocks are those blocks again.
LEMMA BlocksBack ==
  ASSUME NEW k \in Nat, NEW blocks \in [1..k -> Block]
  PROVE  BlocksOf(BytesOf(blocks)) = blocks
<1> DEFINE bytes == BytesOf(blocks)
           again == BlocksOf(bytes)
<1>1. bytes \in [1..(k * B) -> Byte]
  BY BlocksAreBytes
<1>2. again \in [1..k -> Block]
  BY <1>1, BytesAreBlocks
<1>3. ASSUME NEW n \in 1..k PROVE again[n] = blocks[n]
  <2>1. again[n] \in [1..B -> Byte] /\ blocks[n] \in [1..B -> Byte]
    BY <1>2, PgCryptoAssumption DEF B
  <2>2. ASSUME NEW m \in 1..B PROVE again[n][m] = blocks[n][m]
    <3> DEFINE p == At(n, m)
    <3>1. again[n][m] = bytes[p]
      BY <1>1, BytesAreBlocks
    <3>2. p \in 1..(k * B) /\ ((p - 1) \div B) + 1 = n /\ ((p - 1) % B) + 1 = m
      BY BlockPlace
    <3> HIDE DEF p
    <3>3. bytes[p] = blocks[((p - 1) \div B) + 1][((p - 1) % B) + 1]
      BY <3>2, BlocksAreBytes
    <3> QED
      BY <3>1, <3>2, <3>3
  <2> HIDE DEF again
  <2> QED
    BY <2>1, <2>2, BlockLength, SameBytes
<1> HIDE DEF again
<1>4. again = blocks
  BY <1>2, <1>3
<1> QED
  BY <1>4 DEF again

LEMMA BytesBack ==
  ASSUME NEW k \in Nat, NEW bytes \in [1..(k * B) -> Byte]
  PROVE  BytesOf(BlocksOf(bytes)) = bytes
<1> DEFINE blocks == BlocksOf(bytes)
           again == BytesOf(blocks)
<1>1. blocks \in [1..k -> Block]
  BY BytesAreBlocks
<1>2. again \in [1..(k * B) -> Byte]
  BY <1>1, BlocksAreBytes
<1>3. ASSUME NEW n \in 1..(k * B) PROVE again[n] = bytes[n]
  <2> DEFINE q == ((n - 1) \div B) + 1
             r == ((n - 1) % B) + 1
  <2>1. q \in 1..k /\ r \in 1..B /\ At(q, r) = n
    BY BytePlace, BlockLength DEF At
  <2>2. again[n] = blocks[q][r]
    BY <1>1, BlocksAreBytes
  <2> HIDE DEF q, r
  <2>3. blocks[q][r] = bytes[At(q, r)]
    BY <2>1, BytesAreBlocks
  <2> QED
    BY <2>1, <2>2, <2>3
<1> HIDE DEF again
<1>4. again = bytes
  <2>1. k * B \in Nat
    BY MultipleOfBlock
  <2> QED
    BY <1>2, <1>3, <2>1, SameBytes
<1> QED
  BY <1>4 DEF again

-----------------------------------------------------------------------------
\* Texts and their padding.

NumBlocks(text) == Padded(Len(text)) \div B

LEMMA PaddedLength ==
  ASSUME NEW len \in Nat
  PROVE  /\ Padded(len) \in Nat
         /\ Padded(len) \div B \in Nat /\ Padded(len) = (Padded(len) \div B) * B
         /\ Padded(len) % B = 0
         /\ len <= Padded(len)
         /\ len % B # 0 => len < Padded(len)
         /\ len % B = 0 => Padded(len) = len
<1> DEFINE q == len \div B
           r == len % B
<1>1. q \in Nat /\ r \in 0..(B - 1) /\ len = q * B + r
  BY Division
<1>2. Padded(len) = q * B + (IF r = 0 THEN 0 ELSE B)
  BY DEF Padded, B
<1> HIDE DEF q, r
<1>3. q * B \in Nat
  BY <1>1, BlockLength
<1>4. CASE r = 0
  <2>1. Padded(len) = q * B
    BY <1>2, <1>3, <1>4
  <2>2. Padded(len) = len
    BY <1>1, <1>3, <1>4, <2>1
  <2> QED
    BY <1>1, <1>4, <2>1, <2>2, MultipleOfBlock DEF r
<1>5. CASE r # 0
  <2>1. Padded(len) = (q + 1) * B
    BY <1>1, <1>2, <1>5, BlockLength
  <2>2. q + 1 \in Nat
    BY <1>1
  <2>3. len < Padded(len)
    BY <1>1, <1>2, <1>3, <1>5, BlockLength
  <2> QED
    BY <1>5, <2>1, <2>2, <2>3, MultipleOfBlock DEF r
<1> QED
  BY <1>4, <1>5

LEMMA PaddedTextIs ==
  ASSUME NEW text \in Seq(Byte \ {0})
  PROVE  /\ NumBlocks(text) \in Nat
         /\ Padded(Len(text)) = NumBlocks(text) * B
         /\ PaddedText(text) \in [1..(NumBlocks(text) * B) -> Byte]
         /\ PaddedText(text) \in Seq(Byte)
         /\ Len(PaddedText(text)) = Padded(Len(text))
         /\ IsPrefix(text, PaddedText(text))
<1> DEFINE len == Len(text)
           all == Padded(len)
           f == PaddedText(text)
<1>1. len \in Nat /\ text \in [1..len -> Byte \ {0}]
  BY SeqIs
<1>2. all \in Nat /\ len <= all
  BY <1>1, PaddedLength
<1>3. all \div B \in Nat /\ all = (all \div B) * B
  BY <1>1, PaddedLength
<1>4. f = [n \in 1..all |-> IF n <= len THEN text[n] ELSE 0]
  BY DEF PaddedText
<1> HIDE DEF len, all, f
<1>5. \A n \in 1..all : (IF n <= len THEN text[n] ELSE 0) \in Byte
  BY <1>1, <1>2, PgCryptoAssumption DEF Byte
<1>6. f \in [1..all -> Byte]
  BY <1>4, <1>5
<1>7. f \in Seq(Byte) /\ Len(f) = all
  BY <1>2, <1>6, IsSeq
<1>8. IsPrefix(text, f)
  <2>1. \A n \in 1..len : text[n] = f[n]
    BY <1>1, <1>2, <1>4
  <2>2. DOMAIN text = 1..len /\ DOMAIN f = 1..all /\ Len(text) = len
    BY <1>1, <1>6 DEF len
  <2>3. text = SubSeq(f, 1, len)
    BY <1>1, <1>2, <1>7, <2>1
  <2> QED
    BY <1>2, <1>7, <2>2, <2>3, <2>1 DEF IsPrefix
<1> QED
  BY <1>3, <1>6, <1>7, <1>8 DEF len, all, f, NumBlocks

\* What strlen finds in a buffer is a text of bytes, if they are bytes.
LEMMA StringsAreBytes ==
  ASSUME NEW f \in Seq(Byte), NEW s \in StringsAt(f)
  PROVE  s \in Seq(Byte)
<1>1. CASE \E n \in DOMAIN f : f[n] = 0
  <2>1. PICK n \in DOMAIN f : s = SubSeq(f, 1, n - 1)
    BY <1>1 DEF StringsAt
  <2>2. n \in 1..Len(f)
    BY SeqIs
  <2> QED
    BY <2>1, <2>2
<1>2. CASE ~\E n \in DOMAIN f : f[n] = 0
  <2>1. PICK n \in 0..MaxTail : \E tail \in [1..n -> Byte \ {0}] : s = f \o tail
    BY <1>2 DEF StringsAt
  <2>2. PICK tail \in [1..n -> Byte \ {0}] : s = f \o tail
    BY <2>1
  <2>3. tail \in Seq(Byte \ {0})
    BY <2>1, <2>2, PgCryptoAssumption, IsSeq
  <2>4. tail \in Seq(Byte)
    BY <2>3
  <2> QED
    BY <2>2, <2>4
<1> QED
  BY <1>1, <1>2

\* In a padded text it finds the text, with more behind it if nothing was added.
LEMMA StringsOfPadded ==
  ASSUME NEW text \in Seq(Byte \ {0}), NEW s \in StringsAt(PaddedText(text))
  PROVE  IF Len(text) % B # 0 THEN s = text ELSE IsPrefix(text, s)
<1> DEFINE len == Len(text)
           all == Padded(len)
           f == PaddedText(text)
<1>1. len \in Nat /\ text \in [1..len -> Byte \ {0}]
  BY SeqIs
<1>2. f = [n \in 1..all |-> IF n <= len THEN text[n] ELSE 0]
  BY DEF PaddedText
<1>3. f \in Seq(Byte) /\ Len(f) = all /\ IsPrefix(text, f)
  BY PaddedTextIs
<1>4. all \in Nat /\ len <= all /\ (len % B # 0 => len < all) /\ (len % B = 0 => all = len)
  BY <1>1, PaddedLength
<1>5. s \in StringsAt(f)
  OBVIOUS
<1> HIDE DEF len, all, f
<1>6. \A n \in 1..all : f[n] = 0 <=> n > len
  <2> TAKE n \in 1..all
  <2>1. CASE n <= len
    <3>1. text[n] \in Byte \ {0} /\ f[n] = text[n]
      BY <1>1, <1>2, <2>1
    <3> QED
      BY <1>1, <1>4, <2>1, <3>1
  <2>2. CASE n > len
    BY <1>1, <1>2, <1>4, <2>2
  <2> QED
    BY <1>1, <1>4, <2>1, <2>2
<1>7. DOMAIN f = 1..all
  BY <1>2
<1>8. CASE len % B # 0
  <2>1. len + 1 \in 1..all /\ f[len + 1] = 0
    BY <1>1, <1>4, <1>6, <1>8
  <2>2. PICK n \in 1..all : s = SubSeq(f, 1, n - 1) /\ f[n] = 0 /\ \A l \in 1..(n - 1) : f[l] # 0
    BY <1>5, <1>7, <2>1 DEF StringsAt
  <2>3. n = len + 1
    <3>1. n > len
      BY <1>6, <2>2
    <3>2. ASSUME n > len + 1 PROVE FALSE
      <4>1. len + 1 \in 1..(n - 1)
        BY <1>1, <3>2, <2>2, <1>4
      <4> QED
        BY <2>1, <2>2, <4>1
    <3> QED
      BY <1>1, <1>4, <3>1, <3>2
  <2>4. s = SubSeq(f, 1, len)
    BY <1>1, <2>2, <2>3
  <2>5. \A m \in 1..len : text[m] = f[m]
    BY <1>1, <1>2, <1>4
  <2>6. text = SubSeq(f, 1, len)
    BY <1>1, <1>3, <1>4, <2>5
  <2> QED
    BY <1>8, <2>4, <2>6 DEF len
<1>9. CASE len % B = 0
  <2>1. ~\E n \in DOMAIN f : f[n] = 0
    BY <1>1, <1>4, <1>6, <1>7, <1>9
  <2>2. PICK k \in 0..MaxTail : \E tail \in [1..k -> Byte \ {0}] : s = f \o tail
    BY <1>5, <2>1 DEF StringsAt
  <2>3. PICK tail \in [1..k -> Byte \ {0}] : s = f \o tail
    BY <2>2
  <2>4. tail \in Seq(Byte \ {0})
    BY <2>2, <2>3, PgCryptoAssumption, IsSeq
  <2>5. tail \in Seq(Byte)
    BY <2>4
  <2>6. \A m \in 1..len : text[m] = f[m]
    BY <1>1, <1>2, <1>4
  <2>7. Len(s) \in Nat /\ len <= Len(s) /\ s \in Seq(Byte) /\ \A m \in 1..len : s[m] = text[m]
    BY <1>1, <1>3, <1>4, <1>9, <2>3, <2>5, <2>6
  <2>8. SubSeq(text, 1, len) = SubSeq(s, 1, len)
    BY <1>1, <2>7 DEF len
  <2> QED
    BY <1>1, <1>9, <2>7, <2>8 DEF IsPrefix, len
<1> QED
  BY <1>8, <1>9 DEF len

-----------------------------------------------------------------------------
\* Encryption and decryption.

\* bytes are what aes_encrypt may return for the text under key and IV.
Seals(key, iv, text, bytes) ==
  \E k \in ReadsAs(key.bytes, AES_KEYLEN), v \in ReadsAs(iv.bytes, AES_BLOCKLEN),
     c \in [1..NumBlocks(text) -> Block] :
       /\ bytes = BytesOf(c)
       /\ Encrypts(k, v, BlocksOf(PaddedText(text)), c, NumBlocks(text))

\* What AES_CBC_decrypt_buffer makes of the blocks.
Opened(k, v, cipher) ==
  [n \in DOMAIN cipher |-> XorWithIv(Dec(k, cipher[n]), Previous(v, cipher, n))]

LEMMA ReadsAreBytes ==
  ASSUME NEW s, NEW n \in Nat, NEW r \in ReadsAs(s, n)
  PROVE  r \in [1..n -> Byte]
BY DEF ReadsAs

LEMMA KeysAndBlocks ==
  ASSUME NEW s, NEW t, NEW k \in ReadsAs(s, AES_KEYLEN), NEW v \in ReadsAs(t, AES_BLOCKLEN)
  PROVE  k \in Key /\ v \in Block
BY PgCryptoAssumption DEF ReadsAs

\* Enough bytes are read in one way only.
LEMMA ReadsOnce ==
  ASSUME NEW s, NEW n \in Nat, Len(s) \in Nat, Len(s) >= n,
         NEW a \in ReadsAs(s, n), NEW b \in ReadsAs(s, n)
  PROVE  a = b
<1>1. a \in [1..n -> Byte] /\ b \in [1..n -> Byte]
  BY ReadsAreBytes
<1>2. ASSUME NEW m \in 1..n PROVE a[m] = b[m]
  BY DEF ReadsAs
<1> QED
  BY <1>1, <1>2, SameBytes

LEMMA PreviousIsBlock ==
  ASSUME NEW k \in Nat, NEW v \in Block, NEW c \in [1..k -> Block], NEW n \in 1..k
  PROVE  Previous(v, c, n) \in Block
<1>1. CASE n = 1
  BY <1>1 DEF Previous
<1>2. CASE n # 1
  <2>1. n - 1 \in 1..k
    BY <1>2
  <2> QED
    BY <1>2, <2>1 DEF Previous
<1> QED
  BY <1>1, <1>2

LEMMA OpenedBytes ==
  ASSUME NEW k \in Key, NEW v \in Block, NEW n \in Nat, NEW c \in [1..n -> Block]
  PROVE  /\ Opened(k, v, c) \in [1..n -> Block]
         /\ BytesOf(Opened(k, v, c)) \in Seq(Byte)
<1>1. ASSUME NEW m \in 1..n PROVE XorWithIv(Dec(k, c[m]), Previous(v, c, m)) \in Block
  <2>1. Previous(v, c, m) \in Block /\ c[m] \in Block
    BY PreviousIsBlock
  <2> QED
    BY <2>1, CbcAssumption
<1>2. Opened(k, v, c) \in [1..n -> Block]
  BY <1>1 DEF Opened
<1>3. BytesOf(Opened(k, v, c)) \in [1..(n * B) -> Byte] /\ n * B \in Nat
  BY <1>2, BlocksAreBytes, MultipleOfBlock
<1> QED
  BY <1>2, <1>3, IsSeq

\* What encryption makes of a text is a whole number of blocks.
LEMMA SealedLength ==
  ASSUME NEW key, NEW iv, NEW text \in Seq(Byte \ {0}), NEW bytes,
         Seals(key, iv, text, bytes)
  PROVE  bytes \in Seq(Byte) /\ Len(bytes) % B = 0
<1>1. PICK c \in [1..NumBlocks(text) -> Block] : bytes = BytesOf(c)
  BY DEF Seals
<1>2. NumBlocks(text) \in Nat
  BY PaddedTextIs
<1>3. bytes \in [1..(NumBlocks(text) * B) -> Byte] /\ NumBlocks(text) * B \in Nat
      /\ (NumBlocks(text) * B) % B = 0
  BY <1>1, <1>2, BlocksAreBytes, MultipleOfBlock
<1> QED
  BY <1>3, IsSeq

LEMMA EncryptionSeals ==
  ASSUME NEW key, NEW iv, NEW text \in Seq(Byte \ {0}),
         NEW k \in ReadsAs(key.bytes, AES_KEYLEN), NEW v \in ReadsAs(iv.bytes, AES_BLOCKLEN),
         NEW c \in [DOMAIN BlocksOf(PaddedText(text)) -> Block],
         Encrypts(k, v, BlocksOf(PaddedText(text)), c, Len(BlocksOf(PaddedText(text))))
  PROVE  Seals(key, iv, text, BytesOf(c))
<1> DEFINE plain == BlocksOf(PaddedText(text))
<1>1. NumBlocks(text) \in Nat /\ plain \in [1..NumBlocks(text) -> Block]
  BY PaddedTextIs, BytesAreBlocks
<1>2. Len(plain) = NumBlocks(text) /\ DOMAIN plain = 1..NumBlocks(text)
  BY <1>1, IsSeq
<1> QED
  BY <1>2 DEF Seals

\* Decryption under the same key and IV takes encryption back.
LEMMA OpensWhatIsSealed ==
  ASSUME NEW key, NEW iv, NEW text \in Seq(Byte \ {0}), NEW bytes,
         Seals(key, iv, text, bytes),
         Len(key.bytes) \in Nat, Len(key.bytes) >= AES_KEYLEN,
         Len(iv.bytes) \in Nat, Len(iv.bytes) >= AES_BLOCKLEN,
         NEW k \in ReadsAs(key.bytes, AES_KEYLEN), NEW v \in ReadsAs(iv.bytes, AES_BLOCKLEN)
  PROVE  BytesOf(Opened(k, v, BlocksOf(bytes))) = PaddedText(text)
<1> DEFINE N == NumBlocks(text)
           plain == BlocksOf(PaddedText(text))
<1>1. N \in Nat /\ PaddedText(text) \in [1..(N * B) -> Byte]
  BY PaddedTextIs
<1>2. plain \in [1..N -> Block] /\ BytesOf(plain) = PaddedText(text)
  BY <1>1, BytesAreBlocks, BytesBack
<1>3. PICK k1 \in ReadsAs(key.bytes, AES_KEYLEN), v1 \in ReadsAs(iv.bytes, AES_BLOCKLEN),
           c \in [1..N -> Block] :
        bytes = BytesOf(c) /\ Encrypts(k1, v1, plain, c, N)
  BY DEF Seals
<1>4. k1 = k /\ v1 = v
  BY PgCryptoAssumption, ReadsOnce
<1>5. BlocksOf(bytes) = c
  BY <1>1, <1>3, BlocksBack
<1>6. k \in Key /\ v \in Block
  BY KeysAndBlocks
<1> HIDE DEF plain, N
<1>7. ASSUME NEW n \in 1..N PROVE XorWithIv(Dec(k, c[n]), Previous(v, c, n)) = plain[n]
  <2>1. Previous(v, c, n) \in Block /\ plain[n] \in Block
    BY <1>1, <1>2, <1>6, PreviousIsBlock
  <2>2. XorWithIv(plain[n], Previous(v, c, n)) \in Block
    BY <2>1, CbcAssumption
  <2>3. c[n] = Enc(k, XorWithIv(plain[n], Previous(v, c, n)))
    BY <1>3, <1>4 DEF Encrypts
  <2>4. Dec(k, c[n]) = XorWithIv(plain[n], Previous(v, c, n))
    BY <1>6, <2>2, <2>3, CbcAssumption
  <2> QED
    BY <2>1, <2>4, CbcAssumption
<1>8. Opened(k, v, c) = plain
  BY <1>2, <1>7 DEF Opened
<1> QED
  BY <1>2, <1>5, <1>8

-----------------------------------------------------------------------------
\* The inductive invariant: what the steps of a call hand on to one another.

B64       == [form : {"base64", "malformed", "empty"}, bytes : Seq(Byte)]
PlainText == [form : {"text"}, bytes : Seq(Byte \ {0})]
Calls     == [name : {"generate_aes_key", "generate_aes_iv", "aes_encrypt", "aes_decrypt"},
              key : B64, iv : B64, data : B64 \cup PlainText]
Decodable == [form : {"base64"}, bytes : Seq(Byte)]
Sealings  == [name : {"sealed"}, key : B64, iv : B64, text : Seq(Byte \ {0}),
              cipher : Decodable]

EncryptSteps == {"pad", "encrypt", "encode"}
DecryptSteps == {"decode_data", "decrypt", "terminate"}

\* The running call is one of those that have its step.
CallShape ==
  /\ call = None \/ call \in Calls
  /\ pc # "idle" => call \in Calls
  /\ call.name = "aes_encrypt" => call.data \in PlainText
  /\ call.name = "aes_decrypt" => call.data \in B64
  /\ pc = "generate" => call.name \in {"generate_aes_key", "generate_aes_iv"}
  /\ pc \in {"decode_key", "decode_iv"} => call.name \in {"aes_encrypt", "aes_decrypt"}
  /\ pc \in EncryptSteps => call.name = "aes_encrypt"
  /\ pc \in DecryptSteps => call.name = "aes_decrypt"

\* What each step has allocated so far.
LiveShape ==
  /\ pc = "decode_key" => live = {}
  /\ pc = "decode_iv" => live = {"bin_key"}
  /\ pc \in {"pad", "decode_data"} => live = {"bin_key", "bin_iv"}
  /\ pc \in {"encrypt", "encode"} => live = {"bin_key", "bin_iv", "bin_encrypt"}
  /\ pc \in {"decrypt", "terminate"} => live = {"bin_key", "bin_iv", "result"}

\* The running or last call has the ciphertext, the key and the IV of the last
\* aes_encrypt.
Fits ==
  /\ sealed # None
  /\ call.data = sealed.cipher /\ call.key = sealed.key /\ call.iv = sealed.iv
  /\ Full(call.key, AES_KEYLEN) /\ Full(call.iv, AES_BLOCKLEN)

\* What is in the buffer before each step.
BufferShape ==
  /\ pc \in {"decode_iv"} \cup EncryptSteps \cup DecryptSteps => bin_key = call.key.bytes
  /\ pc \in EncryptSteps \cup DecryptSteps => bin_iv = call.iv.bytes
  /\ pc = "encrypt" => buffer = PaddedText(call.data.bytes)
  /\ pc = "encode" => Seals(call.key, call.iv, call.data.bytes, buffer)
  /\ pc = "decrypt" => buffer = call.data.bytes /\ Len(buffer) % B = 0
  /\ pc = "terminate" /\ Fits => buffer = PaddedText(sealed.text)

\* The last aes_encrypt returned what its arguments encrypt to.
SealedShape ==
  sealed = None \/ /\ sealed \in Sealings
                   /\ Seals(sealed.key, sealed.iv, sealed.text, sealed.cipher.bytes)

\* What the last call returned.
Returned == RoundTrip /\ NullIsTruncation /\ FreedOnReturn

IInv == TypeOK /\ CallShape /\ LiveShape /\ BufferShape /\ SealedShape /\ Returned

-----------------------------------------------------------------------------

LEMMA Arguments ==
  /\ KeyTexts \subseteq B64 /\ IvTexts \subseteq B64 /\ DataTexts \subseteq B64
  /\ Empty \in B64
  /\ \A text \in Texts : Plain(text) \in PlainText /\ Plain(text).bytes = text
<1>1. <<>> \in Seq(Byte)
  OBVIOUS
<1>2. Empty \in B64 /\ Malformed \in B64
  BY <1>1 DEF Empty, Malformed, B64
<1>3. [form : {"base64"}, bytes : Seq(Byte)] \subseteq B64
  BY DEF B64
<1>4. KeyTexts \cup IvTexts \cup DataTexts \subseteq B64
  BY <1>2, <1>3, Base64Assumption
<1>5. \A text \in Texts : Plain(text) \in PlainText /\ Plain(text).bytes = text
  BY PgCryptoAssumption DEF Plain, PlainText
<1> QED
  BY <1>2, <1>4, <1>5

LEMMA NoneIsNoCall ==
  /\ None \notin Calls /\ None \notin Sealings /\ None.name = "none"
  /\ \A c \in Calls : c # None
BY DEF None, Calls, Sealings

LEMMA InitIInv == Init => IInv
<1> SUFFICES ASSUME Init PROVE IInv
  OBVIOUS
<1>1. <<>> \in Seq(Byte)
  OBVIOUS
<1>2. TypeOK
  BY <1>1 DEF Init, TypeOK, Steps, None
<1>3. CallShape /\ LiveShape /\ BufferShape /\ SealedShape
  BY NoneIsNoCall DEF Init, CallShape, LiveShape, BufferShape, SealedShape, Fits,
     EncryptSteps, DecryptSteps
<1>4. Returned
  BY NoneIsNoCall DEF Init, Returned, RoundTrip, Reopened, NullIsTruncation, FreedOnReturn
<1> QED
  BY <1>2, <1>3, <1>4 DEF IInv

LEMMA BeginStep ==
  ASSUME IInv,
         NEW step \in {"generate", "decode_key"}, NEW c \in Calls,
         c.name = "aes_encrypt" => c.data \in PlainText,
         c.name = "aes_decrypt" => c.data \in B64,
         step = "generate" => c.name \in {"generate_aes_key", "generate_aes_iv"},
         step = "decode_key" => c.name \in {"aes_encrypt", "aes_decrypt"},
         Begin(step, c.name, c.key, c.iv, c.data)
  PROVE  IInv'
<1>1. call' = c
  BY DEF Begin, Calls
<1>2. <<>> \in Seq(Byte)
  OBVIOUS
<1>3. TypeOK'
  BY <1>2 DEF Begin, TypeOK, Steps, None
<1>4. CallShape'
  BY <1>1 DEF Begin, CallShape, EncryptSteps, DecryptSteps
<1>5. LiveShape'
  BY DEF Begin, LiveShape
<1>6. BufferShape'
  BY DEF Begin, BufferShape, EncryptSteps, DecryptSteps
<1>7. SealedShape'
  BY DEF Begin, IInv, SealedShape
<1>8. Returned'
  BY DEF Begin, Returned, RoundTrip, Reopened, NullIsTruncation, FreedOnReturn
<1> QED
  BY <1>3, <1>4, <1>5, <1>6, <1>7, <1>8 DEF IInv

LEMMA RaiseStep ==
  ASSUME IInv, pc \notin {"idle", "generate"}, Raise, call.name = "aes_decrypt" => ~Fits
  PROVE  IInv'
<1>1. TypeOK'
  <2>1. <<>> \in Seq(Byte)
    OBVIOUS
  <2>2. call.name \in {"aes_encrypt", "aes_decrypt"} /\ call' = call
    BY DEF Raise, IInv, CallShape, EncryptSteps, DecryptSteps, TypeOK, Steps
  <2> QED
    BY <2>1, <2>2 DEF Raise, IInv, TypeOK, Steps, Error
<1>2. CallShape'
  BY DEF Raise, IInv, CallShape, EncryptSteps, DecryptSteps
<1>3. LiveShape' /\ BufferShape' /\ SealedShape'
  BY DEF Raise, IInv, LiveShape, BufferShape, SealedShape, EncryptSteps, DecryptSteps
<1>4. RoundTrip'
  BY DEF Raise, RoundTrip, Reopened, Fits
<1>5. NullIsTruncation' /\ FreedOnReturn'
  BY DEF Raise, NullIsTruncation, FreedOnReturn, Error, Null
<1> QED
  BY <1>1, <1>2, <1>3, <1>4, <1>5 DEF IInv, Returned

\* A call that still runs has returned nothing.
LEMMA Running == ASSUME pc' # "idle" PROVE Returned'
BY DEF Returned, RoundTrip, Reopened, NullIsTruncation, FreedOnReturn

LEMMA DecodeStep == ASSUME IInv, DecodeKey \/ DecodeIv PROVE IInv'
<1>1. call \in Calls /\ call.key \in B64 /\ call.iv \in B64
  BY DEF DecodeKey, DecodeIv, IInv, CallShape, Calls
<1>2. CASE DecodeKey /\ Decodes(call.key)
  <2>1. call.key.bytes \in Seq(Byte)
    BY <1>1 DEF B64
  <2>2. TypeOK'
    BY <1>2, <2>1 DEF DecodeKey, IInv, TypeOK, Steps
  <2>3. CallShape' /\ LiveShape' /\ SealedShape'
    BY <1>2 DEF DecodeKey, IInv, CallShape, LiveShape, SealedShape, EncryptSteps, DecryptSteps
  <2>4. BufferShape'
    BY <1>2 DEF DecodeKey, BufferShape, EncryptSteps, DecryptSteps
  <2>5. Returned'
    BY <1>2, Running DEF DecodeKey
  <2> QED
    BY <2>2, <2>3, <2>4, <2>5 DEF IInv
<1>3. CASE DecodeIv /\ Decodes(call.iv)
  <2>1. call.iv.bytes \in Seq(Byte)
    BY <1>1 DEF B64
  <2>2. TypeOK'
    BY <1>3, <2>1 DEF DecodeIv, IInv, TypeOK, Steps
  <2>3. CallShape' /\ LiveShape' /\ SealedShape'
    BY <1>3 DEF DecodeIv, IInv, CallShape, LiveShape, SealedShape, EncryptSteps, DecryptSteps
  <2>4. BufferShape'
    BY <1>3 DEF DecodeIv, IInv, BufferShape, EncryptSteps, DecryptSteps
  <2>5. Returned'
    BY <1>3, Running DEF DecodeIv
  <2> QED
    BY <2>2, <2>3, <2>4, <2>5 DEF IInv
<1>4. CASE (DecodeKey /\ ~Decodes(call.key)) \/ (DecodeIv /\ ~Decodes(call.iv))
  <2>1. ~Fits
    BY <1>4 DEF Fits, Full, Decodes, DecodeKey, DecodeIv
  <2>2. Raise /\ pc \notin {"idle", "generate"}
    BY <1>4 DEF DecodeKey, DecodeIv
  <2> QED
    BY <2>1, <2>2, RaiseStep
<1> QED
  BY <1>2, <1>3, <1>4

LEMMA GenerateStep == ASSUME IInv, Generate PROVE IInv'
<1>1. PICK s \in [1..AES_KEYLEN -> RandomBytes] : outcome' = Base64(s)
  BY DEF Generate, Generated
<1>2. s \in [1..AES_KEYLEN -> Byte]
  BY PgCryptoAssumption DEF RandomBytes, Byte
<1>3. s \in Seq(Byte)
  BY <1>2, PgCryptoAssumption, IsSeq
<1>a. Len(s) = AES_KEYLEN /\ AES_KEYLEN >= AES_BLOCKLEN
  BY <1>2, PgCryptoAssumption, IsSeq
<1>b. outcome'.form = "base64" /\ outcome'.bytes = s /\ pc' = "idle"
  BY <1>1 DEF Generate, Base64
<1>4. TypeOK'
  BY <1>3, <1>a, <1>b, PgCryptoAssumption DEF Generate, IInv, TypeOK, Steps, Full
<1>5. CallShape' /\ LiveShape' /\ BufferShape' /\ SealedShape'
  BY DEF Generate, IInv, CallShape, LiveShape, BufferShape, SealedShape, EncryptSteps, DecryptSteps
<1>6. call.name \in {"generate_aes_key", "generate_aes_iv"} /\ call' = call
  BY DEF Generate, IInv, CallShape
<1>7. Returned'
  BY <1>1, <1>6 DEF Returned, RoundTrip, Reopened, NullIsTruncation, FreedOnReturn, Base64, Null
<1> QED
  BY <1>4, <1>5, <1>7 DEF IInv

LEMMA EncryptArguments ==
  ASSUME IInv, pc \in EncryptSteps
  PROVE  /\ call \in Calls /\ call.name = "aes_encrypt"
         /\ call.key \in B64 /\ call.iv \in B64
         /\ call.data.bytes \in Seq(Byte \ {0})
<1>1. call \in Calls /\ call.name = "aes_encrypt" /\ call.data \in PlainText
  BY DEF IInv, CallShape, EncryptSteps
<1> QED
  BY <1>1 DEF Calls, PlainText

LEMMA PadStep == ASSUME IInv, Pad PROVE IInv'
<1>1. call.data.bytes \in Seq(Byte \ {0})
  BY EncryptArguments DEF Pad, EncryptSteps
<1>2. buffer' = PaddedText(call.data.bytes) /\ buffer' \in Seq(Byte)
  BY <1>1, PaddedTextIs DEF Pad
<1>3. TypeOK'
  BY <1>2 DEF Pad, IInv, TypeOK, Steps
<1>4. CallShape' /\ LiveShape' /\ SealedShape'
  BY DEF Pad, IInv, CallShape, LiveShape, SealedShape, EncryptSteps, DecryptSteps
<1>5. BufferShape'
  BY <1>2 DEF Pad, IInv, BufferShape, EncryptSteps, DecryptSteps
<1>6. Returned'
  BY Running DEF Pad
<1> QED
  BY <1>3, <1>4, <1>5, <1>6 DEF IInv

LEMMA EncryptStep == ASSUME IInv, Encrypt PROVE IInv'
<1>1. call.data.bytes \in Seq(Byte \ {0})
  BY EncryptArguments DEF Encrypt, EncryptSteps
<1>2. bin_key = call.key.bytes /\ bin_iv = call.iv.bytes /\ buffer = PaddedText(call.data.bytes)
  BY DEF Encrypt, IInv, BufferShape, EncryptSteps
<1>3. PICK k \in ReadsAs(call.key.bytes, AES_KEYLEN), v \in ReadsAs(call.iv.bytes, AES_BLOCKLEN),
           c \in [DOMAIN BlocksOf(buffer) -> Block] :
        /\ Encrypts(k, v, BlocksOf(buffer), c, Len(BlocksOf(buffer)))
        /\ buffer' = BytesOf(c)
  BY <1>2 DEF Encrypt
<1>4. Seals(call.key, call.iv, call.data.bytes, buffer')
  BY <1>1, <1>2, <1>3, EncryptionSeals
<1>5. buffer' \in Seq(Byte)
  BY <1>1, <1>4, SealedLength
<1>6. TypeOK'
  BY <1>5 DEF Encrypt, IInv, TypeOK, Steps
<1>7. CallShape' /\ LiveShape' /\ SealedShape'
  BY DEF Encrypt, IInv, CallShape, LiveShape, SealedShape, EncryptSteps, DecryptSteps
<1>8. BufferShape'
  BY <1>4 DEF Encrypt, IInv, BufferShape, EncryptSteps, DecryptSteps
<1>9. Returned'
  BY Running DEF Encrypt
<1> QED
  BY <1>6, <1>7, <1>8, <1>9 DEF IInv

LEMMA EncodeStep == ASSUME IInv, Encode PROVE IInv'
<1>1. call \in Calls /\ call.name = "aes_encrypt" /\ call.key \in B64 /\ call.iv \in B64
      /\ call.data.bytes \in Seq(Byte \ {0})
  BY EncryptArguments DEF Encode, EncryptSteps
<1>2. CASE buffer = <<>>
  <2>1. Raise /\ pc \notin {"idle", "generate"}
    BY <1>2 DEF Encode, Encoded
  <2> QED
    BY <1>1, <2>1, RaiseStep
<1>3. CASE buffer # <<>>
  <2> DEFINE new == [name |-> "sealed", key |-> call.key, iv |-> call.iv,
                     text |-> call.data.bytes, cipher |-> Base64(buffer)]
  <2>1. /\ outcome' = Base64(buffer) /\ sealed' = new
        /\ live' = (live \cup {"result"}) \ {"bin_key", "bin_iv", "bin_encrypt"}
        /\ pc' = "idle" /\ UNCHANGED <<call, bin_key, bin_iv, buffer>>
    BY <1>3 DEF Encode, Encoded
  <2>2. buffer \in Seq(Byte) /\ Seals(call.key, call.iv, call.data.bytes, buffer)
    BY DEF Encode, IInv, TypeOK, BufferShape
  <2>3. Base64(buffer) \in Decodable /\ Base64(buffer).bytes = buffer
    BY <2>2 DEF Base64, Decodable
  <2>4. new \in Sealings
    BY <1>1, <2>3 DEF Sealings
  <2>5. SealedShape'
    BY <2>1, <2>2, <2>3, <2>4 DEF SealedShape
  <2> HIDE DEF new
  <2>6. TypeOK'
    BY <1>1, <2>1, <2>2 DEF IInv, TypeOK, Steps, Base64
  <2>7. CallShape' /\ LiveShape' /\ BufferShape'
    BY <2>1 DEF IInv, CallShape, LiveShape, BufferShape, EncryptSteps, DecryptSteps
  <2>8. live = {"bin_key", "bin_iv", "bin_encrypt"}
    BY DEF Encode, IInv, LiveShape
  <2>9. Returned'
    BY <1>1, <2>1, <2>8 DEF Returned, RoundTrip, Reopened, NullIsTruncation, FreedOnReturn,
       Base64, Null
  <2> QED
    BY <2>5, <2>6, <2>7, <2>9 DEF IInv
<1> QED
  BY <1>2, <1>3

LEMMA DecryptArguments ==
  ASSUME IInv, pc \in DecryptSteps
  PROVE  /\ call \in Calls /\ call.name = "aes_decrypt"
         /\ call.key \in B64 /\ call.iv \in B64 /\ call.data \in B64
         /\ call.data.bytes \in Seq(Byte)
<1>1. call \in Calls /\ call.name = "aes_decrypt" /\ call.data \in B64
  BY DEF IInv, CallShape, DecryptSteps
<1> QED
  BY <1>1 DEF Calls, B64

\* The ciphertext of the last aes_encrypt has whole blocks.
LEMMA SealedIsWhole ==
  ASSUME IInv, sealed # None
  PROVE  /\ sealed \in Sealings /\ sealed.cipher \in Decodable
         /\ sealed.text \in Seq(Byte \ {0})
         /\ Seals(sealed.key, sealed.iv, sealed.text, sealed.cipher.bytes)
         /\ Len(sealed.cipher.bytes) % B = 0
<1>1. sealed \in Sealings /\ Seals(sealed.key, sealed.iv, sealed.text, sealed.cipher.bytes)
  BY DEF IInv, SealedShape
<1>2. sealed.text \in Seq(Byte \ {0}) /\ sealed.cipher \in Decodable
  BY <1>1 DEF Sealings
<1> QED
  BY <1>1, <1>2, SealedLength

LEMMA DecodeDataStep == ASSUME IInv, DecodeData PROVE IInv'
<1>1. /\ call \in Calls /\ call.name = "aes_decrypt" /\ call.data \in B64
      /\ call.data.bytes \in Seq(Byte)
  BY DecryptArguments DEF DecodeData, DecryptSteps
<1>2. Fits => Len(call.data.bytes) % B = 0 /\ Decodes(call.data)
  BY SealedIsWhole DEF Fits, Decodable, Decodes
<1>3. CASE ~Decodes(call.data)
  <2>1. Raise /\ pc \notin {"idle", "generate"}
    BY <1>3 DEF DecodeData
  <2> QED
    BY <1>2, <1>3, <2>1, RaiseStep
<1>4. CASE Decodes(call.data) /\ Torn
  <2>1. /\ buffer' = call.data.bytes /\ live' = (live \cup {"result"}) \ {"bin_key", "bin_iv"}
        /\ outcome' = Null /\ pc' = "idle" /\ UNCHANGED <<call, bin_key, bin_iv, sealed>>
    BY <1>4 DEF DecodeData, Freed
  <2>2. Len(call.data.bytes) % B # 0
    BY <1>4 DEF Torn, B
  <2>3. live = {"bin_key", "bin_iv"}
    BY DEF DecodeData, IInv, LiveShape
  <2>4. <<>> \in Seq(Byte)
    OBVIOUS
  <2>5. TypeOK'
    BY <1>1, <2>1, <2>4 DEF IInv, TypeOK, Steps, Null
  <2>6. CallShape' /\ LiveShape' /\ BufferShape' /\ SealedShape'
    BY <2>1 DEF IInv, CallShape, LiveShape, BufferShape, SealedShape, EncryptSteps, DecryptSteps
  <2>7. RoundTrip'
    BY <1>2, <2>1, <2>2 DEF RoundTrip, Reopened, Fits
  <2>8. sealed # None => call.data # sealed.cipher
    BY <2>2, SealedIsWhole
  <2>9. NullIsTruncation'
    BY <1>1, <2>1, <2>2, <2>8 DEF NullIsTruncation, B
  <2>10. FreedOnReturn'
    BY <2>1, <2>3 DEF FreedOnReturn
  <2> QED
    BY <2>5, <2>6, <2>7, <2>9, <2>10 DEF IInv, Returned
<1>5. CASE Decodes(call.data) /\ ~Torn
  <2>1. /\ buffer' = call.data.bytes /\ live' = live \cup {"result"}
        /\ pc' = "decrypt" /\ UNCHANGED <<call, bin_key, bin_iv, outcome, sealed>>
    BY <1>5 DEF DecodeData
  <2>2. Len(call.data.bytes) % B = 0
    BY <1>5 DEF Torn, B
  <2>3. TypeOK'
    BY <1>1, <2>1 DEF IInv, TypeOK, Steps
  <2>4. CallShape' /\ LiveShape' /\ SealedShape'
    BY <2>1 DEF DecodeData, IInv, CallShape, LiveShape, SealedShape, EncryptSteps, DecryptSteps
  <2>5. BufferShape'
    BY <2>1, <2>2 DEF DecodeData, IInv, BufferShape, EncryptSteps, DecryptSteps
  <2>6. Returned'
    BY <2>1, Running
  <2> QED
    BY <2>3, <2>4, <2>5, <2>6 DEF IInv
<1> QED
  BY <1>3, <1>4, <1>5

LEMMA DecryptStep == ASSUME IInv, Decrypt PROVE IInv'
<1>1. /\ call \in Calls /\ call.key \in B64 /\ call.iv \in B64 /\ call.data \in B64
      /\ call.data.bytes \in Seq(Byte)
  BY DecryptArguments DEF Decrypt, DecryptSteps
<1>2. /\ bin_key = call.key.bytes /\ bin_iv = call.iv.bytes
      /\ buffer = call.data.bytes /\ Len(buffer) % B = 0
  BY DEF Decrypt, IInv, BufferShape, DecryptSteps
<1>3. PICK k \in ReadsAs(call.key.bytes, AES_KEYLEN), v \in ReadsAs(call.iv.bytes, AES_BLOCKLEN) :
        buffer' = BytesOf(Opened(k, v, BlocksOf(buffer)))
  BY <1>2 DEF Decrypt, Opened
<1>4. buffer' \in Seq(Byte)
  <2> DEFINE q == Len(buffer) \div B
  <2>1. Len(buffer) \in Nat /\ buffer \in [1..Len(buffer) -> Byte]
    BY <1>1, <1>2, SeqIs
  <2>2. q \in Nat /\ Len(buffer) = q * B
    <3>1. q \in Nat /\ Len(buffer) = q * B + (Len(buffer) % B)
      BY <2>1, Division
    <3>2. q * B \in Nat
      BY <3>1, MultipleOfBlock
    <3> QED
      BY <1>2, <3>1, <3>2
  <2> HIDE DEF q
  <2>3. BlocksOf(buffer) \in [1..q -> Block]
    BY <2>1, <2>2, BytesAreBlocks
  <2> QED
    BY <1>3, <2>2, <2>3, KeysAndBlocks, OpenedBytes
<1>5. TypeOK'
  BY <1>4 DEF Decrypt, IInv, TypeOK, Steps
<1>6. CallShape' /\ LiveShape' /\ SealedShape'
  BY DEF Decrypt, IInv, CallShape, LiveShape, SealedShape, EncryptSteps, DecryptSteps
<1>7. Fits => buffer' = PaddedText(sealed.text)
  <2> SUFFICES ASSUME Fits PROVE buffer' = PaddedText(sealed.text)
    OBVIOUS
  <2>1. /\ Len(call.key.bytes) \in Nat /\ Len(call.key.bytes) >= AES_KEYLEN
        /\ Len(call.iv.bytes) \in Nat /\ Len(call.iv.bytes) >= AES_BLOCKLEN
    BY <1>1 DEF Fits, Full, B64
  <2>2. /\ sealed.text \in Seq(Byte \ {0})
        /\ Seals(call.key, call.iv, sealed.text, buffer)
    BY <1>2, SealedIsWhole DEF Fits
  <2> QED
    BY <1>3, <2>1, <2>2, OpensWhatIsSealed
<1>8. BufferShape'
  <2>1. pc' = "terminate" /\ (Fits <=> Fits')
    BY DEF Decrypt, Fits
  <2> QED
    BY <1>7, <2>1 DEF Decrypt, IInv, BufferShape, EncryptSteps, DecryptSteps
<1>9. Returned'
  BY Running DEF Decrypt
<1> QED
  BY <1>5, <1>6, <1>8, <1>9 DEF IInv

LEMMA TerminateStep == ASSUME IInv, Terminate PROVE IInv'
<1>1. PICK s \in StringsAt(buffer) : outcome' = Plain(s)
  BY DEF Terminate
<1>2. buffer \in Seq(Byte) /\ s \in Seq(Byte)
  BY StringsAreBytes DEF IInv, TypeOK
<1>3. call \in Calls /\ call.name = "aes_decrypt"
  BY DecryptArguments DEF Terminate, DecryptSteps
<1>4. TypeOK'
  BY <1>1, <1>2, <1>3 DEF Terminate, Freed, IInv, TypeOK, Steps, Plain
<1>5. CallShape' /\ LiveShape' /\ BufferShape' /\ SealedShape'
  BY DEF Terminate, IInv, CallShape, LiveShape, BufferShape, SealedShape, EncryptSteps, DecryptSteps
<1>6. RoundTrip'
  <2> SUFFICES ASSUME Reopened' PROVE RoundTrip'
    BY DEF RoundTrip
  <2>1. Fits /\ sealed' = sealed
    BY DEF Reopened, Fits, Terminate
  <2>2. buffer = PaddedText(sealed.text) /\ sealed.text \in Seq(Byte \ {0})
    BY <2>1, SealedIsWhole DEF Terminate, IInv, BufferShape, Fits
  <2>3. IF Len(sealed.text) % B # 0 THEN s = sealed.text ELSE IsPrefix(sealed.text, s)
    BY <1>1, <2>2, StringsOfPadded
  <2>4. outcome'.form = "text" /\ outcome'.bytes = s
    BY <1>1 DEF Plain
  <2> QED
    BY <2>1, <2>3, <2>4 DEF RoundTrip, B
<1>7. live = {"bin_key", "bin_iv", "result"}
  BY DEF Terminate, IInv, LiveShape
<1>8. NullIsTruncation' /\ FreedOnReturn'
  BY <1>1, <1>7 DEF Terminate, Freed, NullIsTruncation, FreedOnReturn, Plain, Null
<1> QED
  BY <1>4, <1>5, <1>6, <1>8 DEF IInv, Returned

LEMMA Inductive == IInv /\ [Next]_vars => IInv'
<1> SUFFICES ASSUME IInv, [Next]_vars PROVE IInv'
  OBVIOUS
<1>1. CASE CallGenerate
  <2>1. PICK name \in {"generate_aes_key", "generate_aes_iv"} :
          Begin("generate", name, Empty, Empty, Empty)
    BY <1>1 DEF CallGenerate
  <2> DEFINE c == [name |-> name, key |-> Empty, iv |-> Empty, data |-> Empty]
  <2>2. c \in Calls
    BY Arguments DEF Calls
  <2> QED
    BY <2>1, <2>2, BeginStep
<1>2. CASE CallEncrypt
  <2>1. PICK key \in KeyTexts, iv \in IvTexts, text \in Texts :
          Begin("decode_key", "aes_encrypt", key, iv, Plain(text))
    BY <1>2 DEF CallEncrypt
  <2> DEFINE c == [name |-> "aes_encrypt", key |-> key, iv |-> iv, data |-> Plain(text)]
  <2>2. c \in Calls /\ c.data \in PlainText
    BY Arguments DEF Calls
  <2> QED
    BY <2>1, <2>2, BeginStep
<1>3. CASE CallDecrypt
  <2>1. PICK key \in KeyTexts, iv \in IvTexts,
             data \in DataTexts \cup (IF sealed = None THEN {} ELSE {sealed.cipher}) :
          Begin("decode_key", "aes_decrypt", key, iv, data)
    BY <1>3 DEF CallDecrypt
  <2>2. data \in B64
    BY Arguments, SealedIsWhole DEF B64, Decodable
  <2> DEFINE c == [name |-> "aes_decrypt", key |-> key, iv |-> iv, data |-> data]
  <2>3. c \in Calls
    BY <2>2, Arguments DEF Calls
  <2> QED
    BY <2>1, <2>2, <2>3, BeginStep
<1>4. CASE UNCHANGED vars
  BY <1>4 DEF vars, IInv, TypeOK, CallShape, LiveShape, BufferShape, SealedShape, Returned,
     RoundTrip, Reopened, NullIsTruncation, FreedOnReturn, Fits, Seals
<1> QED
  BY <1>1, <1>2, <1>3, <1>4, GenerateStep, DecodeStep, PadStep, EncryptStep, EncodeStep,
     DecodeDataStep, DecryptStep, TerminateStep DEF Next

LEMMA WholeBlocksHolds == IInv => WholeBlocks
<1> SUFFICES ASSUME IInv PROVE WholeBlocks
  OBVIOUS
<1>1. CASE pc = "encrypt"
  <2>1. call.data.bytes \in Seq(Byte \ {0}) /\ buffer = PaddedText(call.data.bytes)
    BY <1>1, EncryptArguments DEF IInv, BufferShape, EncryptSteps
  <2>2. Len(call.data.bytes) \in Nat
    BY <2>1, SeqIs
  <2> QED
    BY <2>1, <2>2, PaddedTextIs, PaddedLength, SMTT(30) DEF WholeBlocks, B
<1>2. CASE pc = "decrypt"
  <2>1. buffer = call.data.bytes /\ Len(buffer) % B = 0 /\ buffer \in Seq(Byte)
    BY <1>2 DEF IInv, BufferShape, TypeOK
  <2> QED
    BY <2>1 DEF WholeBlocks, IsPrefix, B
<1> QED
  BY <1>1, <1>2 DEF WholeBlocks

-----------------------------------------------------------------------------

\* Every reachable state satisfies the inductive invariant: what a step of
\* aes_encrypt or aes_decrypt left is what the next one expects.
THEOREM Invariant == Spec => []IInv
BY InitIInv, Inductive, PTL DEF Spec

\* pg_crypto.c: the buffers hold bytes and memory is one of the call's blocks.
THEOREM TypeCorrect == Spec => []TypeOK
<1>1. IInv => TypeOK
  BY DEF IInv
<1> QED
  BY <1>1, Invariant, PTL

\* pg_crypto.c:155-165 and 204-205: AES_CBC_* get whole blocks, and encryption
\* gets all of the text.
THEOREM BlocksAreWhole == Spec => []WholeBlocks
BY WholeBlocksHolds, Invariant, PTL

\* aes_decrypt takes back aes_encrypt, for every cipher whose InvCipher takes
\* back its Cipher: the padded text comes back, and strlen finds the text in it.
THEOREM DecryptionTakesBack == Spec => []RoundTrip
<1>1. IInv => RoundTrip
  BY DEF IInv, Returned
<1> QED
  BY <1>1, Invariant, PTL

\* NULL comes of a ciphertext that was cut off, never of one of aes_encrypt.
THEOREM NullMeansTruncation == Spec => []NullIsTruncation
<1>1. IInv => NullIsTruncation
  BY DEF IInv, Returned
<1> QED
  BY <1>1, Invariant, PTL

\* A call that returns has freed the key, the IV and the scratch buffer.
THEOREM ReturnFrees == Spec => []FreedOnReturn
<1>1. IInv => FreedOnReturn
  BY DEF IInv, Returned
<1> QED
  BY <1>1, Invariant, PTL
===============================================================================
