------------------------------ MODULE CbcProofs ------------------------------
(***************************************************************************)
(* Proofs about Cbc and Ctr, for every block cipher that CbcAssumption     *)
(* describes, every size of a block and every message.  CBC: cutting a     *)
(* message into calls changes nothing.  CTR, on the context CBC leaves:    *)
(* what the pieces of a text change, and that they change nothing else.    *)
(***************************************************************************)
EXTENDS Ctr, Facts, TLAPS

\* The block to be mixed with the next one: inside a call it is where Iv
\* points to (encryption) or in the context (decryption).
NextIv ==
  /\ phase = "encrypt" /\ busy =>
       \/ Iv = pos /\ pos > 0
       \/ Iv = 0 /\ ctx_iv = Previous(iv, buf, pos + 1)
  /\ phase = "encrypt" /\ ~busy => ctx_iv = Previous(iv, buf, pos + 1)
  /\ phase = "decrypt" => ctx_iv = Previous(iv, cipher, pos + 1)

\* The ciphertext is that of the message.
CipherComplete ==
  phase # "encrypt" =>
    /\ cipher \in [1..Len(message) -> Block]
    /\ Encrypts(key, iv, message, cipher, Len(message))

\* The client stops when the whole message is back.
DoneComplete == phase = "done" => pos = Len(message)

IInv ==
  TypeOK /\ EncryptedSoFar /\ NextIv /\ CipherComplete /\ RestoredSoFar /\ DoneComplete

-----------------------------------------------------------------------------

LEMMA MessageIsFunction ==
  ASSUME NEW m \in Seq(Block)
  PROVE  Len(m) \in Nat /\ m \in [1..Len(m) -> Block]
OBVIOUS

LEMMA FunctionIsSeq ==
  ASSUME NEW n \in Nat, NEW f \in [1..n -> Block]
  PROVE  f \in Seq(Block) /\ Len(f) = n
OBVIOUS

LEMMA InitIInv == Init => IInv
<1> SUFFICES ASSUME Init PROVE IInv
  OBVIOUS
<1> USE DEF Init
<1>1. message \in Seq(Block) /\ buf \in [1..Len(message) -> Block] /\ Len(message) \in Nat
  BY MessageIsFunction, MessagesAssumption
<1>2. TypeOK
  <2>1. busy \in BOOLEAN /\ ~busy
    OBVIOUS
  <2>2. cipher \in Seq(Block)
    OBVIOUS
  <2>3. pos \in 0..Len(message) /\ Iv \in 0..pos
    BY <1>1
  <2> QED
    BY <1>1, <2>1, <2>2, <2>3 DEF TypeOK
<1>3. EncryptedSoFar
  BY <1>1 DEF EncryptedSoFar, Encrypts
<1>4. NextIv
  BY DEF NextIv, Previous
<1> QED
  BY <1>2, <1>3, <1>4 DEF IInv, CipherComplete, RestoredSoFar, DoneComplete

LEMMA CallIInv ==
  ASSUME IInv, NEW n \in 0..(Len(buf) - pos), Call(n)
  PROVE  IInv'
<1> USE DEF IInv, Call
<1>1. Len(message) \in Nat /\ Len(buf) = Len(message)
  BY FunctionIsSeq, MessageIsFunction DEF TypeOK
<1>2. TypeOK'
  BY <1>1 DEF TypeOK
<1>3. EncryptedSoFar' /\ CipherComplete' /\ RestoredSoFar' /\ DoneComplete'
  BY DEF EncryptedSoFar, CipherComplete, RestoredSoFar, DoneComplete
<1>4. NextIv'
  BY DEF NextIv
<1> QED
  BY <1>2, <1>3, <1>4

LEMMA EncryptBlockIInv ==
  ASSUME IInv, EncryptBlock
  PROVE  IInv'
<1> USE DEF IInv, EncryptBlock, More
<1> DEFINE N == Len(message)
<1>1. N \in Nat /\ pos \in 0..N /\ pos + 1 \in 1..N
  BY MessageIsFunction DEF TypeOK
<1>2. AtIv = Previous(iv, buf, pos + 1)
  BY <1>1 DEF NextIv, AtIv, Previous
<1>3. AtIv \in Block
  BY <1>1, <1>2 DEF Previous, TypeOK
<1> DEFINE block == Enc(key, XorWithIv(buf[pos + 1], AtIv))
<1>4. block \in Block
  BY <1>1, <1>3, CbcAssumption DEF TypeOK
<1>5. buf' = [buf EXCEPT ![pos + 1] = block]
  OBVIOUS
<1>6. /\ buf' \in [1..N -> Block]
      /\ buf'[pos + 1] = block
      /\ \A m \in 1..N : m # pos + 1 => buf'[m] = buf[m]
  BY <1>1, <1>4, <1>5 DEF TypeOK
<1> HIDE DEF block
<1>7. TypeOK'
  BY <1>1, <1>6 DEF TypeOK
<1>8. EncryptedSoFar'
  <2>1. Encrypts(key, iv, message, buf, pos) /\ buf[pos + 1] = message[pos + 1]
    BY <1>1 DEF EncryptedSoFar
  <2>2. ASSUME NEW m \in 1..(pos + 1)
        PROVE  buf'[m] = Enc(key, XorWithIv(message[m], Previous(iv, buf', m)))
    <3>1. Previous(iv, buf', m) = Previous(iv, buf, m)
      BY <1>1, <1>6 DEF Previous
    <3>2. CASE m = pos + 1
      BY <1>2, <1>6, <2>1, <3>1, <3>2 DEF block
    <3>3. CASE m # pos + 1
      BY <1>1, <1>6, <2>1, <3>1, <3>3 DEF Encrypts
    <3> QED
      BY <3>2, <3>3
  <2>3. Encrypts(key, iv, message, buf', pos + 1)
    BY <2>2 DEF Encrypts
  <2>4. \A m \in (pos + 2)..N : buf'[m] = message[m]
    BY <1>1, <1>6 DEF EncryptedSoFar
  <2> QED
    BY <1>1, <2>3, <2>4 DEF EncryptedSoFar
<1>9. NextIv' /\ CipherComplete' /\ RestoredSoFar' /\ DoneComplete'
  BY <1>1 DEF NextIv, CipherComplete, RestoredSoFar, DoneComplete
<1> QED
  BY <1>7, <1>8, <1>9

LEMMA ReturnEncryptIInv ==
  ASSUME IInv, ReturnEncrypt
  PROVE  IInv'
<1> USE DEF IInv, ReturnEncrypt
<1>1. Len(message) \in Nat /\ pos \in 0..Len(message)
  BY MessageIsFunction DEF TypeOK
<1>2. AtIv = Previous(iv, buf, pos + 1)
  BY <1>1 DEF NextIv, AtIv, Previous
<1>3. AtIv \in Block
  BY <1>1, <1>2 DEF Previous, TypeOK
<1>4. TypeOK'
  BY <1>3 DEF TypeOK
<1>5. NextIv'
  BY <1>2 DEF NextIv
<1>6. EncryptedSoFar' /\ CipherComplete' /\ RestoredSoFar' /\ DoneComplete'
  BY DEF EncryptedSoFar, CipherComplete, RestoredSoFar, DoneComplete
<1> QED
  BY <1>4, <1>5, <1>6

LEMMA SetIvIInv ==
  ASSUME IInv, SetIv
  PROVE  IInv'
<1> USE DEF IInv, SetIv, IvForDecryption
<1>1. Len(message) \in Nat /\ buf \in Seq(Block) /\ Len(buf) = Len(message)
  BY FunctionIsSeq, MessageIsFunction DEF TypeOK
<1>2. TypeOK'
  BY <1>1 DEF TypeOK
<1>3. EncryptedSoFar' /\ NextIv' /\ DoneComplete'
  BY DEF EncryptedSoFar, NextIv, Previous, DoneComplete
<1>4. CipherComplete'
  BY <1>1 DEF EncryptedSoFar, CipherComplete, TypeOK
<1>5. RestoredSoFar'
  BY <1>1 DEF RestoredSoFar
<1> QED
  BY <1>2, <1>3, <1>4, <1>5

LEMMA DecryptBlockIInv ==
  ASSUME IInv, DecryptBlock
  PROVE  IInv'
<1> USE DEF IInv, DecryptBlock, More, storeNextIv
<1> DEFINE N == Len(message)
<1>1. N \in Nat /\ pos \in 0..N /\ pos + 1 \in 1..N
  BY MessageIsFunction DEF TypeOK
<1>2. buf[pos + 1] = cipher[pos + 1]
  BY <1>1 DEF RestoredSoFar
\* The heart of CBC: InvCipher takes back Cipher, the second xor the first.
<1>3. XorWithIv(Dec(key, buf[pos + 1]), ctx_iv) = message[pos + 1]
  <2> DEFINE before == Previous(iv, cipher, pos + 1)
  <2>1. ctx_iv = before /\ before \in Block
    BY DEF NextIv, TypeOK
  <2>2. message[pos + 1] \in Block
    BY <1>1, MessageIsFunction DEF TypeOK
  <2>3. buf[pos + 1] = Enc(key, XorWithIv(message[pos + 1], before))
    BY <1>1, <1>2 DEF CipherComplete, Encrypts
  <2> HIDE DEF before
  <2>4. Dec(key, buf[pos + 1]) = XorWithIv(message[pos + 1], before)
    BY <2>1, <2>2, <2>3, CbcAssumption DEF TypeOK
  <2> QED
    BY <2>1, <2>2, <2>4, CbcAssumption
<1>4. /\ message[pos + 1] \in Block
      /\ buf[pos + 1] \in Block
  BY <1>1, MessageIsFunction DEF TypeOK
<1>5. buf' = [buf EXCEPT ![pos + 1] = message[pos + 1]]
  BY <1>3
<1>6. /\ buf' \in [1..N -> Block]
      /\ buf'[pos + 1] = message[pos + 1]
      /\ \A m \in 1..N : m # pos + 1 => buf'[m] = buf[m]
  BY <1>1, <1>4, <1>5 DEF TypeOK
<1>7. TypeOK'
  BY <1>1, <1>4, <1>6 DEF TypeOK
<1>8. RestoredSoFar'
  BY <1>1, <1>6 DEF RestoredSoFar
<1>9. NextIv'
  BY <1>1, <1>2 DEF NextIv, Previous
<1>10. EncryptedSoFar' /\ CipherComplete' /\ DoneComplete'
  BY DEF EncryptedSoFar, CipherComplete, DoneComplete
<1> QED
  BY <1>7, <1>8, <1>9, <1>10

LEMMA ReturnDecryptIInv ==
  ASSUME IInv, ReturnDecrypt
  PROVE  IInv'
BY DEF IInv, ReturnDecrypt, TypeOK, EncryptedSoFar, NextIv, CipherComplete,
       RestoredSoFar, DoneComplete

LEMMA FinishIInv ==
  ASSUME IInv, Finish
  PROVE  IInv'
<1>1. Len(buf) = Len(message)
  BY FunctionIsSeq, MessageIsFunction DEF IInv, TypeOK
<1> QED
  BY <1>1 DEF IInv, Finish, TypeOK, EncryptedSoFar, NextIv, CipherComplete,
              RestoredSoFar, DoneComplete

LEMMA NextIInv == IInv /\ [Next]_vars => IInv'
<1> SUFFICES ASSUME IInv, [Next]_vars PROVE IInv'
  OBVIOUS
<1>1. ASSUME NEW n \in 0..(Len(buf) - pos), Call(n) PROVE IInv'
  BY <1>1, CallIInv
<1>2. CASE EncryptBlock
  BY <1>2, EncryptBlockIInv
<1>3. CASE ReturnEncrypt
  BY <1>3, ReturnEncryptIInv
<1>4. CASE SetIv
  BY <1>4, SetIvIInv
<1>5. CASE DecryptBlock
  BY <1>5, DecryptBlockIInv
<1>6. CASE ReturnDecrypt
  BY <1>6, ReturnDecryptIInv
<1>7. CASE Finish
  BY <1>7, FinishIInv
<1>8. CASE UNCHANGED vars
  BY <1>8 DEF vars, IInv, TypeOK, EncryptedSoFar, NextIv, CipherComplete,
              RestoredSoFar, DoneComplete
<1> QED
  BY <1>1, <1>2, <1>3, <1>4, <1>5, <1>6, <1>7, <1>8 DEF Next

\* The inductive invariant of the CBC functions.
THEOREM Invariant == Spec => []IInv
BY InitIInv, NextIInv, PTL DEF Spec

\* Neither function leaves the buffer it is given, whatever the calls.
THEOREM TypeCorrect == Spec => []TypeOK
<1>1. IInv => TypeOK
  BY DEF IInv
<1> QED
  BY <1>1, Invariant, PTL

\* AES_CBC_encrypt_buffer over several calls encrypts as over one.
THEOREM EncryptionResumes == Spec => []EncryptedSoFar
<1>1. IInv => EncryptedSoFar
  BY DEF IInv
<1> QED
  BY <1>1, Invariant, PTL

LEMMA ContextIs == IInv => ContextCarriesOn
<1> SUFFICES ASSUME IInv, phase # "done", ~busy
             PROVE  ctx_iv = Previous(iv, IF phase = "encrypt" THEN buf ELSE cipher,
                                      pos + 1)
  BY DEF ContextCarriesOn
<1>1. CASE phase = "encrypt"
  BY <1>1 DEF IInv, NextIv
<1>2. CASE phase = "decrypt"
  BY <1>2 DEF IInv, NextIv
<1> QED
  BY <1>1, <1>2 DEF IInv, TypeOK

\* Between two calls the context holds what the next one needs.
THEOREM ContextRight == Spec => []ContextCarriesOn
BY ContextIs, Invariant, PTL

\* AES_CBC_decrypt_buffer restores the message, cut into any other calls.
THEOREM DecryptionRestores == Spec => []RestoredSoFar
<1>1. IInv => RestoredSoFar
  BY DEF IInv
<1> QED
  BY <1>1, Invariant, PTL

-----------------------------------------------------------------------------

LEMMA InitImplements == Init => Abstract!Init
BY DEF Init, Abstract!Init

LEMMA StepImplements == IInv /\ [Next]_vars => [Abstract!Next]_(Abstract!vars)
<1> SUFFICES ASSUME IInv, [Next]_vars PROVE [Abstract!Next]_(Abstract!vars)
  OBVIOUS
<1> DEFINE data == IF phase = "encrypt" THEN message
                   ELSE IF phase = "decrypt" THEN cipher ELSE buf
<1>1. ASSUME NEW n \in 0..(Len(buf) - pos), Call(n) PROVE UNCHANGED Abstract!vars
  BY <1>1 DEF Call, Abstract!vars
<1>2. CASE EncryptBlock
  BY <1>2 DEF EncryptBlock, More, Abstract!vars
<1>3. CASE ReturnEncrypt
  BY <1>3 DEF ReturnEncrypt, Abstract!vars
<1>4. CASE SetIv
  <2>1. Len(message) \in Nat /\ Len(buf) = Len(message)
    BY FunctionIsSeq, MessageIsFunction DEF IInv, TypeOK
  <2>2. DOMAIN message = 1..Len(message)
    BY DEF IInv, TypeOK
  <2>3. data' = buf
    BY <1>4 DEF SetIv, IvForDecryption
  <2>4. Encrypts(key, iv, message, data', Len(message)) /\ data' \in [DOMAIN message -> Block]
    BY <1>4, <2>1, <2>2, <2>3 DEF SetIv, IvForDecryption, IInv, EncryptedSoFar, TypeOK
  <2> QED
    BY <1>4, <2>4 DEF SetIv, IvForDecryption, Abstract!Next, Abstract!Encrypt,
                      Abstract!Encrypts, Encrypts, Abstract!Previous, Previous
<1>5. CASE DecryptBlock
  BY <1>5 DEF DecryptBlock, More, storeNextIv, Abstract!vars
<1>6. CASE ReturnDecrypt
  BY <1>6 DEF ReturnDecrypt, Abstract!vars
<1>7. CASE Finish
  <2>1. Len(message) \in Nat /\ Len(buf) = Len(message)
        /\ message \in [1..Len(message) -> Block]
    BY FunctionIsSeq, MessageIsFunction DEF IInv, TypeOK
  <2>2. buf = message
    BY <1>7, <2>1 DEF Finish, IInv, TypeOK, RestoredSoFar
  <2>3. data' = message
    BY <1>7, <2>2 DEF Finish
  <2> QED
    BY <1>7, <2>3 DEF Finish, Abstract!Next, Abstract!Decrypt
<1>8. CASE UNCHANGED vars
  BY <1>8 DEF vars, Abstract!vars
<1> QED
  BY <1>1, <1>2, <1>3, <1>4, <1>5, <1>6, <1>7, <1>8 DEF Next

\* However the buffer is cut into calls, the CBC functions do what one
\* encryption and one decryption of the whole message do.
THEOREM CallsImplementMessage == Spec => ImplementsMessage
BY Invariant, InitImplements, StepImplements, PTL DEF Spec, ImplementsMessage, Abstract!Spec

-----------------------------------------------------------------------------
\* CTR mode, on the same context.

CtrByte == 0..MaxByte

\* U records how the key stream of n bytes was drawn, the first counter being
\* the one given: which blocks, from where on, each used for some of its bytes.
Drawn(first, U, n) ==
  /\ U \in Seq(Nat \X Block)
  /\ (Len(U) = 0) <=> (n = 0)
  /\ Len(U) > 0 => U[1] = <<0, first>> /\ n - U[Len(U)][1] \in 1..AES_BLOCKLEN
  /\ \A k \in 1..Len(U) : U[k][1] < n
  /\ \A k \in 1..(Len(U) - 1) :
       /\ U[k + 1][1] - U[k][1] \in 1..AES_BLOCKLEN
       /\ U[k + 1][2] = Increment(U[k][2])

\* The counter of the next block.
NextCounter(first, U) == IF Len(U) = 0 THEN first ELSE Increment(U[Len(U)][2])

\* Byte n is mixed with a byte of block k.
Covers(U, k, n) == U[k][1] < n /\ (k < Len(U) => n <= U[k + 1][1])

StreamByte(U, k, n) == KeyStream(U[k][2])[n - U[k][1]]

\* The first n bytes of after are those of before mixed with their key stream.
Mixes(U, before, after, n) ==
  \A m \in DOMAIN before :
    /\ m > n => after[m] = before[m]
    /\ m <= n => \A k \in 1..Len(U) : Covers(U, k, m) =>
                   after[m] = XorByte(before[m], StreamByte(U, k, m))

\* Inside a call a block that is not used up is the last one drawn.
InBlock(U) ==
  calling /\ bi # AES_BLOCKLEN =>
    /\ Len(U) > 0
    /\ bi = i - U[Len(U)][1]
    /\ buffer = KeyStream(U[Len(U)][2])

\* How far a time through the text has come.
Progress(U, before) ==
  /\ Drawn(nonce, U, i)
  /\ Mixes(U, before, text, i)
  /\ ctx_iv = NextCounter(nonce, U)
  /\ InBlock(U)

CtrTypeOK ==
  /\ stage \in {"off", "first", "second", "over"}
  /\ calling \in BOOLEAN
  /\ nonce \in Block
  /\ plain \in Seq(CtrByte)
  /\ text \in [1..Len(plain) -> CtrByte]
  /\ i \in 0..Len(plain)
  /\ calling => last \in i..Len(plain) /\ stage \in {"first", "second"}
  /\ bi \in 1..AES_BLOCKLEN
  /\ buffer \in Block
  /\ used \in [1..2 -> Seq(Nat \X Block)]
  /\ stage # "off" => phase = "done"

\* What lies between the two times through, and where each has come to.
Stages ==
  /\ stage = "off" => i = 0 /\ Len(used[1]) = 0
  /\ stage = "first" => Progress(used[1], plain)
  /\ stage \in {"off", "first"} => Len(used[2]) = 0
  /\ stage \in {"second", "over"} =>
       /\ Drawn(nonce, used[1], Len(plain))
       /\ \E between \in [1..Len(plain) -> CtrByte] :
            /\ Mixes(used[1], plain, between, Len(plain))
            /\ Progress(used[2], between)
  /\ stage = "over" => i = Len(plain)

CtrIInv == IInv /\ CtrTypeOK /\ Stages

LEMMA EncIsBlock == \A k \in Key, b \in Block : Enc(k, b) \in Block
BY CbcAssumption

LEMMA Sizes == AES_BLOCKLEN \in Nat \ {0} /\ MaxByte \in Nat
BY CtrAssumption

LEMMA IncrementIsBlock ==
  ASSUME NEW c \in Block
  PROVE  Increment(c) \in Block
<1> DEFINE below == {n \in 1..AES_BLOCKLEN : \A m \in n..AES_BLOCKLEN : c[m] = MaxByte}
           next(n) == IF n \in below THEN 0
                      ELSE IF n + 1 \in below \cup {AES_BLOCKLEN + 1} THEN c[n] + 1 ELSE c[n]
<1>1. ASSUME NEW n \in 1..AES_BLOCKLEN PROVE next(n) \in 0..MaxByte
  <2>1. c[n] \in 0..MaxByte
    BY CtrAssumption
  <2>2. ASSUME n \notin below, n + 1 \in below \cup {AES_BLOCKLEN + 1} PROVE c[n] # MaxByte
    <3> SUFFICES ASSUME c[n] = MaxByte PROVE \A m \in n..AES_BLOCKLEN : c[m] = MaxByte
      BY <2>2
    <3> TAKE m \in n..AES_BLOCKLEN
    <3>1. m = n \/ m \in (n + 1)..AES_BLOCKLEN
      OBVIOUS
    <3>2. n + 1 = AES_BLOCKLEN + 1 => m = n
      BY CtrAssumption
    <3> QED
      BY <2>2, <3>1, <3>2
  <2> HIDE DEF below
  <2> QED
    BY <2>1, <2>2, Sizes
<1> HIDE DEF next
<1>2. [n \in 1..AES_BLOCKLEN |-> next(n)] \in [1..AES_BLOCKLEN -> 0..MaxByte]
  BY <1>1
<1>3. Increment(c) = [n \in 1..AES_BLOCKLEN |-> next(n)]
  BY DEF Increment, next
<1> QED
  BY <1>2, <1>3, CtrAssumption

LEMMA DrawnIs ==
  ASSUME NEW first, NEW U \in Seq(Nat \X Block), NEW n,
         (Len(U) = 0) <=> (n = 0),
         Len(U) > 0 => U[1] = <<0, first>> /\ n - U[Len(U)][1] \in 1..AES_BLOCKLEN,
         \A k \in 1..Len(U) : U[k][1] < n,
         \A k \in 1..(Len(U) - 1) :
            U[k + 1][1] - U[k][1] \in 1..AES_BLOCKLEN /\ U[k + 1][2] = Increment(U[k][2])
  PROVE  Drawn(first, U, n)
BY Zenon DEF Drawn

OneMore(first, U, n) == Append(U, <<n, NextCounter(first, U)>>)

\* A block drawn for byte n + 1.
LEMMA DrawBlock ==
  ASSUME NEW first \in Block, NEW U, NEW n \in Nat, Drawn(first, U, n)
  PROVE  LET V == OneMore(first, U, n)
         IN  /\ Drawn(first, V, n + 1)
             /\ Len(V) = Len(U) + 1
             /\ V[Len(V)] = <<n, NextCounter(first, U)>>
             /\ \A k \in 1..Len(U) : V[k] = U[k]
             /\ NextCounter(first, V) = Increment(NextCounter(first, U))
<1> PICK V : V = OneMore(first, U, n)
  OBVIOUS
<1>1. U \in Seq(Nat \X Block) /\ Len(U) \in Nat
  BY DEF Drawn
<1>2. \A k \in 1..Len(U) : U[k][1] \in Nat /\ U[k][2] \in Block
  BY <1>1
<1> DEFINE c == NextCounter(first, U)
<1>3. c \in Block
  BY <1>1, <1>2, IncrementIsBlock DEF NextCounter
<1> HIDE DEF c
<1>4. /\ V \in Seq(Nat \X Block)
      /\ Len(V) = Len(U) + 1
      /\ V[Len(V)] = <<n, c>>
      /\ \A k \in 1..Len(U) : V[k] = U[k]
  BY <1>1, <1>3 DEF c, OneMore
<1>5. V[Len(V)][1] = n /\ V[Len(V)][2] = c
  BY <1>4
<1>6. NextCounter(first, V) = Increment(c)
  BY <1>1, <1>4, <1>5 DEF NextCounter
<1>7. Len(V) > 0 => V[1] = <<0, first>> /\ (n + 1) - V[Len(V)][1] \in 1..AES_BLOCKLEN
  <2>1. (n + 1) - n \in 1..AES_BLOCKLEN
    BY CtrAssumption
  <2>2. CASE Len(U) = 0
    <3>1. n = 0 /\ c = first
      BY <2>2 DEF Drawn, NextCounter, c
    <3> QED
      BY <1>4, <1>5, <2>1, <2>2, <3>1
  <2>3. CASE Len(U) > 0
    <3>1. V[1] = U[1]
      BY <1>1, <1>4, <2>3
    <3> QED
      BY <1>5, <2>1, <2>3, <3>1 DEF Drawn
  <2> QED
    BY <1>1, <2>2, <2>3
<1>8. ASSUME NEW k \in 1..Len(V) PROVE V[k][1] < n + 1
  <2>1. CASE k = Len(V)
    BY <1>5, <2>1
  <2>2. CASE k # Len(V)
    <3>1. k \in 1..Len(U)
      BY <1>1, <1>4, <2>2
    <3>2. U[k][1] \in Nat /\ U[k][1] < n
      BY <1>2, <3>1 DEF Drawn
    <3>3. V[k] = U[k]
      BY <1>4, <3>1
    <3> QED
      BY <3>2, <3>3
  <2> QED
    BY <2>1, <2>2
<1>9. ASSUME NEW k \in 1..(Len(V) - 1)
      PROVE  V[k + 1][1] - V[k][1] \in 1..AES_BLOCKLEN /\ V[k + 1][2] = Increment(V[k][2])
  <2>1. V[k] = U[k] /\ k \in 1..Len(U)
    BY <1>1, <1>4
  <2>2. CASE k = Len(U)
    <3>1. V[k + 1] = V[Len(V)]
      BY <1>1, <1>4, <2>2
    <3>2. n - U[k][1] \in 1..AES_BLOCKLEN
      BY <2>1, <2>2 DEF Drawn
    <3>3. c = Increment(U[k][2])
      BY <2>1, <2>2 DEF NextCounter, c
    <3> QED
      BY <1>5, <2>1, <3>1, <3>2, <3>3
  <2>3. CASE k # Len(U)
    <3>1. k \in 1..(Len(U) - 1) /\ k + 1 \in 1..Len(U)
      BY <1>1, <2>1, <2>3
    <3>2. V[k + 1] = U[k + 1]
      BY <1>4, <3>1
    <3> QED
      BY <2>1, <3>1, <3>2 DEF Drawn
  <2> QED
    BY <2>2, <2>3
<1>10. (Len(V) = 0) <=> (n + 1 = 0)
  BY <1>1, <1>4
<1>11. Drawn(first, V, n + 1)
  <2>1. V \in Seq(Nat \X Block)
    BY <1>4
  <2> QED
    <3> SUFFICES ASSUME NEW e, e = n + 1 PROVE Drawn(first, V, e)
      OBVIOUS
    <3>1. (Len(V) = 0) <=> (e = 0)
      BY <1>10
    <3>2. Len(V) > 0 => V[1] = <<0, first>> /\ e - V[Len(V)][1] \in 1..AES_BLOCKLEN
      <4>1. e - V[Len(V)][1] = (n + 1) - V[Len(V)][1]
        BY <1>5
      <4> QED
        BY <1>7, <4>1
    <3>3. \A k \in 1..Len(V) : V[k][1] < e
      BY <1>8
    <3>4. \A k \in 1..(Len(V) - 1) : /\ V[k + 1][1] - V[k][1] \in 1..AES_BLOCKLEN
                                     /\ V[k + 1][2] = Increment(V[k][2])
      BY <1>9
    <3> QED
      BY <2>1, <3>1, <3>2, <3>3, <3>4, DrawnIs
<1> QED
  BY <1>4, <1>6, <1>11 DEF c

\* A byte more of the last block drawn.
LEMMA DrawByte ==
  ASSUME NEW first, NEW U, NEW n \in Nat, Drawn(first, U, n), Len(U) > 0,
         (n + 1) - U[Len(U)][1] <= AES_BLOCKLEN
  PROVE  Drawn(first, U, n + 1)
<1>1. U \in Seq(Nat \X Block) /\ Len(U) \in Nat
  BY DEF Drawn
<1>2. \A k \in 1..Len(U) : U[k][1] \in Nat /\ U[k][1] < n + 1
  BY <1>1 DEF Drawn
<1>3. (n + 1) - U[Len(U)][1] \in 1..AES_BLOCKLEN
  <2>1. U[Len(U)][1] \in Nat /\ U[Len(U)][1] < n + 1
    BY <1>1, <1>2
  <2> QED
    BY <2>1, Sizes
<1>4. (Len(U) = 0) <=> (n + 1 = 0)
  BY <1>1
<1>5. U[1] = <<0, first>>
  BY DEF Drawn
<1>6. \A k \in 1..(Len(U) - 1) : /\ U[k + 1][1] - U[k][1] \in 1..AES_BLOCKLEN
                                 /\ U[k + 1][2] = Increment(U[k][2])
  BY DEF Drawn
<1> QED
  <2> SUFFICES ASSUME NEW e, e = n + 1 PROVE Drawn(first, U, e)
    OBVIOUS
  <2>1. \A k \in 1..Len(U) : U[k][1] < e
    BY <1>2
  <2>2. Len(U) > 0 => U[1] = <<0, first>> /\ e - U[Len(U)][1] \in 1..AES_BLOCKLEN
    <3>1. U[Len(U)][1] \in Nat
      BY <1>1, <1>2
    <3>2. e - U[Len(U)][1] = (n + 1) - U[Len(U)][1]
      BY <3>1
    <3> QED
      BY <1>3, <1>5, <3>2
  <2> QED
    BY <1>1, <1>4, <1>6, <2>1, <2>2, DrawnIs

\* The next byte is mixed with the last block, when that was drawn for it or before.
LEMMA LastCovers ==
  ASSUME NEW first, NEW U, NEW n \in Nat, Drawn(first, U, n + 1),
         NEW k \in 1..Len(U), Covers(U, k, n + 1)
  PROVE  k = Len(U)
<1>1. U \in Seq(Nat \X Block) /\ Len(U) \in Nat
  BY DEF Drawn
<1> SUFFICES ASSUME k < Len(U) PROVE FALSE
  BY <1>1
<1>2. k + 1 \in 1..Len(U)
  BY <1>1
<1>3. U[k + 1][1] \in Nat /\ U[k + 1][1] < n + 1
  BY <1>1, <1>2 DEF Drawn
<1> QED
  BY <1>3 DEF Covers

\* Every byte is mixed with a byte of one block.
LEMMA BlockFound ==
  ASSUME NEW first, NEW U, NEW n \in Nat, Drawn(first, U, n), NEW m \in 1..n
  PROVE  \E k \in 1..Len(U) : Covers(U, k, m) /\ m - U[k][1] \in 1..AES_BLOCKLEN
<1>1. U \in Seq(Nat \X Block) /\ Len(U) \in Nat \ {0}
  BY DEF Drawn
<1>2. \A k \in 1..Len(U) : U[k][1] \in Nat
  BY <1>1
<1> DEFINE Behind == {k \in 1..Len(U) : k < Len(U) => m <= U[k + 1][1]}
<1>3. Behind \subseteq Nat /\ Len(U) \in Behind
  BY <1>1
<1>4. PICK k \in Behind : \A j \in Behind : k <= j
  <2> HIDE DEF Behind
  <2> QED
    BY <1>3, LeastNumber
<1>5. k \in 1..Len(U) /\ (k < Len(U) => m <= U[k + 1][1])
  BY <1>4
<1>6. U[k][1] < m
  <2>1. CASE k = 1
    <3>1. U[1] = <<0, first>>
      BY <1>1 DEF Drawn
    <3> QED
      BY <2>1, <3>1
  <2>2. CASE k # 1
    <3>1. k - 1 \in 1..Len(U) /\ k - 1 < Len(U) /\ k - 1 + 1 = k
      BY <1>1, <1>5, <2>2
    <3>2. k - 1 \notin Behind
      <4>1. k - 1 \in Behind => k <= k - 1
        <5> HIDE DEF Behind
        <5> QED
          BY <1>4
      <4> QED
        BY <1>5, <4>1
    <3>3. ~(m <= U[k][1])
      BY <3>1, <3>2
    <3> QED
      BY <1>2, <1>5, <3>3
  <2> QED
    BY <2>1, <2>2
<1>7. U[k][1] \in Nat
  BY <1>2, <1>5
<1>8. m - U[k][1] \in 1..AES_BLOCKLEN
  <2>1. CASE k = Len(U)
    <3>1. n - U[k][1] \in 1..AES_BLOCKLEN
      BY <1>1, <2>1 DEF Drawn
    <3> QED
      BY <1>6, <1>7, <3>1, Sizes
  <2>2. CASE k # Len(U)
    <3>1. k \in 1..(Len(U) - 1) /\ k + 1 \in 1..Len(U) /\ m <= U[k + 1][1]
      BY <1>1, <1>5, <2>2
    <3>2. U[k + 1][1] - U[k][1] \in 1..AES_BLOCKLEN
      BY <3>1 DEF Drawn
    <3>3. PICK a \in Nat, b \in Nat : a = U[k][1] /\ b = U[k + 1][1]
      BY <1>2, <1>7, <3>1
    <3>4. a < m /\ m <= b /\ b - a \in 1..AES_BLOCKLEN
      BY <1>6, <3>1, <3>2, <3>3
    <3>5. m - a \in 1..AES_BLOCKLEN
      BY <3>4, Sizes
    <3> QED
      BY <3>3, <3>5
  <2> QED
    BY <2>1, <2>2
<1> QED
  BY <1>5, <1>6, <1>8 DEF Covers

\* Byte n + 1 is mixed with the last block, the ones before stay as they are.
LEMMA MixesByte ==
  ASSUME NEW first, NEW n \in Nat, NEW U, NEW V, Len(U) \in Nat,
         Drawn(first, V, n + 1),
         \A k \in 1..Len(U) : V[k] = U[k],
         Len(V) = Len(U) \/ (Len(V) = Len(U) + 1 /\ V[Len(V)][1] = n),
         NEW size \in Nat, n + 1 \in 1..size,
         NEW before \in [1..size -> CtrByte], NEW after \in [1..size -> CtrByte],
         Mixes(U, before, after, n),
         NEW later,
         later = [after EXCEPT ![n + 1] = XorByte(after[n + 1], StreamByte(V, Len(V), n + 1))]
  PROVE  Mixes(V, before, later, n + 1)
<1>1. V \in Seq(Nat \X Block) /\ Len(V) \in Nat
  BY DEF Drawn
<1>2. later[n + 1] = XorByte(after[n + 1], StreamByte(V, Len(V), n + 1))
  OBVIOUS
<1>3. \A m \in 1..size : m # n + 1 => later[m] = after[m]
  OBVIOUS
<1>4. after[n + 1] = before[n + 1]
  BY SMTT(30) DEF Mixes
<1>5. SUFFICES ASSUME NEW m \in 1..size
      PROVE  /\ m > n + 1 => later[m] = before[m]
             /\ m <= n + 1 => \A k \in 1..Len(V) : Covers(V, k, m) =>
                                later[m] = XorByte(before[m], StreamByte(V, k, m))
  BY DEF Mixes
<1>6. CASE m > n + 1
  <2>1. later[m] = after[m]
    BY <1>3, <1>6
  <2>2. after[m] = before[m]
    BY <1>6 DEF Mixes
  <2> QED
    BY <1>6, <2>1, <2>2
<1>7. CASE m = n + 1
  <2> SUFFICES ASSUME NEW k \in 1..Len(V), Covers(V, k, m)
               PROVE  later[m] = XorByte(before[m], StreamByte(V, k, m))
    BY <1>7
  <2>1. k = Len(V)
    BY <1>7, LastCovers
  <2> QED
    BY <1>2, <1>4, <1>7, <2>1
<1>8. CASE m <= n
  <2> SUFFICES ASSUME NEW k \in 1..Len(V), Covers(V, k, m)
               PROVE  later[m] = XorByte(before[m], StreamByte(V, k, m))
    BY <1>8
  <2>1. k \in 1..Len(U)
    BY <1>1, <1>8 DEF Covers
  <2>2. V[k] = U[k]
    BY <2>1
  <2>3. Covers(U, k, m)
    <3>1. k < Len(U) => k + 1 \in 1..Len(U) /\ k < Len(V)
      BY <2>1
    <3> QED
      BY <2>2, <3>1 DEF Covers
  <2>4. after[m] = XorByte(before[m], StreamByte(U, k, m))
    BY <1>8, <2>1, <2>3 DEF Mixes
  <2>5. later[m] = after[m]
    BY <1>3, <1>8
  <2> QED
    BY <2>2, <2>4, <2>5 DEF StreamByte
<1> QED
  BY <1>6, <1>7, <1>8

\* A round of the loop that finds b bytes of the last block used: it goes on at
\* the byte at of the next block of V or of the one in use.
RoundOf(first, U, n, b, at, V) ==
  /\ V = IF b = AES_BLOCKLEN THEN OneMore(first, U, n) ELSE U
  /\ at = IF b = AES_BLOCKLEN THEN 0 ELSE b
  /\ at + 1 <= AES_BLOCKLEN
  /\ b # AES_BLOCKLEN => Len(U) > 0 /\ b = n - U[Len(U)][1]

\* What a round of the loop does, for a block that is drawn and one that is not used up.
LEMMA RoundDraws ==
  ASSUME NEW first \in Block, NEW U, NEW n \in Nat, Drawn(first, U, n), NEW b, NEW at,
         NEW V, RoundOf(first, U, n, b, at, V)
  PROVE  /\ Drawn(first, V, n + 1)
         /\ NextCounter(first, V) = IF b = AES_BLOCKLEN THEN Increment(NextCounter(first, U))
                                    ELSE NextCounter(first, U)
         /\ Len(U) \in Nat /\ Len(V) > 0
         /\ \A k \in 1..Len(U) : V[k] = U[k]
         /\ Len(V) = Len(U) \/ (Len(V) = Len(U) + 1 /\ V[Len(V)][1] = n)
         /\ at + 1 = (n + 1) - V[Len(V)][1]
         /\ V[Len(V)][2] = IF b = AES_BLOCKLEN THEN NextCounter(first, U) ELSE U[Len(U)][2]
<1>1. U \in Seq(Nat \X Block) /\ Len(U) \in Nat
  BY DEF Drawn
<1>2. CASE b = AES_BLOCKLEN
  <2>1. V = OneMore(first, U, n) /\ at = 0
    BY <1>2 DEF RoundOf
  <2>2. Drawn(first, V, n + 1) /\ NextCounter(first, V) = Increment(NextCounter(first, U))
    BY <2>1, DrawBlock
  <2>3. Len(V) = Len(U) + 1 /\ V[Len(V)] = <<n, NextCounter(first, U)>>
    BY <2>1, DrawBlock
  <2>4. \A k \in 1..Len(U) : V[k] = U[k]
    BY <2>1, DrawBlock
  <2>5. V[Len(V)][1] = n /\ V[Len(V)][2] = NextCounter(first, U)
    BY <2>3
  <2>6. at + 1 = (n + 1) - V[Len(V)][1]
    BY <2>1, <2>5
  <2> QED
    BY <1>1, <1>2, <2>2, <2>3, <2>4, <2>5, <2>6
<1>3. CASE b # AES_BLOCKLEN
  <2>1. V = U /\ Len(U) > 0 /\ at = n - U[Len(U)][1] /\ at + 1 <= AES_BLOCKLEN
    BY <1>3 DEF RoundOf
  <2>2. PICK x \in Nat : x = U[Len(U)][1]
    BY <1>1, <2>1
  <2>3. at + 1 = (n + 1) - U[Len(U)][1]
    BY <2>1, <2>2
  <2>4. (n + 1) - U[Len(U)][1] <= AES_BLOCKLEN
    BY <2>1, <2>3
  <2>5. Drawn(first, U, n + 1)
    BY <2>1, <2>4, DrawByte
  <2> QED
    BY <1>1, <1>3, <2>1, <2>3, <2>5
<1> QED
  BY <1>2, <1>3

\* One round of the loop, the first or the second time through.
LEMMA ByteProgress ==
  \A p \in 1..2 : \A before \in [1..Len(plain) -> CtrByte] :
    /\ CtrTypeOK /\ XcryptByte /\ UNCHANGED key /\ key \in Key /\ ctx_iv \in Block
    /\ p = IF stage = "first" THEN 1 ELSE 2
    /\ Progress(used[p], before)
    => /\ Progress(used[p], before)'
       /\ text' \in [1..Len(plain) -> CtrByte]
       /\ i' \in 0..Len(plain) /\ last' \in i'..Len(plain)
       /\ bi' \in 1..AES_BLOCKLEN
       /\ buffer' \in Block
       /\ ctx_iv' \in Block
       /\ used' \in [1..2 -> Seq(Nat \X Block)]
       /\ \A q \in 1..2 : q # p => used'[q] = used[q]
<1>a. SUFFICES
        ASSUME NEW p \in 1..2, NEW before \in [1..Len(plain) -> CtrByte],
               CtrTypeOK, XcryptByte, UNCHANGED key, key \in Key, ctx_iv \in Block,
               p = IF stage = "first" THEN 1 ELSE 2,
               Progress(used[p], before)
        PROVE  /\ Progress(used[p], before)'
               /\ text' \in [1..Len(plain) -> CtrByte]
               /\ i' \in 0..Len(plain) /\ last' \in i'..Len(plain)
               /\ bi' \in 1..AES_BLOCKLEN
               /\ buffer' \in Block
               /\ ctx_iv' \in Block
               /\ used' \in [1..2 -> Seq(Nat \X Block)]
               /\ \A q \in 1..2 : q # p => used'[q] = used[q]
  OBVIOUS
<1>b. PICK size \in Nat : size = Len(plain)
  BY <1>a DEF CtrTypeOK
<1>c. PICK n \in Nat : n = i /\ n + 1 \in 1..size
  BY <1>a, <1>b DEF CtrTypeOK, XcryptByte
<1>d. PICK U, V : U = used[p] /\ V = used'[p]
  OBVIOUS
<1>e. PICK at : at = IF bi = AES_BLOCKLEN THEN 0 ELSE bi
  OBVIOUS
<1>1. i' = n + 1 /\ last' \in i'..size /\ U \in Seq(Nat \X Block)
  BY <1>a, <1>b, <1>c, <1>d DEF CtrTypeOK, XcryptByte
<1>2. Drawn(nonce, U, n) /\ ctx_iv = NextCounter(nonce, U)
  BY <1>a, <1>c, <1>d DEF Progress
<1>3. /\ buffer' = IF bi = AES_BLOCKLEN THEN KeyStream(ctx_iv) ELSE buffer
      /\ ctx_iv' = IF bi = AES_BLOCKLEN THEN Increment(ctx_iv) ELSE ctx_iv
      /\ used' = IF bi = AES_BLOCKLEN THEN [used EXCEPT ![p] = Append(U, <<n, ctx_iv>>)] ELSE used
      /\ text' = [text EXCEPT ![n + 1] = XorByte(text[n + 1], buffer'[at + 1])]
      /\ bi' = at + 1
  BY <1>a, <1>c, <1>d, <1>e DEF XcryptByte
<1>4. KeyStream(ctx_iv) \in Block /\ Increment(ctx_iv) \in Block
  BY <1>a, EncIsBlock, IncrementIsBlock DEF KeyStream
<1>5. buffer' \in Block /\ ctx_iv' \in Block
  BY <1>a, <1>3, <1>4 DEF CtrTypeOK
<1>6. at + 1 \in 1..AES_BLOCKLEN
  BY <1>a, <1>e, Sizes DEF CtrTypeOK
<1>7. text \in [1..size -> CtrByte] /\ text' \in [1..size -> CtrByte]
  <2>1. text \in [1..size -> CtrByte]
    BY <1>a, <1>b DEF CtrTypeOK
  <2>2. buffer'[at + 1] \in CtrByte
    BY <1>5, <1>6, CtrAssumption DEF CtrByte
  <2>3. text[n + 1] \in CtrByte
    BY <1>c, <2>1
  <2>4. XorByte(text[n + 1], buffer'[at + 1]) \in CtrByte
    BY <2>2, <2>3, CtrAssumption DEF CtrByte
  <2> QED
    BY <1>c, <1>3, <2>1, <2>4
<1>8. /\ used' \in [1..2 -> Seq(Nat \X Block)]
      /\ \A q \in 1..2 : q # p => used'[q] = used[q]
      /\ V = IF bi = AES_BLOCKLEN THEN OneMore(nonce, U, n) ELSE U
  <2>1. Append(U, <<n, ctx_iv>>) \in Seq(Nat \X Block)
    BY <1>a, <1>1
  <2>2. used \in [1..2 -> Seq(Nat \X Block)]
    BY <1>a DEF CtrTypeOK
  <2> QED
    BY <1>d, <1>2, <1>3, <2>1, <2>2 DEF OneMore
<1>9. RoundOf(nonce, U, n, bi, at, V)
  <2>1. bi # AES_BLOCKLEN => Len(U) > 0 /\ bi = n - U[Len(U)][1]
    BY <1>a, <1>c, <1>d DEF Progress, InBlock, XcryptByte
  <2> QED
    BY <1>e, <1>6, <1>8, <2>1 DEF RoundOf
<1>10. /\ Drawn(nonce, V, n + 1)
       /\ NextCounter(nonce, V) = IF bi = AES_BLOCKLEN THEN Increment(NextCounter(nonce, U))
                                  ELSE NextCounter(nonce, U)
       /\ Len(U) \in Nat /\ Len(V) > 0
       /\ \A k \in 1..Len(U) : V[k] = U[k]
       /\ Len(V) = Len(U) \/ (Len(V) = Len(U) + 1 /\ V[Len(V)][1] = n)
       /\ at + 1 = (n + 1) - V[Len(V)][1]
       /\ V[Len(V)][2] = IF bi = AES_BLOCKLEN THEN NextCounter(nonce, U) ELSE U[Len(U)][2]
  <2>1. nonce \in Block
    BY <1>a DEF CtrTypeOK
  <2> QED
    BY <1>2, <1>9, <2>1, RoundDraws
<1>11. buffer' = KeyStream(V[Len(V)][2])
  <2>1. bi # AES_BLOCKLEN => buffer = KeyStream(U[Len(U)][2])
    BY <1>a, <1>d DEF Progress, InBlock, XcryptByte
  <2> QED
    BY <1>2, <1>3, <1>10, <2>1
<1>12. Mixes(V, before, text', n + 1)
  <2>1. StreamByte(V, Len(V), n + 1) = buffer'[at + 1]
    BY <1>10, <1>11, Zenon DEF StreamByte
  <2>2. text' = [text EXCEPT ![n + 1] = XorByte(text[n + 1], StreamByte(V, Len(V), n + 1))]
    BY <1>3, <2>1
  <2>3. Mixes(U, before, text, n) /\ before \in [1..size -> CtrByte]
    BY <1>a, <1>b, <1>c, <1>d DEF Progress
  <2> QED
    BY <1>c, <1>7, <1>10, <2>2, <2>3, MixesByte
<1>13. Progress(used[p], before)'
  <2>1. nonce' = nonce
    BY <1>a DEF XcryptByte
  <2>2. Drawn(nonce, used[p], i)'
    BY <1>d, <1>1, <1>10, <2>1 DEF Drawn
  <2>3. Mixes(used[p], before, text, i)'
    BY <1>a, <1>d, <1>1, <1>12 DEF Mixes, StreamByte, KeyStream, Covers
  <2>4. (ctx_iv = NextCounter(nonce, used[p]))'
    <3>1. ctx_iv' = NextCounter(nonce, V)
      BY <1>2, <1>3, <1>10
    <3> QED
      BY <1>d, <2>1, <3>1 DEF NextCounter
  <2>5. InBlock(used[p])'
    <3>1. buffer' = Enc(key', V[Len(V)][2])
      BY <1>a, <1>11 DEF KeyStream
    <3>2. bi' = i' - V[Len(V)][1]
      BY <1>1, <1>3, <1>10
    <3> QED
      BY <1>d, <1>10, <3>1, <3>2 DEF InBlock, KeyStream
  <2> QED
    BY <2>2, <2>3, <2>4, <2>5 DEF Progress
<1>14. last' \in i'..Len(plain) /\ i' \in 0..Len(plain)
  BY <1>b, <1>c, <1>1
<1> QED
  BY <1>b, <1>3, <1>5, <1>6, <1>7, <1>8, <1>13, <1>14

LEMMA InitCtrIInv == CtrInit => CtrIInv
<1> SUFFICES ASSUME CtrInit PROVE CtrIInv
  OBVIOUS
<1> USE DEF CtrInit
<1>1. IInv
  BY InitIInv
<1>2. iv \in Block
  BY DEF Init
<1>3. Len(plain) = 0 /\ text \in [1..Len(plain) -> CtrByte]
  OBVIOUS
<1>4. used \in [1..2 -> Seq(Nat \X Block)] /\ Len(used[1]) = 0 /\ Len(used[2]) = 0
  <2>1. <<>> \in Seq(Nat \X Block) /\ Len(<<>>) = 0
    OBVIOUS
  <2>2. used = [p \in 1..2 |-> <<>>]
    OBVIOUS
  <2>3. \A p \in 1..2 : used[p] = <<>>
    BY <2>2
  <2>4. used[1] = <<>> /\ used[2] = <<>>
    BY <2>3
  <2> QED
    BY <2>1, <2>2, <2>4
<1>5. CtrTypeOK
  <2>1. plain \in Seq(CtrByte)
    OBVIOUS
  <2>2. nonce \in Block /\ buffer \in Block
    BY <1>2
  <2>3. bi \in 1..AES_BLOCKLEN
    BY Sizes
  <2>4. i \in 0..Len(plain)
    BY <1>3
  <2>5. stage = "off" /\ calling = FALSE
    OBVIOUS
  <2> QED
    BY <1>3, <1>4, <2>1, <2>2, <2>3, <2>4, <2>5 DEF CtrTypeOK
<1>6. Stages
  BY <1>4 DEF Stages
<1> QED
  BY <1>1, <1>5, <1>6 DEF CtrIInv

LEMMA TextLength == CtrTypeOK => Len(plain) \in Nat /\ Len(text) = Len(plain)
<1> SUFFICES ASSUME CtrTypeOK PROVE Len(plain) \in Nat /\ Len(text) = Len(plain)
  OBVIOUS
<1>1. Len(plain) \in Nat /\ text \in [1..Len(plain) -> CtrByte]
  BY DEF CtrTypeOK
<1> QED
  BY <1>1

\* CBC is over when CTR begins, and cannot tell it from doing nothing.
LEMMA NextIsBefore == Next => phase # "done"
BY DEF Next, Call, EncryptBlock, ReturnEncrypt, SetIv, DecryptBlock, ReturnDecrypt, Finish

LEMMA CbcStep ==
  ASSUME CtrIInv, Next, UNCHANGED ctrVars
  PROVE  CtrIInv'
<1>1. IInv'
  BY NextIInv DEF CtrIInv
<1>2. stage = "off"
  BY NextIsBefore DEF CtrIInv, CtrTypeOK
<1>3. CtrTypeOK'
  BY <1>2 DEF CtrIInv, CtrTypeOK, ctrVars
<1>4. Stages'
  BY <1>2 DEF CtrIInv, Stages, ctrVars
<1> QED
  BY <1>1, <1>3, <1>4 DEF CtrIInv

LEMMA CbcStays ==
  ASSUME IInv, phase = "done", ctx_iv' \in Block,
         UNCHANGED <<phase, busy, key, iv, buf, pos, end, Iv, message, cipher>>
  PROVE  IInv'
<1>1. TypeOK'
  BY DEF IInv, TypeOK
<1>2. NextIv'
  BY DEF NextIv
<1> QED
  BY <1>1, <1>2 DEF IInv, EncryptedSoFar, CipherComplete, RestoredSoFar, DoneComplete

\* How far a time through the text has come, in what it is about.
LEMMA ProgressStays ==
  ASSUME NEW U, NEW before, Progress(U, before), UNCHANGED <<key, nonce, text, i, ctx_iv>>,
         (calling' = calling /\ bi' = bi /\ buffer' = buffer) \/ ~calling' \/ bi' = AES_BLOCKLEN
  PROVE  Progress(U, before)'
<1>1. Drawn(nonce, U, i)'
  BY DEF Progress, Drawn
<1>2. Mixes(U, before, text, i)'
  BY DEF Progress, Mixes, StreamByte, KeyStream
<1>3. (ctx_iv = NextCounter(nonce, U))'
  BY DEF Progress, NextCounter
<1>4. InBlock(U)'
  BY DEF Progress, InBlock, KeyStream
<1> QED
  BY <1>1, <1>2, <1>3, <1>4 DEF Progress

LEMMA ByteText ==
  ASSUME NEW t \in Seq(CtrByte)
  PROVE  Len(t) \in Nat /\ t \in [1..Len(t) -> CtrByte]
OBVIOUS

LEMMA SetCounterIInv ==
  ASSUME CtrIInv, NEW counter \in Block, NEW t \in Texts, SetCounter(counter, t),
         UNCHANGED <<phase, busy, key, iv, buf, pos, end, Iv, message, cipher>>
  PROVE  CtrIInv'
<1> USE DEF SetCounter
<1>1. IInv'
  BY CbcStays DEF CtrIInv
<1>2. /\ t \in Seq(CtrByte) /\ Len(t) \in Nat /\ t \in [1..Len(t) -> CtrByte]
  <2>1. t \in Seq(CtrByte)
    BY CtrAssumption DEF CtrByte
  <2> QED
    BY <2>1
<1>3. i = 0 /\ Len(used[1]) = 0 /\ Len(used[2]) = 0 /\ ~calling
  BY DEF CtrIInv, CtrTypeOK, Stages
<1>4. CtrTypeOK'
  BY <1>2, <1>3 DEF CtrIInv, CtrTypeOK
<1>5. Progress(used[1], plain)'
  <2>1. used[1] \in Seq(Nat \X Block)
    BY DEF CtrIInv, CtrTypeOK
  <2>2. DOMAIN t \subseteq Nat \ {0}
    BY <1>2
  <2>3. Drawn(nonce, used[1], i)'
    BY <1>3, <2>1 DEF Drawn
  <2>4. Mixes(used[1], plain, text, i)'
    BY <1>3, <2>2 DEF Mixes
  <2> QED
    BY <1>3, <2>3, <2>4 DEF Progress, InBlock, NextCounter
<1>6. Stages'
  BY <1>3, <1>5 DEF Stages
<1> QED
  BY <1>1, <1>4, <1>6 DEF CtrIInv

LEMMA XcryptIInv ==
  ASSUME CtrIInv, NEW n \in 0..(Len(text) - i), Xcrypt(n),
         UNCHANGED <<phase, busy, key, iv, buf, pos, end, Iv, message, cipher>>
  PROVE  CtrIInv'
<1> USE DEF Xcrypt
<1>1. IInv'
  BY CbcStays DEF CtrIInv, IInv, TypeOK, CtrTypeOK
<1>2. last' \in i'..Len(plain')
  BY TextLength DEF CtrIInv, CtrTypeOK
<1>3. CtrTypeOK'
  BY <1>2, Sizes DEF CtrIInv, CtrTypeOK
<1>4. Stages'
  <2>1. \A U, before : Progress(U, before) => Progress(U, before)'
    BY ProgressStays
  <2>2. \A U, n1 : Drawn(nonce, U, n1) => Drawn(nonce, U, n1)'
    BY DEF Drawn
  <2>3. \A U, before, after, n1 : Mixes(U, before, after, n1) => Mixes(U, before, after, n1)'
    BY DEF Mixes, StreamByte, KeyStream
  <2> QED
    BY <2>1, <2>2, <2>3 DEF CtrIInv, Stages
<1> QED
  BY <1>1, <1>3, <1>4 DEF CtrIInv

LEMMA ReturnXcryptIInv ==
  ASSUME CtrIInv, ReturnXcrypt,
         UNCHANGED <<phase, busy, key, iv, buf, pos, end, Iv, message, cipher>>
  PROVE  CtrIInv'
<1> USE DEF ReturnXcrypt
<1>1. IInv'
  BY CbcStays DEF CtrIInv, IInv, TypeOK, CtrTypeOK
<1>2. CtrTypeOK'
  BY DEF CtrIInv, CtrTypeOK
<1>3. Stages'
  <2>1. \A U, before : Progress(U, before) => Progress(U, before)'
    BY ProgressStays
  <2>2. \A U, n : Drawn(nonce, U, n) => Drawn(nonce, U, n)'
    BY DEF Drawn
  <2>3. \A U, before, after, n : Mixes(U, before, after, n) => Mixes(U, before, after, n)'
    BY DEF Mixes, StreamByte, KeyStream
  <2> QED
    BY <2>1, <2>2, <2>3 DEF CtrIInv, Stages
<1> QED
  BY <1>1, <1>2, <1>3 DEF CtrIInv

LEMMA SetCounterBackIInv ==
  ASSUME CtrIInv, SetCounterBack,
         UNCHANGED <<phase, busy, key, iv, buf, pos, end, Iv, message, cipher>>
  PROVE  CtrIInv'
<1> USE DEF SetCounterBack
<1>1. nonce \in Block /\ phase = "done"
  BY DEF CtrIInv, CtrTypeOK
<1>2. IInv'
  BY <1>1, CbcStays DEF CtrIInv
<1>3. Len(plain) \in Nat /\ i = Len(plain) /\ text \in [1..Len(plain) -> CtrByte]
  BY TextLength DEF CtrIInv, CtrTypeOK
<1>4. CtrTypeOK'
  BY <1>1, <1>3 DEF CtrIInv, CtrTypeOK
<1>5. Drawn(nonce, used[1], Len(plain)) /\ Mixes(used[1], plain, text, Len(plain))
  BY <1>3 DEF CtrIInv, Stages, Progress
<1>6. Drawn(nonce, used[1], Len(plain))' /\ Mixes(used[1], plain, text, Len(plain))'
  BY <1>5 DEF Drawn, Mixes, StreamByte, KeyStream
<1>7. Progress(used[2], text)'
  <2>1. used[2] \in Seq(Nat \X Block) /\ Len(used[2]) = 0
    BY DEF CtrIInv, CtrTypeOK, Stages
  <2>2. DOMAIN text \subseteq Nat \ {0}
    BY <1>3
  <2>3. Drawn(nonce, used[2], i)'
    BY <2>1 DEF Drawn
  <2>4. Mixes(used[2], text, text, i)'
    BY <2>1, <2>2 DEF Mixes
  <2> QED
    BY <2>1, <2>3, <2>4 DEF Progress, InBlock, NextCounter
<1>8. Stages'
  <2>1. text' \in [1..Len(plain') -> CtrByte]
    BY <1>3
  <2>2. \E between \in [1..Len(plain') -> CtrByte] :
          Mixes(used[1], plain, between, Len(plain))' /\ Progress(used[2], between)'
    BY <1>6, <1>7, <2>1
  <2> QED
    BY <1>6, <2>2 DEF Stages
<1> QED
  BY <1>2, <1>4, <1>8 DEF CtrIInv

LEMMA TextIsBackIInv ==
  ASSUME CtrIInv, TextIsBack,
         UNCHANGED <<phase, busy, key, iv, buf, pos, end, Iv, message, cipher>>
  PROVE  CtrIInv'
<1> USE DEF TextIsBack
<1>1. IInv'
  BY CbcStays DEF CtrIInv, IInv, TypeOK, CtrTypeOK
<1>2. CtrTypeOK'
  BY DEF CtrIInv, CtrTypeOK
<1>3. Stages'
  <2>1. \A U, before : Progress(U, before) => Progress(U, before)'
    BY ProgressStays
  <2>2. \A U, n : Drawn(nonce, U, n) => Drawn(nonce, U, n)'
    BY DEF Drawn
  <2>3. \A U, before, after, n : Mixes(U, before, after, n) => Mixes(U, before, after, n)'
    BY DEF Mixes, StreamByte, KeyStream
  <2>4. i = Len(plain)
    BY TextLength DEF CtrIInv
  <2> QED
    BY <2>1, <2>2, <2>3, <2>4 DEF CtrIInv, Stages
<1> QED
  BY <1>1, <1>2, <1>3 DEF CtrIInv

LEMMA XcryptByteIInv ==
  ASSUME CtrIInv, XcryptByte,
         UNCHANGED <<phase, busy, key, iv, buf, pos, end, Iv, message, cipher>>
  PROVE  CtrIInv'
<1>1. /\ CtrTypeOK /\ key \in Key /\ ctx_iv \in Block /\ UNCHANGED key
      /\ calling /\ stage \in {"first", "second"} /\ Len(plain) \in Nat
      /\ UNCHANGED <<stage, calling, nonce, plain, last>>
  BY TextLength DEF CtrIInv, CtrTypeOK, IInv, TypeOK, XcryptByte
<1>p. PICK p \in 1..2 : p = IF stage = "first" THEN 1 ELSE 2
  OBVIOUS
<1>2. \E before \in [1..Len(plain) -> CtrByte] :
        Progress(used[p], before) /\ (stage = "first" => before = plain)
        /\ (stage = "second" => Mixes(used[1], plain, before, Len(plain)))
  <2>1. CASE stage = "first"
    BY <1>1, <1>p, <2>1, ByteText DEF CtrIInv, CtrTypeOK, Stages
  <2>2. CASE stage = "second"
    BY <1>1, <1>p, <2>2 DEF CtrIInv, Stages
  <2> QED
    BY <1>1, <2>1, <2>2
<1>3. PICK before \in [1..Len(plain) -> CtrByte] :
        /\ Progress(used[p], before)
        /\ stage = "first" => before = plain
        /\ stage = "second" => Mixes(used[1], plain, before, Len(plain))
  BY <1>2
<1>4. /\ Progress(used[p], before)'
      /\ text' \in [1..Len(plain) -> CtrByte]
      /\ i' \in 0..Len(plain) /\ last' \in i'..Len(plain)
      /\ bi' \in 1..AES_BLOCKLEN
      /\ buffer' \in Block
      /\ ctx_iv' \in Block
      /\ used' \in [1..2 -> Seq(Nat \X Block)]
      /\ \A q \in 1..2 : q # p => used'[q] = used[q]
  <2>1. /\ CtrTypeOK /\ XcryptByte /\ UNCHANGED key /\ key \in Key /\ ctx_iv \in Block
        /\ p = IF stage = "first" THEN 1 ELSE 2
        /\ Progress(used[p], before)
    BY <1>1, <1>p, <1>3
  <2> QED
    BY <2>1, ByteProgress
<1>5. IInv'
  BY <1>1, <1>4, CbcStays DEF CtrIInv, CtrTypeOK
<1>6. CtrTypeOK'
  BY <1>1, <1>4 DEF CtrTypeOK
<1>7. Stages'
  <2>1. CASE stage = "first"
    <3>1. Progress(used[1], plain)'
      BY <1>1, <1>p, <1>3, <1>4, <2>1
    <3>2. Len(used[2])' = 0
      BY <1>p, <1>4, <2>1 DEF CtrIInv, Stages
    <3> QED
      BY <1>1, <2>1, <3>1, <3>2 DEF Stages
  <2>2. CASE stage = "second"
    <3>1. Progress(used[2], before)' /\ used'[1] = used[1]
      BY <1>p, <1>4, <2>2
    <3>2. Drawn(nonce, used[1], Len(plain))'
      BY <1>1, <2>2, <3>1 DEF CtrIInv, Stages, Drawn
    <3>3. Mixes(used[1], plain, before, Len(plain))'
      BY <1>1, <1>3, <2>2, <3>1 DEF Mixes, StreamByte, KeyStream, Covers
    <3> QED
      BY <1>1, <2>2, <3>1, <3>2, <3>3 DEF Stages
  <2> QED
    BY <1>1, <2>1, <2>2
<1> QED
  BY <1>5, <1>6, <1>7 DEF CtrIInv

LEMMA CtrNextIInv == CtrIInv /\ [CtrNext]_<<vars, ctrVars>> => CtrIInv'
<1> SUFFICES ASSUME CtrIInv, [CtrNext]_<<vars, ctrVars>> PROVE CtrIInv'
  OBVIOUS
<1>1. CASE Next /\ UNCHANGED ctrVars
  BY <1>1, CbcStep
<1>2. CASE CtrStep /\ UNCHANGED <<phase, busy, key, iv, buf, pos, end, Iv, message, cipher>>
  <2>1. ASSUME NEW counter \in Block, NEW t \in Texts, SetCounter(counter, t) PROVE CtrIInv'
    BY <1>2, <2>1, SetCounterIInv
  <2>2. ASSUME NEW n \in 0..(Len(text) - i), Xcrypt(n) PROVE CtrIInv'
    BY <1>2, <2>2, XcryptIInv
  <2>3. CASE XcryptByte
    BY <1>2, <2>3, XcryptByteIInv
  <2>4. CASE ReturnXcrypt
    BY <1>2, <2>4, ReturnXcryptIInv
  <2>5. CASE SetCounterBack
    BY <1>2, <2>5, SetCounterBackIInv
  <2>6. CASE TextIsBack
    BY <1>2, <2>6, TextIsBackIInv
  <2> QED
    BY <1>2, <2>1, <2>2, <2>3, <2>4, <2>5, <2>6 DEF CtrStep
<1>3. CASE UNCHANGED <<vars, ctrVars>>
  <2> USE <1>3 DEF vars, ctrVars
  <2>1. IInv'
    BY NextIInv DEF CtrIInv
  <2>2. CtrTypeOK'
    BY DEF CtrIInv, CtrTypeOK
  <2>3. Stages'
    <3>1. \A U, before : Progress(U, before) => Progress(U, before)'
      BY ProgressStays
    <3>2. \A U, n : Drawn(nonce, U, n) => Drawn(nonce, U, n)'
      BY DEF Drawn
    <3>3. \A U, before, after, n : Mixes(U, before, after, n) => Mixes(U, before, after, n)'
      BY DEF Mixes, StreamByte, KeyStream
    <3> QED
      BY <3>1, <3>2, <3>3 DEF CtrIInv, Stages
  <2> QED
    BY <2>1, <2>2, <2>3 DEF CtrIInv
<1> QED
  BY <1>1, <1>2, <1>3 DEF CtrNext

\* The inductive invariant of both modes on one context.
THEOREM CtrInvariant == CtrSpec => []CtrIInv
BY InitCtrIInv, CtrNextIInv, PTL DEF CtrSpec

\* All this is so of CBC in a program that goes on with CTR on the same context:
\* AES_ctx_set_iv and AES_CTR_xcrypt_buffer leave what CBC has done alone.
THEOREM CbcIsKept == CtrSpec => [](TypeOK /\ EncryptedSoFar /\ ContextCarriesOn /\ RestoredSoFar)
<1>1. CtrIInv => TypeOK /\ EncryptedSoFar /\ ContextCarriesOn /\ RestoredSoFar
  BY ContextIs DEF CtrIInv, IInv
<1> QED
  BY <1>1, CtrInvariant, PTL

\* Such a program has its CBC part do what one encryption and one decryption of
\* the whole message do.
THEOREM CbcStillImplements == CtrSpec => ImplementsMessage
<1>1. CtrInit => Abstract!Init
  BY InitImplements DEF CtrInit
<1>2. CtrIInv /\ [CtrNext]_<<vars, ctrVars>> => [Abstract!Next]_(Abstract!vars)
  <2> SUFFICES ASSUME CtrIInv, [CtrNext]_<<vars, ctrVars>>
               PROVE  [Abstract!Next]_(Abstract!vars)
    OBVIOUS
  <2>1. CASE Next
    BY <2>1, StepImplements DEF CtrIInv
  <2>2. CASE CtrStep /\ UNCHANGED <<phase, busy, key, iv, buf, pos, end, Iv, message, cipher>>
    BY <2>2 DEF Abstract!vars
  <2>3. CASE UNCHANGED <<vars, ctrVars>>
    BY <2>3 DEF vars, Abstract!vars
  <2> QED
    BY <2>1, <2>2, <2>3 DEF CtrNext
<1> QED
  BY <1>1, <1>2, CtrInvariant, PTL DEF CtrSpec, ImplementsMessage, Abstract!Spec

-----------------------------------------------------------------------------
\* CTR by the same pieces takes itself back.

\* Two times through from one first counter take the same counters.
LEMMA SameCounters ==
  ASSUME NEW first, NEW U, NEW V, NEW m \in Nat, NEW n \in Nat,
         Drawn(first, U, m), Drawn(first, V, n), Len(U) = Len(V)
  PROVE  \A k \in 1..Len(U) : U[k][2] = V[k][2]
<1>1. Len(U) \in Nat
  BY DEF Drawn
<1> DEFINE T == {k \in 1..Len(U) : U[k][2] # V[k][2]}
<1> SUFFICES ASSUME T # {} PROVE FALSE
  OBVIOUS
<1>2. T \subseteq Nat
  BY <1>1
<1>3. PICK k \in T : \A j \in T : k <= j
  <2> HIDE DEF T
  <2> QED
    BY <1>2, LeastNumber
<1>4. k \in 1..Len(U) /\ U[k][2] # V[k][2]
  BY <1>3
<1>5. k # 1
  <2>1. U[1] = <<0, first>> /\ V[1] = <<0, first>>
    BY <1>1, <1>4, SMTT(30) DEF Drawn
  <2> QED
    BY <1>4, <2>1
<1>6. PICK j \in 1..(Len(U) - 1) : k = j + 1
  <2>1. k - 1 \in 1..(Len(U) - 1) /\ k = (k - 1) + 1
    BY <1>1, <1>4, <1>5
  <2> QED
    BY <2>1
<1>7. U[j][2] = V[j][2]
  <2>1. j \in 1..Len(U) /\ ~(k <= j)
    BY <1>1, <1>6
  <2>2. j \notin T
    <3> HIDE DEF T
    <3> QED
      BY <1>3, <2>1
  <2> QED
    BY <2>1, <2>2
<1>8. U[k][2] = Increment(U[j][2]) /\ V[k][2] = Increment(V[j][2])
  BY <1>6 DEF Drawn
<1> QED
  BY <1>4, <1>7, <1>8

LEMMA StreamByteIsByte ==
  ASSUME key \in Key, NEW first, NEW U, NEW n \in Nat, Drawn(first, U, n), NEW k \in 1..Len(U),
         NEW m \in Nat, m - U[k][1] \in 1..AES_BLOCKLEN
  PROVE  StreamByte(U, k, m) \in CtrByte
<1>1. U \in Seq(Nat \X Block)
  BY DEF Drawn
<1>2. U[k][2] \in Block
  BY <1>1
<1>3. KeyStream(U[k][2]) \in [1..AES_BLOCKLEN -> CtrByte]
  BY <1>2, EncIsBlock, CtrAssumption DEF KeyStream, CtrByte
<1> QED
  BY <1>3 DEF StreamByte

LEMMA MixedTwice == \A a, b \in CtrByte : XorByte(XorByte(a, b), b) = a
BY CtrAssumption DEF CtrByte

LEMMA SamePieces == CtrIInv => SamePiecesRestore
<1> SUFFICES ASSUME CtrIInv, stage = "over",
                    [n \in DOMAIN used[1] |-> used[1][n][1]]
                      = [n \in DOMAIN used[2] |-> used[2][n][1]]
             PROVE  text = plain
  BY DEF SamePiecesRestore
<1>a. PICK U, V : U = used[1] /\ V = used[2]
  OBVIOUS
<1>b. PICK size \in Nat : size = Len(plain)
  BY DEF CtrIInv, CtrTypeOK
<1>1. /\ plain \in [1..size -> CtrByte] /\ text \in [1..size -> CtrByte]
      /\ key \in Key
  BY <1>b, ByteText DEF CtrIInv, CtrTypeOK, IInv, TypeOK
<1>2. Drawn(nonce, U, size) /\ Drawn(nonce, V, size)
  BY <1>a, <1>b DEF CtrIInv, Stages, Progress
<1>3. PICK between \in [1..size -> CtrByte] :
        Mixes(U, plain, between, size) /\ Mixes(V, between, text, size)
  BY <1>a, <1>b DEF CtrIInv, Stages, Progress
<1>4. U \in Seq(Nat \X Block) /\ V \in Seq(Nat \X Block) /\ Len(U) \in Nat /\ Len(V) \in Nat
  BY <1>2 DEF Drawn
<1>5. Len(V) = Len(U) /\ \A k \in 1..Len(U) : V[k][1] = U[k][1]
  <2>1. DOMAIN U = DOMAIN V
    BY <1>a
  <2>2. \A k \in DOMAIN U : U[k][1] = V[k][1]
    BY <1>a, <2>1
  <2> QED
    BY <1>4, <2>1, <2>2
<1>6. \A k \in 1..Len(U) : U[k][2] = V[k][2]
  BY <1>2, <1>5, SameCounters
<1>7. ASSUME NEW m \in 1..size PROVE text[m] = plain[m]
  <2>1. PICK k \in 1..Len(U) : Covers(U, k, m) /\ m - U[k][1] \in 1..AES_BLOCKLEN
    BY <1>2, BlockFound
  <2>2. V[k][1] = U[k][1] /\ V[k][2] = U[k][2]
    BY <1>5, <1>6
  <2>3. Covers(V, k, m)
    <3>1. k < Len(U) => k + 1 \in 1..Len(U)
      BY <1>4
    <3>2. k < Len(U) => V[k + 1][1] = U[k + 1][1]
      BY <1>5, <3>1
    <3> QED
      BY <1>5, <2>1, <2>2, <3>2 DEF Covers
  <2>4. between[m] = XorByte(plain[m], StreamByte(U, k, m))
    BY <1>1, <1>3, <2>1 DEF Mixes
  <2>5. text[m] = XorByte(between[m], StreamByte(V, k, m))
    BY <1>3, <1>5, <2>3 DEF Mixes
  <2>6. StreamByte(V, k, m) = StreamByte(U, k, m)
    BY <2>2 DEF StreamByte
  <2>7. StreamByte(U, k, m) \in CtrByte
    BY <1>1, <1>2, <2>1, StreamByteIsByte
  <2> QED
    BY <1>1, <2>4, <2>5, <2>6, <2>7, MixedTwice
<1> QED
  BY <1>1, <1>7

\* A text is back when it went through AES_CTR_xcrypt_buffer twice by pieces
\* that begin their blocks at the same places, for every block cipher and text.
THEOREM SamePiecesTakeBack == CtrSpec => []SamePiecesRestore
BY CtrInvariant, SamePieces, PTL

-----------------------------------------------------------------------------
\* CTR by whole pieces is CTR by one call.

LEMMA IsMultiple ==
  ASSUME NEW x \in Nat, NEW b \in Nat \ {0}, x % b = 0
  PROVE  \E q \in Nat : x = b * q
<1>1. x \div b \in Nat /\ x = b * (x \div b) + (x % b)
  OBVIOUS
<1> QED
  BY <1>1

Follows(b, q, j) == b * q - b * (j - 1) \in 1..b

LEMMA OneMultiple ==
  ASSUME NEW b \in Nat \ {0}, NEW q \in Int, NEW j \in Int, Follows(b, q, j)
  PROVE  q = j
<1> DEFINE d == q - j
<1>1. d \in Int /\ q = d + j
  OBVIOUS
<1>2. b * d + b \in 1..b
  BY <1>1 DEF Follows
<1> HIDE DEF d
<1>3. CASE d >= 1
  <2>1. b * d >= b
    BY <1>1, <1>3
  <2> QED
    BY <1>1, <1>2, <2>1
<1>4. CASE d <= 0 - 1
  <2>1. b * d <= 0 - b
    BY <1>1, <1>4
  <2> QED
    BY <1>1, <1>2, <2>1
<1> QED
  BY <1>1, <1>3, <1>4

\* Blocks that begin at multiples of their length follow each other closely.
LEMMA WholeBlocksFollow ==
  ASSUME NEW first, NEW U, NEW n \in Nat, Drawn(first, U, n),
         \A k \in 1..Len(U) : U[k][1] % AES_BLOCKLEN = 0
  PROVE  \A k \in 1..Len(U) : U[k][1] = AES_BLOCKLEN * (k - 1)
<1>1. U \in Seq(Nat \X Block) /\ Len(U) \in Nat
  BY DEF Drawn
<1> DEFINE T == {k \in 1..Len(U) : U[k][1] # AES_BLOCKLEN * (k - 1)}
<1> SUFFICES ASSUME T # {} PROVE FALSE
  OBVIOUS
<1>2. T \subseteq Nat
  BY <1>1
<1>3. PICK k \in T : \A j \in T : k <= j
  <2> HIDE DEF T
  <2> QED
    BY <1>2, LeastNumber
<1>4. k \in 1..Len(U) /\ U[k][1] # AES_BLOCKLEN * (k - 1)
  BY <1>3
<1>5. k # 1
  <2>1. U[1] = <<0, first>>
    BY <1>1, <1>4 DEF Drawn
  <2>2. AES_BLOCKLEN * (1 - 1) = 0
    BY Sizes
  <2> QED
    BY <1>4, <2>1, <2>2
<1>6. PICK j \in 1..(Len(U) - 1) : k = j + 1
  <2>1. k - 1 \in 1..(Len(U) - 1) /\ k = (k - 1) + 1
    BY <1>1, <1>4, <1>5
  <2> QED
    BY <2>1
<1>7. U[j][1] = AES_BLOCKLEN * (j - 1)
  <2>1. j \in 1..Len(U) /\ ~(k <= j)
    BY <1>1, <1>6
  <2>2. j \notin T
    <3> HIDE DEF T
    <3> QED
      BY <1>3, <2>1
  <2> QED
    BY <2>1, <2>2
<1>8. PICK x \in Nat : x = U[k][1]
  BY <1>1, <1>4
<1>9. x - AES_BLOCKLEN * (j - 1) \in 1..AES_BLOCKLEN /\ x % AES_BLOCKLEN = 0
  BY <1>4, <1>6, <1>7, <1>8 DEF Drawn
<1>10. PICK q \in Nat : x = AES_BLOCKLEN * q
  BY <1>9, IsMultiple, Sizes
<1>11. q = j
  <2>1. Follows(AES_BLOCKLEN, q, j)
    BY <1>9, <1>10 DEF Follows
  <2>2. q \in Int /\ j \in Int /\ AES_BLOCKLEN \in Nat \ {0}
    BY <1>1, Sizes
  <2> QED
    BY <2>1, <2>2, OneMultiple
<1> QED
  BY <1>4, <1>6, <1>8, <1>10, <1>11

\* The counter that key stream block k + 1 is made of.
LEMMA SuccessorsAre ==
  ASSUME NEW first \in Block, NEW count \in Nat
  PROVE  /\ Successors(first, count)[0] = first
         /\ \A n \in 1..count :
              Successors(first, count)[n] = Increment(Successors(first, count)[n - 1])
<1> DEFINE Is(f) == f = [n \in 0..count |-> IF n = 0 THEN first ELSE Increment(f[n - 1])]
           step == [n \in Nat |-> [b \in Block |-> Increment(b)]]
<1>1. Successors(first, count) = CHOOSE f : Is(f)
  BY DEF Successors
<1>2. \E f : Is(f)
  <2>1. step \in [Nat -> [Block -> Block]]
    BY IncrementIsBlock
  <2>2. PICK f \in [0..count -> Block] : Iterates(f, first, step, count)
    <3> HIDE DEF step
    <3> QED
      BY <2>1, IteratesExists
  <2>3. \A n \in 0..count : n # 0 => n - 1 \in 0..count /\ n \in Nat
    OBVIOUS
  <2>4. \A n \in 0..count : n # 0 => step[n][f[n - 1]] = Increment(f[n - 1])
    BY <2>2, <2>3
  <2>5. Is(f)
    <3>1. f = [n \in 0..count |-> IF n = 0 THEN first ELSE step[n][f[n - 1]]]
      BY <2>2, Zenon DEF Iterates
    <3> HIDE DEF step
    <3> QED
      BY <2>4, <3>1
  <2> QED
    BY <2>5
<1>3. Is(Successors(first, count))
  <2> HIDE DEF Is
  <2> QED
    BY <1>1, <1>2
<1> QED
  BY <1>3

LEMMA CounterIs ==
  ASSUME NEW first \in Block, NEW U, NEW n \in Nat, Drawn(first, U, n), NEW count \in Nat
  PROVE  \A k \in 1..Len(U) : k - 1 <= count => Successors(first, count)[k - 1] = U[k][2]
<1>1. U \in Seq(Nat \X Block) /\ Len(U) \in Nat
  BY DEF Drawn
<1> DEFINE T == {k \in 1..Len(U) : k - 1 <= count /\ Successors(first, count)[k - 1] # U[k][2]}
<1> SUFFICES ASSUME T # {} PROVE FALSE
  OBVIOUS
<1>2. T \subseteq Nat
  BY <1>1
<1>3. PICK k \in T : \A j \in T : k <= j
  <2> HIDE DEF T
  <2> QED
    BY <1>2, LeastNumber
<1>4. k \in 1..Len(U) /\ k - 1 <= count /\ Successors(first, count)[k - 1] # U[k][2]
  BY <1>3
<1>5. k # 1
  <2>1. U[1] = <<0, first>>
    BY <1>1, <1>4, SMTT(30) DEF Drawn
  <2> QED
    BY <1>4, <2>1, SuccessorsAre
<1>6. PICK j \in 1..(Len(U) - 1) : k = j + 1
  <2>1. k - 1 \in 1..(Len(U) - 1) /\ k = (k - 1) + 1
    BY <1>1, <1>4, <1>5
  <2> QED
    BY <2>1
<1>7. Successors(first, count)[j - 1] = U[j][2]
  <2>1. j \in 1..Len(U) /\ ~(k <= j) /\ j - 1 <= count
    <3>1. PICK L \in Nat : L = Len(U)
      BY <1>1
    <3>2. j \in 1..(L - 1) /\ k = j + 1 /\ k - 1 <= count
      BY <1>4, <1>6, <3>1
    <3>3. j \in 1..L /\ ~(k <= j) /\ j - 1 <= count
      BY <3>2
    <3> QED
      BY <3>1, <3>3
  <2>2. j \notin T
    <3> HIDE DEF T
    <3> QED
      BY <1>3, <2>1
  <2> QED
    BY <2>1, <2>2
<1>8. U[k][2] = Increment(U[j][2])
  BY <1>6 DEF Drawn
<1>9. Successors(first, count)[j] = Increment(Successors(first, count)[j - 1])
  <2>1. j \in 1..count
    BY <1>4, <1>6
  <2> QED
    BY <2>1, SuccessorsAre
<1>10. k - 1 = j
  BY <1>6
<1> QED
  BY <1>4, <1>7, <1>8, <1>9, <1>10

LEMMA WholePieces == CtrIInv => WholePiecesAreOneCall
<1> DEFINE Source(n) == Successors(nonce, Len(plain))[(n - 1) \div AES_BLOCKLEN]
           Place(n) == ((n - 1) % AES_BLOCKLEN) + 1
<1> SUFFICES ASSUME CtrIInv, stage = "first",
                    \A n \in DOMAIN used[1] : used[1][n][1] % AES_BLOCKLEN = 0,
                    NEW m \in 1..Len(text)
             PROVE  text[m] = IF m <= i THEN XorByte(plain[m], Enc(key, Source(m))[Place(m)])
                              ELSE plain[m]
  BY Zenon DEF WholePiecesAreOneCall
<1>a. PICK U : U = used[1]
  OBVIOUS
<1>b. PICK size \in Nat : size = Len(plain) /\ size = Len(text)
  BY TextLength DEF CtrIInv
<1>c. PICK n \in Nat : n = i /\ n <= size
  BY <1>b DEF CtrIInv, CtrTypeOK
<1>1. /\ Drawn(nonce, U, n) /\ Mixes(U, plain, text, n) /\ nonce \in Block
      /\ DOMAIN plain = 1..size
  BY <1>a, <1>b, <1>c, ByteText DEF CtrIInv, CtrTypeOK, Stages, Progress
<1>2. U \in Seq(Nat \X Block) /\ Len(U) \in Nat
  BY <1>1 DEF Drawn
<1>3. \A k \in 1..Len(U) : U[k][1] = AES_BLOCKLEN * (k - 1)
  <2>1. \A k \in 1..Len(U) : U[k][1] % AES_BLOCKLEN = 0
    BY <1>a, <1>2
  <2> QED
    BY <1>1, <2>1, WholeBlocksFollow
<1>4. CASE m > i
  BY <1>b, <1>c, <1>1, <1>4 DEF Mixes
<1>5. CASE m <= i
  <2>1. m \in 1..n
    BY <1>b, <1>c, <1>5
  <2>2. PICK k \in 1..Len(U) : Covers(U, k, m) /\ m - U[k][1] \in 1..AES_BLOCKLEN
    BY <1>1, <2>1, BlockFound
  <2>3. text[m] = XorByte(plain[m], StreamByte(U, k, m))
    BY <1>b, <1>c, <1>1, <2>1, <2>2 DEF Mixes
  <2>4. PICK j \in Nat : j = k - 1
    BY <1>2
  <2>5. U[k][1] = AES_BLOCKLEN * j /\ m - AES_BLOCKLEN * j \in 1..AES_BLOCKLEN
    BY <1>3, <2>2, <2>4
  <2>6. (m - 1) \div AES_BLOCKLEN = j
    <3>1. AES_BLOCKLEN * j <= m - 1 /\ m - 1 < AES_BLOCKLEN * j + AES_BLOCKLEN /\ m - 1 \in Nat
      BY <2>1, <2>5, Sizes
    <3> QED
      BY <3>1, QuotientIs, Sizes
  <2>7. Place(m) = m - U[k][1]
    <3>1. m - 1 = AES_BLOCKLEN * ((m - 1) \div AES_BLOCKLEN) + ((m - 1) % AES_BLOCKLEN)
      BY <2>1, Sizes
    <3>2. (m - 1) % AES_BLOCKLEN \in Int
      BY <2>1, Sizes
    <3> QED
      BY <2>1, <2>5, <2>6, <3>1, <3>2, Sizes
  <2>8. j <= size
    <3>1. AES_BLOCKLEN * j >= j
      BY Sizes
    <3> QED
      BY <1>b, <1>c, <2>1, <2>5, <3>1, Sizes
  <2>9. Source(m) = U[k][2]
    BY <1>b, <1>1, <2>4, <2>6, <2>8, CounterIs
  <2>10. StreamByte(U, k, m) = Enc(key, Source(m))[Place(m)]
    BY <2>7, <2>9 DEF StreamByte, KeyStream
  <2> QED
    BY <1>5, <2>3, <2>10
<1> QED
  BY <1>b, <1>c, <1>4, <1>5

\* A text encrypted by pieces of whole blocks is encrypted as by one call.
THEOREM WholePiecesJoin == CtrSpec => []WholePiecesAreOneCall
BY CtrInvariant, WholePieces, PTL

-----------------------------------------------------------------------------
\* CTR takes a counter again only behind all others.

\* The value of the last t bytes of a counter is a number below the t-th power,
\* and incrementing goes around.
GoesAround(v, t) ==
  \A c \in Block :
    LET all == (MaxByte + 1)^t
    IN  /\ v[c] \in 0..(all - 1)
        /\ v[Increment(c)] = IF v[c] = all - 1 THEN 0 ELSE v[c] + 1
        /\ v[c] = all - 1 <=> \A m \in (AES_BLOCKLEN - t + 1)..AES_BLOCKLEN : c[m] = MaxByte

\* One more byte in front: a is it, and c the value of the ones behind, of P.
LEMMA ByteInFront ==
  ASSUME NEW P \in Nat \ {0}, NEW M \in Nat, NEW a \in 0..M, NEW c \in 0..(P - 1)
  PROVE  /\ a * P + c \in 0..(P * (M + 1) - 1)
         /\ a * P + c = P * (M + 1) - 1 <=> a = M /\ c = P - 1
         /\ (a + 1) * P = a * P + (P - 1) + 1
<1>1. a * P \in Nat /\ M * P \in Nat /\ P * (M + 1) = M * P + P
  OBVIOUS
<1>2. a <= M - 1 => a * P <= M * P - P
  <2> SUFFICES ASSUME a <= M - 1 PROVE a * P <= M * P - P
    OBVIOUS
  <2>1. PICK d \in Nat : M = a + 1 + d
    <3>1. M - a - 1 \in Nat /\ M = a + 1 + (M - a - 1)
      OBVIOUS
    <3> QED
      BY <3>1
  <2>2. M * P = a * P + P + d * P /\ d * P \in Nat
    BY <2>1
  <2> QED
    BY <1>1, <2>2
<1>3. a = M => a * P = M * P
  OBVIOUS
<1>4. a = M \/ a <= M - 1
  OBVIOUS
<1>5. (a + 1) * P = a * P + (P - 1) + 1
  OBVIOUS
<1> QED
  BY <1>1, <1>2, <1>3, <1>4, <1>5

\* Which bytes of a counter Increment changes.
LEMMA ByteOfIncrement ==
  ASSUME NEW c \in Block, NEW d \in 1..AES_BLOCKLEN, NEW full \in BOOLEAN,
         full <=> \A m \in (d + 1)..AES_BLOCKLEN : c[m] = MaxByte
  PROVE  Increment(c)[d] = IF full THEN (IF c[d] = MaxByte THEN 0 ELSE c[d] + 1) ELSE c[d]
<1> DEFINE below == {n \in 1..AES_BLOCKLEN : \A m \in n..AES_BLOCKLEN : c[m] = MaxByte}
<1>1. d \in below <=> full /\ c[d] = MaxByte
  <2>1. d \in below <=> \A m \in d..AES_BLOCKLEN : c[m] = MaxByte
    OBVIOUS
  <2>2. \A m \in d..AES_BLOCKLEN : m = d \/ m \in (d + 1)..AES_BLOCKLEN
    OBVIOUS
  <2>3. \A m \in (d + 1)..AES_BLOCKLEN : m \in d..AES_BLOCKLEN
    OBVIOUS
  <2>4. d \in d..AES_BLOCKLEN
    BY Sizes
  <2> QED
    BY <2>1, <2>2, <2>3, <2>4
<1>2. d + 1 \in below \cup {AES_BLOCKLEN + 1} <=> full
  <2>1. CASE d = AES_BLOCKLEN
    <3>1. \A m \in (d + 1)..AES_BLOCKLEN : FALSE
      BY <2>1, Sizes
    <3> QED
      BY <2>1, <3>1
  <2>2. CASE d # AES_BLOCKLEN
    <3>1. d + 1 \in 1..AES_BLOCKLEN /\ d + 1 # AES_BLOCKLEN + 1
      BY <2>2, Sizes
    <3>2. d + 1 \in below <=> \A m \in (d + 1)..AES_BLOCKLEN : c[m] = MaxByte
      BY <3>1
    <3> QED
      BY <3>1, <3>2
  <2> QED
    BY <2>1, <2>2
<1>3. Increment(c)[d] = IF d \in below THEN 0
                        ELSE IF d + 1 \in below \cup {AES_BLOCKLEN + 1} THEN c[d] + 1 ELSE c[d]
  BY DEF Increment
<1> HIDE DEF below
<1> QED
  BY <1>1, <1>2, <1>3

\* From the last t bytes to the byte d before them.
LEMMA FullFromHere ==
  ASSUME NEW c \in Block, NEW d \in 1..AES_BLOCKLEN
  PROVE  (\A m \in d..AES_BLOCKLEN : c[m] = MaxByte)
           <=> c[d] = MaxByte /\ \A m \in (d + 1)..AES_BLOCKLEN : c[m] = MaxByte
<1>1. \A m \in d..AES_BLOCKLEN : m = d \/ m \in (d + 1)..AES_BLOCKLEN
  OBVIOUS
<1>2. \A m \in (d + 1)..AES_BLOCKLEN : m \in d..AES_BLOCKLEN
  OBVIOUS
<1>3. d \in d..AES_BLOCKLEN
  BY Sizes
<1> QED
  BY <1>1, <1>2, <1>3

LEMMA GoesAroundByteByByte ==
  ASSUME NEW t \in Nat, t + 1 <= AES_BLOCKLEN, (MaxByte + 1)^t \in Nat \ {0},
         NEW v \in [Block -> Nat], GoesAround(v, t)
  PROVE  \E w \in [Block -> Nat] : GoesAround(w, t + 1)
<1>1. PICK d \in 1..AES_BLOCKLEN : d = AES_BLOCKLEN - t
  BY Sizes
<1>2. PICK P \in Nat \ {0} : P = (MaxByte + 1)^t
  OBVIOUS
<1>3. PICK M \in Nat : M = MaxByte
  BY Sizes
<1>4. (MaxByte + 1)^(t + 1) = P * (M + 1)
  <2>1. t \in 0..(AES_BLOCKLEN - 1)
    BY Sizes
  <2> QED
    BY <1>2, <1>3, <2>1, PowerAssumption
<1> DEFINE w == [c \in Block |-> c[d] * P + v[c]]
           all == P * (M + 1)
<1>5. \A c \in Block : c[d] \in 0..M
  BY <1>3, CtrAssumption
<1>6. w \in [Block -> Nat]
  <2>1. \A a \in 0..M, x \in Nat : a * P + x \in Nat
    OBVIOUS
  <2> QED
    BY <1>5, <2>1
<1>7. ASSUME NEW c \in Block
      PROVE  /\ w[c] \in 0..(all - 1)
             /\ w[Increment(c)] = IF w[c] = all - 1 THEN 0 ELSE w[c] + 1
             /\ w[c] = all - 1 <=> \A m \in d..AES_BLOCKLEN : c[m] = MaxByte
  <2>1. PICK a \in 0..M : a = c[d]
    BY <1>5
  <2>2. PICK x \in 0..(P - 1) : x = v[c]
    BY <1>2 DEF GoesAround
  <2>3. /\ v[Increment(c)] = IF x = P - 1 THEN 0 ELSE x + 1
        /\ x = P - 1 <=> \A m \in (d + 1)..AES_BLOCKLEN : c[m] = MaxByte
    <3>1. (AES_BLOCKLEN - t) + 1 = d + 1
      BY <1>1
    <3>2. (AES_BLOCKLEN - t + 1) = (AES_BLOCKLEN - t) + 1
      BY Sizes
    <3> QED
      BY <1>2, <2>2, <3>1, <3>2 DEF GoesAround
  <2>4. PICK full \in BOOLEAN : full <=> x = P - 1
    BY Zenon
  <2>5. Increment(c)[d] = IF full THEN (IF a = M THEN 0 ELSE a + 1) ELSE a
    BY <1>3, <2>1, <2>3, <2>4, ByteOfIncrement
  <2>6. w[c] = a * P + x
    BY <2>1, <2>2
  <2>7. w[Increment(c)] = Increment(c)[d] * P + v[Increment(c)]
    BY IncrementIsBlock
  <2> HIDE DEF w
  <2>8. /\ w[c] \in 0..(all - 1)
        /\ w[c] = all - 1 <=> a = M /\ x = P - 1
        /\ (a + 1) * P = a * P + (P - 1) + 1
    BY <2>6, ByteInFront
  <2> HIDE DEF all
  <2>9. w[Increment(c)] = IF w[c] = all - 1 THEN 0 ELSE w[c] + 1
    <3>1. CASE x = P - 1 /\ a = M
      <4>1. w[Increment(c)] = 0 * P + 0
        BY <2>3, <2>4, <2>5, <2>7, <3>1
      <4> QED
        BY <2>8, <3>1, <4>1
    <3>2. CASE x = P - 1 /\ a # M
      <4>1. w[Increment(c)] = (a + 1) * P + 0
        BY <2>3, <2>4, <2>5, <2>7, <3>2
      <4>2. (a + 1) * P + 0 = w[c] + 1
        BY <2>6, <2>8, <3>2
      <4> QED
        BY <2>8, <3>2, <4>1, <4>2
    <3>3. CASE x # P - 1
      <4>1. w[Increment(c)] = a * P + (x + 1)
        BY <2>3, <2>4, <2>5, <2>7, <3>3
      <4>2. a * P + (x + 1) = w[c] + 1
        BY <2>6
      <4> QED
        BY <2>8, <3>3, <4>1, <4>2
    <3> QED
      BY <3>1, <3>2, <3>3
  <2>10. w[c] = all - 1 <=> \A m \in d..AES_BLOCKLEN : c[m] = MaxByte
    BY <1>3, <2>1, <2>3, <2>8, FullFromHere
  <2> QED
    BY <2>8, <2>9, <2>10
<1>8. GoesAround(w, t + 1)
  <2>1. AES_BLOCKLEN - (t + 1) + 1 = d
    BY <1>1, Sizes
  <2> HIDE DEF w
  <2> QED
    BY <1>4, <1>7, <2>1 DEF GoesAround
<1> QED
  BY <1>6, <1>8

\* There is a number for every counter, below the number of counters, that
\* goes around as the counter is incremented.
LEMMA CountersGoAround ==
  /\ (MaxByte + 1)^AES_BLOCKLEN \in Nat \ {0}
  /\ \E v \in [Block -> Nat] : GoesAround(v, AES_BLOCKLEN)
<1> DEFINE S == {t \in Nat : t <= AES_BLOCKLEN =>
                               /\ (MaxByte + 1)^t \in Nat \ {0}
                               /\ \E v \in [Block -> Nat] : GoesAround(v, t)}
<1>1. 0 \in S
  <2> DEFINE v == [c \in Block |-> 0]
  <2>1. v \in [Block -> Nat]
    OBVIOUS
  <2>2. (MaxByte + 1)^0 = 1
    BY PowerAssumption
  <2>3. ASSUME NEW c \in Block
        PROVE  /\ v[c] \in 0..(1 - 1)
               /\ v[Increment(c)] = IF v[c] = 1 - 1 THEN 0 ELSE v[c] + 1
               /\ v[c] = 1 - 1 <=>
                    \A m \in (AES_BLOCKLEN - 0 + 1)..AES_BLOCKLEN : c[m] = MaxByte
    <3>1. v[c] = 0 /\ v[Increment(c)] = 0
      BY IncrementIsBlock
    <3>2. \A m \in (AES_BLOCKLEN - 0 + 1)..AES_BLOCKLEN : FALSE
      BY Sizes
    <3> QED
      BY <3>1, <3>2
  <2>4. GoesAround(v, 0)
    <3> HIDE DEF v
    <3> QED
      BY <2>2, <2>3 DEF GoesAround
  <2> QED
    BY <2>1, <2>2, <2>4
<1>2. ASSUME NEW t \in Nat, t \in S PROVE t + 1 \in S
  <2> SUFFICES ASSUME t + 1 <= AES_BLOCKLEN
               PROVE  /\ (MaxByte + 1)^(t + 1) \in Nat \ {0}
                      /\ \E w \in [Block -> Nat] : GoesAround(w, t + 1)
    OBVIOUS
  <2>1. (MaxByte + 1)^t \in Nat \ {0} /\ \E v \in [Block -> Nat] : GoesAround(v, t)
    BY <1>2, Sizes
  <2>2. (MaxByte + 1)^(t + 1) \in Nat \ {0}
    <3>1. t \in 0..(AES_BLOCKLEN - 1)
      BY Sizes
    <3>2. (MaxByte + 1)^(t + 1) = (MaxByte + 1)^t * (MaxByte + 1)
      BY <3>1, PowerAssumption
    <3>3. \A a \in Nat \ {0} : a * (MaxByte + 1) \in Nat \ {0}
      BY Sizes
    <3> QED
      BY <2>1, <3>2, <3>3
  <2> QED
    BY <2>1, <2>2, GoesAroundByteByByte
<1>3. Nat \subseteq S
  <2> HIDE DEF S
  <2> QED
    BY <1>1, <1>2, Induction
<1>4. AES_BLOCKLEN \in S
  BY <1>3, Sizes
<1> QED
  BY <1>4, Sizes

\* The counter of block k is k - 1 behind the first one, but for going around.
Behind(v, first, c, k, q) ==
  v[c] = v[first] + (k - 1) - q * (MaxByte + 1)^AES_BLOCKLEN

LEMMA CountersFollow ==
  ASSUME NEW first \in Block, NEW U, NEW n \in Nat, Drawn(first, U, n),
         NEW v \in [Block -> Nat], GoesAround(v, AES_BLOCKLEN)
  PROVE  \A k \in 1..Len(U) : \E q \in Int : Behind(v, first, U[k][2], k, q)
<1>1. U \in Seq(Nat \X Block) /\ Len(U) \in Nat
  BY DEF Drawn
<1>a. PICK all \in Nat \ {0} : all = (MaxByte + 1)^AES_BLOCKLEN
  BY CountersGoAround
<1> DEFINE T == {k \in 1..Len(U) : \A q \in Int : ~Behind(v, first, U[k][2], k, q)}
<1> SUFFICES ASSUME T # {} PROVE FALSE
  OBVIOUS
<1>2. T \subseteq Nat
  BY <1>1
<1>3. PICK k \in T : \A j \in T : k <= j
  <2> HIDE DEF T
  <2> QED
    BY <1>2, LeastNumber
<1>4. k \in 1..Len(U) /\ \A q \in Int : ~Behind(v, first, U[k][2], k, q)
  BY <1>3
<1>5. k # 1
  <2>1. U[1] = <<0, first>>
    BY <1>1, <1>4, SMTT(30) DEF Drawn
  <2>2. v[first] = v[first] + (1 - 1) - 0 * all
    OBVIOUS
  <2>3. Behind(v, first, U[1][2], 1, 0)
    BY <1>a, <2>1, <2>2 DEF Behind
  <2> QED
    BY <1>4, <2>3
<1>6. PICK j \in 1..(Len(U) - 1) : k = j + 1
  <2>1. k - 1 \in 1..(Len(U) - 1) /\ k = (k - 1) + 1
    BY <1>1, <1>4, <1>5
  <2> QED
    BY <2>1
<1>b. j \in 1..Len(U)
  BY <1>1
<1>7. PICK q \in Int : Behind(v, first, U[j][2], j, q)
  <2>1. ~(k <= j)
    BY <1>6
  <2>2. j \notin T
    <3> HIDE DEF T
    <3> QED
      BY <1>3, <2>1
  <2> QED
    BY <1>b, <2>2
<1>8. U[k][2] = Increment(U[j][2])
  BY <1>6 DEF Drawn
<1>9. PICK c \in Block : c = U[j][2]
  <2>1. U[j] \in Nat \X Block
    BY <1>1, <1>b
  <2> QED
    BY <2>1
<1>10. PICK x \in Nat : x = v[first]
  OBVIOUS
<1>11. v[c] = x + (j - 1) - q * all
  BY <1>a, <1>7, <1>9, <1>10 DEF Behind
<1>12. v[Increment(c)] = IF v[c] = all - 1 THEN 0 ELSE v[c] + 1
  BY <1>a DEF GoesAround
<1>13. CASE v[c] = all - 1
  <2>1. 0 = x + (k - 1) - (q + 1) * all
    <3>1. (q + 1) * all = q * all + all
      OBVIOUS
    <3> QED
      BY <1>6, <1>11, <1>13, <3>1
  <2>2. Behind(v, first, U[k][2], k, q + 1)
    BY <1>a, <1>8, <1>9, <1>10, <1>12, <1>13, <2>1 DEF Behind
  <2> QED
    BY <1>4, <2>2
<1>14. CASE v[c] # all - 1
  <2>1. v[c] + 1 = x + (k - 1) - q * all
    BY <1>6, <1>11
  <2>2. Behind(v, first, U[k][2], k, q)
    BY <1>a, <1>8, <1>9, <1>10, <1>12, <1>14, <2>1 DEF Behind
  <2> QED
    BY <1>4, <2>2
<1> QED
  BY <1>13, <1>14

LEMMA CountersNew ==
  ASSUME NEW first \in Block, NEW U, NEW n \in Nat, Drawn(first, U, n),
         NEW j \in 1..Len(U), NEW k \in 1..Len(U), U[j][2] = U[k][2]
  PROVE  (j - k) % ((MaxByte + 1)^AES_BLOCKLEN) = 0
<1>1. PICK all \in Nat \ {0} : all = (MaxByte + 1)^AES_BLOCKLEN
  BY CountersGoAround
<1>2. PICK v \in [Block -> Nat] : GoesAround(v, AES_BLOCKLEN)
  BY CountersGoAround
<1>3. PICK q \in Int : Behind(v, first, U[j][2], j, q)
  BY <1>2, CountersFollow
<1>4. PICK r \in Int : Behind(v, first, U[k][2], k, r)
  BY <1>2, CountersFollow
<1>5. j \in Int /\ k \in Int
  BY DEF Drawn
<1>6. PICK x \in Nat : x = v[first]
  OBVIOUS
<1>7. x + (j - 1) - q * all = x + (k - 1) - r * all
  BY <1>1, <1>3, <1>4, <1>6 DEF Behind
<1>8. j - k = (q - r) * all
  <2>1. (q - r) * all = q * all - r * all
    OBVIOUS
  <2> QED
    BY <1>5, <1>7, <2>1
<1>9. ((q - r) * all) % all = 0
  BY MultipleModulo
<1> QED
  BY <1>1, <1>8, <1>9

\* Each time through has drawn its key stream for a number of bytes.
LEMMA EachIsDrawn == CtrIInv => \A p \in 1..2 : \E n \in Nat : Drawn(nonce, used[p], n)
<1>a. SUFFICES ASSUME CtrIInv, NEW p \in 1..2 PROVE \E n \in Nat : Drawn(nonce, used[p], n)
  OBVIOUS
<1>1. PICK U : U = used[p]
  OBVIOUS
<1>2. /\ U \in Seq(Nat \X Block) /\ Len(plain) \in Nat /\ i \in Nat
      /\ stage \in {"off", "first", "second", "over"}
  BY <1>a, <1>1, TextLength DEF CtrIInv, CtrTypeOK
<1>3. CASE Len(U) = 0
  <2>1. Drawn(nonce, U, 0)
    BY <1>2, <1>3 DEF Drawn
  <2> QED
    BY <1>1, <2>1
<1>4. CASE Len(U) # 0
  <2>1. Drawn(nonce, U, i) \/ Drawn(nonce, U, Len(plain))
    <3>1. CASE p = 1
      BY <1>a, <1>1, <1>2, <1>4, <3>1 DEF CtrIInv, Stages, Progress
    <3>2. CASE p = 2
      BY <1>a, <1>1, <1>2, <1>4, <3>2 DEF CtrIInv, Stages, Progress
    <3> QED
      BY <3>1, <3>2
  <2> QED
    BY <1>1, <1>2, <2>1
<1> QED
  BY <1>3, <1>4

\* A counter comes again only after all others, on each way through the text.
THEOREM CountersAreTakenOnce == CtrSpec => []CountersAreNew
<1>1. CtrIInv => CountersAreNew
  <2>a. SUFFICES ASSUME CtrIInv, NEW p \in 1..2, NEW m \in DOMAIN used[p], NEW k \in DOMAIN used[p],
                        used[p][m][2] = used[p][k][2]
                 PROVE  (m - k) % ((MaxByte + 1)^AES_BLOCKLEN) = 0
    BY DEF CountersAreNew
  <2>1. PICK U : U = used[p]
    OBVIOUS
  <2>2. PICK n \in Nat : Drawn(nonce, U, n)
    BY <2>a, <2>1, EachIsDrawn
  <2>3. nonce \in Block
    BY <2>a DEF CtrIInv, CtrTypeOK
  <2>4. m \in 1..Len(U) /\ k \in 1..Len(U) /\ U[m][2] = U[k][2]
    BY <2>a, <2>1, <2>2, SMTT(30) DEF Drawn
  <2> QED
    BY <2>2, <2>3, <2>4, CountersNew
<1> QED
  BY <1>1, CtrInvariant, PTL
=============================================================================
