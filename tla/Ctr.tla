---------------------------------- MODULE Ctr ----------------------------------
(***************************************************************************)
(* AES_CTR_xcrypt_buffer (aes.c) on a context that CBC was used with       *)
(* before: both modes keep their place in ctx->Iv.  The client sets an IV, *)
(* encrypts a text by calls on consecutive pieces of any length, sets the  *)
(* IV again and has it back by calls of the same function.                 *)
(*                                                                         *)
(* Lengths are in bytes.  What a call has left of the key stream is lost.  *)
(***************************************************************************)
EXTENDS Cbc

CONSTANTS
  AES_BLOCKLEN,  \* bytes in a block; a block is the tuple of its bytes
  MaxByte,       \* 255
  XorByte(_, _), \* the operator ^ on bytes
  Texts,         \* the texts a client may encrypt, sequences of bytes
  CtrAfter       \* bound: the blocks of CBC done before, at most

\* Blocks are sequences of bytes, and mixing a byte in twice cancels.
ASSUME CtrAssumption ==
  /\ AES_BLOCKLEN \in Nat \ {0}
  /\ MaxByte \in Nat
  /\ Block = [1..AES_BLOCKLEN -> 0..MaxByte]
  /\ Texts \subseteq Seq(0..MaxByte)
  /\ \A a, b \in 0..MaxByte :
       XorByte(a, b) \in 0..MaxByte /\ XorByte(XorByte(a, b), b) = a

\* The powers of the number of bytes up to the number of blocks.
ASSUME PowerAssumption ==
  /\ (MaxByte + 1)^0 = 1
  /\ \A n \in 0..(AES_BLOCKLEN - 1) :
       (MaxByte + 1)^(n + 1) = (MaxByte + 1)^n * (MaxByte + 1)

VARIABLES
  stage,   \* "off", "first" or "second" time through the text, or "over"
  calling, \* a call is running
  nonce,   \* what AES_ctx_set_iv was called with
  text,    \* the client's buffer
  plain,   \* its text (history)
  i, last, \* the bytes done, and where the running call stops
  bi,      \* the bytes used of the key stream block in buffer
  buffer,
  used     \* for each time through, the pairs of the place and the counter of
           \* every key stream block (history)

ctrVars == <<stage, calling, nonce, text, plain, i, last, bi, buffer, used>>

-----------------------------------------------------------------------------

\* Fault: a byte that overflows does not carry.
Increment_NoCarry(counter) ==
  [counter EXCEPT ![AES_BLOCKLEN] = IF @ = MaxByte THEN 0 ELSE @ + 1]

\* The counter one higher, its last byte being the lowest; behind the largest
\* one all bytes are 0.
Increment(counter) ==
  LET below == {n \in 1..AES_BLOCKLEN : \A m \in n..AES_BLOCKLEN : counter[m] = MaxByte}
  IN  [n \in 1..AES_BLOCKLEN |->
         IF n \in below THEN 0 ELSE IF n + 1 \in below \cup {AES_BLOCKLEN + 1}
           THEN counter[n] + 1 ELSE counter[n]]

CtrInit ==
  /\ Init
  /\ stage = "off"
  /\ calling = FALSE
  /\ nonce = iv
  /\ text = <<>> /\ plain = <<>>
  /\ i = 0 /\ last = 0
  /\ bi = AES_BLOCKLEN
  /\ buffer = iv
  /\ used = << <<>>, <<>> >>

\* AES_ctx_set_iv, when the client is through with CBC.
SetCounter(counter, t) ==
  /\ phase = "done"
  /\ Len(message) <= CtrAfter
  /\ stage = "off"
  /\ stage' = "first"
  /\ ctx_iv' = counter
  /\ nonce' = counter
  /\ text' = t
  /\ plain' = t
  /\ UNCHANGED <<calling, i, last, bi, buffer, used>>

\* The head of a call on the next n bytes.
Xcrypt(n) ==
  /\ stage \in {"first", "second"}
  /\ ~calling
  /\ calling' = TRUE
  /\ last' = i + n
  /\ bi' = AES_BLOCKLEN
  /\ UNCHANGED <<stage, nonce, text, plain, i, buffer, used, ctx_iv>>

\* Fault: the counter is incremented before it is encrypted.
KeyStream_Early(counter) == Enc(key, Increment(counter))

\* The block of key stream of a counter.
KeyStream(counter) == Enc(key, counter)

\* One round of the loop over the bytes.
XcryptByte ==
  /\ calling
  /\ i < last
  /\ LET again == bi = AES_BLOCKLEN
         at    == IF again THEN 0 ELSE bi
         pass  == IF stage = "first" THEN 1 ELSE 2
     IN  /\ buffer' = IF again THEN KeyStream(ctx_iv) ELSE buffer
         /\ ctx_iv' = IF again THEN Increment(ctx_iv) ELSE ctx_iv
         /\ used' = IF again THEN [used EXCEPT ![pass] = Append(@, <<i, ctx_iv>>)] ELSE used
         /\ text' = [text EXCEPT ![i + 1] = XorByte(@, buffer'[at + 1])]
         /\ bi' = at + 1
  /\ i' = i + 1
  /\ UNCHANGED <<stage, calling, nonce, plain, last>>

ReturnXcrypt ==
  /\ calling
  /\ i = last
  /\ calling' = FALSE
  /\ UNCHANGED <<stage, nonce, text, plain, i, last, bi, buffer, used, ctx_iv>>

\* Fault: the counter goes on where the first time through left it.
SetCounterBack_Forgotten ==
  /\ stage = "first" /\ ~calling /\ i = Len(text)
  /\ stage' = "second"
  /\ i' = 0
  /\ UNCHANGED <<calling, nonce, text, plain, last, bi, buffer, used, ctx_iv>>

\* AES_ctx_set_iv for the way back, and the end of it.
SetCounterBack ==
  /\ stage = "first" /\ ~calling /\ i = Len(text)
  /\ stage' = "second"
  /\ ctx_iv' = nonce
  /\ i' = 0
  /\ UNCHANGED <<calling, nonce, text, plain, last, bi, buffer, used>>

TextIsBack ==
  /\ stage = "second" /\ ~calling /\ i = Len(text)
  /\ stage' = "over"
  /\ UNCHANGED <<calling, nonce, text, plain, i, last, bi, buffer, used, ctx_iv>>

CtrStep ==
  \/ \E counter \in Block, t \in Texts : SetCounter(counter, t)
  \/ \E n \in 0..(Len(text) - i) : Xcrypt(n)
  \/ XcryptByte
  \/ ReturnXcrypt
  \/ SetCounterBack
  \/ TextIsBack

CtrNext ==
  \/ Next /\ UNCHANGED ctrVars
  \/ CtrStep /\ UNCHANGED <<phase, busy, key, iv, buf, pos, end, Iv, message, cipher>>

CtrSpec == CtrInit /\ [][CtrNext]_<<vars, ctrVars>>

-----------------------------------------------------------------------------

\* "Note any IV/nonce should never be reused with the same key" (aes.c:535):
\* however a text is cut, its key stream takes a counter again only after all
\* others, whichever bytes of it overflow on the way.
CountersAreNew ==
  \A pass \in 1..2 : \A m, n \in DOMAIN used[pass] :
    LET all == (MaxByte + 1)^AES_BLOCKLEN
    IN  used[pass][m][2] = used[pass][n][2] => (m - n) % all = 0

\* The same function takes itself back, provided the pieces of the second time
\* begin where they have to: with a key stream block at the same places.
SamePiecesRestore ==
  LET cuts(k) == [n \in DOMAIN used[k] |-> used[k][n][1]]
  IN  stage = "over" /\ cuts(1) = cuts(2) => text = plain

\* A counter and the ones behind it, count of them.
Successors(first, count) ==
  LET counter[n \in 0..count] == IF n = 0 THEN first ELSE Increment(counter[n - 1])
  IN  counter

\* A first time through whose pieces are whole blocks gives the bytes that a
\* single call over the text does: block n is mixed with the encrypted
\* (n-1)th successor of the IV.
WholePiecesAreOneCall ==
  LET whole == \A n \in DOMAIN used[1] : used[1][n][1] % AES_BLOCKLEN = 0
      keystream(n) ==
        Enc(key, Successors(nonce, Len(plain))[(n - 1) \div AES_BLOCKLEN])
           [((n - 1) % AES_BLOCKLEN) + 1]
  IN  stage = "first" /\ whole =>
        \A n \in 1..Len(text) :
          text[n] = IF n <= i THEN XorByte(plain[n], keystream(n)) ELSE plain[n]
=============================================================================
