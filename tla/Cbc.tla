--------------------------------- MODULE Cbc ---------------------------------
(***************************************************************************)
(* AES_CBC_encrypt_buffer and AES_CBC_decrypt_buffer (aes.c): both work in *)
(* place, block by block, and leave in the context what the next call has  *)
(* to go on with.  A client encrypts a message by any number of calls on   *)
(* consecutive pieces of its buffer, sets the IV again and decrypts it by  *)
(* any other pieces.                                                       *)
(*                                                                         *)
(* Lengths are in blocks: a caller has to pass multiples of AES_BLOCKLEN   *)
(* (aes.h), and aes_encrypt and aes_decrypt do.                            *)
(***************************************************************************)
EXTENDS CbcMode

CONSTANT Messages   \* the sequences of blocks a client may encrypt

ASSUME MessagesAssumption == Messages \subseteq Seq(Block)

VARIABLES
  phase,    \* "encrypt", "decrypt" or "done": what the client does
  busy,     \* a call is running
  key, iv,  \* what the client initialised the context with
  ctx_iv,   \* ctx->Iv
  buf,      \* the client's buffer
  pos,      \* blocks processed in this phase
  end,      \* pos at the end of the running call
  Iv,       \* the pointer Iv of the encryption: 0 for ctx->Iv, else a block of buf
  message,  \* the message (history)
  cipher    \* the ciphertext (history; empty before it is complete)

vars == <<phase, busy, key, iv, ctx_iv, buf, pos, end, Iv, message, cipher>>

-----------------------------------------------------------------------------

\* AES_init_ctx_iv.
Init ==
  /\ phase = "encrypt"
  /\ busy = FALSE
  /\ key \in Key
  /\ iv \in Block
  /\ ctx_iv = iv
  /\ message \in Messages
  /\ buf = message
  /\ pos = 0
  /\ end = 0
  /\ Iv = 0
  /\ cipher = <<>>

\* The head of either function, on the next n blocks (none is possible).
Call(n) ==
  /\ phase \in {"encrypt", "decrypt"}
  /\ ~busy
  /\ busy' = TRUE
  /\ end' = pos + n
  /\ Iv' = 0
  /\ UNCHANGED <<phase, key, iv, ctx_iv, buf, pos, message, cipher>>

\* Fault: the loops run once too often.
More_OneTooMany == pos <= end

\* There are blocks left for the running call.
More == pos < end

\* Fault: Iv is not moved on to the block just encrypted.
AtIv_Context == ctx_iv

\* The block Iv points to.
AtIv == IF Iv = 0 THEN ctx_iv ELSE buf[Iv]

\* One iteration of AES_CBC_encrypt_buffer.
EncryptBlock ==
  /\ phase = "encrypt"
  /\ busy
  /\ More
  /\ buf' = [buf EXCEPT ![pos + 1] = Enc(key, XorWithIv(@, AtIv))]
  /\ Iv' = pos + 1
  /\ pos' = pos + 1
  /\ UNCHANGED <<phase, busy, key, iv, ctx_iv, end, message, cipher>>

\* The end of AES_CBC_encrypt_buffer: the block Iv points to, which is the
\* context's own one when there was nothing to do, is kept for the next call.
ReturnEncrypt ==
  /\ phase = "encrypt"
  /\ busy
  /\ pos = end
  /\ busy' = FALSE
  /\ ctx_iv' = AtIv
  /\ UNCHANGED <<phase, key, iv, buf, pos, end, Iv, message, cipher>>

\* Fault: the client decrypts with the context as the encryption left it.
IvForDecryption_Forgotten == ctx_iv

IvForDecryption == iv

\* The message is encrypted: AES_ctx_set_iv, for the way back.
SetIv ==
  /\ phase = "encrypt"
  /\ ~busy
  /\ pos = Len(buf)
  /\ phase' = "decrypt"
  /\ ctx_iv' = IvForDecryption
  /\ pos' = 0
  /\ end' = 0
  /\ cipher' = buf
  /\ UNCHANGED <<busy, key, iv, buf, Iv, message>>

\* Fault: the ciphertext is saved after the block was overwritten.
storeNextIv_Late == buf'[pos + 1]

storeNextIv == buf[pos + 1]

\* One iteration of AES_CBC_decrypt_buffer: the ciphertext (storeNextIv) is
\* saved before the block is overwritten.
DecryptBlock ==
  /\ phase = "decrypt"
  /\ busy
  /\ More
  /\ buf' = [buf EXCEPT ![pos + 1] = XorWithIv(Dec(key, @), ctx_iv)]
  /\ ctx_iv' = storeNextIv
  /\ pos' = pos + 1
  /\ UNCHANGED <<phase, busy, key, iv, end, Iv, message, cipher>>

ReturnDecrypt ==
  /\ phase = "decrypt"
  /\ busy
  /\ pos = end
  /\ busy' = FALSE
  /\ UNCHANGED <<phase, key, iv, ctx_iv, buf, pos, end, Iv, message, cipher>>

\* The client has its message back.
Finish ==
  /\ phase = "decrypt"
  /\ ~busy
  /\ pos = Len(buf)
  /\ phase' = "done"
  /\ UNCHANGED <<busy, key, iv, ctx_iv, buf, pos, end, Iv, message, cipher>>

Next ==
  \/ \E n \in 0..(Len(buf) - pos) : Call(n)
  \/ EncryptBlock
  \/ ReturnEncrypt
  \/ SetIv
  \/ DecryptBlock
  \/ ReturnDecrypt
  \/ Finish

Spec == Init /\ [][Next]_vars

-----------------------------------------------------------------------------

\* The variables stay in their domains: the calls keep to the buffer.
TypeOK ==
  /\ phase \in {"encrypt", "decrypt", "done"}
  /\ busy \in BOOLEAN
  /\ key \in Key
  /\ iv \in Block
  /\ ctx_iv \in Block
  /\ message \in Seq(Block)
  /\ buf \in [1..Len(message) -> Block]
  /\ pos \in 0..Len(message)
  /\ end \in pos..Len(message) \/ ~busy
  /\ Iv \in 0..pos \/ phase # "encrypt"
  /\ cipher \in Seq(Block)

\* However the message is cut into calls, the blocks processed so far are
\* encrypted as by a single call over all of them, those behind untouched.
EncryptedSoFar ==
  phase = "encrypt" =>
    /\ Encrypts(key, iv, message, buf, pos)
    /\ \A m \in (pos + 1)..Len(message) : buf[m] = message[m]

\* Between calls the context holds the ciphertext block before the next one,
\* in both directions, although decryption has overwritten it in the buffer.
ContextCarriesOn ==
  phase # "done" /\ ~busy =>
    ctx_iv = Previous(iv, IF phase = "encrypt" THEN buf ELSE cipher, pos + 1)

\* However the ciphertext is cut into calls, the blocks processed so far are
\* the message again, those behind still the ciphertext.
RestoredSoFar ==
  phase # "encrypt" =>
    /\ \A m \in 1..pos : buf[m] = message[m]
    /\ \A m \in (pos + 1)..Len(message) : buf[m] = cipher[m]

\* The abstract specification, whose buffer changes when a phase is complete.
Abstract == INSTANCE CbcMessage WITH
  data <- IF phase = "encrypt" THEN message
          ELSE IF phase = "decrypt" THEN cipher ELSE buf

\* The calls implement one encryption and one decryption of the message.
ImplementsMessage == Abstract!Spec

=============================================================================
