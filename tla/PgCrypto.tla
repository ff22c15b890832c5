------------------------------ MODULE PgCrypto ------------------------------
(***************************************************************************)
(* The SQL functions of pg_crypto.c: generate_aes_key, generate_aes_iv,    *)
(* aes_encrypt and aes_decrypt, as a session calls them one after another. *)
(* A call runs in steps, each of which may leave it by ereport(ERROR).     *)
(*                                                                         *)
(* A base64 text is what it decodes to, or "malformed" or "empty".  Memory *)
(* that a call reads behind what was decoded into it holds any bytes.  One *)
(* call of AES_CBC_* is one step: module Cbc shows that it is.             *)
(***************************************************************************)
EXTENDS CbcMode, SequencesExt

CONSTANTS
  AES_BLOCKLEN, AES_KEYLEN,   \* 16 and 16
  MaxByte,                    \* 0xFF
  KeyTexts, IvTexts,          \* base64 texts a caller may have
  DataTexts,                  \* and those it may pass for a ciphertext
  Texts,                      \* texts to encrypt: sequences of nonzero bytes
  MaxTail                     \* bound on the bytes strlen finds behind the data

Byte == 0..MaxByte

ASSUME PgCryptoAssumption ==
  /\ AES_BLOCKLEN \in Nat \ {0}
  /\ AES_KEYLEN \in Nat /\ AES_KEYLEN >= AES_BLOCKLEN
  /\ MaxByte \in Nat \ {0}
  /\ Block = [1..AES_BLOCKLEN -> Byte]
  /\ Key = [1..AES_KEYLEN -> Byte]
  /\ Texts \subseteq Seq(Byte \ {0})
  /\ MaxTail \in Nat

Empty     == [form |-> "empty", bytes |-> <<>>]
Malformed == [form |-> "malformed", bytes |-> <<>>]
Base64(s) == [form |-> "base64", bytes |-> s]

ASSUME Base64Assumption ==
  KeyTexts \cup IvTexts \cup DataTexts
    \subseteq {Empty, Malformed} \cup [form : {"base64"}, bytes : Seq(Byte)]

VARIABLES
  pc,       \* "idle" or the next step of the running call
  call,     \* name and arguments of the running or last call
  bin_key, bin_iv,
  buffer,   \* the bytes of bin_encrypt (aes_encrypt) or result (aes_decrypt)
  live,     \* blocks of memory the call has allocated and not freed
  outcome,  \* of the last call: a text, base64, null, error; None meanwhile
  sealed    \* the last successful aes_encrypt, or None (history)

vars == <<pc, call, bin_key, bin_iv, buffer, live, outcome, sealed>>

None  == [name |-> "none", form |-> "none", bytes |-> <<>>]
Error == [form |-> "error", bytes |-> <<>>]
Null  == [form |-> "null", bytes |-> <<>>]
Plain(s) == [form |-> "text", bytes |-> s]

Init ==
  /\ pc = "idle"
  /\ call = None
  /\ bin_key = <<>>
  /\ bin_iv = <<>>
  /\ buffer = <<>>
  /\ live = {}
  /\ outcome = None
  /\ sealed = None

-----------------------------------------------------------------------------

\* A call starts; what the last one left is gone with its memory context.
Begin(step, name, key, iv, data) ==
  /\ pc = "idle"
  /\ pc' = step
  /\ call' = [name |-> name, key |-> key, iv |-> iv, data |-> data]
  /\ bin_key' = <<>>
  /\ bin_iv' = <<>>
  /\ buffer' = <<>>
  /\ live' = {}
  /\ outcome' = None
  /\ UNCHANGED sealed

\* ereport(ERROR) does not return: whatever is live stays so.
Raise ==
  /\ pc' = "idle"
  /\ outcome' = Error
  /\ UNCHANGED <<call, bin_key, bin_iv, buffer, live, sealed>>

\* What base64_decrypt accepts: it refuses an empty text itself, and what
\* pg_b64_decode reports as malformed.
Decodes(b64) == b64.form = "base64"

-----------------------------------------------------------------------------

CallGenerate ==
  \E name \in {"generate_aes_key", "generate_aes_iv"} :
    Begin("generate", name, Empty, Empty, Empty)

\* random() % 0xFF.
RandomBytes == 0..(MaxByte - 1)

\* Fault: the key is taken for a string, up to a 0 in it or behind it.
Generated_String == UNION {[1..n -> RandomBytes \ {0}] : n \in 1..(AES_KEYLEN + MaxTail)}

\* The keys generate_key makes, which also serve as IVs.
Generated == [1..AES_KEYLEN -> RandomBytes]

\* generate_key, base64_encrypt and the return of generate_aes, which frees nothing.
Generate ==
  /\ pc = "generate"
  /\ \E s \in Generated : outcome' = Base64(s)
  /\ live' = {"bin_key", "result"}
  /\ pc' = "idle"
  /\ UNCHANGED <<call, bin_key, bin_iv, buffer, sealed>>

CallEncrypt ==
  \E key \in KeyTexts, iv \in IvTexts, text \in Texts :
    Begin("decode_key", "aes_encrypt", key, iv, Plain(text))

\* The ciphertexts a caller has: of its own or of the last aes_encrypt.
CallDecrypt ==
  \E key \in KeyTexts, iv \in IvTexts,
     data \in DataTexts \cup (IF sealed = None THEN {} ELSE {sealed.cipher}) :
    Begin("decode_key", "aes_decrypt", key, iv, data)

\* base64_decrypt of the key, the same in both functions.
DecodeKey ==
  /\ pc = "decode_key"
  /\ IF Decodes(call.key)
     THEN /\ bin_key' = call.key.bytes
          /\ live' = live \cup {"bin_key"}
          /\ pc' = "decode_iv"
          /\ UNCHANGED <<call, bin_iv, buffer, outcome, sealed>>
     ELSE Raise

DecodeIv ==
  /\ pc = "decode_iv"
  /\ IF Decodes(call.iv)
     THEN /\ bin_iv' = call.iv.bytes
          /\ live' = live \cup {"bin_iv"}
          /\ pc' = IF call.name = "aes_encrypt" THEN "pad" ELSE "decode_data"
          /\ UNCHANGED <<call, bin_key, buffer, outcome, sealed>>
     ELSE Raise

-----------------------------------------------------------------------------

\* Lengths round up to whole blocks.
Padded(len) ==
  (len \div AES_BLOCKLEN) * AES_BLOCKLEN
    + (IF len % AES_BLOCKLEN = 0 THEN 0 ELSE AES_BLOCKLEN)

\* A text filled up with zeros.
PaddedText(text) ==
  [n \in 1..Padded(Len(text)) |-> IF n <= Len(text) THEN text[n] ELSE 0]

\* The text is copied and filled up, in aes_encrypt.
Pad ==
  /\ pc = "pad"
  /\ buffer' = PaddedText(call.data.bytes)
  /\ live' = live \cup {"bin_encrypt"}
  /\ pc' = "encrypt"
  /\ UNCHANGED <<call, bin_key, bin_iv, outcome, sealed>>

\* The n bytes that are read from the start of s, whatever is behind s.
ReadsAs(s, n) ==
  {r \in [1..n -> Byte] : \A m \in 1..n : m <= Len(s) => r[m] = s[m]}

\* The blocks of a buffer of bytes, and the bytes of a buffer of blocks.
BlocksOf(bytes) ==
  [n \in 1..(Len(bytes) \div AES_BLOCKLEN) |->
     [m \in 1..AES_BLOCKLEN |-> bytes[(n - 1) * AES_BLOCKLEN + m]]]
BytesOf(blocks) ==
  [n \in 1..(Len(blocks) * AES_BLOCKLEN) |->
     blocks[((n - 1) \div AES_BLOCKLEN) + 1][((n - 1) % AES_BLOCKLEN) + 1]]

\* AES_init_ctx_iv and AES_CBC_encrypt_buffer.
Encrypt ==
  /\ pc = "encrypt"
  /\ \E key \in ReadsAs(bin_key, AES_KEYLEN), iv \in ReadsAs(bin_iv, AES_BLOCKLEN) :
       LET plain == BlocksOf(buffer)
       IN  \E cipher \in [DOMAIN plain -> Block] :
             /\ Encrypts(key, iv, plain, cipher, Len(plain))
             /\ buffer' = BytesOf(cipher)
  /\ pc' = "encode"
  /\ UNCHANGED <<call, bin_key, bin_iv, live, outcome, sealed>>

\* Fault: as many bytes are encoded as the text had.
Encoded_TextLength == SubSeq(buffer, 1, Len(call.data.bytes))
Encoded == buffer

\* base64_encrypt, which refuses an empty buffer only, aes_encrypt_free and the return.
Encode ==
  /\ pc = "encode"
  /\ IF Encoded = <<>>
     THEN Raise
     ELSE /\ outcome' = Base64(Encoded)
          /\ sealed' = [name |-> "sealed", key |-> call.key, iv |-> call.iv,
                        text |-> call.data.bytes, cipher |-> Base64(Encoded)]
          /\ live' = (live \cup {"result"}) \ {"bin_key", "bin_iv", "bin_encrypt"}
          /\ pc' = "idle"
          /\ UNCHANGED <<call, bin_key, bin_iv, buffer>>

-----------------------------------------------------------------------------

\* Fault: the length of the ciphertext is not looked at.
Torn_Never == FALSE

\* The test of the ciphertext's length.
Torn == Len(call.data.bytes) % AES_BLOCKLEN # 0

\* Fault: aes_decrypt leaves everything to the memory context.
Freed_Nothing(blocks) == blocks

\* What the ways out of aes_decrypt leave: they free the key and the IV.
Freed(blocks) == blocks \ {"bin_key", "bin_iv"}

\* base64_decrypt of the ciphertext; the return of NULL does not free it.
DecodeData ==
  /\ pc = "decode_data"
  /\ IF Decodes(call.data)
     THEN /\ buffer' = call.data.bytes
          /\ IF Torn
             THEN /\ live' = Freed(live \cup {"result"})
                  /\ outcome' = Null
                  /\ pc' = "idle"
             ELSE /\ live' = live \cup {"result"}
                  /\ pc' = "decrypt"
                  /\ UNCHANGED outcome
          /\ UNCHANGED <<call, bin_key, bin_iv, sealed>>
     ELSE Raise

\* AES_init_ctx_iv and AES_CBC_decrypt_buffer.
Decrypt ==
  /\ pc = "decrypt"
  /\ \E key \in ReadsAs(bin_key, AES_KEYLEN), iv \in ReadsAs(bin_iv, AES_BLOCKLEN) :
       LET cipher == BlocksOf(buffer)
       IN  buffer' = BytesOf([n \in DOMAIN cipher |->
                       XorWithIv(Dec(key, cipher[n]), Previous(iv, cipher, n))])
  /\ pc' = "terminate"
  /\ UNCHANGED <<call, bin_key, bin_iv, live, outcome, sealed>>

\* Fault: the text keeps the length of the buffer.
StringsAt_Whole(s) == {s}

\* The strings strlen may find at the start of the buffer: up to the first 0,
\* or on into the memory behind the buffer.
StringsAt(s) ==
  IF \E n \in DOMAIN s : s[n] = 0
  THEN {SubSeq(s, 1, n - 1) : n \in {m \in DOMAIN s :
          s[m] = 0 /\ \A l \in 1..(m - 1) : s[l] # 0}}
  ELSE {s \o tail : tail \in UNION {[1..n -> Byte \ {0}] : n \in 0..MaxTail}}

\* SET_VARSIZE(result, strlen(...)), aes_decrypt_free and the return.
Terminate ==
  /\ pc = "terminate"
  /\ \E s \in StringsAt(buffer) : outcome' = Plain(s)
  /\ live' = Freed(live)
  /\ pc' = "idle"
  /\ UNCHANGED <<call, bin_key, bin_iv, buffer, sealed>>

Next ==
  \/ CallGenerate
  \/ Generate
  \/ CallEncrypt
  \/ CallDecrypt
  \/ DecodeKey
  \/ DecodeIv
  \/ Pad
  \/ Encrypt
  \/ Encode
  \/ DecodeData
  \/ Decrypt
  \/ Terminate

Spec == Init /\ [][Next]_vars

-----------------------------------------------------------------------------

Steps == {"idle", "generate", "decode_key", "decode_iv", "pad", "encrypt",
          "encode", "decode_data", "decrypt", "terminate"}

Full(b64, n) == b64.form = "base64" /\ Len(b64.bytes) >= n

\* The variables stay in their domains, and what the generators return is
\* all of a key or an IV that aes_encrypt and aes_decrypt read from it.
TypeOK ==
  /\ pc \in Steps
  /\ bin_key \in Seq(Byte) /\ bin_iv \in Seq(Byte) /\ buffer \in Seq(Byte)
  /\ live \subseteq {"bin_key", "bin_iv", "bin_encrypt", "result"}
  /\ outcome.form \in {"base64", "text", "null", "error", "none"}
  /\ outcome.bytes \in Seq(Byte)
  /\ pc = "idle" /\ call.name \in {"generate_aes_key", "generate_aes_iv"} =>
       Full(outcome, AES_KEYLEN) /\ Full(outcome, AES_BLOCKLEN)

\* The CBC functions get whole blocks, as aes.h asks of their callers, and
\* aes_encrypt has all of its text in them.
WholeBlocks ==
  pc \in {"encrypt", "decrypt"} =>
    /\ Len(buffer) % AES_BLOCKLEN = 0
    /\ IsPrefix(call.data.bytes, buffer)

\* The last call decrypted the last ciphertext under its own key and IV.
Reopened ==
  /\ pc = "idle"
  /\ call.name = "aes_decrypt"
  /\ sealed # None
  /\ call.data = sealed.cipher /\ call.key = sealed.key /\ call.iv = sealed.iv
  /\ Full(call.key, AES_KEYLEN) /\ Full(call.iv, AES_BLOCKLEN)

\* aes_decrypt takes back aes_encrypt: it returns the text if zeros had to be
\* added to it, else a text that begins with it.
RoundTrip ==
  Reopened =>
    /\ outcome.form = "text"
    /\ IF Len(sealed.text) % AES_BLOCKLEN # 0
       THEN outcome.bytes = sealed.text
       ELSE IsPrefix(sealed.text, outcome.bytes)

\* NULL comes of aes_decrypt only, and only for a ciphertext that was cut off:
\* never for one that aes_encrypt returned, whatever the key.
NullIsTruncation ==
  pc = "idle" /\ call # None /\ outcome = Null =>
    /\ call.name = "aes_decrypt"
    /\ Len(call.data.bytes) % AES_BLOCKLEN # 0
    /\ sealed # None => call.data # sealed.cipher

\* A call of aes_encrypt or aes_decrypt that returns has freed the key, the
\* IV and its scratch buffer, and not the text it returns.
FreedOnReturn ==
  pc = "idle" /\ call # None /\ call.name \in {"aes_encrypt", "aes_decrypt"}
    /\ outcome # Error =>
    /\ live \subseteq {"result"}
    /\ outcome # Null => "result" \in live

\* pg_kmcb--1.0.sql:124: aes_decrypt decrypts, so that the text is back, of
\* whatever length it was.
RestoresText == Reopened => outcome = Plain(sealed.text)

=============================================================================
