# pg_kmcb in TLA+

pg_kmcb is a PostgreSQL extension in C: a dozen SQL functions that cut, compare,
encrypt, round, draw, sum and number things. This directory holds a TLA+ model of its
algorithms, the TLC configurations that check the model on small instances, and
proofs by TLAPS for instances of any size.

Contents: [inventory](#inventory) · [modules](#modules-and-the-code-they-stand-for) ·
[runs](#runs) · [bounds](#bounds) · [fairness and deadlock](#fairness-and-deadlock) ·
[proofs](#proofs) · [what the model disagrees with](#disagreements) ·
[not modelled](#not-modelled)

## Inventory

Every SQL function is a C function `Datum f(PG_FUNCTION_ARGS)` in a `pg_*.c` file
(the wrapper: arguments, checks, `ereport`, the result's header) around an
algorithm in an `se_*.c` file or in one of the two files taken over from elsewhere
(`aes.c`, `simil.c`). A backend of PostgreSQL is one process with one thread; the
extension starts no thread, opens no file and locks nothing, and keeps state between
two calls in one place only: the function context of a set-returning function. The
components interact by calls. What makes the code hard is therefore not concurrency
but:

- **bytes taken for characters**: texts are UTF-8, have a length and no
  terminator, and the code walks them by lead bytes, or hands them to `strlen`;
- **sizes computed before the data**: one allocation whose size comes from
  unsigned arithmetic, then loops that write into it;
- **in-place, order-dependent algorithms**: two rows that change places, a table
  walked backwards, CBC in place with a context that outlives a call, the
  rounds of a cipher that have to be undone in the reverse order;
- **ways out**: `ereport(ERROR)` does not return, `goto SE_ERROR_CLEAR` does, and
  each leaves other blocks of memory behind;
- **boundary values of numeric parameters**: casts of what does not fit, a power of
  ten that is no number, a negative count that becomes unsigned;
- **one call cut into many**: a scan whose rows are fetched one call at a time, with
  other calls and other scans in between, any of which may end all of them.

| Component | Code | State while it runs | Operations | Called by | Correct when |
|---|---|---|---|---|---|
| windows of characters, `split_string` | `pg_string.c`, `se_string.c`, `se_std.c` | counters, offsets into the text and into one block | check, count, allocate, measure a window, copy it | SQL | reads stay in the text, writes in the block, the array is the one documented |
| common text, `string_same` | `pg_string.c`, `simil.c` | table of lengths, position of the walk, result block | fill a cell, walk up, left or diagonally | SQL | the result is a *longest common* subsequence; the walk ends; it stays in its block |
| similarity, `string_simil` | `pg_string.c`, `simil.c` | two rows of the same table | exchange arguments, fill a cell, exchange rows | SQL | two rows give what the whole table would; the quotient is in 0..1 |
| AES-128 | `aes.c`, `aes.h` | round keys, a 4x4 state | key expansion, rounds, inverse rounds | CBC, CTR, ECB | the tables are the S-box, the rounds give the documented ciphertexts and are invertible |
| CBC | `aes.c` | the context's IV, a buffer changed in place | init, set IV, encrypt, decrypt | `aes_encrypt`, `aes_decrypt` | a message cut into calls is encrypted as a whole, and comes back under any other cut |
| CTR | `aes.c` | the context's IV as a counter, a block of key stream | xcrypt | nobody | no counter is used twice; the same pieces take a text back |
| SQL functions of AES | `pg_crypto.c` | key, IV, buffer, blocks allocated | generate, decode, pad, encrypt, encode, decrypt, terminate | SQL | decryption takes encryption back; errors, NULLs and memory as the ways out promise |
| `generate_rand_string` | `pg_rand.c`, `se_rand.c` | output block and position | choose a class, write a character | SQL | only kinds asked for; as many characters as asked for, in the block |
| `round_v1`, `round_v2`, text forms | `pg_round.c`, `se_round.c` | none | scale, round, unscale | SQL | half up, half even |
| `byte_units` | `pg_function.c`, `se_round.c` | none | choose a unit, scale, round, print | SQL | the text is near the size; the unit is the largest in it |
| serial numbers, dates | `pg_datetime.c`, `se_datetime.c` | the set-returning function's context | split, join, day of year to date | SQL | the parts join to the number; the date is the day of the year; a scan sends the rows asked for |
| `generate_crc32_v1` | `pg_string.c`, `se_std.c` | the remainder | one table look-up per byte | SQL | the loop divides by the polynomial |
| `hostname` | `pg_function.c` | none | `gethostname` | SQL | — |
| unused helpers | `se_string.c`, `se_std.c`, `se_rand.c` | — | — | nobody | — |

`PROJECT.json` lists the same components with their status, and under `hazards`
what can go wrong in this code that a test would hardly reach, each at its line
with the property that would show it.

## Modules and the code they stand for

```
LCS ─────────┬── Same ──── MCSame         CbcMode ──┬── CbcMessage
             ├── Simil ─── MCSimil                  ├── Cbc ─── Ctr ─┬ MCCbc
             ├── SameProofs                         │                └ CbcProofs
             └── SimilProofs                        └── PgCrypto ─┬ MCPgCrypto
                                                                  └ PgCryptoProofs
SplitString ─┬── MCSplitString            ByteXor ─┬─ AesField ── AesBlock ─┬─ MCAes
             └── SplitStringProofs                 │                        └─ AesProofs
Backend ─┬── SerialNumber ──┐                      │
         ├── Rounding ──────┼── Session ──┬── MCSession
         ├── RandString ────┤             └── SessionProofs
         └── Crc32 ─────────┘                      │
               └───────────────────────────────────┘

Facts (LCS, ByteXor): lemmas for all of the proof modules but PgCryptoProofs
```

An action is one statement group of the code between two places where control can
go somewhere else: a loop iteration, a test with its early return, a call that can
raise. Variables have the names of the C variables; pointers are offsets relative
to the block they point into, so that "in bounds" can be said. An operator whose
name has a suffix after an underscore and whose comment begins with *Fault* is a
slip the code might have had; no specification uses it, it is there to show that
the properties notice.

**`SplitString`** — `split_string` and `split_string_v0` with
`utf8_character_count` and the length table. The code asks of a byte nothing but
its table entry, so a byte *is* its entry: a lead byte of a three-byte character
is 3, continuation bytes are 1. The byte that happens to follow the text in memory
(`stray`) is any byte. The text itself ends with a whole character, as the backend
sees to (`BoundaryOf` has the places where characters begin). `CheckSplitSize`, `TestEmpty`, `CountCharacter`, `Allocate`,
`BeginWindow`, `MeasureCharacter`, `CopyWindow`, `Return` follow the statements in
their order; `Allocate` computes in `uint32` (`% Modulus`), and `palloc`'s limit is
an early end. The early return of NULL leaves the count of windows unset in the
caller: what `construct_array` then makes of it is a choice between an empty array,
an error and a read through the null pointer.

**`LCS`** — what a longest common subsequence of two sequences is (`Common`,
`IsLCSLength`), by the existence of increasing embeddings, with no recursion and
no table. It is the specification `Same` and `Simil` are held to.

**`Same`** — `same` and `string_same`: `Enter` (empty test or the allocations),
`FillCell`, `NextRow`, `StartTrace`, the three branches of the walk `StepUp`,
`StepLeft`, `TakeByte`, and `Finish` with `strlen`. Memory of `palloc` that nobody
wrote holds `Junk`, so that reading it shows. An empty argument ends in `"null"`.

**`Simil`** — `string_simil` and `simil`: the exchange of the arguments, the rows
`previous` and `next`, their exchange after each byte, and the result as a
fraction. Rounding the quotient to a float is left out.

**`AesField`** and **`AesBlock`** — the tables, `xtime`, `Multiply`, the four
transformations and their inverses on a state of 16 bytes; `KeyExpansion` word by
word, `Cipher` and `InvCipher` round by round. These are the real tables and
sizes, for the AES128 build that `aes.h` selects. Beside them stand the definitions they
are to agree with: `Product` multiplies polynomials over GF(2), `InverseOf` chooses the
byte with product 1, `Affine` is the bit matrix of the S-box (`FieldIsAsDefined`).

**`CbcMode`** — what CBC means for any block cipher: `Encrypts(key, iv, plain,
cipher, n)`. Of the cipher it assumes only that `InvCipher` takes back `Cipher` and
that mixing a block in twice cancels (`CbcAssumption`). `AesProofs` shows the first of
AES-128, as an invariant of its rounds, and the second, `XorWithIv`, is in the bytes' case `XorLaws` of `Facts`.

**`Cbc`** — `AES_init_ctx_iv`, `AES_ctx_set_iv`, `AES_CBC_encrypt_buffer` and
`AES_CBC_decrypt_buffer`, block by block and in place, under a client that cuts its
message into calls as it likes, sets the IV again and decrypts by other cuts. `Iv`
is the pointer of the encryption loop, with 0 for the context's own IV.

**`Ctr`** — `AES_CTR_xcrypt_buffer` byte by byte, on top of `Cbc`: the two modes share
`ctx->Iv`, so the client that encrypts in CTR mode first used CBC on the same context.
`Increment` is the carry from the last byte to the first, `SetCounter` and
`SetCounterBack` are `AES_ctx_set_iv`, and a call on a piece of any length drops what is
left of the key stream. Nothing in the repository calls the function; the client is
the one `aes.h` describes. `used` is a history of which counter was taken where.

**`CbcMessage`** — the abstract specification: one step encrypts the message, one
step takes it back. `Cbc` implements it; the refinement mapping lets the abstract
buffer change when a phase of the client is complete.

**`PgCrypto`** — `generate_aes_key`, `generate_aes_iv`, `aes_encrypt`,
`aes_decrypt` as a session calls them one after another. A base64 text is what it
decodes to, or one that `pg_b64_decode` refuses, or empty. A call runs in steps
(decode the key, the IV, the data; pad; encrypt or decrypt; encode or terminate),
each of which may raise. `live` holds the blocks allocated and not freed. Reading
past what was decoded, as a short key or `strlen` on an unterminated buffer does,
yields any bytes. A call of the CBC functions is one step here, which `Cbc` and its
proofs justify.

**`Backend`** — what the four modules below share: one call at a time (`call`), the
outcomes a call can have, and C's integers (`Wrap`, `Quot` towards zero, `Cast` of a
fraction, which is the least number when out of range, as on x86-64).

**`SerialNumber`** — `pg_datetime.c` and `se_datetime.c`. `yy_doy` and `id` split a number
as the code does, through a power of ten that may be 0 or out of range;
`generate_date_ex` seeks the month, `date2j` and `IS_VALID_JULIAN` are PostgreSQL's.
The set-returning function is a state machine: `get_yydoy_id_from_sn_first` makes a
context, `get_yydoy_id_from_sn_next` sends a row or ends the scan, `ShutDown` is the
executor that wants no more rows, and `Raise` closes every open scan.

**`Rounding`** — `pg_round.c`, `byte_units` of `pg_function.c`, and `se_round.c`. A
float8 is a fraction with a power of two below; `Scaled` is multiplication, cast and
rest. `current_index` is the quotient of logarithms *as computed*: one and two below
the sixth power of 1024 it is already 6, since `logl` in 80 bits cannot tell these sizes
from the power, and for sizes without a logarithm it is anything.
`Printed` is what `snprintf` makes of the rounded number.

**`RandString`** — `pg_rand.c` and `se_rand.c`: check and exchange of the lengths, the
draw of a length, then one `WriteCharacter` per character: a kind by the flag, a code
point by the kind, its UTF-8 bytes. `RANGE_RANDOM` is the macro's arithmetic on what
`random()` returns, one of the constant `Randoms`.

**`Crc32`** — `generate_crc32_v1` and `generate_crc32` with all 256 entries of the table,
byte by byte over what `strlen` finds: the text and what lies behind it up to a zero.
The division it stands for is defined bit by bit (`ShiftBit`, `Registers`).

**`Session`** — composes the four: between two rows of a scan lie any other calls, and
an error in any function closes the scans.

## Runs

| Run | Question | What it shows |
|---|---|---|
| `split_string` | Are reads, writes and the array right for every `split_size` from -1 to 7? | `ReadsInBounds`, `CopyInBounds`, `WindowsOfCharacters` hold for documented parameters, whatever byte follows the text |
| `split_string_wrap` | Does one block always hold all? | no: the `uint32` size wraps |
| `same` | Is the result a longest common subsequence, and is there always one? | yes for all pairs; the table is right cell by cell (`TableIsLCS`), no round of the walk is without a branch (`NeverSpins`), the block is filled without a gap (`ResultInBlock`), the call returns (`Returns`) |
| `same_torn` | Is the result made of characters? | no: two characters that share a byte have that byte in common |
| `simil` | Do two exchanged rows give the ratio? | yes; stale cells of the old row are never read (`RowsAreLCS`), the ratio is that of the common length |
| `aes` | Are the documented ciphertexts computed, and are tables and field arithmetic right? | the four vectors at the head of `aes.c` and both blocks of the example in `pg_scrypto.md`; each inverse round is where the round it undoes was; on every state passed through, among them all 256 bytes, S-box and `Multiply` agree with the definitions of S-box and field |
| `cbc` | Does cutting a message into calls change anything, in CBC and then in CTR mode? | not in CBC, either way, and `Cbc` implements `CbcMessage`. In CTR only when a piece is no whole number of blocks: `WholePiecesAreOneCall`, and `SamePiecesRestore` says that pieces which begin their blocks at the same places take a text back. `CountersAreNew`: no counter is taken twice before all were |
| `pg_crypto` | Any sequence of calls with good and bad arguments: is the text taken back, is NULL only for cut-off ciphertexts, is memory freed? | yes, with the reservation in `RoundTrip`: a text that fills its blocks comes back as a *prefix* of the result |
| `pg_crypto_aligned` | Does every text come back? | not one that fills its blocks |
| `session` | Any calls of the numeric and text functions between the rows of two scans: is each result right? | `PartsJoin`, `DateIsDayOfYear` against a calendar of its own, `ScanSendsItsRows`; `HalfUp` and `HalfEven` against the rules of `pg_round.md`; `ShownIsNear` of `byte_units`; `KindsAsAskedFor`, by which a flag lets no kind in and leaves none out, and `CharactersAsCounted`, which reads the text by lead bytes as `split_string` does; `CrcIsOfTextAndStray`, the table against a division bit by bit, over the text and what lies behind it |
| `byte_units_decimals` | Has a size the decimals of its unit? | not one that needs no rounding: 2.5 GB is shown as 2GB |
| `round_negative` | Is the result of `round_v1` the nearest number? | not for a negative one |

The reservation in `RoundTrip` and the run `pg_crypto_aligned` are two sides of one
fact: zeros are added only when the length is no multiple of the block, and
`aes_decrypt` looks for a zero byte to learn the length.

For every property of a passing run `PROJECT.json` names a mutant: a mapped
definition and the fault that is put in its place, under which TLC finds the
property violated in the run's own configuration.

## Bounds

- *Texts of `SplitString`*: up to 4 characters of 1, 3 or 4 bytes, every
  `split_size` from -1 to 7. A window reaches over at most 6 characters, and the
  code distinguishes "not more characters than the window" from "more": four
  characters have windows of every kind, widths that differ make offsets in bytes
  and in characters different numbers. `Modulus` 1024 stands for 2^32 and
  `MaxAllocSize` 255 for 1 GB, in the same order and ratio as there; one text of
  31 one-byte characters reaches both, the refusal by `palloc` and the wrap.
- *Strings of `Same` and `Simil`*: all pairs up to 4 bytes over 2 letters, the
  empty one included. Every branch of the walk and both orders of its tests that
  matter need at most 3 bytes. The length is no restriction of the proofs.
- *`Cbc`*: up to 3 blocks of 4 values (pairs of bits), two keys, every IV. Three blocks are a first,
  a middle and a last one; with them every pattern of calls occurs, calls of no
  block included. The proofs hold for any number, cipher and block.
- *`Ctr`*: the same blocks, a byte being a bit, so that counters overflow in every byte
  and from the last to the first; texts of 0, 3 and 5 bytes under every cut, which are
  no whole blocks and more than there are bytes in a counter's low byte. `CtrAfter` 1: at
  most one block of CBC goes before.
- *`PgCrypto`*: blocks and keys of 2 bytes, bytes of 2 bits, texts of 0 to 4 bytes:
  empty, short, exact, one over, two blocks. Key and IV texts that are good,
  short, long, empty and malformed. `MaxTail` bounds at one byte what `strlen` finds
  behind a buffer: a longer tail differs in its length only. Calls follow one
  another without a bound.
- *AES*: no bound on the code's side. The vectors are the ones the repository
  gives and 16 blocks with every byte, so tables and field are checked in full.
- *Widths in `Session`*: TLC's integers have 32 bits, so the C types are narrower, in
  the order they have: `MaxInt64` 2^29-1, `MaxInt32` 2^23-1, `MaxUInt32` 3 (the counts of
  rows), `Digits` 8 for the 18 digits of a power of ten in an int64, `FormatLimit` 3 for
  32, `PowLimit` 4 for the 308 of a double, `Kilo` 4 for 1024, `MaxCount` 8 for 0x8000.
  Every comparison with one of them has arguments on both sides.
- *Serial numbers*: both ends of years, leap years and months, day 0 and days 366 and
  above, negative numbers, years before 4714 BC, ends of int32 and int64; precisions
  -1, 0, 2, the largest and one more. Two scans, which are interchangeable, with 0, 2
  and a negative count of rows.
- *Roundings*: eighths from -1.5 to 5.5 and a few finer fractions, so that ties with
  even and odd digits and rests on both sides of a tie occur at every precision from
  -1 to 2; numbers that overflow the cast. *Sizes*: all of the first two units, both
  sides of the others, and the ones from four to one below the sixth power.
- *Random strings*: all flags with one more on each side; up to two characters. The
  numbers of `random()` are 0 and one that is the last value of every range but one, so
  that ranges are drawn at their ends, which are where a kind of character could be
  left. The proofs have any set of numbers.
- *Check sums*: texts whose bytes look up every entry of the table.

## Fairness and deadlock

Only `Same` states fairness, weak fairness of its `Next`: the function runs on the
backend's only thread until it returns, so a step that can be taken is. What the
property `Returns` excludes is the loop of the walk having no branch to take. (What of
it is safety is proved: `NeverSpins`, and `EveryStepGoesOn`, by which no step can be
taken for ever.)

Nothing else is claimed to happen: a client may stop calling at any time, and an
executor may drop a scan.

The procedures end; their runs say `CHECK_DEADLOCK FALSE`. `PgCrypto` and `Session` are
sessions, which can always make another call, and are checked for deadlock: in every
state an outcome can be taken or a call can go on.

## Proofs

All theorems are checked by `tlapm` to the last leaf. None assumes anything about
the size of an instance; the assumptions are the named `ASSUME`s of the modules.

- **`Facts`**. What the others rest on. *Numbers*: `QuotientIs` (the quotient is the only
  number that leaves a rest below the divisor) and its kin. *Induction*, stated with sets
  because the library's theorems take predicates: `LeastNumber`, `Induction`, and
  `IteratesExists`, by which a recursive function has the values its definition says.
  *Bytes*: `Xor` adds bit by bit (`XorBits`), bytes with the same bits are the same
  (`SameBits`), hence `XorLaws`. *Common subsequences*: `LCSRecurrence`, the
  three-neighbour recurrence of the code yields the length of a longest one; it rests on
  lemmas about embeddings, how one of a longer prefix is cut down to one of a shorter and
  how a common element extends it.
- **`SplitStringProofs`** (`SplitAssumption`). `TypeCorrect`: the unsigned variables
  never get a negative value, so that no subtraction of the code wraps for the
  parameters it is made with. `CopiesStayInTheBlock`: `CopyInBounds` for every text,
  every positive `split_size` and every modulus the size does not wrap at. The
  strengthening says that before window `i` at most `i * (4 + 6 * split_size)` bytes are
  written, and within a window that the bytes measured are at most 6 for each of its `j`
  characters. `ReadsStayInTheText` and `WindowsAreOfCharacters` need that counting and
  measuring go from one beginning of a character to the next: the invariant `Following`
  says so of both loops, and that the counter is the number of beginnings passed, a
  fact about the cardinality of a set that grows by one element a step. That a text
  ends with a whole character is what keeps the last read in it.
- **`SameProofs`** (`SameAssumption`). The invariant joins the table (`TableIsLCS`, from
  the recurrence) with the walk: the bytes written so far are the ones from `i` on,
  they are embedded behind row `r` and column `c`, and `i` is the cell at `(r, c)`.
  `NeverSpins` follows from the table alone: a cell that differs from both neighbours
  is one more than the diagonal. At the end `i` is 0, so the bytes written are all
  of the announced length: `ResultInBlock`, `ResultIsCommon`, `ResultIsLongest`.
  The table is needed in the invariant because none of the three is inductive: they
  speak of the end of the walk only. `EveryStepGoesOn`: each step leaves less to do, in
  the order of phase, rows and columns, which has no infinite descent.
- **`SimilProofs`** (`SimilAssumption`). `previous` is row `j` of the table and `next` is
  row `j + 1` up to column `k`; whatever else `next` holds after the exchange is
  not read. `WithinUnit` and `SimilarityIsLCS` follow from the last row.
- **`CbcProofs`** (`CbcAssumption`, `MessagesAssumption`). The invariant says what the
  context holds *inside* a call (in the encryption, through the pointer `Iv`), which
  `ContextCarriesOn` says between calls only. From it `EncryptionResumes`, `ContextRight`,
  `DecryptionRestores`, and `CallsImplementMessage`: every step of `Cbc` is a step of
  `CbcMessage` under the mapping, or a stutter. `CbcIsKept` and `CbcStillImplements` are
  the same for `CtrSpec`, where the context is used in CTR mode once the CBC part of
  the client is over.
  In CTR mode (`CtrAssumption`, `PowerAssumption`) the invariant is `CtrIInv`: the positions at which key
  stream blocks were drawn and their counters (`Drawn`), the bytes processed as the mix
  of text and key stream (`Mixes`), and how far each of the two passes is (`Stages`,
  `Progress`). Every counter is the successor of the one before it in its pass, so the
  same positions give the same key stream (`SamePiecesTakeBack`), whole blocks give the
  positions of one call (`WholePiecesJoin`), and a counter comes back only after going
  around through all the others (`GoesAround`, for `CountersAreTakenOnce`), with the
  carry over any number of bytes.
- **`AesProofs`** (`VectorsAssumption`). `InvCipherTakesBack`: for
  every key and block `InvCipher` is, round by round, where `Cipher` was, and ends with
  the block, which is the first half of `CbcAssumption`. The invariant keeps, for every
  round encrypted, that the state is the round before, transformed (`Traced`); then each
  transformation is taken back: the table by the other one (`TablesTurned`). For
  `MixColumns` this is algebra: `xtime` is linear over
  `Xor` (`XtimeOfXor`, by the bits), the products with 9, 11, 13 and 14 are sums of the
  powers of x, and what remains of the product of the two matrices cancels in pairs.
  `FieldIsDefined`: on every state, `sbox` is the affine map of the inverse and
  `Multiply` the product of the field. The inverse is *chosen*, as the only byte with
  product 1, so each of its 256 values is a search; the proof goes by X+1, which
  generates the field. `powerRows` lists its powers and `logRows` the exponents; entry
  by entry the provers check that each is the one before times X+1 (`NextPower`) and
  that the two lists are inverse (`PowerIs`, `ExponentIs`). A product of powers is
  the power of the sum of the exponents, around 255 (`ProductOfPowers`, by induction
  with `ProductTripled`), so that power n has power 255 - n for its only inverse
  (`InverseIs`). The affine map is then checked the other way round, where it has half
  the terms (`AffineIs`). `MultiplyIsProduct` is Horner's rule for four factors.
- **`PgCryptoProofs`** (`CbcAssumption`, `Base64Assumption`, `PgCryptoAssumption`). The
  properties speak of finished calls, so the invariant says what each step hands on:
  which call can be in which step (`CallShape`), what it has allocated (`LiveShape`) and
  what is in its buffer (`BufferShape`). The central relation is `Seals(key, iv, text,
  bytes)`: these bytes are what the padded text encrypts to. The last ciphertext
  seals its text (`SealedShape`); when a decryption has its key and IV (`Fits`), the
  buffer before `Terminate` is the padded text again, by `OpensWhatIsSealed`: a full key
  can be read in one way only, cutting bytes into blocks takes joining back, and each
  block is taken back by `CbcAssumption`. `RoundTrip` is then a statement about the first
  zero of a padded text. `BlocksAreWhole`, `NullMeansTruncation` and `ReturnFrees` come
  from the other parts. `TypeCorrect` includes that a generated key is all the bytes the
  cipher reads, as key and as IV, which is what `RoundTrip` asks of its arguments.
- **`SessionProofs`** (`WidthAssumption`, `SerialAssumption`, `YearAssumption`,
  `RoundingAssumption`, `RandAssumption`, `CrcAssumption`). `PartsJoin` rests on the
  arithmetic of `Quot` and `Wrap` and holds for every width. `ScanSendsItsRows` needs, for every scan, that the rows sent are the
  calls counted and the maximum is the argument as an unsigned number; the other
  functions of the session change no scan but by closing all of them.
  What one step computes is kept by `Computed`: an outcome stays the function of its
  arguments until the client takes it. From it follow `DatesAreDaysOfYears` (the loop over
  months is undone by `DaysBeforeMonth`, and PostgreSQL's `date2j` moves by one a day),
  `RoundingIsHalfUp`, `RoundingIsHalfEven` (the digits of a quotient behind its point are
  those of the rest) and `SizesAreShownNear` (the unit is the largest in the size, and
  rounding, decimals and digits lose at most half of a last place).
  `RandIInv` says of a random text being drawn that it is whole characters of the
  kinds asked for, as many as are counted; a text read by its lead bytes finds exactly
  those (`TextIsRead`), hence `KindsAreAskedFor` and `CharactersAreCounted`. That no kind
  is left out needs only that `random()` returns something (`SomethingIsDrawn`).
  `CrcIInv` says of a check sum being computed that the register is what the division
  bit by bit leaves of the bytes done. A step of the division is linear (`ShiftBitOfXor`),
  so the byte that is looked up and the three that move down can be divided apart
  (`StepDivides`): the first is in the table, and a register whose last byte is 0 only
  moves down (`EightMoves`). Hence `CheckSumsAreRemainders`. That the first is in the
  table, for all 256 entries, is `TableDivides`: a single 1 on its way down passes the
  entries of the powers of 2 (`Way`, `PowersAreLeft`), and every other entry is the sum
  of the entries of its row and its column (`HighAdds`, `LowAdds`, bit by bit), as the
  division, being linear, requires (`LeftOfSum`).

Only model-checked:

- `Returns` of `Same`, which is liveness;
- `DocumentedCiphertext`, which is about six given blocks;
- what `RoundingAssumption`, `SerialAssumption` and `PowerAssumption` say of powers, which
  the provers do not know: 10^p is a number, x^(n+1) is x times x^n.

All other assumptions are about the constants: their types, the order of the widths,
texts that contain no 0, a cipher whose inverse takes it back.

## Disagreements

Five places where the model, read off the code, does not do what a comment, a message
or a document says; each has a run with the trace.

1. `se_string.c:28`: the size of the one block wraps in `uint32`
   (`split_string_wrap`). With `split_size` 6 some 107 million characters reach it.
2. `simil.c:76`: bytes are compared and characters meant (`same_torn`).
3. `pg_crypto.c:209`: the text of a ciphertext without padding is not
   terminated (`pg_crypto_aligned`).
4. `se_round.c:117`: a size that needs no rounding loses its decimals
   (`byte_units_decimals`).
5. `se_round.c:40`: negative numbers are cut off and not rounded (`round_negative`).

More that the modules show and that has no run of its own:

- `pg_string.c:37` accepts a `split_size` of 0, which its message excludes.
- `se_string.c:17` gives NULL for the empty text and leaves the count unset; the
  caller does not return the NULL that `pg_kmcb--1.0.sql` promises (`TestEmpty` has the
  outcomes).
- `simil.c:65`: `same` answers an empty argument with 0, which `string_same` hands on
  as a text (`Enter` ends in `"null"`).
- `pg_datetime.c:100`: the test behind "date out of range" looks at year and month only
  and lets month 0 pass, so day 0 or day 366 of a year without it becomes November
  30th of the year before (second half of `DateIsDayOfYear`).
- `se_round.c:92`: the units end at PB. Of a size from 1024 PB on the number is
  divided by the next power and the unit is PB nevertheless. Two sizes less than that
  are taken for it (`se_round.c:129`): they print 1.00PB in place of 1024.00PB. This is
  why `ShownIsNear` ends three below the sixth power.
- `pg_datetime.c:48`: a negative number of rows is made unsigned; a scan for -1 rows has
  some four billion.
- `se_rand.h:44` says that an unknown flag gives digits and letters; the code, and
  `pg_kmcb--1.0.sql:87`, include Chinese characters. `KindsAsAskedFor` follows the latter.
- `pg_string.c:118`: the check sum depends on memory behind the text when no zero
  follows it, though the function is declared immutable (`CrcIsOfTextAndStray`).

## Not modelled

- *PostgreSQL*: detoasting, memory contexts but for their end, `palloc` but for its
  limit and its uninitialised bytes, base64 but for what it accepts. What is modelled
  of it (`date2j`, `IS_VALID_JULIAN`, the protocol of set-returning functions) is
  modelled from how the code uses it.
- *Rounding of floating point*: `Simil` and `Rounding` have fractions; a long double
  holds every product of the run exactly, and not every product there is.
- *Encodings other than UTF-8*: the length table is for UTF-8.
- *Distributions*: a random choice is any of its values.
- *`hostname`*: one call of `gethostname` and a copy; no state.
- *Unused helpers*: `compare_string`, `compare_text_lexemes`, `utf8_memory_size`,
  `zh_random_anis` and the `anis_` functions are called by nothing that is compiled in.
- *Code not compiled*: the AES192 and AES256 branches, `Multiply` as a function
  (`MULTIPLY_AS_A_FUNCTION` is 0: the macro is compiled, and modelled) and the Windows
  branches of the wrappers.
- *SQL declarations and build files*: read as documentation only.
