------------------------------ MODULE RandString ------------------------------
(***************************************************************************)
(* generate_rand_string (pg_rand.c) and the drawing of its characters      *)
(* (se_rand.c): digits, capital and small letters and Chinese characters,  *)
(* written one after another into a block of UTF8_MAX_SIZE bytes for each. *)
(***************************************************************************)
EXTENDS Backend, FiniteSets

CONSTANTS
  MaxCount,   \* the largest number of characters: 0x8000
  Lengths,    \* the pairs <<min_len, max_len>> clients give
  Flags,      \* the flags they give
  Randoms     \* the numbers random() returns

ASSUME RandAssumption ==
  /\ MaxCount \in Nat
  /\ Lengths \subseteq Int \X Int
  /\ Flags \subseteq Int
  /\ Randoms \subseteq Nat
  /\ Randoms # {}

VARIABLES
  buffer,          \* the bytes written (VARDATA(result))
  written,         \* the number of characters they are (i)
  character_count  \* the number of characters to write

randVars == <<buffer, written, character_count>>

\* A number of a range: the rest of random() by its size, from its low end on.
RANGE_RANDOM(lmin, lmax) == {(r % (lmax + 1 - lmin)) + lmin : r \in Randoms}

UTF8_MAX_SIZE == 6

\* Fault: the flags with Chinese characters are left to the default.
ckeck_flag_NoChinese(flag) ==
  IF flag \in 1..7 THEN << {1}, {2}, 1..2, {3}, {1, 3}, 2..3, 1..3 >>[flag] ELSE {0}

\* Fault: the last kind of a range is never drawn.
ckeck_flag_NoLast(flag) ==
  IF flag \in 1..14
    THEN << {1}, {2}, {1}, {3}, {1, 3}, {2}, 1..2,
            {4}, {1, 4}, {2, 4}, {1, 4}, {3}, {1, 3}, 2..3 >>[flag]
    ELSE {0}

\* The kinds of character that ckeck_flag draws from: 1 digit, 2 capital letter,
\* 3 small letter, 4 Chinese character, 0 any of them.
ckeck_flag(flag) ==
  IF flag \in 1..14
    THEN << {1}, {2}, 1..2, {3}, {1, 3}, 2..3, 1..3,
            {4}, {1, 4}, {2, 4}, {1, 2, 4}, 3..4, {1, 3, 4}, 2..4 >>[flag]
    ELSE {0}

\* The bytes of a code point, none for one that is no character.
random_utf8_zh(code) ==
  LET tail(unit) == ((code \div unit) % 64) + 128
  IN  IF code <= 127 THEN <<code>>
      ELSE IF code <= 2047 THEN <<(code \div 64) + 192, tail(1)>>
      ELSE IF code \in 55296..57343 THEN <<>>
      ELSE IF code <= 65535 THEN <<(code \div 4096) + 224, tail(64), tail(1)>>
      ELSE IF code <= 1114111 THEN <<(code \div 262144) + 240, tail(4096), tail(64), tail(1)>>
      ELSE <<>>

\* The characters of a kind; a code that is no character is drawn again.
rand_num_abc_zh(kind) ==
  LET one(lmin, lmax) == {<<c>> : c \in RANGE_RANDOM(lmin, lmax)}
      zh == {random_utf8_zh(c) : c \in RANGE_RANDOM(19968, 20901)} \ {<<>>}
      of == <<one(48, 57), one(65, 90), one(97, 122), zh>>
  IN  IF kind = 0 THEN UNION {of[k] : k \in 1..4} ELSE of[kind]

-----------------------------------------------------------------------------

RandInit == buffer = <<>> /\ written = 0 /\ character_count = 0

\* The arguments are checked and put in order, the length is drawn.
generate_rand_string(min_len, max_len, flag) ==
  LET in_range(n) == 1 <= n /\ n <= MaxCount
      low  == IF min_len > max_len THEN max_len ELSE min_len
      high == IF min_len > max_len THEN min_len ELSE max_len
      arg  == <<min_len, max_len, flag>>
  IN  /\ IF in_range(min_len) /\ in_range(max_len)
           THEN /\ call' = Call("generate_rand_string", arg, "running", 0)
                /\ character_count' \in RANGE_RANDOM(low, high)
           ELSE /\ call' = Call("generate_rand_string", arg, "error", 0)
                /\ UNCHANGED character_count
      /\ UNCHANGED <<buffer, written>>

Drawing == Running("generate_rand_string")

\* Fault: the position moves on by a byte, whatever was written.
WriteCharacter_Overlap ==
  /\ Drawing
  /\ written < character_count
  /\ \E kind \in ckeck_flag(call.arg[3]) :
       \E c \in rand_num_abc_zh(kind) : buffer' = SubSeq(buffer, 1, written) \o c
  /\ written' = written + 1
  /\ UNCHANGED <<call, character_count>>

\* One round of num_abc_zh_rand.
WriteCharacter ==
  /\ Drawing
  /\ written < character_count
  /\ \E kind \in ckeck_flag(call.arg[3]) :
       \E c \in rand_num_abc_zh(kind) : buffer' = buffer \o c
  /\ written' = written + 1
  /\ UNCHANGED <<call, character_count>>

\* The text is as long as what was written.
ReturnRandString ==
  /\ Drawing
  /\ written = character_count
  /\ call' = [call EXCEPT !.status = "returned", !.value = buffer]
  /\ buffer' = <<>> /\ written' = 0 /\ character_count' = 0

RandNext ==
  \/ Idle /\ \E l \in Lengths, f \in Flags : generate_rand_string(l[1], l[2], f)
  \/ WriteCharacter
  \/ ReturnRandString

-----------------------------------------------------------------------------

\* The length of a character by its lead byte, and where the characters of a
\* text begin; none past an end that cuts the last one off.
LeadLength(b) == IF b < 192 THEN 1 ELSE IF b < 224 THEN 2 ELSE IF b < 240 THEN 3 ELSE 4

Starts(t) ==
  LET next == [p \in 1..Len(t) |-> p + LeadLength(t[p])]
      at[n \in 0..Len(t)] ==
        IF n = 0 THEN 1 ELSE IF at[n - 1] \in DOMAIN next THEN next[at[n - 1]] ELSE at[n - 1]
  IN  {at[n] : n \in 0..Len(t)}

\* The kind of the character at p.
KindAt(t, p) ==
  IF t[p] \in 48..57 THEN 1 ELSE IF t[p] \in 65..90 THEN 2 ELSE IF t[p] \in 97..122 THEN 3
  ELSE IF /\ t[p] \in 224..239 /\ p + 2 <= Len(t)
          /\ (t[p] - 224) * 4096 + (t[p + 1] - 128) * 64 + t[p + 2] - 128 \in 19968..20901
         THEN 4 ELSE 0

\* The kinds a flag asks for: its bits, from the lowest on; all, when it is not
\* in 1..14 (pg_kmcb--1.0.sql:74-89).
Asked(flag) ==
  IF flag \in 1..14 THEN {k \in 1..4 : (flag \div <<1, 2, 4, 8>>[k]) % 2 = 1} ELSE 1..4

\* Every character of a text is of a kind the flag asks for.
OnlyKindsAskedFor ==
  Returned("generate_rand_string") =>
    LET t == call.value
    IN  \A p \in Starts(t) \ {Len(t) + 1} : KindAt(t, p) \in Asked(call.arg[3])

\* None of them is left out: at every character still to be drawn, each kind the
\* flag asks for can come, by some draw of ckeck_flag and of the character.
EveryKindCanCome ==
  Drawing /\ written < character_count =>
    \A k \in Asked(call.arg[3]) :
      \E kind \in ckeck_flag(call.arg[3]) : \E c \in rand_num_abc_zh(kind) : KindAt(c, 1) = k

\* The characters drawn are of the kinds the flag asks for: no other comes, and
\* none of them is left out.
KindsAsAskedFor == OnlyKindsAskedFor /\ EveryKindCanCome

\* Read by lead bytes, as split_string reads it, a text has between the smaller
\* and the larger number of characters asked for, whatever their order, and
\* none of them is cut off at the end of the text or of its block.
CharactersAsCounted ==
  Returned("generate_rand_string") =>
    LET n    == Cardinality(Starts(call.value)) - 1
        l    == {call.arg[1], call.arg[2]}
    IN  /\ \E a, b \in l : a <= n /\ n <= b
        /\ Len(call.value) + 1 \in Starts(call.value)
        /\ Len(call.value) <= n * UTF8_MAX_SIZE
=============================================================================
