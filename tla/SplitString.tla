---------------------------- MODULE SplitString ----------------------------
(***************************************************************************)
(* split_string(text, integer): cut a UTF-8 text into the array of all     *)
(* windows of split_size consecutive characters (pg_string.c, se_string.c, *)
(* with the character counter and the length table of se_std.c).           *)
(*                                                                         *)
(* The code never looks at characters, only at bytes, and of a byte only   *)
(* at its entry in utf8_look_for_table.  A byte is therefore modelled by   *)
(* that entry: the lead byte of a character of w bytes is w, a             *)
(* continuation byte (0x80-0xBF) is 1, like an ASCII byte.  Offsets are    *)
(* the code's pointers relative to the start of the block they point into. *)
(***************************************************************************)
EXTENDS Integers, Sequences, FiniteSets

CONSTANTS
  Texts,         \* the texts a call may get: sequences of table entries
  SplitSizes,    \* the int32 values a call may pass as $2
  Modulus,       \* 2^32: unsigned int and uint32 arithmetic wraps here
  MaxAllocSize   \* palloc refuses a larger request (external: memutils.h)

\* For each offset of a text and for its end, whether a character begins there:
\* characters follow one another from the first byte on.
BoundaryOf(t) ==
  LET from[q \in 0..Len(t)] ==
        q = 0 \/ \E r \in 0..(q - 1) : r + t[r + 1] = q /\ from[r]
  IN  from

\* A byte of a text is one of the six lengths in the table, and the backend
\* lets no text end inside a character; the wrap and the limit are positive
\* (the limit is below the wrap: 1 GB and 4 GB).
ASSUME SplitAssumption ==
  /\ Texts \subseteq Seq(1..6)
  /\ \A t \in Texts : BoundaryOf(t)[Len(t)]
  /\ SplitSizes \subseteq Int
  /\ MaxAllocSize \in Nat
  /\ Modulus \in Nat
  /\ MaxAllocSize < Modulus

VARHDRSZ      == 4
UTF8_MAX_SIZE == 6
PointerSize   == 8

\* What the byte after the text may be (a text has no terminator): the NUL
\* byte or any other, given like the bytes of a text by its table entry.
NUL   == 0
Stray == NUL..UTF8_MAX_SIZE

VARIABLES
  pc,              \* the statement about to run
  text,            \* the bytes of in_txt
  split_size,      \* $2
  stray,           \* the byte that follows the text in memory
  character_count, \* the counter of utf8_character_count
  scan,            \* the loop index of utf8_character_count, in bytes
  array_size,      \* the number of windows the code computes
  capacity,        \* bytes palloc'ed for the windows (the pointers excluded)
  i,               \* windows written so far
  j,               \* characters measured of the current window
  ptr_in_tmp,      \* offset of the current window in the text
  utf8_mem_size,   \* bytes of the current window measured so far
  ptr_val_tmp,     \* offset of the next free byte in the block of windows
  items,           \* the windows written: offset in the text and bytes
  result           \* what the SQL function hands back

loopVars == <<i, j, ptr_in_tmp, utf8_mem_size, ptr_val_tmp, items>>
callVars == <<text, split_size, stray>>
countVars == <<character_count, scan>>
blockVars == <<array_size, capacity>>
vars == <<pc, callVars, countVars, blockVars, loopVars, result>>

-----------------------------------------------------------------------------

\* UTF8LEN of the byte at offset p; the table maps the NUL byte to 1.
UTF8LEN(p) ==
  IF p < Len(text) THEN text[p + 1]
  ELSE IF stray = NUL THEN 1 ELSE stray

item_count_Unclamped == split_size   \* fault: not the shorter of the two
item_count ==
  IF character_count < split_size THEN character_count ELSE split_size

Init ==
  /\ pc = "enter" /\ result = "none"
  /\ text \in Texts
  /\ split_size \in SplitSizes
  /\ stray \in Stray
  /\ character_count = 0 /\ scan = 0
  /\ array_size = 0 /\ capacity = 0
  /\ i = 0 /\ j = 0
  /\ ptr_in_tmp = 0 /\ utf8_mem_size = 0 /\ ptr_val_tmp = 0
  /\ items = <<>>

\* The parameter check of split_string.
CheckSplitSize ==
  /\ pc = "enter"
  /\ IF split_size < 0 \/ split_size > 6
       THEN pc' = "done" /\ result' = "error"
       ELSE pc' = "test" /\ UNCHANGED result
  /\ UNCHANGED <<callVars, countVars, blockVars, loopVars>>

\* The emptiness test looks at the first byte, not at the length, and leaves
\* array_count unset: construct_array then runs on a NULL vector and on
\* whatever count the stack holds (0, negative or too large, or positive).
TestEmpty ==
  /\ pc = "test"
  /\ IF text = <<>> /\ stray = NUL
       THEN /\ pc' = "done"
            /\ result' \in {"empty", "error", "overread"}
       ELSE pc' = "count" /\ UNCHANGED result
  /\ UNCHANGED <<callVars, countVars, blockVars, loopVars>>

\* One iteration of utf8_character_count.
CountCharacter ==
  /\ pc = "count"
  /\ scan < Len(text)
  /\ scan' = scan + UTF8LEN(scan)
  /\ character_count' = character_count + 1
  /\ UNCHANGED <<pc, callVars, blockVars, loopVars, result>>

\* Fault: a text shorter than a window is not told apart.
windows_NoShortText == character_count - (split_size - 1)
windows ==
  IF character_count <= split_size THEN 1 ELSE character_count - (split_size - 1)

\* Fault: the headers of the windows are not counted.
block_size_NoHeaders(n) == ((n * split_size) * UTF8_MAX_SIZE) % Modulus

\* Bytes for n windows, computed in uint32; size_t only receives the outcome.
block_size(n) == (n * VARHDRSZ + (n * split_size) * UTF8_MAX_SIZE) % Modulus

Allocate ==
  /\ pc = "count"
  /\ scan >= Len(text)
  /\ array_size' = windows
  /\ capacity' = block_size(array_size')
  /\ IF array_size' * PointerSize + capacity' > MaxAllocSize
       THEN pc' = "done" /\ result' = "error"
       ELSE pc' = "window" /\ UNCHANGED result
  /\ UNCHANGED <<callVars, countVars, loopVars>>

\* The head of the outer loop: the first character of the window.
BeginWindow ==
  /\ pc = "window"
  /\ i < array_size
  /\ utf8_mem_size' = UTF8LEN(ptr_in_tmp)
  /\ j' = 1
  /\ pc' = "measure"
  /\ UNCHANGED <<callVars, countVars, blockVars, i, ptr_in_tmp, ptr_val_tmp, items, result>>

\* One iteration of the inner loop: the next character of the window.
MeasureCharacter ==
  /\ pc = "measure"
  /\ j < item_count
  /\ utf8_mem_size' = utf8_mem_size + UTF8LEN(ptr_in_tmp + utf8_mem_size)
  /\ j' = j + 1
  /\ UNCHANGED <<pc, callVars, countVars, blockVars, i, ptr_in_tmp, ptr_val_tmp, items, result>>

\* Fault: the text pointer moves on by the whole window.
advance_Window == utf8_mem_size
advance == UTF8LEN(ptr_in_tmp)

\* The tail of the outer loop: header and bytes of the window are written,
\* the text pointer moves on by the first character.
CopyWindow ==
  /\ pc = "measure"
  /\ j >= item_count
  /\ items' = Append(items, [from |-> ptr_in_tmp, size |-> utf8_mem_size])
  /\ ptr_val_tmp' = ptr_val_tmp + VARHDRSZ + utf8_mem_size
  /\ ptr_in_tmp' = ptr_in_tmp + advance
  /\ i' = i + 1
  /\ pc' = "window"
  /\ UNCHANGED <<callVars, countVars, blockVars, j, utf8_mem_size, result>>

\* construct_array copies the windows into the result.
Return ==
  /\ pc = "window"
  /\ i >= array_size
  /\ pc' = "done"
  /\ result' = "array"
  /\ UNCHANGED <<callVars, countVars, blockVars, loopVars>>

Next ==
  \/ CheckSplitSize
  \/ TestEmpty
  \/ CountCharacter
  \/ Allocate
  \/ BeginWindow
  \/ MeasureCharacter
  \/ CopyWindow
  \/ Return

Spec == Init /\ [][Next]_vars

-----------------------------------------------------------------------------
\* What a caller is owed.

\* The parameters the error message of split_string allows, on a text that
\* has a character.
Documented == split_size \in 1..6 /\ text # <<>>

\* The bytes the windows need at most, before any wrap.
BytesNeeded == array_size * (VARHDRSZ + split_size * UTF8_MAX_SIZE)

Boundary == BoundaryOf(text)

\* Offset of character number k, counted from 0; the end of the text follows
\* the last one.
CharacterAt(k) ==
  CHOOSE p \in 0..Len(text) :
    Boundary[p] /\ Cardinality({q \in 0..(p - 1) : Boundary[q]}) = k

Characters == Cardinality({p \in 0..(Len(text) - 1) : Boundary[p]})

Least(a, b) == IF a < b THEN a ELSE b

\* The variables stay in their domains (every offset, count and size of
\* split_string_v0 is unsigned).
TypeOK ==
  /\ pc \in {"enter", "test", "count", "window", "measure", "done"}
  /\ text \in Seq(1..6)
  /\ split_size \in Int
  /\ stray \in Stray
  /\ character_count \in Nat /\ scan \in Nat
  /\ array_size \in Nat /\ capacity \in Nat
  /\ i \in Nat /\ j \in Nat
  /\ ptr_in_tmp \in Nat /\ utf8_mem_size \in Nat /\ ptr_val_tmp \in Nat
  /\ items \in Seq([from : Nat, size : Nat])
  /\ result \in {"none", "array", "empty", "error", "overread"}

\* With documented parameters no window starts or ends outside the text,
\* whatever byte follows the text in memory.
ReadsInBounds ==
  Documented =>
    /\ pc = "window" /\ i < array_size => ptr_in_tmp < Len(text)
    /\ pc = "measure" => ptr_in_tmp + utf8_mem_size <= Len(text)
    /\ pc \in {"window", "measure", "done"} => ptr_in_tmp <= Len(text)

\* The windows copied never run past the block palloc returned, as long as
\* split_size is positive and the block's size did not wrap.
CopyInBounds ==
  split_size >= 1 /\ BytesNeeded < Modulus => ptr_val_tmp <= capacity

\* The comment of split_string_v0 (se_string.c:19-20): one allocation holds
\* the pointers and all of the data, for every parameter the code accepts.
OneBlockHoldsAll == ptr_val_tmp <= capacity

\* The array returned for documented parameters is the sequence of all
\* windows of split_size consecutive characters, in order, or the whole text
\* when it has no more characters than that.
WindowsOfCharacters ==
  Documented /\ result = "array" =>
    LET width == Least(split_size, Characters)
    IN  /\ Len(items) = Characters - width + 1
        /\ \A k \in 1..Len(items) :
             /\ items[k].from = CharacterAt(k - 1)
             /\ items[k].from + items[k].size = CharacterAt(k - 1 + width)
=============================================================================
