-------------------------------- MODULE Same --------------------------------
(***************************************************************************)
(* string_same(text, text): the longest common subsequence of two texts,   *)
(* by a table of the lengths for all pairs of prefixes and a walk back     *)
(* through it (pg_string.c, simil.c).                                      *)
(***************************************************************************)
EXTENDS LCS

CONSTANTS
  Bytes,      \* the bytes of texts
  NUL,        \* the byte that ends a C string
  Junk,       \* a byte of palloc'ed memory nobody wrote
  Characters, \* the byte sequences that encode a character
  Strings     \* the texts a call may get

\* A text holds no NUL.
ASSUME SameAssumption ==
  /\ NUL \notin Bytes
  /\ Junk \notin Bytes \cup {NUL}
  /\ Strings \subseteq Seq(Bytes)

VARIABLES
  pc,          \* "enter", "fill", "trace" or "done"
  str1, str2,  \* the two strings
  align,       \* align[r][c]: common length of r bytes of str2, c of str1
  r, c, i,     \* row and column, and the cell's value while walking back
  ptr_result,  \* the bytes of the result's block, from VARDATA on
  status,      \* what same() returned: "text", "null" or "none" so far
  result       \* the text returned

vars == <<pc, str1, str2, align, r, c, i, ptr_result, status, result>>

len1 == Len(str1)
len2 == Len(str2)

-----------------------------------------------------------------------------

Init ==
  /\ pc = "enter"
  /\ str1 \in Strings
  /\ str2 \in Strings
  /\ align = <<>>
  /\ r = 0
  /\ c = 0
  /\ i = 0
  /\ ptr_result = <<>>
  /\ status = "none"
  /\ result = <<>>

\* Fault: empty strings are not turned away.
Enter_NoEmptyTest ==
  /\ pc = "enter"
  /\ pc' = "fill"
  /\ ptr_result' = [k \in 0..(IF len1 > len2 THEN len1 ELSE len2) |-> Junk]
  /\ align' = [a \in 0..len2 |-> [b \in 0..len1 |-> 0]]
  /\ r' = 1
  /\ c' = 1
  /\ UNCHANGED <<str1, str2, i, status, result>>

\* The test for an empty string, or the allocations: a result as long as the
\* longer string and its NUL, and the table of zeros.
Enter ==
  /\ pc = "enter"
  /\ IF len1 = 0 \/ len2 = 0
       THEN /\ pc' = "done"
            /\ status' = "null"
            /\ UNCHANGED <<align, r, c, ptr_result>>
       ELSE /\ pc' = "fill"
            /\ ptr_result' = [k \in 0..(IF len1 > len2 THEN len1 ELSE len2) |-> Junk]
            /\ align' = [a \in 0..len2 |-> [b \in 0..len1 |-> 0]]
            /\ r' = 1
            /\ c' = 1
            /\ UNCHANGED status
  /\ UNCHANGED <<str1, str2, i, result>>

\* Fault: the maximum of the neighbours is forgotten.
Cell_LeftOnly(a, b) ==
  IF str1[b] = str2[a] THEN align[a - 1][b - 1] + 1 ELSE align[a][b - 1]

\* Fault: the common byte is added to the cell above, not to the diagonal.
Cell_Above(a, b) ==
  IF str1[b] = str2[a] THEN align[a - 1][b] + 1
  ELSE IF align[a - 1][b] >= align[a][b - 1] THEN align[a - 1][b]
  ELSE align[a][b - 1]

\* What the code stores in a cell, from its three neighbours.
Cell(a, b) ==
  IF str1[b] = str2[a] THEN align[a - 1][b - 1] + 1
  ELSE IF align[a - 1][b] >= align[a][b - 1] THEN align[a - 1][b]
  ELSE align[a][b - 1]

\* The body of the inner loop over the table.
FillCell ==
  /\ pc = "fill"
  /\ r <= len2
  /\ c <= len1
  /\ align' = [align EXCEPT ![r][c] = Cell(r, c)]
  /\ c' = c + 1
  /\ UNCHANGED <<pc, str1, str2, r, i, ptr_result, status, result>>

NextRow ==
  /\ pc = "fill"
  /\ r <= len2
  /\ c > len1
  /\ r' = r + 1
  /\ c' = 1
  /\ UNCHANGED <<pc, str1, str2, align, i, ptr_result, status, result>>

\* Fault: the NUL is put behind the room for the longest result.
StartTrace_NULAtEnd ==
  /\ pc = "fill"
  /\ r > len2
  /\ r' = len2
  /\ c' = len1
  /\ i' = align[len2][len1]
  /\ ptr_result' = [ptr_result EXCEPT ![len1] = NUL]
  /\ pc' = "trace"
  /\ UNCHANGED <<str1, str2, align, status, result>>

\* The head of the walk back: the last cell is the length of the result.
StartTrace ==
  /\ pc = "fill"
  /\ r > len2
  /\ r' = len2
  /\ c' = len1
  /\ i' = align[len2][len1]
  /\ ptr_result' = [ptr_result EXCEPT ![i'] = NUL]
  /\ pc' = "trace"
  /\ UNCHANGED <<str1, str2, align, status, result>>

Walking == pc = "trace" /\ i > 0 /\ r > 0 /\ c > 0

\* The three branches of the walk, tried in this order.  When none of them
\* applies the loop of the code repeats for ever: see NeverSpins.
SameAbove == align[r - 1][c] = i
SameLeft  == align[r][c - 1] = i
LessOnDiagonal_SameValue == align[r - 1][c - 1] = i   \* fault: not i - 1
LessOnDiagonal == align[r - 1][c - 1] = i - 1

StepUp ==
  /\ Walking
  /\ SameAbove
  /\ r' = r - 1
  /\ i' = align[r'][c]
  /\ UNCHANGED <<pc, str1, str2, align, c, ptr_result, status, result>>

StepLeft ==
  /\ Walking
  /\ ~SameAbove
  /\ SameLeft
  /\ c' = c - 1
  /\ i' = align[r][c']
  /\ UNCHANGED <<pc, str1, str2, align, r, ptr_result, status, result>>

\* Fault: a byte is taken although the cell to the left has the same length.
TakeByte_Eager ==
  /\ Walking
  /\ ~SameAbove
  /\ LessOnDiagonal
  /\ ptr_result' = [ptr_result EXCEPT ![i - 1] = str2[r]]
  /\ r' = r - 1
  /\ c' = c - 1
  /\ i' = align[r'][c']
  /\ UNCHANGED <<pc, str1, str2, align, status, result>>

TakeByte ==
  /\ Walking
  /\ ~SameAbove
  /\ ~SameLeft
  /\ LessOnDiagonal
  /\ ptr_result' = [ptr_result EXCEPT ![i - 1] = str2[r]]
  /\ r' = r - 1
  /\ c' = c - 1
  /\ i' = align[r'][c']
  /\ UNCHANGED <<pc, str1, str2, align, status, result>>

\* strlen of the block of the result.
strlen == CHOOSE n \in DOMAIN ptr_result :
            ptr_result[n] = NUL /\ \A m \in 0..(n - 1) : ptr_result[m] # NUL

\* The rows and the table are freed, the text gets the length strlen finds.
Finish ==
  /\ pc = "trace"
  /\ ~Walking
  /\ pc' = "done"
  /\ status' = "text"
  /\ result' = [k \in 1..strlen |-> ptr_result[k - 1]]
  /\ UNCHANGED <<str1, str2, align, r, c, i, ptr_result>>

Next ==
  \/ Enter
  \/ FillCell
  \/ NextRow
  \/ StartTrace
  \/ StepUp
  \/ StepLeft
  \/ TakeByte
  \/ Finish

Spec == Init /\ [][Next]_vars

\* The function runs on the backend's only thread until it returns.
FairSpec == Spec /\ WF_vars(Next)

-----------------------------------------------------------------------------

\* The variables stay in their domains; the table and the block of the result
\* exist from the fill on.
TypeOK ==
  /\ pc \in {"enter", "fill", "trace", "done"}
  /\ str1 \in Seq(Bytes) /\ str2 \in Seq(Bytes)
  /\ pc \in {"fill", "trace"} =>
       /\ len1 > 0 /\ len2 > 0
       /\ align \in [0..len2 -> [0..len1 -> Nat]]
       /\ ptr_result \in [0..(IF len1 > len2 THEN len1 ELSE len2) -> Bytes \cup {NUL, Junk}]
  /\ r \in Nat /\ c \in Nat /\ i \in Nat
  /\ status \in {"none", "null", "text"}

\* Every cell the fill has passed holds the length of the longest common
\* subsequence of the two prefixes it stands for.
TableIsLCS ==
  pc \in {"fill", "trace"} =>
    \A a \in 0..len2, b \in 0..len1 :
      pc = "trace" \/ a < r \/ (a = r /\ b < c) =>
        IsLCSLength(align[a][b], str1, b, str2, a)

\* In every round of the walk one of its branches applies, so the loop makes
\* progress whatever the strings.
NeverSpins == Walking => SameAbove \/ SameLeft \/ LessOnDiagonal

\* The walk writes inside the block allocated for the result, and reads only
\* bytes of it that it wrote: strlen ends at the NUL of StartTrace.
ResultInBlock ==
  /\ pc = "trace" => i \in DOMAIN ptr_result
  /\ pc = "done" => \A k \in DOMAIN result : result[k] \in Bytes

\* The text returned can be read off both arguments.
ResultIsCommon == status = "text" => Common(result, str1, str2)

\* No common subsequence is longer than the text returned.
ResultIsLongest ==
  status = "text" => IsLCSLength(Len(result), str1, len1, str2, len2)

\* A sequence of whole characters.
WellFormed(s) ==
  LET whole[n \in 0..Len(s)] ==
        n = 0 \/ \E ch \in Characters :
                   /\ Len(ch) <= n
                   /\ SubSeq(s, n - Len(ch) + 1, n) = ch
                   /\ whole[n - Len(ch)]
  IN  whole[Len(s)]

\* pg_kmcb--1.0.sql:63-64: string_same returns text, that is characters.
ResultIsText == status = "text" => WellFormed(result)

\* Every call returns.
Returns == <>(pc = "done")

=============================================================================
