------------------------------- MODULE Simil -------------------------------
(***************************************************************************)
(* string_simil(text, text): the length of the longest common subsequence  *)
(* of two texts relative to the longer one, computed with two rows of the  *)
(* table of lengths that change places after each byte (pg_string.c,       *)
(* simil.c).                                                               *)
(***************************************************************************)
EXTENDS LCS

CONSTANTS
  Bytes,   \* the bytes of texts
  Strings  \* the texts a call may get

ASSUME SimilAssumption == Strings \subseteq Seq(Bytes)

VARIABLES
  pc,                  \* "enter", "rows" or "done"
  arg1, arg2,          \* the two texts of the call
  ptr_str1, ptr_str2,  \* the same, the longer one first
  previous, next,      \* a finished row of the table and the one being filled
  j,                   \* bytes of ptr_str2 done
  k,                   \* the cell of the row to fill
  result               \* the similarity, as numerator and denominator

vars == <<pc, arg1, arg2, ptr_str1, ptr_str2, previous, next, j, k, result>>

len1 == Len(ptr_str1)
len2 == Len(ptr_str2)

NoResult == [num |-> 0, den |-> 0]

-----------------------------------------------------------------------------

Init ==
  /\ pc = "enter"
  /\ arg1 \in Strings
  /\ arg2 \in Strings
  /\ ptr_str1 = <<>>
  /\ ptr_str2 = <<>>
  /\ previous = <<>>
  /\ next = <<>>
  /\ j = 0
  /\ k = 0
  /\ result = NoResult

EmptyArgument ==
  /\ pc = "enter"
  /\ arg1 = <<>> \/ arg2 = <<>>
  /\ pc' = "done"
  /\ result' = [num |-> 0, den |-> 1]
  /\ UNCHANGED <<arg1, arg2, ptr_str1, ptr_str2, previous, next, j, k>>

\* Fault: the arguments stay in the order of the call.
Exchange_Never == FALSE

Exchange == Len(arg1) < Len(arg2)

\* Fault: the rows have no column 0.
Zeros_Short(n) == [b \in 0..(n - 1) |-> 0]

Zeros(n) == [b \in 0..n |-> 0]

\* The longer text becomes the first; the rows are allocated as zeros.
Enter ==
  /\ pc = "enter"
  /\ arg1 # <<>> /\ arg2 # <<>>
  /\ IF Exchange
       THEN ptr_str1' = arg2 /\ ptr_str2' = arg1
       ELSE ptr_str1' = arg1 /\ ptr_str2' = arg2
  /\ previous' = Zeros(Len(ptr_str1'))
  /\ next' = Zeros(Len(ptr_str1'))
  /\ k' = 1
  /\ pc' = "rows"
  /\ UNCHANGED <<arg1, arg2, j, result>>

\* Fault: the cell to the left is taken from the row above.
Cell_StaleLeft ==
  IF ptr_str1[k] = ptr_str2[j + 1] THEN previous[k - 1] + 1
  ELSE IF previous[k] >= previous[k - 1] THEN previous[k] ELSE previous[k - 1]

Cell ==
  IF ptr_str1[k] = ptr_str2[j + 1] THEN previous[k - 1] + 1
  ELSE IF previous[k] >= next[k - 1] THEN previous[k] ELSE next[k - 1]

\* The body of the inner loop.
FillCell ==
  /\ pc = "rows"
  /\ j < len2
  /\ k <= len1
  /\ next' = [next EXCEPT ![k] = Cell]
  /\ k' = k + 1
  /\ UNCHANGED <<pc, arg1, arg2, ptr_str1, ptr_str2, previous, j, result>>

\* The row is complete: the two rows change places.  The new next row still
\* holds the row before, every cell of which is overwritten.
SwapRows ==
  /\ pc = "rows"
  /\ j < len2
  /\ k > len1
  /\ previous' = next
  /\ next' = previous
  /\ j' = j + 1
  /\ k' = 1
  /\ UNCHANGED <<pc, arg1, arg2, ptr_str1, ptr_str2, result>>

\* The rows are freed after the last cell was read.
Finish ==
  /\ pc = "rows"
  /\ j >= len2
  /\ pc' = "done"
  /\ result' = [num |-> previous[len1], den |-> len1]
  /\ UNCHANGED <<arg1, arg2, ptr_str1, ptr_str2, previous, next, j, k>>

Next ==
  \/ EmptyArgument
  \/ Enter
  \/ FillCell
  \/ SwapRows
  \/ Finish

Spec == Init /\ [][Next]_vars

-----------------------------------------------------------------------------

\* The variables stay in their domains; the rows exist from Enter on.
TypeOK ==
  /\ pc \in {"enter", "rows", "done"}
  /\ arg1 \in Seq(Bytes) /\ arg2 \in Seq(Bytes)
  /\ ptr_str1 \in Seq(Bytes) /\ ptr_str2 \in Seq(Bytes)
  /\ j \in Nat /\ k \in Nat
  /\ pc = "rows" =>
       /\ j <= len2
       /\ k \in 1..(len1 + 1)
       /\ previous \in [0..len1 -> Nat]
       /\ next \in [0..len1 -> Nat]
  /\ result \in [num : Nat, den : Nat]

\* Between two exchanges the finished row stands for the j bytes done, and the
\* filled part of the other row for one byte more, in spite of the old values
\* it is written over.
RowsAreLCS ==
  pc = "rows" =>
    /\ \A b \in 0..len1 :
         IsLCSLength(previous[b], ptr_str1, b, ptr_str2, j)
    /\ j < len2 =>
         \A b \in 0..(k - 1) :
           IsLCSLength(next[b], ptr_str1, b, ptr_str2, j + 1)

\* pg_string.md:15: the similarity lies between 0 and 1, and is a number (the
\* length it is divided by is never 0).
WithinUnit == pc = "done" => result.den > 0 /\ result.num <= result.den

\* The similarity is the common length over the length of the longer text,
\* whatever the order of the arguments; 0 when one of them is empty.
SimilarityIsLCS ==
  pc = "done" =>
    IF arg1 = <<>> \/ arg2 = <<>> THEN result.num = 0
    ELSE /\ IsLCSLength(result.num, arg1, Len(arg1), arg2, Len(arg2))
         /\ result.den = IF Len(arg1) < Len(arg2) THEN Len(arg2) ELSE Len(arg1)

=============================================================================
