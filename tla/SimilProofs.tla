---------------------------- MODULE SimilProofs ----------------------------
(***************************************************************************)
(* For any two texts the rows of simil hold lengths of longest common      *)
(* subsequences, and the similarity is a number between 0 and 1.           *)
(***************************************************************************)
EXTENDS Simil, Facts, TLAPS

\* Column b of a row counts a subsequence of b bytes.
BelowColumn(row) == \A b \in 0..len1 : row[b] <= b

\* The longer text comes first.
Exchanged ==
  IF Len(arg1) < Len(arg2)
    THEN ptr_str1 = arg2 /\ ptr_str2 = arg1
    ELSE ptr_str1 = arg1 /\ ptr_str2 = arg2

\* The inductive invariant: the properties of the result say nothing before the
\* call is over, and RowsAreLCS nothing of column 0 of a row yet to be filled.
IInv ==
  /\ TypeOK
  /\ pc = "enter" => j = 0
  /\ pc = "rows" => /\ len1 > 0
                    /\ arg1 # <<>> /\ arg2 # <<>>
                    /\ Exchanged
                    /\ BelowColumn(previous)
                    /\ BelowColumn(next)
  /\ RowsAreLCS
  /\ WithinUnit
  /\ SimilarityIsLCS

-----------------------------------------------------------------------------

LEMMA Lengths == IInv => len1 \in Nat /\ len2 \in Nat
BY DEF IInv, TypeOK, len1, len2

LEMMA InitIInv == Init => IInv
<1> SUFFICES ASSUME Init PROVE IInv
  OBVIOUS
<1>1. arg1 \in Seq(Bytes) /\ arg2 \in Seq(Bytes)
  BY SimilAssumption DEF Init
<1>2. <<>> \in Seq(Bytes)
  OBVIOUS
<1>3. TypeOK
  BY <1>1, <1>2 DEF Init, TypeOK, NoResult
<1> QED
  BY <1>3 DEF Init, IInv, RowsAreLCS, WithinUnit, SimilarityIsLCS

\* What the fill stores in a cell is again at most its column.
LEMMA CellBelowColumn ==
  ASSUME IInv, pc = "rows", j < len2, k <= len1
  PROVE  Cell \in Nat /\ Cell <= k
<1>1. k \in 1..len1 /\ k - 1 \in 0..len1 /\ k \in 0..len1
  BY Lengths DEF IInv, TypeOK
<1>2. /\ previous[k - 1] \in Nat /\ previous[k - 1] <= k - 1
      /\ previous[k] \in Nat /\ previous[k] <= k
      /\ next[k - 1] \in Nat /\ next[k - 1] <= k - 1
  BY <1>1 DEF IInv, TypeOK, BelowColumn
<1> QED
  BY <1>1, <1>2 DEF Cell

\* What the fill stores in a cell is the common length of its two prefixes.
LEMMA CellIsLCS ==
  ASSUME IInv, pc = "rows", j < len2, k <= len1
  PROVE  IsLCSLength(Cell, ptr_str1, k, ptr_str2, j + 1)
<1> DEFINE k1 == k - 1
           j1 == j + 1
           diagonal == previous[k1]
           up       == previous[k]
           left     == next[k1]
<1>1. /\ k1 \in 0..len1 /\ k \in 0..len1 /\ k1 = k - 1 /\ k1 \in 0..(k - 1)
      /\ j = j1 - 1 /\ j1 \in Nat \ {0} /\ k \in Nat \ {0}
  BY Lengths DEF IInv, TypeOK
<1>2. /\ IsLCSLength(diagonal, ptr_str1, k1, ptr_str2, j)
      /\ IsLCSLength(up, ptr_str1, k, ptr_str2, j)
      /\ IsLCSLength(left, ptr_str1, k1, ptr_str2, j1)
  BY <1>1 DEF IInv, RowsAreLCS
<1>3. Cell = IF ptr_str1[k] = ptr_str2[j1] THEN diagonal + 1
             ELSE IF up >= left THEN up ELSE left
  BY DEF Cell
<1> SUFFICES IsLCSLength(Cell, ptr_str1, k, ptr_str2, j1)
  OBVIOUS
<1> HIDE DEF k1, j1, diagonal, up, left
<1>4. CASE ptr_str1[k] = ptr_str2[j1]
  BY <1>1, <1>2, <1>3, <1>4, LCSRecurrence
<1>5. CASE ptr_str1[k] # ptr_str2[j1] /\ up >= left
  BY <1>1, <1>2, <1>3, <1>5, LCSRecurrence
<1>6. CASE ptr_str1[k] # ptr_str2[j1] /\ ~(up >= left)
  BY <1>1, <1>2, <1>3, <1>6, LCSRecurrence
<1> QED
  BY <1>4, <1>5, <1>6

LEMMA NextIInv == IInv /\ [Next]_vars => IInv'
<1> SUFFICES ASSUME IInv, [Next]_vars PROVE IInv'
  OBVIOUS
<1>1. CASE EmptyArgument
  BY <1>1 DEF EmptyArgument, IInv, TypeOK, RowsAreLCS, WithinUnit,
              SimilarityIsLCS
<1>2. CASE Enter
  <2>1. /\ ptr_str1' \in Seq(Bytes) /\ ptr_str2' \in Seq(Bytes)
        /\ ptr_str1' # <<>>
    BY <1>2 DEF Enter, Exchange, Zeros, IInv, TypeOK
  <2>2. len1' \in Nat /\ len1' > 0 /\ len2' \in Nat
    BY <2>1 DEF len1, len2
  <2>3. /\ previous' = [b \in 0..len1' |-> 0]
        /\ next' = [b \in 0..len1' |-> 0]
    BY <1>2 DEF Enter, Exchange, Zeros, len1
  <2>4. /\ previous' \in [0..len1' -> Nat] /\ next' \in [0..len1' -> Nat]
        /\ k' \in 1..(len1' + 1) /\ k' \in Nat
    <3>1. previous' \in [0..len1' -> Nat] /\ next' \in [0..len1' -> Nat]
      BY <2>3
    <3>2. k' = 1
      BY <1>2 DEF Enter, Exchange, Zeros
    <3>3. k' \in 1..(len1' + 1) /\ k' \in Nat
      BY <2>2, <3>2 DEF len1, len2
    <3> QED
      BY <3>1, <3>3
  <2>5. j' = 0 /\ j' <= len2'
    BY <1>2, <2>2 DEF Enter, Exchange, Zeros, IInv
  <2>6. TypeOK'
    BY <1>2, <2>1, <2>2, <2>4, <2>5 DEF Enter, Exchange, Zeros, IInv, TypeOK
  <2>7. BelowColumn(previous)' /\ BelowColumn(next)'
    BY <2>2, <2>3 DEF BelowColumn
  <2>8. Exchanged' /\ pc' = "rows" /\ arg1' # <<>> /\ arg2' # <<>> /\ k' = 1
    BY <1>2 DEF Enter, Exchange, Zeros, Exchanged
  <2>9. RowsAreLCS'
    <3>1. \A b \in 0..len1' : IsLCSLength(0, ptr_str1', b, ptr_str2', 0)
      BY <2>2, EmptyPrefix
    <3>2. IsLCSLength(0, ptr_str1', 0, ptr_str2', 1)
      BY EmptyPrefix
    <3>3. /\ \A b \in 0..len1' : previous'[b] = 0
          /\ next'[0] = 0
      BY <2>2, <2>3
    <3>4. \A b \in 0..(k' - 1) : b = 0
      BY <2>8
    <3> QED
      BY <2>5, <3>1, <3>2, <3>3, <3>4 DEF RowsAreLCS
  <2> QED
    BY <2>2, <2>5, <2>6, <2>7, <2>8, <2>9 DEF IInv, WithinUnit, SimilarityIsLCS
<1>3. CASE FillCell
  <2>1. Cell \in Nat /\ Cell <= k
    BY <1>3, CellBelowColumn DEF FillCell
  <2>2. len1' = len1 /\ len2' = len2 /\ k \in 1..len1
    BY <1>3 DEF FillCell, IInv, TypeOK, len1, len2
  <2>3. next \in [0..len1 -> Nat] /\ next' = [next EXCEPT ![k] = Cell]
    BY <1>3 DEF FillCell, IInv, TypeOK
  <2>4. next' \in [0..len1 -> Nat]
    BY <2>1, <2>3
  <2>5. TypeOK'
    BY <1>3, <2>2, <2>4 DEF FillCell, IInv, TypeOK, len1
  <2>6. BelowColumn(previous)' /\ BelowColumn(next)'
    BY <1>3, <2>1, <2>2, <2>3 DEF FillCell, IInv, BelowColumn
  <2>7. \A b \in 0..len1 : next'[b] = IF b = k THEN Cell ELSE next[b]
    BY <2>3
  <2>8. IsLCSLength(Cell, ptr_str1, k, ptr_str2, j + 1)
    BY <1>3, CellIsLCS DEF FillCell
  <2>9. RowsAreLCS'
    <3>1. ASSUME NEW b \in 0..k
          PROVE  IsLCSLength(next'[b], ptr_str1, b, ptr_str2, j + 1)
      <4>1. b \in 0..len1 /\ (b = k \/ b \in 0..(k - 1))
        BY <2>2, Lengths
      <4>2. CASE b = k
        BY <2>7, <2>8, <4>1, <4>2
      <4>3. CASE b # k
        <5>1. IsLCSLength(next[b], ptr_str1, b, ptr_str2, j + 1)
          BY <1>3, <4>1, <4>3 DEF FillCell, IInv, RowsAreLCS
        <5> QED
          BY <2>7, <4>1, <4>3, <5>1
      <4> QED
        BY <4>2, <4>3
    <3>2. \A b \in 0..len1 :
            IsLCSLength(previous[b], ptr_str1, b, ptr_str2, j)
      BY <1>3 DEF FillCell, IInv, RowsAreLCS
    <3>3. \A b \in 0..(k' - 1) : b \in 0..k
      BY <1>3, <2>2 DEF FillCell
    <3> QED
      BY <1>3, <2>2, <3>1, <3>2, <3>3 DEF FillCell, RowsAreLCS
  <2> QED
    BY <1>3, <2>2, <2>5, <2>6, <2>9
       DEF FillCell, IInv, Exchanged, WithinUnit, SimilarityIsLCS
<1>4. CASE SwapRows
  <2>1. len1' = len1 /\ len2' = len2 /\ len1 \in Nat /\ len2 \in Nat
    BY <1>4, Lengths DEF SwapRows, IInv, TypeOK, len1, len2
  <2>2. j' <= len2' /\ k' \in 1..(len1' + 1)
    BY <1>4, <2>1 DEF SwapRows, IInv, TypeOK
  <2>3. TypeOK'
    BY <1>4, <2>1, <2>2 DEF SwapRows, IInv, TypeOK
  <2>4. BelowColumn(previous)' /\ BelowColumn(next)'
    BY <1>4, <2>1 DEF SwapRows, IInv, BelowColumn
  <2>5. RowsAreLCS'
    <3>1. previous[0] = 0
      BY <1>4, <2>1 DEF SwapRows, IInv, TypeOK, BelowColumn
    <3>2. \A b \in 0..len1 :
            IsLCSLength(next[b], ptr_str1, b, ptr_str2, j + 1)
      <4>1. \A b \in 0..len1 : b \in 0..(k - 1)
        BY <1>4, <2>1 DEF SwapRows, IInv, TypeOK
      <4> QED
        BY <1>4, <4>1 DEF SwapRows, IInv, RowsAreLCS
    <3>3. IsLCSLength(0, ptr_str1, 0, ptr_str2, (j + 1) + 1)
      BY <1>4, EmptyPrefix DEF SwapRows, IInv, TypeOK
    <3>4. \A b \in 0..(k' - 1) : b = 0
      BY <1>4 DEF SwapRows
    <3> QED
      BY <1>4, <2>1, <3>1, <3>2, <3>3, <3>4 DEF SwapRows, RowsAreLCS
  <2> QED
    BY <1>4, <2>1, <2>3, <2>4, <2>5
       DEF SwapRows, IInv, Exchanged, WithinUnit, SimilarityIsLCS
<1>5. CASE Finish
  <2>1. len1 \in Nat /\ len1 > 0 /\ len1 \in 0..len1
    BY <1>5 DEF Finish, IInv, TypeOK, len1
  <2>2. previous[len1] \in Nat /\ previous[len1] <= len1
    BY <1>5, <2>1 DEF Finish, IInv, TypeOK, BelowColumn
  <2>3. TypeOK' /\ WithinUnit'
    BY <1>5, <2>1, <2>2 DEF Finish, IInv, TypeOK, WithinUnit
  <2>4. IsLCSLength(previous[len1], ptr_str1, len1, ptr_str2, len2)
    <3>1. j = len2
      BY <1>5, Lengths DEF Finish, IInv, TypeOK
    <3> QED
      BY <1>5, <2>1, <3>1 DEF Finish, IInv, RowsAreLCS
  <2>5. IsLCSLength(previous[len1], arg1, Len(arg1), arg2, Len(arg2))
    <3>1. Len(arg1) \in Nat /\ Len(arg2) \in Nat /\ Exchanged
      BY <1>5 DEF Finish, IInv, TypeOK
    <3>2. CASE Len(arg1) < Len(arg2)
      BY <2>4, <3>1, <3>2, LCSSymmetric DEF Exchanged, len1, len2
    <3>3. CASE ~(Len(arg1) < Len(arg2))
      BY <2>4, <3>1, <3>3 DEF Exchanged, len1, len2
    <3> QED
      BY <3>2, <3>3
  <2>6. SimilarityIsLCS'
    <3>1. result'.num = previous[len1] /\ result'.den = len1
      BY <1>5 DEF Finish
    <3>2. len1 = IF Len(arg1) < Len(arg2) THEN Len(arg2) ELSE Len(arg1)
      BY <1>5 DEF Finish, IInv, Exchanged, len1
    <3> QED
      BY <1>5, <2>5, <3>1, <3>2 DEF Finish, IInv, SimilarityIsLCS
  <2> QED
    BY <1>5, <2>3, <2>6 DEF Finish, IInv, RowsAreLCS
<1>6. CASE UNCHANGED vars
  BY <1>6 DEF vars, IInv, TypeOK, Exchanged, BelowColumn, RowsAreLCS,
              WithinUnit, SimilarityIsLCS, len1, len2
<1> QED
  BY <1>1, <1>2, <1>3, <1>4, <1>5, <1>6 DEF Next

-----------------------------------------------------------------------------

\* The inductive invariant holds throughout every call.
THEOREM Invariant == Spec => []IInv
BY InitIInv, NextIInv, PTL DEF Spec

\* The rows and columns of similarity stay in their domains.
THEOREM TypeCorrect == Spec => []TypeOK
<1>1. IInv => TypeOK
  BY DEF IInv
<1> QED
  BY <1>1, Invariant, PTL

\* string_simil returns a number between 0 and 1 for every two texts.
THEOREM SimilarityWithinUnit == Spec => []WithinUnit
<1>1. IInv => WithinUnit
  BY DEF IInv
<1> QED
  BY <1>1, Invariant, PTL

\* Between two exchanges both rows of simil hold lengths of longest common
\* subsequences, for every two texts.
THEOREM RowsRight == Spec => []RowsAreLCS
<1>1. IInv => RowsAreLCS
  BY DEF IInv
<1> QED
  BY <1>1, Invariant, PTL

\* string_simil returns the length of the longest common subsequence of its
\* arguments over the length of the longer one, whatever they are.
THEOREM SimilarityRight == Spec => []SimilarityIsLCS
<1>1. IInv => SimilarityIsLCS
  BY DEF IInv
<1> QED
  BY <1>1, Invariant, PTL

=============================================================================
