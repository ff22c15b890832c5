----------------------------- MODULE SameProofs -----------------------------
(***************************************************************************)
(* For strings of any length over any alphabet: the walk of same() through *)
(* its table never spins, stays inside the block of the result, and what   *)
(* it collects can be read off both strings.                               *)
(***************************************************************************)
EXTENDS Same, Facts, TLAPS

\* The bytes from..to-1 of p can be read off t behind its first lo bytes.
Suffix(t, lo, from, to, p) ==
  \E f \in [(from + 1)..to -> (lo + 1)..Len(t)] :
    /\ \A a, b \in (from + 1)..to : a < b => f[a] < f[b]
    /\ \A a \in (from + 1)..to : p[a - 1] = t[f[a]]

\* The length of the result, in the last cell of the table.
total == align[len2][len1]

Longer == IF len1 > len2 THEN len1 ELSE len2

\* Row 0 and column 0 of the table are 0; a cell counts no more bytes than
\* either prefix has.
Bordered ==
  /\ \A b \in 0..len1 : align[0][b] = 0
  /\ \A a \in 0..len2 : align[a][0] = 0
  /\ \A a \in 0..len2, b \in 0..len1 : align[a][b] <= a /\ align[a][b] <= b

\* Every cell the fill has passed agrees with its neighbours.
Passed(a, b) == pc = "trace" \/ a < r \/ (a = r /\ b < c)
Recurrence ==
  \A a \in 1..len2, b \in 1..len1 : Passed(a, b) => align[a][b] = Cell(a, b)

\* The bytes still to be collected are those i counts; the ones collected come
\* from behind row r and column c of the two strings.
Collected ==
  /\ r \in 0..len2 /\ c \in 0..len1
  /\ i = align[r][c]
  /\ i <= total
  /\ ptr_result[total] = NUL
  /\ \A n \in i..(total - 1) : ptr_result[n] \in Bytes
  /\ Suffix(str1, c, i, total, ptr_result)
  /\ Suffix(str2, r, i, total, ptr_result)

IInv ==
  /\ TypeOK
  /\ pc \in {"fill", "trace"} => Bordered /\ Recurrence
  /\ TableIsLCS
  /\ pc = "fill" => r \in 1..(len2 + 1) /\ c \in 1..(len1 + 1)
  /\ pc = "trace" => Collected
  /\ status = "text" => pc = "done"
  /\ pc # "done" => result = <<>>
  /\ pc = "done" => \A n \in DOMAIN result : result[n] \in Bytes
  /\ ResultIsCommon
  /\ ResultIsLongest

-----------------------------------------------------------------------------
(* Reading a string off another from behind.                               *)

LEMMA TailEmpty ==
  ASSUME NEW t, NEW lo \in Nat, NEW to \in Nat, NEW p
  PROVE  Suffix(t, lo, to, to, p)
<1> DEFINE f == [a \in (to + 1)..to |-> 0]
<1>1. (to + 1)..to = {}
  OBVIOUS
<1>2. f \in [(to + 1)..to -> (lo + 1)..Len(t)]
  BY <1>1
<1> QED
  BY <1>1, <1>2 DEF Suffix

LEMMA TailWiden ==
  ASSUME NEW t, Len(t) \in Nat, NEW lo \in Nat \ {0}, NEW from \in Nat,
         NEW to \in Nat, NEW p, Suffix(t, lo, from, to, p)
  PROVE  Suffix(t, lo - 1, from, to, p)
<1>1. PICK f \in [(from + 1)..to -> (lo + 1)..Len(t)] :
        /\ \A a, b \in (from + 1)..to : a < b => f[a] < f[b]
        /\ \A a \in (from + 1)..to : p[a - 1] = t[f[a]]
  BY DEF Suffix
<1>2. (lo + 1)..Len(t) \subseteq ((lo - 1) + 1)..Len(t)
  OBVIOUS
<1>3. f \in [(from + 1)..to -> ((lo - 1) + 1)..Len(t)]
  BY <1>2
<1> QED
  BY <1>1, <1>3 DEF Suffix

LEMMA TailExtend ==
  ASSUME NEW t, Len(t) \in Nat, NEW lo \in 1..Len(t), NEW from \in Nat \ {0},
         NEW to \in Nat, from <= to, NEW p, NEW q,
         Suffix(t, lo, from, to, p),
         \A n \in from..(to - 1) : q[n] = p[n],
         q[from - 1] = t[lo]
  PROVE  Suffix(t, lo - 1, from - 1, to, q)
<1>1. PICK f \in [(from + 1)..to -> (lo + 1)..Len(t)] :
        /\ \A a, b \in (from + 1)..to : a < b => f[a] < f[b]
        /\ \A a \in (from + 1)..to : p[a - 1] = t[f[a]]
  BY DEF Suffix
<1> DEFINE g == [a \in ((from - 1) + 1)..to |-> IF a = from THEN lo ELSE f[a]]
<1>2. \A a \in ((from - 1) + 1)..to : a = from \/ a \in (from + 1)..to
  OBVIOUS
<1>3. \A a \in (from + 1)..to : f[a] \in (lo + 1)..Len(t)
  BY <1>1
<1>4. g \in [((from - 1) + 1)..to -> ((lo - 1) + 1)..Len(t)]
  <2>1. ASSUME NEW a \in ((from - 1) + 1)..to
        PROVE  (IF a = from THEN lo ELSE f[a]) \in ((lo - 1) + 1)..Len(t)
    BY <1>2, <1>3
  <2> QED
    BY <2>1
<1>5. \A a, b \in ((from - 1) + 1)..to : a < b => g[a] < g[b]
  <2>1. SUFFICES ASSUME NEW a \in ((from - 1) + 1)..to,
                        NEW b \in ((from - 1) + 1)..to, a < b
                 PROVE  g[a] < g[b]
    OBVIOUS
  <2>2. b \in (from + 1)..to /\ g[b] = f[b]
    BY <2>1
  <2>3. CASE a = from
    BY <1>3, <2>2, <2>3
  <2>4. CASE a # from
    BY <1>1, <1>2, <2>1, <2>2, <2>4
  <2> QED
    BY <2>3, <2>4
<1>6. \A a \in ((from - 1) + 1)..to : q[a - 1] = t[g[a]]
  <2>1. SUFFICES ASSUME NEW a \in ((from - 1) + 1)..to
                 PROVE  q[a - 1] = t[g[a]]
    OBVIOUS
  <2>2. CASE a = from
    BY <2>2
  <2>3. CASE a # from
    <3>1. a \in (from + 1)..to /\ g[a] = f[a]
      BY <1>2, <2>3
    <3>2. a - 1 \in from..(to - 1)
      BY <3>1
    <3> QED
      BY <1>1, <3>1, <3>2
  <2> QED
    BY <2>2, <2>3
<1> QED
  BY <1>4, <1>5, <1>6 DEF Suffix

\* Nothing left to collect: the bytes collected are a subsequence.
LEMMA TailEmbeds ==
  ASSUME NEW t, Len(t) \in Nat, NEW lo \in Nat, NEW to \in Nat, NEW p,
         Suffix(t, lo, 0, to, p)
  PROVE  Embeds([n \in 1..to |-> p[n - 1]], t)
<1> DEFINE u == [n \in 1..to |-> p[n - 1]]
<1>1. PICK f \in [(0 + 1)..to -> (lo + 1)..Len(t)] :
        /\ \A a, b \in (0 + 1)..to : a < b => f[a] < f[b]
        /\ \A a \in (0 + 1)..to : p[a - 1] = t[f[a]]
  BY DEF Suffix
<1>2. Len(u) = to
  OBVIOUS
<1>3. (lo + 1)..Len(t) \subseteq 1..Len(t)
  OBVIOUS
<1>4. f \in Increasing(Len(u), Len(t))
  BY <1>1, <1>2, <1>3 DEF Increasing
<1>5. \A a \in 1..Len(u) : u[a] = t[f[a]]
  BY <1>1, <1>2
<1>6. Embeds(u, t)
  <2> HIDE DEF u
  <2> QED
    BY <1>4, <1>5 DEF Embeds
<1> QED
  BY <1>6

-----------------------------------------------------------------------------
(* The steps.                                                              *)

LEMMA Lengths ==
  ASSUME TypeOK
  PROVE  /\ len1 \in Nat /\ len2 \in Nat /\ Longer \in Nat
         /\ len1 <= Longer /\ len2 <= Longer
BY DEF TypeOK, len1, len2, Longer

LEMMA InitIInv == Init => IInv
<1> SUFFICES ASSUME Init PROVE IInv
  OBVIOUS
<1>1. str1 \in Seq(Bytes) /\ str2 \in Seq(Bytes)
  BY SameAssumption DEF Init
<1>2. TypeOK
  BY <1>1 DEF Init, TypeOK
<1> QED
  BY <1>2 DEF Init, IInv, ResultIsCommon, ResultIsLongest, TableIsLCS

LEMMA EnterIInv == IInv /\ Enter => IInv'
<1> SUFFICES ASSUME IInv, Enter PROVE IInv'
  OBVIOUS
<1>1. len1 \in Nat /\ len2 \in Nat /\ len1' = len1 /\ len2' = len2
  BY Lengths DEF IInv, Enter, len1, len2
<1>2. CASE len1 = 0 \/ len2 = 0
  BY <1>2 DEF IInv, Enter, TypeOK, ResultIsCommon, ResultIsLongest, TableIsLCS
<1>3. CASE ~(len1 = 0 \/ len2 = 0)
  <2>1. /\ align' = [a \in 0..len2 |-> [b \in 0..len1 |-> 0]]
        /\ ptr_result' = [n \in 0..Longer |-> Junk]
        /\ r' = 1 /\ c' = 1 /\ pc' = "fill" /\ pc = "enter"
        /\ UNCHANGED <<str1, str2, i, status, result>>
    BY <1>3 DEF Enter, Longer
  <2>2. align' \in [0..len2 -> [0..len1 -> Nat]]
    BY <2>1
  <2>3. ptr_result' \in [0..Longer -> Bytes \cup {NUL, Junk}]
    BY <2>1
  <2>4. TypeOK'
    BY <1>1, <1>3, <2>1, <2>2, <2>3 DEF IInv, TypeOK, Longer, len1, len2
  <2>5. \A a \in 0..len2, b \in 0..len1 : align'[a][b] = 0
    BY <2>1
  <2>6. Bordered'
    BY <1>1, <2>5 DEF Bordered, len1, len2
  <2>7. Recurrence'
    BY <1>1, <2>1 DEF Recurrence, Passed, len1, len2
  <2>8. r' \in 1..(len2 + 1) /\ c' \in 1..(len1 + 1)
    BY <1>1, <2>1
  <2>9. TableIsLCS'
    <3>1. SUFFICES ASSUME NEW a \in 0..len2, NEW b \in 0..len1, a = 0 \/ b = 0
                   PROVE  IsLCSLength(align'[a][b], str1, b, str2, a)
      BY <1>1, <2>1 DEF TableIsLCS, len1, len2
    <3> QED
      BY <1>1, <2>5, <3>1, EmptyPrefix
  <2> QED
    BY <1>1, <2>1, <2>4, <2>6, <2>7, <2>8, <2>9
       DEF IInv, ResultIsCommon, ResultIsLongest, len1, len2
<1> QED
  BY <1>2, <1>3

\* What FillCell stores fits below its row and its column.
LEMMA CellBounded ==
  ASSUME TypeOK, Bordered, pc = "fill",
         NEW a \in 1..len2, NEW b \in 1..len1
  PROVE  Cell(a, b) \in Nat /\ Cell(a, b) <= a /\ Cell(a, b) <= b
<1>1. len1 \in Nat /\ len2 \in Nat
  BY Lengths
<1>2. /\ a \in 0..len2 /\ a - 1 \in 0..len2
      /\ b \in 0..len1 /\ b - 1 \in 0..len1
  BY <1>1
<1>3. \A m \in 0..len2, n \in 0..len1 :
        align[m][n] \in Nat /\ align[m][n] <= m /\ align[m][n] <= n
  BY DEF TypeOK, Bordered
<1>4. /\ align[a - 1][b - 1] \in Nat
      /\ align[a - 1][b - 1] <= a - 1 /\ align[a - 1][b - 1] <= b - 1
      /\ align[a - 1][b] \in Nat
      /\ align[a - 1][b] <= a - 1 /\ align[a - 1][b] <= b
      /\ align[a][b - 1] \in Nat
      /\ align[a][b - 1] <= a /\ align[a][b - 1] <= b - 1
  BY <1>2, <1>3
<1> QED
  BY <1>2, <1>4 DEF Cell

LEMMA FillCellIInv == IInv /\ FillCell => IInv'
<1> SUFFICES ASSUME IInv, FillCell PROVE IInv'
  OBVIOUS
<1>1. len1 \in Nat /\ len2 \in Nat /\ len1' = len1 /\ len2' = len2
  BY Lengths DEF IInv, FillCell, len1, len2
<1>2. r \in 1..len2 /\ c \in 1..len1 /\ r' = r /\ c' = c + 1
  BY <1>1 DEF IInv, FillCell
<1>3. pc = "fill" /\ pc' = "fill" /\ TypeOK /\ Bordered /\ Recurrence
  BY DEF IInv, FillCell
<1>4. Cell(r, c) \in Nat /\ Cell(r, c) <= r /\ Cell(r, c) <= c
  BY <1>2, <1>3, CellBounded
<1>5. align \in [0..len2 -> [0..len1 -> Nat]]
  BY <1>3 DEF TypeOK
<1>6. align' = [align EXCEPT ![r][c] = Cell(r, c)]
  BY DEF FillCell
<1>7. align' \in [0..len2 -> [0..len1 -> Nat]]
  BY <1>1, <1>2, <1>4, <1>5, <1>6
<1>8. \A a \in 0..len2, b \in 0..len1 :
        align'[a][b] = IF a = r /\ b = c THEN Cell(r, c) ELSE align[a][b]
  BY <1>1, <1>2, <1>5, <1>6
<1>9. TypeOK'
  BY <1>1, <1>2, <1>3, <1>7 DEF FillCell, TypeOK, len1, len2
<1>10. Bordered'
  <2>1. \A b \in 0..len1 : align'[0][b] = 0
    BY <1>1, <1>2, <1>3, <1>8 DEF Bordered
  <2>2. \A a \in 0..len2 : align'[a][0] = 0
    BY <1>1, <1>2, <1>3, <1>8 DEF Bordered
  <2>3. \A a \in 0..len2, b \in 0..len1 : align'[a][b] <= a /\ align'[a][b] <= b
    BY <1>3, <1>4, <1>8 DEF Bordered
  <2> QED
    BY <1>1, <2>1, <2>2, <2>3 DEF Bordered
<1>11. Recurrence'
  <2>1. SUFFICES ASSUME NEW a \in 1..len2, NEW b \in 1..len1, Passed(a, b)'
                 PROVE  (align[a][b] = Cell(a, b))'
    BY <1>1 DEF Recurrence
  <2>2. a < r \/ (a = r /\ b <= c)
    BY <1>2, <1>3, <2>1 DEF Passed
  <2>3. /\ a - 1 \in 0..len2 /\ a \in 0..len2
        /\ b - 1 \in 0..len1 /\ b \in 0..len1
    BY <1>1
  <2>4. /\ align'[a - 1][b - 1] = align[a - 1][b - 1]
        /\ align'[a - 1][b] = align[a - 1][b]
        /\ align'[a][b - 1] = align[a][b - 1]
    BY <1>2, <1>8, <2>2, <2>3
  <2>5. Cell(a, b)' = Cell(a, b)
    BY <2>4 DEF FillCell, Cell
  <2>6. CASE a = r /\ b = c
    BY <1>8, <2>3, <2>5, <2>6
  <2>7. CASE ~(a = r /\ b = c)
    <3>1. Passed(a, b)
      BY <1>2, <2>2, <2>7 DEF Passed
    <3> QED
      BY <1>3, <1>8, <2>3, <2>5, <2>7, <3>1 DEF Recurrence
  <2> QED
    BY <2>6, <2>7
<1>12. r' \in 1..(len2' + 1) /\ c' \in 1..(len1' + 1)
  BY <1>1, <1>2 DEF len1, len2
<1>13. TableIsLCS'
  <2>1. SUFFICES ASSUME NEW a \in 0..len2, NEW b \in 0..len1,
                        a < r \/ (a = r /\ b <= c)
                 PROVE  IsLCSLength(align'[a][b], str1, b, str2, a)
    BY <1>1, <1>2, <1>3 DEF TableIsLCS, FillCell, len1, len2
  <2>2. \A m \in 0..len2, n \in 0..len1 :
          m < r \/ (m = r /\ n < c) => IsLCSLength(align[m][n], str1, n, str2, m)
    BY <1>3 DEF IInv, TableIsLCS
  <2>3. CASE a = r /\ b = c
    <3> DEFINE r1 == r - 1
               c1 == c - 1
               diagonal == align[r1][c1]
               up       == align[r1][c]
               left     == align[r][c1]
    <3>1. /\ r1 \in 0..len2 /\ r \in 0..len2 /\ r1 = r - 1
          /\ c1 \in 0..len1 /\ c \in 0..len1 /\ c1 = c - 1
          /\ r \in Nat \ {0} /\ c \in Nat \ {0}
      BY <1>1, <1>2
    <3>2. /\ IsLCSLength(diagonal, str1, c1, str2, r1)
          /\ IsLCSLength(up, str1, c, str2, r1)
          /\ IsLCSLength(left, str1, c1, str2, r)
      BY <2>2, <3>1
    <3>3. Cell(r, c) = IF str1[c] = str2[r] THEN diagonal + 1
                       ELSE IF up >= left THEN up ELSE left
      BY DEF Cell
    <3> HIDE DEF r1, c1, diagonal, up, left
    <3>4. IsLCSLength(Cell(r, c), str1, c, str2, r)
      <4>1. CASE str1[c] = str2[r]
        BY <3>1, <3>2, <3>3, <4>1, LCSRecurrence
      <4>2. CASE str1[c] # str2[r] /\ up >= left
        BY <3>1, <3>2, <3>3, <4>2, LCSRecurrence
      <4>3. CASE str1[c] # str2[r] /\ ~(up >= left)
        BY <3>1, <3>2, <3>3, <4>3, LCSRecurrence
      <4> QED
        BY <4>1, <4>2, <4>3
    <3> QED
      BY <1>8, <2>3, <3>1, <3>4
  <2>4. CASE ~(a = r /\ b = c)
    BY <1>2, <1>8, <2>1, <2>2, <2>4
  <2> QED
    BY <2>3, <2>4
<1> QED
  BY <1>3, <1>9, <1>10, <1>11, <1>12, <1>13
     DEF IInv, FillCell, ResultIsCommon, ResultIsLongest

LEMMA NextRowIInv == IInv /\ NextRow => IInv'
<1> SUFFICES ASSUME IInv, NextRow PROVE IInv'
  OBVIOUS
<1>1. len1 \in Nat /\ len2 \in Nat /\ len1' = len1 /\ len2' = len2
  BY Lengths DEF IInv, NextRow, len1, len2
<1>2. /\ pc = "fill" /\ pc' = "fill" /\ r \in 1..len2 /\ c = len1 + 1
      /\ r' = r + 1 /\ c' = 1 /\ TypeOK /\ Bordered /\ Recurrence
  BY <1>1 DEF IInv, NextRow
<1>3. TypeOK'
  BY <1>2 DEF NextRow, TypeOK, len1, len2
<1>4. Bordered'
  BY <1>2 DEF NextRow, Bordered, len1, len2
<1>5. Recurrence'
  <2>1. SUFFICES ASSUME NEW a \in 1..len2, NEW b \in 1..len1, Passed(a, b)'
                 PROVE  (align[a][b] = Cell(a, b))'
    BY <1>1 DEF Recurrence
  <2>2. Passed(a, b)
    BY <1>1, <1>2, <2>1 DEF Passed
  <2>3. Cell(a, b)' = Cell(a, b)
    BY DEF NextRow, Cell
  <2> QED
    BY <1>2, <2>2, <2>3 DEF Recurrence, NextRow
<1>6. r' \in 1..(len2' + 1) /\ c' \in 1..(len1' + 1)
  BY <1>1, <1>2 DEF len1, len2
<1>7. TableIsLCS'
  <2>1. SUFFICES ASSUME NEW a \in 0..len2, NEW b \in 0..len1,
                        a < r \/ a = r \/ (a = r + 1 /\ b = 0)
                 PROVE  IsLCSLength(align[a][b], str1, b, str2, a)
    BY <1>1, <1>2 DEF TableIsLCS, NextRow, len1, len2
  <2>2. CASE a = r + 1 /\ b = 0
    <3>1. align[a][b] = 0
      BY <1>2, <2>2 DEF Bordered
    <3> QED
      BY <1>1, <2>2, <3>1, EmptyPrefix
  <2>3. CASE a < r \/ a = r
    BY <1>1, <1>2, <2>3 DEF IInv, TableIsLCS
  <2> QED
    BY <2>1, <2>2, <2>3
<1> QED
  BY <1>2, <1>3, <1>4, <1>5, <1>6, <1>7
     DEF IInv, NextRow, ResultIsCommon, ResultIsLongest

\* From the fill to the walk back the table stays as it is.
LEMMA TableKept ==
  ASSUME TypeOK, Bordered, Recurrence, TableIsLCS,
         UNCHANGED <<str1, str2, align>>,
         pc' = "trace", pc = "trace" \/ (pc = "fill" /\ r > len2)
  PROVE  Bordered' /\ Recurrence' /\ TableIsLCS'
<1>1. len1 \in Nat /\ len2 \in Nat /\ len1' = len1 /\ len2' = len2
  BY Lengths DEF len1, len2
<1>2. Bordered'
  BY DEF Bordered, len1, len2
<1>3. TableIsLCS'
  BY <1>1 DEF TableIsLCS, TypeOK, len1, len2
<1>4. SUFFICES ASSUME NEW a \in 1..len2, NEW b \in 1..len1
               PROVE  (align[a][b] = Cell(a, b))'
  BY <1>1, <1>2, <1>3 DEF Recurrence
<1>5. Passed(a, b)
  BY <1>1 DEF Passed, TypeOK
<1>6. Cell(a, b)' = Cell(a, b)
  BY DEF Cell
<1> QED
  BY <1>5, <1>6 DEF Recurrence

LEMMA StartTraceIInv == IInv /\ StartTrace => IInv'
<1> SUFFICES ASSUME IInv, StartTrace PROVE IInv'
  OBVIOUS
<1>1. /\ len1 \in Nat /\ len2 \in Nat /\ Longer \in Nat
      /\ len1 <= Longer /\ len2 <= Longer
      /\ len1' = len1 /\ len2' = len2
  BY Lengths DEF IInv, StartTrace, len1, len2
<1>2. /\ pc = "fill" /\ pc' = "trace" /\ r > len2
      /\ TypeOK /\ Bordered /\ Recurrence /\ TableIsLCS
      /\ UNCHANGED <<str1, str2, align, status, result>>
      /\ r' = len2 /\ c' = len1 /\ i' = total
      /\ ptr_result' = [ptr_result EXCEPT ![total] = NUL]
  BY DEF IInv, StartTrace, total
<1>3. total \in 0..Longer /\ total \in Nat
  BY <1>1, <1>2 DEF TypeOK, Bordered, total
<1>4. ptr_result \in [0..Longer -> Bytes \cup {NUL, Junk}]
  BY <1>2 DEF TypeOK, Longer
<1>5. /\ ptr_result' \in [0..Longer -> Bytes \cup {NUL, Junk}]
      /\ ptr_result'[total] = NUL
  BY <1>2, <1>3, <1>4
<1>6. TypeOK'
  BY <1>1, <1>2, <1>3, <1>5 DEF TypeOK, Longer, len1, len2
<1>7. total' = total
  BY <1>1, <1>2 DEF total, len1, len2
<1>8. /\ Suffix(str1, len1, total, total, ptr_result')
      /\ Suffix(str2, len2, total, total, ptr_result')
  BY <1>1, <1>3, TailEmpty
<1>9. Collected'
  <2>1. r' \in 0..len2' /\ c' \in 0..len1'
    BY <1>1, <1>2 DEF len1, len2
  <2>2. i' = align'[r'][c'] /\ i' <= total'
    BY <1>2, <1>3, <1>7 DEF total
  <2>3. \A n \in i'..(total' - 1) : ptr_result'[n] \in Bytes
    BY <1>2, <1>3, <1>7
  <2>4. Suffix(str1, c, i, total, ptr_result)'
    BY <1>2, <1>7, <1>8
  <2>5. Suffix(str2, r, i, total, ptr_result)'
    BY <1>2, <1>7, <1>8
  <2> QED
    BY <1>5, <1>7, <2>1, <2>2, <2>3, <2>4, <2>5 DEF Collected
<1>10. Bordered' /\ Recurrence' /\ TableIsLCS'
  BY <1>2, TableKept
<1> QED
  BY <1>2, <1>6, <1>9, <1>10 DEF IInv, ResultIsCommon, ResultIsLongest

-----------------------------------------------------------------------------
(* The walk back.                                                          *)

\* What the three branches find in the table: a cell that differs from both
\* neighbours was filled from the diagonal, on a byte the strings share.
LEMMA Branches ==
  ASSUME IInv, Walking
  PROVE  /\ r \in 1..len2 /\ c \in 1..len1
         /\ ~SameAbove /\ ~SameLeft =>
              LessOnDiagonal /\ str1[c] = str2[r]
<1>1. len1 \in Nat /\ len2 \in Nat
  BY Lengths DEF IInv
<1>2. r \in 1..len2 /\ c \in 1..len1 /\ i = align[r][c] /\ pc = "trace"
  BY <1>1 DEF IInv, Walking, Collected
<1>3. align[r][c] = Cell(r, c)
  BY <1>2 DEF IInv, Recurrence, Passed
<1>4. align[r - 1][c - 1] \in Nat
  <2>1. r - 1 \in 0..len2 /\ c - 1 \in 0..len1
    BY <1>1, <1>2
  <2> QED
    BY <1>2, <2>1 DEF IInv, TypeOK
<1> QED
  BY <1>2, <1>3, <1>4 DEF Cell, SameAbove, SameLeft, LessOnDiagonal

\* The walk never finds itself without a branch to take.
LEMMA IInvImpliesNeverSpins == IInv => NeverSpins
BY Branches DEF NeverSpins

\* What a step of the walk has to show of the row, the column and the bytes.
LEMMA WalkIInv ==
  ASSUME IInv, Walking, pc' = "trace",
         UNCHANGED <<str1, str2, align, status, result>>,
         r' \in 0..len2, c' \in 0..len1, i' = align[r'][c'], i' <= total,
         ptr_result' \in [0..Longer -> Bytes \cup {NUL, Junk}],
         ptr_result'[total] = NUL,
         \A n \in i'..(total - 1) : ptr_result'[n] \in Bytes,
         Suffix(str1, c', i', total, ptr_result'),
         Suffix(str2, r', i', total, ptr_result')
  PROVE  IInv'
<1>1. /\ len1 \in Nat /\ len2 \in Nat
      /\ len1' = len1 /\ len2' = len2 /\ total' = total
  BY Lengths DEF IInv, len1, len2, total
<1>2. pc = "trace" /\ TypeOK /\ Bordered /\ Recurrence /\ TableIsLCS
  BY DEF IInv, Walking
<1>3. i' \in Nat
  BY <1>2 DEF TypeOK
<1>4. TypeOK'
  BY <1>1, <1>2, <1>3 DEF TypeOK, Longer, len1, len2
<1>5. Bordered' /\ Recurrence' /\ TableIsLCS'
  BY <1>2, TableKept
<1>6. Collected'
  BY <1>1 DEF Collected, len1, len2
<1> QED
  BY <1>2, <1>4, <1>5, <1>6 DEF IInv, ResultIsCommon, ResultIsLongest

LEMMA StepUpIInv == IInv /\ StepUp => IInv'
<1> SUFFICES ASSUME IInv, StepUp PROVE IInv'
  OBVIOUS
<1>1. /\ Walking /\ pc = "trace" /\ pc' = "trace" /\ Collected /\ TypeOK
      /\ r' = r - 1 /\ c' = c /\ i' = align[r'][c]
      /\ UNCHANGED <<str1, str2, align, status, result, ptr_result>>
  BY DEF IInv, StepUp, Walking
<1>2. len1 \in Nat /\ len2 \in Nat
  BY <1>1, Lengths
<1>3. r \in 1..len2 /\ c \in 1..len1
  BY <1>1, Branches
<1>4. i' = i /\ i \in Nat
  BY <1>1 DEF StepUp, SameAbove, TypeOK
<1>5. total \in Nat
  BY <1>2 DEF total, TypeOK, IInv, StepUp, Walking
<1>6. Suffix(str2, r - 1, i, total, ptr_result)
  BY <1>1, <1>2, <1>3, <1>4, <1>5, TailWiden DEF Collected, len2
<1>7. ptr_result \in [0..Longer -> Bytes \cup {NUL, Junk}]
  BY <1>1 DEF TypeOK, Longer
<1>8. r' \in 0..len2 /\ c' \in 0..len1
  BY <1>1, <1>2, <1>3
<1> QED
  BY <1>1, <1>4, <1>6, <1>7, <1>8, WalkIInv DEF Collected

LEMMA StepLeftIInv == IInv /\ StepLeft => IInv'
<1> SUFFICES ASSUME IInv, StepLeft PROVE IInv'
  OBVIOUS
<1>1. /\ Walking /\ pc = "trace" /\ pc' = "trace" /\ Collected /\ TypeOK
      /\ r' = r /\ c' = c - 1 /\ i' = align[r][c']
      /\ UNCHANGED <<str1, str2, align, status, result, ptr_result>>
  BY DEF IInv, StepLeft, Walking
<1>2. len1 \in Nat /\ len2 \in Nat
  BY <1>1, Lengths
<1>3. r \in 1..len2 /\ c \in 1..len1
  BY <1>1, Branches
<1>4. i' = i /\ i \in Nat
  BY <1>1 DEF StepLeft, SameLeft, TypeOK
<1>5. total \in Nat
  BY <1>2 DEF total, TypeOK, IInv, StepLeft, Walking
<1>6. Suffix(str1, c - 1, i, total, ptr_result)
  BY <1>1, <1>2, <1>3, <1>4, <1>5, TailWiden DEF Collected, len1
<1>7. ptr_result \in [0..Longer -> Bytes \cup {NUL, Junk}]
  BY <1>1 DEF TypeOK, Longer
<1>8. r' \in 0..len2 /\ c' \in 0..len1
  BY <1>1, <1>2, <1>3
<1> QED
  BY <1>1, <1>4, <1>6, <1>7, <1>8, WalkIInv DEF Collected

LEMMA TakeByteIInv == IInv /\ TakeByte => IInv'
<1> SUFFICES ASSUME IInv, TakeByte PROVE IInv'
  OBVIOUS
<1>1. /\ Walking /\ pc = "trace" /\ pc' = "trace" /\ Collected /\ TypeOK
      /\ r' = r - 1 /\ c' = c - 1 /\ i' = align[r'][c'] /\ i > 0
      /\ ptr_result' = [ptr_result EXCEPT ![i - 1] = str2[r]]
      /\ UNCHANGED <<str1, str2, align, status, result>>
  BY DEF IInv, TakeByte, Walking
<1>2. /\ len1 \in Nat /\ len2 \in Nat /\ Longer \in Nat
      /\ len1 <= Longer /\ len2 <= Longer
  BY <1>1, Lengths
<1>3. r \in 1..len2 /\ c \in 1..len1 /\ str1[c] = str2[r]
  BY <1>1, Branches DEF TakeByte
<1>4. i' = i - 1 /\ i \in Nat \ {0} /\ i' \in Nat
  BY <1>1 DEF TakeByte, LessOnDiagonal, TypeOK
<1>5. total \in Nat /\ total <= Longer /\ i <= total
  <2>1. align \in [0..len2 -> [0..len1 -> Nat]] /\ Bordered
    BY <1>1 DEF IInv, TypeOK
  <2>2. total \in Nat /\ total <= len2
    BY <1>2, <2>1 DEF total, Bordered
  <2> QED
    BY <1>1, <1>2, <2>2 DEF Collected
<1>6. ptr_result \in [0..Longer -> Bytes \cup {NUL, Junk}]
  BY <1>1 DEF TypeOK, Longer
<1>7. str2[r] \in Bytes
  BY <1>1, <1>3 DEF TypeOK, len2
<1>8. i - 1 \in 0..Longer /\ total \in 0..Longer
  BY <1>2, <1>4, <1>5
<1>9. ptr_result' \in [0..Longer -> Bytes \cup {NUL, Junk}]
  BY <1>1, <1>6, <1>7
<1>10. /\ ptr_result'[i - 1] = str2[r]
       /\ \A n \in 0..Longer : n # i - 1 => ptr_result'[n] = ptr_result[n]
  BY <1>1, <1>6, <1>8
<1>11. ptr_result'[total] = NUL
  BY <1>1, <1>4, <1>5, <1>8, <1>10 DEF Collected
<1>12. \A n \in i..(total - 1) : ptr_result'[n] = ptr_result[n]
  BY <1>2, <1>4, <1>5, <1>10
<1>13. \A n \in i'..(total - 1) : ptr_result'[n] \in Bytes
  <2>1. \A n \in i'..(total - 1) : n = i - 1 \/ n \in i..(total - 1)
    BY <1>4, <1>5
  <2> QED
    BY <1>1, <1>7, <1>10, <1>12, <2>1 DEF Collected
<1>14. Suffix(str1, c - 1, i - 1, total, ptr_result')
  BY <1>1, <1>2, <1>3, <1>4, <1>5, <1>10, <1>12, TailExtend
     DEF Collected, len1
<1>15. Suffix(str2, r - 1, i - 1, total, ptr_result')
  BY <1>1, <1>2, <1>3, <1>4, <1>5, <1>10, <1>12, TailExtend
     DEF Collected, len2
<1>16. r' \in 0..len2 /\ c' \in 0..len1 /\ i' <= total
  BY <1>1, <1>2, <1>3, <1>4, <1>5
<1> QED
  BY <1>1, <1>4, <1>9, <1>11, <1>13, <1>14, <1>15, <1>16, WalkIInv

\* strlen stops at the NUL of StartTrace.
LEMMA Strlen ==
  ASSUME IInv, pc = "trace", i = 0
  PROVE  strlen = total
<1>1. total \in DOMAIN ptr_result /\ total \in Nat
  <2>1. /\ len1 \in Nat /\ len2 \in Nat /\ Longer \in Nat
        /\ len1 <= Longer /\ len2 <= Longer
    BY Lengths DEF IInv
  <2>2. total \in 0..Longer
    BY <2>1, SMTT(30) DEF IInv, TypeOK, Bordered, total
  <2>3. ptr_result \in [0..Longer -> Bytes \cup {NUL, Junk}]
    BY DEF IInv, TypeOK, Longer
  <2> QED
    BY <2>2, <2>3
<1>2. ptr_result[total] = NUL /\ \A m \in 0..(total - 1) : ptr_result[m] # NUL
  BY SameAssumption DEF IInv, Collected
<1>3. DOMAIN ptr_result \subseteq Nat
  BY DEF IInv, TypeOK
<1>4. \A n \in DOMAIN ptr_result :
        (ptr_result[n] = NUL /\ \A m \in 0..(n - 1) : ptr_result[m] # NUL)
          => n = total
  <2>1. SUFFICES ASSUME NEW n \in DOMAIN ptr_result, ptr_result[n] = NUL,
                        \A m \in 0..(n - 1) : ptr_result[m] # NUL
                 PROVE  n = total
    OBVIOUS
  <2>2. n \in Nat
    BY <1>3
  <2>3. ~(n < total)
    BY <1>1, <1>2, <2>1, <2>2
  <2>4. ~(total < n)
    BY <1>1, <1>2, <2>1, <2>2
  <2> QED
    BY <1>1, <2>2, <2>3, <2>4
<1> QED
  BY <1>1, <1>2, <1>4 DEF strlen

LEMMA FinishIInv == IInv /\ Finish => IInv'
<1> SUFFICES ASSUME IInv, Finish PROVE IInv'
  OBVIOUS
<1>1. /\ pc = "trace" /\ pc' = "done" /\ status' = "text" /\ ~Walking
      /\ result' = [n \in 1..strlen |-> ptr_result[n - 1]]
      /\ UNCHANGED <<str1, str2, align, r, c, i, ptr_result>>
      /\ Collected /\ TypeOK /\ Bordered
  BY DEF IInv, Finish
<1>2. len1 \in Nat /\ len2 \in Nat
  BY <1>1, Lengths
<1>3. i = 0
  BY <1>1, <1>2 DEF Walking, Collected, Bordered, TypeOK
<1>4. total \in Nat /\ strlen = total
  BY <1>1, <1>2, <1>3, Strlen DEF total, TypeOK
<1>5. result' = [n \in 1..total |-> ptr_result[n - 1]]
  BY <1>1, <1>4
<1>6. /\ r \in Nat /\ c \in Nat
      /\ Suffix(str1, c, 0, total, ptr_result)
      /\ Suffix(str2, r, 0, total, ptr_result)
      /\ Len(str1) \in Nat /\ Len(str2) \in Nat
  BY <1>1, <1>3 DEF Collected, TypeOK
<1>7. Embeds(result', str1) /\ Embeds(result', str2)
  BY <1>4, <1>5, <1>6, TailEmbeds
<1>8. \A n \in DOMAIN result' : result'[n] \in Bytes
  BY <1>1, <1>3, <1>4, <1>5 DEF Collected
<1>9. TypeOK'
  BY <1>1 DEF TypeOK
<1>10. IsLCSLength(Len(result'), str1, len1, str2, len2)
  <2>1. len1 \in 0..len1 /\ len2 \in 0..len2
    BY <1>2
  <2>2. IsLCSLength(total, str1, len1, str2, len2)
    BY <1>1, <2>1 DEF IInv, TableIsLCS, total
  <2>3. Len(result') = total
    BY <1>4, <1>5
  <2> QED
    BY <2>2, <2>3
<1>11. ResultIsLongest'
  BY <1>1, <1>10 DEF ResultIsLongest, len1, len2
<1>12. TableIsLCS'
  BY <1>1 DEF TableIsLCS
<1> QED
  BY <1>1, <1>7, <1>8, <1>9, <1>11, <1>12 DEF IInv, ResultIsCommon, Common

LEMMA NextIInv == IInv /\ [Next]_vars => IInv'
<1> SUFFICES ASSUME IInv, [Next]_vars PROVE IInv'
  OBVIOUS
<1>1. CASE UNCHANGED vars
  BY <1>1 DEF vars, IInv, TypeOK, Bordered, Recurrence, Passed, Collected,
              Cell, total, TableIsLCS, ResultIsCommon, ResultIsLongest,
              len1, len2
<1> QED
  BY <1>1, EnterIInv, FillCellIInv, NextRowIInv, StartTraceIInv, StepUpIInv,
     StepLeftIInv, TakeByteIInv, FinishIInv DEF Next

-----------------------------------------------------------------------------

\* The inductive invariant holds throughout every call.
THEOREM Invariant == Spec => []IInv
BY InitIInv, NextIInv, PTL DEF Spec

\* The variables of same() keep their types for every pair of strings.
THEOREM TypeCorrect == Spec => []TypeOK
<1>1. IInv => TypeOK
  BY DEF IInv
<1> QED
  BY <1>1, Invariant, PTL

\* For every pair of strings the walk back always has a branch to take: the
\* loop of the code, which has no final else, cannot spin.
THEOREM WalkNeverSpins == Spec => []NeverSpins
BY Invariant, IInvImpliesNeverSpins, PTL

\* The walk writes inside the result's block, and the text returned consists of
\* bytes written by it.
THEOREM ResultStaysInBlock == Spec => []ResultInBlock
<1>1. IInv => ResultInBlock
  <2> SUFFICES ASSUME IInv PROVE ResultInBlock
    OBVIOUS
  <2>1. /\ len1 \in Nat /\ len2 \in Nat /\ Longer \in Nat
        /\ len1 <= Longer /\ len2 <= Longer
    BY Lengths DEF IInv
  <2>2. ASSUME pc = "trace" PROVE i \in 0..Longer
    <3>1. r \in 0..len2 /\ c \in 0..len1 /\ i = align[r][c]
      BY <2>2 DEF IInv, Collected
    <3>2. i \in Nat /\ i <= c
      BY <2>2, <3>1 DEF IInv, TypeOK, Bordered
    <3> QED
      BY <2>1, <3>1, <3>2
  <2>3. pc = "trace" => DOMAIN ptr_result = 0..Longer
    BY DEF IInv, TypeOK, Longer
  <2>4. pc = "done" => \A n \in DOMAIN result : result[n] \in Bytes
    BY DEF IInv
  <2> QED
    BY <2>2, <2>3, <2>4 DEF ResultInBlock
<1> QED
  BY <1>1, Invariant, PTL

\* The table of same() holds the length of the longest common subsequence of
\* every pair of prefixes the fill has passed.
THEOREM TableRight == Spec => []TableIsLCS
<1>1. IInv => TableIsLCS
  BY DEF IInv
<1> QED
  BY <1>1, Invariant, PTL

\* No common subsequence of the arguments is longer than the text string_same
\* returns, whatever they are.
THEOREM ResultLongest == Spec => []ResultIsLongest
<1>1. IInv => ResultIsLongest
  BY DEF IInv
<1> QED
  BY <1>1, Invariant, PTL

\* The text string_same returns is a common subsequence of its arguments,
\* whatever they are.
THEOREM ResultCommon == Spec => []ResultIsCommon
<1>1. IInv => ResultIsCommon
  BY DEF IInv
<1> QED
  BY <1>1, Invariant, PTL

-----------------------------------------------------------------------------
(* Every call comes to an end.                                             *)

\* What is left to do: the phases, in a phase the rows, in a row the columns.
\* The walk goes up or left, or both at once.
Phases  == IF pc = "enter" THEN 3 ELSE IF pc = "fill" THEN 2 ELSE IF pc = "trace" THEN 1 ELSE 0
Rows    == IF pc = "fill" THEN len2 + 1 - r ELSE r + c
Columns == IF pc = "fill" THEN len1 + 1 - c ELSE 0

LessLeft ==
  \/ Phases' < Phases
  \/ Phases' = Phases /\ Rows' < Rows
  \/ Phases' = Phases /\ Rows' = Rows /\ Columns' < Columns

\* A step leaves less, in an order without infinite descent.
GoesOn == Phases \in 0..3 /\ Rows \in Nat /\ Columns \in Nat /\ LessLeft

LEMMA LeftIsCounted == IInv => Phases \in 0..3 /\ Rows \in Nat /\ Columns \in Nat
<1> SUFFICES ASSUME IInv PROVE Phases \in 0..3 /\ Rows \in Nat /\ Columns \in Nat
  OBVIOUS
<1>1. len1 \in Nat /\ len2 \in Nat
  BY Lengths DEF IInv
<1>2. r \in Nat /\ c \in Nat
  BY DEF IInv, TypeOK
<1>3. pc = "fill" => r \in 1..(len2 + 1) /\ c \in 1..(len1 + 1)
  BY DEF IInv
<1> QED
  BY <1>1, <1>2, <1>3 DEF Phases, Rows, Columns

\* string_same cannot go on for ever, whatever its arguments: every step leaves
\* less to do.  That the walk has a step to take is WalkNeverSpins.
THEOREM EveryStepGoesOn == Spec => [][GoesOn]_vars
<1>1. IInv /\ Next => LessLeft
  <2> SUFFICES ASSUME IInv, Next PROVE LessLeft
    OBVIOUS
  <2>1. /\ len1 \in Nat /\ len2 \in Nat /\ r \in Nat /\ c \in Nat
        /\ pc = "fill" => r \in 1..(len2 + 1) /\ c \in 1..(len1 + 1)
    BY Lengths DEF IInv, TypeOK
  <2>2. CASE Enter
    BY <2>2 DEF Enter, LessLeft, Phases
  <2>3. CASE FillCell
    <3>1. /\ pc = "fill" /\ pc' = "fill" /\ r' = r /\ c' = c + 1
          /\ len1' = len1 /\ len2' = len2
      BY <2>3 DEF FillCell, len1, len2
    <3> QED
      BY <2>1, <3>1 DEF LessLeft, Phases, Rows, Columns
  <2>4. CASE NextRow
    <3>1. pc = "fill" /\ pc' = "fill" /\ r' = r + 1 /\ len2' = len2
      BY <2>4 DEF NextRow, len2
    <3> QED
      BY <2>1, <3>1 DEF LessLeft, Phases, Rows
  <2>5. CASE StartTrace
    BY <2>5 DEF StartTrace, LessLeft, Phases
  <2>6. CASE StepUp \/ StepLeft \/ TakeByte
    <3>1. /\ pc = "trace" /\ pc' = "trace"
          /\ \/ r' = r - 1 /\ c' = c
             \/ r' = r /\ c' = c - 1
             \/ r' = r - 1 /\ c' = c - 1
      BY <2>6 DEF StepUp, StepLeft, TakeByte, Walking
    <3> QED
      BY <2>1, <3>1 DEF LessLeft, Phases, Rows
  <2>7. CASE Finish
    BY <2>7 DEF Finish, LessLeft, Phases
  <2> QED
    BY <2>2, <2>3, <2>4, <2>5, <2>6, <2>7 DEF Next
<1>2. IInv /\ [Next]_vars => [GoesOn]_vars
  BY <1>1, LeftIsCounted DEF GoesOn
<1> QED
  BY <1>2, Invariant, PTL DEF Spec
=============================================================================
