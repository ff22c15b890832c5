------------------------- MODULE SplitStringProofs -------------------------
(***************************************************************************)
(* For texts, split sizes and an allocation limit of any size: the windows *)
(* of split_string stay inside the block allocated for them, no byte is    *)
(* read behind the text, and the array holds the windows of characters.    *)
(***************************************************************************)
EXTENDS SplitString, Facts, TLAPS

\* The room one window may take: its header and split_size characters of the
\* longest kind.
Room == VARHDRSZ + split_size * UTF8_MAX_SIZE

\* The window being measured has counted j characters of at most
\* UTF8_MAX_SIZE bytes, and no more characters than fit in its room.
Measured ==
  pc = "measure" =>
    /\ i < array_size
    /\ j \in Nat \ {0}
    /\ j = 1 \/ j <= item_count
    /\ utf8_mem_size <= j * UTF8_MAX_SIZE

\* The windows written used at most their rooms, and the block was sized from
\* the number of rooms, modulo the width of unsigned int.
Written ==
  /\ i <= array_size
  /\ split_size >= 1 => ptr_val_tmp <= i * Room
  /\ pc \in {"enter", "test", "count"} => i = 0
  /\ pc \in {"window", "measure"} \/ i > 0 => capacity = (array_size * Room) % Modulus

\* The inductive invariant: CopyInBounds alone says nothing of how far the
\* current window may still grow.
IInv == TypeOK /\ Measured /\ Written

-----------------------------------------------------------------------------

\* More rooms of the same size take more space.
LEMMA ProductMonotone ==
  ASSUME NEW a \in Nat, NEW b \in Nat, NEW k \in Nat, a <= b
  PROVE  a * k <= b * k
<1>1. PICK d \in Nat : b = a + d
  BY b - a \in Nat
<1>2. b * k = a * k + d * k
  BY <1>1
<1>3. d * k \in Nat /\ a * k \in Nat
  BY <1>1
<1> QED
  BY <1>2, <1>3

\* The length table gives every byte, inside the text or after it, a length
\* from 1 to UTF8_MAX_SIZE.
LEMMA LengthOfAByte ==
  ASSUME TypeOK, NEW p \in Nat
  PROVE  UTF8LEN(p) \in 1..UTF8_MAX_SIZE
<1>1. CASE p < Len(text)
  <2>1. text \in Seq(1..6)
    BY DEF TypeOK
  <2>2. p + 1 \in 1..Len(text)
    BY <1>1, <2>1
  <2>3. text[p + 1] \in 1..6
    BY <2>1, <2>2
  <2> QED
    BY <1>1, <2>3 DEF UTF8LEN, UTF8_MAX_SIZE
<1>2. CASE ~(p < Len(text))
  BY <1>2 DEF TypeOK, UTF8LEN, UTF8_MAX_SIZE, Stray, NUL
<1> QED
  BY <1>1, <1>2

-----------------------------------------------------------------------------

LEMMA InitIInv == Init => IInv
BY SplitAssumption
   DEF Init, IInv, TypeOK, Measured, Written, Stray, NUL, UTF8_MAX_SIZE, Room,
       VARHDRSZ

LEMMA NextIInv == IInv /\ [Next]_vars => IInv'
<1> SUFFICES ASSUME IInv, [Next]_vars PROVE IInv'
  OBVIOUS
<1> USE DEF IInv, callVars, countVars, blockVars
<1>1. CASE CheckSplitSize
  BY <1>1 DEF CheckSplitSize, loopVars, TypeOK, Measured, Written, Room,
              item_count
<1>2. CASE TestEmpty
  BY <1>2 DEF TestEmpty, loopVars, TypeOK, Measured, Written, Room, item_count
<1>3. CASE CountCharacter
  <2>1. UTF8LEN(scan) \in Nat
    <3>1. scan \in Nat
      BY DEF TypeOK
    <3>2. UTF8LEN(scan) \in 1..6
      BY <3>1, LengthOfAByte DEF UTF8_MAX_SIZE
    <3> QED
      BY <3>2
  <2> QED
    BY <1>3, <2>1 DEF CountCharacter, loopVars, TypeOK, Measured, Written, Room
<1>4. CASE Allocate
  <2>1. array_size' \in Nat
    BY <1>4 DEF Allocate, windows, block_size, TypeOK
  <2>2. array_size' * VARHDRSZ + (array_size' * split_size) * UTF8_MAX_SIZE
          = array_size' * Room
    BY <2>1 DEF TypeOK, Room, VARHDRSZ, UTF8_MAX_SIZE
  <2>3. capacity' = (array_size' * Room) % Modulus
    BY <1>4, <2>2 DEF Allocate, block_size
  <2>4. array_size' * Room \in Int
    BY <2>1 DEF TypeOK, Room, VARHDRSZ, UTF8_MAX_SIZE
  <2>5. capacity' \in Nat
    BY <2>3, <2>4, SplitAssumption
  <2>6. pc' \in {"window", "done"} /\ result' \in {"error", result}
    BY <1>4 DEF Allocate, windows, block_size
  <2>7. /\ i = 0 /\ UNCHANGED <<text, split_size, stray, character_count, scan,
                                loopVars>>
    BY <1>4 DEF Allocate, windows, block_size, Written
  <2>8. TypeOK'
    BY <2>1, <2>5, <2>6, <2>7 DEF TypeOK, loopVars
  <2>9. Measured'
    BY <2>6 DEF Measured
  <2>10. Written'
    BY <2>1, <2>3, <2>6, <2>7 DEF Written, Room, TypeOK, loopVars
  <2> QED
    BY <2>8, <2>9, <2>10
<1>5. CASE BeginWindow
  <2>1. UTF8LEN(ptr_in_tmp) \in 1..UTF8_MAX_SIZE
    BY LengthOfAByte DEF TypeOK
  <2>2. TypeOK'
    BY <1>5, <2>1 DEF BeginWindow, TypeOK, UTF8_MAX_SIZE
  <2>3. Measured'
    BY <1>5, <2>1 DEF BeginWindow, Measured, TypeOK, UTF8_MAX_SIZE
  <2>4. Written'
    BY <1>5 DEF BeginWindow, Written, Room
  <2> QED
    BY <2>2, <2>3, <2>4
<1>6. CASE MeasureCharacter
  <2>1. UTF8LEN(ptr_in_tmp + utf8_mem_size) \in 1..UTF8_MAX_SIZE
    BY LengthOfAByte DEF TypeOK
  <2>2. TypeOK'
    BY <1>6, <2>1 DEF MeasureCharacter, TypeOK, UTF8_MAX_SIZE
  <2>3. Measured'
    BY <1>6, <2>1 DEF MeasureCharacter, Measured, TypeOK, UTF8_MAX_SIZE,
                      item_count
  <2>4. Written'
    BY <1>6 DEF MeasureCharacter, Written, Room
  <2> QED
    BY <2>2, <2>3, <2>4
<1>7. CASE CopyWindow
  <2>1. UTF8LEN(ptr_in_tmp) \in Nat
    <3>1. ptr_in_tmp \in Nat
      BY DEF TypeOK
    <3>2. UTF8LEN(ptr_in_tmp) \in 1..6
      BY <3>1, LengthOfAByte DEF UTF8_MAX_SIZE
    <3> QED
      BY <3>2
  <2>2. TypeOK'
    BY <1>7, <2>1 DEF CopyWindow, advance, TypeOK, VARHDRSZ
  <2>3. Measured'
    BY <1>7 DEF CopyWindow, Measured
  <2>4. ASSUME split_size >= 1 PROVE utf8_mem_size + VARHDRSZ <= Room
    <3>1. j <= split_size
      BY <1>7, <2>4 DEF CopyWindow, Measured, item_count, TypeOK
    <3> QED
      BY <1>7, <3>1 DEF CopyWindow, Measured, Room, TypeOK, UTF8_MAX_SIZE,
                        VARHDRSZ
  <2>5. ASSUME split_size >= 1 PROVE ptr_val_tmp' <= i' * Room
    <3>1. i' * Room = i * Room + Room
      BY <1>7 DEF CopyWindow, TypeOK, Room, VARHDRSZ, UTF8_MAX_SIZE
    <3>2. i * Room \in Int /\ Room \in Int
      BY DEF TypeOK, Room, VARHDRSZ, UTF8_MAX_SIZE
    <3> QED
      BY <1>7, <2>4, <2>5, <3>1, <3>2 DEF CopyWindow, Written, TypeOK, VARHDRSZ
  <2>6. Written'
    BY <1>7, <2>5 DEF CopyWindow, Written, Measured, TypeOK, Room
  <2> QED
    BY <2>2, <2>3, <2>6
<1>8. CASE Return
  BY <1>8 DEF Return, loopVars, TypeOK, Measured, Written, Room
<1>9. CASE UNCHANGED vars
  BY <1>9 DEF vars, loopVars, TypeOK, Measured, Written, Room, item_count
<1> QED
  BY <1>1, <1>2, <1>3, <1>4, <1>5, <1>6, <1>7, <1>8, <1>9 DEF Next

\* The invariant bounds the bytes written by the block that was asked for.
LEMMA IInvImpliesCopyInBounds == IInv => CopyInBounds
<1> SUFFICES ASSUME IInv, split_size >= 1, BytesNeeded < Modulus
             PROVE  ptr_val_tmp <= capacity
  BY DEF CopyInBounds
<1>1. Room \in Nat
  BY DEF IInv, TypeOK, Room, VARHDRSZ, UTF8_MAX_SIZE
<1>2. ptr_val_tmp <= i * Room
  BY DEF IInv, Written
<1>3. CASE i = 0
  BY <1>1, <1>2, <1>3 DEF IInv, TypeOK
<1>4. CASE i > 0
  <2>1. capacity = (array_size * Room) % Modulus
    BY <1>4 DEF IInv, Written
  <2>2. array_size * Room \in Nat /\ array_size * Room < Modulus
    BY <1>1 DEF BytesNeeded, Room, IInv, TypeOK
  <2>3. capacity = array_size * Room
    BY <2>1, <2>2, SplitAssumption
  <2>4. i * Room <= array_size * Room
    BY <1>1, ProductMonotone DEF IInv, TypeOK, Written
  <2>5. i * Room \in Nat
    BY <1>1 DEF IInv, TypeOK
  <2> QED
    BY <1>2, <2>2, <2>3, <2>4, <2>5 DEF IInv, TypeOK
<1> QED
  BY <1>3, <1>4 DEF IInv, TypeOK

-----------------------------------------------------------------------------

\* The inductive invariant holds throughout every call.
THEOREM Invariant == Spec => []IInv
BY InitIInv, NextIInv, PTL DEF Spec

\* Every variable of split_string keeps its type, whatever the text, $2 and
\* the byte behind the text.
THEOREM TypeCorrect == Spec => []TypeOK
<1>1. IInv => TypeOK
  BY DEF IInv
<1> QED
  BY <1>1, Invariant, PTL

\* split_string never copies a window beyond the block it allocated, when
\* split_size is positive and the size of the block did not wrap.
THEOREM CopiesStayInTheBlock == Spec => []CopyInBounds
BY Invariant, IInvImpliesCopyInBounds, PTL

-----------------------------------------------------------------------------

\* A character begins where the text does and where one before it ends.
FollowsFrom(t, f, p) == p = 0 \/ \E r \in 0..(p - 1) : r + t[r + 1] = p /\ f[r]

\* The recursion of BoundaryOf defines a function on every text.
LEMMA BoundaryExists ==
  ASSUME NEW t \in Seq(1..6)
  PROVE  \A N \in Nat : \E f \in [0..N -> BOOLEAN] :
           f = [p \in 0..N |-> FollowsFrom(t, f, p)]
<1> DEFINE Good == {N \in Nat : \E f \in [0..N -> BOOLEAN] :
                                  f = [p \in 0..N |-> FollowsFrom(t, f, p)]}
<1>1. 0 \in Good
  <2> DEFINE f == [p \in 0..0 |-> TRUE]
  <2>1. \A p \in 0..0 : f[p] = TRUE /\ FollowsFrom(t, f, p) = TRUE
    BY DEF FollowsFrom
  <2>2. f = [p \in 0..0 |-> FollowsFrom(t, f, p)]
    <3> HIDE DEF FollowsFrom
    <3> QED
      BY <2>1, Zenon
  <2>3. f \in [0..0 -> BOOLEAN]
    OBVIOUS
  <2> QED
    BY <2>2, <2>3
<1>2. ASSUME NEW N \in Nat, N \in Good PROVE N + 1 \in Good
  <2>1. PICK f \in [0..N -> BOOLEAN] : f = [p \in 0..N |-> FollowsFrom(t, f, p)]
    BY <1>2
  <2> DEFINE g == [p \in 0..(N + 1) |-> IF p <= N THEN f[p] ELSE FollowsFrom(t, f, p)]
  <2>2. \A p \in 0..(N + 1) : p <= N => p \in 0..N
    OBVIOUS
  <2>3. g \in [0..(N + 1) -> BOOLEAN]
    BY <2>2 DEF FollowsFrom
  <2>4. ASSUME NEW p \in 0..(N + 1) PROVE g[p] = FollowsFrom(t, g, p)
    <3>1. \A r \in 0..(p - 1) : g[r] = f[r]
      OBVIOUS
    <3>2. FollowsFrom(t, g, p) = FollowsFrom(t, f, p)
      BY <3>1 DEF FollowsFrom
    <3>3. p <= N => f[p] = FollowsFrom(t, f, p)
      BY <2>1
    <3> QED
      BY <3>2, <3>3
  <2>5. g = [p \in 0..(N + 1) |-> FollowsFrom(t, g, p)]
    <3> HIDE DEF FollowsFrom
    <3> QED
      BY <2>4, Zenon
  <2> QED
    BY <2>3, <2>5
<1>3. Nat \subseteq Good
  <2> HIDE DEF Good
  <2> QED
    BY <1>1, <1>2, Induction
<1> QED
  BY <1>3

LEMMA BoundaryIs ==
  ASSUME NEW t \in Seq(1..6)
  PROVE  /\ BoundaryOf(t) \in [0..Len(t) -> BOOLEAN]
         /\ \A p \in 0..Len(t) :
              BoundaryOf(t)[p] <=>
                (p = 0 \/ \E r \in 0..(p - 1) : r + t[r + 1] = p /\ BoundaryOf(t)[r])
<1> DEFINE Is(f) == f = [p \in 0..Len(t) |-> FollowsFrom(t, f, p)]
<1>1. BoundaryOf(t) = CHOOSE f : Is(f)
  BY DEF BoundaryOf, FollowsFrom
<1>2. \E f : Is(f)
  BY BoundaryExists
<1>3. Is(BoundaryOf(t))
  <2> HIDE DEF Is
  <2> QED
    BY <1>1, <1>2
<1> QED
  BY <1>3 DEF FollowsFrom

\* No character begins inside another.
LEMMA NoneInside ==
  ASSUME NEW t \in Seq(1..6), NEW p \in 0..(Len(t) - 1), BoundaryOf(t)[p],
         NEW q \in 0..Len(t), BoundaryOf(t)[q], p < q
  PROVE  p + t[p + 1] <= q
<1> DEFINE Inside(a, b) == /\ BoundaryOf(t)[a] /\ BoundaryOf(t)[b]
                           /\ a < b /\ b < a + t[a + 1]
           T == {b \in 0..Len(t) : \E a \in 0..(Len(t) - 1) : Inside(a, b)}
<1> SUFFICES ASSUME q < p + t[p + 1] PROVE FALSE
  BY \A n \in 1..Len(t) : t[n] \in 1..6
<1>1. T \subseteq Nat /\ q \in T
  OBVIOUS
<1>2. PICK b \in T : \A x \in T : b <= x
  <2> HIDE DEF T
  <2> QED
    BY <1>1, LeastNumber
<1>3. PICK a \in 0..(Len(t) - 1) : Inside(a, b)
  BY <1>2
<1>4. b \in 0..Len(t) /\ b # 0
  BY <1>2, <1>3
<1>5. PICK r \in 0..(b - 1) : r + t[r + 1] = b /\ BoundaryOf(t)[r]
  BY <1>3, <1>4, BoundaryIs
<1>6. r # a
  BY <1>3, <1>5
<1>7. r \in 0..(Len(t) - 1) /\ t[r + 1] \in 1..6 /\ t[a + 1] \in 1..6
  BY <1>4
<1>8. ASSUME r < a PROVE FALSE
  <2>1. Inside(r, a)
    BY <1>3, <1>4, <1>5, <1>7, <1>8
  <2>2. a \in T
    BY <2>1, <1>7
  <2> QED
    BY <1>2, <1>3, <1>4, <2>2
<1>9. ASSUME a < r PROVE FALSE
  <2>1. r < b /\ b < a + t[a + 1]
    BY <1>3, <1>4
  <2>2. r < a + t[a + 1]
    <3>1. r \in Int /\ b \in Int /\ a \in Int /\ t[a + 1] \in Int
      BY <1>4, <1>7
    <3> HIDE DEF T, Inside
    <3> QED
      BY <2>1, <3>1
  <2>3. Inside(a, r)
    BY <1>3, <1>5, <1>9, <2>2
  <2>4. r \in T
    BY <2>3, <1>4
  <2> QED
    BY <1>2, <1>4, <2>4
<1> QED
  BY <1>6, <1>7, <1>8, <1>9

\* Behind a character another begins, or the text ends.
LEMMA NextBoundary ==
  ASSUME NEW t \in Seq(1..6), BoundaryOf(t)[Len(t)],
         NEW p \in 0..(Len(t) - 1), BoundaryOf(t)[p]
  PROVE  /\ p + t[p + 1] \in (p + 1)..Len(t)
         /\ BoundaryOf(t)[p + t[p + 1]]
<1>1. t[p + 1] \in 1..6
  OBVIOUS
<1>2. p + t[p + 1] <= Len(t)
  BY NoneInside
<1>3. p + t[p + 1] \in 0..Len(t) /\ p \in 0..((p + t[p + 1]) - 1)
  BY <1>1, <1>2
<1> QED
  BY <1>1, <1>3, BoundaryIs

-----------------------------------------------------------------------------

\* The characters that begin before offset p of text t, and their number.
BeginsBefore(t, p) == {q \in 0..(p - 1) : BoundaryOf(t)[q]}
Before(t, p) == Cardinality(BeginsBefore(t, p))

LEMMA BeforeIsNat ==
  ASSUME NEW t, NEW p \in Nat
  PROVE  IsFiniteSet(BeginsBefore(t, p)) /\ Before(t, p) \in Nat
<1>1. IsFiniteSet(0..(p - 1))
  BY FS_Interval
<1>2. BeginsBefore(t, p) \subseteq 0..(p - 1)
  BY DEF BeginsBefore
<1> QED
  BY <1>1, <1>2, FS_Subset, FS_CardinalityType DEF Before

LEMMA BeforeFirst ==
  ASSUME NEW t PROVE Before(t, 0) = 0
<1>1. BeginsBefore(t, 0) = {}
  BY DEF BeginsBefore
<1> QED
  BY <1>1, FS_EmptySet DEF Before

\* Each character adds one.
LEMMA BeforeNext ==
  ASSUME NEW t \in Seq(1..6), BoundaryOf(t)[Len(t)],
         NEW p \in 0..(Len(t) - 1), BoundaryOf(t)[p]
  PROVE  Before(t, p + t[p + 1]) = Before(t, p) + 1
<1> DEFINE n == p + t[p + 1]
<1>1. n \in (p + 1)..Len(t)
  BY NextBoundary
<1>2. \A q \in 0..(n - 1) : BoundaryOf(t)[q] /\ q # p => q < p
  <2> SUFFICES ASSUME NEW q \in 0..(n - 1), BoundaryOf(t)[q], p < q PROVE FALSE
    BY <1>1
  <2>1. q \in 0..Len(t)
    BY <1>1
  <2>2. n <= q
    BY <2>1, NoneInside
  <2> QED
    BY <1>1, <2>2
<1> HIDE DEF n
<1>3. BeginsBefore(t, n) = BeginsBefore(t, p) \cup {p}
  BY <1>1, <1>2 DEF BeginsBefore
<1>4. p \notin BeginsBefore(t, p)
  BY DEF BeginsBefore
<1>5. IsFiniteSet(BeginsBefore(t, p))
  BY BeforeIsNat
<1>6. Cardinality(BeginsBefore(t, p) \cup {p}) = Cardinality(BeginsBefore(t, p)) + 1
  BY <1>4, <1>5, FS_AddElement
<1> QED
  BY <1>3, <1>6 DEF Before, n

\* Of two characters the later one has more before it.
LEMMA BeforeGrows ==
  ASSUME NEW t, NEW p \in Nat, NEW q \in Nat, BoundaryOf(t)[p], p < q
  PROVE  Before(t, p) < Before(t, q)
<1>1. BeginsBefore(t, p) \subseteq BeginsBefore(t, q) \ {p}
  BY DEF BeginsBefore
<1>2. p \in BeginsBefore(t, q)
  BY DEF BeginsBefore
<1>3. IsFiniteSet(BeginsBefore(t, q)) /\ Before(t, q) \in Nat
  BY BeforeIsNat
<1>4. /\ IsFiniteSet(BeginsBefore(t, q) \ {p})
      /\ Cardinality(BeginsBefore(t, q) \ {p}) = Before(t, q) - 1
  BY <1>2, <1>3, FS_RemoveElement DEF Before
<1>5. Before(t, p) <= Cardinality(BeginsBefore(t, q) \ {p})
  BY <1>1, <1>4, FS_Subset DEF Before
<1> QED
  BY <1>3, <1>4, <1>5, BeforeIsNat

\* A character is found again by the number of those before it.
LEMMA CharacterFound ==
  ASSUME text \in Seq(1..6), NEW p \in 0..Len(text), BoundaryOf(text)[p]
  PROVE  CharacterAt(Before(text, p)) = p
<1> DEFINE Is(q) == BoundaryOf(text)[q] /\ Before(text, q) = Before(text, p)
<1>1. \A q \in 0..Len(text) : Is(q) => q = p
  BY BeforeGrows, BeforeIsNat
<1>2. CharacterAt(Before(text, p)) = CHOOSE q \in 0..Len(text) : Is(q)
  BY DEF CharacterAt, Boundary, Before, BeginsBefore
<1>3. Is(p)
  OBVIOUS
<1> QED
  BY <1>1, <1>2, <1>3

LEMMA CharactersAre == Characters = Before(text, Len(text))
BY DEF Characters, Boundary, Before, BeginsBefore

\* p is the offset in t of character number n, counted from 0, or the end of t
\* behind n characters.
IsCharacter(t, p, n) ==
  p \in 0..Len(t) /\ BoundaryOf(t)[p] /\ Before(t, p) = n

LEMMA FirstCharacter ==
  ASSUME NEW t \in Seq(1..6)
  PROVE  IsCharacter(t, 0, 0)
BY BoundaryIs, BeforeFirst DEF IsCharacter

LEMMA NextCharacter ==
  ASSUME NEW t \in Seq(1..6), BoundaryOf(t)[Len(t)],
         NEW p, NEW n, IsCharacter(t, p, n), p < Len(t)
  PROVE  IsCharacter(t, p + t[p + 1], n + 1)
<1>1. p \in 0..(Len(t) - 1) /\ BoundaryOf(t)[p] /\ Before(t, p) = n
  BY DEF IsCharacter
<1>2. p + t[p + 1] \in 0..Len(t) /\ BoundaryOf(t)[p + t[p + 1]]
  BY <1>1, NextBoundary
<1>3. Before(t, p + t[p + 1]) = n + 1
  BY <1>1, BeforeNext
<1> QED
  BY <1>2, <1>3 DEF IsCharacter

\* Behind fewer characters than it has, a text goes on; a text of one byte has
\* a character.
LEMMA CharactersInText ==
  ASSUME NEW t \in Seq(1..6), NEW p, NEW n, IsCharacter(t, p, n)
  PROVE  /\ p \in 0..Len(t) /\ n \in Nat
         /\ n # Before(t, Len(t)) => p < Len(t)
         /\ Before(t, Len(t)) \in Nat
         /\ t # <<>> => Before(t, Len(t)) > 0
<1>1. p \in 0..Len(t) /\ n \in Nat /\ Before(t, Len(t)) \in Nat
  BY BeforeIsNat DEF IsCharacter
<1>2. n # Before(t, Len(t)) => p < Len(t)
  BY <1>1 DEF IsCharacter
<1>3. ASSUME t # <<>> PROVE Before(t, Len(t)) > 0
  <2>1. Len(t) \in Nat /\ 0 < Len(t)
    BY <1>3
  <2>2. BoundaryOf(t)[0]
    BY FirstCharacter DEF IsCharacter
  <2> QED
    BY <2>1, <2>2, BeforeGrows, BeforeFirst
<1> QED
  BY <1>1, <1>2, <1>3

-----------------------------------------------------------------------------

\* The counter has gone through whole characters, and went through all of them
\* before the block was sized.
Counted ==
  /\ BoundaryOf(text)[Len(text)]
  /\ IsCharacter(text, scan, character_count)
  /\ pc \in {"window", "measure"} \/ result = "array" =>
       scan = Len(text) /\ array_size = windows
  /\ pc # "done" => result = "none"

\* The window being measured begins at character number i and has j whole
\* characters, and each window written has item_count of them.
Placed ==
  /\ Len(items) = i
  /\ result = "array" => i = array_size
  /\ Documented =>
       /\ IsCharacter(text, ptr_in_tmp, i)
       /\ pc = "measure" => j <= item_count /\ IsCharacter(text, ptr_in_tmp + utf8_mem_size, i + j)
       /\ \A k \in 1..Len(items) :
            /\ IsCharacter(text, items[k].from, k - 1)
            /\ IsCharacter(text, items[k].from + items[k].size, (k - 1) + item_count)

\* The inductive invariant of the two properties about characters, with IInv.
Following == Counted /\ Placed

LEMMA InitFollowing == Init => Following
<1> SUFFICES ASSUME Init PROVE Following
  OBVIOUS
<1>1. text \in Seq(1..6) /\ BoundaryOf(text)[Len(text)]
  BY SplitAssumption DEF Init
<1>2. IsCharacter(text, 0, 0)
  BY <1>1, FirstCharacter
<1> QED
  BY <1>1, <1>2 DEF Init, Following, Counted, Placed

\* What a step that leaves the windows alone has to keep.
LEMMA PlacedKept ==
  ASSUME Placed, UNCHANGED <<text, split_size, loopVars>>,
         pc' # "measure", result' # "array", i > 0 => item_count' = item_count, i \in Nat
  PROVE  Placed'
<1> USE DEF loopVars
<1>1. CASE i = 0
  BY <1>1 DEF Placed, Documented
<1>2. CASE i > 0
  BY <1>2 DEF Placed, Documented
<1> QED
  BY <1>1, <1>2

LEMMA NextFollowing == IInv /\ IInv' /\ Following /\ [Next]_vars => Following'
<1> SUFFICES ASSUME IInv, IInv', Following, [Next]_vars PROVE Following'
  OBVIOUS
<1> USE DEF Following
<1>0. /\ text \in Seq(1..6) /\ BoundaryOf(text)[Len(text)]
      /\ split_size \in Int /\ i \in Nat /\ j \in Nat /\ character_count \in Nat
      /\ array_size \in Nat /\ ptr_in_tmp \in Nat /\ utf8_mem_size \in Nat
  BY DEF IInv, TypeOK, Counted
<1>1. CASE CheckSplitSize
  <2>1. Counted'
    BY <1>1 DEF CheckSplitSize, callVars, countVars, blockVars, Counted
  <2>2. Placed'
    BY <1>0, <1>1, PlacedKept
       DEF CheckSplitSize, callVars, countVars, item_count, Counted
  <2> QED
    BY <2>1, <2>2
<1>2. CASE TestEmpty
  <2>1. Counted'
    BY <1>2 DEF TestEmpty, callVars, countVars, blockVars, Counted
  <2>2. Placed'
    BY <1>0, <1>2, PlacedKept
       DEF TestEmpty, callVars, countVars, item_count, Counted
  <2> QED
    BY <2>1, <2>2
<1>3. CASE CountCharacter
  <2>1. scan \in 0..Len(text) /\ scan < Len(text)
    BY <1>0, <1>3, CharactersInText DEF CountCharacter, Counted
  <2>2. scan' = scan + text[scan + 1] /\ character_count' = character_count + 1
    BY <1>3, <2>1 DEF CountCharacter, UTF8LEN
  <2>3. IsCharacter(text, scan', character_count')
    BY <1>0, <2>1, <2>2, NextCharacter DEF Counted
  <2>4. Counted'
    BY <1>3, <2>3 DEF CountCharacter, callVars, Counted
  <2>5. i = 0
    BY <1>3 DEF CountCharacter, IInv, Written
  <2>6. Placed'
    BY <1>0, <1>3, <2>5, PlacedKept DEF CountCharacter, callVars, Counted
  <2> QED
    BY <2>4, <2>6
<1>4. CASE Allocate
  <2>1. scan = Len(text)
    BY <1>0, <1>4, CharactersInText DEF Allocate, Counted
  <2>2. UNCHANGED <<callVars, countVars, loopVars>> /\ array_size' = windows
    BY <1>4 DEF Allocate
  <2>3. windows' = windows /\ item_count' = item_count
    BY <2>2 DEF windows, item_count, callVars, countVars
  <2>4. pc' \in {"window", "done"} /\ (pc' # "done" => result' = result) /\ result' # "array"
    BY <1>4 DEF Allocate, Counted
  <2>5. Counted'
    BY <1>4, <2>1, <2>2, <2>3, <2>4 DEF Allocate, Counted, callVars, countVars
  <2>6. Placed'
    BY <1>0, <2>2, <2>3, <2>4, PlacedKept DEF callVars
  <2> QED
    BY <2>5, <2>6
<1>5. CASE BeginWindow
  <2>1. Counted'
    BY <1>5 DEF BeginWindow, callVars, countVars, blockVars, Counted, windows
  <2>2. item_count' = item_count
    BY <1>5 DEF BeginWindow, callVars, countVars, item_count
  <2>3. ASSUME Documented
        PROVE  1 <= item_count /\ IsCharacter(text, ptr_in_tmp + utf8_mem_size', i + 1)
    <3>1. IsCharacter(text, ptr_in_tmp, i) /\ i < array_size /\ array_size = windows
      BY <1>5, <2>3 DEF BeginWindow, Placed, Counted
    <3>2. /\ IsCharacter(text, Len(text), character_count)
          /\ character_count = Before(text, Len(text))
      BY <1>5 DEF BeginWindow, Counted, IsCharacter
    <3>3. character_count \in Nat /\ character_count > 0
      BY <1>0, <2>3, <3>2, CharactersInText DEF Documented
    <3>4. i < character_count /\ 1 <= item_count
      BY <1>0, <2>3, <3>1, <3>3 DEF windows, item_count, Documented
    <3>5. ptr_in_tmp \in 0..Len(text) /\ ptr_in_tmp < Len(text)
      BY <1>0, <3>1, <3>2, <3>4, CharactersInText
    <3>6. utf8_mem_size' = text[ptr_in_tmp + 1]
      BY <1>5, <3>5 DEF BeginWindow, UTF8LEN
    <3> QED
      BY <1>0, <3>1, <3>4, <3>5, <3>6, NextCharacter
  <2>4. Placed'
    BY <1>5, <2>2, <2>3 DEF BeginWindow, callVars, Placed, Documented, Counted
  <2> QED
    BY <2>1, <2>4
<1>6. CASE MeasureCharacter
  <2>1. Counted'
    BY <1>6 DEF MeasureCharacter, callVars, countVars, blockVars, Counted, windows
  <2>2. item_count' = item_count
    BY <1>6 DEF MeasureCharacter, callVars, countVars, item_count
  <2>3. ASSUME Documented
        PROVE  j' <= item_count /\ IsCharacter(text, ptr_in_tmp + utf8_mem_size', i + j')
    <3> DEFINE stop == ptr_in_tmp + utf8_mem_size
    <3>1. IsCharacter(text, stop, i + j) /\ j < item_count /\ array_size = windows
      BY <1>6, <2>3 DEF MeasureCharacter, Placed, Counted
    <3>2. character_count = Before(text, Len(text))
      BY <1>6 DEF MeasureCharacter, Counted, IsCharacter
    <3>3. i < array_size
      BY <1>6 DEF MeasureCharacter, IInv, Measured
    <3>4. i + j < character_count /\ j + 1 <= item_count
      BY <1>0, <2>3, <3>1, <3>3 DEF windows, item_count, Documented
    <3>5. stop \in 0..Len(text) /\ stop < Len(text)
      BY <1>0, <3>1, <3>2, <3>4, CharactersInText
    <3>6. utf8_mem_size' = utf8_mem_size + text[stop + 1] /\ j' = j + 1
      BY <1>6, <3>5 DEF MeasureCharacter, UTF8LEN
    <3>7. IsCharacter(text, stop + text[stop + 1], (i + j) + 1)
      BY <1>0, <3>1, <3>5, NextCharacter
    <3>8. text[stop + 1] \in 1..6
      BY <1>0, <3>5
    <3>9. stop + text[stop + 1] = ptr_in_tmp + utf8_mem_size' /\ (i + j) + 1 = i + j'
      BY <1>0, <3>6, <3>8
    <3> QED
      BY <3>4, <3>6, <3>7, <3>9
  <2>4. Placed'
    BY <1>6, <2>2, <2>3 DEF MeasureCharacter, callVars, Placed, Documented, Counted
  <2> QED
    BY <2>1, <2>4
<1>7. CASE CopyWindow
  <2>1. Counted'
    BY <1>7 DEF CopyWindow, callVars, countVars, blockVars, Counted, windows
  <2>2. item_count' = item_count
    BY <1>7 DEF CopyWindow, callVars, countVars, item_count
  <2> DEFINE new == [from |-> ptr_in_tmp, size |-> utf8_mem_size]
  <2>3. /\ items' = Append(items, new) /\ items \in Seq([from : Nat, size : Nat])
        /\ new \in [from : Nat, size : Nat]
        /\ Len(items) = i /\ i' = i + 1
    BY <1>0, <1>7 DEF CopyWindow, Placed, IInv, TypeOK
  <2>4. ASSUME Documented PROVE IsCharacter(text, ptr_in_tmp', i + 1)
    <3>1. IsCharacter(text, ptr_in_tmp, i) /\ array_size = windows
      BY <1>7, <2>4 DEF CopyWindow, Placed, Counted
    <3>2. character_count = Before(text, Len(text))
      BY <1>7 DEF CopyWindow, Counted, IsCharacter
    <3>3. character_count \in Nat /\ character_count > 0
      BY <1>0, <2>4, <3>1, <3>2, CharactersInText DEF Documented
    <3>4. i < array_size
      BY <1>7 DEF CopyWindow, IInv, Measured
    <3>5. i < character_count
      BY <1>0, <2>4, <3>1, <3>3, <3>4 DEF windows, Documented
    <3>6. ptr_in_tmp \in 0..Len(text) /\ ptr_in_tmp < Len(text)
      BY <1>0, <3>1, <3>2, <3>5, CharactersInText
    <3>7. ptr_in_tmp' = ptr_in_tmp + text[ptr_in_tmp + 1]
      BY <1>7, <3>6 DEF CopyWindow, advance, UTF8LEN
    <3> QED
      BY <1>0, <3>1, <3>6, <3>7, NextCharacter
  <2>5. ASSUME Documented
        PROVE  /\ IsCharacter(text, new.from, i)
               /\ IsCharacter(text, new.from + new.size, i + item_count)
    <3>1. j = item_count
      BY <1>0, <1>7, <2>5 DEF CopyWindow, Placed, item_count
    <3> QED
      BY <1>7, <2>5, <3>1 DEF CopyWindow, Placed
  <2>6. ASSUME Documented, NEW k \in 1..Len(items')
        PROVE  /\ IsCharacter(text, items'[k].from, k - 1)
               /\ IsCharacter(text, items'[k].from + items'[k].size, (k - 1) + item_count)
    <3> HIDE DEF new
    <3>1. Len(items') = i + 1
      BY <2>3
    <3>2. CASE k = i + 1
      <4>1. items'[k] = new /\ k - 1 = i
        BY <1>0, <2>3, <3>2
      <4> QED
        BY <4>1, <2>5, <2>6
    <3>3. CASE k # i + 1
      <4>1. k \in 1..Len(items) /\ items'[k] = items[k]
        BY <1>0, <2>3, <3>1, <3>3
      <4> QED
        BY <4>1, <2>6 DEF Placed
    <3> QED
      BY <3>2, <3>3
  <2>7. Len(items') = i' /\ result' # "array" /\ pc' = "window" /\ UNCHANGED <<text, split_size>>
    BY <1>7, <2>3 DEF CopyWindow, callVars, Counted
  <2>8. Placed'
    <3> HIDE DEF new
    <3> QED
      BY <2>2, <2>3, <2>4, <2>6, <2>7 DEF Placed, Documented
  <2> QED
    BY <2>1, <2>8
<1>8. CASE Return
  <2>1. Counted'
    BY <1>8 DEF Return, callVars, countVars, blockVars, Counted, windows
  <2>2. item_count' = item_count
    BY <1>8 DEF Return, callVars, countVars, item_count
  <2>3. i = array_size
    BY <1>0, <1>8 DEF Return, IInv, Written
  <2>4. Placed'
    BY <1>8, <2>2, <2>3
       DEF Return, callVars, blockVars, loopVars, Placed, Documented
  <2> QED
    BY <2>1, <2>4
<1>9. CASE UNCHANGED vars
  BY <1>9 DEF vars, callVars, countVars, blockVars, loopVars, Counted, Placed,
              windows, item_count, Documented
<1> QED
  BY <1>1, <1>2, <1>3, <1>4, <1>5, <1>6, <1>7, <1>8, <1>9 DEF Next

\* No window starts or ends outside the text.
LEMMA FollowingImpliesReads == IInv /\ Following => ReadsInBounds
<1> SUFFICES ASSUME IInv, Following, Documented
             PROVE  /\ pc = "window" /\ i < array_size => ptr_in_tmp < Len(text)
                    /\ pc = "measure" => ptr_in_tmp + utf8_mem_size <= Len(text)
                    /\ pc \in {"window", "measure", "done"} => ptr_in_tmp <= Len(text)
  BY DEF ReadsInBounds
<1>0. text \in Seq(1..6) /\ character_count \in Nat /\ i \in Nat /\ array_size \in Nat
  BY DEF IInv, TypeOK
<1>1. IsCharacter(text, ptr_in_tmp, i)
  BY DEF Following, Placed
<1>2. ptr_in_tmp <= Len(text)
  BY <1>0, <1>1, CharactersInText
<1>3. ASSUME pc = "measure" PROVE ptr_in_tmp + utf8_mem_size <= Len(text)
  <2>1. IsCharacter(text, ptr_in_tmp + utf8_mem_size, i + j)
    BY <1>3 DEF Following, Placed
  <2> QED
    BY <2>1 DEF IsCharacter
<1>4. ASSUME pc = "window", i < array_size PROVE ptr_in_tmp < Len(text)
  <2>1. character_count = Before(text, Len(text)) /\ array_size = windows
    BY <1>4 DEF Following, Counted, IsCharacter
  <2>2. character_count > 0
    BY <1>0, <1>1, <2>1, CharactersInText DEF Documented
  <2>3. i < character_count
    BY <1>0, <1>4, <2>1, <2>2 DEF windows, Documented
  <2> QED
    BY <1>0, <1>1, <2>1, <2>3, CharactersInText
<1> QED
  BY <1>2, <1>3, <1>4

\* The array is the one of all windows.
LEMMA FollowingImpliesWindows == IInv /\ Following => WindowsOfCharacters
<1> SUFFICES ASSUME IInv, Following, Documented, result = "array"
             PROVE  LET width == Least(split_size, Characters)
                    IN  /\ Len(items) = Characters - width + 1
                        /\ \A k \in 1..Len(items) :
                             /\ items[k].from = CharacterAt(k - 1)
                             /\ items[k].from + items[k].size = CharacterAt(k - 1 + width)
  BY DEF WindowsOfCharacters
<1>0. text \in Seq(1..6) /\ character_count \in Nat /\ i \in Nat /\ split_size \in Int
  BY DEF IInv, TypeOK
<1>1. character_count = Characters
  BY CharactersAre DEF Following, Counted, IsCharacter
<1>2. item_count = Least(split_size, Characters)
  BY <1>0, <1>1 DEF item_count, Least
<1>3. Len(items) = windows
  BY DEF Following, Counted, Placed
<1>4. Len(items) = Characters - item_count + 1
  BY <1>0, <1>1, <1>3 DEF windows, item_count
<1>5. ASSUME NEW k \in 1..Len(items)
      PROVE  /\ items[k].from = CharacterAt(k - 1)
             /\ items[k].from + items[k].size = CharacterAt((k - 1) + item_count)
  <2>1. /\ IsCharacter(text, items[k].from, k - 1)
        /\ IsCharacter(text, items[k].from + items[k].size, (k - 1) + item_count)
    BY <1>5 DEF Following, Placed
  <2> QED
    BY <1>0, <2>1, CharacterFound DEF IsCharacter
<1> QED
  BY <1>2, <1>4, <1>5

LEMMA FollowingInvariant == Spec => []Following
BY InitFollowing, NextFollowing, Invariant, PTL DEF Spec

\* split_string reads no byte behind the text for a documented split_size, in
\* texts of any length whose characters are of any of the six lengths.
THEOREM ReadsStayInTheText == Spec => []ReadsInBounds
BY Invariant, FollowingInvariant, FollowingImpliesReads, PTL

\* Every array split_string returns for a documented split_size is the
\* sequence of all windows of split_size consecutive characters.
THEOREM WindowsAreOfCharacters == Spec => []WindowsOfCharacters
BY Invariant, FollowingInvariant, FollowingImpliesWindows, PTL

=============================================================================
