----------------------------- MODULE SessionProofs -----------------------------
(***************************************************************************)
(* Proofs about a backend that serves serial numbers, rounding, random     *)
(* strings and check sums: for integers of any width, any number of open   *)
(* scans and any arguments.  First what each function computes, as facts   *)
(* about numbers; then that every outcome of a session was computed so.    *)
(***************************************************************************)
EXTENDS Session, Facts, TLAPS

-----------------------------------------------------------------------------
\* Integer arithmetic.

\* A number in its range needs no wrapping.
LEMMA WrapInRange ==
  ASSUME NEW max \in Nat, NEW n \in MIN(max)..max
  PROVE  Wrap(n, max) = n
<1> DEFINE m == n + max + 1
           w == 2 * (max + 1)
<1>1. m \in Nat /\ w \in Nat \ {0} /\ m < w
  BY DEF MIN
<1> HIDE DEF m, w
<1>2. m % w = m
  BY <1>1
<1> QED
  BY <1>2 DEF Wrap, m, w

\* Division towards zero leaves a rest below the divisor, with the dividend's
\* sign.
LEMMA QuotRest ==
  ASSUME NEW a \in Int, NEW b \in Nat \ {0}
  PROVE  /\ Quot(a, b) \in Int
         /\ a - Quot(a, b) * b < b
         /\ -(a - Quot(a, b) * b) < b
         /\ a - Quot(a, b) * b > 0 => a > 0
         /\ a - Quot(a, b) * b < 0 => a < 0
<1>1. CASE a >= 0
  <2>1. Quot(a, b) = a \div b
    BY <1>1 DEF Quot
  <2> QED
    BY <1>1, <2>1, DivideRest
<1>2. CASE a < 0
  <2>1. -a \in Nat
    BY <1>2
  <2>2. Quot(a, b) = -((-a) \div b)
    BY <1>2 DEF Quot
  <2> DEFINE d == (-a) \div b
  <2>3. d \in Nat /\ b * d <= -a /\ -a < b * d + b
    BY <2>1, DivideRest
  <2>4. Quot(a, b) * b = -(b * d)
    BY <2>2, <2>3
  <2> QED
    BY <1>2, <2>2, <2>3, <2>4
<1> QED
  BY <1>1, <1>2

\* What is left of a number that is smaller than the divisor.
LEMMA QuotSmall ==
  ASSUME NEW a \in Int, NEW b \in Int, b < 0, a < -b, -a < -b
  PROVE  Quot(a, b) = 0
<1>1. ASSUME NEW n \in Nat, n < -b PROVE n \div (-b) = 0
  <2>1. -b \in Nat \ {0}
    OBVIOUS
  <2> DEFINE d == n \div (-b)
  <2>2. d \in Nat /\ (-b) * d <= n
    BY <2>1, DivideRest
  <2>3. ASSUME d >= 1 PROVE FALSE
    <3>1. (-b) * d >= -b
      BY <2>1, <2>2, <2>3
    <3> QED
      BY <1>1, <2>2, <3>1
  <2> QED
    BY <2>2, <2>3
<1>2. CASE a >= 0
  BY <1>1, <1>2 DEF Quot
<1>3. CASE a < 0
  <2>1. -a \in Nat
    BY <1>3
  <2>2. (-a) \div (-b) = 0
    BY <1>1, <2>1
  <2> QED
    BY <1>3, <2>2 DEF Quot
<1> QED
  BY <1>2, <1>3

-----------------------------------------------------------------------------
\* The parts of a serial number.

Number == MIN(MaxInt64)..MaxInt64

LEMMA PartsThatFit ==
  ASSUME NEW sn \in Number, NEW p \in Int, Fits(sn, p)
  PROVE  /\ yy_doy(sn, p) = Quot(sn, 10^p) /\ yy_doy(sn, p) \in Int
         /\ 10^p \in Nat \ {0} /\ lpow(p) = 10^p
         /\ id(sn, p) = sn - yy_doy(sn, p) * 10^p
         /\ IsId(id(sn, p), sn, p)
<1> DEFINE b == 10^p
           q == Quot(sn, b)
<1>1. p \in 0..Digits /\ Digits \in Nat /\ MaxInt64 \in Nat /\ MaxInt32 \in Nat
  BY SerialAssumption, WidthAssumption DEF Fits
<1>2. b \in 1..MaxInt64
  BY <1>1, SerialAssumption
<1>3. lpow(p) = b
  BY <1>1 DEF lpow
<1>4. q \in MIN(MaxInt32)..MaxInt32
  BY DEF Fits
<1>5. sn \in Int /\ b \in Nat \ {0}
  BY <1>1, <1>2 DEF Number, MIN
<1> HIDE DEF b
<1>6. yy_doy(sn, p) = q
  BY <1>1, <1>3, <1>4, WrapInRange DEF yy_doy
<1> HIDE DEF q
<1>7. /\ q \in Int
      /\ sn - q * b < b /\ -(sn - q * b) < b
      /\ sn - q * b > 0 => sn > 0
      /\ sn - q * b < 0 => sn < 0
  BY <1>5, QuotRest DEF q
<1>8. sn - q * b \in MIN(MaxInt64)..MaxInt64
  BY <1>1, <1>2, <1>5, <1>7 DEF MIN
<1>9. id(sn, p) = sn - q * b
  BY <1>1, <1>3, <1>6, <1>8, WrapInRange DEF id
<1>10. IsId(id(sn, p), sn, p)
  BY <1>7, <1>9 DEF IsId, b
<1> QED
  BY <1>3, <1>5, <1>6, <1>7, <1>9, <1>10 DEF b, q

LEMMA PartsBeyondDigits ==
  ASSUME NEW sn \in Number, NEW p \in Int, p > Digits, sn # MIN(MaxInt64)
  PROVE  yy_doy(sn, p) = 0 /\ id(sn, p) = sn
<1>1. Digits \in Nat /\ MaxInt64 \in Nat /\ MaxInt32 \in Nat
  BY SerialAssumption, WidthAssumption
<1>2. lpow(p) = MIN(MaxInt64)
  BY <1>1 DEF lpow
<1>3. Quot(sn, lpow(p)) = 0
  <2>1. sn \in Int /\ MIN(MaxInt64) \in Int /\ MIN(MaxInt64) < 0
    BY <1>1 DEF Number, MIN
  <2>2. sn < -MIN(MaxInt64) /\ -sn < -MIN(MaxInt64)
    BY <1>1 DEF Number, MIN
  <2> QED
    BY <1>2, <2>1, <2>2, QuotSmall
<1>4. 0 \in MIN(MaxInt32)..MaxInt32
  BY <1>1 DEF MIN
<1>5. yy_doy(sn, p) = 0
  BY <1>1, <1>3, <1>4, WrapInRange DEF yy_doy
<1>6. sn - 0 * lpow(p) = sn
  BY <1>1, <1>2 DEF Number, MIN
<1>7. id(sn, p) = sn
  BY <1>1, <1>5, <1>6, WrapInRange DEF id, Number
<1> QED
  BY <1>5, <1>7

-----------------------------------------------------------------------------
\* The date of a serial number.

\* Moving a year by 4800, which is twelve times 400 years, moves the terms of
\* the calendar by whole numbers.
LEMMA MovedYears ==
  ASSUME NEW n \in Int
  PROVE  /\ (n + 4800) \div 4 = (n \div 4) + 1200
         /\ (n + 4800) \div 100 = (n \div 100) + 48
         /\ ((n + 4800) \div 100) \div 4 = (n \div 400) + 12
OBVIOUS

\* A year is one day longer when the calendar says that it is.
LEMMA LeapDay ==
  ASSUME NEW y \in Int
  PROVE  /\ (y \div 4) - ((y - 1) \div 4) = IF y % 4 = 0 THEN 1 ELSE 0
         /\ (y \div 100) - ((y - 1) \div 100) = IF y % 100 = 0 THEN 1 ELSE 0
         /\ (y \div 400) - ((y - 1) \div 400) = IF y % 400 = 0 THEN 1 ELSE 0
         /\ y % 100 = 0 => y % 4 = 0
         /\ y % 400 = 0 => y % 100 = 0
<1>1. (y \div 4) - ((y - 1) \div 4) = IF y % 4 = 0 THEN 1 ELSE 0
  OBVIOUS
<1>2. (y \div 100) - ((y - 1) \div 100) = IF y % 100 = 0 THEN 1 ELSE 0
  OBVIOUS
<1>3. (y \div 400) - ((y - 1) \div 400) = IF y % 400 = 0 THEN 1 ELSE 0
  OBVIOUS
<1>4. y % 100 = 0 => y % 4 = 0
  OBVIOUS
<1>5. y % 400 = 0 => y % 100 = 0
  OBVIOUS
<1> QED
  BY <1>1, <1>2, <1>3, <1>4, <1>5

Leap(y) == IF isleap(y) THEN 1 ELSE 0

LEMMA YearLength ==
  ASSUME NEW y \in Int
  PROVE  /\ Jan1(y) \in Int
         /\ Jan1(y + 1) - Jan1(y) = 365 + Leap(y)
         /\ SE_MON_YDAY(y)[13] = 365 + Leap(y)
<1>1. Jan1(y) \in Int
  BY DEF Jan1
<1>2. Jan1(y + 1) - Jan1(y)
        = 365 + ((y \div 4) - (y \div 100) + (y \div 400))
              - (((y - 1) \div 4) - ((y - 1) \div 100) + ((y - 1) \div 400))
  BY DEF Jan1
<1>3. Jan1(y + 1) - Jan1(y) = 365 + Leap(y)
  BY <1>2, LeapDay DEF Leap, isleap
<1>4. SE_MON_YDAY(y)[13] = 365 + Leap(y)
  BY DEF SE_MON_YDAY, Leap
<1> QED
  BY <1>1, <1>3, <1>4

\* The days before a month in its year, by the formula date2j has for them,
\* which counts January and February with the year before, and the month 0.
BeforeMonth(y, m) ==
  IF m <= 2 THEN ((7834 * (m + 13)) \div 256) - 428
  ELSE (((7834 * (m + 1)) \div 256) - 63) + Leap(y)

LEMMA DaysBeforeMonth ==
  ASSUME NEW y \in Int, NEW m \in 1..12
  PROVE  /\ SE_MON_YDAY(y)[m] = BeforeMonth(y, m)
         /\ BeforeMonth(y, m) \in Int
<1>1. m = 1 \/ m = 2 \/ m = 3 \/ m = 4 \/ m = 5 \/ m = 6 \/ m = 7 \/ m = 8 \/ m = 9
      \/ m = 10 \/ m = 11 \/ m = 12
  OBVIOUS
<1> QED
  BY <1>1 DEF SE_MON_YDAY, Leap, BeforeMonth

LEMMA DayOfMonth ==
  ASSUME NEW y \in Int, NEW m \in Int, NEW k \in Int
  PROVE  date2j(y, m, k) - POSTGRES_EPOCH_JDATE = Jan1(y) + BeforeMonth(y, m) + k - 1
<1> DEFINE a == ((y - 1) \div 4) - ((y - 1) \div 100) + ((y - 1) \div 400)
           b == (y \div 4) - (y \div 100) + (y \div 400)
<1>1. Jan1(y) = 365 * (y - 2000) + a - 484 /\ a \in Int /\ b \in Int
  BY DEF Jan1
<1>2. b = a + Leap(y) /\ Leap(y) \in 0..1
  BY LeapDay DEF Leap, isleap
<1>3. CASE m <= 2
  <2>1. y + 4799 = (y - 1) + 4800
    OBVIOUS
  <2>2. /\ (y + 4799) \div 4 = ((y - 1) \div 4) + 1200
        /\ (y + 4799) \div 100 = ((y - 1) \div 100) + 48
        /\ ((y + 4799) \div 100) \div 4 = ((y - 1) \div 400) + 12
    BY <2>1, MovedYears
  <2> QED
    BY <1>1, <1>3, <2>2 DEF date2j, POSTGRES_EPOCH_JDATE, BeforeMonth
<1>4. CASE m > 2
  <2>1. /\ (y + 4800) \div 4 = (y \div 4) + 1200
        /\ (y + 4800) \div 100 = (y \div 100) + 48
        /\ ((y + 4800) \div 100) \div 4 = (y \div 400) + 12
    BY MovedYears
  <2> QED
    BY <1>1, <1>2, <1>4, <2>1 DEF date2j, POSTGRES_EPOCH_JDATE, BeforeMonth
<1> QED
  BY <1>3, <1>4

\* A day that its year has is in one of the months.
LEMMA DayHasMonth ==
  ASSUME NEW y \in Int, NEW doy \in 1..(365 + Leap(y))
  PROVE  \E m \in 1..12 :
           /\ generate_date_ex(y, doy) = [month |-> m, day |-> doy - SE_MON_YDAY(y)[m]]
<1> DEFINE last == SE_MON_YDAY(y)
           In(m) == last[m] < doy /\ doy <= last[m + 1]
<1>1. \E m \in 1..12 : In(m)
  <2>1. Leap(y) \in 0..1 /\ doy \in Int
    BY DEF Leap
  <2>2. last[1] = 0 /\ last[13] = 365 + Leap(y)
    BY DEF SE_MON_YDAY, Leap
  <2>3. /\ last[2] \in Int /\ last[3] \in Int /\ last[4] \in Int /\ last[5] \in Int
        /\ last[6] \in Int /\ last[7] \in Int /\ last[8] \in Int /\ last[9] \in Int
        /\ last[10] \in Int /\ last[11] \in Int /\ last[12] \in Int
    BY DEF SE_MON_YDAY
  <2> HIDE DEF last
  <2>4. \/ In(1) \/ In(2) \/ In(3) \/ In(4) \/ In(5) \/ In(6) \/ In(7) \/ In(8)
        \/ In(9) \/ In(10) \/ In(11) \/ In(12)
    BY <2>1, <2>2, <2>3
  <2> QED
    BY <2>4
<1>2. doy \in 1..last[13]
  BY YearLength
<1>3. generate_date_ex(y, doy)
        = [month |-> CHOOSE m \in 1..12 : In(m), day |-> doy - last[CHOOSE m \in 1..12 : In(m)]]
  BY <1>2 DEF generate_date_ex
<1>4. (CHOOSE m \in 1..12 : In(m)) \in 1..12
  BY <1>1
<1> QED
  BY <1>3, <1>4

\* The day number of what generate_date_ex gives.
LEMMA DayNumber ==
  ASSUME NEW y \in Int, NEW doy \in Int
  PROVE  LET d == generate_date_ex(y, doy)
         IN  /\ d.month \in 0..12
             /\ date2j(y, d.month, d.day) - POSTGRES_EPOCH_JDATE
                  = Jan1(y) + (IF Exists(y, doy) THEN doy - 1 ELSE -32)
<1> DEFINE d == generate_date_ex(y, doy)
<1>1. Exists(y, doy) <=> doy \in 1..(365 + Leap(y))
  BY YearLength DEF Exists
<1>2. Jan1(y) \in Int
  BY YearLength
<1>3. CASE Exists(y, doy)
  <2>1. PICK m \in 1..12 : d = [month |-> m, day |-> doy - SE_MON_YDAY(y)[m]]
    BY <1>1, <1>3, DayHasMonth
  <2>2. SE_MON_YDAY(y)[m] = BeforeMonth(y, m) /\ BeforeMonth(y, m) \in Int
    BY DaysBeforeMonth
  <2>3. d.month = m /\ d.day = doy - BeforeMonth(y, m)
    BY <2>1, <2>2
  <2>4. date2j(y, m, doy - BeforeMonth(y, m)) - POSTGRES_EPOCH_JDATE
          = Jan1(y) + BeforeMonth(y, m) + (doy - BeforeMonth(y, m)) - 1
    BY <2>2, DayOfMonth
  <2>5. Jan1(y) + BeforeMonth(y, m) + (doy - BeforeMonth(y, m)) - 1 = Jan1(y) + (doy - 1)
    BY <1>2, <2>2
  <2> QED
    BY <1>3, <2>3, <2>4, <2>5
<1>4. CASE ~Exists(y, doy)
  <2>1. d = [month |-> 0, day |-> 0]
    BY <1>1, <1>4, YearLength, ZenonT(30) DEF generate_date_ex
  <2>2. BeforeMonth(y, 0) = -31
    BY DEF BeforeMonth
  <2>3. date2j(y, 0, 0) - POSTGRES_EPOCH_JDATE = Jan1(y) + BeforeMonth(y, 0) + 0 - 1
    BY DayOfMonth
  <2> QED
    BY <1>2, <1>4, <2>1, <2>2, <2>3
<1> QED
  BY <1>3, <1>4

-----------------------------------------------------------------------------
\* round_v1.

\* Comparing the rest with one half is adding one half before the division.
LEMMA HalfIsAdded ==
  ASSUME NEW x \in Nat, NEW den \in Nat \ {0}, NEW q \in Nat, NEW rest \in Int,
         rest = x - q * den, 0 <= rest, rest < den
  PROVE  (2 * x + den) \div (2 * den) = IF rest >= den - rest THEN q + 1 ELSE q
<1> DEFINE n == 2 * x + den
           b == 2 * den
<1>1. n \in Nat /\ b \in Nat \ {0}
  OBVIOUS
<1>2. x = q * den + rest /\ b * q = 2 * (q * den) /\ b * (q + 1) = 2 * (q * den) + b
  OBVIOUS
<1>3. q * den \in Nat /\ n = 2 * (q * den) + 2 * rest + den
  BY <1>2
<1> HIDE DEF n
<1>4. CASE rest >= den - rest
  <2>1. b * (q + 1) <= n /\ n < b * (q + 1) + b
    BY <1>2, <1>3, <1>4
  <2>2. n \div b = q + 1
    BY <1>1, <2>1, QuotientIs
  <2> QED
    BY <1>4, <2>2 DEF n
<1>5. CASE ~(rest >= den - rest)
  <2>1. b * q <= n /\ n < b * q + b
    BY <1>2, <1>3, <1>5
  <2>2. n \div b = q
    BY <1>1, <2>1, QuotientIs
  <2> QED
    BY <1>5, <2>2 DEF n
<1> QED
  BY <1>4, <1>5

LEMMA RoundsHalfUp ==
  ASSUME NEW val, val[1] \in Nat, val[2] \in Nat \ {0}, NEW p \in Int, InRange(val, p)
  PROVE  se_round_v1(val, p) = <<(2 * val[1] * 10^p + val[2]) \div (2 * val[2]), 10^p>>
<1> DEFINE x == val[1] * 10^p
           den == val[2]
           q == x \div den
<1>1. ~Infinite(p) /\ 10^p \in Nat /\ MaxInt64 \in Nat
  BY RoundingAssumption, WidthAssumption DEF InRange, Infinite
<1>2. x \in Nat /\ den \in Nat \ {0}
  BY <1>1
<1>3. 2 * val[1] * 10^p = 2 * x
  BY <1>1
<1>4. Quot(x, den) \in 0..MaxInt64
  BY DEF InRange
<1> HIDE DEF x, den
<1>5. Quot(x, den) = q
  BY <1>2 DEF Quot
<1>6. Cast(x, den, MaxInt64) = q
  BY <1>1, <1>4, <1>5 DEF Cast, MIN
<1>7. q \in Nat /\ 0 <= x - q * den /\ x - q * den < den
  BY <1>2, DivideRest
<1> HIDE DEF q
<1>8. Scaled(val, p) = [x |-> x, ival |-> q, rest |-> x - q * den, den |-> den]
  BY <1>6 DEF Scaled, x, den
<1>9. se_round_v1(val, p)
        = <<IF x - q * den >= den - (x - q * den) THEN q + 1 ELSE q, 10^p>>
  BY <1>1, <1>8 DEF se_round_v1, Unscaled
<1>10. (2 * x + den) \div (2 * den)
         = IF x - q * den >= den - (x - q * den) THEN q + 1 ELSE q
  BY <1>2, <1>7, HalfIsAdded
<1> QED
  BY <1>3, <1>9, <1>10 DEF den

-----------------------------------------------------------------------------
\* round_v2.

IsDivision(x, den, q, rest) ==
  /\ x \in Nat /\ den \in Nat \ {0} /\ q \in Nat /\ rest \in Nat
  /\ x = q * den + rest /\ rest < den

\* The digits of a quotient behind its point are those of the rest.
LEMMA NextDigits ==
  ASSUME NEW x, NEW den, NEW q, NEW rest, IsDivision(x, den, q, rest)
  PROVE  LET d == (rest * 100) \div den
         IN  /\ d \in 0..99
             /\ x \div den = q
             /\ (x * 10) \div den = 10 * q + (d \div 10)
             /\ (x * 100) \div den = 100 * q + d
<1> DEFINE d == (rest * 100) \div den
           a == d \div 10
           b == d % 10
           m == q * den
<1> USE DEF IsDivision
<1>1. d \in Nat /\ den * d <= rest * 100 /\ rest * 100 < den * d + den
  BY DivideRest
<1>2. m \in Nat /\ x = m + rest
  OBVIOUS
<1>3. d <= 99
  <2>1. ASSUME d >= 100 PROVE FALSE
    <3>1. den * d >= den * 100
      BY <1>1, <2>1
    <3> QED
      BY <1>1, <3>1
  <2> QED
    BY <1>1, <2>1
<1>4. a \in Nat /\ b \in 0..9 /\ d = 10 * a + b
  BY <1>1
<1> HIDE DEF d, a, b
<1>5. den * d = 10 * (den * a) + den * b /\ den * a \in Nat
  BY <1>4
<1>6. den * b \in Nat /\ den * b <= 9 * den
  BY <1>4
<1>7. den * a <= rest * 10 /\ rest * 10 < den * a + den
  <2>1. 10 * (den * a) <= rest * 100
    BY <1>1, <1>5, <1>6
  <2>2. rest * 100 < 10 * (den * a) + 10 * den
    BY <1>1, <1>5, <1>6
  <2> QED
    BY <1>5, <2>1, <2>2
<1>8. (x * 10) \div den = 10 * q + a
  <2>1. den * (10 * q + a) = 10 * m + den * a
    BY <1>4
  <2>2. x * 10 = 10 * m + rest * 10
    BY <1>2
  <2>3. den * (10 * q + a) <= x * 10 /\ x * 10 < den * (10 * q + a) + den
    BY <1>2, <1>5, <1>7, <2>1, <2>2
  <2>4. 10 * q + a \in Nat /\ x * 10 \in Nat
    BY <1>4
  <2> QED
    BY <2>3, <2>4, QuotientIs
<1>9. (x * 100) \div den = 100 * q + d
  <2>1. den * (100 * q + d) = 100 * m + den * d /\ den * d \in Nat
    BY <1>1
  <2>2. x * 100 = 100 * m + rest * 100
    BY <1>2
  <2>3. den * (100 * q + d) <= x * 100 /\ x * 100 < den * (100 * q + d) + den
    BY <1>1, <1>2, <2>1, <2>2
  <2>4. 100 * q + d \in Nat /\ x * 100 \in Nat
    BY <1>1
  <2> QED
    BY <2>3, <2>4, QuotientIs
<1>10. x \div den = q
  <2>1. den * q = m
    OBVIOUS
  <2> QED
    BY <1>2, <2>1, QuotientIs
<1> QED
  BY <1>1, <1>3, <1>8, <1>9, <1>10 DEF a, d

LEMMA RoundsHalfEven ==
  ASSUME NEW val, val[1] \in Nat, val[2] \in Nat \ {0}, NEW p \in Int, InRange(val, p)
  PROVE  LET digit(n) == ((val[1] * 10^p * 10^n) \div val[2]) % 10
             below    == (val[1] * 10^p) \div val[2]
             carry    == digit(1) > 5 \/ (digit(1) = 5 /\ (digit(2) # 0 \/ digit(0) % 2 = 1))
         IN  se_round_v2(val, p) = <<IF carry THEN below + 1 ELSE below, 10^p>>
<1> DEFINE x == val[1] * 10^p
           den == val[2]
           q == x \div den
           rest == x - q * den
           d == (rest * 100) \div den
<1>1. ~Infinite(p) /\ 10^p \in Nat /\ MaxInt64 \in Nat /\ MaxInt32 \in Nat
  BY RoundingAssumption, WidthAssumption DEF InRange, Infinite
<1>2. x \in Nat /\ den \in Nat \ {0}
  BY <1>1
<1>3. Quot(x, den) \in 0..MaxInt64
  BY DEF InRange
<1> HIDE DEF x, den
<1>4. Quot(x, den) = q
  BY <1>2 DEF Quot
<1>5. Cast(x, den, MaxInt64) = q
  BY <1>1, <1>3, <1>4 DEF Cast, MIN
<1>6. q \in Nat /\ rest \in Nat /\ rest < den /\ x = q * den + rest
  BY <1>2, DivideRest
<1>7. Scaled(val, p) = [x |-> x, ival |-> q, rest |-> rest, den |-> den]
  BY <1>5 DEF Scaled, x, den
<1> HIDE DEF q, rest
<1>8. /\ d \in 0..99
      /\ x \div den = q
      /\ (x * 10) \div den = 10 * q + (d \div 10)
      /\ (x * 100) \div den = 100 * q + d
  <2>1. /\ (rest * 100) \div den \in 0..99
        /\ x \div den = q
        /\ (x * 10) \div den = 10 * q + (((rest * 100) \div den) \div 10)
        /\ (x * 100) \div den = 100 * q + ((rest * 100) \div den)
    <3>1. IsDivision(x, den, q, rest)
      BY <1>2, <1>6 DEF IsDivision
    <3> QED
      BY <3>1, NextDigits
  <2> QED
    BY <2>1
<1>9. Quot(rest, den) = 0 /\ Quot(rest * 100, den) = d
  <2>1. rest \div den = 0
    BY <1>2, <1>6, QuotientIs
  <2> QED
    BY <1>2, <1>6, <2>1 DEF Quot
<1>10. 0 \in -(MaxInt32 \div 100)..(MaxInt32 \div 100)
  BY <1>1
<1>11. se_round_v2(val, p)
         = <<IF d >= 60 \/ d > 50 \/ (d = 50 /\ q % 2 = 1) THEN q + 1 ELSE q, 10^p>>
  <2> HIDE DEF d
  <2> QED
    BY <1>1, <1>7, <1>9, <1>10 DEF se_round_v2, Unscaled
<1> HIDE DEF d
<1>12. /\ (x \div den) % 10 = q % 10
       /\ ((x * 10) \div den) % 10 = d \div 10
       /\ ((x * 100) \div den) % 10 = d % 10
  <2>1. d \div 10 \in 0..9 /\ (10 * q + (d \div 10)) % 10 = d \div 10
    BY <1>6, <1>8
  <2>2. (100 * q + d) % 10 = d % 10
    BY <1>6, <1>8
  <2> QED
    BY <1>8, <2>1, <2>2
<1>13. (d >= 60 \/ d > 50 \/ (d = 50 /\ q % 2 = 1))
         <=> (d \div 10 > 5 \/ (d \div 10 = 5 /\ (d % 10 # 0 \/ (q % 10) % 2 = 1)))
  <2>1. (q % 10) % 2 = q % 2
    BY <1>6
  <2> QED
    BY <1>8, <2>1
<1>14. /\ ((x * 10^0) \div den) % 10 = q % 10
       /\ ((x * 10^1) \div den) % 10 = d \div 10
       /\ ((x * 10^2) \div den) % 10 = d % 10
  <2>1. 10^0 = 1 /\ 10^1 = 10 /\ 10^2 = 100
    BY SMT
  <2>2. x * 1 = x
    BY <1>2
  <2> QED
    BY <1>12, <2>1, <2>2
<1> QED
  BY <1>8, <1>11, <1>13, <1>14 DEF x, den

-----------------------------------------------------------------------------
\* byte_units.

\* The powers of Kilo are positive.
LEMMA UnitsArePositive == \A u \in 0..7 : Kilo^u \in Nat \ {0}
<1> DEFINE S == {n \in Nat : n <= 7 => Kilo^n \in Nat \ {0}}
<1>1. 0 \in S
  BY RoundingAssumption
<1>2. ASSUME NEW n \in Nat, n \in S PROVE n + 1 \in S
  <2>1. CASE n + 1 <= 7
    <3>1. Kilo^n \in Nat \ {0} /\ Kilo^(n + 1) = Kilo^n * Kilo
      BY <1>2, <2>1, RoundingAssumption
    <3>2. \A a \in Nat \ {0} : a * Kilo \in Nat \ {0}
      BY RoundingAssumption
    <3>3. Kilo^n * Kilo \in Nat \ {0}
      BY <3>1, <3>2
    <3> QED
      BY <3>1, <3>3
  <2> QED
    BY <2>1
<1>3. Nat \subseteq S
  <2> HIDE DEF S
  <2> QED
    BY <1>1, <1>2, Induction
<1> QED
  BY <1>3

\* The unit of a size is the largest one in it, but for two sizes.
LEMMA IndexIs ==
  ASSUME NEW val \in Nat \ {0}, val < Kilo^7, NEW index \in current_index(val)
  PROVE  \/ index \in 0..6 /\ Kilo^index <= val /\ val < Kilo^(index + 1)
         \/ index = 6 /\ val \in {Kilo^6 - 2, Kilo^6 - 1}
<1> DEFINE In(k) == Kilo^k <= val /\ val < Kilo^(k + 1)
<1>1. CASE val \in {Kilo^6 - 2, Kilo^6 - 1}
  <2>1. ~(val <= 0)
    OBVIOUS
  <2>2. current_index(val) = {6}
    BY <1>1, <2>1, Zenon DEF current_index
  <2> QED
    BY <1>1, <2>2
<1>2. CASE val \notin {Kilo^6 - 2, Kilo^6 - 1}
  <2>1. Kilo^0 <= val
    BY RoundingAssumption
  <2>2. \A k \in 0..7 : Kilo^k \in Nat
    BY UnitsArePositive
  <2>3. In(0) \/ In(1) \/ In(2) \/ In(3) \/ In(4) \/ In(5) \/ In(6)
    BY <2>1, <2>2
  <2>4. \E k \in 0..6 : In(k)
    BY <2>3
  <2>5. index = CHOOSE k \in 0..6 : In(k)
    <3>1. ~(val <= 0)
      OBVIOUS
    <3>2. current_index(val) = {CHOOSE k \in 0..6 : In(k)}
      BY <1>2, <3>1, Zenon DEF current_index
    <3> QED
      BY <3>2
  <2> HIDE DEF In
  <2>6. index \in 0..6 /\ In(index)
    BY <2>4, <2>5
  <2> QED
    BY <2>6 DEF In
<1> QED
  BY <1>1, <1>2

\* v / 10^dec units are as near to num as half of the last place.
IsNear(v, dec, num, unit) ==
  /\ v \in Int
  /\ 2 * (v * unit - num * 10^dec) <= unit
  /\ -2 * (v * unit - num * 10^dec) <= unit

\* snprintf rounds to the nearest number, and leaves a rounded one alone.
LEMMA PrintedIsNear ==
  ASSUME NEW num \in Nat, NEW unit \in Nat \ {0}
  PROVE  /\ IsNear(Printed(<<num, unit>>, 0), 0, num, unit)
         /\ Printed(<<num, unit>>, 0) \in {num \div unit, (num \div unit) + 1}
<1> DEFINE q == num \div unit
           r == num % unit
           v == Printed(<<num, unit>>, 0)
<1>1. 10^0 = 1
  BY SMT
<1>2. num * 1 = num
  OBVIOUS
<1>3. v = IF 2 * r > unit \/ (2 * r = unit /\ q % 2 = 1) THEN q + 1 ELSE q
  BY <1>1, <1>2 DEF Printed
<1>4. q \in Nat /\ r \in Nat /\ r < unit /\ num = unit * q + r
  OBVIOUS
<1> HIDE DEF q, r, v
<1>5. q * unit = unit * q /\ (q + 1) * unit = unit * q + unit /\ unit * q \in Nat
  BY <1>4
<1>6. v * unit - num * 1 = IF v = q THEN -r ELSE unit - r
  <2>1. CASE v = q
    BY <1>4, <1>5, <2>1
  <2>2. CASE v # q
    <3>1. v = q + 1
      BY <1>3, <2>2
    <3> QED
      BY <1>4, <1>5, <2>2, <3>1
  <2> QED
    BY <2>1, <2>2
<1>7. 2 * (v * unit - num * 1) <= unit /\ -2 * (v * unit - num * 1) <= unit
  <2> DEFINE d == v * unit - num * 1
  <2>1. d = IF v = q THEN -r ELSE unit - r
    BY <1>6
  <2> HIDE DEF d
  <2>2. 2 * d <= unit /\ -2 * d <= unit
    BY <1>3, <1>4, <2>1
  <2> QED
    BY <2>2 DEF d
<1>8. IsNear(v, 0, num, unit)
  BY <1>1, <1>3, <1>4, <1>7 DEF IsNear
<1>9. v = q \/ v = q + 1
  BY <1>3
<1> QED
  BY <1>8, <1>9 DEF q, v

LEMMA PlacesAre ==
  ASSUME NEW dec \in 0..2
  PROVE  10^dec \in {1, 10, 100} /\ 10^0 = 1 /\ 10^2 = 100
<1>1. 10^0 = 1 /\ 10^1 = 10 /\ 10^2 = 100
  BY SMT
<1> QED
  BY <1>1, dec = 0 \/ dec = 1 \/ dec = 2

LEMMA PrintedAgain ==
  ASSUME NEW n \in Int, NEW dec \in 0..2
  PROVE  Printed(<<n, 10^dec>>, dec) = n
<1> DEFINE f == 10^dec
<1>1. f \in {1, 10, 100}
  BY PlacesAre
<1> HIDE DEF f
<1>2. (n * f) \div f = n /\ (n * f) % f = 0
  <2>1. CASE f = 1
    BY <2>1
  <2>2. CASE f = 10
    BY <2>2
  <2>3. CASE f = 100
    BY <2>3
  <2> QED
    BY <1>1, <2>1, <2>2, <2>3
<1> QED
  BY <1>1, <1>2 DEF Printed, f

\* What byte_round and snprintf make of a size and the unit that is in it.
LEMMA TextIsNear ==
  ASSUME NEW num \in Nat \ {0}, NEW unit \in Nat \ {0}, NEW dec \in 0..2,
         num < Kilo * unit
  PROVE  LET r == byte_round(num, unit, dec)
             v == Printed(r.value, r.precision)
         IN  /\ r.precision \in {0, dec}
             /\ IsNear(v, r.precision, num, unit)
             /\ unit <= num => r.value[1] > 0 /\ v \in 10^r.precision..(Kilo * 10^r.precision)
             /\ unit >= 4 /\ num \in {unit - 2, unit - 1} /\ dec = 2 => r.value[1] > 0
<1> DEFINE f == 10^dec
           x == num * f
           q == x \div unit
           rest == x - q * unit
           n == IF rest >= unit - rest THEN q + 1 ELSE q
           r == byte_round(num, unit, dec)
           v == Printed(r.value, r.precision)
<1>1. f \in {1, 10, 100} /\ 10^0 = 1 /\ 10^2 = 100
  BY PlacesAre
<1>2. Kilo \in Nat /\ Kilo >= 2 /\ Kilo * 100 <= MaxInt64 /\ MaxInt64 \in Nat
  BY RoundingAssumption, WidthAssumption
<1> HIDE DEF f
<1>3. x \in Nat /\ x < f * (Kilo * unit) /\ (unit <= num => f * unit <= x)
  <2>1. Kilo * unit \in Nat
    BY <1>2
  <2> QED
    BY <1>1, <2>1
<1>4. q \in Nat /\ q * unit <= x /\ rest \in Nat /\ rest < unit
  <2> HIDE DEF x
  <2> QED
    BY <1>3, DivideRest
<1> HIDE DEF x, q
<1>5. q < f * Kilo
  <2>1. ASSUME q >= f * Kilo PROVE FALSE
    <3>1. f * Kilo \in Nat
      BY <1>1, <1>2
    <3>2. q * unit >= (f * Kilo) * unit
      BY <1>4, <2>1, <3>1
    <3>3. (f * Kilo) * unit = f * (Kilo * unit)
      BY <1>1, <1>2
    <3>4. q * unit \in Nat /\ f * (Kilo * unit) \in Nat
      BY <1>1, <1>2, <1>4
    <3> QED
      BY <1>3, <1>4, <3>2, <3>3, <3>4
  <2> QED
    BY <1>1, <1>2, <1>4, <2>1
<1>6. unit <= num => f <= q
  <2>1. ASSUME unit <= num, q + 1 <= f PROVE FALSE
    <3>1. (q + 1) * unit <= f * unit
      BY <1>1, <1>4, <2>1
    <3>2. (q + 1) * unit = q * unit + unit
      BY <1>4
    <3>3. q * unit \in Nat /\ f * unit \in Nat
      BY <1>1, <1>4
    <3> QED
      BY <1>3, <1>4, <2>1, <3>1, <3>2, <3>3
  <2> QED
    BY <1>1, <1>4, <2>1
<1>7. Cast(x, unit, MaxInt64) = q
  <2>1. Quot(x, unit) = q
    BY <1>3 DEF Quot, q
  <2>2. q \in MIN(MaxInt64)..MaxInt64
    <3>1. f * Kilo <= 100 * Kilo
      BY <1>1, <1>2
    <3> QED
      BY <1>1, <1>2, <1>4, <1>5, <3>1 DEF MIN
  <2> QED
    BY <2>1, <2>2 DEF Cast
<1>8. Scaled(<<num, unit>>, dec) = [x |-> x, ival |-> q, rest |-> rest, den |-> unit]
  BY <1>7 DEF Scaled, x, f
<1> HIDE DEF rest
<1>9. CASE rest = 0
  <2>1. r = [value |-> <<num, unit>>, precision |-> 0]
    BY <1>8, <1>9 DEF byte_round
  <2>2. v = Printed(<<num, unit>>, 0)
    BY <2>1
  <2> DEFINE p == num \div unit
  <2>3. IsNear(v, 0, num, unit) /\ v \in {p, p + 1}
    BY <2>2, PrintedIsNear
  <2>4. ASSUME unit <= num PROVE 1 <= p /\ p < Kilo
    <3>1. p \in Nat /\ unit * p <= num /\ num < unit * p + unit
      BY DivideRest
    <3> HIDE DEF p
    <3>2. p # 0
      BY <2>4, <3>1
    <3>3. ASSUME p >= Kilo PROVE FALSE
      <4>1. unit * p >= unit * Kilo /\ unit * Kilo = Kilo * unit
        BY <1>2, <3>1, <3>3
      <4>2. unit * p \in Nat /\ Kilo * unit \in Nat
        BY <1>2, <3>1
      <4> QED
        BY <3>1, <4>1, <4>2
    <3> QED
      BY <1>2, <3>1, <3>2, <3>3
  <2> HIDE DEF p
  <2>5. ASSUME unit <= num PROVE v \in 1..(Kilo * 1)
    <3>1. p \in Nat
      BY DivideRest DEF p
    <3> HIDE DEF v
    <3> QED
      BY <1>2, <2>3, <2>4, <2>5, <3>1
  <2> HIDE DEF v
  <2> QED
    BY <1>1, <2>1, <2>3, <2>5 DEF v
<1>10. CASE rest # 0
  <2>1. n \in Int /\ n \in {q, q + 1}
    BY <1>4
  <2>2. r = [value |-> <<n, 10^dec>>, precision |-> dec]
    BY <1>8, <1>10 DEF byte_round, Unscaled
  <2>3. v = n
    <3>1. Printed(<<n, 10^dec>>, dec) = n
      BY <2>1, PrintedAgain
    <3>2. v = Printed(<<n, 10^dec>>, dec)
      BY <2>2
    <3> QED
      BY <3>1, <3>2
  <2>4. 2 * (n * unit - x) <= unit /\ -2 * (n * unit - x) <= unit
    <3>1. n * unit - x = IF rest >= unit - rest THEN unit - rest ELSE -rest
      <4>1. q * unit \in Nat /\ rest = x - q * unit
        BY <1>4 DEF rest
      <4>2. (q + 1) * unit = q * unit + unit
        BY <1>4
      <4> QED
        BY <1>3, <4>1, <4>2
    <3> DEFINE d == n * unit - x
    <3>2. d = IF rest >= unit - rest THEN unit - rest ELSE -rest
      BY <3>1
    <3> HIDE DEF d
    <3>3. 2 * d <= unit /\ -2 * d <= unit
      BY <1>4, <3>2
    <3> QED
      BY <3>3 DEF d
  <2>5. IsNear(n, dec, num, unit)
    BY <2>1, <2>4 DEF IsNear, x, f
  <2>6. ASSUME unit <= num PROVE n > 0 /\ n \in f..(Kilo * f)
    <3>1. Kilo * f = f * Kilo /\ Kilo * f \in Nat
      BY <1>1, <1>2
    <3> QED
      BY <1>1, <1>4, <1>5, <1>6, <2>1, <2>6, <3>1
  <2>7. ASSUME unit >= 4, num \in {unit - 2, unit - 1}, dec = 2 PROVE n > 0
    <3>1. f = 100
      BY <1>1, <2>7 DEF f
    <3>2. x >= 100 * unit - 200 /\ x <= 100 * unit
      BY <2>7, <3>1 DEF x
    <3>3. q # 0
      <4>1. ASSUME q = 0 PROVE FALSE
        <5>1. 0 * unit = 0
          OBVIOUS
        <5>2. x < unit
          BY <1>3, <1>4, <4>1, <5>1 DEF rest
        <5> QED
          BY <1>3, <2>7, <3>2, <5>2
      <4> QED
        BY <4>1
    <3> QED
      BY <1>4, <2>1, <3>3
  <2> HIDE DEF n, v
  <2> QED
    BY <2>2, <2>3, <2>5, <2>6, <2>7 DEF f, v
<1> QED
  BY <1>9, <1>10

\* A size of nothing or less is rounded to no more than nothing.
LEMMA NothingToShow ==
  ASSUME NEW num \in Int, num <= 0, NEW unit \in Nat \ {0}, NEW dec \in 0..2
  PROVE  LET n == byte_round(num, unit, dec).value[1]
         IN  n \in Int /\ n <= 0
<1> DEFINE f == 10^dec
           x == num * f
           ival == Cast(x, unit, MaxInt64)
           rest == x - ival * unit
<1>1. f \in {1, 10, 100} /\ MaxInt64 \in Nat
  <2>1. f \in {1, 10, 100}
    BY PlacesAre, Zenon
  <2> QED
    BY <2>1, WidthAssumption
<1> HIDE DEF f
<1>2. x \in Int /\ x <= 0
  BY <1>1
<1> HIDE DEF x
<1>3. /\ ival \in Int /\ ival <= 0
      /\ ival = 0 => rest <= 0
  <2> DEFINE q == Quot(x, unit)
  <2>1. q \in Int /\ q <= 0
    <3>1. CASE x = 0
      <4>1. 0 \div unit = 0
        BY QuotientIs
      <4> QED
        BY <3>1, <4>1 DEF Quot
    <3>2. CASE x < 0
      <4>1. (-x) \div unit \in Nat
        BY <1>2, <3>2, DivideRest
      <4> QED
        BY <3>2, <4>1 DEF Quot
    <3> QED
      BY <1>2, <3>1, <3>2
  <2> HIDE DEF q
  <2>2. ival = q \/ ival = MIN(MaxInt64)
    BY DEF Cast, q
  <2>3. ival \in Int /\ ival <= 0
    BY <1>1, <2>1, <2>2 DEF MIN
  <2>4. ival = 0 => x - ival * unit = x
    BY <1>2
  <2> HIDE DEF ival
  <2> QED
    BY <1>2, <2>3, <2>4
<1>4. Scaled(<<num, unit>>, dec) = [x |-> x, ival |-> ival, rest |-> rest, den |-> unit]
  BY DEF Scaled, x, f
<1>5. rest \in Int
  <2> HIDE DEF ival
  <2> QED
    BY <1>2, <1>3
<1> HIDE DEF ival, rest
<1>6. CASE rest = 0
  BY <1>4, <1>6 DEF byte_round
<1>7. CASE rest # 0
  <2>1. byte_round(num, unit, dec).value[1] = IF rest >= unit - rest THEN ival + 1 ELSE ival
    BY <1>4, <1>7 DEF byte_round, Unscaled
  <2> QED
    BY <1>3, <1>5, <2>1
<1> QED
  BY <1>6, <1>7

-----------------------------------------------------------------------------
\* Random strings.

\* at is where the n characters of t begin, and behind them its end.
Marks(t, at, n) ==
  /\ at[0] = 1
  /\ at[n] = Len(t) + 1
  /\ \A k \in 1..n :
       at[k - 1] \in 1..Len(t) /\ at[k] = at[k - 1] + LeadLength(t[at[k - 1]])

\* t is n characters of kinds that the flag asks for.
IsText(t, n, flag) ==
  /\ t \in Seq(Nat)
  /\ \E at \in [0..n -> Nat] :
       Marks(t, at, n) /\ \A k \in 1..n : KindAt(t, at[k - 1]) \in Asked(flag)

LEMMA Joined ==
  ASSUME NEW t \in Seq(Nat), NEW s \in Seq(Nat)
  PROVE  /\ t \o s \in Seq(Nat) /\ Len(t \o s) = Len(t) + Len(s)
         /\ \A k \in 1..Len(t) : (t \o s)[k] = t[k]
         /\ \A k \in 1..Len(s) : (t \o s)[Len(t) + k] = s[k]
OBVIOUS

LEMMA RangeIsKept ==
  ASSUME NEW lmin \in Int, NEW lmax \in Int, lmin <= lmax
  PROVE  RANGE_RANDOM(lmin, lmax) \subseteq lmin..lmax
<1> SUFFICES ASSUME NEW r \in Randoms
             PROVE  (r % (lmax + 1 - lmin)) + lmin \in lmin..lmax
  BY DEF RANGE_RANDOM
<1>1. PICK size \in Nat \ {0} : size = lmax + 1 - lmin
  OBVIOUS
<1>2. PICK n \in Nat : n = r
  BY RandAssumption
<1>3. n % size \in 0..(size - 1)
  OBVIOUS
<1> QED
  BY <1>1, <1>2, <1>3

\* The codes of Chinese characters.
ZhCodes == 19968..20901

LEMMA RangesAreKept ==
  /\ RANGE_RANDOM(48, 57) \subseteq 48..57
  /\ RANGE_RANDOM(65, 90) \subseteq 65..90
  /\ RANGE_RANDOM(97, 122) \subseteq 97..122
  /\ RANGE_RANDOM(19968, 20901) \subseteq ZhCodes
<1>1. RANGE_RANDOM(48, 57) \subseteq 48..57
  BY RangeIsKept
<1>2. RANGE_RANDOM(65, 90) \subseteq 65..90
  BY RangeIsKept
<1>3. RANGE_RANDOM(97, 122) \subseteq 97..122
  BY RangeIsKept
<1>4. RANGE_RANDOM(19968, 20901) \subseteq ZhCodes
  <2>1. \A r \in Randoms : r \in Nat
    BY RandAssumption
  <2>2. \A r \in Nat : (r % (20901 + 1 - 19968)) + 19968 \in ZhCodes
    BY SMT DEF ZhCodes
  <2> QED
    BY <2>1, <2>2, SMT DEF RANGE_RANDOM
<1> QED
  BY <1>1, <1>2, <1>3, <1>4

\* The three bytes of a Chinese character give its code.
BytesOf(code, s) ==
  /\ s \in Seq(Nat) /\ Len(s) = 3
  /\ s[1] \in 224..239
  /\ (s[1] - 224) * 4096 + (s[2] - 128) * 64 + s[3] - 128 = code

LEMMA CodeOfBytes ==
  ASSUME NEW code \in ZhCodes
  PROVE  BytesOf(code, random_utf8_zh(code))
<1> DEFINE a == (code \div 4096) + 224
           b == ((code \div 64) % 64) + 128
           c == ((code \div 1) % 64) + 128
           s == <<a, b, c>>
<1>a. code \in Nat /\ code <= 65535 /\ ~(code <= 127) /\ ~(code <= 2047) /\ code \notin 55296..57343
  BY SMT DEF ZhCodes
<1>1. random_utf8_zh(code) = s
  <2> USE DEF random_utf8_zh
  <2> QED
    BY <1>a, SMT
<1>2. PICK q \in Nat : q = code \div 64
  BY <1>a
<1>3. code = 64 * q + (code % 64) /\ code % 64 \in 0..63 /\ code \div 1 = code
  BY <1>a, <1>2
<1>4. q = 64 * (q \div 64) + (q % 64) /\ q % 64 \in 0..63 /\ q \div 64 \in Nat
  OBVIOUS
<1>5. code \div 4096 = q \div 64
  <2>1. PICK d \in Nat : d = q \div 64
    BY <1>4
  <2>2. 4096 * d <= code /\ code < 4096 * d + 4096
    BY <1>3, <1>4, <2>1
  <2> QED
    BY <1>a, <2>1, <2>2, QuotientIs
<1>6. q \div 64 \in 0..15
  BY <1>a, <1>3, <1>4
<1>7. a \in 224..239 /\ b \in Nat /\ c \in Nat
  BY <1>a, <1>2, <1>3, <1>4, <1>5, <1>6
<1>8. (a - 224) * 4096 + (b - 128) * 64 + c - 128 = code
  BY <1>a, <1>2, <1>3, <1>4, <1>5
<1> HIDE DEF a, b, c
<1>9. s \in Seq(Nat) /\ Len(s) = 3 /\ s[1] = a /\ s[2] = b /\ s[3] = c
  BY <1>7
<1> HIDE DEF s
<1>10. BytesOf(code, s)
  BY <1>7, <1>8, <1>9 DEF BytesOf
<1> QED
  BY <1>1, <1>10

\* What a kind draws, recognised behind any text by the property's reading.
KindsOf(kind) == IF kind = 0 THEN 1..4 ELSE {kind}

IsCharacter(c, kind) ==
  /\ c \in Seq(Nat) /\ Len(c) > 0
  /\ LeadLength(c[1]) = Len(c)
  /\ \A t \in Seq(Nat) : KindAt(t \o c, Len(t) + 1) \in KindsOf(kind)

LEMMA OneByte ==
  ASSUME NEW x \in Nat, NEW kind \in 1..3,
         x \in (IF kind = 1 THEN 48..57 ELSE IF kind = 2 THEN 65..90 ELSE 97..122)
  PROVE  IsCharacter(<<x>>, kind)
<1>1. <<x>> \in Seq(Nat) /\ Len(<<x>>) = 1 /\ <<x>>[1] = x
  OBVIOUS
<1>2. LeadLength(x) = 1
  BY DEF LeadLength
<1>3. ASSUME NEW t \in Seq(Nat) PROVE KindAt(t \o <<x>>, Len(t) + 1) = kind
  <2>1. (t \o <<x>>)[Len(t) + 1] = x
    OBVIOUS
  <2> QED
    BY <2>1 DEF KindAt
<1> QED
  BY <1>1, <1>2, <1>3 DEF IsCharacter, KindsOf

LEMMA ThreeBytes ==
  ASSUME NEW code \in ZhCodes
  PROVE  IsCharacter(random_utf8_zh(code), 4)
<1>1. PICK s : s = random_utf8_zh(code)
  OBVIOUS
<1>2. /\ s \in Seq(Nat) /\ Len(s) = 3 /\ s[1] \in 224..239
      /\ (s[1] - 224) * 4096 + (s[2] - 128) * 64 + s[3] - 128 = code
  BY <1>1, CodeOfBytes, SMTT(30) DEF BytesOf
<1>a. s \in Seq(Nat) /\ Len(s) = 3 /\ s[1] \in 224..239
  BY <1>2
<1>3. LeadLength(s[1]) = 3
  BY <1>a DEF LeadLength
<1>4. ASSUME NEW t \in Seq(Nat) PROVE KindAt(t \o s, Len(t) + 1) = 4
  <2>1. PICK u : u = t \o s
    OBVIOUS
  <2>2. PICK p \in Nat : p = Len(t) + 1
    OBVIOUS
  <2>3. p + 2 <= Len(u) /\ u[p] = s[1] /\ u[p + 1] = s[2] /\ u[p + 2] = s[3]
    <3>1. Len(u) = Len(t) + 3 /\ \A k \in 1..3 : u[Len(t) + k] = s[k]
      <4>1. Len(t \o s) = Len(t) + Len(s) /\ \A k \in 1..Len(s) : (t \o s)[Len(t) + k] = s[k]
        BY <1>a, Joined
      <4> QED
        BY <1>a, <2>1, <4>1
    <3>2. p = Len(t) + 1 /\ p + 1 = Len(t) + 2 /\ p + 2 = Len(t) + 3
      BY <2>2
    <3> QED
      BY <3>1, <3>2
  <2>4. (u[p] - 224) * 4096 + (u[p + 1] - 128) * 64 + u[p + 2] - 128 \in ZhCodes
    <3>1. (s[1] - 224) * 4096 + (s[2] - 128) * 64 + s[3] - 128 \in ZhCodes
      BY <1>2
    <3> QED
      BY <2>3, <3>1
  <2>5. u[p] \in 224..239 /\ u[p] \notin 48..57 /\ u[p] \notin 65..90 /\ u[p] \notin 97..122
    <3>1. \A x \in 224..239 : x \notin 48..57 /\ x \notin 65..90 /\ x \notin 97..122
      OBVIOUS
    <3>2. PICK x \in 224..239 : x = s[1]
      BY <1>a
    <3>3. u[p] = x
      BY <2>3, <3>2
    <3> QED
      BY <3>1, <3>3
  <2>6. KindAt(u, p) = 4
    BY <2>3, <2>4, <2>5, SMTT(30) DEF KindAt, ZhCodes
  <2> QED
    BY <2>1, <2>2, <2>6
<1>5. IsCharacter(s, 4)
  BY <1>2, <1>3, <1>4 DEF IsCharacter, KindsOf
<1> QED
  BY <1>1, <1>5

LEMMA DrawnIsCharacter ==
  ASSUME NEW kind \in 0..4, NEW c \in rand_num_abc_zh(kind)
  PROVE  IsCharacter(c, kind)
<1> DEFINE one(lmin, lmax) == {<<x>> : x \in RANGE_RANDOM(lmin, lmax)}
           zh == {random_utf8_zh(x) : x \in RANGE_RANDOM(19968, 20901)} \ {<<>>}
           of == <<one(48, 57), one(65, 90), one(97, 122), zh>>
<1>1. of[1] = one(48, 57) /\ of[2] = one(65, 90) /\ of[3] = one(97, 122) /\ of[4] = zh
  OBVIOUS
<1>2. \A k \in 1..4 : \A d \in of[k] : IsCharacter(d, k)
  <2>1. \A d \in one(48, 57) : IsCharacter(d, 1)
    BY RangesAreKept, OneByte
  <2>2. \A d \in one(65, 90) : IsCharacter(d, 2)
    BY RangesAreKept, OneByte
  <2>3. \A d \in one(97, 122) : IsCharacter(d, 3)
    BY RangesAreKept, OneByte
  <2>4. \A d \in zh : IsCharacter(d, 4)
    BY RangesAreKept, ThreeBytes
  <2>5. \A k \in 1..4 : k = 1 \/ k = 2 \/ k = 3 \/ k = 4
    OBVIOUS
  <2> HIDE DEF one, zh, of
  <2> QED
    BY <1>1, <2>1, <2>2, <2>3, <2>4, <2>5
<1>3. c \in IF kind = 0 THEN UNION {of[k] : k \in 1..4} ELSE of[kind]
  BY DEF rand_num_abc_zh
<1> HIDE DEF of
<1>4. PICK k \in 1..4 : c \in of[k] /\ (kind # 0 => k = kind)
  BY <1>3
<1>5. IsCharacter(c, k)
  BY <1>2, <1>4
<1> QED
  BY <1>4, <1>5 DEF IsCharacter, KindsOf

\* ckeck_flag draws from what the flag asks for.
LEMMA FlagIsChecked ==
  ASSUME NEW flag, NEW kind \in ckeck_flag(flag)
  PROVE  kind \in 0..4 /\ KindsOf(kind) \subseteq Asked(flag)
<1>1. CASE flag \in 1..14
  <2> DEFINE bit(k) == (flag \div <<1, 2, 4, 8>>[k]) % 2
  <2>1. /\ bit(1) = flag % 2 /\ bit(2) = (flag \div 2) % 2
        /\ bit(3) = (flag \div 4) % 2 /\ bit(4) = (flag \div 8) % 2
    BY <1>1
  <2>2. kind \in 1..4
    BY <1>1 DEF ckeck_flag
  <2>3. bit(kind) = 1
    BY <1>1, <2>1 DEF ckeck_flag
  <2> QED
    BY <1>1, <2>2, <2>3 DEF KindsOf, Asked
<1>2. CASE flag \notin 1..14
  BY <1>2 DEF ckeck_flag, KindsOf, Asked
<1> QED
  BY <1>1, <1>2

\* Every range has a number in it.
LEMMA SomethingIsDrawn ==
  ASSUME NEW kind \in 1..4
  PROVE  \E c \in rand_num_abc_zh(kind) : c \in rand_num_abc_zh(0)
<1> DEFINE one(lmin, lmax) == {<<x>> : x \in RANGE_RANDOM(lmin, lmax)}
           zh == {random_utf8_zh(x) : x \in RANGE_RANDOM(19968, 20901)} \ {<<>>}
           of == <<one(48, 57), one(65, 90), one(97, 122), zh>>
<1>1. of[1] = one(48, 57) /\ of[2] = one(65, 90) /\ of[3] = one(97, 122) /\ of[4] = zh
  OBVIOUS
<1>2. \A lmin, lmax : RANGE_RANDOM(lmin, lmax) # {}
  BY RandAssumption DEF RANGE_RANDOM
<1>3. zh # {}
  <2>1. PICK code \in RANGE_RANDOM(19968, 20901) : code \in ZhCodes
    BY <1>2, RangesAreKept
  <2>2. random_utf8_zh(code) # <<>>
    <3>1. Len(random_utf8_zh(code)) = 3 /\ Len(<<>>) = 0
      BY <2>1, CodeOfBytes DEF BytesOf
    <3> QED
      BY <3>1
  <2> QED
    BY <2>1, <2>2
<1>4. \A lmin, lmax : one(lmin, lmax) # {}
  BY <1>2
<1> HIDE DEF one, zh
<1>5. PICK c : c \in of[kind]
  BY <1>1, <1>3, <1>4
<1>6. rand_num_abc_zh(kind) = of[kind] /\ rand_num_abc_zh(0) = UNION {of[k] : k \in 1..4}
  BY DEF rand_num_abc_zh, one, zh
<1> HIDE DEF of
<1> QED
  BY <1>5, <1>6

\* ckeck_flag leaves no kind out that the flag asks for.
LEMMA KindCanCome ==
  ASSUME NEW flag, NEW k \in Asked(flag)
  PROVE  \E kind \in ckeck_flag(flag) : \E c \in rand_num_abc_zh(kind) : KindAt(c, 1) = k
<1>1. k \in 1..4
  BY DEF Asked
<1>2. k \in ckeck_flag(flag) \/ 0 \in ckeck_flag(flag)
  <2>1. CASE flag \in 1..14
    <3> DEFINE bit(n) == (flag \div <<1, 2, 4, 8>>[n]) % 2
    <3>1. /\ bit(1) = flag % 2 /\ bit(2) = (flag \div 2) % 2
          /\ bit(3) = (flag \div 4) % 2 /\ bit(4) = (flag \div 8) % 2
      BY <2>1
    <3>2. bit(k) = 1
      BY <2>1 DEF Asked
    <3> QED
      BY <1>1, <2>1, <3>1, <3>2 DEF ckeck_flag
  <2>2. CASE flag \notin 1..14
    BY <2>2 DEF ckeck_flag
  <2> QED
    BY <2>1, <2>2
<1>3. PICK c \in rand_num_abc_zh(k) : c \in rand_num_abc_zh(0)
  BY <1>1, SomethingIsDrawn
<1>4. KindAt(c, 1) = k
  <2>1. IsCharacter(c, k)
    BY <1>1, <1>3, DrawnIsCharacter
  <2>2. <<>> \in Seq(Nat) /\ Len(<<>>) = 0 /\ <<>> \o c = c
    BY <2>1 DEF IsCharacter
  <2>3. KindAt(<<>> \o c, Len(<<>>) + 1) \in KindsOf(k)
    BY <2>1, <2>2, Zenon DEF IsCharacter
  <2>4. KindAt(c, 1) \in KindsOf(k)
    <3>1. Len(<<>>) + 1 = 1
      BY <2>2
    <3> QED
      BY <2>2, <2>3, <3>1
  <2> QED
    BY <1>1, <2>4 DEF KindsOf
<1> QED
  BY <1>2, <1>3, <1>4

LEMMA NoCharacters == \A flag : IsText(<<>>, 0, flag)
<1> TAKE flag
<1> DEFINE at == [k \in 0..0 |-> 1]
<1>1. at \in [0..0 -> Nat] /\ at[0] = 1 /\ Len(<<>>) = 0
  OBVIOUS
<1>2. \A k \in 1..0 : FALSE
  OBVIOUS
<1> HIDE DEF at
<1> QED
  BY <1>1, <1>2 DEF IsText, Marks

\* The kind by three bytes, when there are three.
KindOf(a, b, c) ==
  IF a \in 48..57 THEN 1 ELSE IF a \in 65..90 THEN 2 ELSE IF a \in 97..122 THEN 3
  ELSE IF a \in 224..239 /\ (a - 224) * 4096 + (b - 128) * 64 + c - 128 \in 19968..20901
         THEN 4 ELSE 0

LEMMA KindOfThree ==
  \A t, p : p + 2 <= Len(t) => KindAt(t, p) = KindOf(t[p], t[p + 1], t[p + 2])
BY SMT DEF KindAt, KindOf

IsLetter(a) == a \in 48..57 \/ a \in 65..90 \/ a \in 97..122

LEMMA KindOfOne ==
  \A a \in Nat : IsLetter(a) =>
    \A t, p : t[p] = a => KindAt(t, p) = KindOf(a, 0, 0)
BY SMTT(30) DEF KindAt, KindOf, IsLetter

\* What is behind a character does not change its kind.
LEMMA KindIsKept ==
  ASSUME NEW t \in Seq(Nat), NEW s \in Seq(Nat), NEW p \in 1..Len(t), KindAt(t, p) # 0
  PROVE  KindAt(t \o s, p) = KindAt(t, p)
<1>1. PICK u : u = t \o s
  OBVIOUS
<1>2. /\ Len(t) \in Nat /\ Len(s) \in Nat /\ Len(u) = Len(t) + Len(s)
      /\ \A k \in 1..Len(t) : u[k] = t[k]
  BY <1>1, Joined
<1>3. u[p] = t[p] /\ p \in Nat
  BY <1>2
<1>4. CASE p + 2 <= Len(t)
  <2>1. p + 1 \in 1..Len(t) /\ p + 2 \in 1..Len(t) /\ p + 2 <= Len(u)
    BY <1>2, <1>4
  <2>2. u[p + 1] = t[p + 1] /\ u[p + 2] = t[p + 2]
    BY <1>2, <2>1
  <2>3. KindAt(u, p) = KindOf(u[p], u[p + 1], u[p + 2])
    BY <2>1, KindOfThree
  <2>4. KindAt(t, p) = KindOf(t[p], t[p + 1], t[p + 2])
    BY <1>4, KindOfThree
  <2> QED
    BY <1>1, <1>3, <2>2, <2>3, <2>4
<1>5. CASE ~(p + 2 <= Len(t))
  <2>1. PICK x \in Nat : x = t[p] /\ x = u[p]
    BY <1>3
  <2>2. IsLetter(x)
    BY <1>5, <2>1, SMT DEF KindAt, IsLetter
  <2>3. KindAt(u, p) = KindOf(x, 0, 0) /\ KindAt(t, p) = KindOf(x, 0, 0)
    BY <2>1, <2>2, KindOfOne
  <2> QED
    BY <1>1, <2>3
<1> QED
  BY <1>4, <1>5

LEMMA AskedAreKinds == \A flag : \A k \in Asked(flag) : k \in 1..4
BY DEF Asked

\* A character more.
LEMMA TextGrows ==
  ASSUME NEW t, NEW n \in Nat, NEW flag, IsText(t, n, flag),
         NEW kind, NEW c, IsCharacter(c, kind), KindsOf(kind) \subseteq Asked(flag)
  PROVE  IsText(t \o c, n + 1, flag)
<1>1. PICK at \in [0..n -> Nat] :
        Marks(t, at, n) /\ \A k \in 1..n : KindAt(t, at[k - 1]) \in Asked(flag)
  BY DEF IsText
<1>2. t \in Seq(Nat) /\ c \in Seq(Nat) /\ Len(c) > 0 /\ LeadLength(c[1]) = Len(c)
  BY DEF IsText, IsCharacter
<1>3. PICK u : u = t \o c
  OBVIOUS
<1>4. /\ u \in Seq(Nat) /\ Len(t) \in Nat /\ Len(c) \in Nat /\ Len(u) = Len(t) + Len(c)
      /\ \A k \in 1..Len(t) : u[k] = t[k]
      /\ u[Len(t) + 1] = c[1]
  BY <1>2, <1>3, Joined
<1> DEFINE more == [k \in 0..(n + 1) |-> IF k <= n THEN at[k] ELSE Len(u) + 1]
<1>5. /\ more \in [0..(n + 1) -> Nat]
      /\ \A k \in 0..n : more[k] = at[k]
      /\ more[n + 1] = Len(u) + 1
  BY <1>4, SMTT(30)
<1> HIDE DEF more
<1>6. at[0] = 1 /\ at[n] = Len(t) + 1
  BY <1>1 DEF Marks
<1>7. ASSUME NEW k \in 1..(n + 1)
      PROVE  /\ more[k - 1] \in 1..Len(u)
             /\ more[k] = more[k - 1] + LeadLength(u[more[k - 1]])
             /\ KindAt(u, more[k - 1]) \in Asked(flag)
  <2>1. CASE k = n + 1
    <3>1. more[k - 1] = Len(t) + 1 /\ more[k] = Len(u) + 1
      BY <1>5, <1>6, <2>1
    <3>2. KindAt(u, Len(t) + 1) \in Asked(flag)
      BY <1>2, <1>3 DEF IsCharacter
    <3>3. Len(t) + 1 \in 1..Len(u) /\ Len(u) + 1 = Len(t) + 1 + LeadLength(u[Len(t) + 1])
      BY <1>2, <1>4, SMTT(30)
    <3> QED
      BY <3>1, <3>2, <3>3
  <2>2. CASE k # n + 1
    <3>1. k \in 1..n /\ k \in 0..n /\ k - 1 \in 0..n
      BY <2>2
    <3>2. more[k] = at[k] /\ more[k - 1] = at[k - 1]
      BY <1>5, <3>1
    <3>3. /\ at[k - 1] \in 1..Len(t) /\ at[k] = at[k - 1] + LeadLength(t[at[k - 1]])
          /\ KindAt(t, at[k - 1]) \in Asked(flag)
      BY <1>1, <3>1 DEF Marks
    <3>4. KindAt(t, at[k - 1]) # 0
      BY <3>3, AskedAreKinds
    <3>5. KindAt(u, at[k - 1]) = KindAt(t, at[k - 1])
      BY <1>2, <1>3, <3>3, <3>4, KindIsKept
    <3>6. PICK x \in 1..Len(t) : x = at[k - 1]
      BY <3>3
    <3>7. u[x] = t[x] /\ x \in 1..Len(u)
      BY <1>4, SMTT(30)
    <3> QED
      BY <3>2, <3>3, <3>5, <3>6, <3>7
  <2> QED
    BY <2>1, <2>2
<1>8. more[0] = 1
  BY <1>5, <1>6
<1>9. Marks(u, more, n + 1)
  BY <1>5, <1>7, <1>8 DEF Marks
<1> QED
  BY <1>3, <1>4, <1>5, <1>7, <1>9 DEF IsText

-----------------------------------------------------------------------------
\* What the properties read in such a text.

LEMMA LeadsAreShort == \A b : LeadLength(b) \in 1..4
BY DEF LeadLength

\* The characters begin one behind the other.
LEMMA MarksGrow ==
  ASSUME NEW t \in Seq(Nat), NEW n \in Nat, NEW at \in [0..n -> Nat], Marks(t, at, n)
  PROVE  \A k \in 0..n : /\ k + 1 <= at[k] /\ at[k] <= 4 * k + 1
                         /\ at[k] <= Len(t) + 1
                         /\ \A j \in 0..n : j < k => at[j] < at[k]
<1> DEFINE Good(k) == /\ k + 1 <= at[k] /\ at[k] <= 4 * k + 1
                      /\ at[k] <= Len(t) + 1
                      /\ \A j \in 0..n : j < k => at[j] < at[k]
           T == {k \in 0..n : ~Good(k)}
<1> SUFFICES ASSUME T # {} PROVE FALSE
  OBVIOUS
<1>1. T \subseteq Nat
  OBVIOUS
<1>2. PICK k \in T : \A j \in T : k <= j
  <2> HIDE DEF T
  <2> QED
    BY <1>1, LeastNumber
<1>3. k \in 0..n /\ ~Good(k)
  BY <1>2
<1>4. k # 0
  BY <1>3 DEF Marks
<1>5. PICK h \in 0..n : k = h + 1 /\ k - 1 = h
  <2>1. k - 1 \in 0..n /\ k = (k - 1) + 1
    BY <1>3, <1>4
  <2> QED
    BY <2>1
<1>6. Good(h)
  <2>1. ~(k <= h)
    BY <1>5
  <2>2. h \notin T
    <3> HIDE DEF T
    <3> QED
      BY <1>2, <2>1
  <2> HIDE DEF Good
  <2> QED
    BY <2>2
<1>7. at[h] \in 1..Len(t) /\ at[k] = at[h] + LeadLength(t[at[h]])
  <2>1. k \in 1..n
    BY <1>3, <1>4
  <2> QED
    BY <1>5, <2>1 DEF Marks
<1>8. at[h] \in Nat /\ at[k] \in Nat /\ at[h] < at[k] /\ at[k] <= at[h] + 4
  <2>1. PICK d \in 1..4 : d = LeadLength(t[at[h]])
    BY LeadsAreShort
  <2>2. PICK x \in Nat : x = at[h]
    OBVIOUS
  <2>3. at[k] = x + d
    BY <1>7, <2>1, <2>2
  <2> HIDE DEF Good, T
  <2> QED
    BY <2>2, <2>3
<1>9. at[k] <= Len(t) + 1
  <2>1. CASE k = n
    BY <2>1 DEF Marks
  <2>2. CASE k # n
    <3>1. k + 1 \in 1..n /\ (k + 1) - 1 = k
      BY <1>3, <2>2
    <3>2. at[k] \in 1..Len(t)
      BY <3>1 DEF Marks
    <3> QED
      BY <3>2
  <2> QED
    BY <2>1, <2>2
<1>10. ASSUME NEW j \in 0..n, j < k PROVE at[j] < at[k]
  <2>1. j = h \/ j < h
    BY <1>5, <1>10
  <2>2. j < h => at[j] < at[h]
    BY <1>6
  <2>3. at[j] \in Nat
    OBVIOUS
  <2> QED
    BY <1>8, <2>1, <2>2, <2>3
<1>11. k + 1 <= at[k] /\ at[k] <= 4 * k + 1
  <2>1. h + 1 <= at[h] /\ at[h] <= 4 * h + 1
    BY <1>6
  <2> HIDE DEF Good, T
  <2> QED
    BY <1>5, <1>8, <2>1
<1> QED
  BY <1>3, <1>9, <1>10, <1>11

\* Starts finds the beginnings of the characters and the end.
LEMMA StartsAre ==
  ASSUME NEW t \in Seq(Nat), NEW n \in Nat, NEW at \in [0..n -> Nat], Marks(t, at, n)
  PROVE  Starts(t) = {at[k] : k \in 0..n}
<1> DEFINE next == [p \in 1..Len(t) |-> p + LeadLength(t[p])]
           Is(f) == f = [m \in 0..Len(t) |->
                           IF m = 0 THEN 1
                           ELSE IF f[m - 1] \in DOMAIN next THEN next[f[m - 1]] ELSE f[m - 1]]
           g == [m \in 0..Len(t) |-> at[IF m <= n THEN m ELSE n]]
<1>1. Starts(t) = {(CHOOSE f : Is(f))[m] : m \in 0..Len(t)}
  BY DEF Starts
<1>2. Len(t) \in Nat /\ n <= Len(t)
  <2>a. n \in 0..n
    OBVIOUS
  <2>1. n + 1 <= at[n] /\ at[n] <= Len(t) + 1
    BY <2>a, MarksGrow
  <2> HIDE DEF g, next
  <2> QED
    BY <2>1
<1>3. ASSUME NEW m \in 0..Len(t), m # 0
      PROVE  g[m] = IF g[m - 1] \in DOMAIN next THEN next[g[m - 1]] ELSE g[m - 1]
  <2>1. m - 1 \in 0..Len(t)
    BY <1>3
  <2>2. CASE m <= n
    <3>1. g[m] = at[m] /\ g[m - 1] = at[m - 1] /\ m \in 1..n
      BY <1>3, <2>1, <2>2
    <3>2. at[m - 1] \in 1..Len(t) /\ at[m] = at[m - 1] + LeadLength(t[at[m - 1]])
      BY <3>1 DEF Marks
    <3>3. next[at[m - 1]] = at[m]
      BY <3>2
    <3> QED
      BY <3>1, <3>2, <3>3
  <2>3. CASE ~(m <= n)
    <3>1. g[m] = at[n] /\ g[m - 1] = at[n]
      BY <1>2, <1>3, <2>1, <2>3
    <3>2. at[n] \notin 1..Len(t)
      BY DEF Marks
    <3> QED
      BY <3>1, <3>2
  <2> QED
    BY <2>2, <2>3
<1>4. g[0] = 1
  BY DEF Marks
<1>5. Is(g)
  <2>1. g = [m \in 0..Len(t) |-> g[m]]
    OBVIOUS
  <2> HIDE DEF g, next
  <2> QED
    BY <1>3, <1>4, <2>1
<1>6. ASSUME NEW f, Is(f), NEW m \in 0..Len(t), f[m] # g[m]
      PROVE  FALSE
  <2> DEFINE T == {k \in 0..Len(t) : f[k] # g[k]}
  <2>a. f[m] # g[m]
    BY <1>6
  <2>1. T \subseteq Nat /\ m \in T
    <3> HIDE DEF g
    <3> QED
      BY <2>a
  <2>2. PICK k \in T : \A j \in T : k <= j
    <3> HIDE DEF T
    <3> QED
      BY <2>1, LeastNumber
  <2>3. k \in 0..Len(t) /\ f[k] # g[k]
    BY <2>2
  <2> HIDE DEF g, next
  <2>4. \A j \in 0..Len(t) : f[j] = IF j = 0 THEN 1
                           ELSE IF f[j - 1] \in DOMAIN next THEN next[f[j - 1]] ELSE f[j - 1]
    BY <1>6
  <2>5. k # 0
    BY <1>4, <2>3, <2>4
  <2>6. k - 1 \in 0..Len(t) /\ ~(k <= k - 1)
    BY <2>3, <2>5
  <2>7. f[k - 1] = g[k - 1]
    <3>1. k - 1 \notin T
      <4> HIDE DEF T
      <4> QED
        BY <2>2, <2>6
    <3> QED
      BY <2>6, <3>1
  <2> QED
    BY <1>3, <2>3, <2>4, <2>5, <2>7
<1>7. Is(CHOOSE f : Is(f))
  <2> HIDE DEF Is
  <2> QED
    BY <1>5
<1>8. \A m \in 0..Len(t) : (CHOOSE f : Is(f))[m] = g[m]
  <2> HIDE DEF Is, g
  <2> QED
    BY <1>6, <1>7
<1>9. Starts(t) = {g[m] : m \in 0..Len(t)}
  <2> HIDE DEF Is, g
  <2> QED
    BY <1>1, <1>8
<1>10. \A m \in 0..Len(t) : \E k \in 0..n : g[m] = at[k]
  OBVIOUS
<1>11. \A k \in 0..n : k \in 0..Len(t) /\ g[k] = at[k]
  BY <1>2
<1> HIDE DEF g
<1> QED
  BY <1>9, <1>10, <1>11, ZenonT(30)

LEMMA HowManyStarts ==
  ASSUME NEW t \in Seq(Nat), NEW n \in Nat, NEW at \in [0..n -> Nat], Marks(t, at, n)
  PROVE  Cardinality({at[k] : k \in 0..n}) = n + 1
<1> DEFINE S == {at[k] : k \in 0..n}
<1>1. at \in [0..n -> S]
  OBVIOUS
<1>2. at \in Surjection(0..n, S)
  BY <1>1 DEF Surjection
<1>3. at \in Injection(0..n, S)
  <2>1. ASSUME NEW j \in 0..n, NEW k \in 0..n, at[j] = at[k] PROVE j = k
    <3>1. ~(at[j] < at[k]) /\ ~(at[k] < at[j])
      BY <2>1
    <3>2. ~(j < k) /\ ~(k < j)
      BY <3>1, MarksGrow
    <3> QED
      BY <3>2
  <2> QED
    BY <1>1, <2>1 DEF Injection, IsInjective
<1>4. ExistsBijection(0..n, S)
  BY <1>2, <1>3 DEF ExistsBijection, Bijection
<1>5. IsFiniteSet(0..n) /\ Cardinality(0..n) = n + 1
  <2>1. IsFiniteSet(0..n) /\ Cardinality(0..n) = IF 0 > n THEN 0 ELSE n - 0 + 1
    BY FS_Interval
  <2> QED
    BY <2>1
<1> HIDE DEF S
<1>6. Cardinality(0..n) = Cardinality(S)
  BY <1>4, <1>5, FS_Bijection
<1> QED
  BY <1>5, <1>6 DEF S

\* What the properties say of a text of n characters.
LEMMA TextIsRead ==
  ASSUME NEW t, NEW n \in Nat, NEW flag, IsText(t, n, flag)
  PROVE  /\ Cardinality(Starts(t)) = n + 1
         /\ Len(t) + 1 \in Starts(t)
         /\ Len(t) <= n * UTF8_MAX_SIZE
         /\ \A p \in Starts(t) \ {Len(t) + 1} : KindAt(t, p) \in Asked(flag)
<1>1. t \in Seq(Nat)
  BY DEF IsText
<1>2. PICK at \in [0..n -> Nat] :
        Marks(t, at, n) /\ \A k \in 1..n : KindAt(t, at[k - 1]) \in Asked(flag)
  BY DEF IsText
<1>3. Starts(t) = {at[k] : k \in 0..n}
  BY <1>1, <1>2, StartsAre
<1>4. Cardinality(Starts(t)) = n + 1
  BY <1>1, <1>2, <1>3, HowManyStarts
<1>5. at[n] = Len(t) + 1
  BY <1>2 DEF Marks
<1>6. Len(t) <= n * UTF8_MAX_SIZE
  <2>a. n \in 0..n
    OBVIOUS
  <2>1. at[n] <= 4 * n + 1
    BY <1>1, <1>2, <2>a, MarksGrow
  <2> QED
    BY <1>1, <1>5, <2>1 DEF UTF8_MAX_SIZE
<1>7. ASSUME NEW p \in Starts(t) \ {Len(t) + 1} PROVE KindAt(t, p) \in Asked(flag)
  <2>1. PICK k \in 0..n : p = at[k] /\ k # n
    BY <1>3, <1>5
  <2>2. k + 1 \in 1..n /\ (k + 1) - 1 = k
    BY <2>1
  <2> QED
    BY <1>2, <2>1, <2>2
<1> QED
  BY <1>3, <1>4, <1>5, <1>6, <1>7

-----------------------------------------------------------------------------
\* generate_crc32: a look-up in the table is eight steps of the division.

Words == Byte \X Byte \X Byte \X Byte

LEMMA HalfBitsAre ==
  ASSUME NEW a \in Byte, NEW b \in Byte
  PROVE  /\ Half(a, b) \in Byte
         /\ Bit(Half(a, b), 1) <=> Bit(a, 2)
         /\ Bit(Half(a, b), 2) <=> Bit(a, 4)
         /\ Bit(Half(a, b), 4) <=> Bit(a, 8)
         /\ Bit(Half(a, b), 8) <=> Bit(a, 16)
         /\ Bit(Half(a, b), 16) <=> Bit(a, 32)
         /\ Bit(Half(a, b), 32) <=> Bit(a, 64)
         /\ Bit(Half(a, b), 64) <=> Bit(a, 128)
         /\ Bit(Half(a, b), 128) <=> Bit(b, 1)
<1>1. PICK e \in 0..127, f \in 0..1 : e = a \div 2 /\ f = b % 2
  BY DEF Byte
<1>2. PICK h \in Byte : h = e + 128 * f /\ h = Half(a, b)
  BY <1>1 DEF Half, Byte
<1>a. Bit(e, 1) <=> Bit(a, 2)
  BY <1>1 DEF Byte, Bit
<1>b. Bit(e, 2) <=> Bit(a, 4)
  BY <1>1 DEF Byte, Bit
<1>3. Bit(e, 4) <=> Bit(a, 8)
  BY <1>1 DEF Byte, Bit
<1>4. Bit(e, 8) <=> Bit(a, 16)
  BY <1>1 DEF Byte, Bit
<1>5. Bit(e, 16) <=> Bit(a, 32)
  BY <1>1 DEF Byte, Bit
<1>6. Bit(e, 32) <=> Bit(a, 64)
  BY <1>1 DEF Byte, Bit
<1>7. Bit(e, 64) <=> Bit(a, 128)
  BY <1>1 DEF Byte, Bit
<1>8. Bit(h, 1) <=> Bit(e, 1)
  BY <1>2 DEF Byte, Bit
<1>9. Bit(h, 2) <=> Bit(e, 2)
  BY <1>2 DEF Byte, Bit
<1>10. Bit(h, 4) <=> Bit(e, 4)
  BY <1>2 DEF Byte, Bit
<1>11. Bit(h, 8) <=> Bit(e, 8)
  BY <1>2 DEF Byte, Bit
<1>12. Bit(h, 16) <=> Bit(e, 16)
  BY <1>2 DEF Byte, Bit
<1>13. Bit(h, 32) <=> Bit(e, 32)
  BY <1>2 DEF Byte, Bit
<1>14. Bit(h, 64) <=> Bit(e, 64)
  BY <1>2 DEF Byte, Bit
<1>15. Bit(h, 128) <=> Bit(b, 1)
  BY <1>1, <1>2 DEF Byte, Bit
<1> QED
  BY <1>2, <1>a, <1>b, <1>3, <1>4, <1>5, <1>6, <1>7,
     <1>8, <1>9, <1>10, <1>11, <1>12, <1>13, <1>14, <1>15

\* The same with the polynomial's byte p, when the last byte's bit is 1.
Shifted(a, b, last, p) == Xor(Half(a, b), IF Bit(last, 1) THEN p ELSE 0)

LEMMA ShiftedIsByte ==
  ASSUME NEW a \in Byte, NEW b \in Byte, NEW l \in Byte, NEW p \in Byte
  PROVE  Shifted(a, b, l, p) \in Byte
<1>1. PICK h \in Byte, q \in Byte : h = Half(a, b) /\ q = IF Bit(l, 1) THEN p ELSE 0
  <2>1. 0 \in Byte
    BY DEF Byte
  <2> QED
    BY <2>1, HalfBitsAre
<1>2. Xor(h, q) \in Byte
  BY XorBits
<1> QED
  BY <1>1, <1>2 DEF Shifted

\* The sum moved down is the sum of what was moved down.
SumMoved(a, b, l, a2, b2, l2, p) ==
  Shifted(Xor(a, a2), Xor(b, b2), Xor(l, l2), p)
    = Xor(Shifted(a, b, l, p), Shifted(a2, b2, l2, p))

LEMMA ShiftedOfXor ==
  ASSUME NEW a \in Byte, NEW b \in Byte, NEW l \in Byte,
         NEW a2 \in Byte, NEW b2 \in Byte, NEW l2 \in Byte, NEW p \in Byte
  PROVE  SumMoved(a, b, l, a2, b2, l2, p)
<1>0. 0 \in Byte /\ \A w \in Weights : ~Bit(0, w)
  BY DEF Byte, Bit, Weights
<1>1. PICK s \in Byte, t \in Byte, u \in Byte : s = Xor(a, a2) /\ t = Xor(b, b2) /\ u = Xor(l, l2)
  BY XorBits
<1>2. \A x, y, z \in Byte :
        /\ Shifted(x, y, z, p) \in Byte
        /\ \A w \in Weights :
             Bit(Shifted(x, y, z, p), w) <=> ~(Bit(Half(x, y), w) <=> (Bit(z, 1) /\ Bit(p, w)))
  <2> SUFFICES ASSUME NEW x \in Byte, NEW y \in Byte, NEW z \in Byte
               PROVE  /\ Shifted(x, y, z, p) \in Byte
                      /\ \A w \in Weights :
                           Bit(Shifted(x, y, z, p), w)
                             <=> ~(Bit(Half(x, y), w) <=> (Bit(z, 1) /\ Bit(p, w)))
    OBVIOUS
  <2>1. Half(x, y) \in Byte
    BY HalfBitsAre
  <2>2. CASE Bit(z, 1)
    BY <2>1, <2>2, XorBits DEF Shifted
  <2>3. CASE ~Bit(z, 1)
    BY <1>0, <2>1, <2>3, XorBits DEF Shifted
  <2> QED
    BY <2>2, <2>3
<1>3. ASSUME NEW w \in Weights
      PROVE  Bit(Half(s, t), w) <=> ~(Bit(Half(a, b), w) <=> Bit(Half(a2, b2), w))
  <2>1. \A v \in Weights : /\ Bit(s, v) <=> ~(Bit(a, v) <=> Bit(a2, v))
                           /\ Bit(t, v) <=> ~(Bit(b, v) <=> Bit(b2, v))
    BY <1>1, XorBits
  <2> QED
    BY <2>1, HalfBitsAre DEF Weights
<1>4. Bit(u, 1) <=> ~(Bit(l, 1) <=> Bit(l2, 1))
  BY <1>1, XorBits DEF Weights
<1>5. PICK m \in Byte, n \in Byte, k \in Byte, r \in Byte :
        /\ m = Shifted(a, b, l, p) /\ n = Shifted(a2, b2, l2, p)
        /\ k = Shifted(s, t, u, p) /\ r = Xor(m, n)
  BY <1>2, XorBits
<1>6. ASSUME NEW w \in Weights PROVE Bit(k, w) <=> Bit(r, w)
  <2>1. Bit(r, w) <=> ~(Bit(m, w) <=> Bit(n, w))
    BY <1>5, XorBits
  <2>2. /\ Bit(m, w) <=> ~(Bit(Half(a, b), w) <=> (Bit(l, 1) /\ Bit(p, w)))
        /\ Bit(n, w) <=> ~(Bit(Half(a2, b2), w) <=> (Bit(l2, 1) /\ Bit(p, w)))
        /\ Bit(k, w) <=> ~(Bit(Half(s, t), w) <=> (Bit(u, 1) /\ Bit(p, w)))
    BY <1>2, <1>5
  <2> QED
    BY <1>3, <1>4, <2>1, <2>2
<1> QED
  BY <1>1, <1>2, <1>5, <1>6, SameBits DEF SumMoved

\* ShiftBit byte by byte.
LEMMA ShiftBitIs ==
  ASSUME NEW a \in Byte, NEW b \in Byte, NEW c \in Byte, NEW d \in Byte
  PROVE  ShiftBit(<<a, b, c, d>>)
           = <<Shifted(a, 0, d, 237), Shifted(b, a, d, 184),
               Shifted(c, b, d, 131), Shifted(d, c, d, 32)>>
<1>1. \A h \in Byte : Xor(h, 0) = h
  BY XorLaws
<1>2. PICK h1 \in Byte, h2 \in Byte, h3 \in Byte, h4 \in Byte :
        h1 = Half(a, 0) /\ h2 = Half(b, a) /\ h3 = Half(c, b) /\ h4 = Half(d, c)
  <2>1. 0 \in Byte
    BY DEF Byte
  <2> QED
    BY <2>1, HalfBitsAre
<1>3. ShiftBit(<<a, b, c, d>>)
        = IF d % 2 = 1 THEN XorWord(<<h1, h2, h3, h4>>, Polynomial) ELSE <<h1, h2, h3, h4>>
  BY <1>2 DEF ShiftBit
<1>4. (d % 2 = 1) <=> Bit(d, 1)
  BY DEF Bit, Byte
<1>5. CASE Bit(d, 1)
  BY <1>2, <1>3, <1>4, <1>5 DEF XorWord, Shifted, Polynomial
<1>6. CASE ~Bit(d, 1)
  BY <1>1, <1>2, <1>3, <1>4, <1>6 DEF Shifted
<1> QED
  BY <1>5, <1>6

LEMMA ShiftBitOfXor ==
  ASSUME NEW c \in Words, NEW d \in Words
  PROVE  /\ ShiftBit(c) \in Words /\ XorWord(c, d) \in Words
         /\ ShiftBit(XorWord(c, d)) = XorWord(ShiftBit(c), ShiftBit(d))
<1>1. PICK c1 \in Byte, c2 \in Byte, c3 \in Byte, c4 \in Byte : c = <<c1, c2, c3, c4>>
  BY DEF Words
<1>2. PICK d1 \in Byte, d2 \in Byte, d3 \in Byte, d4 \in Byte : d = <<d1, d2, d3, d4>>
  BY DEF Words
<1>3. PICK x1 \in Byte, x2 \in Byte, x3 \in Byte, x4 \in Byte :
        x1 = Xor(c1, d1) /\ x2 = Xor(c2, d2) /\ x3 = Xor(c3, d3) /\ x4 = Xor(c4, d4)
  BY XorBits
<1>4. XorWord(c, d) = <<x1, x2, x3, x4>>
  BY <1>1, <1>2, <1>3 DEF XorWord
<1>5. PICK o \in Byte, p1 \in Byte, p2 \in Byte, p3 \in Byte, p4 \in Byte :
        o = 0 /\ p1 = 237 /\ p2 = 184 /\ p3 = 131 /\ p4 = 32
  BY DEF Byte
<1>6. Xor(o, o) = o
  BY <1>5, XorLaws
<1>7. /\ ShiftBit(c) = <<Shifted(c1, o, c4, p1), Shifted(c2, c1, c4, p2),
                        Shifted(c3, c2, c4, p3), Shifted(c4, c3, c4, p4)>>
      /\ ShiftBit(d) = <<Shifted(d1, o, d4, p1), Shifted(d2, d1, d4, p2),
                        Shifted(d3, d2, d4, p3), Shifted(d4, d3, d4, p4)>>
      /\ ShiftBit(XorWord(c, d)) = <<Shifted(x1, o, x4, p1), Shifted(x2, x1, x4, p2),
                                    Shifted(x3, x2, x4, p3), Shifted(x4, x3, x4, p4)>>
  BY <1>1, <1>2, <1>4, <1>5, ShiftBitIs, SMTT(30)
<1>8. /\ Shifted(c1, o, c4, p1) \in Byte /\ Shifted(c2, c1, c4, p2) \in Byte
      /\ Shifted(c3, c2, c4, p3) \in Byte /\ Shifted(c4, c3, c4, p4) \in Byte
  BY ShiftedIsByte
<1>9. /\ SumMoved(c1, o, c4, d1, o, d4, p1)
      /\ SumMoved(c2, c1, c4, d2, d1, d4, p2)
      /\ SumMoved(c3, c2, c4, d3, d2, d4, p3)
      /\ SumMoved(c4, c3, c4, d4, d3, d4, p4)
  BY ShiftedOfXor
<1>10. ShiftBit(XorWord(c, d)) = XorWord(ShiftBit(c), ShiftBit(d))
  BY <1>3, <1>6, <1>7, <1>9 DEF XorWord, SumMoved
<1> QED
  BY <1>4, <1>7, <1>8, <1>10 DEF Words

LEMMA ShiftByteOfXor ==
  ASSUME NEW c \in Words, NEW d \in Words
  PROVE  /\ ShiftByte(c) \in Words
         /\ ShiftByte(XorWord(c, d)) = XorWord(ShiftByte(c), ShiftByte(d))
<1>1. \A a, b \in Words :
        /\ ShiftTwice(a) \in Words /\ XorWord(a, b) \in Words
        /\ ShiftTwice(XorWord(a, b)) = XorWord(ShiftTwice(a), ShiftTwice(b))
  BY ShiftBitOfXor DEF ShiftTwice
<1> QED
  BY <1>1 DEF ShiftByte

\* Down(x, y) says that x is the row of what byte x[1] becomes in eight moves
\* below the bytes y.
Down(x, y) == \A k \in 1..8 : x[k + 1] = Half(x[k], y[k])

\* After eight moves a byte is what was above it; what leaves it are its bits.
LEMMA EightMoves ==
  ASSUME NEW x \in [1..9 -> Byte], NEW y \in [1..9 -> Byte], NEW z \in [1..9 -> Byte],
         Down(x, y), Down(y, z)
  PROVE  /\ x[9] = y[1]
         /\ Bit(x[1], 1) <=> Bit(x[1], 1)
         /\ Bit(x[2], 1) <=> Bit(x[1], 2)
         /\ Bit(x[3], 1) <=> Bit(x[1], 4)
         /\ Bit(x[4], 1) <=> Bit(x[1], 8)
         /\ Bit(x[5], 1) <=> Bit(x[1], 16)
         /\ Bit(x[6], 1) <=> Bit(x[1], 32)
         /\ Bit(x[7], 1) <=> Bit(x[1], 64)
         /\ Bit(x[8], 1) <=> Bit(x[1], 128)
<1> DEFINE Moved(u, v, a) ==
             /\ \A w \in {1, 2, 4, 8, 16, 32, 64} : Bit(v, w) <=> Bit(u, 2 * w)
             /\ Bit(v, 128) <=> Bit(a, 1)
<1>1. ASSUME NEW k \in 1..8
      PROVE  Moved(x[k], x[k + 1], y[k]) /\ Moved(y[k], y[k + 1], z[k])
  <2>1. PICK u \in Byte, v \in Byte, a \in Byte, p \in Byte, q \in Byte, b \in Byte :
          /\ u = x[k] /\ v = x[k + 1] /\ a = y[k] /\ v = Half(u, a)
          /\ p = y[k] /\ q = y[k + 1] /\ b = z[k] /\ q = Half(p, b)
    <3>1. k \in 1..9 /\ k + 1 \in 1..9
      OBVIOUS
    <3> QED
      BY <3>1 DEF Down
  <2>2. Moved(u, v, a) /\ Moved(p, q, b)
    BY <2>1, HalfBitsAre
  <2> QED
    BY <2>1, <2>2
<1>2. Moved(x[1], x[2], y[1]) /\ Moved(y[1], y[2], z[1])
  BY <1>1
<1>3. Moved(x[2], x[3], y[2]) /\ Moved(y[2], y[3], z[2])
  BY <1>1
<1>4. Moved(x[3], x[4], y[3]) /\ Moved(y[3], y[4], z[3])
  BY <1>1
<1>5. Moved(x[4], x[5], y[4]) /\ Moved(y[4], y[5], z[4])
  BY <1>1
<1>6. Moved(x[5], x[6], y[5]) /\ Moved(y[5], y[6], z[5])
  BY <1>1
<1>7. Moved(x[6], x[7], y[6]) /\ Moved(y[6], y[7], z[6])
  BY <1>1
<1>8. Moved(x[7], x[8], y[7]) /\ Moved(y[7], y[8], z[7])
  BY <1>1
<1>9. Moved(x[8], x[9], y[8]) /\ Moved(y[8], y[9], z[8])
  BY <1>1
<1>10. ASSUME NEW w \in Weights PROVE Bit(x[9], w) <=> Bit(y[1], w)
  BY <1>2, <1>3, <1>4, <1>5, <1>6, <1>7, <1>8, <1>9 DEF Weights
<1>11. x[9] = y[1]
  BY <1>10, SameBits
<1> QED
  BY <1>2, <1>3, <1>4, <1>5, <1>6, <1>7, <1>8, <1>9, <1>11

\* A register whose last byte is 0 only moves down.
LEMMA ShiftByteMovesDown ==
  ASSUME NEW a \in Byte, NEW b \in Byte, NEW c \in Byte
  PROVE  ShiftByte(<<a, b, c, 0>>) = <<0, a, b, c>>
<1> DEFINE Down1(w) == <<Half(w[1], 0), Half(w[2], w[1]), Half(w[3], w[2]), Half(w[4], w[3])>>
<1>1. \A w \in Words : Down1(w) \in Words
  <2>1. 0 \in Byte
    BY DEF Byte
  <2> QED
    BY <2>1, HalfBitsAre DEF Words
<1>2. PICK w0 \in Words : w0 = <<a, b, c, 0>>
  <2>1. 0 \in Byte
    BY DEF Byte
  <2> QED
    BY <2>1 DEF Words
<1>3. PICK w1 \in Words : w1 = Down1(w0)
  BY <1>1
<1>4. PICK w2 \in Words : w2 = Down1(w1)
  BY <1>1
<1>5. PICK w3 \in Words : w3 = Down1(w2)
  BY <1>1
<1>6. PICK w4 \in Words : w4 = Down1(w3)
  BY <1>1
<1>7. PICK w5 \in Words : w5 = Down1(w4)
  BY <1>1
<1>8. PICK w6 \in Words : w6 = Down1(w5)
  BY <1>1
<1>9. PICK w7 \in Words : w7 = Down1(w6)
  BY <1>1
<1>10. PICK w8 \in Words : w8 = Down1(w7)
  BY <1>1
<1> DEFINE word == <<w0, w1, w2, w3, w4, w5, w6, w7, w8>>
           row(n) == [k \in 1..9 |-> word[k][n]]
           zeros == [m \in 1..9 |-> 0]
<1>a. /\ \A k \in 1..9 : word[k] \in Words
      /\ \A k \in 1..8 : word[k + 1] = Down1(word[k])
  <2> HIDE DEF Down1
  <2>1. \A k \in 1..9 : word[k] \in Words
    OBVIOUS
  <2>2. ASSUME NEW k \in 1..8 PROVE word[k + 1] = Down1(word[k])
    <3>1. CASE k = 1
      BY <3>1, <1>3
    <3>2. CASE k = 2
      BY <3>2, <1>4
    <3>3. CASE k = 3
      BY <3>3, <1>5
    <3>4. CASE k = 4
      BY <3>4, <1>6
    <3>5. CASE k = 5
      BY <3>5, <1>7
    <3>6. CASE k = 6
      BY <3>6, <1>8
    <3>7. CASE k = 7
      BY <3>7, <1>9
    <3>8. CASE k = 8
      BY <3>8, <1>10
    <3> QED
      BY <3>1, <3>2, <3>3, <3>4, <3>5, <3>6, <3>7, <3>8
  <2> QED
    BY <2>1, <2>2
<1>11. /\ zeros \in [1..9 -> Byte]
       /\ \A n \in 1..4 : row(n) \in [1..9 -> Byte]
  <2> HIDE DEF word
  <2>1. zeros \in [1..9 -> Byte]
    BY DEF Byte
  <2>2. \A v \in Words, n \in 1..4 : v[n] \in Byte
    BY DEF Words
  <2> QED
    BY <1>a, <2>1, <2>2
<1>12. /\ Down(row(1), zeros) /\ Down(row(2), row(1))
       /\ Down(row(3), row(2)) /\ Down(row(4), row(3))
  <2> HIDE DEF word
  <2>1. ASSUME NEW k \in 1..8
        PROVE  /\ word[k + 1][1] = Half(word[k][1], 0)
               /\ word[k + 1][2] = Half(word[k][2], word[k][1])
               /\ word[k + 1][3] = Half(word[k][3], word[k][2])
               /\ word[k + 1][4] = Half(word[k][4], word[k][3])
    BY <1>a
  <2> QED
    BY <2>1 DEF Down
<1>13. Down(zeros, zeros)
  BY DEF Down, Half
<1>14. row(1)[9] = 0 /\ row(2)[9] = a /\ row(3)[9] = b /\ row(4)[9] = c
  <2>1. zeros[1] = 0 /\ row(1)[1] = a /\ row(2)[1] = b /\ row(3)[1] = c
    BY <1>2
  <2> HIDE DEF row, zeros
  <2>2. /\ row(1) \in [1..9 -> Byte] /\ row(2) \in [1..9 -> Byte]
        /\ row(3) \in [1..9 -> Byte] /\ row(4) \in [1..9 -> Byte]
    BY <1>11
  <2>3. row(1)[9] = zeros[1] /\ row(2)[9] = row(1)[1]
    BY <1>11, <1>12, <1>13, <2>2, EightMoves
  <2>4. row(3)[9] = row(2)[1] /\ row(4)[9] = row(3)[1]
    BY <1>11, <1>12, <2>2, EightMoves
  <2> QED
    BY <2>1, <2>3, <2>4
<1>15. \A k \in 1..8 : ~Bit(row(4)[k], 1)
  <2>1. row(4)[1] = 0 /\ \A w \in Weights : ~Bit(0, w)
    BY <1>2 DEF Bit, Weights
  <2> HIDE DEF row, zeros
  <2>2. row(2) \in [1..9 -> Byte] /\ row(3) \in [1..9 -> Byte] /\ row(4) \in [1..9 -> Byte]
    BY <1>11
  <2>3. Down(row(4), row(3)) /\ Down(row(3), row(2))
    BY <1>12
  <2>4. /\ ~Bit(row(4)[1], 1) /\ ~Bit(row(4)[2], 1) /\ ~Bit(row(4)[3], 1) /\ ~Bit(row(4)[4], 1)
        /\ ~Bit(row(4)[5], 1) /\ ~Bit(row(4)[6], 1) /\ ~Bit(row(4)[7], 1) /\ ~Bit(row(4)[8], 1)
    BY <2>1, <2>2, <2>3, EightMoves DEF Weights
  <2> QED
    BY <2>4
<1>16. ASSUME NEW w \in Words, ~Bit(w[4], 1) PROVE ShiftBit(w) = Down1(w)
  BY <1>16, SMTT(90) DEF ShiftBit, Bit, Words, Byte
<1>17. /\ ShiftBit(w0) = w1 /\ ShiftBit(w1) = w2 /\ ShiftBit(w2) = w3 /\ ShiftBit(w3) = w4
       /\ ShiftBit(w4) = w5 /\ ShiftBit(w5) = w6 /\ ShiftBit(w6) = w7 /\ ShiftBit(w7) = w8
  <2>1. /\ ~Bit(w0[4], 1) /\ ~Bit(w1[4], 1) /\ ~Bit(w2[4], 1) /\ ~Bit(w3[4], 1)
        /\ ~Bit(w4[4], 1) /\ ~Bit(w5[4], 1) /\ ~Bit(w6[4], 1) /\ ~Bit(w7[4], 1)
    BY <1>15
  <2> HIDE DEF Down1
  <2> QED
    BY <1>3, <1>4, <1>5, <1>6, <1>7, <1>8, <1>9, <1>10, <1>16, <2>1
<1>18. ShiftByte(w0) = w8
  BY <1>17 DEF ShiftByte, ShiftTwice
<1>19. w8 = <<0, a, b, c>>
  BY <1>14 DEF Words
<1> QED
  BY <1>2, <1>18, <1>19

-----------------------------------------------------------------------------
\* The table.  The register is linear, and so is the table: an entry is the sum
\* of those of the powers of 2 its number is made of, which a single 1 leaves
\* on its way through the register.

\* Four bits of z, from that of weight w up, are the sums of those of x and y.
BitSum(x, y, z, w) == Bit(z, w) <=> ~(Bit(x, w) <=> Bit(y, w))
SumFrom(x, y, z, w) ==
  BitSum(x, y, z, w) /\ BitSum(x, y, z, 2 * w) /\ BitSum(x, y, z, 4 * w) /\ BitSum(x, y, z, 8 * w)

\* So for an entry and the first ones of its row and of its column, and for
\* first ones whose numbers have no 1 at the same place.
AcrossAdds(rows, v) ==
  \A r, c \in 1..16 : SumFrom(rows[r][1], rows[1][c], rows[r][c], v)
FirstRowAdds(rows, v) ==
  \A w \in {1, 2, 4, 8} : \A n \in 1..w : SumFrom(rows[1][n], rows[1][w + 1], rows[1][n + w], v)
FirstColumnAdds(rows, v) ==
  \A w \in {1, 2, 4, 8} : \A n \in 1..w : SumFrom(rows[n][1], rows[w + 1][1], rows[n + w][1], v)
Adds(rows, v) == AcrossAdds(rows, v) /\ FirstRowAdds(rows, v) /\ FirstColumnAdds(rows, v)

LEMMA HighAdds == Adds(High, 1) /\ Adds(High, 16) /\ Adds(High, 256) /\ Adds(High, 4096)
<1>1. Adds(High, 1)
  <2>1. AcrossAdds(High, 1)
    BY SMTT(60) DEF High, AcrossAdds, SumFrom, BitSum, Bit
  <2>2. FirstRowAdds(High, 1)
    BY SMTT(60) DEF High, FirstRowAdds, SumFrom, BitSum, Bit
  <2>3. FirstColumnAdds(High, 1)
    BY SMTT(60) DEF High, FirstColumnAdds, SumFrom, BitSum, Bit
  <2> QED
    BY <2>1, <2>2, <2>3 DEF Adds
<1>2. Adds(High, 16)
  <2>1. AcrossAdds(High, 16)
    BY SMTT(60) DEF High, AcrossAdds, SumFrom, BitSum, Bit
  <2>2. FirstRowAdds(High, 16)
    BY SMTT(60) DEF High, FirstRowAdds, SumFrom, BitSum, Bit
  <2>3. FirstColumnAdds(High, 16)
    BY SMTT(60) DEF High, FirstColumnAdds, SumFrom, BitSum, Bit
  <2> QED
    BY <2>1, <2>2, <2>3 DEF Adds
<1>3. Adds(High, 256)
  <2>1. AcrossAdds(High, 256)
    BY SMTT(60) DEF High, AcrossAdds, SumFrom, BitSum, Bit
  <2>2. FirstRowAdds(High, 256)
    BY SMTT(60) DEF High, FirstRowAdds, SumFrom, BitSum, Bit
  <2>3. FirstColumnAdds(High, 256)
    BY SMTT(60) DEF High, FirstColumnAdds, SumFrom, BitSum, Bit
  <2> QED
    BY <2>1, <2>2, <2>3 DEF Adds
<1>4. Adds(High, 4096)
  <2>1. AcrossAdds(High, 4096)
    BY SMTT(60) DEF High, AcrossAdds, SumFrom, BitSum, Bit
  <2>2. FirstRowAdds(High, 4096)
    BY SMTT(60) DEF High, FirstRowAdds, SumFrom, BitSum, Bit
  <2>3. FirstColumnAdds(High, 4096)
    BY SMTT(60) DEF High, FirstColumnAdds, SumFrom, BitSum, Bit
  <2> QED
    BY <2>1, <2>2, <2>3 DEF Adds
<1> QED
  BY <1>1, <1>2, <1>3, <1>4

LEMMA LowAdds == Adds(Low, 1) /\ Adds(Low, 16) /\ Adds(Low, 256) /\ Adds(Low, 4096)
<1>1. Adds(Low, 1)
  <2>1. AcrossAdds(Low, 1)
    BY SMTT(60) DEF Low, AcrossAdds, SumFrom, BitSum, Bit
  <2>2. FirstRowAdds(Low, 1)
    BY SMTT(60) DEF Low, FirstRowAdds, SumFrom, BitSum, Bit
  <2>3. FirstColumnAdds(Low, 1)
    BY SMTT(60) DEF Low, FirstColumnAdds, SumFrom, BitSum, Bit
  <2> QED
    BY <2>1, <2>2, <2>3 DEF Adds
<1>2. Adds(Low, 16)
  <2>1. AcrossAdds(Low, 16)
    BY SMTT(60) DEF Low, AcrossAdds, SumFrom, BitSum, Bit
  <2>2. FirstRowAdds(Low, 16)
    BY SMTT(60) DEF Low, FirstRowAdds, SumFrom, BitSum, Bit
  <2>3. FirstColumnAdds(Low, 16)
    BY SMTT(60) DEF Low, FirstColumnAdds, SumFrom, BitSum, Bit
  <2> QED
    BY <2>1, <2>2, <2>3 DEF Adds
<1>3. Adds(Low, 256)
  <2>1. AcrossAdds(Low, 256)
    BY SMTT(60) DEF Low, AcrossAdds, SumFrom, BitSum, Bit
  <2>2. FirstRowAdds(Low, 256)
    BY SMTT(60) DEF Low, FirstRowAdds, SumFrom, BitSum, Bit
  <2>3. FirstColumnAdds(Low, 256)
    BY SMTT(60) DEF Low, FirstColumnAdds, SumFrom, BitSum, Bit
  <2> QED
    BY <2>1, <2>2, <2>3 DEF Adds
<1>4. Adds(Low, 4096)
  <2>1. AcrossAdds(Low, 4096)
    BY SMTT(60) DEF Low, AcrossAdds, SumFrom, BitSum, Bit
  <2>2. FirstRowAdds(Low, 4096)
    BY SMTT(60) DEF Low, FirstRowAdds, SumFrom, BitSum, Bit
  <2>3. FirstColumnAdds(Low, 4096)
    BY SMTT(60) DEF Low, FirstColumnAdds, SumFrom, BitSum, Bit
  <2> QED
    BY <2>1, <2>2, <2>3 DEF Adds
<1> QED
  BY <1>1, <1>2, <1>3, <1>4

IsHalf(x) == x \in Nat /\ x < 65536

LEMMA HalvesTyped == \A r, c \in 1..16 : IsHalf(High[r][c]) /\ IsHalf(Low[r][c])
<1>1. \A r, c \in 1..16 : IsHalf(High[r][c])
  BY SMTT(60) DEF High, IsHalf
<1>2. \A r, c \in 1..16 : IsHalf(Low[r][c])
  BY SMTT(60) DEF Low, IsHalf
<1> QED
  BY <1>1, <1>2

\* The bits of the bytes of a half.
LEMMA BitsOfHalf ==
  ASSUME NEW x, IsHalf(x)
  PROVE  /\ x \div 256 \in Byte /\ x % 256 \in Byte
         /\ (Bit(x \div 256, 1) <=> Bit(x, 256)) /\ (Bit(x \div 256, 2) <=> Bit(x, 512))
         /\ (Bit(x \div 256, 4) <=> Bit(x, 1024)) /\ (Bit(x \div 256, 8) <=> Bit(x, 2048))
         /\ (Bit(x \div 256, 16) <=> Bit(x, 4096)) /\ (Bit(x \div 256, 32) <=> Bit(x, 8192))
         /\ (Bit(x \div 256, 64) <=> Bit(x, 16384)) /\ (Bit(x \div 256, 128) <=> Bit(x, 32768))
         /\ \A w \in Weights : Bit(x % 256, w) <=> Bit(x, w)
<1>1. x \in Nat /\ x \div 256 \in Byte /\ x % 256 \in Byte
  BY DEF IsHalf, Byte
<1>2. (Bit(x \div 256, 1) <=> Bit(x, 256)) /\ (Bit(x \div 256, 2) <=> Bit(x, 512))
  BY <1>1 DEF Bit
<1>3. (Bit(x \div 256, 4) <=> Bit(x, 1024)) /\ (Bit(x \div 256, 8) <=> Bit(x, 2048))
  BY <1>1 DEF Bit
<1>4. (Bit(x \div 256, 16) <=> Bit(x, 4096)) /\ (Bit(x \div 256, 32) <=> Bit(x, 8192))
  BY <1>1 DEF Bit
<1>5. (Bit(x \div 256, 64) <=> Bit(x, 16384)) /\ (Bit(x \div 256, 128) <=> Bit(x, 32768))
  BY <1>1 DEF Bit
<1>6. ASSUME NEW w \in Weights PROVE Bit(x % 256, w) <=> Bit(x, w)
  <2>1. (Bit(x % 256, 1) <=> Bit(x, 1)) /\ (Bit(x % 256, 2) <=> Bit(x, 2))
    BY <1>1 DEF Bit
  <2>2. (Bit(x % 256, 4) <=> Bit(x, 4)) /\ (Bit(x % 256, 8) <=> Bit(x, 8))
    BY <1>1 DEF Bit
  <2>3. (Bit(x % 256, 16) <=> Bit(x, 16)) /\ (Bit(x % 256, 32) <=> Bit(x, 32))
    BY <1>1 DEF Bit
  <2>4. (Bit(x % 256, 64) <=> Bit(x, 64)) /\ (Bit(x % 256, 128) <=> Bit(x, 128))
    BY <1>1 DEF Bit
  <2> QED
    BY <2>1, <2>2, <2>3, <2>4 DEF Weights
<1> QED
  BY <1>1, <1>2, <1>3, <1>4, <1>5, <1>6

LEMMA HalvesOfSum ==
  ASSUME NEW x, NEW y, NEW z, IsHalf(x), IsHalf(y), IsHalf(z),
         SumFrom(x, y, z, 1), SumFrom(x, y, z, 16), SumFrom(x, y, z, 256), SumFrom(x, y, z, 4096)
  PROVE  /\ z \div 256 = Xor(x \div 256, y \div 256)
         /\ z % 256 = Xor(x % 256, y % 256)
<1>1. /\ BitSum(x, y, z, 1) /\ BitSum(x, y, z, 2) /\ BitSum(x, y, z, 4) /\ BitSum(x, y, z, 8)
      /\ BitSum(x, y, z, 16) /\ BitSum(x, y, z, 32) /\ BitSum(x, y, z, 64) /\ BitSum(x, y, z, 128)
      /\ BitSum(x, y, z, 256) /\ BitSum(x, y, z, 512)
      /\ BitSum(x, y, z, 1024) /\ BitSum(x, y, z, 2048)
      /\ BitSum(x, y, z, 4096) /\ BitSum(x, y, z, 8192)
      /\ BitSum(x, y, z, 16384) /\ BitSum(x, y, z, 32768)
  BY DEF SumFrom
<1>2. PICK xh \in Byte, xl \in Byte, yh \in Byte, yl \in Byte, zh \in Byte, zl \in Byte :
        /\ xh = x \div 256 /\ xl = x % 256 /\ yh = y \div 256 /\ yl = y % 256
        /\ zh = z \div 256 /\ zl = z % 256
  BY BitsOfHalf
<1>3. PICK h \in Byte, l \in Byte : h = Xor(xh, yh) /\ l = Xor(xl, yl)
  BY XorBits
<1>4. \A w \in Weights : /\ Bit(h, w) <=> ~(Bit(xh, w) <=> Bit(yh, w))
                         /\ Bit(l, w) <=> ~(Bit(xl, w) <=> Bit(yl, w))
  BY <1>3, XorBits
<1>5. \A w \in Weights : Bit(zh, w) <=> ~(Bit(xh, w) <=> Bit(yh, w))
  BY <1>1, <1>2, BitsOfHalf DEF BitSum, Weights
<1>6. \A w \in Weights : Bit(zl, w) <=> ~(Bit(xl, w) <=> Bit(yl, w))
  BY <1>1, <1>2, BitsOfHalf DEF BitSum, Weights
<1> QED
  BY <1>2, <1>3, <1>4, <1>5, <1>6, SameBits

LEMMA EntryTyped ==
  ASSUME NEW n \in Byte
  PROVE  IsHalf(Entry(High, n)) /\ IsHalf(Entry(Low, n)) /\ CRC32_BASE_TABLES(n) \in Words
<1>1. PICK r \in 1..16 : r = (n \div 16) + 1
  BY DEF Byte
<1>2. PICK c \in 1..16 : c = (n % 16) + 1
  BY DEF Byte
<1>3. Entry(High, n) = High[r][c] /\ Entry(Low, n) = Low[r][c]
  BY <1>1, <1>2 DEF Entry
<1>4. IsHalf(Entry(High, n)) /\ IsHalf(Entry(Low, n))
  BY <1>3, HalvesTyped
<1>5. /\ Entry(High, n) \div 256 \in Byte /\ Entry(High, n) % 256 \in Byte
      /\ Entry(Low, n) \div 256 \in Byte /\ Entry(Low, n) % 256 \in Byte
  BY <1>4, BitsOfHalf
<1> QED
  BY <1>4, <1>5 DEF CRC32_BASE_TABLES, Words

\* Entry k is the sum of entries m and n.
EntrySums(m, n, k, v) ==
  /\ SumFrom(Entry(High, m), Entry(High, n), Entry(High, k), v)
  /\ SumFrom(Entry(Low, m), Entry(Low, n), Entry(Low, k), v)
IsSumOfEntries(m, n, k) ==
  EntrySums(m, n, k, 1) /\ EntrySums(m, n, k, 16) /\ EntrySums(m, n, k, 256) /\ EntrySums(m, n, k, 4096)

LEMMA SumOfEntries ==
  ASSUME NEW m \in Byte, NEW n \in Byte, NEW k \in Byte, IsSumOfEntries(m, n, k)
  PROVE  CRC32_BASE_TABLES(k) = XorWord(CRC32_BASE_TABLES(m), CRC32_BASE_TABLES(n))
<1>1. PICK x, y, z : x = Entry(High, m) /\ y = Entry(High, n) /\ z = Entry(High, k)
  OBVIOUS
<1>2. PICK p, q, s : p = Entry(Low, m) /\ q = Entry(Low, n) /\ s = Entry(Low, k)
  OBVIOUS
<1>3. IsHalf(x) /\ IsHalf(y) /\ IsHalf(z) /\ IsHalf(p) /\ IsHalf(q) /\ IsHalf(s)
  BY <1>1, <1>2, EntryTyped
<1>4. z \div 256 = Xor(x \div 256, y \div 256) /\ z % 256 = Xor(x % 256, y % 256)
  BY <1>1, <1>3, HalvesOfSum DEF IsSumOfEntries, EntrySums
<1>5. s \div 256 = Xor(p \div 256, q \div 256) /\ s % 256 = Xor(p % 256, q % 256)
  BY <1>2, <1>3, HalvesOfSum DEF IsSumOfEntries, EntrySums
<1> QED
  BY <1>1, <1>2, <1>4, <1>5 DEF CRC32_BASE_TABLES, XorWord

\* Entry b is what b alone in the register leaves.
IsLeft(b) == CRC32_BASE_TABLES(b) = ShiftByte(<<0, 0, 0, b>>)

LEMMA LeftOfSum ==
  ASSUME NEW x \in Byte, NEW y \in Byte, IsLeft(x), IsLeft(y),
         CRC32_BASE_TABLES(Xor(x, y)) = XorWord(CRC32_BASE_TABLES(x), CRC32_BASE_TABLES(y))
  PROVE  IsLeft(Xor(x, y))
<1>1. PICK u \in Words, v \in Words : u = <<0, 0, 0, x>> /\ v = <<0, 0, 0, y>>
  <2>1. 0 \in Byte
    BY DEF Byte
  <2> QED
    BY <2>1 DEF Words
<1>2. Xor(0, 0) = 0
  <2>1. 0 \in Byte
    BY DEF Byte
  <2> QED
    BY <2>1, XorLaws
<1>3. XorWord(u, v) = <<0, 0, 0, Xor(x, y)>>
  BY <1>1, <1>2 DEF XorWord
<1>4. ShiftByte(XorWord(u, v)) = XorWord(ShiftByte(u), ShiftByte(v))
  BY ShiftByteOfXor
<1> QED
  BY <1>1, <1>3, <1>4 DEF IsLeft

\* The sum of numbers that have no 1 at the same place.
LEMMA SumOfParts ==
  ASSUME NEW m \in 0..15, NEW n \in 0..15
  PROVE  /\ Xor(16 * m, n) = 16 * m + n
         /\ \A w \in {1, 2, 4, 8} : m = w /\ n < w =>
              Xor(n, m) = n + m /\ Xor(16 * n, 16 * m) = 16 * (n + m)
<1>0. \A p, q \in 0..15 :
        XorHalf[<<p, q>>] = Differ(p, q, 1) + Differ(p, q, 2) + Differ(p, q, 4) + Differ(p, q, 8)
  BY DEF XorHalf, Differ
<1>z. PICK o \in 0..15 : o = 0
  OBVIOUS
<1>1. XorHalf[<<m, o>>] = m
  <2>1. XorHalf[<<m, o>>] = Differ(m, o, 1) + Differ(m, o, 2) + Differ(m, o, 4) + Differ(m, o, 8)
    BY <1>0
  <2> QED
    BY <1>z, <2>1 DEF Differ
<1>2. XorHalf[<<o, n>>] = n
  <2>1. XorHalf[<<o, n>>] = Differ(o, n, 1) + Differ(o, n, 2) + Differ(o, n, 4) + Differ(o, n, 8)
    BY <1>0
  <2> QED
    BY <1>z, <2>1 DEF Differ
<1>3. ASSUME NEW w \in {1, 2, 4, 8}, m = w, n < w PROVE XorHalf[<<n, m>>] = n + m
  <2>1. XorHalf[<<n, m>>] = Differ(n, m, 1) + Differ(n, m, 2) + Differ(n, m, 4) + Differ(n, m, 8)
    BY <1>0
  <2> QED
    BY <1>3, <2>1 DEF Differ
<1>4. XorHalf[<<0, 0>>] = 0
  BY DEF XorHalf
<1>5. /\ n \div 16 = 0 /\ m \div 16 = 0 /\ n % 16 = n /\ m % 16 = m
      /\ (16 * n) \div 16 = n /\ (16 * m) \div 16 = m /\ (16 * n) % 16 = 0 /\ (16 * m) % 16 = 0
  OBVIOUS
<1>6. \A p, q \in Byte :
        Xor(p, q) = 16 * XorHalf[<<p \div 16, q \div 16>>] + XorHalf[<<p % 16, q % 16>>]
  BY DEF Xor
<1>7. m \in Byte /\ n \in Byte /\ 16 * m \in Byte /\ 16 * n \in Byte
  BY DEF Byte
<1>8. Xor(16 * m, n) = 16 * m + n
  <2>1. Xor(16 * m, n) = 16 * XorHalf[<<m, 0>>] + XorHalf[<<0, n>>]
    BY <1>5 DEF Xor
  <2> QED
    BY <1>z, <1>1, <1>2, <2>1
<1>9. ASSUME NEW w \in {1, 2, 4, 8}, m = w, n < w
      PROVE  Xor(n, m) = n + m /\ Xor(16 * n, 16 * m) = 16 * (n + m)
  <2>1. XorHalf[<<n, m>>] = n + m
    BY <1>3, <1>9
  <2> QED
    BY <1>4, <1>5, <1>6, <1>7, <2>1
<1> QED
  BY <1>8, <1>9

\* The register from a single 1 at its highest place in the last byte on, as it
\* moves down bit by bit.
Way ==
  << <<0, 0, 0, 128>>, <<0, 0, 0, 64>>,
     <<0, 0, 0, 32>>, <<0, 0, 0, 16>>,
     <<0, 0, 0, 8>>, <<0, 0, 0, 4>>,
     <<0, 0, 0, 2>>, <<0, 0, 0, 1>>,
     <<237, 184, 131, 32>>, <<118, 220, 65, 144>>,
     <<59, 110, 32, 200>>, <<29, 183, 16, 100>>,
     <<14, 219, 136, 50>>, <<7, 109, 196, 25>>,
     <<238, 14, 97, 44>>, <<119, 7, 48, 150>> >>

\* Each power of 2 starts on this way and has the place eight steps on for entry.
LEMMA EntriesOnWay ==
  /\ CRC32_BASE_TABLES(128) = <<237, 184, 131, 32>>
  /\ CRC32_BASE_TABLES(64) = <<118, 220, 65, 144>>
  /\ CRC32_BASE_TABLES(32) = <<59, 110, 32, 200>>
  /\ CRC32_BASE_TABLES(16) = <<29, 183, 16, 100>>
  /\ CRC32_BASE_TABLES(8) = <<14, 219, 136, 50>>
  /\ CRC32_BASE_TABLES(4) = <<7, 109, 196, 25>>
  /\ CRC32_BASE_TABLES(2) = <<238, 14, 97, 44>>
  /\ CRC32_BASE_TABLES(1) = <<119, 7, 48, 150>>
<1>1. CRC32_BASE_TABLES(128) = <<237, 184, 131, 32>>
  <2>1. High[9][1] = 60856 /\ Low[9][1] = 33568
    BY SMTT(30) DEF High, Low
  <2> QED
    BY <2>1 DEF CRC32_BASE_TABLES, Entry
<1>2. CRC32_BASE_TABLES(64) = <<118, 220, 65, 144>>
  <2>1. High[5][1] = 30428 /\ Low[5][1] = 16784
    BY SMTT(30) DEF High, Low
  <2> QED
    BY <2>1 DEF CRC32_BASE_TABLES, Entry
<1>3. CRC32_BASE_TABLES(32) = <<59, 110, 32, 200>>
  <2>1. High[3][1] = 15214 /\ Low[3][1] = 8392
    BY SMTT(30) DEF High, Low
  <2> QED
    BY <2>1 DEF CRC32_BASE_TABLES, Entry
<1>4. CRC32_BASE_TABLES(16) = <<29, 183, 16, 100>>
  <2>1. High[2][1] = 7607 /\ Low[2][1] = 4196
    BY SMTT(30) DEF High, Low
  <2> QED
    BY <2>1 DEF CRC32_BASE_TABLES, Entry
<1>5. CRC32_BASE_TABLES(8) = <<14, 219, 136, 50>>
  <2>1. High[1][9] = 3803 /\ Low[1][9] = 34866
    BY SMTT(30) DEF High, Low
  <2> QED
    BY <2>1 DEF CRC32_BASE_TABLES, Entry
<1>6. CRC32_BASE_TABLES(4) = <<7, 109, 196, 25>>
  <2>1. High[1][5] = 1901 /\ Low[1][5] = 50201
    BY SMTT(30) DEF High, Low
  <2> QED
    BY <2>1 DEF CRC32_BASE_TABLES, Entry
<1>7. CRC32_BASE_TABLES(2) = <<238, 14, 97, 44>>
  <2>1. High[1][3] = 60942 /\ Low[1][3] = 24876
    BY SMTT(30) DEF High, Low
  <2> QED
    BY <2>1 DEF CRC32_BASE_TABLES, Entry
<1>8. CRC32_BASE_TABLES(1) = <<119, 7, 48, 150>>
  <2>1. High[1][2] = 30471 /\ Low[1][2] = 12438
    BY SMTT(30) DEF High, Low
  <2> QED
    BY <2>1 DEF CRC32_BASE_TABLES, Entry
<1> QED
  BY <1>1, <1>2, <1>3, <1>4, <1>5, <1>6, <1>7, <1>8

LEMMA WayIsShifted ==
  \A n \in 1..15 : ShiftBit(Way[n]) = Way[n + 1]
<1>1. ShiftBit(<<0, 0, 0, 128>>) = <<0, 0, 0, 64>>
  BY DEF ShiftBit, Half
<1>2. ShiftBit(<<0, 0, 0, 64>>) = <<0, 0, 0, 32>>
  BY DEF ShiftBit, Half
<1>3. ShiftBit(<<0, 0, 0, 32>>) = <<0, 0, 0, 16>>
  BY DEF ShiftBit, Half
<1>4. ShiftBit(<<0, 0, 0, 16>>) = <<0, 0, 0, 8>>
  BY DEF ShiftBit, Half
<1>5. ShiftBit(<<0, 0, 0, 8>>) = <<0, 0, 0, 4>>
  BY DEF ShiftBit, Half
<1>6. ShiftBit(<<0, 0, 0, 4>>) = <<0, 0, 0, 2>>
  BY DEF ShiftBit, Half
<1>7. ShiftBit(<<0, 0, 0, 2>>) = <<0, 0, 0, 1>>
  BY DEF ShiftBit, Half
<1>8. ShiftBit(<<0, 0, 0, 1>>) = <<237, 184, 131, 32>>
  <2>1. ShiftBit(<<0, 0, 0, 1>>) = XorWord(<<0, 0, 0, 0>>, Polynomial)
    BY DEF ShiftBit, Half
  <2>2. Xor(0, 237) = 237 /\ Xor(0, 184) = 184 /\ Xor(0, 131) = 131 /\ Xor(0, 32) = 32
    BY DEF Xor, XorHalf
  <2> QED
    BY <2>1, <2>2 DEF XorWord, Polynomial
<1>9. ShiftBit(<<237, 184, 131, 32>>) = <<118, 220, 65, 144>>
  BY DEF ShiftBit, Half
<1>10. ShiftBit(<<118, 220, 65, 144>>) = <<59, 110, 32, 200>>
  BY DEF ShiftBit, Half
<1>11. ShiftBit(<<59, 110, 32, 200>>) = <<29, 183, 16, 100>>
  BY DEF ShiftBit, Half
<1>12. ShiftBit(<<29, 183, 16, 100>>) = <<14, 219, 136, 50>>
  BY DEF ShiftBit, Half
<1>13. ShiftBit(<<14, 219, 136, 50>>) = <<7, 109, 196, 25>>
  BY DEF ShiftBit, Half
<1>14. ShiftBit(<<7, 109, 196, 25>>) = <<238, 14, 97, 44>>
  <2>1. ShiftBit(<<7, 109, 196, 25>>) = XorWord(<<3, 182, 226, 12>>, Polynomial)
    BY DEF ShiftBit, Half
  <2>2. Xor(3, 237) = 238 /\ Xor(182, 184) = 14 /\ Xor(226, 131) = 97 /\ Xor(12, 32) = 44
    BY DEF Xor, XorHalf
  <2> QED
    BY <2>1, <2>2 DEF XorWord, Polynomial
<1>15. ShiftBit(<<238, 14, 97, 44>>) = <<119, 7, 48, 150>>
  BY DEF ShiftBit, Half
<1>16. /\ ShiftBit(Way[1]) = Way[2] /\ ShiftBit(Way[2]) = Way[3] /\ ShiftBit(Way[3]) = Way[4]
       /\ ShiftBit(Way[4]) = Way[5] /\ ShiftBit(Way[5]) = Way[6] /\ ShiftBit(Way[6]) = Way[7]
       /\ ShiftBit(Way[7]) = Way[8] /\ ShiftBit(Way[8]) = Way[9] /\ ShiftBit(Way[9]) = Way[10]
       /\ ShiftBit(Way[10]) = Way[11] /\ ShiftBit(Way[11]) = Way[12] /\ ShiftBit(Way[12]) = Way[13]
       /\ ShiftBit(Way[13]) = Way[14] /\ ShiftBit(Way[14]) = Way[15] /\ ShiftBit(Way[15]) = Way[16]
  BY <1>1, <1>2, <1>3, <1>4, <1>5, <1>6, <1>7, <1>8, <1>9, <1>10, <1>11, <1>12, <1>13, <1>14,
     <1>15 DEF Way
<1>17. ASSUME NEW n \in 1..15 PROVE ShiftBit(Way[n]) = Way[n + 1]
  BY <1>16
<1> QED
  BY <1>17

LEMMA PowersAreLeft ==
  IsLeft(0) /\ \A w \in Weights : IsLeft(w)
<1>1. ASSUME NEW n \in 1..8 PROVE ShiftByte(Way[n]) = Way[n + 8]
  <2>1. /\ ShiftBit(Way[n]) = Way[n + 1] /\ ShiftBit(Way[n + 1]) = Way[n + 2]
        /\ ShiftBit(Way[n + 2]) = Way[n + 3] /\ ShiftBit(Way[n + 3]) = Way[n + 4]
        /\ ShiftBit(Way[n + 4]) = Way[n + 5] /\ ShiftBit(Way[n + 5]) = Way[n + 6]
        /\ ShiftBit(Way[n + 6]) = Way[n + 7] /\ ShiftBit(Way[n + 7]) = Way[n + 8]
    BY WayIsShifted
  <2> QED
    BY <2>1 DEF ShiftByte, ShiftTwice
<1>2. ShiftByte(<<0, 0, 0, 0>>) = <<0, 0, 0, 0>>
  <2>1. 0 \in Byte
    BY DEF Byte
  <2> QED
    BY <2>1, ShiftByteMovesDown
<1>3. IsLeft(0)
  <2>1. High[1][1] = 0 /\ Low[1][1] = 0
    BY SMTT(30) DEF High, Low
  <2> QED
    BY <1>2, <2>1 DEF IsLeft, CRC32_BASE_TABLES, Entry
<1>4. /\ Way[1] = <<0, 0, 0, 128>> /\ Way[2] = <<0, 0, 0, 64>> /\ Way[3] = <<0, 0, 0, 32>>
      /\ Way[4] = <<0, 0, 0, 16>> /\ Way[5] = <<0, 0, 0, 8>> /\ Way[6] = <<0, 0, 0, 4>>
      /\ Way[7] = <<0, 0, 0, 2>> /\ Way[8] = <<0, 0, 0, 1>>
  BY DEF Way
<1>5. /\ CRC32_BASE_TABLES(128) = Way[9] /\ CRC32_BASE_TABLES(64) = Way[10]
      /\ CRC32_BASE_TABLES(32) = Way[11] /\ CRC32_BASE_TABLES(16) = Way[12]
      /\ CRC32_BASE_TABLES(8) = Way[13] /\ CRC32_BASE_TABLES(4) = Way[14]
      /\ CRC32_BASE_TABLES(2) = Way[15] /\ CRC32_BASE_TABLES(1) = Way[16]
  BY EntriesOnWay DEF Way
<1>6. /\ ShiftByte(Way[1]) = Way[9] /\ ShiftByte(Way[2]) = Way[10]
      /\ ShiftByte(Way[3]) = Way[11] /\ ShiftByte(Way[4]) = Way[12]
      /\ ShiftByte(Way[5]) = Way[13] /\ ShiftByte(Way[6]) = Way[14]
      /\ ShiftByte(Way[7]) = Way[15] /\ ShiftByte(Way[8]) = Way[16]
  BY <1>1
<1>7. /\ IsLeft(128) /\ IsLeft(64) /\ IsLeft(32) /\ IsLeft(16)
      /\ IsLeft(8) /\ IsLeft(4) /\ IsLeft(2) /\ IsLeft(1)
  BY <1>4, <1>5, <1>6 DEF IsLeft
<1> QED
  BY <1>3, <1>7 DEF Weights

LEMMA PlacesOfEntries ==
  ASSUME NEW rows, NEW r \in 0..15, NEW c \in 0..15
  PROVE  /\ Entry(rows, c) = rows[1][c + 1] /\ Entry(rows, 16 * r) = rows[r + 1][1]
         /\ Entry(rows, 16 * r + c) = rows[r + 1][c + 1]
         /\ c \in Byte /\ 16 * r \in Byte /\ 16 * r + c \in Byte
<1>1. /\ c \div 16 = 0 /\ c % 16 = c /\ (16 * r) \div 16 = r /\ (16 * r) % 16 = 0
      /\ (16 * r + c) \div 16 = r /\ (16 * r + c) % 16 = c
  OBVIOUS
<1> QED
  BY <1>1 DEF Entry, Byte

LEMMA NibblesAdd ==
  ASSUME NEW w \in {1, 2, 4, 8}, NEW n \in 0..7, n < w
  PROVE  IsSumOfEntries(n, w, n + w) /\ IsSumOfEntries(16 * n, 16 * w, 16 * (n + w))
<1>1. PICK p \in 1..w : p = n + 1
  OBVIOUS
<1>2. ASSUME NEW rows, NEW v, FirstRowAdds(rows, v), FirstColumnAdds(rows, v)
      PROVE  /\ SumFrom(Entry(rows, n), Entry(rows, w), Entry(rows, n + w), v)
             /\ SumFrom(Entry(rows, 16 * n), Entry(rows, 16 * w), Entry(rows, 16 * (n + w)), v)
  <2>1. /\ SumFrom(rows[1][p], rows[1][w + 1], rows[1][p + w], v)
        /\ SumFrom(rows[p][1], rows[w + 1][1], rows[p + w][1], v)
    BY <1>2 DEF FirstRowAdds, FirstColumnAdds
  <2>2. n \in 0..15 /\ w \in 0..15 /\ n + w \in 0..15 /\ (n + w) + 1 = p + w
    BY <1>1
  <2>3. /\ Entry(rows, n) = rows[1][p] /\ Entry(rows, w) = rows[1][w + 1]
        /\ Entry(rows, 16 * n) = rows[p][1] /\ Entry(rows, 16 * w) = rows[w + 1][1]
    BY <1>1, <2>2, PlacesOfEntries
  <2>4. /\ Entry(rows, n + w) = rows[1][p + w]
        /\ Entry(rows, 16 * (n + w)) = rows[p + w][1]
    <3>1. PICK s \in 0..15 : s = n + w
      BY <2>2
    <3>2. Entry(rows, s) = rows[1][s + 1] /\ Entry(rows, 16 * s) = rows[s + 1][1]
      BY PlacesOfEntries
    <3>3. s + 1 = p + w
      BY <2>2, <3>1
    <3> QED
      BY <3>1, <3>2, <3>3
  <2> QED
    BY <2>1, <2>3, <2>4
<1> QED
  BY <1>2, HighAdds, LowAdds DEF Adds, IsSumOfEntries, EntrySums

LEMMA AllAdd ==
  ASSUME NEW r \in 0..15, NEW c \in 0..15
  PROVE  IsSumOfEntries(16 * r, c, 16 * r + c)
<1>1. PICK p \in 1..16, q \in 1..16 : p = r + 1 /\ q = c + 1
  OBVIOUS
<1>2. ASSUME NEW rows, NEW v, AcrossAdds(rows, v)
      PROVE  SumFrom(Entry(rows, 16 * r), Entry(rows, c), Entry(rows, 16 * r + c), v)
  <2>1. SumFrom(rows[p][1], rows[1][q], rows[p][q], v)
    BY <1>2 DEF AcrossAdds
  <2> QED
    BY <1>1, <2>1, PlacesOfEntries
<1> QED
  BY <1>2, HighAdds, LowAdds DEF Adds, IsSumOfEntries, EntrySums

\* The entries of the table are what a byte alone in the register leaves.
LEMMA TableDivides ==
  ASSUME NEW b \in Byte
  PROVE  CRC32_BASE_TABLES(b) = ShiftByte(<<0, 0, 0, b>>)
<1>1. ASSUME NEW w \in {1, 2, 4, 8}, NEW n \in 0..7, n < w,
             IsLeft(n), IsLeft(16 * n)
      PROVE  IsLeft(n + w) /\ IsLeft(16 * (n + w))
  <2>1. IsLeft(w) /\ IsLeft(16 * w)
    BY PowersAreLeft DEF Weights
  <2>2. Xor(n, w) = n + w /\ Xor(16 * n, 16 * w) = 16 * (n + w)
    BY <1>1, SumOfParts
  <2>3. /\ n \in Byte /\ w \in Byte /\ n + w \in Byte
        /\ 16 * n \in Byte /\ 16 * w \in Byte /\ 16 * (n + w) \in Byte
    BY <1>1 DEF Byte
  <2>4. /\ CRC32_BASE_TABLES(n + w) = XorWord(CRC32_BASE_TABLES(n), CRC32_BASE_TABLES(w))
        /\ CRC32_BASE_TABLES(16 * (n + w))
             = XorWord(CRC32_BASE_TABLES(16 * n), CRC32_BASE_TABLES(16 * w))
    BY <1>1, <2>3, NibblesAdd, SumOfEntries
  <2> QED
    BY <1>1, <2>1, <2>2, <2>3, <2>4, LeftOfSum
<1> DEFINE Both(n) == IsLeft(n) /\ IsLeft(16 * n)
<1>2. Both(0)
  BY PowersAreLeft
<1>3. ASSUME NEW w \in {1, 2, 4, 8}, \A n \in 0..7 : n < w => Both(n)
      PROVE  \A k \in 0..15 : k < 2 * w => Both(k)
  <2> SUFFICES ASSUME NEW k \in 0..15, k < 2 * w PROVE Both(k)
    OBVIOUS
  <2>1. CASE k < w
    BY <1>3, <2>1
  <2>2. CASE ~(k < w)
    <3>1. PICK n \in 0..7 : k = n + w /\ n < w
      BY <2>2
    <3> QED
      BY <1>1, <1>3, <3>1
  <2> QED
    BY <2>1, <2>2
<1> HIDE DEF Both
<1>4. \A n \in 0..7 : n < 1 => Both(n)
  BY <1>2
<1>5. \A n \in 0..7 : n < 2 => Both(n)
  BY <1>3, <1>4
<1>6. \A n \in 0..7 : n < 4 => Both(n)
  BY <1>3, <1>5
<1>7. \A n \in 0..7 : n < 8 => Both(n)
  BY <1>3, <1>6
<1>8. \A n \in 0..15 : Both(n)
  BY <1>3, <1>7
<1>9. PICK r \in 0..15, c \in 0..15 : b = 16 * r + c
  <2>1. b \div 16 \in 0..15 /\ b % 16 \in 0..15 /\ b = 16 * (b \div 16) + (b % 16)
    BY DEF Byte
  <2> QED
    BY <2>1
<1>10. IsLeft(16 * r) /\ IsLeft(c)
  BY <1>8 DEF Both
<1>11. Xor(16 * r, c) = 16 * r + c
  BY SumOfParts
<1>12. PICK x \in Byte : x = 16 * r
  BY DEF Byte
<1>13. c \in Byte
  BY DEF Byte
<1>14. CRC32_BASE_TABLES(b) = XorWord(CRC32_BASE_TABLES(x), CRC32_BASE_TABLES(c))
  BY <1>9, <1>12, <1>13, AllAdd, SumOfEntries
<1>15. IsLeft(Xor(x, c))
  BY <1>9, <1>10, <1>11, <1>12, <1>13, <1>14, LeftOfSum
<1> QED
  BY <1>9, <1>11, <1>12, <1>15 DEF IsLeft

\* One look-up in the table divides as eight steps of the division do.
LEMMA StepDivides ==
  ASSUME NEW c \in Words, NEW b \in Byte
  PROVE  /\ Step(c, b) = ShiftByte(<<c[1], c[2], c[3], Xor(c[4], b)>>)
         /\ Step(c, b) \in Words
<1>1. PICK c1 \in Byte, c2 \in Byte, c3 \in Byte, c4 \in Byte : c = <<c1, c2, c3, c4>>
  BY DEF Words
<1>2. PICK x \in Byte, o \in Byte : x = Xor(c4, b) /\ o = 0
  <2>1. 0 \in Byte
    BY DEF Byte
  <2> QED
    BY <2>1, XorBits
<1>3. PICK u \in Words, v \in Words : u = <<c1, c2, c3, o>> /\ v = <<o, o, o, x>>
  BY DEF Words
<1>4. XorWord(u, v) = <<c1, c2, c3, x>>
  <2>1. Xor(c1, o) = c1 /\ Xor(c2, o) = c2 /\ Xor(c3, o) = c3 /\ Xor(o, x) = x
    BY <1>2, XorLaws
  <2> QED
    BY <1>3, <2>1 DEF XorWord
<1>5. ShiftByte(u) = <<0, c1, c2, c3>> /\ ShiftByte(v) = CRC32_BASE_TABLES(x)
  BY <1>2, <1>3, ShiftByteMovesDown, TableDivides
<1>6. /\ ShiftByte(XorWord(u, v)) = XorWord(ShiftByte(u), ShiftByte(v))
      /\ ShiftByte(u) \in Words /\ ShiftByte(v) \in Words
  BY ShiftByteOfXor
<1>7. Step(c, b) = XorWord(ShiftByte(u), ShiftByte(v))
  BY <1>1, <1>2, <1>5 DEF Step
<1> QED
  BY <1>1, <1>2, <1>4, <1>6, <1>7, ShiftBitOfXor

\* The registers of the division are what the loop goes through.
LEMMA RegistersAre ==
  ASSUME NEW bytes \in Seq(Byte)
  PROVE  /\ Registers(bytes)[0] = Ones
         /\ \A n \in 0..Len(bytes) : Registers(bytes)[n] \in Words
         /\ \A n \in 1..Len(bytes) :
              Registers(bytes)[n] = Step(Registers(bytes)[n - 1], bytes[n])
<1> DEFINE N == Len(bytes)
           Is(f) == f = [n \in 0..N |->
                           IF n = 0 THEN Ones
                           ELSE LET c == f[n - 1]
                                IN  ShiftByte(<<c[1], c[2], c[3], Xor(c[4], bytes[n])>>)]
           step == [n \in Nat |-> [c \in Words |-> IF n \in 1..N THEN Step(c, bytes[n]) ELSE c]]
<1>1. Registers(bytes) = CHOOSE f : Is(f)
  BY DEF Registers
<1>2. Ones \in Words
  BY DEF Ones, Words, Byte
<1>3. N \in Nat /\ \A n \in 1..N : bytes[n] \in Byte
  OBVIOUS
<1>4. step \in [Nat -> [Words -> Words]]
  BY <1>3, StepDivides
<1>5. PICK f \in [0..N -> Words] : Iterates(f, Ones, step, N)
  <2> HIDE DEF step, N
  <2> QED
    BY <1>2, <1>3, <1>4, IteratesExists
<1>6. /\ f[0] = Ones
      /\ \A n \in 1..N : f[n] = step[n][f[n - 1]] /\ f[n - 1] \in Words
  <2>1. f = [n \in 0..N |-> IF n = 0 THEN Ones ELSE step[n][f[n - 1]]]
    BY <1>5, Zenon DEF Iterates
  <2>2. \A n \in 1..N : n \in 0..N /\ n # 0 /\ n - 1 \in 0..N
    BY <1>3
  <2>3. 0 \in 0..N
    BY <1>3
  <2> HIDE DEF step, N
  <2> QED
    BY <1>5, <2>1, <2>2, <2>3
<1>7. \A n \in 1..N : f[n] = Step(f[n - 1], bytes[n])
  <2>1. \A n \in 1..N : n \in Nat
    BY <1>3
  <2>2. \A n \in Nat, c \in Words : n \in 1..N => step[n][c] = Step(c, bytes[n])
    OBVIOUS
  <2> HIDE DEF step, N
  <2> QED
    BY <1>6, <2>1, <2>2
<1>8. \A n \in 1..N :
        f[n] = ShiftByte(<<f[n - 1][1], f[n - 1][2], f[n - 1][3], Xor(f[n - 1][4], bytes[n])>>)
  <2> HIDE DEF N, step
  <2> QED
    BY <1>3, <1>6, <1>7, StepDivides
<1>9. Is(f)
  BY <1>5, <1>6, <1>8
<1>10. ASSUME NEW g, Is(g) PROVE g = f
  <2> DEFINE T == {m \in 0..N : g[m] # f[m]}
  <2>1. ASSUME T # {} PROVE FALSE
    <3>1. T \subseteq Nat
      BY <1>3
    <3>2. PICK m \in T : \A k \in T : m <= k
      <4> HIDE DEF T
      <4> QED
        BY <2>1, <3>1, LeastNumber
    <3>3. m # 0
      BY <1>6, <1>10, <3>2
    <3>4. m \in 1..N /\ m - 1 \in 0..N /\ ~(m - 1 \in T)
      BY <1>3, <3>2, <3>3
    <3>5. g[m - 1] = f[m - 1]
      BY <3>4
    <3>6. g[m] = ShiftByte(<<g[m - 1][1], g[m - 1][2], g[m - 1][3], Xor(g[m - 1][4], bytes[m])>>)
      BY <1>10, <3>3, <3>4
    <3> QED
      BY <1>8, <3>2, <3>4, <3>5, <3>6
  <2>2. g = [n \in 0..N |-> g[n]] /\ f = [n \in 0..N |-> f[n]]
    BY <1>5, <1>10
  <2> QED
    BY <2>1, <2>2
<1>11. Registers(bytes) = f
  <2> HIDE DEF Is
  <2> QED
    BY <1>1, <1>9, <1>10
<1> QED
  BY <1>5, <1>6, <1>7, <1>11

-----------------------------------------------------------------------------
\* The inductive invariant.

\* A call is what Call makes.
IsCall(x) ==
  x = [fn |-> x.fn, arg |-> x.arg, status |-> x.status, value |-> x.value]

\* A row is sent for each call counted, and never more than were asked for.
ScanCounts ==
  \A s \in Scans : scan[s].open =>
    /\ scan[s].arg \in ScanArgs
    /\ scan[s].rows = scan[s].call_cntr
    /\ scan[s].call_cntr <= scan[s].max_calls
    /\ scan[s].max_calls = scan[s].arg[3] % (MaxUInt32 + 1)

\* What is returned was computed from a number and a precision.
Parts(x) ==
  x.status = "returned" /\ x.fn \in PartFns =>
    LET sn == x.arg[1]  p == x.arg[2]
    IN  /\ sn \in Number
        /\ p \in Int
        /\ x.value = IF x.fn = "get_yydoy_from_sn" THEN yy_doy(sn, p)
                     ELSE IF x.fn = "get_id_from_sn" THEN id(sn, p)
                     ELSE <<yy_doy(sn, p), id(sn, p)>>

Done(x) == x.status = "done" => x.value = x.arg[3] % (MaxUInt32 + 1)

IInv == TypeOK /\ IsCall(call) /\ ScanCounts /\ Parts(call) /\ Done(call)

\* The parts that were computed join.
LEMMA PartsAreParts ==
  ASSUME Parts(call)
  PROVE  PartsJoin
<1> SUFFICES ASSUME call.status = "returned", call.fn \in PartFns
             PROVE  PartsJoin
  BY DEF PartsJoin
<1> DEFINE sn == call.arg[1]
           p == call.arg[2]
<1>1. sn \in Number /\ p \in Int
  BY DEF Parts
<1>2. call.fn = "get_yydoy_from_sn" => call.value = yy_doy(sn, p)
  BY DEF Parts
<1>3. call.fn = "get_id_from_sn" => call.value = id(sn, p)
  BY DEF Parts
<1>4. call.fn = "get_yydoy_id_from_sn" => call.value = <<yy_doy(sn, p), id(sn, p)>>
  BY DEF Parts
<1> HIDE DEF sn, p
<1>5. ASSUME Fits(sn, p)
      PROVE  /\ call.fn = "get_yydoy_from_sn" => IsId(sn - call.value * 10^p, sn, p)
             /\ call.fn = "get_id_from_sn" =>
                  (sn - call.value) % 10^p = 0 /\ IsId(call.value, sn, p)
             /\ call.fn = "get_yydoy_id_from_sn" =>
                  call.value[1] * 10^p + call.value[2] = sn /\ IsId(call.value[2], sn, p)
  <2> DEFINE q == yy_doy(sn, p)
             b == 10^p
  <2>1. q \in Int /\ b \in Nat \ {0} /\ id(sn, p) = sn - q * b /\ IsId(id(sn, p), sn, p)
    BY <1>1, <1>5, PartsThatFit
  <2>2. sn \in Int
    BY <1>1, WidthAssumption DEF Number, MIN
  <2> HIDE DEF q, b
  <2>3. sn - id(sn, p) = q * b /\ q * b + id(sn, p) = sn
    BY <2>1, <2>2
  <2>4. (sn - id(sn, p)) % b = 0
    BY <2>1, <2>3, MultipleModulo
  <2> QED
    BY <1>2, <1>3, <1>4, <2>1, <2>3, <2>4 DEF q, b
<1>6. ASSUME p > Digits, sn # MIN(MaxInt64)
      PROVE  /\ call.fn = "get_yydoy_from_sn" => call.value = 0
             /\ call.fn = "get_id_from_sn" => call.value = sn
             /\ call.fn = "get_yydoy_id_from_sn" => call.value = <<0, sn>>
  BY <1>1, <1>2, <1>3, <1>4, <1>6, PartsBeyondDigits
<1> QED
  BY <1>5, <1>6 DEF PartsJoin, sn, p

-----------------------------------------------------------------------------
\* The steps.

Statuses == {"idle", "running", "returned", "null", "error", "done"}

LEMMA InitIInv == SessionInit => IInv
<1> SUFFICES ASSUME SessionInit PROVE IInv
  OBVIOUS
<1>1. call = NoCall /\ scan = [s \in Scans |-> Closed]
  BY DEF SessionInit, Init
<1>2. TypeOK
  <2>1. Closed \in [open : BOOLEAN, arg : ScanArgs \cup {Closed.arg},
                    call_cntr : Nat, max_calls : 0..MaxUInt32, rows : Nat]
    BY SerialAssumption DEF Closed
  <2> QED
    BY <1>1, <2>1 DEF TypeOK, NoCall, Call
<1> QED
  BY <1>1, <1>2 DEF IInv, IsCall, ScanCounts, Parts, Done, NoCall, Call, Closed

\* A step that leaves the scans alone or closes all of them.
LEMMA ScansKeptOrClosed ==
  ASSUME IInv, scan' = scan \/ scan' = [s \in Scans |-> Closed],
         IsCall(call'), call'.status \in Statuses, Parts(call'), Done(call')
  PROVE  IInv'
<1>1. CASE scan' = scan
  BY <1>1 DEF IInv, TypeOK, IsCall, ScanCounts, Parts, Done, Statuses
<1>2. CASE scan' = [s \in Scans |-> Closed]
  <2>1. Closed \in [open : BOOLEAN, arg : ScanArgs \cup {Closed.arg},
                    call_cntr : Nat, max_calls : 0..MaxUInt32, rows : Nat]
    BY SerialAssumption DEF Closed
  <2>2. TypeOK'
    BY <1>2, <2>1 DEF TypeOK, Statuses
  <2>3. ScanCounts'
    BY <1>2 DEF ScanCounts, Closed
  <2> QED
    BY <2>2, <2>3 DEF IInv, IsCall, Parts, Done
<1> QED
  BY <1>1, <1>2

LEMMA DivideIInv ==
  ASSUME IInv, NEW sn \in Serials, NEW p \in Precisions,
         NEW fn, NEW value, Divide(fn, sn, p, value),
         \/ fn = "get_yydoy_from_sn" /\ value = yy_doy(sn, p)
         \/ fn = "get_id_from_sn" /\ value = id(sn, p)
         \/ fn = "get_date_from_sn"
  PROVE  IInv'
<1>1. sn \in Number /\ p \in Int
  BY SerialAssumption DEF Number
<1>2. CASE lpow(p) = 0
  BY <1>2, ScansKeptOrClosed
     DEF Divide, Raise, Call, IsCall, Statuses, Parts, Done
<1>3. CASE lpow(p) # 0
  <2>1. call' = [fn |-> fn, arg |-> <<sn, p>>, status |-> "returned", value |-> value]
        /\ scan' = scan
    BY <1>3 DEF Divide, Call
  <2>2. Parts(call')
    BY <1>1, <2>1 DEF Parts, PartFns
  <2> QED
    BY <2>1, <2>2, ScansKeptOrClosed DEF IsCall, Statuses, Done
<1> QED
  BY <1>2, <1>3

\* What PerCall may be given for the context of a scan.
IsContext(c) ==
  /\ c \in [open : {TRUE}, arg : ScanArgs, call_cntr : Nat, max_calls : 0..MaxUInt32, rows : Nat]
  /\ c.rows = c.call_cntr
  /\ c.call_cntr <= c.max_calls
  /\ c.max_calls = c.arg[3] % (MaxUInt32 + 1)

LEMMA PerCallIInv ==
  ASSUME IInv, NEW s \in Scans, NEW c, IsContext(c), PerCall(s, c)
  PROVE  IInv'
<1> DEFINE sn == c.arg[1]
           p == c.arg[2]
<1>1. c.arg \in Serials \X Precisions \X Int /\ MaxUInt32 \in Nat
  BY SerialAssumption DEF IsContext
<1>2. sn \in Number /\ p \in Int
  BY <1>1, SerialAssumption DEF Number
<1>3. CASE c.call_cntr < c.max_calls /\ lpow(p) = 0
  BY <1>3, ScansKeptOrClosed
     DEF PerCall, Raise, Call, IsCall, Statuses, Parts, Done
<1>4. CASE c.call_cntr < c.max_calls /\ lpow(p) # 0
  <2> DEFINE d == [c EXCEPT !.call_cntr = @ + 1, !.rows = @ + 1]
  <2>1. /\ call' = [fn |-> "get_yydoy_id_from_sn", arg |-> c.arg, status |-> "returned",
                    value |-> <<yy_doy(sn, p), id(sn, p)>>]
        /\ scan' = [scan EXCEPT ![s] = d]
    BY <1>4 DEF PerCall, Call
  <2>2. IsContext(d) /\ d.arg = c.arg /\ d.open
    <3> DEFINE e == [c EXCEPT !.call_cntr = c.call_cntr + 1]
    <3>1. /\ e \in [open : {TRUE}, arg : ScanArgs, call_cntr : Nat, max_calls : 0..MaxUInt32,
                    rows : Nat]
          /\ e.arg = c.arg /\ e.max_calls = c.max_calls /\ e.rows = c.rows
          /\ e.call_cntr = c.call_cntr + 1
      <4>1. c \in [open : {TRUE}, arg : ScanArgs, call_cntr : Nat, max_calls : 0..MaxUInt32,
                   rows : Nat]
        BY DEF IsContext
      <4> HIDE DEF IsContext
      <4>2. c.call_cntr + 1 \in Nat
        BY <4>1
      <4> QED
        BY <4>1, <4>2
    <3>2. d = [e EXCEPT !.rows = c.rows + 1]
      OBVIOUS
    <3> HIDE DEF e, d
    <3>3. /\ d \in [open : {TRUE}, arg : ScanArgs, call_cntr : Nat, max_calls : 0..MaxUInt32,
                    rows : Nat]
          /\ d.arg = c.arg /\ d.max_calls = c.max_calls /\ d.rows = c.rows + 1
          /\ d.call_cntr = c.call_cntr + 1
      BY <3>1, <3>2 DEF IsContext
    <3> QED
      <4>1. /\ c.rows = c.call_cntr /\ c.max_calls = c.arg[3] % (MaxUInt32 + 1)
            /\ c.call_cntr \in Nat /\ c.max_calls \in Nat /\ c.call_cntr < c.max_calls
        BY <1>1, <1>4 DEF IsContext
      <4>2. d.rows = d.call_cntr /\ d.call_cntr <= d.max_calls
        BY <3>3, <4>1
      <4>3. d.max_calls = d.arg[3] % (MaxUInt32 + 1)
        BY <3>3, <4>1
      <4>4. d.open
        BY <3>3
      <4> QED
        BY <3>3, <4>2, <4>3, <4>4 DEF IsContext
  <2> HIDE DEF d
  <2>3. TypeOK'
    <3>1. d \in [open : BOOLEAN, arg : ScanArgs \cup {Closed.arg},
                 call_cntr : Nat, max_calls : 0..MaxUInt32, rows : Nat]
      BY <2>2 DEF IsContext
    <3> QED
      BY <2>1, <3>1 DEF IInv, TypeOK
  <2>4. ScanCounts'
    BY <2>1, <2>2 DEF IInv, TypeOK, ScanCounts, IsContext
  <2>5. IsCall(call') /\ Parts(call') /\ Done(call')
    BY <1>2, <2>1 DEF IsCall, Parts, Done, PartFns
  <2> QED
    BY <2>3, <2>4, <2>5 DEF IInv, IsCall, Parts, Done
<1>5. CASE ~(c.call_cntr < c.max_calls)
  <2>1. /\ call' = [fn |-> "get_yydoy_id_from_sn", arg |-> c.arg, status |-> "done",
                    value |-> c.rows]
        /\ scan' = [scan EXCEPT ![s] = Closed]
    BY <1>5 DEF PerCall, Call
  <2>2. c.rows = c.arg[3] % (MaxUInt32 + 1)
    BY <1>1, <1>5 DEF IsContext
  <2>3. TypeOK'
    <3>1. Closed \in [open : BOOLEAN, arg : ScanArgs \cup {Closed.arg},
                      call_cntr : Nat, max_calls : 0..MaxUInt32, rows : Nat]
      BY SerialAssumption DEF Closed
    <3> QED
      BY <2>1, <3>1 DEF IInv, TypeOK
  <2>4. ScanCounts'
    BY <2>1 DEF IInv, TypeOK, ScanCounts, Closed
  <2>5. IsCall(call') /\ Parts(call') /\ Done(call')
    BY <2>1, <2>2 DEF IsCall, Parts, Done
  <2> QED
    BY <2>3, <2>4, <2>5 DEF IInv, IsCall, Parts, Done
<1> QED
  BY <1>3, <1>4, <1>5

LEMMA SerialStepIInv == IInv /\ Next => IInv'
<1> SUFFICES ASSUME IInv, Next PROVE IInv'
  OBVIOUS
<1>1. ASSUME NEW sn \in Serials, NEW p \in Precisions, get_yydoy_from_sn(sn, p)
      PROVE  IInv'
  BY <1>1, DivideIInv DEF get_yydoy_from_sn
<1>2. ASSUME NEW sn \in Serials, NEW p \in Precisions, get_id_from_sn(sn, p)
      PROVE  IInv'
  BY <1>2, DivideIInv DEF get_id_from_sn
<1>3. ASSUME NEW sn \in Serials, NEW p \in Precisions, get_date_from_sn(sn, p)
      PROVE  IInv'
  <2> DEFINE s == split_yy_doy_2000(yy_doy(sn, p))
             d == generate_date_ex(s.year, s.doy)
             value == date2j(s.year, d.month, d.day) - POSTGRES_EPOCH_JDATE
  <2>1. \/ Raise("get_date_from_sn", <<sn, p>>)
        \/ Divide("get_date_from_sn", sn, p, value)
    BY <1>3 DEF get_date_from_sn
  <2> HIDE DEF value
  <2>2. CASE Raise("get_date_from_sn", <<sn, p>>)
    BY <2>2, ScansKeptOrClosed DEF Raise, Call, IsCall, Statuses, Parts, Done
  <2>3. CASE Divide("get_date_from_sn", sn, p, value)
    BY <2>3, DivideIInv
  <2> QED
    BY <2>1, <2>2, <2>3
<1>4. ASSUME NEW s \in Scans, NEW arg \in ScanArgs, get_yydoy_id_from_sn_first(s, arg)
      PROVE  IInv'
  <2> DEFINE c == Opened(arg, arg[3] % (MaxUInt32 + 1))
  <2>1. c = [open |-> TRUE, arg |-> arg, call_cntr |-> 0,
             max_calls |-> arg[3] % (MaxUInt32 + 1), rows |-> 0]
    BY DEF Opened
  <2>2. arg[3] % (MaxUInt32 + 1) \in 0..MaxUInt32
    <3>1. arg[3] \in Int /\ MaxUInt32 \in Nat
      BY SerialAssumption
    <3> QED
      BY <3>1
  <2>3. PerCall(s, c)
    BY <1>4 DEF get_yydoy_id_from_sn_first
  <2> HIDE DEF c
  <2>4. IsContext(c)
    BY <2>1, <2>2 DEF IsContext
  <2> QED
    BY <2>3, <2>4, PerCallIInv
<1>5. ASSUME NEW s \in Scans, get_yydoy_id_from_sn_next(s)
      PROVE  IInv'
  <2>1. scan[s].open /\ PerCall(s, scan[s])
    BY <1>5 DEF get_yydoy_id_from_sn_next
  <2>2. IsContext(scan[s])
    BY <2>1 DEF IInv, TypeOK, ScanCounts, IsContext
  <2> QED
    BY <2>1, <2>2, PerCallIInv
<1>6. ASSUME NEW s \in Scans, ShutDown(s)
      PROVE  IInv'
  <2>1. scan' = [scan EXCEPT ![s] = Closed] /\ call' = call
    BY <1>6 DEF ShutDown
  <2>2. Closed \in [open : BOOLEAN, arg : ScanArgs \cup {Closed.arg},
                    call_cntr : Nat, max_calls : 0..MaxUInt32, rows : Nat]
    BY SerialAssumption DEF Closed
  <2>3. TypeOK'
    BY <2>1, <2>2 DEF IInv, TypeOK
  <2>4. ScanCounts'
    BY <2>1 DEF IInv, TypeOK, ScanCounts, Closed
  <2> QED
    BY <2>1, <2>3, <2>4 DEF IInv, IsCall, Parts, Done
<1>7. ASSUME Receive, scan' = scan
      PROVE  IInv'
  BY <1>7, ScansKeptOrClosed
     DEF Receive, NoCall, Call, IsCall, Statuses, Parts, Done
<1> QED
  BY <1>1, <1>2, <1>3, <1>4, <1>5, <1>6, <1>7 DEF Next

-----------------------------------------------------------------------------
\* The functions that know nothing of numbers and scans.

Other(x) ==
  /\ IsCall(x)
  /\ x.status \in {"running", "returned", "null", "error"}
  /\ x.fn \notin PartFns

LEMMA RoundOther == RoundNext => Other(call')
<1> SUFFICES ASSUME RoundNext PROVE Other(call')
  OBVIOUS
<1> USE DEF Other, IsCall, PartFns, Call
<1>1. ASSUME NEW val, NEW p, round_v1(val, p) PROVE Other(call')
  BY <1>1 DEF round_v1, Round
<1>2. ASSUME NEW val, NEW p, round_v2(val, p) PROVE Other(call')
  BY <1>2 DEF round_v2, Round
<1>3. ASSUME NEW val, NEW p, round2str_v1(val, p) PROVE Other(call')
  BY <1>3 DEF round2str_v1, Format
<1>4. ASSUME NEW val, NEW p, round2str_v2(val, p) PROVE Other(call')
  BY <1>4 DEF round2str_v2, Format
<1>5. ASSUME NEW val, byte_units(val) PROVE Other(call')
  BY <1>5 DEF byte_units
<1> QED
  BY <1>1, <1>2, <1>3, <1>4, <1>5 DEF RoundNext

LEMMA RandOther == RandNext /\ IsCall(call) => Other(call') \/ call' = call
<1> SUFFICES ASSUME RandNext, IsCall(call) PROVE Other(call') \/ call' = call
  OBVIOUS
<1> USE DEF Other, IsCall, PartFns, Call
<1>1. ASSUME NEW l, NEW f, generate_rand_string(l[1], l[2], f) PROVE Other(call')
  BY <1>1 DEF generate_rand_string
<1>2. CASE WriteCharacter
  BY <1>2 DEF WriteCharacter
<1>3. CASE ReturnRandString
  BY <1>3 DEF ReturnRandString, Drawing, Running
<1> QED
  BY <1>1, <1>2, <1>3 DEF RandNext

LEMMA CrcOther == CrcNext /\ IsCall(call) => Other(call') \/ call' = call
<1> SUFFICES ASSUME CrcNext, IsCall(call) PROVE Other(call') \/ call' = call
  OBVIOUS
<1> USE DEF Other, IsCall, PartFns, Call
<1>1. ASSUME NEW t, NEW b, generate_crc32_v1(t, b) PROVE Other(call')
  BY <1>1 DEF generate_crc32_v1
<1>2. CASE DivideByte
  BY <1>2 DEF DivideByte
<1>3. CASE ReturnCrc
  BY <1>3 DEF ReturnCrc, Dividing, Running
<1> QED
  BY <1>1, <1>2, <1>3 DEF CrcNext

LEMMA OtherStepIInv ==
  ASSUME IInv, ScansAfter, Other(call') \/ call' = call
  PROVE  IInv'
<1>1. scan' = scan \/ scan' = [s \in Scans |-> Closed]
  BY DEF ScansAfter
<1>2. CASE Other(call')
  BY <1>1, <1>2, ScansKeptOrClosed DEF Other, Statuses, Parts, Done
<1>3. CASE call' = call
  <2>1. IsCall(call') /\ call'.status \in Statuses /\ Parts(call') /\ Done(call')
    BY <1>3 DEF IInv, TypeOK, Statuses
  <2> QED
    BY <1>1, <2>1, ScansKeptOrClosed
<1> QED
  BY <1>2, <1>3

LEMMA NextIInv == IInv /\ [SessionNext]_sessionVars => IInv'
<1> SUFFICES ASSUME IInv, [SessionNext]_sessionVars PROVE IInv'
  OBVIOUS
<1>1. CASE Next
  BY <1>1, SerialStepIInv
<1>2. CASE RoundNext /\ ScansAfter
  BY <1>2, RoundOther, OtherStepIInv
<1>3. CASE RandNext /\ ScansAfter
  BY <1>3, RandOther, OtherStepIInv DEF IInv
<1>4. CASE CrcNext /\ ScansAfter
  BY <1>4, CrcOther, OtherStepIInv DEF IInv
<1>5. CASE UNCHANGED sessionVars
  BY <1>5 DEF sessionVars, IInv, TypeOK, IsCall, ScanCounts, Parts, Done
<1> QED
  BY <1>1, <1>2, <1>3, <1>4, <1>5 DEF SessionNext

-----------------------------------------------------------------------------
\* The outcomes are what the functions compute.

DateComputed(x) ==
  x.fn = "get_date_from_sn" =>
    LET sn == x.arg[1]  p == x.arg[2]
        s  == split_yy_doy_2000(yy_doy(sn, p))
        d  == generate_date_ex(s.year, s.doy)
    IN  /\ sn \in Number /\ p \in Int
        /\ \/ x.status = "error" /\ (lpow(p) = 0 \/ ~IS_VALID_JULIAN(s.year, d.month))
           \/ /\ x.status = "returned"
              /\ x.value = date2j(s.year, d.month, d.day) - POSTGRES_EPOCH_JDATE

HalfUpFns == {"round_v1", "round2str_v1"}
HalfEvenFns == {"round_v2", "round2str_v2"}

RoundComputed(x) ==
  x.fn \in HalfUpFns \cup HalfEvenFns /\ x.status = "returned" =>
    LET val == x.arg[1]  p == x.arg[2]
    IN  /\ val[1] \in Int /\ val[2] \in Nat \ {0} /\ p \in Int
        /\ x.fn \in HalfUpFns => x.value = se_round_v1(val, p)
        /\ x.fn \in HalfEvenFns => x.value = se_round_v2(val, p)

SizeComputed(x) ==
  x.fn = "byte_units" =>
    /\ x.arg \in Int /\ x.arg < Kilo^7
    /\ \E index \in current_index(x.arg) :
         LET r == byte_round(x.arg, Kilo^index, Decimals(index))
         IN  IF r.value[1] > 0
               THEN x.status = "returned" /\ x.value = byte_format(r.value, r.precision, index)
               ELSE x.status = "null"

Computed(x) == DateComputed(x) /\ RoundComputed(x) /\ SizeComputed(x)

ComputedFns == {"get_date_from_sn", "byte_units"} \cup HalfUpFns \cup HalfEvenFns

LEMMA ComputedElsewhere ==
  ASSUME NEW x, x.fn \notin ComputedFns PROVE Computed(x)
BY DEF Computed, DateComputed, RoundComputed, SizeComputed, ComputedFns

LEMMA ComputedIsDayOfYear == DateComputed(call) => DateIsDayOfYear
<1> SUFFICES ASSUME DateComputed(call), call.fn = "get_date_from_sn",
                    Fits(call.arg[1], call.arg[2])
             PROVE  DateIsDayOfYear
  BY DEF DateIsDayOfYear
<1> DEFINE sn == call.arg[1]
           p == call.arg[2]
           s == split_yy_doy_2000(yy_doy(sn, p))
           d == generate_date_ex(s.year, s.doy)
<1>1. sn \in Number /\ p \in Int /\ Fits(sn, p)
  BY DEF DateComputed
<1>2. \/ call.status = "error" /\ (lpow(p) = 0 \/ ~IS_VALID_JULIAN(s.year, d.month))
      \/ /\ call.status = "returned"
         /\ call.value = date2j(s.year, d.month, d.day) - POSTGRES_EPOCH_JDATE
  BY DEF DateComputed
<1> HIDE DEF sn, p
<1>3. yy_doy(sn, p) = Quot(sn, 10^p) /\ lpow(p) # 0
  BY <1>1, PartsThatFit
<1>4. Quot(sn, 10^p) \in MIN(MaxInt32)..MaxInt32 /\ MaxInt32 \in Nat
  BY <1>1, WidthAssumption DEF Fits
<1> DEFINE y == Quot(sn, 10^p)
           k == Quot(y, 1000)
<1>5. y \in Int /\ y <= MaxInt32
  BY <1>4 DEF MIN
<1> HIDE DEF y
<1>6. k \in Int /\ y - k * 1000 < 1000 /\ -(y - k * 1000) < 1000
  BY <1>5, QuotRest
<1> HIDE DEF k
<1>7. s.year = 2000 + k /\ s.doy = y - k * 1000
  BY <1>3 DEF split_yy_doy_2000, y, k
<1>8. s.year \in Int /\ s.doy \in Int /\ s.year < 5874898
  BY <1>4, <1>5, <1>6, <1>7, YearAssumption
<1>9. /\ d.month \in 0..12
      /\ date2j(s.year, d.month, d.day) - POSTGRES_EPOCH_JDATE
           = Jan1(s.year) + (IF Exists(s.year, s.doy) THEN s.doy - 1 ELSE -32)
  BY <1>8, DayNumber, SMTT(30)
<1>10. ~IS_VALID_JULIAN(s.year, d.month) => s.year <= -4713
  BY <1>8, <1>9 DEF IS_VALID_JULIAN
<1>11. \/ /\ call.status = "returned"
          /\ call.value = Jan1(s.year) + (IF Exists(s.year, s.doy) THEN s.doy - 1 ELSE -32)
       \/ call.status = "error" /\ s.year <= -4713
  <2> HIDE DEF s, d
  <2> QED
    BY <1>2, <1>3, <1>9, <1>10
<1>12. s = split_yy_doy_2000(Quot(sn, 10^p))
  BY <1>3
<1> HIDE DEF s
<1> QED
  BY <1>11, <1>12 DEF DateIsDayOfYear, sn, p

LEMMA ComputedIsHalfUp == RoundComputed(call) => HalfUp
<1> SUFFICES ASSUME RoundComputed(call), call.fn \in HalfUpFns, call.status = "returned",
                    call.arg[1][1] >= 0, InRange(call.arg[1], call.arg[2])
             PROVE  LET val == call.arg[1]  p == call.arg[2]
                    IN  call.value = <<(2 * val[1] * 10^p + val[2]) \div (2 * val[2]), 10^p>>
  BY DEF HalfUp, HalfUpFns
<1> DEFINE val == call.arg[1]
           p == call.arg[2]
<1>1. val[1] \in Int /\ val[1] >= 0 /\ val[2] \in Nat \ {0} /\ p \in Int
      /\ call.value = se_round_v1(val, p) /\ InRange(val, p)
  BY DEF RoundComputed
<1> HIDE DEF val, p
<1> QED
  BY <1>1, RoundsHalfUp DEF val, p

LEMMA ComputedIsHalfEven == RoundComputed(call) => HalfEven
<1> SUFFICES ASSUME RoundComputed(call), call.fn \in HalfEvenFns, call.status = "returned",
                    call.arg[1][1] >= 0, InRange(call.arg[1], call.arg[2])
             PROVE  LET val      == call.arg[1]  p == call.arg[2]
                        digit(n) == ((val[1] * 10^p * 10^n) \div val[2]) % 10
                        below    == (val[1] * 10^p) \div val[2]
                        carry    == \/ digit(1) > 5
                                    \/ digit(1) = 5 /\ (digit(2) # 0 \/ digit(0) % 2 = 1)
                    IN  call.value = <<IF carry THEN below + 1 ELSE below, 10^p>>
  BY DEF HalfEven, HalfEvenFns
<1> DEFINE val == call.arg[1]
           p == call.arg[2]
<1>1. val[1] \in Int /\ val[1] >= 0 /\ val[2] \in Nat \ {0} /\ p \in Int
      /\ call.value = se_round_v2(val, p) /\ InRange(val, p)
  BY DEF RoundComputed
<1> HIDE DEF val, p
<1>2. val[1] \in Nat
  BY <1>1
<1> QED
  BY <1>1, <1>2, RoundsHalfEven DEF val, p

LEMMA ComputedIsNear == SizeComputed(call) => ShownIsNear
<1> SUFFICES ASSUME SizeComputed(call), call.fn = "byte_units" PROVE ShownIsNear
  BY DEF ShownIsNear
<1> DEFINE val == call.arg
<1>1. val \in Int /\ val < Kilo^7
  BY DEF SizeComputed
<1>2. PICK index \in current_index(val) :
        LET r == byte_round(val, Kilo^index, Decimals(index))
        IN  IF r.value[1] > 0
              THEN call.status = "returned" /\ call.value = byte_format(r.value, r.precision, index)
              ELSE call.status = "null"
  BY DEF SizeComputed
<1> DEFINE unit == Kilo^index
           dec == Decimals(index)
           r == byte_round(val, unit, dec)
           v == Printed(r.value, r.precision)
<1> HIDE DEF val, r
<1>3. /\ r.value[1] > 0 => /\ call.status = "returned"
                           /\ call.value = byte_format(r.value, r.precision, index)
      /\ ~(r.value[1] > 0) => call.status = "null"
  BY <1>2 DEF r
<1>4. index \in 0..7 /\ unit \in Nat \ {0} /\ dec \in 0..2
  <2>1. index \in 0..7
    <3>1. CASE val <= 0
      BY <3>1 DEF current_index
    <3>2. CASE ~(val <= 0)
      BY <1>1, <3>2, IndexIs
    <3> QED
      BY <3>1, <3>2
  <2> QED
    BY <2>1, UnitsArePositive DEF Decimals
<1>5. CASE val <= 0
  <2>1. r.value[1] \in Int /\ r.value[1] <= 0
    BY <1>1, <1>4, <1>5, NothingToShow DEF r
  <2>2. ~(r.value[1] > 0)
    BY <2>1
  <2>3. call.status = "null" /\ val \notin 1..(Kilo^6 - 3)
    BY <1>3, <1>5, <2>2
  <2> QED
    BY <1>5, <2>3 DEF ShownIsNear, val
<1>6. CASE val > 0
  <2>1. val \in Nat \ {0}
    BY <1>1, <1>6
  <2>2. \/ index \in 0..6 /\ unit <= val /\ val < Kilo^(index + 1)
        \/ index = 6 /\ val \in {Kilo^6 - 2, Kilo^6 - 1}
    BY <1>1, <2>1, IndexIs
  <2>3. Kilo^(index + 1) = unit * Kilo /\ Kilo \in Nat /\ Kilo >= 2
    BY <2>2, RoundingAssumption
  <2>4. unit * Kilo = Kilo * unit /\ unit <= Kilo * unit
    BY <1>4, <2>3
  <2>5. val < Kilo * unit
    BY <1>4, <2>1, <2>2, <2>3, <2>4
  <2>6. /\ r.precision \in {0, dec}
        /\ IsNear(v, r.precision, val, unit)
        /\ unit <= val => r.value[1] > 0 /\ v \in 10^r.precision..(Kilo * 10^r.precision)
        /\ unit >= 4 /\ val \in {unit - 2, unit - 1} /\ dec = 2 => r.value[1] > 0
    BY <1>4, <2>1, <2>5, TextIsNear DEF r
  <2>7. index = 6 => unit >= 4 /\ dec = 2
    <3>1. /\ index = 6 => unit = Kilo^5 * Kilo
          /\ Kilo^5 = Kilo^4 * Kilo /\ Kilo^4 \in Nat \ {0} /\ Kilo^5 \in Nat
      BY RoundingAssumption, UnitsArePositive
    <3>2. \A a \in Nat \ {0} : a * Kilo >= 2
      BY <2>3
    <3>3. \A a \in Nat : a >= 2 => a * Kilo >= 4
      BY <2>3
    <3> QED
      BY <3>1, <3>2, <3>3 DEF Decimals
  <2>8. r.value[1] > 0
    BY <2>2, <2>6, <2>7
  <2>9. call.status = "returned" /\ call.value = byte_format(r.value, r.precision, index)
    BY <1>3, <2>8
  <2>10. ASSUME val \in 1..(Kilo^6 - 3)
         PROVE  /\ Off(1)
                /\ call.value.digits \in 10^call.value.decimals..(Kilo * 10^call.value.decimals)
    <3>1. index \in 0..5 /\ unit <= val
      <4>1. Kilo^6 \in Nat
        BY UnitsArePositive
      <4> QED
        BY <2>2, <2>10, <4>1
    <3>2. /\ call.value.digits = v /\ call.value.decimals = r.precision
          /\ call.value.unit = index
      BY <2>9, <3>1 DEF byte_format
    <3> HIDE DEF v, unit
    <3>3. Off(1)
      <4> DEFINE d == v * unit - val * 10^r.precision
      <4>1. 2 * d <= unit /\ -2 * d <= unit
        BY <2>6 DEF IsNear
      <4>2. 1 * unit = unit
        BY <1>4
      <4>3. d = call.value.digits * Kilo^call.value.unit - call.arg * 10^call.value.decimals
        BY <3>2 DEF unit, val
      <4>4. unit = Kilo^call.value.unit
        BY <3>2 DEF unit
      <4> HIDE DEF d
      <4> QED
        BY <4>1, <4>2, <4>3, <4>4 DEF Off
    <3> QED
      BY <2>6, <3>1, <3>2, <3>3
  <2>11. (call.status = "null") = FALSE /\ (val <= 0) = FALSE
    BY <1>1, <1>6, <2>9
  <2> QED
    BY <2>10, <2>11 DEF ShownIsNear, val
<1> QED
  BY <1>1, <1>5, <1>6

\* Each step's outcome is computed.
LEMMA RoundStepComputed == RoundNext => Computed(call')
<1> SUFFICES ASSUME RoundNext PROVE Computed(call')
  OBVIOUS
<1> USE DEF Computed, DateComputed, RoundComputed, SizeComputed, HalfUpFns, HalfEvenFns, Call
<1>1. ASSUME NEW r \in Roundings, round_v1(r[1], r[2]) PROVE Computed(call')
  BY <1>1, RoundingAssumption DEF round_v1, Round
<1>2. ASSUME NEW r \in Roundings, round_v2(r[1], r[2]) PROVE Computed(call')
  BY <1>2, RoundingAssumption DEF round_v2, Round
<1>3. ASSUME NEW r \in Roundings, round2str_v1(r[1], r[2]) PROVE Computed(call')
  BY <1>3, RoundingAssumption DEF round2str_v1, Format
<1>4. ASSUME NEW r \in Roundings, round2str_v2(r[1], r[2]) PROVE Computed(call')
  BY <1>4, RoundingAssumption DEF round2str_v2, Format
<1>5. ASSUME NEW val \in Sizes, byte_units(val) PROVE Computed(call')
  <2>1. val \in Int /\ val < Kilo^7
    BY RoundingAssumption
  <2>2. PICK index \in current_index(val) :
          LET r == byte_round(val, Kilo^index, Decimals(index))
          IN  call' = IF r.value[1] > 0
                        THEN Call("byte_units", val, "returned",
                                  byte_format(r.value, r.precision, index))
                        ELSE Call("byte_units", val, "null", 0)
    BY <1>5 DEF byte_units
  <2> QED
    BY <2>1, <2>2
<1> QED
  BY <1>1, <1>2, <1>3, <1>4, <1>5 DEF RoundNext

LEMMA SerialStepComputed == Computed(call) /\ Next => Computed(call')
<1> SUFFICES ASSUME Computed(call), Next PROVE Computed(call')
  OBVIOUS
<1>1. ASSUME NEW sn, NEW p, get_yydoy_from_sn(sn, p) \/ get_id_from_sn(sn, p)
      PROVE  Computed(call')
  <2>1. call'.fn \notin ComputedFns
    BY <1>1 DEF get_yydoy_from_sn, get_id_from_sn, Divide, Raise, Call, ComputedFns,
                HalfUpFns, HalfEvenFns
  <2> QED
    BY <2>1, ComputedElsewhere
<1>2. ASSUME NEW sn \in Serials, NEW p \in Precisions, get_date_from_sn(sn, p)
      PROVE  Computed(call')
  <2>1. sn \in Number /\ p \in Int
    BY SerialAssumption DEF Number
  <2> DEFINE s == split_yy_doy_2000(yy_doy(sn, p))
             d == generate_date_ex(s.year, s.doy)
             value == date2j(s.year, d.month, d.day) - POSTGRES_EPOCH_JDATE
  <2>2. \/ /\ call' = Call("get_date_from_sn", <<sn, p>>, "error", 0)
           /\ lpow(p) = 0 \/ ~IS_VALID_JULIAN(s.year, d.month)
        \/ call' = Call("get_date_from_sn", <<sn, p>>, "returned", value)
    BY <1>2 DEF get_date_from_sn, Divide, Raise
  <2> HIDE DEF s, d, value
  <2>3. /\ call'.fn = "get_date_from_sn" /\ call'.arg = <<sn, p>>
        /\ \/ call'.status = "error" /\ (lpow(p) = 0 \/ ~IS_VALID_JULIAN(s.year, d.month))
           \/ call'.status = "returned" /\ call'.value = value
    BY <2>2 DEF Call
  <2>4. DateComputed(call')
    BY <2>1, <2>3 DEF DateComputed, s, d, value
  <2> QED
    BY <2>3, <2>4 DEF Computed, RoundComputed, SizeComputed, HalfUpFns, HalfEvenFns
<1>3. ASSUME NEW s, NEW c, PerCall(s, c) PROVE Computed(call')
  <2>1. call'.fn \notin ComputedFns
    BY <1>3 DEF PerCall, Raise, Call, ComputedFns, HalfUpFns, HalfEvenFns
  <2> QED
    BY <2>1, ComputedElsewhere
<1>4. ASSUME NEW s, NEW arg, get_yydoy_id_from_sn_first(s, arg) PROVE Computed(call')
  BY <1>3, <1>4 DEF get_yydoy_id_from_sn_first
<1>5. ASSUME NEW s, get_yydoy_id_from_sn_next(s) PROVE Computed(call')
  BY <1>3, <1>5 DEF get_yydoy_id_from_sn_next
<1>6. ASSUME NEW s, ShutDown(s) PROVE Computed(call')
  BY <1>6 DEF ShutDown
<1>7. CASE Receive
  <2>1. call'.fn \notin ComputedFns
    BY <1>7 DEF Receive, NoCall, Call, ComputedFns, HalfUpFns, HalfEvenFns
  <2> QED
    BY <2>1, ComputedElsewhere
<1> QED
  BY <1>1, <1>2, <1>4, <1>5, <1>6, <1>7 DEF Next

\* The functions that draw and divide.
LEMMA OtherStepComputed ==
  ASSUME IsCall(call), RandNext \/ CrcNext
  PROVE  Computed(call')
<1> USE DEF ComputedFns, HalfUpFns, HalfEvenFns, Call
<1>1. call'.fn \notin ComputedFns
  <2>1. ASSUME NEW l, NEW f, generate_rand_string(l[1], l[2], f)
        PROVE  call'.fn \notin ComputedFns
    BY <2>1 DEF generate_rand_string
  <2>2. CASE WriteCharacter \/ DivideByte
    BY <2>2 DEF WriteCharacter, DivideByte, Drawing, Dividing, Running
  <2>3. CASE ReturnRandString \/ ReturnCrc
    BY <2>3 DEF ReturnRandString, ReturnCrc, Drawing, Dividing, Running, IsCall
  <2>4. ASSUME NEW t, NEW b, generate_crc32_v1(t, b) PROVE call'.fn \notin ComputedFns
    BY <2>4 DEF generate_crc32_v1
  <2> QED
    BY <2>1, <2>2, <2>3, <2>4 DEF RandNext, CrcNext
<1> QED
  BY <1>1, ComputedElsewhere

LEMMA ComputedIsKept == IInv /\ Computed(call) /\ [SessionNext]_sessionVars => Computed(call)'
<1> SUFFICES ASSUME IInv, Computed(call), [SessionNext]_sessionVars PROVE Computed(call')
  BY DEF Computed, DateComputed, RoundComputed, SizeComputed
<1>1. CASE Next
  BY <1>1, SerialStepComputed
<1>2. CASE RoundNext
  BY <1>2, RoundStepComputed
<1>3. CASE RandNext \/ CrcNext
  BY <1>3, OtherStepComputed DEF IInv
<1>4. CASE UNCHANGED sessionVars
  BY <1>4 DEF sessionVars
<1> QED
  BY <1>1, <1>2, <1>3, <1>4 DEF SessionNext

-----------------------------------------------------------------------------
\* The text as it is drawn.

LengthFits(arg, n) == \E a, b \in {arg[1], arg[2]} : a <= n /\ n <= b

TextDrawn(x) ==
  x.fn = "generate_rand_string" /\ x.status = "returned" =>
    \E n \in Nat : IsText(x.value, n, x.arg[3]) /\ LengthFits(x.arg, n)

\* A call that draws has written whole characters so far, as many as it counts.
Drafted ==
  IF Drawing
    THEN /\ character_count \in Nat /\ LengthFits(call.arg, character_count)
         /\ written \in Nat /\ IsText(buffer, written, call.arg[3])
    ELSE buffer = <<>> /\ written = 0

RandIInv == TextDrawn(call) /\ Drafted

LEMMA InitRandIInv == SessionInit => RandIInv
<1> SUFFICES ASSUME SessionInit PROVE RandIInv
  OBVIOUS
<1>1. call.fn = "none" /\ buffer = <<>> /\ written = 0
  BY DEF SessionInit, Init, NoCall, Call, RandInit
<1> QED
  BY <1>1 DEF RandIInv, TextDrawn, Drafted, Drawing, Running

LEMMA BeginsText ==
  ASSUME RandIInv, Idle, NEW l \in Lengths, NEW f \in Flags,
         generate_rand_string(l[1], l[2], f)
  PROVE  RandIInv'
<1>a. l[1] \in Int /\ l[2] \in Int
  BY RandAssumption
<1>1. PICK low, high : /\ low = IF l[1] > l[2] THEN l[2] ELSE l[1]
                       /\ high = IF l[1] > l[2] THEN l[1] ELSE l[2]
  OBVIOUS
<1>2. buffer' = <<>> /\ written' = 0
  BY DEF RandIInv, Drafted, Drawing, Running, Idle, NoCall, Call, generate_rand_string
<1> DEFINE arg == <<l[1], l[2], f>>
           ok == 1 <= l[1] /\ l[1] <= MaxCount /\ 1 <= l[2] /\ l[2] <= MaxCount
<1>3. IF ok THEN /\ call' = Call("generate_rand_string", arg, "running", 0)
                 /\ character_count' \in RANGE_RANDOM(low, high)
      ELSE call' = Call("generate_rand_string", arg, "error", 0)
  BY <1>1 DEF generate_rand_string
<1>4. CASE ok
  <2>1. low \in Int /\ high \in Int /\ low <= high /\ low >= 1
    BY <1>a, <1>1, <1>4
  <2>2. PICK n \in Nat : n = character_count' /\ low <= n /\ n <= high
    <3>1. RANGE_RANDOM(low, high) \subseteq low..high
      BY <2>1, RangeIsKept
    <3>2. character_count' \in low..high
      BY <1>3, <1>4, <3>1
    <3> QED
      BY <2>1, <3>2
  <2>3. /\ call'.fn = "generate_rand_string" /\ call'.status = "running"
        /\ call'.arg = arg
    BY <1>3, <1>4 DEF Call
  <2>4. LengthFits(call'.arg, n)
    <3>1. arg[1] = l[1] /\ arg[2] = l[2]
      OBVIOUS
    <3>2. low \in {arg[1], arg[2]} /\ high \in {arg[1], arg[2]}
      BY <1>1, <3>1
    <3> QED
      BY <2>2, <2>3, <3>2 DEF LengthFits
  <2>5. IsText(buffer', written', call'.arg[3])
    BY <1>2, NoCharacters
  <2> QED
    BY <1>2, <2>2, <2>3, <2>4, <2>5 DEF RandIInv, TextDrawn, Drafted, Drawing, Running
<1>5. CASE ~ok
  <2>1. call'.status = "error"
    BY <1>3, <1>5 DEF Call
  <2> QED
    BY <1>2, <2>1 DEF RandIInv, TextDrawn, Drafted, Drawing, Running
<1> QED
  BY <1>4, <1>5

LEMMA ContinuesText ==
  ASSUME RandIInv, WriteCharacter
  PROVE  RandIInv'
<1>1. Drawing /\ UNCHANGED <<call, character_count>> /\ written' = written + 1
  BY DEF WriteCharacter
<1>2. PICK kind \in ckeck_flag(call.arg[3]) : \E c \in rand_num_abc_zh(kind) : buffer' = buffer \o c
  BY DEF WriteCharacter
<1>3. PICK c \in rand_num_abc_zh(kind) : buffer' = buffer \o c
  BY <1>2
<1>4. kind \in 0..4 /\ KindsOf(kind) \subseteq Asked(call.arg[3])
  BY FlagIsChecked
<1>5. IsCharacter(c, kind)
  BY <1>4, DrawnIsCharacter
<1>6. written \in Nat /\ IsText(buffer, written, call.arg[3])
  BY <1>1 DEF RandIInv, Drafted
<1>7. IsText(buffer', written', call.arg[3])
  BY <1>1, <1>3, <1>4, <1>5, <1>6, TextGrows
<1>8. written' \in Nat
  BY <1>1, <1>6
<1> QED
  BY <1>1, <1>7, <1>8 DEF RandIInv, TextDrawn, Drafted, Drawing, Running

LEMMA ReturnsText ==
  ASSUME RandIInv, IsCall(call), ReturnRandString
  PROVE  RandIInv'
<1>1. /\ Drawing /\ written = character_count
      /\ call' = [call EXCEPT !.status = "returned", !.value = buffer]
      /\ buffer' = <<>> /\ written' = 0
  BY DEF ReturnRandString
<1>2. call'.status = "returned" /\ call'.value = buffer /\ call'.arg = call.arg
  BY <1>1 DEF IsCall
<1>3. /\ written \in Nat /\ IsText(buffer, written, call.arg[3])
      /\ LengthFits(call.arg, written)
  BY <1>1 DEF RandIInv, Drafted
<1>4. TextDrawn(call')
  BY <1>2, <1>3 DEF TextDrawn
<1> QED
  BY <1>1, <1>2, <1>4 DEF RandIInv, Drafted, Drawing, Running

\* A step of another function, which cannot run at the same time.
LEMMA TextIsLeft ==
  ASSUME RandIInv, UNCHANGED randVars,
         call' = call \/ (~Drawing /\ call'.fn # "generate_rand_string")
  PROVE  RandIInv'
<1>1. UNCHANGED <<buffer, written, character_count>>
  BY DEF randVars
<1>2. CASE call' = call
  BY <1>1, <1>2 DEF RandIInv, TextDrawn, Drafted, Drawing, Running
<1>3. CASE ~Drawing /\ call'.fn # "generate_rand_string"
  BY <1>1, <1>3 DEF RandIInv, TextDrawn, Drafted, Drawing, Running
<1> QED
  BY <1>2, <1>3

\* The functions that take more than a step.
Loops(x) == x.fn \in {"generate_rand_string", "generate_crc32_v1"}

LEMMA StepIsElsewhere ==
  ASSUME IsCall(call), Next \/ RoundNext
  PROVE  call' = call \/ (~Drawing /\ ~Dividing /\ ~Loops(call'))
<1> USE DEF Call, Loops
<1>1. Idle => ~Drawing /\ ~Dividing
  BY DEF Idle, NoCall, Drawing, Dividing, Running
<1>2. CASE Next
  <2>1. ASSUME NEW sn, NEW p, get_yydoy_from_sn(sn, p) \/ get_id_from_sn(sn, p)
        PROVE  ~Loops(call')
    BY <2>1 DEF get_yydoy_from_sn, get_id_from_sn, Divide, Raise
  <2>2. ASSUME NEW sn, NEW p, get_date_from_sn(sn, p)
        PROVE  ~Loops(call')
    BY <2>2 DEF get_date_from_sn, Divide, Raise
  <2>3. ASSUME NEW s, NEW c, PerCall(s, c) PROVE ~Loops(call')
    BY <2>3 DEF PerCall, Raise
  <2>4. ASSUME NEW s, NEW arg, get_yydoy_id_from_sn_first(s, arg)
        PROVE  ~Loops(call')
    BY <2>3, <2>4 DEF get_yydoy_id_from_sn_first
  <2>5. ASSUME NEW s, get_yydoy_id_from_sn_next(s) PROVE ~Loops(call')
    BY <2>3, <2>5 DEF get_yydoy_id_from_sn_next
  <2>6. ASSUME NEW s, ShutDown(s) PROVE call' = call
    BY <2>6 DEF ShutDown
  <2>7. CASE Receive
    BY <2>7 DEF Receive, NoCall, Drawing, Dividing, Running
  <2> QED
    BY <1>1, <1>2, <2>1, <2>2, <2>4, <2>5, <2>6, <2>7 DEF Next
<1>3. CASE RoundNext
  <2>1. ASSUME NEW r, round_v1(r[1], r[2]) \/ round_v2(r[1], r[2])
        PROVE  ~Loops(call')
    BY <2>1 DEF round_v1, round_v2, Round
  <2>2. ASSUME NEW r, round2str_v1(r[1], r[2]) \/ round2str_v2(r[1], r[2])
        PROVE  ~Loops(call')
    BY <2>2 DEF round2str_v1, round2str_v2, Format
  <2>3. ASSUME NEW val, byte_units(val) PROVE ~Loops(call')
    BY <2>3 DEF byte_units
  <2> QED
    BY <1>1, <1>3, <2>1, <2>2, <2>3 DEF RoundNext
<1> QED
  BY <1>2, <1>3

LEMMA CrcDrawsNothing ==
  ASSUME IsCall(call), CrcNext
  PROVE  call' = call \/ (~Drawing /\ call'.fn # "generate_rand_string")
<1> USE DEF Call
<1>1. Idle => ~Drawing
  BY DEF Idle, NoCall, Drawing, Running
<1>2. ASSUME NEW t, NEW b, generate_crc32_v1(t, b) PROVE call'.fn # "generate_rand_string"
  BY <1>2 DEF generate_crc32_v1
<1>3. CASE DivideByte
  BY <1>3 DEF DivideByte
<1>4. CASE ReturnCrc
  BY <1>4 DEF ReturnCrc, Dividing, Drawing, Running, IsCall
<1> QED
  BY <1>1, <1>2, <1>3, <1>4 DEF CrcNext

LEMMA RandDividesNothing ==
  ASSUME IsCall(call), RandNext
  PROVE  call' = call \/ (~Dividing /\ call'.fn # "generate_crc32_v1")
<1> USE DEF Call
<1>1. Idle => ~Dividing
  BY DEF Idle, NoCall, Dividing, Running
<1>2. ASSUME NEW l, NEW f, generate_rand_string(l[1], l[2], f)
      PROVE  call'.fn # "generate_crc32_v1"
  BY <1>2 DEF generate_rand_string
<1>3. CASE WriteCharacter
  BY <1>3 DEF WriteCharacter
<1>4. CASE ReturnRandString
  BY <1>4 DEF ReturnRandString, Dividing, Drawing, Running, IsCall
<1> QED
  BY <1>1, <1>2, <1>3, <1>4 DEF RandNext

LEMMA RandIInvIsKept == IInv /\ RandIInv /\ [SessionNext]_sessionVars => RandIInv'
<1> SUFFICES ASSUME IInv, RandIInv, [SessionNext]_sessionVars PROVE RandIInv'
  OBVIOUS
<1>a. IsCall(call)
  BY DEF IInv
<1>1. CASE (Next \/ RoundNext \/ CrcNext) /\ UNCHANGED randVars
  <2>1. call' = call \/ (~Drawing /\ call'.fn # "generate_rand_string")
    BY <1>a, <1>1, StepIsElsewhere, CrcDrawsNothing DEF Loops
  <2> QED
    BY <1>1, <2>1, TextIsLeft
<1>2. CASE RandNext
  <2>1. ASSUME Idle, NEW l \in Lengths, NEW f \in Flags, generate_rand_string(l[1], l[2], f)
        PROVE  RandIInv'
    BY <2>1, BeginsText
  <2> QED
    BY <1>a, <1>2, <2>1, ContinuesText, ReturnsText DEF RandNext
<1>3. CASE UNCHANGED sessionVars
  BY <1>3, TextIsLeft DEF sessionVars
<1> QED
  BY <1>1, <1>2, <1>3 DEF SessionNext

-----------------------------------------------------------------------------
\* The division as it goes on.

Checked(x) ==
  x.fn = "generate_crc32_v1" /\ x.status # "running" =>
    \E b \in Stray :
      LET all == x.arg \o b
      IN  IF x.status = "null" THEN all = <<>>
          ELSE all # <<>> /\ x.value = XorWord(Remainder(all), Ones)

\* A call that divides has the text and what lies behind it in memory, and in its
\* register what the division of the bytes done leaves.
Divided ==
  IF Dividing
    THEN /\ memory \in Seq(Byte) /\ memory # <<>>
         /\ \E b \in Stray : memory = call.arg \o b
         /\ i \in 0..Len(memory)
         /\ crc = Registers(memory)[i]
    ELSE i = 0 /\ crc = Ones

CrcIInv == Checked(call) /\ Divided

LEMMA InitCrcIInv == SessionInit => CrcIInv
<1> SUFFICES ASSUME SessionInit PROVE CrcIInv
  OBVIOUS
<1>1. call.fn = "none" /\ i = 0 /\ crc = Ones
  BY DEF SessionInit, Init, NoCall, Call, CrcInit
<1> QED
  BY <1>1 DEF CrcIInv, Checked, Divided, Dividing, Running

LEMMA BeginsDivision ==
  ASSUME CrcIInv, Idle, NEW t \in Texts, NEW b \in Stray, generate_crc32_v1(t, b)
  PROVE  CrcIInv'
<1>1. i' = 0 /\ crc' = Ones
  BY DEF CrcIInv, Divided, Dividing, Running, Idle, NoCall, Call, generate_crc32_v1
<1>2. /\ memory' = t \o b
      /\ call' = Call("generate_crc32_v1", t, IF memory' = <<>> THEN "null" ELSE "running", 0)
  BY DEF generate_crc32_v1
<1>3. t \in Seq(Byte) /\ b \in Seq(Byte)
  BY CrcAssumption
<1>4. memory' \in Seq(Byte)
  BY <1>2, <1>3
<1>5. CASE memory' = <<>>
  <2>1. call'.status = "null" /\ call'.arg = t
    BY <1>2, <1>5 DEF Call
  <2>2. Checked(call')
    BY <1>2, <1>5, <2>1 DEF Checked
  <2> QED
    BY <1>1, <2>1, <2>2 DEF CrcIInv, Checked, Divided, Dividing, Running
<1>6. CASE memory' # <<>>
  <2>1. call'.status = "running" /\ call'.arg = t
    BY <1>2, <1>6 DEF Call
  <2>2. Registers(memory')[0] = Ones /\ 0 \in 0..Len(memory')
    BY <1>4, RegistersAre
  <2> QED
    BY <1>1, <1>2, <1>4, <1>6, <2>1, <2>2 DEF CrcIInv, Checked, Divided, Dividing, Running
<1> QED
  BY <1>5, <1>6

LEMMA ContinuesDivision ==
  ASSUME CrcIInv, DivideByte
  PROVE  CrcIInv'
<1>1. /\ Dividing /\ i < Len(memory) /\ crc' = Step(crc, memory[i + 1])
      /\ i' = i + 1 /\ UNCHANGED <<call, memory>>
  BY DEF DivideByte
<1>2. /\ memory \in Seq(Byte) /\ memory # <<>>
      /\ \E b \in Stray : memory = call.arg \o b
      /\ i \in 0..Len(memory)
      /\ crc = Registers(memory)[i]
  BY <1>1 DEF CrcIInv, Divided
<1>3. PICK n \in 1..Len(memory) : n = i + 1 /\ n - 1 = i
  BY <1>1, <1>2
<1>4. crc' = Registers(memory)[n]
  BY <1>1, <1>2, <1>3, RegistersAre
<1>5. i' = n /\ n \in 0..Len(memory)
  BY <1>1, <1>3
<1> QED
  BY <1>1, <1>2, <1>4, <1>5 DEF CrcIInv, Checked, Divided, Dividing, Running

LEMMA EndsDivision ==
  ASSUME CrcIInv, IsCall(call), ReturnCrc
  PROVE  CrcIInv'
<1>1. /\ Dividing /\ i = Len(memory)
      /\ call' = [call EXCEPT !.status = "returned", !.value = XorWord(crc, Ones)]
      /\ i' = 0 /\ crc' = Ones
  BY DEF ReturnCrc
<1>2. /\ call'.status = "returned" /\ call'.arg = call.arg
      /\ call'.value = XorWord(crc, Ones)
  BY <1>1 DEF IsCall
<1>3. PICK b \in Stray : memory = call.arg \o b
  BY <1>1 DEF CrcIInv, Divided
<1>4. memory # <<>> /\ crc = Remainder(memory)
  BY <1>1 DEF CrcIInv, Divided, Remainder
<1>5. Checked(call')
  BY <1>2, <1>3, <1>4 DEF Checked
<1> QED
  BY <1>1, <1>2, <1>5 DEF CrcIInv, Divided, Dividing, Running

\* A step of another function, which cannot run at the same time.
LEMMA DivisionIsLeft ==
  ASSUME CrcIInv, UNCHANGED crcVars,
         call' = call \/ (~Dividing /\ call'.fn # "generate_crc32_v1")
  PROVE  CrcIInv'
<1>1. UNCHANGED <<memory, crc, i>>
  BY DEF crcVars
<1>2. CASE call' = call
  BY <1>1, <1>2 DEF CrcIInv, Checked, Divided, Dividing, Running
<1>3. CASE ~Dividing /\ call'.fn # "generate_crc32_v1"
  BY <1>1, <1>3 DEF CrcIInv, Checked, Divided, Dividing, Running
<1> QED
  BY <1>2, <1>3

LEMMA CrcIInvIsKept == IInv /\ CrcIInv /\ [SessionNext]_sessionVars => CrcIInv'
<1> SUFFICES ASSUME IInv, CrcIInv, [SessionNext]_sessionVars PROVE CrcIInv'
  OBVIOUS
<1>a. IsCall(call)
  BY DEF IInv
<1>1. CASE (Next \/ RoundNext \/ RandNext) /\ UNCHANGED crcVars
  <2>1. call' = call \/ (~Dividing /\ call'.fn # "generate_crc32_v1")
    BY <1>a, <1>1, StepIsElsewhere, RandDividesNothing DEF Loops
  <2> QED
    BY <1>1, <2>1, DivisionIsLeft
<1>2. CASE CrcNext
  <2>1. ASSUME Idle, NEW t \in Texts, NEW b \in Stray, generate_crc32_v1(t, b)
        PROVE  CrcIInv'
    BY <2>1, BeginsDivision
  <2> QED
    BY <1>a, <1>2, <2>1, ContinuesDivision, EndsDivision DEF CrcNext
<1>3. CASE UNCHANGED sessionVars
  BY <1>3, DivisionIsLeft DEF sessionVars
<1> QED
  BY <1>1, <1>2, <1>3 DEF SessionNext

-----------------------------------------------------------------------------

\* The inductive invariant holds in every session.
THEOREM Invariant == SessionSpec => []IInv
BY InitIInv, NextIInv, PTL DEF SessionSpec

\* The outcome of a call and the contexts of the scans keep their types: the
\* number of rows (pg_datetime.c:51) is a uint32, whatever integer was passed.
THEOREM TypeCorrect == SessionSpec => []TypeOK
<1>1. IInv => TypeOK
  BY DEF IInv
<1> QED
  BY <1>1, Invariant, PTL

\* The parts that get_yydoy_from_sn, get_id_from_sn and get_yydoy_id_from_sn
\* return join to the number they were given, for every number and precision.
THEOREM PartsAlwaysJoin == SessionSpec => []PartsJoin
<1>1. IInv => PartsJoin
  BY PartsAreParts DEF IInv
<1> QED
  BY <1>1, Invariant, PTL

\* A scan of get_yydoy_id_from_sn ends after as many rows as were asked for,
\* with any number of scans and of calls of other functions between its rows.
THEOREM ScansSendTheirRows == SessionSpec => []ScanSendsItsRows
<1>1. IInv => ScanSendsItsRows
  BY DEF IInv, Done, ScanSendsItsRows
<1> QED
  BY <1>1, Invariant, PTL

\* Every outcome of a session was computed from its arguments.
LEMMA ComputedInvariant == SessionSpec => []Computed(call)
<1>1. SessionInit => Computed(call)
  BY ComputedElsewhere
     DEF SessionInit, Init, NoCall, Call, ComputedFns, HalfUpFns, HalfEvenFns
<1>2. []IInv /\ Computed(call) /\ [][SessionNext]_sessionVars => []Computed(call)
  BY ComputedIsKept, PTL
<1> QED
  BY <1>1, <1>2, Invariant, PTL DEF SessionSpec

\* get_date_from_sn (se_datetime.c) gives the day of the year that the number
\* names, in every year and for every precision.
THEOREM DatesAreDaysOfYears == SessionSpec => []DateIsDayOfYear
<1>1. Computed(call) => DateIsDayOfYear
  BY ComputedIsDayOfYear DEF Computed
<1> QED
  BY <1>1, ComputedInvariant, PTL

\* round_v1 and round2str_v1 (se_round.c:34-41) return the multiple of 10^-precision
\* that rounding half up gives, for every fraction that is not negative and
\* whose scaled value is an int64.
THEOREM RoundingIsHalfUp == SessionSpec => []HalfUp
<1>1. Computed(call) => HalfUp
  BY ComputedIsHalfUp DEF Computed
<1> QED
  BY <1>1, ComputedInvariant, PTL

\* round_v2 and round2str_v2 (se_round.c:43-80) round a five by the digits on both
\* sides of it, for the same fractions.
THEOREM RoundingIsHalfEven == SessionSpec => []HalfEven
<1>1. Computed(call) => HalfEven
  BY ComputedIsHalfEven DEF Computed
<1> QED
  BY <1>1, ComputedInvariant, PTL

\* byte_units (se_round.c) shows every size up to three bytes below the sixth power
\* to half of the last place, in the largest unit that is in it.
THEOREM SizesAreShownNear == SessionSpec => []ShownIsNear
<1>1. Computed(call) => ShownIsNear
  BY ComputedIsNear DEF Computed
<1> QED
  BY <1>1, ComputedInvariant, PTL

\* The text of generate_rand_string is whole characters as it is drawn.
LEMMA RandInvariant == SessionSpec => []RandIInv
<1>1. []IInv /\ RandIInv /\ [][SessionNext]_sessionVars => []RandIInv
  BY RandIInvIsKept, PTL
<1> QED
  BY <1>1, InitRandIInv, Invariant, PTL DEF SessionSpec

\* generate_rand_string (pg_rand.c) returns characters of the kinds the flag asks
\* for and no others, and at every character each of those kinds can come: no bound
\* of se_rand.c:74 lets a kind in or leaves one out, whatever random() returns.
THEOREM KindsAreAskedFor == SessionSpec => []KindsAsAskedFor
<1>1. RandIInv => OnlyKindsAskedFor
  <2> SUFFICES ASSUME RandIInv, Returned("generate_rand_string")
               PROVE  \A p \in Starts(call.value) \ {Len(call.value) + 1} :
                        KindAt(call.value, p) \in Asked(call.arg[3])
    BY DEF OnlyKindsAskedFor
  <2>1. PICK n \in Nat : IsText(call.value, n, call.arg[3])
    BY DEF RandIInv, TextDrawn, Returned
  <2> QED
    BY <2>1, TextIsRead
<1>2. EveryKindCanCome
  BY KindCanCome DEF EveryKindCanCome
<1>3. RandIInv => KindsAsAskedFor
  BY <1>1, <1>2 DEF KindsAsAskedFor
<1> QED
  BY <1>3, RandInvariant, PTL

\* Its characters are as many as were asked for, in either order of the bounds,
\* none is cut off, and they fit the memory that was allocated (pg_rand.c:35).
THEOREM CharactersAreCounted == SessionSpec => []CharactersAsCounted
<1>1. RandIInv => CharactersAsCounted
  <2> SUFFICES ASSUME RandIInv, Returned("generate_rand_string")
               PROVE  CharactersAsCounted
    BY DEF CharactersAsCounted
  <2>1. PICK n \in Nat : IsText(call.value, n, call.arg[3]) /\ LengthFits(call.arg, n)
    BY DEF RandIInv, TextDrawn, Returned
  <2>2. /\ Cardinality(Starts(call.value)) = n + 1
        /\ Len(call.value) + 1 \in Starts(call.value)
        /\ Len(call.value) <= n * UTF8_MAX_SIZE
    BY <2>1, TextIsRead
  <2>3. Cardinality(Starts(call.value)) - 1 = n
    BY <2>2
  <2> QED
    BY <2>1, <2>2, <2>3 DEF CharactersAsCounted, LengthFits
<1> QED
  BY <1>1, RandInvariant, PTL

\* generate_crc32 (se_std.c) divides as the polynomial says, whatever the table
\* look-ups of its loop: for texts of any length, of any bytes, and whatever lies
\* behind them up to the next 0.
THEOREM CheckSumsAreRemainders == SessionSpec => []CrcIsOfTextAndStray
<1>1. []IInv /\ CrcIInv /\ [][SessionNext]_sessionVars => []CrcIInv
  BY CrcIInvIsKept, PTL
<1>2. CrcIInv => CrcIsOfTextAndStray
  BY DEF CrcIInv, Checked, CrcIsOfTextAndStray
<1> QED
  BY <1>1, <1>2, InitCrcIInv, Invariant, PTL DEF SessionSpec
===============================================================================
