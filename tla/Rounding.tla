------------------------------- MODULE Rounding -------------------------------
(***************************************************************************)
(* round_v1, round_v2, their text forms (pg_round.c) and byte_units        *)
(* (pg_function.c), with the algorithms of se_round.c.                     *)
(*                                                                         *)
(* A float8 is a fraction <<num, den>> whose den is a power of two.  The   *)
(* code calculates in long double, which holds every product here exactly; *)
(* its comparisons with 0.5 and 0.6 come out as those of fractions.        *)
(***************************************************************************)
EXTENDS Backend

CONSTANTS
  FormatLimit, \* the largest precision of a text: 32
  PowLimit,    \* the largest power of ten in a double: 308
  Kilo,        \* 1024
  Roundings,   \* the pairs <<val, precision>> clients round
  Sizes        \* the sizes clients have formatted

\* A fraction has a positive denominator.  The seventh power of Kilo is beyond
\* an int64, and 100 of a unit are not; what is said of the powers themselves
\* holds of every number.
ASSUME RoundingAssumption ==
  /\ PowLimit \in Nat
  /\ \A p \in 0..PowLimit : 10^p \in Nat
  /\ \A r \in Roundings : r[1][1] \in Int /\ r[1][2] \in Nat \ {0} /\ r[2] \in Int
  /\ PowLimit >= 2
  /\ Kilo \in Nat /\ Kilo >= 2 /\ Kilo * 100 <= MaxInt64
  /\ Kilo^0 = 1 /\ \A i \in 0..6 : Kilo^(i + 1) = Kilo^i * Kilo
  /\ \A size \in Sizes : size \in Int /\ size < Kilo^7

\* 10^precision is no number: the precision is too large, or negative and was
\* made a uint32.
Infinite(precision) == precision < 0 \/ precision > PowLimit

\* val * 10^precision, ival and the rest x - ival, all over val's denominator.
Scaled(val, precision) ==
  LET x    == val[1] * 10^precision
      ival == Cast(x, val[2], MaxInt64)
  IN  [x |-> x, ival |-> ival, rest |-> x - ival * val[2], den |-> val[2]]

\* n / 10^precision; what is divided by an infinite ratio is 0.
Unscaled(n, precision) == <<n, 10^precision>>

Zero == <<0, 1>>

\* Fault: a rest of exactly one half is dropped.
se_round_v1_TieDown(val, precision) ==
  LET s == Scaled(val, precision)
  IN  IF Infinite(precision) THEN Zero
      ELSE Unscaled(IF s.rest > s.den - s.rest THEN s.ival + 1 ELSE s.ival, precision)

se_round_v1(val, precision) ==
  LET s == Scaled(val, precision)
  IN  IF Infinite(precision) THEN Zero
      ELSE Unscaled(IF s.rest >= s.den - s.rest THEN s.ival + 1 ELSE s.ival, precision)

\* Fault: only the first digit behind the last one is looked at.
se_round_v2_OneDigit(val, precision) ==
  LET s     == Scaled(val, precision)
      digit == Quot(s.rest * 10, s.den)
  IN  IF Infinite(precision) THEN Zero
      ELSE Unscaled(IF digit > 5 \/ (digit = 5 /\ s.ival % 2 = 1) THEN s.ival + 1 ELSE s.ival,
                    precision)

\* dm: the two digits behind the last one, as an int32.
se_round_v2(val, precision) ==
  LET s    == Scaled(val, precision)
      most == MaxInt32 \div 100
      dm   == IF Quot(s.rest, s.den) \in -most..most THEN Quot(s.rest * 100, s.den)
              ELSE MIN(MaxInt32)
      up   == \/ dm >= 60
              \/ dm > 50
              \/ dm = 50 /\ s.ival % 2 = 1
  IN  IF Infinite(precision) THEN Zero
      ELSE Unscaled(IF up THEN s.ival + 1 ELSE s.ival, precision)

Round(fn, val, precision, result) ==
  call' = Call(fn, <<val, precision>>, "returned", result)

\* se_round_format: no text for more than 32 decimals; the precision is unsigned.
Format(fn, val, precision, result) ==
  IF precision \in 0..FormatLimit
    THEN call' = Call(fn, <<val, precision>>, "returned", result)
    ELSE call' = Call(fn, <<val, precision>>, "null", 0)

round_v1(val, p) == Round("round_v1", val, p, se_round_v1(val, p))
round_v2(val, p) == Round("round_v2", val, p, se_round_v2(val, p))
round2str_v1(val, p) == Format("round2str_v1", val, p, se_round_v1(val, p))
round2str_v2(val, p) == Format("round2str_v2", val, p, se_round_v2(val, p))

-----------------------------------------------------------------------------

\* Fault: the index starts at 1, as for a text of "KB" and above.
current_index_FromOne(val) ==
  IF val <= 0 THEN 0..7 ELSE {CHOOSE i \in 1..7 : val < Kilo^i /\ (i = 1 \/ Kilo^(i - 1) <= val)}

\* (uint32_t)(logl(dval) / logl(1024)), undefined without a logarithm.  One and
\* two bytes below the sixth power a long double has the logarithm of the power
\* itself, and the quotient is 6; at and below the other powers it is exact.
current_index(val) ==
  IF val <= 0 THEN 0..7
  ELSE IF val \in {Kilo^6 - 2, Kilo^6 - 1} THEN {6}
  ELSE {CHOOSE i \in 0..6 : Kilo^i <= val /\ val < Kilo^(i + 1)}

\* The decimals of a unit.
Decimals(index) == IF index > 2 THEN 2 ELSE IF index = 2 THEN 1 ELSE 0

\* The rounded value as a fraction and the decimals to print it with: none when
\* it needed no rounding.
byte_round(num, den, precision) ==
  LET s == Scaled(<<num, den>>, precision)
  IN  IF s.rest = 0
        THEN [value |-> <<num, den>>, precision |-> 0]
        ELSE [value |-> Unscaled(IF s.rest >= den - s.rest THEN s.ival + 1 ELSE s.ival, precision),
              precision |-> precision]

\* snprintf: the fraction in units of the last decimal, a tie to the even one.
Printed(frac, precision) ==
  LET x == frac[1] * 10^precision
      q == x \div frac[2]
      r == x % frac[2]
  IN  IF 2 * r > frac[2] \/ (2 * r = frac[2] /\ q % 2 = 1) THEN q + 1 ELSE q

\* byte_format: digits, decimals and the unit's index, "PB" being the last one.
byte_format(value, precision, index) ==
  [digits |-> Printed(value, precision), decimals |-> precision,
   unit |-> IF index > 5 THEN 5 ELSE index]

byte_units(val) ==
  \E index \in current_index(val) :
    LET r == byte_round(val, Kilo^index, Decimals(index))
    IN  call' = IF r.value[1] > 0
                  THEN Call("byte_units", val, "returned", byte_format(r.value, r.precision, index))
                  ELSE Call("byte_units", val, "null", 0)

RoundNext ==
  \/ Idle /\ \E r \in Roundings :
       \/ round_v1(r[1], r[2])
       \/ round_v2(r[1], r[2])
       \/ round2str_v1(r[1], r[2])
       \/ round2str_v2(r[1], r[2])
  \/ Idle /\ \E val \in Sizes : byte_units(val)

-----------------------------------------------------------------------------

\* What was rounded fits an int64 when it is scaled.
InRange(val, p) == ~Infinite(p) /\ Quot(val[1] * 10^p, val[2]) \in 0..MaxInt64

\* round_v1 and its text round half up: the whole number below the scaled value
\* and one half more, of which the code adds the half by a comparison with
\* what its cast left.
HalfUp ==
  call.fn \in {"round_v1", "round2str_v1"} /\ call.status = "returned" =>
    LET val == call.arg[1]  p == call.arg[2]
    IN  val[1] >= 0 /\ InRange(val, p) =>
          call.value = <<(2 * val[1] * 10^p + val[2]) \div (2 * val[2]), 10^p>>

\* The rule at se_round.c:43-52 and pg_round.md, on the decimals of the number
\* from the last one that stays on: up to 4 is dropped, from 6 on carried, a 5
\* is carried when the next digit is not 0 or the digit before it is odd.
HalfEven ==
  call.fn \in {"round_v2", "round2str_v2"} /\ call.status = "returned" =>
    LET val      == call.arg[1]  p == call.arg[2]
        digit(n) == ((val[1] * 10^p * 10^n) \div val[2]) % 10
        below    == (val[1] * 10^p) \div val[2]
        carry    == digit(1) > 5 \/ (digit(1) = 5 /\ (digit(2) # 0 \/ digit(0) % 2 = 1))
    IN  val[1] >= 0 /\ InRange(val, p) =>
          call.value = <<IF carry THEN below + 1 ELSE below, 10^p>>

\* |digits / 10^decimals * unit - size|, over 10^decimals, is at most bound.
Off(bound) ==
  LET v == call.value
      d == v.digits * Kilo^v.unit - call.arg * 10^v.decimals
  IN  2 * d <= bound * Kilo^v.unit /\ -2 * d <= bound * Kilo^v.unit

\* There is no text for a size of nothing or less, whatever the logarithm of it
\* was taken for, and one for every other.  Up to three bytes below the sixth
\* power, from where on the index is 6, it is right to half of the last place
\* it shows, and its unit is the largest one in the size: from 1 to 1024 of it.
ShownIsNear ==
  call.fn = "byte_units" =>
    /\ (call.status = "null") = (call.arg <= 0)
    /\ call.arg \in 1..(Kilo^6 - 3) =>
         /\ Off(1)
         /\ call.value.digits \in 10^call.value.decimals..(Kilo * 10^call.value.decimals)

\* "to the given number of decimals" (se_round.c:82): the text is right to half of
\* the last of the decimals that its unit has.
RightToItsDecimals ==
  Returned("byte_units") =>
    LET v == call.value
        d == v.digits * Kilo^v.unit - call.arg * 10^v.decimals
        f == 10^(Decimals(v.unit) - v.decimals)
    IN  2 * d * f <= Kilo^v.unit /\ -2 * d * f <= Kilo^v.unit

\* "Rounding" of se_round.h:17 and pg_round.md: the result of round_v1 is at most
\* half a place away from the number.
NearestIsReturned ==
  Returned("round_v1") /\ ~Infinite(call.arg[2]) =>
    LET val == call.arg[1]
        d   == call.value[1] * val[2] - val[1] * call.value[2]
    IN  2 * d <= val[2] /\ -2 * d <= val[2]
=============================================================================
