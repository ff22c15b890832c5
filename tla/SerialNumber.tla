----------------------------- MODULE SerialNumber -----------------------------
(***************************************************************************)
(* The functions on serial numbers (pg_datetime.c, se_datetime.c).  A      *)
(* number is made of two digits of a year, three of the day in that year   *)
(* (together: yydoy) and an id of `precision` digits.                      *)
(*                                                                         *)
(* get_yydoy_id_from_sn returns rows: the executor calls it once for each  *)
(* row and once more, and between those calls the backend runs other       *)
(* functions and other scans of the same one.  What a scan knows lives in  *)
(* the function context of its first call.                                 *)
(***************************************************************************)
EXTENDS Backend

CONSTANTS
  Digits,     \* the largest power of ten in an int64 is 10^Digits
  MaxUInt32,  \* the largest uint32
  Serials,    \* the numbers clients ask about
  Precisions, \* the precisions they give
  Scans,      \* the scans a backend has open at most
  ScanArgs    \* the arguments <<sn, precision, n>> of their scans

ASSUME SerialAssumption ==
  /\ Digits \in Nat
  /\ \A p \in 0..Digits : 10^p \in 1..MaxInt64
  /\ MaxUInt32 \in Nat
  /\ Serials \subseteq MIN(MaxInt64)..MaxInt64
  /\ Precisions \subseteq Int
  /\ ScanArgs \subseteq Serials \X Precisions \X Int

\* An int32 has 32 bits: its years stay below the last one PostgreSQL knows.
ASSUME YearAssumption == MaxInt32 <= 2147483647

VARIABLE scan   \* the function context of each scan, Closed before the first call

vars == <<call, scan>>

Closed == [open |-> FALSE, arg |-> <<0, 0, 0>>, call_cntr |-> 0, max_calls |-> 0, rows |-> 0]

Opened(arg, max) == [open |-> TRUE, arg |-> arg, call_cntr |-> 0, max_calls |-> max, rows |-> 0]

-----------------------------------------------------------------------------

\* (int64)powl(10.0, precision): 0 below 1, the most negative number when the
\* power is out of range.
lpow(precision) ==
  IF precision < 0 THEN 0 ELSE IF precision > Digits THEN MIN(MaxInt64) ELSE 10^precision

\* Fault: the quotient is rounded down, not towards zero.
yy_doy_Floor(sn, precision) ==
  IF sn < 0 /\ lpow(precision) > 0
    THEN Wrap(sn \div lpow(precision), MaxInt32) ELSE Wrap(Quot(sn, lpow(precision)), MaxInt32)

\* (int)(yy_doy_id / lpow).
yy_doy(sn, precision) == Wrap(Quot(sn, lpow(precision)), MaxInt32)

\* yy_doy_id - (yy_doy * lpow).
id(sn, precision) == Wrap(sn - yy_doy(sn, precision) * lpow(precision), MaxInt64)

split_yy_doy_2000(yydoy) ==
  [year |-> 2000 + Quot(yydoy, 1000), doy |-> yydoy - Quot(yydoy, 1000) * 1000]

isleap(y) == y % 4 = 0 /\ (y % 100 # 0 \/ y % 400 = 0)

SE_MON_YDAY(y) ==
  IF isleap(y) THEN <<0, 31, 60, 91, 121, 152, 182, 213, 244, 274, 305, 335, 366>>
               ELSE <<0, 31, 59, 90, 120, 151, 181, 212, 243, 273, 304, 334, 365>>

\* Fault: a day is sought below the last one of a month, not up to it.
generate_date_ex_Below(year, doy) ==
  LET last == SE_MON_YDAY(year)
  IN  IF 1 <= doy /\ doy < last[13]
        THEN LET mon == CHOOSE m \in 1..12 : last[m] <= doy /\ doy < last[m + 1]
             IN  [month |-> mon, day |-> doy - last[mon]]
        ELSE [month |-> 0, day |-> 0]

\* The month and the day in it; both 0 for a day the year does not have.
generate_date_ex(year, doy) ==
  LET last == SE_MON_YDAY(year)
  IN  IF doy \in 1..last[13]
        THEN LET mon == CHOOSE m \in 1..12 : last[m] < doy /\ doy <= last[m + 1]
             IN  [month |-> mon, day |-> doy - last[mon]]
        ELSE [month |-> 0, day |-> 0]

\* The validity test of PostgreSQL: 4714-11 BC to 5874898-05.
IS_VALID_JULIAN(y, m) ==
  /\ y > -4713 \/ (y = -4713 /\ m >= 11)
  /\ y < 5874898 \/ (y = 5874898 /\ m < 6)

\* The day number of PostgreSQL, from the year it validates.
date2j(year, month, day) ==
  LET y == IF month > 2 THEN year + 4800 ELSE year + 4799
      m == IF month > 2 THEN month + 1 ELSE month + 13
      c == y \div 100
  IN  y * 365 - 32167 + (y \div 4) - c + (c \div 4) + ((7834 * m) \div 256) + day

POSTGRES_EPOCH_JDATE == 2451545

-----------------------------------------------------------------------------

Init ==
  /\ call = NoCall
  /\ scan = [s \in Scans |-> Closed]

\* ereport(ERROR) aborts the transaction and with it every open scan.
Raise(fn, arg) ==
  /\ call' = Call(fn, arg, "error", 0)
  /\ scan' = [s \in Scans |-> Closed]

\* A function of number and precision that divides by lpow: the processor
\* traps a division by 0, which PostgreSQL turns into an error.
Divide(fn, sn, precision, value) ==
  IF lpow(precision) = 0
    THEN Raise(fn, <<sn, precision>>)
    ELSE /\ call' = Call(fn, <<sn, precision>>, "returned", value)
         /\ UNCHANGED scan

get_yydoy_from_sn(sn, precision) ==
  Divide("get_yydoy_from_sn", sn, precision, yy_doy(sn, precision))

get_id_from_sn(sn, precision) ==
  Divide("get_id_from_sn", sn, precision, id(sn, precision))

get_date_from_sn(sn, precision) ==
  LET s == split_yy_doy_2000(yy_doy(sn, precision))
      d == generate_date_ex(s.year, s.doy)
  IN  IF lpow(precision) # 0 /\ ~IS_VALID_JULIAN(s.year, d.month)
        THEN Raise("get_date_from_sn", <<sn, precision>>)
        ELSE Divide("get_date_from_sn", sn, precision,
                    date2j(s.year, d.month, d.day) - POSTGRES_EPOCH_JDATE)

\* What every call of the set-returning function does with the context c of
\* its scan: one more row, or the end of the scan.
PerCall(s, c) ==
  LET sn == c.arg[1]  precision == c.arg[2]
  IN  IF c.call_cntr < c.max_calls
        THEN IF lpow(precision) = 0
               THEN Raise("get_yydoy_id_from_sn", c.arg)
               ELSE /\ call' = Call("get_yydoy_id_from_sn", c.arg, "returned",
                                    <<yy_doy(sn, precision), id(sn, precision)>>)
                    /\ scan' = [scan EXCEPT ![s] = [c EXCEPT !.call_cntr = @ + 1, !.rows = @ + 1]]
        ELSE /\ call' = Call("get_yydoy_id_from_sn", c.arg, "done", c.rows)
             /\ scan' = [scan EXCEPT ![s] = Closed]

\* Fault: the number of rows is made a uint64.
get_yydoy_id_from_sn_first_Wide(s, arg) ==
  /\ ~scan[s].open
  /\ PerCall(s, Opened(arg, arg[3] % (MaxUInt32 + 1)^2))

\* SRF_IS_FIRSTCALL: a new context, with the number of rows as a uint32.
get_yydoy_id_from_sn_first(s, arg) ==
  /\ ~scan[s].open
  /\ PerCall(s, Opened(arg, arg[3] % (MaxUInt32 + 1)))

\* Fault: the counter is a static variable, which every open scan may have set.
get_yydoy_id_from_sn_next_Static(s) ==
  /\ scan[s].open
  /\ \E t \in Scans :
       scan[t].open /\ PerCall(s, [scan[s] EXCEPT !.call_cntr = scan[t].call_cntr])

get_yydoy_id_from_sn_next(s) ==
  /\ scan[s].open
  /\ PerCall(s, scan[s])

\* The executor needs no more rows (LIMIT, a cursor closed): its callback
\* drops the context.
ShutDown(s) ==
  /\ scan[s].open
  /\ scan' = [scan EXCEPT ![s] = Closed]
  /\ UNCHANGED call

Next ==
  \/ Idle /\ \E sn \in Serials, p \in Precisions :
       get_yydoy_from_sn(sn, p) \/ get_id_from_sn(sn, p) \/ get_date_from_sn(sn, p)
  \/ Idle /\ \E s \in Scans :
       \/ \E arg \in ScanArgs : get_yydoy_id_from_sn_first(s, arg)
       \/ get_yydoy_id_from_sn_next(s)
       \/ ShutDown(s)
  \/ Receive /\ UNCHANGED scan

Spec == Init /\ [][Next]_vars

-----------------------------------------------------------------------------

\* The type invariant: the number of rows of a scan is a uint32.
TypeOK ==
  /\ call.status \in {"idle", "running", "returned", "null", "error", "done"}
  /\ scan \in [Scans -> [open : BOOLEAN, arg : ScanArgs \cup {Closed.arg},
                         call_cntr : Nat, max_calls : 0..MaxUInt32, rows : Nat]]

\* The power is an int64 and the part before the id an int32.
Fits(sn, p) == p \in 0..Digits /\ Quot(sn, 10^p) \in MIN(MaxInt32)..MaxInt32

\* i is less than a unit of the part before it, and has the sign of sn.
IsId(i, sn, p) == i < 10^p /\ -i < 10^p /\ (i > 0 => sn > 0) /\ (i < 0 => sn < 0)

PartFns == {"get_yydoy_from_sn", "get_id_from_sn", "get_yydoy_id_from_sn"}

\* What the functions return of one number are its parts: joined they give
\* the number again, and the id has as many digits as precision says, also
\* for a negative number.  With a precision that no int64 has, all of a number
\* is its id.
PartsJoin ==
  call.status = "returned" /\ call.fn \in PartFns =>
    LET sn == call.arg[1]  p == call.arg[2]  value == call.value
    IN  /\ Fits(sn, p) =>
             /\ call.fn = "get_yydoy_from_sn" => IsId(sn - value * 10^p, sn, p)
             /\ call.fn = "get_id_from_sn" => (sn - value) % 10^p = 0 /\ IsId(value, sn, p)
             /\ call.fn = "get_yydoy_id_from_sn" =>
                  value[1] * 10^p + value[2] = sn /\ IsId(value[2], sn, p)
        /\ p > Digits /\ sn # MIN(MaxInt64) =>
             /\ call.fn = "get_yydoy_from_sn" => value = 0
             /\ call.fn = "get_id_from_sn" => value = sn
             /\ call.fn = "get_yydoy_id_from_sn" => value = <<0, sn>>

\* January 1st of a year, in days from 2000-01-01: the reference calendar.
Jan1(y) ==
  LET leaps(n) == (n \div 4) - (n \div 100) + (n \div 400)
  IN  365 * (y - 2000) + leaps(y - 1) - leaps(1999)

Exists(year, doy) == doy \in 1..(Jan1(year + 1) - Jan1(year))

\* The date of a day its year has is as many days behind January 1st, in
\* leap years too; such a day is refused only in years before 4714 BC.  A day
\* that its year does not have, which no test refuses, is never taken for one
\* of that year: its date is November 30th of the year before.
DateIsDayOfYear ==
  call.fn = "get_date_from_sn" /\ Fits(call.arg[1], call.arg[2]) =>
    LET s == split_yy_doy_2000(Quot(call.arg[1], 10^call.arg[2]))
        behind == IF Exists(s.year, s.doy) THEN s.doy - 1 ELSE -32
    IN  \/ call.status = "returned" /\ call.value = Jan1(s.year) + behind
        \/ call.status = "error" /\ s.year <= -4713

\* However scans of one backend interleave with each other and with other
\* calls, each gives its client as many rows as it was asked for before it
\* says that there are no more.
ScanSendsItsRows ==
  call.status = "done" => call.value = call.arg[3] % (MaxUInt32 + 1)
==============================================================================
