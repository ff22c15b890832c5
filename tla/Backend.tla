------------------------------- MODULE Backend -------------------------------
(***************************************************************************)
(* What the SQL functions have in common: a backend is one thread, so at   *)
(* most one call runs, and C integers have a width.  The functions keep    *)
(* nothing from one call to the next but what a set-returning one asks     *)
(* PostgreSQL to keep for it.                                              *)
(***************************************************************************)
EXTENDS Integers, Sequences

CONSTANTS MaxInt64, MaxInt32   \* the largest int64 and int32

ASSUME WidthAssumption ==
  /\ MaxInt64 \in Nat
  /\ MaxInt32 \in Nat
  /\ MaxInt32 <= MaxInt64

VARIABLE call   \* the call that runs or whose outcome the client has yet to take

\* A call and how it stands: "running", "returned" with a value, "null",
\* "error", or "done" for a set-returning function that has no more rows.
Call(fn, arg, status, value) ==
  [fn |-> fn, arg |-> arg, status |-> status, value |-> value]

NoCall == Call("none", <<>>, "idle", 0)

Idle == call = NoCall

Running(fn) == call.fn = fn /\ call.status = "running"

Returned(fn) == call.fn = fn /\ call.status = "returned"

\* The client takes the outcome, and the backend is free for the next call.
Receive ==
  /\ ~Idle
  /\ call.status # "running"
  /\ call' = NoCall

-----------------------------------------------------------------------------

MIN(max) == -max - 1

\* A result of integer arithmetic in a type of the given width.
Wrap(n, max) == ((n + max + 1) % (2 * (max + 1))) - max - 1

\* Division in C, which truncates towards zero.
Quot(a, b) ==
  LET abs(n) == IF n < 0 THEN -n ELSE n
      q      == abs(a) \div abs(b)
  IN  IF (a < 0) = (b < 0) THEN q ELSE -q

\* The cast of the floating-point number num / den: truncated, and the most
\* negative number when that is out of range.
Cast(num, den, max) ==
  LET n == Quot(num, den)
  IN  IF n \in MIN(max)..max THEN n ELSE MIN(max)
=============================================================================
