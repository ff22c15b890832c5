-------------------------------- MODULE LCS --------------------------------
(***************************************************************************)
(* Common subsequences, defined without any algorithm: the reference for   *)
(* simil and same, which both count with a table (simil.c).                *)
(***************************************************************************)
EXTENDS Integers, Sequences

\* The ways to pick n of m places from left to right.
Increasing(n, m) ==
  {f \in [1..n -> 1..m] : \A a, b \in 1..n : a < b => f[a] < f[b]}

\* s can be read off t from left to right, skipping elements.
Embeds(s, t) ==
  \E f \in Increasing(Len(s), Len(t)) : \A a \in 1..Len(s) : s[a] = t[f[a]]

Common(u, s, t) == Embeds(u, s) /\ Embeds(u, t)

\* The first b elements of s and the first a of t have n elements in common.
HaveInCommon(n, s, b, t, a) ==
  \E f \in Increasing(n, b), g \in Increasing(n, a) :
    \A k \in 1..n : s[f[k]] = t[g[k]]

\* n is the length of the longest common subsequence of the first b elements
\* of s and the first a of t.
IsLCSLength(n, s, b, t, a) ==
  /\ n \in 0..a
  /\ HaveInCommon(n, s, b, t, a)
  /\ \A m \in (n + 1)..a : ~HaveInCommon(m, s, b, t, a)
=============================================================================
