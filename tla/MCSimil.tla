------------------------------ MODULE MCSimil ------------------------------
(***************************************************************************)
(* Simil on all pairs of short strings over a small alphabet.              *)
(***************************************************************************)
EXTENDS Simil

CONSTANT MaxLength

MCStrings == UNION {[1..n -> Bytes] : n \in 0..MaxLength}
=============================================================================
