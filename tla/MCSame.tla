------------------------------- MODULE MCSame -------------------------------
(***************************************************************************)
(* Same on all pairs of short strings over a small alphabet.               *)
(***************************************************************************)
EXTENDS Same

CONSTANTS MaxLength, Shared, TailA, TailB

\* An alphabet of single bytes, and every string of them up to MaxLength.
OneByteCharacters == {<<b>> : b \in Bytes}
OneByteStrings == UNION {[1..n -> Bytes] : n \in 0..MaxLength}

\* Two characters of two bytes with the lead byte in common.
TwoByteCharacters == {<<Shared, TailA>>, <<Shared, TailB>>}
TwoByteStrings == TwoByteCharacters
=============================================================================
