--------------------------- MODULE MCSplitString ---------------------------
(***************************************************************************)
(* SplitString on small well-formed UTF-8 texts.                           *)
(***************************************************************************)
EXTENDS SplitString, SequencesExt

CONSTANTS Widths, MaxCharacters, LongText

\* The bytes of a character of w bytes: its lead byte, then continuation bytes.
CharacterBytes(w) == <<w>> \o [k \in 1..(w - 1) |-> 1]

\* All texts of up to MaxCharacters characters of the given widths, and one
\* long text of single-byte characters.
WellFormed ==
  {FlattenSeq([k \in DOMAIN ws |-> CharacterBytes(ws[k])]) :
     ws \in UNION {[1..n -> Widths] : n \in 0..MaxCharacters}}

MCTexts == WellFormed \cup {[k \in 1..LongText |-> 1]}

MCSplitSizes == -1..7
=============================================================================
