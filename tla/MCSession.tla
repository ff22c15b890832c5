------------------------------ MODULE MCSession ------------------------------
(***************************************************************************)
(* Session with the arguments at which its functions change what they do.  *)
(***************************************************************************)
EXTENDS Session, TLC

\* Days at both ends of years and of months and days no year has, with ids,
\* and the ends of int32, int64 and of the years PostgreSQL knows.
MCSerials ==
  {0, 7, 1018001, 18001, 18059, 18060, 18119, 20060, 20366, 19366, 1800107, 1811999, 2036600, 1900000,
   -18001, -5, -1811907, -6713306, -6714001, 100001, 8388607, 8388608, 500000000,
   MaxInt64, MIN(MaxInt64)}
MCPrecisions == {-1, 0, 2, 8, 9}
MCScanArgs == {<<1811999, 2, 2>>, <<18119, 0, -1>>, <<7, 0, 0>>, <<7, -1, 1>>}

MCRoundings ==
  (({<<n, 8>> : n \in -12..44} \cup {<<321, 128>>, <<449, 128>>, <<83, 32>>, <<333, 128>>}) \X {-1, 0, 1, 2})
    \cup ({<<0, 1>>, <<5, 2>>} \X {4, 5}) \cup ({<<600000000, 1>>, <<-600000000, 1>>} \X {0})

\* All sizes up to the end of KB, both sides of every other unit.
MCSizes ==
  (-2..17) \cup {24, 40, 56, 62, 63, 64, 72, 80, 200, 254, 255, 256, 257, 1022, 1023, 1024, 1025}
    \cup {4092, 4093, 4094, 4095, 4096, 4097, 8191}

MCFlags == -1..15
\* 60709 is the highest rest in every range but that of the lengths 1..8.
MCRandoms == {0, 60709}
MCLengths == {<<1, 1>>, <<2, 1>>, <<1, 2>>, <<0, 1>>, <<1, 9>>}

\* Texts whose bytes look up every entry of the table: the first ones each of
\* 128..254, and behind them, in the database's encoding any byte, the others.
MCTexts ==
  LET entries(b, n) == <<b, Xor(Step(Ones, b)[4], n)>>
  IN  {entries(b, b) : b \in 1..127} \cup {entries(97, 0), entries(97, 255), <<>>}
MCStray == {<<>>, <<90>>}

ScanSymmetry == Permutations(Scans)
=============================================================================
