-------------------------------- MODULE Crc32 --------------------------------
(***************************************************************************)
(* generate_crc32_v1 (pg_string.c) and generate_crc32 (se_std.c): a        *)
(* remainder kept in a 32-bit register, one look-up per byte.  The text    *)
(* has a length and no terminator, the loop runs to what strlen finds.     *)
(*                                                                         *)
(* A word is the tuple of its four bytes, the highest first.               *)
(***************************************************************************)
EXTENDS Backend, ByteXor

CONSTANTS
  Texts, \* the texts clients pass, sequences of bytes without 0
  Stray  \* what may lie between the end of a text and the next 0

ASSUME CrcAssumption == Texts \cup Stray \subseteq Seq(Byte \ {0})

VARIABLES
  memory, \* the bytes from the text's first one to the next 0 behind it
  crc,    \* the register
  i       \* the bytes done

crcVars == <<memory, crc, i>>

XorWord(a, b) == <<Xor(a[1], b[1]), Xor(a[2], b[2]), Xor(a[3], b[3]), Xor(a[4], b[4])>>

\* The halves of the entries of CRC32_BASE_TABLES, 16 in a row.
High ==
  << <<    0, 30471, 60942, 39177,  1901, 28778, 59747, 40548,  3803, 31196, 57557, 38866,  2486, 32433, 59320, 37055>>,
     << 7607, 27312, 62393, 33982,  6874, 28125, 62676, 33747,  4972, 25707, 64866, 35429,  5121, 25350, 64015, 36104>>,
     <<15214, 19561, 54624, 41575, 15363, 19204, 53773, 42250, 13749, 17074, 56251, 44220, 13016, 17887, 56534, 43985>>,
     << 9945, 20958, 51415, 49104,  8628, 22195, 53178, 47293, 10242, 24325, 50700, 45323, 12143, 22632, 49505, 46694>>,
     <<30428,   475, 39122, 61397, 29105,  1718, 40895, 59576, 30727,  3840, 38409, 57614, 32618,  2157, 37220, 58979>>,
     <<27499,  7276, 34149, 62050, 27654,  6913, 33288, 62735, 26032,  4791, 35774, 64697, 25309,  5594, 36051, 64468>>,
     <<19890, 15029, 41916, 54459, 19167, 15832, 42193, 54230, 17257, 13422, 44391, 55904, 17412, 13059, 43530, 56589>>,
     <<20485,  9986, 48651, 51468, 22376,  8303, 47462, 52833, 24286, 10713, 45264, 51159, 22963, 11956, 47037, 49338>>,
     <<60856, 39615,   950, 29873, 60117, 40402,  1243, 29660, 58211, 37988,  3437, 31338, 58382, 37641,  2560, 32007>>,
     <<61455, 34568,  7681, 26886, 63330, 32869,  6508, 28267, 65236, 35283,  4314, 26589, 63929, 36542,  6071, 24752>>,
     <<54998, 41425, 14552, 20447, 53691, 42684, 16309, 18610, 55309, 44810, 13827, 16644, 57184, 43111, 12654, 18025>>,
     <<52065, 48230,  9583, 21096, 52236, 47883,  8706, 21765, 50618, 45757, 11188, 23731, 49879, 46544, 11481, 23518>>,
     <<39780, 60515, 30058,   621, 39945, 60174, 29191,  1280, 38335, 58040, 31665,  3254, 37586, 58837, 31964,  3035>>,
     <<34515, 61908, 26845,  8154, 33214, 63161, 28592,  6327, 34824, 65295, 26118,  4353, 36709, 63586, 24939,  5740>>,
     <<40970, 55053, 19972, 14595, 42855, 53344, 18793, 15982, 44753, 55766, 16607, 14296, 43452, 57019, 18354, 12469>>,
     <<48573, 51898, 21427,  9396, 47824, 52695, 21726,  9177, 45926, 50273, 23912, 10863, 46091, 49932, 23045, 11522>> >>

Low ==
  << <<    0, 12438, 24876, 20922, 50201, 62607, 42293, 38307, 34866, 47268, 59678, 55688, 19499, 31933, 11527,  7569>>,
     << 4196,  8434, 29000, 16862, 54397, 58603, 46417, 34247, 38998, 43200, 63866, 51692, 23631, 27865, 15715,  3573>>,
     << 8392,  4190, 16868, 29042, 58577, 54343, 34301, 46443, 43258, 39020, 51670, 63808, 27875, 23669,  3535, 15705>>,
     <<12460,    58, 20864, 24854, 62645, 50211, 38297, 42255, 47262, 34824, 55730, 59684, 31879, 19473,  7595, 11581>>,
     <<16784, 28934,  8380,  4138, 34185, 46367, 58533, 54323, 51618, 63796, 43150, 38936,  3515, 15661, 27799, 23553>>,
     <<20980, 24930, 12504,    78, 38381, 42363, 62657, 50263, 55750, 59728, 47338, 34940,  7647, 11593, 31987, 19557>>,
     <<24920, 20942,   116, 12514, 42305, 38359, 50285, 62715, 59754, 55804, 34886, 47312, 11635,  7653, 19551, 31945>>,
     <<28988, 16810,  4112,  8326, 46373, 34227, 54281, 58527, 63758, 51608, 38946, 43188, 15639,  3457, 23611, 27821>>,
     <<33568, 46006, 57868, 53914, 18233, 30639,  9749,  5763,  2834, 15236, 27198, 23208, 53003, 65437, 44583, 40625>>,
     <<37700, 41938, 62056, 49918, 22365, 26571, 13937,  1767,  7030, 11232, 31322, 19148, 57199, 61433, 48707, 36565>>,
     <<41960, 37758, 49860, 62034, 26609, 22375,  1757, 13899, 11226,  6988, 19190, 31328, 61379, 57173, 36591, 48761>>,
     <<45964, 33562, 53920, 57910, 30613, 18179,  5817,  9775, 15294,  2856, 23186, 27140, 65447, 53041, 40587, 44573>>,
     <<49840, 61990, 41884, 37642,  1705, 13887, 26501, 22291, 19074, 31252, 11182,  6968, 36507, 48653, 61367, 57121>>,
     <<53972, 57922, 46072, 33646,  5837,  9819, 30689, 18295, 23270, 27248, 15306,  2908, 40703, 44649, 65491, 53061>>,
     <<57976, 53998, 33620, 46018,  9825,  5879, 18253, 30683, 27210, 23260,  2918, 15344, 44627, 40645, 53119, 65513>>,
     <<61980, 49802, 37680, 41894, 13829,  1683, 22313, 26559, 31278, 19128,  6914, 11156, 48695, 36513, 57115, 61325>> >>

Entry(rows, n) == rows[(n \div 16) + 1][(n % 16) + 1]

CRC32_BASE_TABLES(n) ==
  <<Entry(High, n) \div 256, Entry(High, n) % 256, Entry(Low, n) \div 256, Entry(Low, n) % 256>>

Ones == <<255, 255, 255, 255>>

\* Fault: the table is looked up with the other end of the register.
Step_HighByte(c, b) == XorWord(<<c[2], c[3], c[4], 0>>, CRC32_BASE_TABLES(Xor(c[1], b)))

\* (crc >> 8) ^ CRC32_BASE_TABLES[(crc ^ b) & 0xFF].
Step(c, b) == XorWord(<<0, c[1], c[2], c[3]>>, CRC32_BASE_TABLES(Xor(c[4], b)))

-----------------------------------------------------------------------------

CrcInit == memory = <<>> /\ crc = Ones /\ i = 0

\* '' is recognised by a first byte of 0, which for '' is the byte behind it.
generate_crc32_v1(text, behind) ==
  /\ memory' = text \o behind
  /\ call' = Call("generate_crc32_v1", text, IF memory' = <<>> THEN "null" ELSE "running", 0)
  /\ UNCHANGED <<crc, i>>

Dividing == Running("generate_crc32_v1")

\* One round of the loop, up to strlen.
DivideByte ==
  /\ Dividing
  /\ i < Len(memory)
  /\ crc' = Step(crc, memory[i + 1])
  /\ i' = i + 1
  /\ UNCHANGED <<call, memory>>

ReturnCrc ==
  /\ Dividing
  /\ i = Len(memory)
  /\ call' = [call EXCEPT !.status = "returned", !.value = XorWord(crc, Ones)]
  /\ memory' = <<>> /\ crc' = Ones /\ i' = 0

CrcNext ==
  \/ Idle /\ \E t \in Texts, b \in Stray : generate_crc32_v1(t, b)
  \/ DivideByte
  \/ ReturnCrc

-----------------------------------------------------------------------------

\* A byte moved down by a bit, below the byte above.
Half(byte, above) == (byte \div 2) + 128 * (above % 2)

Polynomial == <<237, 184, 131, 32>>

\* The register moved down by a bit, and the polynomial subtracted when the bit
\* that left it was 1.
ShiftBit(c) ==
  LET down == <<Half(c[1], 0), Half(c[2], c[1]), Half(c[3], c[2]), Half(c[4], c[3])>>
  IN  IF c[4] % 2 = 1 THEN XorWord(down, Polynomial) ELSE down

ShiftTwice(c) == ShiftBit(ShiftBit(c))

ShiftByte(c) == ShiftTwice(ShiftTwice(ShiftTwice(ShiftTwice(c))))

\* The register of a division by the polynomial, bit by bit, after each byte.
Registers(bytes) ==
  LET after[n \in 0..Len(bytes)] ==
        IF n = 0 THEN Ones
        ELSE LET c == after[n - 1]
             IN  ShiftByte(<<c[1], c[2], c[3], Xor(c[4], bytes[n])>>)
  IN  after

Remainder(bytes) == Registers(bytes)[Len(bytes)]

\* The table divides as a division bit by bit does; what is divided is the text
\* followed by what lies between its end and the next 0 in memory, so that the
\* result depends on the text alone only when a 0 follows it.
CrcIsOfTextAndStray ==
  call.fn = "generate_crc32_v1" /\ call.status # "running" =>
    \E b \in Stray :
      LET all == call.arg \o b
      IN  IF call.status = "null" THEN all = <<>>
          ELSE all # <<>> /\ call.value = XorWord(Remainder(all), Ones)
=============================================================================
