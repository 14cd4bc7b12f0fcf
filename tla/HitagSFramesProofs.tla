-------------------------- MODULE HitagSFramesProofs --------------------------
(* Theorems about configuration words, EM4100 frames, replies under a CRC8    *)
(* and responses under a CRC16, for every word, card number and UID.          *)
EXTENDS HitagSFrames, SetInduction, SequenceTheorems

------------------------------------------------------------------------------
(* Sequences as functions.                                                    *)

LEMMA FunIsSeq ==
    ASSUME NEW S, NEW n \in Nat, NEW f \in [1..n -> S]
    PROVE  f \in Seq(S) /\ Len(f) = n
<1>1. f \in Seq(S) BY SeqDef
<1>2. Len(f) \in Nat /\ DOMAIN f = 1..Len(f) BY <1>1, LenProperties
<1>3. 1..Len(f) = 1..n BY <1>2
<1> QED BY <1>1, <1>2, <1>3

LEMMA SeqIsFun ==
    ASSUME NEW S, NEW f \in Seq(S)
    PROVE  Len(f) \in Nat /\ f \in [1..Len(f) -> S]
BY LenProperties

LEMMA ConcatFun ==
    ASSUME NEW S, NEW m \in Nat, NEW n \in Nat,
           NEW s \in [1..m -> S], NEW t \in [1..n -> S]
    PROVE  /\ s \o t \in [1..(m + n) -> S]
           /\ \A i \in 1..m : (s \o t)[i] = s[i]
           /\ \A i \in 1..n : (s \o t)[m + i] = t[i]
<1>1. s \in Seq(S) /\ Len(s) = m BY FunIsSeq
<1>2. t \in Seq(S) /\ Len(t) = n BY FunIsSeq
<1>3. /\ s \o t \in Seq(S) /\ Len(s \o t) = m + n
      /\ \A i \in 1..(m + n) : (s \o t)[i] = IF i <= m THEN s[i] ELSE t[i - m]
  BY <1>1, <1>2, ConcatProperties
<1>4. s \o t \in [1..(m + n) -> S] BY <1>3, SeqIsFun
<1>5. ASSUME NEW i \in 1..m PROVE (s \o t)[i] = s[i]
  <2>1. i \in 1..(m + n) /\ i <= m OBVIOUS
  <2> QED BY <1>3, <2>1
<1>6. ASSUME NEW i \in 1..n PROVE (s \o t)[m + i] = t[i]
  <2>1. m + i \in 1..(m + n) /\ ~(m + i <= m) /\ (m + i) - m = i OBVIOUS
  <2> QED BY <1>3, <2>1
<1> QED BY <1>4, <1>5, <1>6

LEMMA SubSeqFun ==
    ASSUME NEW S, NEW l \in Nat, NEW s \in [1..l -> S],
           NEW m \in Nat, NEW n \in Nat, 1 <= m, m <= n, n <= l
    PROVE  /\ SubSeq(s, m, n) = [i \in 1..(n - m + 1) |-> s[m + i - 1]]
           /\ SubSeq(s, m, n) \in [1..(n - m + 1) -> S]
<1>1. m \in Int /\ n \in Int /\ \A i \in m..n : s[i] \in S OBVIOUS
<1>2. /\ SubSeq(s, m, n) \in Seq(S)
      /\ Len(SubSeq(s, m, n)) = n - m + 1
      /\ \A i \in 1..(n - m + 1) : SubSeq(s, m, n)[i] = s[m + i - 1]
  BY <1>1, SubSeqProperties
<1>3. SubSeq(s, m, n) \in [1..(n - m + 1) -> S] BY <1>2, SeqIsFun
<1> QED BY <1>2, <1>3

------------------------------------------------------------------------------
(* Bytes and their bits.                                                      *)

LEMMA Powers ==
    /\ 2^0 = 1 /\ 2^1 = 2 /\ 2^2 = 4 /\ 2^3 = 8
    /\ 2^4 = 16 /\ 2^5 = 32 /\ 2^6 = 64 /\ 2^7 = 128
OBVIOUS

\* The eight bits of a byte.
LEMMA BitsOfByte ==
    ASSUME NEW b \in Byte
    PROVE  /\ BitOf(b, 0) = b % 2
           /\ BitOf(b, 1) = (b \div 2) % 2
           /\ BitOf(b, 2) = (b \div 4) % 2
           /\ BitOf(b, 3) = (b \div 8) % 2
           /\ BitOf(b, 4) = (b \div 16) % 2
           /\ BitOf(b, 5) = (b \div 32) % 2
           /\ BitOf(b, 6) = (b \div 64) % 2
           /\ BitOf(b, 7) = (b \div 128) % 2
<1>1. b \div 1 = b BY DEF Byte
<1> QED BY <1>1, Powers DEF BitOf, Byte

LEMMA BitIsBit ==
    ASSUME NEW b \in Byte, NEW i \in 0..7
    PROVE  BitOf(b, i) \in Bit
<1>1. i = 0 \/ i = 1 \/ i = 2 \/ i = 3 \/ i = 4 \/ i = 5 \/ i = 6 \/ i = 7 OBVIOUS
<1>2. \A x \in Int : x % 2 \in Bit BY DEF Bit
<1>3. b \in Int BY DEF Byte
<1> QED BY <1>1, <1>2, <1>3, BitsOfByte

\* A byte is the sum of its bits.
LEMMA ByteIsItsBits ==
    ASSUME NEW b \in Byte
    PROVE  b = BitOf(b, 0) + 2 * BitOf(b, 1) + 4 * BitOf(b, 2) + 8 * BitOf(b, 3)
               + 16 * BitOf(b, 4) + 32 * BitOf(b, 5) + 64 * BitOf(b, 6) + 128 * BitOf(b, 7)
BY BitsOfByte DEF Byte

\* Eight bits make a byte with these bits.
LEMMA ByteOfBits ==
    ASSUME NEW b0 \in Bit, NEW b1 \in Bit, NEW b2 \in Bit, NEW b3 \in Bit,
           NEW b4 \in Bit, NEW b5 \in Bit, NEW b6 \in Bit, NEW b7 \in Bit
    PROVE  128 * b7 + 64 * b6 + 32 * b5 + 16 * b4 + 8 * b3 + 4 * b2 + 2 * b1 + b0 \in Byte
BY DEF Bit, Byte

LEMMA ByteAtIsByte ==
    ASSUME NEW n \in Nat, NEW f \in [1..n -> Bit], NEW k \in 1..n, k + 7 <= n
    PROVE  ByteAt(f, k) \in Byte
<1>1. \A i \in 0..7 : f[k + i] \in Bit OBVIOUS
<1>2. /\ f[k] \in Bit /\ f[k + 1] \in Bit /\ f[k + 2] \in Bit /\ f[k + 3] \in Bit
      /\ f[k + 4] \in Bit /\ f[k + 5] \in Bit /\ f[k + 6] \in Bit /\ f[k + 7] \in Bit
  BY <1>1
<1> QED BY <1>2, ByteOfBits DEF ByteAt

LEMMA WordAtIsWord ==
    ASSUME NEW n \in Nat, n >= 32, NEW f \in [1..n -> Bit]
    PROVE  WordAt(f, 1) \in Word
<1>1. \A k \in 1..4 : 1 + 8 * (k - 1) \in 1..n /\ 1 + 8 * (k - 1) + 7 <= n OBVIOUS
<1>2. \A k \in 1..4 : ByteAt(f, 1 + 8 * (k - 1)) \in Byte BY <1>1, ByteAtIsByte
<1> QED BY <1>2 DEF WordAt, Word

\* The bits of a word, byte by byte.
LEMMA WordBitsFacts ==
    ASSUME NEW w \in Word
    PROVE  /\ WordBits(w) \in [1..32 -> Bit]
           /\ \A k \in 1..4, j \in 1..8 : WordBits(w)[8 * (k - 1) + j] = BitOf(w[k], 8 - j)
<1>1. ASSUME NEW i \in 1..32 PROVE BitOf(w[((i - 1) \div 8) + 1], 7 - ((i - 1) % 8)) \in Bit
  <2>1. ((i - 1) \div 8) + 1 \in 1..4 /\ 7 - ((i - 1) % 8) \in 0..7 OBVIOUS
  <2>2. w[((i - 1) \div 8) + 1] \in Byte BY <2>1 DEF Word
  <2> QED BY <2>1, <2>2, BitIsBit
<1>2. ASSUME NEW k \in 1..4, NEW j \in 1..8
      PROVE  WordBits(w)[8 * (k - 1) + j] = BitOf(w[k], 8 - j)
  <2> DEFINE i == 8 * (k - 1) + j
  <2>1. i \in 1..32 /\ ((i - 1) \div 8) + 1 = k /\ 7 - ((i - 1) % 8) = 8 - j OBVIOUS
  <2> HIDE DEF i
  <2>2. WordBits(w)[i] = BitOf(w[((i - 1) \div 8) + 1], 7 - ((i - 1) % 8))
    BY <2>1 DEF WordBits
  <2> QED BY <2>1, <2>2 DEF i
<1> QED BY <1>1, <1>2 DEF WordBits

\* Eight bits that are those of a byte make that byte.
LEMMA ByteAtBits ==
    ASSUME NEW f, NEW p \in Nat, NEW b \in Byte,
           \A j \in 1..8 : f[p + j] = BitOf(b, 8 - j)
    PROVE  ByteAt(f, p + 1) = b
<1>1. /\ f[p + 1] = BitOf(b, 7) /\ f[p + 2] = BitOf(b, 6) /\ f[p + 3] = BitOf(b, 5)
      /\ f[p + 4] = BitOf(b, 4) /\ f[p + 5] = BitOf(b, 3) /\ f[p + 6] = BitOf(b, 2)
      /\ f[p + 7] = BitOf(b, 1) /\ f[p + 8] = BitOf(b, 0)
  OBVIOUS
<1>2. /\ p + 1 + 1 = p + 2 /\ p + 1 + 2 = p + 3 /\ p + 1 + 3 = p + 4 /\ p + 1 + 4 = p + 5
      /\ p + 1 + 5 = p + 6 /\ p + 1 + 6 = p + 7 /\ p + 1 + 7 = p + 8
  OBVIOUS
<1>3. ByteAt(f, p + 1) =
        128 * BitOf(b, 7) + 64 * BitOf(b, 6) + 32 * BitOf(b, 5) + 16 * BitOf(b, 4)
        + 8 * BitOf(b, 3) + 4 * BitOf(b, 2) + 2 * BitOf(b, 1) + BitOf(b, 0)
  BY <1>1, <1>2 DEF ByteAt
<1>4. \A i \in 0..7 : BitOf(b, i) \in Bit BY BitIsBit
<1> QED BY <1>3, <1>4, ByteIsItsBits DEF Bit

\* A frame that starts with the bits of a word carries that word.
LEMMA WordAtWordBits ==
    ASSUME NEW w \in Word, NEW f, \A i \in 1..32 : f[i] = WordBits(w)[i]
    PROVE  WordAt(f, 1) = w
<1>1. ASSUME NEW k \in 1..4 PROVE ByteAt(f, 1 + 8 * (k - 1)) = w[k]
  <2>1. \A j \in 1..8 : 8 * (k - 1) + j \in 1..32 OBVIOUS
  <2>2. \A j \in 1..8 : f[8 * (k - 1) + j] = BitOf(w[k], 8 - j)
    BY <2>1, WordBitsFacts
  <2>3. w[k] \in Byte /\ 8 * (k - 1) \in Nat BY DEF Word
  <2>4. ByteAt(f, 8 * (k - 1) + 1) = w[k] BY <2>2, <2>3, ByteAtBits
  <2>5. 8 * (k - 1) + 1 = 1 + 8 * (k - 1) OBVIOUS
  <2> QED BY <2>4, <2>5
<1>2. WordAt(f, 1) = [k \in 1..4 |-> w[k]] BY <1>1 DEF WordAt
<1> QED BY <1>2 DEF Word

------------------------------------------------------------------------------
(* Configuration words.                                                       *)

LEMMA MaxIs ==
    ASSUME NEW S \in SUBSET Int, NEW m \in S, \A y \in S : y <= m
    PROVE  Max(S) = m
<1>1. \A y \in S : m >= y OBVIOUS
<1>2. \A x \in S : (\A y \in S : x >= y) => x = m OBVIOUS
<1> QED BY <1>1, <1>2 DEF Max

\* The limits of the lock bits, one by one.
LEMMA LockLimits ==
    /\ LockLimit[0] = 63 /\ LockLimit[1] = 47 /\ LockLimit[2] = 31 /\ LockLimit[3] = 23
    /\ LockLimit[4] = 15 /\ LockLimit[5] = 11 /\ LockLimit[6] = 7 /\ LockLimit[7] = 5
BY DEF LockLimit

LEMMA DocumentedGroups ==
    /\ DocumentedGroup[0] = 48..63 /\ DocumentedGroup[1] = 32..47
    /\ DocumentedGroup[2] = 24..31 /\ DocumentedGroup[3] = 16..23
    /\ DocumentedGroup[4] = 12..15 /\ DocumentedGroup[5] = 8..11
    /\ DocumentedGroup[6] = 6..7   /\ DocumentedGroup[7] = 4..5
BY DEF DocumentedGroup

\* The comparisons of the code cut the pages where the comments say.
LEMMA LockBitOfPage ==
    ASSUME NEW p \in 4..63
    PROVE  LockBit(p) \in 0..7 /\ \A k \in 0..7 : p \in DocumentedGroup[k] <=> LockBit(p) = k
<1> DEFINE S == {k \in 0..7 : p <= LockLimit[k]}
<1>1. S \in SUBSET Int /\ LockBit(p) = Max(S) BY DEF LockBit
<1>2. ASSUME NEW m \in 0..7, p <= LockLimit[m], \A k \in 0..7 : k > m => ~(p <= LockLimit[k])
      PROVE  LockBit(p) = m
  <2>1. m \in S BY <1>2
  <2>2. \A y \in S : y <= m BY <1>2
  <2> HIDE DEF S
  <2> QED BY <1>1, <2>1, <2>2, MaxIs
<1> HIDE DEF S
<1>3. \A k \in 0..7 : k = 0 \/ k = 1 \/ k = 2 \/ k = 3 \/ k = 4 \/ k = 5 \/ k = 6 \/ k = 7
  OBVIOUS
<1>4. CASE p \in 48..63
  <2>1. LockBit(p) = 0 BY <1>2, <1>3, <1>4, LockLimits
  <2> QED BY <1>3, <1>4, <2>1, DocumentedGroups
<1>5. CASE p \in 32..47
  <2>1. LockBit(p) = 1 BY <1>2, <1>3, <1>5, LockLimits
  <2> QED BY <1>3, <1>5, <2>1, DocumentedGroups
<1>6. CASE p \in 24..31
  <2>1. LockBit(p) = 2 BY <1>2, <1>3, <1>6, LockLimits
  <2> QED BY <1>3, <1>6, <2>1, DocumentedGroups
<1>7. CASE p \in 16..23
  <2>1. LockBit(p) = 3 BY <1>2, <1>3, <1>7, LockLimits
  <2> QED BY <1>3, <1>7, <2>1, DocumentedGroups
<1>8. CASE p \in 12..15
  <2>1. LockBit(p) = 4 BY <1>2, <1>3, <1>8, LockLimits
  <2> QED BY <1>3, <1>8, <2>1, DocumentedGroups
<1>9. CASE p \in 8..11
  <2>1. LockBit(p) = 5 BY <1>2, <1>3, <1>9, LockLimits
  <2> QED BY <1>3, <1>9, <2>1, DocumentedGroups
<1>10. CASE p \in 6..7
  <2>1. LockBit(p) = 6 BY <1>2, <1>3, <1>10, LockLimits
  <2> QED BY <1>3, <1>10, <2>1, DocumentedGroups
<1>11. CASE p \in 4..5
  <2>1. LockBit(p) = 7 BY <1>2, <1>3, <1>11, LockLimits
  <2> QED BY <1>3, <1>11, <2>1, DocumentedGroups
<1> QED BY <1>4, <1>5, <1>6, <1>7, <1>8, <1>9, <1>10, <1>11

\* The fields of a word.
LEMMA ParseFields ==
    ASSUME NEW w \in Word
    PROVE  /\ Parse(w) \in Config
           /\ Parse(w).MEMT = w[1] % 4
           /\ \A i \in 0..5 : Parse(w).RES[i] = BitOf(w[1], i + 2)
           /\ Parse(w).LKP = BitOf(w[2], 0) /\ Parse(w).LCON = BitOf(w[2], 1)
           /\ Parse(w).TTFM = (w[2] \div 4) % 4 /\ Parse(w).TTFDR = (w[2] \div 16) % 4
           /\ Parse(w).TTFC = BitOf(w[2], 6) /\ Parse(w).auth = BitOf(w[2], 7)
           /\ \A i \in 0..7 : Parse(w).LCK[i] = BitOf(w[3], i)
           /\ Parse(w).pwdh0 = w[4]
<1>1. w[1] \in Byte /\ w[2] \in Byte /\ w[3] \in Byte /\ w[4] \in Byte BY DEF Word
<1>2. /\ w[1] % 4 \in 0..3 /\ (w[2] \div 4) % 4 \in 0..3 /\ (w[2] \div 16) % 4 \in 0..3
  BY <1>1 DEF Byte
<1>3. [i \in 0..5 |-> BitOf(w[1], i + 2)] \in [0..5 -> Bit]
  <2>1. \A i \in 0..5 : i + 2 \in 0..7 OBVIOUS
  <2>2. \A i \in 0..5 : BitOf(w[1], i + 2) \in Bit BY <1>1, <2>1, BitIsBit
  <2> QED BY <2>2
<1>4. [i \in 0..7 |-> BitOf(w[3], i)] \in [0..7 -> Bit] BY <1>1, BitIsBit
<1>5. BitOf(w[2], 0) \in Bit /\ BitOf(w[2], 1) \in Bit /\ BitOf(w[2], 6) \in Bit
      /\ BitOf(w[2], 7) \in Bit
  BY <1>1, BitIsBit
<1>6. Parse(w) \in Config BY <1>1, <1>2, <1>3, <1>4, <1>5 DEF Parse, Config
<1> QED BY <1>6 DEF Parse

\* Packing what was parsed loses nothing.
LEMMA PackAfterParse ==
    ASSUME NEW w \in Word
    PROVE  Pack(Parse(w)) = w
<1> DEFINE c == Parse(w)
<1>1. w[1] \in Byte /\ w[2] \in Byte /\ w[3] \in Byte /\ w[4] \in Byte BY DEF Word
<1>2. \A i \in 0..5 : c.RES[i] = BitOf(w[1], i + 2) BY ParseFields
<1>3. /\ c.RES[0] = BitOf(w[1], 2) /\ c.RES[1] = BitOf(w[1], 3) /\ c.RES[2] = BitOf(w[1], 4)
      /\ c.RES[3] = BitOf(w[1], 5) /\ c.RES[4] = BitOf(w[1], 6) /\ c.RES[5] = BitOf(w[1], 7)
  BY <1>2
<1>4. \A i \in 0..7 : c.LCK[i] = BitOf(w[3], i) BY ParseFields
<1>5. /\ c.MEMT = w[1] % 4 /\ c.LKP = BitOf(w[2], 0) /\ c.LCON = BitOf(w[2], 1)
      /\ c.TTFM = (w[2] \div 4) % 4 /\ c.TTFDR = (w[2] \div 16) % 4
      /\ c.TTFC = BitOf(w[2], 6) /\ c.auth = BitOf(w[2], 7) /\ c.pwdh0 = w[4]
  BY ParseFields
<1> HIDE DEF c
<1>6. Con0(c) = w[1] BY <1>1, <1>3, <1>5, BitsOfByte DEF Con0, Byte
<1>7. Con1(c) = w[2] BY <1>1, <1>5, BitsOfByte DEF Con1, Byte
<1>8. Con2(c) = w[3]
  <2>1. Con2(c) = BitOf(w[3], 0) + 2 * BitOf(w[3], 1) + 4 * BitOf(w[3], 2) + 8 * BitOf(w[3], 3)
             + 16 * BitOf(w[3], 4) + 32 * BitOf(w[3], 5) + 64 * BitOf(w[3], 6)
             + 128 * BitOf(w[3], 7)
    BY <1>4 DEF Con2
  <2> QED BY <1>1, <2>1, ByteIsItsBits
<1>9. Pack(c) = <<w[1], w[2], w[3], w[4]>> BY <1>5, <1>6, <1>7, <1>8 DEF Pack
<1>10. w = <<w[1], w[2], w[3], w[4]>> BY DEF Word
<1> QED BY <1>9, <1>10 DEF c

\* Which bit of a word guards a page.
LEMMA WritableBits ==
    ASSUME NEW w \in Word
    PROVE  /\ PageWritable(w, 0)
           /\ PageWritable(w, 1) <=> BitOf(w[2], 1) = 0
           /\ \A p \in {2, 3} : PageWritable(w, p) <=> BitOf(w[2], 0) = 0
           /\ \A p \in 4..63 : PageWritable(w, p) <=> BitOf(w[3], LockBit(p)) # 1
<1>1. PageWritable(w, 0) BY DEF PageWritable
<1>2. PageWritable(w, 1) <=> BitOf(w[2], 1) = 0 BY ParseFields DEF PageWritable
<1>3. \A p \in {2, 3} : PageWritable(w, p) <=> BitOf(w[2], 0) = 0
  BY ParseFields DEF PageWritable
<1>4. ASSUME NEW p \in 4..63
      PROVE  PageWritable(w, p) <=> BitOf(w[3], LockBit(p)) # 1
  <2>1. p # 0 /\ p # 1 /\ p \notin {2, 3} OBVIOUS
  <2>2. PageWritable(w, p) <=> ~PageLocked(Parse(w), p) BY <2>1 DEF PageWritable
  <2>3. PageLocked(Parse(w), p) <=> Parse(w).LCK[LockBit(p)] = 1 BY DEF PageLocked
  <2>4. Parse(w).LCK[LockBit(p)] = BitOf(w[3], LockBit(p)) BY LockBitOfPage, ParseFields
  <2> QED BY <2>2, <2>3, <2>4
<1> QED BY <1>1, <1>2, <1>3, <1>4

\* The bits of the word a frame carries are the bits of the frame.
LEMMA WordAtBit ==
    ASSUME NEW f \in [1..32 -> Bit], NEW k \in 1..4, NEW j \in 1..8
    PROVE  BitOf(WordAt(f, 1)[k], 8 - j) = f[8 * (k - 1) + j]
<1> DEFINE q == 1 + 8 * (k - 1)
           b == ByteAt(f, q)
<1>1. WordAt(f, 1)[k] = b BY DEF WordAt
<1>2. q \in 1..25 /\ \A i \in 0..7 : q + i \in 1..32 OBVIOUS
<1>3. 8 * (k - 1) + j = q + (j - 1) OBVIOUS
<1> HIDE DEF q
<1>4. \A i \in 0..7 : f[q + i] \in Bit BY <1>2
<1>5. q + 0 = q BY <1>2
<1>6. /\ f[q] \in Bit /\ f[q + 1] \in Bit /\ f[q + 2] \in Bit /\ f[q + 3] \in Bit
      /\ f[q + 4] \in Bit /\ f[q + 5] \in Bit /\ f[q + 6] \in Bit /\ f[q + 7] \in Bit
  BY <1>4, <1>5
<1>7. b = 128 * f[q] + 64 * f[q + 1] + 32 * f[q + 2] + 16 * f[q + 3]
          + 8 * f[q + 4] + 4 * f[q + 5] + 2 * f[q + 6] + f[q + 7]
  BY DEF ByteAt
<1> HIDE DEF b
<1>8. PICK x0 \in Bit, x1 \in Bit, x2 \in Bit, x3 \in Bit,
            x4 \in Bit, x5 \in Bit, x6 \in Bit, x7 \in Bit :
            /\ f[q] = x7 /\ f[q + 1] = x6 /\ f[q + 2] = x5 /\ f[q + 3] = x4
            /\ f[q + 4] = x3 /\ f[q + 5] = x2 /\ f[q + 6] = x1 /\ f[q + 7] = x0
  BY <1>6
<1>9. b = 128 * x7 + 64 * x6 + 32 * x5 + 16 * x4 + 8 * x3 + 4 * x2 + 2 * x1 + x0
  BY <1>7, <1>8
<1>10. /\ b \in Byte
       /\ b % 2 = x0 /\ (b \div 2) % 2 = x1 /\ (b \div 4) % 2 = x2 /\ (b \div 8) % 2 = x3
       /\ (b \div 16) % 2 = x4 /\ (b \div 32) % 2 = x5 /\ (b \div 64) % 2 = x6
       /\ (b \div 128) % 2 = x7
  BY <1>9 DEF Bit, Byte
<1>11. /\ BitOf(b, 0) = f[q + 7] /\ BitOf(b, 1) = f[q + 6] /\ BitOf(b, 2) = f[q + 5]
      /\ BitOf(b, 3) = f[q + 4] /\ BitOf(b, 4) = f[q + 3] /\ BitOf(b, 5) = f[q + 2]
      /\ BitOf(b, 6) = f[q + 1] /\ BitOf(b, 7) = f[q]
  BY <1>8, <1>10, BitsOfByte
<1>12. j = 1 \/ j = 2 \/ j = 3 \/ j = 4 \/ j = 5 \/ j = 6 \/ j = 7 \/ j = 8 OBVIOUS
<1>13. BitOf(b, 8 - j) = f[q + (j - 1)] BY <1>5, <1>11, <1>12
<1> QED BY <1>1, <1>3, <1>13

\* Which bit of the frame guards a page.
LEMMA WritableFrameBits ==
    ASSUME NEW f \in [1..32 -> Bit]
    PROVE  /\ PageWritable(WordAt(f, 1), 0)
           /\ PageWritable(WordAt(f, 1), 1) <=> f[15] = 0
           /\ \A p \in {2, 3} : PageWritable(WordAt(f, 1), p) <=> f[16] = 0
           /\ \A p \in 4..63 : PageWritable(WordAt(f, 1), p) <=> f[24 - LockBit(p)] # 1
<1> DEFINE w == WordAt(f, 1)
<1>1. w \in Word
  <2>1. 32 \in Nat /\ 32 >= 32 OBVIOUS
  <2> QED BY <2>1, WordAtIsWord
<1>2. \A k \in 1..4, j \in 1..8 : BitOf(w[k], 8 - j) = f[8 * (k - 1) + j] BY WordAtBit
<1> HIDE DEF w
<1>3. BitOf(w[2], 8 - 7) = f[8 * (2 - 1) + 7] /\ BitOf(w[2], 8 - 8) = f[8 * (2 - 1) + 8]
  BY <1>2
<1>4. BitOf(w[2], 1) = f[15] /\ BitOf(w[2], 0) = f[16] BY <1>3
<1>5. ASSUME NEW k \in 0..7 PROVE BitOf(w[3], k) = f[24 - k]
  <2>1. 8 - k \in 1..8 /\ 8 - (8 - k) = k /\ 8 * (3 - 1) + (8 - k) = 24 - k OBVIOUS
  <2>2. BitOf(w[3], 8 - (8 - k)) = f[8 * (3 - 1) + (8 - k)] BY <1>2, <2>1
  <2> QED BY <2>1, <2>2
<1>6. \A p \in 4..63 : BitOf(w[3], LockBit(p)) = f[24 - LockBit(p)] BY <1>5, LockBitOfPage
<1> QED BY <1>1, <1>4, <1>6, WritableBits DEF w

\* What the TTF set-up does to a word: the size, the locks and every bit of CON0
\* but RES0 stay, and CON1 has the TTF fields of an EM4100 tag without auth.
LEMMA SetTtfFields ==
    ASSUME NEW w \in Word
    PROVE  /\ SetTtf(w) \in Word
           /\ SetTtf(w)[1] % 4 = w[1] % 4
           /\ \A i \in 0..5 : BitOf(SetTtf(w)[1], i + 2) =
                                 (IF i = 0 THEN 0 ELSE BitOf(w[1], i + 2))
           /\ BitOf(SetTtf(w)[2], 0) = BitOf(w[2], 0)
           /\ BitOf(SetTtf(w)[2], 1) = BitOf(w[2], 1)
           /\ (SetTtf(w)[2] \div 4) % 4 = 1 /\ (SetTtf(w)[2] \div 16) % 4 = 2
           /\ BitOf(SetTtf(w)[2], 6) = 0 /\ BitOf(SetTtf(w)[2], 7) = 0
           /\ SetTtf(w)[3] = w[3] /\ SetTtf(w)[4] = w[4]
<1> DEFINE x == w[1] - 4 * BitOf(w[1], 2)
           y == 36 + (w[2] % 4)
<1>1. w[1] \in Byte /\ w[2] \in Byte /\ w[3] \in Byte /\ w[4] \in Byte BY DEF Word
<1>2. SetTtf(w) = <<x, y, w[3], w[4]>> BY DEF SetTtf
<1>3. BitOf(w[1], 2) = (w[1] \div 4) % 2 BY <1>1, BitsOfByte
<1>4. /\ x \in Byte /\ x % 4 = w[1] % 4 /\ (x \div 4) % 2 = 0
      /\ x \div 8 = w[1] \div 8
  BY <1>1, <1>3 DEF Byte
<1>5. /\ y \in Byte /\ y % 2 = w[2] % 2 /\ (y \div 2) % 2 = (w[2] \div 2) % 2
      /\ (y \div 4) % 4 = 1 /\ (y \div 16) % 4 = 2
      /\ (y \div 64) % 2 = 0 /\ (y \div 128) % 2 = 0
  BY <1>1 DEF Byte
<1> HIDE DEF x, y
<1>6. SetTtf(w) \in Word BY <1>1, <1>2, <1>4, <1>5 DEF Word
<1>7. /\ SetTtf(w)[1] = x /\ SetTtf(w)[2] = y
      /\ SetTtf(w)[3] = w[3] /\ SetTtf(w)[4] = w[4]
  BY <1>2
<1>8. ASSUME NEW i \in 0..5
      PROVE  BitOf(x, i + 2) = (IF i = 0 THEN 0 ELSE BitOf(w[1], i + 2))
  <2>1. /\ x \div 16 = w[1] \div 16 /\ x \div 32 = w[1] \div 32
        /\ x \div 64 = w[1] \div 64 /\ x \div 128 = w[1] \div 128
    BY <1>1, <1>4 DEF Byte
  <2>2. BitOf(x, 2) = 0 BY <1>4, BitsOfByte
  <2>3. /\ BitOf(x, 3) = BitOf(w[1], 3) /\ BitOf(x, 4) = BitOf(w[1], 4)
        /\ BitOf(x, 5) = BitOf(w[1], 5) /\ BitOf(x, 6) = BitOf(w[1], 6)
        /\ BitOf(x, 7) = BitOf(w[1], 7)
    BY <1>1, <1>4, <2>1, BitsOfByte
  <2>4. i = 0 \/ i = 1 \/ i = 2 \/ i = 3 \/ i = 4 \/ i = 5 OBVIOUS
  <2> QED BY <2>2, <2>3, <2>4
<1>9. /\ BitOf(y, 0) = BitOf(w[2], 0) /\ BitOf(y, 1) = BitOf(w[2], 1)
      /\ BitOf(y, 6) = 0 /\ BitOf(y, 7) = 0
  BY <1>1, <1>5, BitsOfByte
<1> QED BY <1>4, <1>5, <1>6, <1>7, <1>8, <1>9

\* A configuration by its fields.
Fields(m, r, lkp, lcon, ttfm, ttfdr, ttfc, auth, lck, h) ==
    [ MEMT |-> m, RES |-> r, LKP |-> lkp, LCON |-> lcon, TTFM |-> ttfm,
      TTFDR |-> ttfdr, TTFC |-> ttfc, auth |-> auth, LCK |-> lck, pwdh0 |-> h ]

\* Field by field: the documented change, and auth and RES0 cleared besides.
LEMMA SetTtfParsed ==
    ASSUME NEW w \in Word
    PROVE  Parse(SetTtf(w)) =
              [DocumentedTtf(w) EXCEPT !.auth = 0, !.RES = [@ EXCEPT ![0] = 0]]
<1> DEFINE v == SetTtf(w)
           m == w[1] % 4
           res == [i \in 0..5 |-> BitOf(w[1], i + 2)]
           cleared == [res EXCEPT ![0] = 0]
           lkp == BitOf(w[2], 0)
           lcon == BitOf(w[2], 1)
           ttfm == (w[2] \div 4) % 4
           ttfdr == (w[2] \div 16) % 4
           ttfc == BitOf(w[2], 6)
           auth == BitOf(w[2], 7)
           lck == [i \in 0..7 |-> BitOf(w[3], i)]
           h == w[4]
<1>1. \A i \in 0..5 : BitOf(v[1], i + 2) = (IF i = 0 THEN 0 ELSE BitOf(w[1], i + 2))
  BY SetTtfFields
<1>2. [i \in 0..5 |-> BitOf(v[1], i + 2)] = cleared BY <1>1
<1>3. /\ v[1] % 4 = m /\ BitOf(v[2], 0) = lkp /\ BitOf(v[2], 1) = lcon
      /\ (v[2] \div 4) % 4 = 1 /\ (v[2] \div 16) % 4 = 2
      /\ BitOf(v[2], 6) = 0 /\ BitOf(v[2], 7) = 0
      /\ v[3] = w[3] /\ v[4] = h
  BY SetTtfFields
<1> HIDE DEF v
<1>4. Parse(v) = Fields(m, cleared, lkp, lcon, 1, 2, 0, 0, lck, h)
  BY <1>2, <1>3 DEF Parse, Fields
<1>5. Parse(w) = Fields(m, res, lkp, lcon, ttfm, ttfdr, ttfc, auth, lck, h)
  BY DEF Parse, Fields
<1>6. cleared = [res EXCEPT ![0] = 0] OBVIOUS
<1> HIDE DEF m, res, cleared, lkp, lcon, ttfm, ttfdr, ttfc, auth, lck, h
\* One field at a time.
<1>7. DocumentedTtf(w) = Fields(m, res, lkp, lcon, 1, 2, 0, auth, lck, h)
  <2>1. [Fields(m, res, lkp, lcon, ttfm, ttfdr, ttfc, auth, lck, h) EXCEPT !.TTFC = 0] =
        Fields(m, res, lkp, lcon, ttfm, ttfdr, 0, auth, lck, h)
    BY DEF Fields
  <2>2. [Fields(m, res, lkp, lcon, ttfm, ttfdr, 0, auth, lck, h) EXCEPT !.TTFDR = 2] =
        Fields(m, res, lkp, lcon, ttfm, 2, 0, auth, lck, h)
    BY DEF Fields
  <2>3. [Fields(m, res, lkp, lcon, ttfm, 2, 0, auth, lck, h) EXCEPT !.TTFM = 1] =
        Fields(m, res, lkp, lcon, 1, 2, 0, auth, lck, h)
    BY DEF Fields
  <2> QED BY <1>5, <2>1, <2>2, <2>3, Zenon DEF DocumentedTtf
<1>8. [DocumentedTtf(w) EXCEPT !.auth = 0, !.RES = [@ EXCEPT ![0] = 0]] =
      Fields(m, cleared, lkp, lcon, 1, 2, 0, 0, lck, h)
  <2>1. [Fields(m, res, lkp, lcon, 1, 2, 0, auth, lck, h) EXCEPT !.auth = 0] =
        Fields(m, res, lkp, lcon, 1, 2, 0, 0, lck, h)
    BY DEF Fields
  <2>2. Fields(m, res, lkp, lcon, 1, 2, 0, auth, lck, h).RES = res BY DEF Fields
  <2>3. [Fields(m, res, lkp, lcon, 1, 2, 0, 0, lck, h) EXCEPT !.RES = cleared] =
        Fields(m, cleared, lkp, lcon, 1, 2, 0, 0, lck, h)
    BY DEF Fields
  <2> QED BY <1>6, <1>7, <2>1, <2>2, <2>3, Zenon
<1> QED BY <1>4, <1>8, Zenon DEF v

------------------------------------------------------------------------------
(* What every frame of a configuration word keeps.                            *)

\* However many bits are wrong, a frame of a word is 32 bits.
PageFrame == kind = "page" => frame \in [1..32 -> Bit]

LEMMA FlipKeepsBits ==
    ASSUME NEW n \in Nat, NEW f \in [1..n -> Bit], NEW i \in 1..n
    PROVE  [f EXCEPT ![i] = 1 - @] \in [1..n -> Bit]
<1>1. 1 - f[i] \in Bit BY DEF Bit
<1> QED BY <1>1

LEMMA PageFrameAlways == Spec => []PageFrame
<1>1. Init => PageFrame
  <2> SUFFICES ASSUME Init, kind = "page" PROVE frame \in [1..32 -> Bit]
    BY DEF PageFrame
  <2>1. PICK w \in Configs : frame = WordBits(w) BY DEF Init
  <2>2. w \in Word BY <2>1, FramesAssumption DEF FramesAssumption
  <2> QED BY <2>1, <2>2, WordBitsFacts
<1>2. PageFrame /\ [Flip]_vars => PageFrame'
  <2> SUFFICES ASSUME PageFrame, [Flip]_vars, kind' = "page"
               PROVE  frame' \in [1..32 -> Bit]
    BY DEF PageFrame
  <2>1. CASE UNCHANGED vars BY <2>1 DEF vars, PageFrame
  <2>2. CASE Flip
    <3>1. frame \in [1..32 -> Bit] BY <2>2 DEF Flip, PageFrame
    <3>2. DOMAIN frame = 1..32 /\ 32 \in Nat BY <3>1
    <3>3. PICK i \in 1..32 : frame' = [frame EXCEPT ![i] = 1 - @] BY <2>2, <3>2 DEF Flip
    <3>4. [frame EXCEPT ![i] = 1 - @] \in [1..32 -> Bit] BY <3>1, <3>2, FlipKeepsBits
    <3> QED BY <3>3, <3>4
  <2> QED BY <2>1, <2>2
<1> QED BY <1>1, <1>2, PTL DEF Spec

LEMMA PageWord == PageFrame /\ kind = "page" => word \in Word
<1> SUFFICES ASSUME frame \in [1..32 -> Bit] PROVE WordAt(frame, 1) \in Word
  BY DEF PageFrame, word
<1>1. 32 \in Nat /\ 32 >= 32 OBVIOUS
<1> QED BY <1>1, WordAtIsWord

\* Whatever word a tag holds, parse and pack bring it back bit by bit, every
\* field within its type (hitag_s_parse_config, hitag_s_pack_config).
THEOREM ParsePackRoundTrip == Spec => []RoundTrip
<1>1. PageFrame => RoundTrip BY PageWord, ParseFields, PackAfterParse DEF RoundTrip
<1> QED BY <1>1, PageFrameAlways, PTL

\* Whatever word a tag holds, a page is locked exactly when the lock bit of its
\* documented group is set (hitag_s_page_locked).
THEOREM DocumentedLocks == Spec => []LocksFollowTheGroups
<1>1. PageFrame => LocksFollowTheGroups
  <2> SUFFICES ASSUME PageFrame, kind = "page", NEW p \in 0..64
               PROVE  PageLocked(Parse(word), p) <=>
                        \/ p = 64
                        \/ \E k \in 0..7 : Parse(word).LCK[k] = 1 /\ p \in DocumentedGroup[k]
    BY DEF LocksFollowTheGroups
  <2>1. CASE p = 64 BY <2>1 DEF PageLocked
  <2>2. CASE p \in 4..63
    <3>1. PageLocked(Parse(word), p) <=> Parse(word).LCK[LockBit(p)] = 1
      BY <2>2 DEF PageLocked
    <3> QED BY <2>2, <3>1, LockBitOfPage
  <2>3. CASE p \in 0..3
    <3>1. ~PageLocked(Parse(word), p) BY <2>3 DEF PageLocked
    <3>2. \A k \in 0..7 : k = 0 \/ k = 1 \/ k = 2 \/ k = 3 \/ k = 4 \/ k = 5 \/ k = 6 \/ k = 7
      OBVIOUS
    <3>3. \A k \in 0..7 : p \notin DocumentedGroup[k] BY <2>3, <3>2, DocumentedGroups
    <3> QED BY <2>3, <3>1, <3>3
  <2> QED BY <2>1, <2>2, <2>3
<1> QED BY <1>1, PageFrameAlways, PTL

\* Whatever word a tag holds, em4100_config_set_ttf leaves the writability of
\* every page and the memory size as they were, sets the documented fields, and
\* clears auth and RES0 of the others.
THEOREM TtfKeepsLocks == Spec => []SetTtfKeepsLocks
<1>1. PageFrame => SetTtfKeepsLocks
  <2> SUFFICES ASSUME PageFrame, kind = "page"
               PROVE  /\ \A p \in Page : PageWritable(SetTtf(word), p) <=> PageWritable(word, p)
                      /\ MaxPage(Parse(SetTtf(word))) = MaxPage(Parse(word))
                      /\ Parse(SetTtf(word)) = [DocumentedTtf(word) EXCEPT
                               !.auth = 0, !.RES = [@ EXCEPT ![0] = 0]]
    BY DEF SetTtfKeepsLocks
  <2>1. word \in Word BY PageWord
  <2>2. SetTtf(word) \in Word BY <2>1, SetTtfFields
  <2>3. ASSUME NEW p \in Page PROVE PageWritable(SetTtf(word), p) <=> PageWritable(word, p)
    <3>1. p = 0 \/ p = 1 \/ p \in {2, 3} \/ p \in 4..63 BY DEF Page
    <3>2. CASE p = 0 BY <2>1, <2>2, <3>2, WritableBits
    <3>3. CASE p = 1 BY <2>1, <2>2, <3>3, WritableBits, SetTtfFields
    <3>4. CASE p \in {2, 3} BY <2>1, <2>2, <3>4, WritableBits, SetTtfFields
    <3>5. CASE p \in 4..63 BY <2>1, <2>2, <3>5, WritableBits, SetTtfFields
    <3> QED BY <3>1, <3>2, <3>3, <3>4, <3>5
  <2>4. Parse(SetTtf(word)).MEMT = Parse(word).MEMT BY <2>1, <2>2, ParseFields, SetTtfFields
  <2>5. MaxPage(Parse(SetTtf(word))) = MaxPage(Parse(word)) BY <2>4 DEF MaxPage
  <2> QED BY <2>1, <2>3, <2>5, SetTtfParsed
<1> QED BY <1>1, PageFrameAlways, PTL

\* One bit wrong in any word a tag holds changes the writability of the pages of
\* one lock only, and none when it is a bit of CON0 or PWDH0.
THEOREM BitsLockOneGroup == Spec => OneBitOneLock
<1> DEFINE changed == {p \in Page : ~(PageWritable(word', p) <=> PageWritable(word, p))}
           groups  == {DocumentedGroup[k] : k \in 0..7} \cup {{1}, {2, 3}, {}}
           Local == /\ changed \in groups
                    /\ (word'[1] # word[1] \/ word'[4] # word[4]) => changed = {}
<1>1. PageFrame /\ [Flip]_vars => [kind = "page" => Local]_vars
  <2> SUFFICES ASSUME PageFrame, Flip, kind = "page" PROVE Local
    OBVIOUS
  <2>1. frame \in [1..32 -> Bit] BY DEF PageFrame
  <2>2. DOMAIN frame = 1..32 /\ 32 \in Nat BY <2>1
  <2>3. PICK i \in 1..32 : frame' = [frame EXCEPT ![i] = 1 - @] BY <2>2 DEF Flip
  <2>4. frame' \in [1..32 -> Bit]
    <3>1. [frame EXCEPT ![i] = 1 - @] \in [1..32 -> Bit] BY <2>1, <2>2, FlipKeepsBits
    <3> QED BY <2>3, <3>1
  <2>5. frame'[i] # frame[i] /\ \A j \in 1..32 \ {i} : frame'[j] = frame[j]
    BY <2>1, <2>3 DEF Bit
  <2>6. frame[15] \in {0, 1} /\ frame[16] \in {0, 1} BY <2>1 DEF Bit
  <2>7. frame'[15] \in {0, 1} /\ frame'[16] \in {0, 1} BY <2>4 DEF Bit
  <2>8. \A j \in 1..32 : (frame'[j] # frame[j]) <=> j = i BY <2>5
  <2>9. \A j \in 1..32 : frame[j] \in {0, 1} /\ frame'[j] \in {0, 1} BY <2>1, <2>4 DEF Bit
  <2>10. 0 \notin changed
    <3>1. PageWritable(word, 0) BY <2>1, WritableFrameBits DEF word
    <3>2. PageWritable(word', 0) BY <2>4, WritableFrameBits DEF word
    <3> QED BY <3>1, <3>2
  <2>11. 1 \in changed <=> i = 15
    BY <2>1, <2>4, <2>6, <2>7, <2>8, WritableFrameBits DEF word, Page
  <2>12. \A p \in {2, 3} : p \in changed <=> i = 16
    BY <2>1, <2>4, <2>6, <2>7, <2>8, WritableFrameBits DEF word, Page
  <2>13. ASSUME NEW p \in 4..63 PROVE p \in changed <=> i = 24 - LockBit(p)
    <3>1. 24 - LockBit(p) \in 1..32 BY LockBitOfPage
    <3>2. /\ PageWritable(word, p) <=> frame[24 - LockBit(p)] # 1
          /\ PageWritable(word', p) <=> frame'[24 - LockBit(p)] # 1
      BY <2>1, <2>4, WritableFrameBits DEF word
    <3> QED BY <2>8, <2>9, <3>1, <3>2 DEF Page
  <2>14. \A p \in changed : p = 0 \/ p = 1 \/ p \in {2, 3} \/ p \in 4..63 BY DEF Page
  <2> HIDE DEF changed
  <2>16. CASE i = 15
    <3>1. 1 \in changed /\ \A p \in {2, 3} : p \notin changed BY <2>11, <2>12, <2>16
    <3>2. \A p \in 4..63 : p \notin changed BY <2>13, <2>16, LockBitOfPage
    <3>3. changed = {1} BY <2>10, <2>14, <3>1, <3>2
    <3>4. word'[1] = word[1] /\ word'[4] = word[4]
      BY <2>5, <2>16 DEF word, WordAt, ByteAt
    <3> QED BY <3>3, <3>4
  <2>17. CASE i = 16
    <3>1. 1 \notin changed /\ \A p \in {2, 3} : p \in changed BY <2>11, <2>12, <2>17
    <3>2. \A p \in 4..63 : p \notin changed BY <2>13, <2>17, LockBitOfPage
    <3>3. changed = {2, 3} BY <2>10, <2>14, <3>1, <3>2
    <3>4. word'[1] = word[1] /\ word'[4] = word[4]
      BY <2>5, <2>17 DEF word, WordAt, ByteAt
    <3> QED BY <3>3, <3>4
  <2>18. CASE i \in 17..24
    <3>1. 1 \notin changed /\ \A p \in {2, 3} : p \notin changed BY <2>11, <2>12, <2>18
    <3> DEFINE k == 24 - i
    <3>2. k \in 0..7 /\ i = 24 - k BY <2>18
    <3> HIDE DEF k
    <3>3. \A p \in 4..63 : p \in changed <=> LockBit(p) = k
      <4>1. \A p \in 4..63 : LockBit(p) \in 0..7 BY LockBitOfPage
      <4>2. \A m \in 0..7 : i = 24 - m <=> m = k BY <3>2
      <4> QED BY <2>13, <4>1, <4>2
    <3>4. \A p \in 4..63 : p \in changed <=> p \in DocumentedGroup[k]
      BY <3>2, <3>3, LockBitOfPage
    <3>5. DocumentedGroup[k] \subseteq 4..63
      <4>1. k = 0 \/ k = 1 \/ k = 2 \/ k = 3 \/ k = 4 \/ k = 5 \/ k = 6 \/ k = 7 BY <3>2
      <4> QED BY <4>1, DocumentedGroups
    <3>6. changed = DocumentedGroup[k] BY <2>10, <2>14, <3>1, <3>4, <3>5, Zenon
    <3>7. word'[1] = word[1] /\ word'[4] = word[4]
      BY <2>5, <2>18 DEF word, WordAt, ByteAt
    <3> QED BY <3>2, <3>6, <3>7
  <2>19. CASE i \in 1..14 \cup 25..32
    <3>1. 1 \notin changed /\ \A p \in {2, 3} : p \notin changed BY <2>11, <2>12, <2>19
    <3>2. \A p \in 4..63 : p \notin changed
      <4>1. \A m \in 0..7 : i # 24 - m BY <2>19
      <4> QED BY <2>13, <4>1, LockBitOfPage
    <3>3. changed = {} BY <2>10, <2>14, <3>1, <3>2
    <3> QED BY <3>3
  <2>20. i = 15 \/ i = 16 \/ i \in 17..24 \/ i \in 1..14 \cup 25..32 OBVIOUS
  <2> QED BY <2>16, <2>17, <2>18, <2>19, <2>20
<1> QED BY <1>1, PageFrameAlways, PTL DEF Spec, OneBitOneLock

------------------------------------------------------------------------------
(* Card numbers.                                                              *)

\* One bit changed changes the parity.
LEMMA OneBitTurnsParity ==
    ASSUME NEW n \in Nat, NEW f \in [1..n -> 0..1], NEW g \in [1..n -> 0..1],
           NEW q \in 1..n, f[q] # g[q], \A i \in 1..n : i # q => f[i] = g[i]
    PROVE  Parity(f) # Parity(g)
<1> DEFINE O == {i \in 1..n : i # q /\ f[i] = 1}
           F == {i \in DOMAIN f : f[i] = 1}
           G == {i \in DOMAIN g : g[i] = 1}
<1>1. O = {i \in 1..n : i # q /\ g[i] = 1} OBVIOUS
<1>2. IsFiniteSet(O) /\ Cardinality(O) \in Nat
  <2>1. IsFiniteSet(1..n) BY FS_Interval
  <2>2. O \subseteq 1..n OBVIOUS
  <2>3. IsFiniteSet(O) BY <2>1, <2>2, FS_Subset
  <2> QED BY <2>3, FS_CardinalityType
<1>3. q \notin O OBVIOUS
<1>4. Cardinality(O \cup {q}) = Cardinality(O) + 1
  <2> HIDE DEF O
  <2> QED BY <1>2, <1>3, FS_AddElement
<1>5. Parity(f) = Cardinality(F) % 2 /\ Parity(g) = Cardinality(G) % 2 BY DEF Parity
<1>6. CASE f[q] = 1
  <2>1. F = O \cup {q} /\ G = O BY <1>6
  <2> HIDE DEF O, F, G
  <2> QED BY <1>2, <1>4, <1>5, <2>1
<1>7. CASE f[q] # 1
  <2>1. g[q] = 1 BY <1>7
  <2>2. F = O /\ G = O \cup {q} BY <1>7, <2>1
  <2> HIDE DEF O, F, G
  <2> QED BY <1>2, <1>4, <1>5, <2>2
<1> QED BY <1>6, <1>7

LEMMA ParityIsBit ==
    ASSUME NEW n \in Nat, NEW f \in [1..n -> 0..1]
    PROVE  Parity(f) \in 0..1
<1> DEFINE F == {i \in DOMAIN f : f[i] = 1}
<1>1. IsFiniteSet(1..n) /\ F \subseteq 1..n BY FS_Interval
<1>2. IsFiniteSet(F) BY <1>1, FS_Subset
<1>3. Cardinality(F) \in Nat BY <1>2, FS_CardinalityType
<1> HIDE DEF F
<1>4. Cardinality(F) % 2 \in 0..1 BY <1>3
<1> QED BY <1>4 DEF Parity, F

\* Where the bits of a card number are in its frame.
LEMMA EncodedBits ==
    ASSUME NEW id \in CardId
    PROVE  /\ \A i \in 1..9 : Encode(id)[i] = 1
           /\ \A r \in 1..Rows, c \in 1..Columns : Encode(id)[5 * r + 4 + c] = id[r][c]
           /\ \A r \in 1..Rows : Encode(id)[5 * r + 9] = Parity(id[r])
           /\ \A c \in 1..Columns : Encode(id)[59 + c] = Parity(Column(id, c))
           /\ Encode(id)[64] = 0
<1>1. \A i \in 1..9 : Encode(id)[i] = 1 BY DEF Encode
<1>2. ASSUME NEW i \in 10..59
      PROVE  Encode(id)[i] = IF (i % 5) + 1 <= Columns THEN id[(i - 5) \div 5][(i % 5) + 1]
                             ELSE Parity(id[(i - 5) \div 5])
  <2>1. i \in 1..64 /\ i \notin 1..9 OBVIOUS
  <2> QED BY <2>1 DEF Encode
<1>3. ASSUME NEW r \in 1..Rows, NEW c \in 1..Columns
      PROVE  Encode(id)[5 * r + 4 + c] = id[r][c]
  <2>1. /\ 5 * r + 4 + c \in 10..59
        /\ ((5 * r + 4 + c) % 5) + 1 = c /\ (5 * r + 4 + c - 5) \div 5 = r
        /\ c <= Columns
    BY DEF Rows, Columns
  <2> QED BY <1>2, <2>1
<1>4. ASSUME NEW r \in 1..Rows PROVE Encode(id)[5 * r + 9] = Parity(id[r])
  <2>1. /\ 5 * r + 9 \in 10..59
        /\ ((5 * r + 9) % 5) + 1 = 5 /\ (5 * r + 9 - 5) \div 5 = r
        /\ ~(5 <= Columns)
    BY DEF Rows, Columns
  <2> QED BY <1>2, <2>1
<1>5. ASSUME NEW c \in 1..Columns PROVE Encode(id)[59 + c] = Parity(Column(id, c))
  <2>1. /\ 59 + c \in 1..64 /\ 59 + c \notin 1..9 /\ 59 + c \notin 10..59
        /\ 59 + c \in 60..63 /\ 59 + c - 59 = c
    BY DEF Columns
  <2> QED BY <2>1 DEF Encode
<1>6. Encode(id)[64] = 0 BY DEF Encode
<1> QED BY <1>1, <1>3, <1>4, <1>5, <1>6

LEMMA CardTypes ==
    ASSUME NEW id \in CardId
    PROVE  /\ \A r \in 1..Rows : id[r] \in [1..Columns -> 0..1]
           /\ \A c \in 1..Columns : Column(id, c) \in [1..Rows -> 0..1]
<1>1. \A r \in 1..Rows : id[r] \in [1..Columns -> 0..1] BY DEF CardId
<1> QED BY <1>1 DEF Column

LEMMA EncodedFrame ==
    ASSUME NEW id \in CardId
    PROVE  Encode(id) \in [1..64 -> Bit]
<1>1. Rows \in Nat /\ Columns \in Nat BY DEF Rows, Columns
<1>2. \A r \in 1..Rows : Parity(id[r]) \in 0..1 BY <1>1, CardTypes, ParityIsBit
<1>3. \A c \in 1..Columns : Parity(Column(id, c)) \in 0..1 BY <1>1, CardTypes, ParityIsBit
<1>4. \A r \in 1..Rows, c \in 1..Columns : id[r][c] \in 0..1 BY CardTypes
<1>5. ASSUME NEW i \in 1..64 PROVE Encode(id)[i] \in 0..1
  <2>1. CASE i \in 1..9 BY <2>1, EncodedBits
  <2>2. CASE i \in 10..59
    <3> DEFINE r == (i - 5) \div 5
               c == (i % 5) + 1
    <3>1. r \in 1..Rows /\ c \in 1..5 /\ i = 5 * r + 4 + c BY <2>2 DEF Rows
    <3> HIDE DEF r, c
    <3>2. CASE c \in 1..Columns BY <1>4, <3>1, <3>2, EncodedBits
    <3>3. CASE c = 5
      <4>1. i = 5 * r + 9 BY <3>1, <3>3
      <4> QED BY <1>2, <3>1, <4>1, EncodedBits
    <3> QED BY <3>1, <3>2, <3>3 DEF Columns
  <2>3. CASE i \in 60..63
    <3>1. i - 59 \in 1..Columns /\ i = 59 + (i - 59) BY <2>3 DEF Columns
    <3> QED BY <1>3, <3>1, EncodedBits
  <2>4. CASE i = 64 BY <2>4, EncodedBits
  <2> QED BY <2>1, <2>2, <2>3, <2>4
<1>6. Encode(id) = [i \in 1..64 |-> Encode(id)[i]] BY DEF Encode
<1> QED BY <1>5, <1>6 DEF Bit

\* The frame of a card number is read as that number.
LEMMA DecodeEncoded ==
    ASSUME NEW id \in CardId
    PROVE  Decode(Encode(id)) = id
<1> DEFINE e == Encode(id)
<1>1. IdIn(e) = id
  <2>1. \A r \in 1..Rows : RowIn(e, r) = id[r]
    <3> SUFFICES ASSUME NEW r \in 1..Rows PROVE RowIn(e, r) = id[r] OBVIOUS
    <3>1. id[r] \in [1..Columns -> 0..1] BY CardTypes
    <3>2. \A c \in 1..Columns : e[5 * r + 4 + c] = id[r][c] BY EncodedBits
    <3>3. id[r] = [c \in 1..Columns |-> id[r][c]] BY <3>1
    <3> HIDE DEF e
    <3>4. RowIn(e, r) = [c \in 1..Columns |-> id[r][c]] BY <3>2 DEF RowIn
    <3> QED BY <3>3, <3>4
  <2> HIDE DEF e
  <2> QED BY <2>1 DEF IdIn, CardId
<1>2. HeaderIn(e) BY EncodedBits DEF HeaderIn
<1>3. \A r \in 1..Rows : RowParityIn(e, r) = Parity(RowIn(e, r))
  <2>1. \A r \in 1..Rows : RowIn(e, r) = id[r] BY <1>1 DEF IdIn
  <2> QED BY <2>1, EncodedBits DEF RowParityIn
<1>4. \A c \in 1..Columns : e[59 + c] = Parity(Column(IdIn(e), c)) BY <1>1, EncodedBits
<1>5. e[64] = 0 BY EncodedBits
<1> HIDE DEF e
<1> QED BY <1>1, <1>2, <1>3, <1>4, <1>5 DEF Decode, e

\* f is g with at most one bit wrong, at most two, at most k for a k up to two.
NearByOne(n, f, g) == \E a \in 1..n : \A i \in 1..n : i # a => f[i] = g[i]
NearByTwo(n, f, g) == \E a, b \in 1..n : \A i \in 1..n : i # a /\ i # b => f[i] = g[i]
Near(k, n, f, g) == /\ k = 0 => f = g
                    /\ k <= 1 => NearByOne(n, f, g)
                    /\ k <= 2 => NearByTwo(n, f, g)

\* At most two bits of the frame of a card number are wrong, and it is still
\* accepted: then it still carries that number.  Were a data bit wrong, the
\* parity of its row or a second bit of the row would be wrong too, and then
\* nothing is left to be wrong in its column.
LEMMA CardDistance ==
    ASSUME NEW id \in CardId, NEW f \in [1..64 -> Bit],
           NearByTwo(64, f, Encode(id)),
           Decode(f) # NoId
    PROVE  Decode(f) = id
<1>0. PICK a, b \in 1..64 : \A i \in 1..64 : i # a /\ i # b => f[i] = Encode(id)[i]
  BY DEF NearByTwo
<1> DEFINE e == Encode(id)
           g == IdIn(f)
<1>1. /\ \A r \in 1..Rows : RowParityIn(f, r) = Parity(RowIn(f, r))
      /\ \A c \in 1..Columns : f[59 + c] = Parity(Column(g, c))
      /\ Decode(f) = g
  BY DEF Decode
<1>2. \A r \in 1..Rows : g[r] = RowIn(f, r) BY DEF IdIn
<1>3. \A r \in 1..Rows, c \in 1..Columns : 5 * r + 4 + c \in 10..58 BY DEF Rows, Columns
<1>4. \A r \in 1..Rows, c \in 1..Columns : g[r][c] = f[5 * r + 4 + c] BY <1>2 DEF RowIn
<1>5. g \in CardId
  <2>1. \A r \in 1..Rows, c \in 1..Columns : f[5 * r + 4 + c] \in 0..1 BY <1>3 DEF Bit
  <2> QED BY <2>1 DEF CardId, IdIn, RowIn
<1>6. \A r \in 1..Rows, c \in 1..Columns : id[r][c] = e[5 * r + 4 + c] BY EncodedBits
<1> HIDE DEF e, g
<1> SUFFICES ASSUME NEW r \in 1..Rows, NEW c \in 1..Columns, g[r][c] # id[r][c]
             PROVE  FALSE
  <2>1. CASE \A r \in 1..Rows, c \in 1..Columns : g[r][c] = id[r][c]
    <3>1. ASSUME NEW r \in 1..Rows PROVE g[r] = id[r]
      <4>1. g[r] \in [1..Columns -> 0..1] /\ id[r] \in [1..Columns -> 0..1]
        BY <1>5, CardTypes
      <4>2. /\ g[r] = [c \in 1..Columns |-> g[r][c]]
            /\ id[r] = [c \in 1..Columns |-> id[r][c]]
        BY <4>1
      <4>3. \A c \in 1..Columns : g[r][c] = id[r][c] BY <2>1
      <4>4. [c \in 1..Columns |-> g[r][c]] = [c \in 1..Columns |-> id[r][c]] BY <4>3
      <4> QED BY <4>2, <4>4, Zenon
    <3>2. g = [r \in 1..Rows |-> g[r]] /\ id = [r \in 1..Rows |-> id[r]]
      BY <1>5 DEF CardId
    <3>3. g = id BY <3>1, <3>2
    <3> QED BY <1>1, <3>3
  <2> QED BY <2>1
<1> DEFINE q == 5 * r + 4 + c
<1>7. q \in 1..64 /\ f[q] # e[q] BY <1>3, <1>4, <1>6
<1> HIDE DEF q
<1>8. PICK o : \A i \in 1..64 : i # q /\ i # o => f[i] = e[i]
  <2>1. q = a \/ q = b BY <1>0, <1>7 DEF e
  <2> QED BY <1>0, <2>1 DEF e
<1>9. \E d \in 1..5 : o = 5 * r + 4 + d
  <2>1. CASE \A d \in 1..Columns : d # c => g[r][d] = id[r][d]
    <3>1. Parity(g[r]) # Parity(id[r])
      <4>1. Columns \in Nat BY DEF Columns
      <4>2. g[r] \in [1..Columns -> 0..1] /\ id[r] \in [1..Columns -> 0..1]
        BY <1>5, CardTypes
      <4> QED BY <2>1, <4>1, <4>2, OneBitTurnsParity
    <3>2. f[5 * r + 9] = Parity(g[r]) BY <1>1, <1>2 DEF RowParityIn
    <3>3. e[5 * r + 9] = Parity(id[r]) BY EncodedBits DEF e
    <3>4. 5 * r + 9 \in 1..64 /\ 5 * r + 9 # q BY DEF q, Rows, Columns
    <3>5. o = 5 * r + 9 BY <1>8, <3>1, <3>2, <3>3, <3>4
    <3> QED BY <3>5
  <2>2. CASE \E d \in 1..Columns : d # c /\ g[r][d] # id[r][d]
    <3>1. PICK d \in 1..Columns : d # c /\ g[r][d] # id[r][d] BY <2>2
    <3>2. f[5 * r + 4 + d] # e[5 * r + 4 + d] BY <1>4, <1>6, <3>1
    <3>3. 5 * r + 4 + d \in 1..64 /\ 5 * r + 4 + d # q BY <3>1 DEF q, Rows, Columns
    <3>4. o = 5 * r + 4 + d BY <1>8, <3>2, <3>3
    <3> QED BY <3>4 DEF Columns
  <2> QED BY <2>1, <2>2
<1>10. Parity(Column(g, c)) # Parity(Column(id, c))
  <2>1. ASSUME NEW i \in 1..Rows, i # r PROVE g[i][c] = id[i][c]
    <3>1. 5 * i + 4 + c \in 1..64 /\ 5 * i + 4 + c # q
      BY <2>1 DEF q, Rows, Columns
    <3>2. 5 * i + 4 + c # o BY <1>9, <2>1 DEF Rows, Columns
    <3> QED BY <1>4, <1>6, <1>8, <3>1, <3>2
  <2>2. Rows \in Nat BY DEF Rows
  <2>3. Column(g, c) \in [1..Rows -> 0..1] /\ Column(id, c) \in [1..Rows -> 0..1]
    BY <1>5, CardTypes
  <2>4. \A i \in 1..Rows : Column(g, c)[i] = g[i][c] /\ Column(id, c)[i] = id[i][c]
    BY DEF Column
  <2> DEFINE x == Column(g, c)
             y == Column(id, c)
  <2>5. x[r] # y[r] /\ \A i \in 1..Rows : i # r => x[i] = y[i] BY <2>1, <2>4
  <2>6. x \in [1..Rows -> 0..1] /\ y \in [1..Rows -> 0..1] BY <2>3
  <2> HIDE DEF x, y
  <2>7. Parity(x) # Parity(y) BY <2>2, <2>5, <2>6, OneBitTurnsParity
  <2> QED BY <2>7 DEF x, y
<1>11. f[59 + c] # e[59 + c] BY <1>1, <1>10, EncodedBits DEF e
<1>12. 59 + c \in 1..64 /\ 59 + c # q /\ 59 + c # o
  BY <1>9 DEF q, Rows, Columns
<1> QED BY <1>8, <1>11, <1>12

------------------------------------------------------------------------------
(* The registers of a CRC.                                                    *)

\* The registers of a CRC, one after each bit.
Registers(poly, init, n, bits, reg) ==
    reg = [i \in 0..n |-> IF i = 0 THEN init ELSE Shift(poly, reg[i - 1], bits[i])]

LEMMA RegistersExist ==
    ASSUME NEW poly, NEW init, NEW bits, NEW n \in Nat
    PROVE  \E reg : Registers(poly, init, n, bits, reg)
<1> DEFINE S == {k \in Nat : \E reg : Registers(poly, init, k, bits, reg)}
<1>1. 0 \in S
  <2>1. Registers(poly, init, 0, bits, [i \in 0..0 |-> init]) BY DEF Registers
  <2> QED BY <2>1
<1>2. ASSUME NEW k \in Nat, k \in S PROVE k + 1 \in S
  <2>1. PICK reg : Registers(poly, init, k, bits, reg) BY <1>2
  <2> DEFINE nxt == [i \in 0..(k + 1) |->
                        IF i = k + 1 THEN Shift(poly, reg[k], bits[k + 1]) ELSE reg[i]]
  <2>2. DOMAIN reg = 0..k /\ reg[0] = init
        /\ \A i \in 1..k : reg[i] = Shift(poly, reg[i - 1], bits[i])
    BY <2>1 DEF Registers
  <2>3. nxt[0] = init BY <2>2
  <2>4. ASSUME NEW i \in 1..(k + 1) PROVE nxt[i] = Shift(poly, nxt[i - 1], bits[i])
    <3>1. nxt[i - 1] = reg[i - 1] OBVIOUS
    <3>2. CASE i = k + 1 BY <3>1, <3>2
    <3>3. CASE i # k + 1
      <4>1. i \in 1..k /\ nxt[i] = reg[i] BY <3>3
      <4> QED BY <2>2, <3>1, <4>1
    <3> QED BY <3>2, <3>3
  <2>5. nxt = [i \in 0..(k + 1) |-> nxt[i]] OBVIOUS
  <2> HIDE DEF nxt
  <2>6. Registers(poly, init, k + 1, bits, nxt)
    <3>1. \A i \in 0..(k + 1) :
            nxt[i] = IF i = 0 THEN init ELSE Shift(poly, nxt[i - 1], bits[i])
      BY <2>3, <2>4
    <3> QED BY <2>5, <3>1 DEF Registers
  <2> QED BY <2>6
<1> HIDE DEF S
<1>3. Nat \subseteq S BY <1>1, <1>2, InductionSet
<1> QED BY <1>3 DEF S

Run(poly, init, n, bits, reg) ==
    reg[0] = init /\ \A i \in 1..n : reg[i] = Shift(poly, reg[i - 1], bits[i])

\* A CRC is the last of its registers.
LEMMA CrcIsLast ==
    ASSUME NEW poly, NEW init, NEW n \in Nat, NEW bits \in [1..n -> Bit]
    PROVE  \E reg : Run(poly, init, n, bits, reg) /\ Crc(poly, init, bits) = reg[n]
<1>1. Len(bits) = n BY FunIsSeq
<1> DEFINE r == CHOOSE reg : Registers(poly, init, n, bits, reg)
<1>2. Registers(poly, init, n, bits, r) BY RegistersExist
<1>3. Crc(poly, init, bits) = r[n] BY <1>1 DEF Crc, Registers
<1> HIDE DEF r
<1>4. r[0] = init /\ \A i \in 1..n : r[i] = Shift(poly, r[i - 1], bits[i])
  BY <1>2 DEF Registers
<1> QED BY <1>3, <1>4 DEF Run

Register(w)  == [1..w -> 0..1]
Xor(w, a, b) == [i \in 1..w |-> (a[i] + b[i]) % 2]

\* One shift of the register, bit by bit.
LEMMA ShiftIs ==
    ASSUME NEW w \in Nat \ {0}, NEW poly \in Register(w), NEW r \in Register(w), NEW b \in 0..1
    PROVE  /\ Shift(poly, r, b) \in Register(w)
           /\ \A i \in 1..w : Shift(poly, r, b)[i] =
                 ((IF i < w THEN r[i + 1] ELSE 0) + ((r[1] + b) % 2) * poly[i]) % 2
<1>1. DOMAIN r = 1..w /\ Len(r) = w BY FunIsSeq DEF Register
<1> DEFINE out  == (r[1] + b) % 2
           s(i) == ((IF i < w THEN r[i + 1] ELSE 0) + out * poly[i]) % 2
<1>2. Shift(poly, r, b) = [i \in 1..w |-> s(i)] BY <1>1 DEF Shift
<1>3. out \in 0..1
  <2>1. r[1] \in 0..1 BY DEF Register
  <2> QED BY <2>1
<1> HIDE DEF out
<1>4. ASSUME NEW i \in 1..w PROVE s(i) \in 0..1
  <2>1. (IF i < w THEN r[i + 1] ELSE 0) \in 0..1 BY DEF Register
  <2>2. poly[i] \in 0..1 BY DEF Register
  <2>3. out * 0 = 0 /\ out * 1 = out BY <1>3
  <2>4. out * poly[i] \in 0..1 BY <1>3, <2>2, <2>3
  <2> QED BY <2>1, <2>4
<1> HIDE DEF s
<1>5. Shift(poly, r, b) \in Register(w) BY <1>2, <1>4 DEF Register
<1>6. \A i \in 1..w : Shift(poly, r, b)[i] = s(i) BY <1>2
<1> QED BY <1>5, <1>6 DEF s, out

LEMMA SameRegister ==
    ASSUME NEW w \in Nat, NEW a \in Register(w), NEW b \in Register(w),
           \A i \in 1..w : a[i] = b[i]
    PROVE  a = b
BY DEF Register

LEMMA ZerosIs ==
    ASSUME NEW w \in Nat
    PROVE  Zeros(w) \in Register(w) /\ \A i \in 1..w : Zeros(w)[i] = 0
BY DEF Zeros, Register

LEMMA XorIs ==
    ASSUME NEW w \in Nat, NEW a \in Register(w), NEW b \in Register(w)
    PROVE  /\ Xor(w, a, b) \in Register(w)
           /\ \A i \in 1..w : Xor(w, a, b)[i] = (a[i] + b[i]) % 2
           /\ Xor(w, a, b) = Zeros(w) <=> a = b
<1>1. \A i \in 1..w : a[i] \in 0..1 /\ b[i] \in 0..1 BY DEF Register
<1>2. \A x, y \in 0..1 : (x + y) % 2 \in 0..1 /\ ((x + y) % 2 = 0 <=> x = y) OBVIOUS
<1>3. \A i \in 1..w : Xor(w, a, b)[i] = (a[i] + b[i]) % 2 BY DEF Xor
<1>4. \A i \in 1..w : (a[i] + b[i]) % 2 \in 0..1 BY <1>1, <1>2
<1>5. Xor(w, a, b) \in Register(w) BY <1>4 DEF Xor, Register
<1>6. ASSUME a = b PROVE Xor(w, a, b) = Zeros(w)
  <2>1. \A i \in 1..w : (a[i] + b[i]) % 2 = 0 BY <1>1, <1>2, <1>6
  <2> QED BY <2>1 DEF Xor, Zeros
<1>7. ASSUME Xor(w, a, b) = Zeros(w) PROVE a = b
  <2>1. \A i \in 1..w : Xor(w, a, b)[i] = 0 BY <1>7, ZerosIs
  <2>2. \A i \in 1..w : a[i] = b[i] BY <1>1, <1>2, <1>3, <2>1
  <2> QED BY <2>2, SameRegister
<1> QED BY <1>3, <1>5, <1>6, <1>7

\* The register is linear: what two inputs leave differs by what their
\* difference leaves.
LEMMA ShiftOfXor ==
    ASSUME NEW w \in Nat \ {0}, NEW poly \in Register(w),
           NEW r \in Register(w), NEW s \in Register(w), NEW b \in 0..1, NEW c \in 0..1
    PROVE  Xor(w, Shift(poly, r, b), Shift(poly, s, c))
             = Shift(poly, Xor(w, r, s), (b + c) % 2)
<1> DEFINE u == Shift(poly, r, b)
           v == Shift(poly, s, c)
           x == Xor(w, r, s)
           d == (b + c) % 2
           y == Shift(poly, x, d)
           z == Xor(w, u, v)
<1>1. d \in 0..1 OBVIOUS
<1>2. u \in Register(w) /\ v \in Register(w) BY ShiftIs
<1>3. x \in Register(w) /\ \A i \in 1..w : x[i] = (r[i] + s[i]) % 2 BY XorIs
<1>4. z \in Register(w) /\ \A i \in 1..w : z[i] = (u[i] + v[i]) % 2 BY <1>2, XorIs
<1> HIDE DEF x, d
<1>5. y \in Register(w) /\ \A i \in 1..w :
          y[i] = ((IF i < w THEN x[i + 1] ELSE 0) + ((x[1] + d) % 2) * poly[i]) % 2
  BY <1>1, <1>3, ShiftIs
<1>6. \A i \in 1..w : u[i] = ((IF i < w THEN r[i + 1] ELSE 0) + ((r[1] + b) % 2) * poly[i]) % 2
  BY ShiftIs
<1>7. \A i \in 1..w : v[i] = ((IF i < w THEN s[i + 1] ELSE 0) + ((s[1] + c) % 2) * poly[i]) % 2
  BY ShiftIs
<1> HIDE DEF u, v, y, z
<1>8. \A i \in 1..w : r[i] \in 0..1 /\ s[i] \in 0..1 /\ poly[i] \in 0..1 BY DEF Register
<1> DEFINE o == (r[1] + b) % 2
           p == (s[1] + c) % 2
           q == (x[1] + d) % 2
<1>9. o \in 0..1 /\ p \in 0..1 /\ q = (o + p) % 2
  <2>1. r[1] \in 0..1 /\ s[1] \in 0..1 /\ x[1] = (r[1] + s[1]) % 2 BY <1>3, <1>8
  <2> DEFINE e == r[1]
             f == s[1]
  <2>2. e \in 0..1 /\ f \in 0..1 /\ x[1] = (e + f) % 2 BY <2>1
  <2> HIDE DEF e, f
  <2>3. (((e + f) % 2) + ((b + c) % 2)) % 2 = (((e + b) % 2) + ((f + c) % 2)) % 2 BY <2>2
  <2>4. (e + b) % 2 \in 0..1 /\ (f + c) % 2 \in 0..1 BY <2>2
  <2> QED BY <2>2, <2>3, <2>4 DEF e, f, d
<1> HIDE DEF o, p, q
<1>10. ASSUME NEW i \in 1..w PROVE z[i] = y[i]
  <2> DEFINE e == IF i < w THEN r[i + 1] ELSE 0
             f == IF i < w THEN s[i + 1] ELSE 0
             g == IF i < w THEN x[i + 1] ELSE 0
             k == poly[i]
  <2>1. e \in 0..1 /\ f \in 0..1 /\ k \in 0..1 BY <1>8
  <2>2. g = (e + f) % 2
    <3>1. CASE i < w BY <1>3, <3>1
    <3>2. CASE ~(i < w) BY <3>2
    <3> QED BY <3>1, <3>2
  <2>3. /\ u[i] = (e + o * k) % 2 /\ v[i] = (f + p * k) % 2 /\ y[i] = (g + q * k) % 2
        /\ z[i] = (u[i] + v[i]) % 2
    BY <1>4, <1>5, <1>6, <1>7 DEF o, p, q
  <2> HIDE DEF e, f, g, k
  <2>4. CASE k = 0
    <3>1. o * k = 0 /\ p * k = 0 /\ q * k = 0 BY <1>9, <2>4
    <3>2. (((e + 0) % 2) + ((f + 0) % 2)) % 2 = (((e + f) % 2) + 0) % 2 BY <2>1
    <3> QED BY <2>2, <2>3, <3>1, <3>2
  <2>5. CASE k = 1
    <3>1. o * k = o /\ p * k = p /\ q * k = q BY <1>9, <2>5
    <3>2. (((e + o) % 2) + ((f + p) % 2)) % 2 = (((e + f) % 2) + ((o + p) % 2)) % 2
      BY <1>9, <2>1
    <3> QED BY <1>9, <2>2, <2>3, <3>1, <3>2
  <2> QED BY <2>1, <2>4, <2>5
<1>11. z = y BY <1>4, <1>5, <1>10, SameRegister
<1> QED BY <1>11 DEF z, y, x, d, u, v

\* A zero neither clears a register nor sets a bit of a clear one, if the
\* lowest bit of the polynomial is set.
LEMMA ClearShift ==
    ASSUME NEW w \in Nat \ {0}, NEW poly \in Register(w), poly[w] = 1, NEW r \in Register(w)
    PROVE  Shift(poly, r, 0) = Zeros(w) <=> r = Zeros(w)
<1> DEFINE s   == Shift(poly, r, 0)
           out == (r[1] + 0) % 2
<1>1. 0 \in 0..1 OBVIOUS
<1>2. s \in Register(w) /\ \A i \in 1..w :
         s[i] = ((IF i < w THEN r[i + 1] ELSE 0) + out * poly[i]) % 2
  BY <1>1, ShiftIs
<1> HIDE DEF s
<1>3. \A i \in 1..w : r[i] \in 0..1 /\ poly[i] \in 0..1 BY DEF Register
<1>4. out = r[1] BY <1>3
<1>5. 1 \in 1..w /\ w \in 1..w OBVIOUS
<1> HIDE DEF out
<1>6. ASSUME out = 0, NEW i \in 1..w PROVE s[i] = (IF i < w THEN r[i + 1] ELSE 0)
  <2> DEFINE e == IF i < w THEN r[i + 1] ELSE 0
  <2>1. e \in 0..1 BY <1>3
  <2>2. out * poly[i] = 0 BY <1>3, <1>6
  <2>3. s[i] = (e + 0) % 2 BY <1>2, <2>2
  <2> HIDE DEF e
  <2>4. s[i] = e BY <2>1, <2>3
  <2> QED BY <2>4 DEF e
<1>7. ASSUME r = Zeros(w) PROVE s = Zeros(w)
  <2>1. \A i \in 1..w : r[i] = 0 BY <1>7, ZerosIs
  <2>2. out = 0 BY <1>4, <1>5, <2>1
  <2>3. \A i \in 1..w : s[i] = 0
    <3> TAKE i \in 1..w
    <3>1. s[i] = (IF i < w THEN r[i + 1] ELSE 0) BY <1>6, <2>2
    <3>2. i < w => i + 1 \in 1..w OBVIOUS
    <3> QED BY <2>1, <3>1, <3>2
  <2>4. \A i \in 1..w : s[i] = Zeros(w)[i] BY <2>3, ZerosIs
  <2> QED BY <1>2, <2>4, SameRegister, ZerosIs
<1>8. ASSUME s = Zeros(w) PROVE r = Zeros(w)
  <2>1. \A i \in 1..w : s[i] = 0 BY <1>8, ZerosIs
  <2>2. out = 0
    <3>1. s[w] = (0 + out * poly[w]) % 2 BY <1>2, <1>5
    <3>2. out \in 0..1 BY <1>3, <1>4, <1>5
    <3>3. out * poly[w] = out /\ 0 + out = out BY <3>2
    <3>4. out % 2 = out BY <3>2
    <3> QED BY <1>5, <2>1, <3>1, <3>3, <3>4
  <2>3. \A i \in 1..w : r[i] = 0
    <3> TAKE i \in 1..w
    <3>1. CASE i = 1 BY <1>4, <2>2, <3>1
    <3>2. CASE i # 1
      <4>1. i - 1 \in 1..w /\ i - 1 < w /\ (i - 1) + 1 = i BY <3>2
      <4>2. s[i - 1] = r[i] BY <1>6, <2>2, <4>1
      <4> QED BY <2>1, <4>1, <4>2
    <3> QED BY <3>1, <3>2
  <2>4. \A i \in 1..w : r[i] = Zeros(w)[i] BY <2>3, ZerosIs
  <2> QED BY <2>4, SameRegister, ZerosIs
<1> QED BY <1>7, <1>8 DEF s

\* The registers of an input that starts from a clear register.
Chain(poly, w, n, e, d) ==
    /\ d[0] = Zeros(w)
    /\ \A i \in 1..n : e[i] \in 0..1 /\ d[i] = Shift(poly, d[i - 1], e[i])

LEMMA ChainRegisters ==
    ASSUME NEW w \in Nat \ {0}, NEW poly \in Register(w),
           NEW n \in Nat, NEW e, NEW d, Chain(poly, w, n, e, d)
    PROVE  \A i \in 0..n : d[i] \in Register(w)
<1> DEFINE S == {i \in Nat : i <= n => d[i] \in Register(w)}
<1>1. 0 \in S BY ZerosIs DEF Chain
<1>2. ASSUME NEW i \in Nat, i \in S PROVE i + 1 \in S
  <2> SUFFICES ASSUME i + 1 <= n PROVE d[i + 1] \in Register(w) OBVIOUS
  <2>1. i + 1 \in 1..n /\ i + 1 - 1 = i BY <1>2
  <2>2. e[i + 1] \in 0..1 /\ d[i + 1] = Shift(poly, d[i], e[i + 1]) BY <2>1 DEF Chain
  <2>3. d[i] \in Register(w) BY <1>2
  <2> QED BY <2>2, <2>3, ShiftIs
<1> HIDE DEF S
<1>3. Nat \subseteq S BY <1>1, <1>2, InductionSet
<1> QED BY <1>3 DEF S

\* From a place on without a difference the register stays clear, or not clear.
LEMMA NoMoreDifferences ==
    ASSUME NEW w \in Nat \ {0}, NEW poly \in Register(w), poly[w] = 1,
           NEW n \in Nat, NEW e, NEW d, Chain(poly, w, n, e, d),
           NEW q \in 0..n, \A i \in 1..n : i > q => e[i] = 0
    PROVE  d[n] = Zeros(w) <=> d[q] = Zeros(w)
<1>1. \A i \in 0..n : d[i] \in Register(w) BY ChainRegisters
<1> DEFINE S == {j \in Nat : q + j <= n => (d[q + j] = Zeros(w) <=> d[q] = Zeros(w))}
<1>2. 0 \in S OBVIOUS
<1>3. ASSUME NEW j \in Nat, j \in S PROVE j + 1 \in S
  <2> SUFFICES ASSUME q + (j + 1) <= n
               PROVE  d[q + (j + 1)] = Zeros(w) <=> d[q] = Zeros(w)
    OBVIOUS
  <2>1. /\ q + (j + 1) \in 1..n /\ (q + (j + 1)) - 1 = q + j
        /\ q + (j + 1) > q /\ q + j \in 0..n
    OBVIOUS
  <2>2. d[q + (j + 1)] = Shift(poly, d[q + j], 0) BY <2>1 DEF Chain
  <2>3. d[q + j] \in Register(w) BY <1>1, <2>1
  <2>4. d[q + (j + 1)] = Zeros(w) <=> d[q + j] = Zeros(w) BY <2>2, <2>3, ClearShift
  <2>5. d[q + j] = Zeros(w) <=> d[q] = Zeros(w) BY <1>3
  <2> QED BY <2>4, <2>5
<1> HIDE DEF S
<1>4. Nat \subseteq S BY <1>2, <1>3, InductionSet
<1>5. n - q \in S BY <1>4
<1>6. q + (n - q) = n OBVIOUS
<1> QED BY <1>5, <1>6 DEF S

\* The first difference leaves the polynomial.
LEMMA FirstDifference ==
    ASSUME NEW w \in Nat \ {0}, NEW poly \in Register(w), poly[w] = 1,
           NEW n \in Nat, NEW e, NEW d, Chain(poly, w, n, e, d),
           NEW p \in 1..n, e[p] = 1, \A i \in 1..n : i < p => e[i] = 0
    PROVE  d[p] = poly
<1>1. d[p - 1] = Zeros(w)
  <2> DEFINE k == p - 1
  <2>1. k \in Nat /\ 0 \in 0..k /\ \A i \in 1..k : i \in 1..n /\ i < p OBVIOUS
  <2>2. Chain(poly, w, k, e, d) BY <2>1 DEF Chain
  <2>3. \A i \in 1..k : i > 0 => e[i] = 0 BY <2>1
  <2>4. d[0] = Zeros(w) BY DEF Chain
  <2> HIDE DEF k
  <2>5. d[k] = Zeros(w) BY <2>1, <2>2, <2>3, <2>4, NoMoreDifferences
  <2> QED BY <2>5 DEF k
<1>2. d[p] = Shift(poly, Zeros(w), 1) BY <1>1 DEF Chain
<1> DEFINE s == Shift(poly, Zeros(w), 1)
<1>3. s \in Register(w) /\ \A i \in 1..w :
        s[i] = ((IF i < w THEN Zeros(w)[i + 1] ELSE 0) + ((Zeros(w)[1] + 1) % 2) * poly[i]) % 2
  <2>1. 1 \in 0..1 OBVIOUS
  <2> QED BY <2>1, ShiftIs, ZerosIs
<1> HIDE DEF s
<1>4. (0 + 1) % 2 = 1 /\ \A x \in 0..1 : (0 + 1 * x) % 2 = x OBVIOUS
<1>5. ASSUME NEW i \in 1..w PROVE s[i] = poly[i]
  <2>1. (IF i < w THEN Zeros(w)[i + 1] ELSE 0) = 0
    <3>1. i < w => i + 1 \in 1..w OBVIOUS
    <3> QED BY <3>1, ZerosIs
  <2>2. Zeros(w)[1] = 0
    <3>1. 1 \in 1..w OBVIOUS
    <3> QED BY <3>1, ZerosIs
  <2>3. poly[i] \in 0..1 BY DEF Register
  <2> QED BY <1>3, <1>4, <2>1, <2>2, <2>3
<1>6. s = poly BY <1>3, <1>5, SameRegister
<1> QED BY <1>2, <1>6 DEF s

\* The bits in which two inputs differ.
Difference(n, m, x, e) == \A i \in 1..n : e[i] = (m[i] + x[i]) % 2

\* The registers in which their runs differ.
Differences(w, n, r, s, d) == \A i \in 0..n : d[i] = Xor(w, r[i], s[i])

\* The registers of two inputs differ by those of their difference.
LEMMA RunDifference ==
    ASSUME NEW w \in Nat \ {0}, NEW poly \in Register(w), NEW init \in Register(w),
           NEW n \in Nat, NEW m \in [1..n -> Bit], NEW x \in [1..n -> Bit],
           NEW r, NEW s, Run(poly, init, n, m, r), Run(poly, init, n, x, s),
           NEW e, Difference(n, m, x, e), NEW d, Differences(w, n, r, s, d)
    PROVE  /\ Chain(poly, w, n, e, d)
           /\ r[n] \in Register(w) /\ s[n] \in Register(w)
<1> USE DEF Run, Difference, Differences
<1>4. \A i \in 1..n : m[i] \in 0..1 /\ x[i] \in 0..1 BY DEF Bit
<1>5. \A i \in 0..n : r[i] \in Register(w) /\ s[i] \in Register(w)
  <2> DEFINE S == {i \in Nat : i <= n => r[i] \in Register(w) /\ s[i] \in Register(w)}
  <2>1. 0 \in S OBVIOUS
  <2>2. ASSUME NEW i \in Nat, i \in S PROVE i + 1 \in S
    <3> SUFFICES ASSUME i + 1 <= n PROVE r[i + 1] \in Register(w) /\ s[i + 1] \in Register(w)
      OBVIOUS
    <3>1. i + 1 \in 1..n /\ i + 1 - 1 = i BY <2>2
    <3>2. r[i + 1] = Shift(poly, r[i], m[i + 1]) /\ s[i + 1] = Shift(poly, s[i], x[i + 1])
      BY <3>1
    <3>3. r[i] \in Register(w) /\ s[i] \in Register(w) BY <2>2
    <3>4. m[i + 1] \in 0..1 /\ x[i + 1] \in 0..1 BY <1>4, <3>1
    <3>5. Shift(poly, r[i], m[i + 1]) \in Register(w) BY <3>3, <3>4, ShiftIs
    <3>6. Shift(poly, s[i], x[i + 1]) \in Register(w) BY <3>3, <3>4, ShiftIs
    <3> QED BY <3>2, <3>5, <3>6
  <2> HIDE DEF S
  <2>3. Nat \subseteq S BY <2>1, <2>2, InductionSet
  <2> QED BY <2>3 DEF S
<1>6. d[0] = Zeros(w)
  <2>1. d[0] = Xor(w, init, init) OBVIOUS
  <2> QED BY <2>1, XorIs
<1>7. ASSUME NEW i \in 1..n PROVE e[i] \in 0..1 /\ d[i] = Shift(poly, d[i - 1], e[i])
  <2>1. i - 1 \in 0..n /\ i \in 0..n OBVIOUS
  <2>2. r[i - 1] \in Register(w) /\ s[i - 1] \in Register(w) BY <1>5, <2>1
  <2>3. r[i] = Shift(poly, r[i - 1], m[i]) /\ s[i] = Shift(poly, s[i - 1], x[i]) OBVIOUS
  <2>4. m[i] \in 0..1 /\ x[i] \in 0..1 BY <1>4
  <2>5. Xor(w, r[i], s[i]) = Shift(poly, Xor(w, r[i - 1], s[i - 1]), (m[i] + x[i]) % 2)
    BY <2>2, <2>3, <2>4, ShiftOfXor
  <2>6. e[i] = (m[i] + x[i]) % 2 /\ (m[i] + x[i]) % 2 \in 0..1 BY <2>4
  <2>7. d[i] = Xor(w, r[i], s[i]) /\ d[i - 1] = Xor(w, r[i - 1], s[i - 1]) BY <2>1
  <2> QED BY <2>5, <2>6, <2>7
<1>10. Chain(poly, w, n, e, d) BY <1>6, <1>7 DEF Chain
<1>11. n \in 0..n OBVIOUS
<1> QED BY <1>5, <1>10, <1>11

LEMMA ShiftOfZeros ==
    ASSUME NEW w \in Nat \ {0}, NEW poly \in Register(w), poly[w] = 1
    PROVE  Shift(poly, Zeros(w), 1) = poly
<1> DEFINE e == [i \in 1..1 |-> 1]
           d == [i \in 0..1 |-> IF i = 0 THEN Zeros(w) ELSE Shift(poly, Zeros(w), 1)]
<1>1. Chain(poly, w, 1, e, d)
  <2>1. \A i \in 1..1 : i = 1 /\ i - 1 = 0 OBVIOUS
  <2> QED BY <2>1 DEF Chain
<1>2. 1 \in Nat /\ 1 \in 1..1 /\ e[1] = 1 /\ \A i \in 1..1 : ~(i < 1) OBVIOUS
<1>3. d[1] = Shift(poly, Zeros(w), 1) OBVIOUS
<1> HIDE DEF d, e
<1>4. d[1] = poly BY <1>1, <1>2, FirstDifference
<1> QED BY <1>3, <1>4

\* A second difference clears the register only where a zero would have brought
\* the polynomial back.
LEMMA SecondDifference ==
    ASSUME NEW w \in Nat \ {0}, NEW poly \in Register(w), poly[w] = 1, NEW r \in Register(w)
    PROVE  Shift(poly, r, 1) = Zeros(w) <=> Shift(poly, r, 0) = poly
<1>1. 0 \in 0..1 /\ 1 \in 0..1 /\ (0 + 1) % 2 = 1 OBVIOUS
<1>2. Zeros(w) \in Register(w) BY ZerosIs
<1>3. Xor(w, r, Zeros(w)) = r
  <2>1. \A i \in 1..w : r[i] \in 0..1 BY DEF Register
  <2>2. \A x \in 0..1 : (x + 0) % 2 = x OBVIOUS
  <2>3. \A i \in 1..w : Xor(w, r, Zeros(w))[i] = r[i] BY <1>2, <2>1, <2>2, XorIs, ZerosIs
  <2> QED BY <1>2, <2>3, SameRegister, XorIs
<1>4. Xor(w, Shift(poly, r, 0), Shift(poly, Zeros(w), 1)) = Shift(poly, r, 1)
  BY <1>1, <1>2, <1>3, ShiftOfXor
<1>5. Shift(poly, r, 0) \in Register(w) BY <1>1, ShiftIs
<1> QED BY <1>4, <1>5, ShiftOfZeros, XorIs

\* The first bit set is at p and the last one at q, with none between them.
SetBetween(n, e, p, q) ==
    /\ p \in 1..n /\ q \in p..n /\ e[p] = 1 /\ e[q] = 1
    /\ \A i \in 1..n : i # p /\ i # q => e[i] = 0

\* Bits followed by the register they left leave a clear one.
LEMMA RunOut ==
    ASSUME NEW w \in Nat \ {0}, NEW poly \in Register(w), NEW n \in Nat, NEW f,
           NEW init, NEW r, Run(poly, init, n + w, f, r), r[n] \in Register(w),
           \A j \in 1..w : f[n + j] = r[n][j]
    PROVE  r[n + w] = Zeros(w)
<1> DEFINE v(j) == [i \in 1..w |-> IF i + j <= w THEN r[n][i + j] ELSE 0]
           S == {j \in Nat : j <= w => r[n + j] = v(j)}
<1>1. 0 \in S
  <2>1. v(0) \in Register(w) /\ \A i \in 1..w : v(0)[i] = r[n][i] BY DEF Register
  <2> HIDE DEF v
  <2>2. v(0) = r[n] BY <2>1, SameRegister
  <2> QED BY <2>2
<1>2. ASSUME NEW j \in Nat, j \in S PROVE j + 1 \in S
  <2> SUFFICES ASSUME j + 1 <= w PROVE r[n + (j + 1)] = v(j + 1) OBVIOUS
  <2>1. n + (j + 1) \in 1..(n + w) /\ (n + (j + 1)) - 1 = n + j /\ j + 1 \in 1..w OBVIOUS
  <2> DEFINE b == r[n][j + 1]
             t == Shift(poly, v(j), b)
  <2>2. r[n + (j + 1)] = t
    <3>1. r[n + (j + 1)] = Shift(poly, r[n + j], f[n + (j + 1)]) BY <2>1 DEF Run
    <3>2. r[n + j] = v(j) BY <1>2
    <3> HIDE DEF v
    <3> QED BY <2>1, <3>1, <3>2
  <2>3. b \in 0..1 BY <2>1 DEF Register
  <2>4. v(j) \in Register(w)
    <3>1. \A i \in 1..w : i + j <= w => r[n][i + j] \in 0..1 BY DEF Register
    <3> QED BY <3>1 DEF Register
  <2>5. v(j)[1] = b /\ (b + b) % 2 = 0
    <3>1. 1 \in 1..w /\ 1 + j = j + 1 /\ 1 + j <= w OBVIOUS
    <3>2. \A x \in 0..1 : (x + x) % 2 = 0 OBVIOUS
    <3> QED BY <2>3, <3>1, <3>2
  <2>6. t \in Register(w) /\ \A i \in 1..w : t[i] =
           ((IF i < w THEN v(j)[i + 1] ELSE 0) + ((v(j)[1] + b) % 2) * poly[i]) % 2
    <3> HIDE DEF v, b
    <3> QED BY <2>3, <2>4, ShiftIs
  <2> HIDE DEF t
  <2>7. ASSUME NEW i \in 1..w PROVE t[i] = v(j + 1)[i]
    <3> DEFINE x == IF i < w THEN v(j)[i + 1] ELSE 0
    <3>1. x \in 0..1
      <4> HIDE DEF v
      <4>1. i < w => i + 1 \in 1..w OBVIOUS
      <4> QED BY <2>4, <4>1 DEF Register
    <3>2. 0 * poly[i] = 0
      <4>1. poly[i] \in 0..1 BY DEF Register
      <4> QED BY <4>1
    <3>3. t[i] = (x + 0) % 2
      <4> HIDE DEF v, b
      <4>1. t[i] = (x + ((b + b) % 2) * poly[i]) % 2 BY <2>5, <2>6
      <4> QED BY <2>5, <3>2, <4>1
    <3>4. x = v(j + 1)[i]
      <4>1. CASE i < w
        <5>1. i + 1 \in 1..w /\ (i + 1) + j = i + (j + 1) BY <4>1
        <5> QED BY <4>1, <5>1
      <4>2. CASE ~(i < w)
        <5>1. ~(i + (j + 1) <= w) BY <4>2
        <5> QED BY <4>2, <5>1
      <4> QED BY <4>1, <4>2
    <3> HIDE DEF x, v
    <3>5. (x + 0) % 2 = x BY <3>1
    <3> QED BY <3>3, <3>4, <3>5
  <2>8. t = v(j + 1)
    <3>1. v(j + 1) = [i \in 1..w |-> v(j + 1)[i]] OBVIOUS
    <3>2. t = [i \in 1..w |-> t[i]] BY <2>6 DEF Register
    <3> HIDE DEF v
    <3>3. [i \in 1..w |-> t[i]] = [i \in 1..w |-> v(j + 1)[i]] BY <2>7
    <3> QED BY <3>1, <3>2, <3>3, Zenon
  <2> QED BY <2>2, <2>8
<1>3. v(w) = Zeros(w)
  <2>1. \A i \in 1..w : ~(i + w <= w) OBVIOUS
  <2> QED BY <2>1 DEF Zeros
<1> HIDE DEF S
<1>4. Nat \subseteq S BY <1>1, <1>2, InductionSet
<1>5. w \in S /\ w <= w BY <1>4
<1> HIDE DEF v
<1> QED BY <1>3, <1>5 DEF S

------------------------------------------------------------------------------
(* The CRC8 of a reply.                                                       *)

Poly8 == <<0, 0, 0, 1, 1, 1, 0, 1>>

LEMMA Poly8Is == Poly8 \in Register(8) /\ Poly8[8] = 1 /\ 8 \in Nat \ {0}
BY DEF Poly8, Register

\* Two bits of a register are set.
TwoSet(r) == \E i, j \in 1..8 : i # j /\ r[i] = 1 /\ r[j] = 1

\* One shift of the register, bit by bit.
LEMMA ShiftBits ==
    ASSUME NEW r \in Register(8), NEW b \in 0..1
    PROVE  /\ Shift(Poly8, r, b) \in Register(8)
           /\ Shift(Poly8, r, b)[1] = r[2] /\ Shift(Poly8, r, b)[2] = r[3]
           /\ Shift(Poly8, r, b)[3] = r[4]
           /\ Shift(Poly8, r, b)[4] = (r[5] + ((r[1] + b) % 2)) % 2
           /\ Shift(Poly8, r, b)[5] = (r[6] + ((r[1] + b) % 2)) % 2
           /\ Shift(Poly8, r, b)[6] = (r[7] + ((r[1] + b) % 2)) % 2
           /\ Shift(Poly8, r, b)[7] = r[8] /\ Shift(Poly8, r, b)[8] = (r[1] + b) % 2
<1> DEFINE out == (r[1] + b) % 2
<1>1. \A i \in 1..8 : r[i] \in 0..1 BY DEF Register
<1>2. DOMAIN r = 1..8 BY DEF Register
<1>3. Len(r) = 8
  <2>1. 8 \in Nat /\ r \in [1..8 -> 0..1] BY DEF Register
  <2> QED BY <2>1, FunIsSeq
<1>4. out \in 0..1 BY <1>1
<1>5. Shift(Poly8, r, b) =
        [i \in 1..8 |-> ((IF i < 8 THEN r[i + 1] ELSE 0) + out * Poly8[i]) % 2]
  BY <1>2, <1>3 DEF Shift
<1> HIDE DEF out
<1>6. /\ Poly8[1] = 0 /\ Poly8[2] = 0 /\ Poly8[3] = 0 /\ Poly8[4] = 1
      /\ Poly8[5] = 1 /\ Poly8[6] = 1 /\ Poly8[7] = 0 /\ Poly8[8] = 1
  BY DEF Poly8
<1>7. /\ out * 0 = 0 /\ out * 1 = out /\ 0 + out = out /\ out % 2 = out BY <1>4
<1>8. \A x \in 0..1 : (x + 0) % 2 = x OBVIOUS
<1>9. /\ r[2] \in 0..1 /\ r[3] \in 0..1 /\ r[4] \in 0..1 /\ r[8] \in 0..1 BY <1>1
<1> DEFINE s == Shift(Poly8, r, b)
<1>10. /\ s[1] = (r[2] + out * Poly8[1]) % 2 /\ s[2] = (r[3] + out * Poly8[2]) % 2
       /\ s[3] = (r[4] + out * Poly8[3]) % 2 /\ s[4] = (r[5] + out * Poly8[4]) % 2
       /\ s[5] = (r[6] + out * Poly8[5]) % 2 /\ s[6] = (r[7] + out * Poly8[6]) % 2
       /\ s[7] = (r[8] + out * Poly8[7]) % 2 /\ s[8] = (0 + out * Poly8[8]) % 2
  BY <1>5
<1>11. s = [i \in 1..8 |-> s[i]] BY <1>5
<1> HIDE DEF s
<1>12. /\ s[1] = r[2] /\ s[2] = r[3] /\ s[3] = r[4] /\ s[4] = (r[5] + out) % 2
       /\ s[5] = (r[6] + out) % 2 /\ s[6] = (r[7] + out) % 2 /\ s[7] = r[8] /\ s[8] = out
  BY <1>6, <1>7, <1>8, <1>9, <1>10
<1>13. \A i \in 1..8 : s[i] \in 0..1
  <2>1. \A i \in 1..8 : i = 1 \/ i = 2 \/ i = 3 \/ i = 4 \/ i = 5 \/ i = 6 \/ i = 7 \/ i = 8
    OBVIOUS
  <2>2. \A x, y \in 0..1 : (x + y) % 2 \in 0..1 OBVIOUS
  <2>3. r[5] \in 0..1 /\ r[6] \in 0..1 /\ r[7] \in 0..1 BY <1>1
  <2>4. (r[5] + out) % 2 \in 0..1 /\ (r[6] + out) % 2 \in 0..1 /\ (r[7] + out) % 2 \in 0..1
    BY <1>4, <2>2, <2>3
  <2> QED BY <1>4, <1>9, <1>12, <2>1, <2>4
<1>14. s \in Register(8) BY <1>11, <1>13 DEF Register
<1>15. /\ Shift(Poly8, r, b)[8] = (r[1] + b) % 2
       /\ Shift(Poly8, r, b)[4] = (r[5] + ((r[1] + b) % 2)) % 2
       /\ Shift(Poly8, r, b)[5] = (r[6] + ((r[1] + b) % 2)) % 2
       /\ Shift(Poly8, r, b)[6] = (r[7] + ((r[1] + b) % 2)) % 2
  BY <1>12 DEF s, out
<1>16. /\ Shift(Poly8, r, b)[1] = r[2] /\ Shift(Poly8, r, b)[2] = r[3]
       /\ Shift(Poly8, r, b)[3] = r[4] /\ Shift(Poly8, r, b)[7] = r[8]
  BY <1>12 DEF s
<1>17. Shift(Poly8, r, b) \in Register(8) BY <1>14 DEF s
<1> QED BY <1>15, <1>16, <1>17

LEMMA SameRegister8 ==
    ASSUME NEW a \in Register(8), NEW b \in Register(8),
           a[1] = b[1], a[2] = b[2], a[3] = b[3], a[4] = b[4],
           a[5] = b[5], a[6] = b[6], a[7] = b[7], a[8] = b[8]
    PROVE  a = b
<1>1. \A i \in 1..8 : i = 1 \/ i = 2 \/ i = 3 \/ i = 4 \/ i = 5 \/ i = 6 \/ i = 7 \/ i = 8
  OBVIOUS
<1>2. \A i \in 1..8 : a[i] = b[i] BY <1>1
<1>3. a = [i \in 1..8 |-> a[i]] /\ b = [i \in 1..8 |-> b[i]] BY DEF Register
<1>4. [i \in 1..8 |-> a[i]] = [i \in 1..8 |-> b[i]] BY <1>2
<1> QED BY <1>3, <1>4, Zenon

\* One more difference does not clear a register with two bits set.
LEMMA TwoSetShift ==
    ASSUME NEW r \in Register(8), TwoSet(r)
    PROVE  r # Zeros(8) /\ Shift(Poly8, r, 1) # Zeros(8)
<1> DEFINE s == Shift(Poly8, r, 1)
<1>1. r # Zeros(8) BY DEF Zeros, TwoSet
<1>2. /\ r[1] \in 0..1 /\ r[5] \in 0..1 /\ r[6] \in 0..1 /\ r[7] \in 0..1 BY DEF Register
<1>3. /\ s[1] = r[2] /\ s[2] = r[3] /\ s[3] = r[4] /\ s[4] = (r[5] + ((r[1] + 1) % 2)) % 2
      /\ s[5] = (r[6] + ((r[1] + 1) % 2)) % 2 /\ s[6] = (r[7] + ((r[1] + 1) % 2)) % 2
      /\ s[7] = r[8] /\ s[8] = (r[1] + 1) % 2
  BY ShiftBits
<1> HIDE DEF s
<1>4. ASSUME s = Zeros(8) PROVE FALSE
  <2>1. \A i \in 1..8 : s[i] = 0 BY <1>4 DEF Zeros
  <2>2. /\ s[1] = 0 /\ s[2] = 0 /\ s[3] = 0 /\ s[4] = 0
        /\ s[5] = 0 /\ s[6] = 0 /\ s[7] = 0 /\ s[8] = 0
    BY <2>1
  <2>3. (r[1] + 1) % 2 = 0 BY <1>3, <2>2
  <2>4. r[5] = 0 /\ r[6] = 0 /\ r[7] = 0 BY <1>2, <1>3, <2>2, <2>3
  <2>5. r[2] = 0 /\ r[3] = 0 /\ r[4] = 0 /\ r[8] = 0 BY <1>3, <2>2
  <2>6. \A i \in 1..8 : i = 1 \/ r[i] = 0
    <3>1. \A i \in 1..8 : i = 1 \/ i = 2 \/ i = 3 \/ i = 4 \/ i = 5 \/ i = 6 \/ i = 7 \/ i = 8
      OBVIOUS
    <3> QED BY <2>4, <2>5, <3>1
  <2> QED BY <2>6 DEF TwoSet
<1> QED BY <1>1, <1>4 DEF s

------------------------------------------------------------------------------
(* The differences one wrong bit leaves in the register, as it moves on.      *)
Syndromes == <<
    <<0, 0, 0, 1, 1, 1, 0, 1>>, <<0, 0, 1, 1, 1, 0, 1, 0>>,
    <<0, 1, 1, 1, 0, 1, 0, 0>>, <<1, 1, 1, 0, 1, 0, 0, 0>>,
    <<1, 1, 0, 0, 1, 1, 0, 1>>, <<1, 0, 0, 0, 0, 1, 1, 1>>,
    <<0, 0, 0, 1, 0, 0, 1, 1>>, <<0, 0, 1, 0, 0, 1, 1, 0>>,
    <<0, 1, 0, 0, 1, 1, 0, 0>>, <<1, 0, 0, 1, 1, 0, 0, 0>>,
    <<0, 0, 1, 0, 1, 1, 0, 1>>, <<0, 1, 0, 1, 1, 0, 1, 0>>,
    <<1, 0, 1, 1, 0, 1, 0, 0>>, <<0, 1, 1, 1, 0, 1, 0, 1>>,
    <<1, 1, 1, 0, 1, 0, 1, 0>>, <<1, 1, 0, 0, 1, 0, 0, 1>>,
    <<1, 0, 0, 0, 1, 1, 1, 1>>, <<0, 0, 0, 0, 0, 0, 1, 1>>,
    <<0, 0, 0, 0, 0, 1, 1, 0>>, <<0, 0, 0, 0, 1, 1, 0, 0>>,
    <<0, 0, 0, 1, 1, 0, 0, 0>>, <<0, 0, 1, 1, 0, 0, 0, 0>>,
    <<0, 1, 1, 0, 0, 0, 0, 0>>, <<1, 1, 0, 0, 0, 0, 0, 0>>,
    <<1, 0, 0, 1, 1, 1, 0, 1>>, <<0, 0, 1, 0, 0, 1, 1, 1>>,
    <<0, 1, 0, 0, 1, 1, 1, 0>>, <<1, 0, 0, 1, 1, 1, 0, 0>>,
    <<0, 0, 1, 0, 0, 1, 0, 1>>, <<0, 1, 0, 0, 1, 0, 1, 0>>,
    <<1, 0, 0, 1, 0, 1, 0, 0>>, <<0, 0, 1, 1, 0, 1, 0, 1>> >>

\* A zero moves a register up; its first bit, when set, turns three others.
LEMMA ShiftTuple ==
    ASSUME NEW b \in 0..1, NEW c \in 0..1, NEW d \in 0..1, NEW e \in 0..1,
           NEW f \in 0..1, NEW g \in 0..1, NEW h \in 0..1
    PROVE  /\ Shift(Poly8, <<0, b, c, d, e, f, g, h>>, 0) = <<b, c, d, e, f, g, h, 0>>
           /\ Shift(Poly8, <<1, b, c, d, e, f, g, h>>, 0)
                = <<b, c, d, 1 - e, 1 - f, 1 - g, h, 1>>
<1> DEFINE r == <<0, b, c, d, e, f, g, h>>
           s == <<b, c, d, e, f, g, h, 0>>
           u == <<1, b, c, d, e, f, g, h>>
           v == <<b, c, d, 1 - e, 1 - f, 1 - g, h, 1>>
<1>1. r \in Register(8) /\ s \in Register(8) /\ u \in Register(8) /\ v \in Register(8) BY DEF Register
<1>2. Shift(Poly8, r, 0) = s
  <2> DEFINE t == Shift(Poly8, r, 0)
  <2>1. /\ t \in Register(8)
        /\ t[1] = r[2] /\ t[2] = r[3] /\ t[3] = r[4] /\ t[4] = (r[5] + ((r[1] + 0) % 2)) % 2
        /\ t[5] = (r[6] + ((r[1] + 0) % 2)) % 2 /\ t[6] = (r[7] + ((r[1] + 0) % 2)) % 2
        /\ t[7] = r[8] /\ t[8] = (r[1] + 0) % 2
    <3>1. 0 \in 0..1 OBVIOUS
    <3> HIDE DEF r, s, u, v
    <3> QED BY <1>1, <3>1, ShiftBits
  <2> HIDE DEF t
  <2>2. /\ t[1] = s[1] /\ t[2] = s[2] /\ t[3] = s[3] /\ t[4] = s[4]
        /\ t[5] = s[5] /\ t[6] = s[6] /\ t[7] = s[7] /\ t[8] = s[8]
    BY <2>1
  <2> HIDE DEF r, s
  <2>3. t = s BY <1>1, <2>1, <2>2, SameRegister8
  <2> QED BY <2>3 DEF t
<1>3. Shift(Poly8, u, 0) = v
  <2> DEFINE t == Shift(Poly8, u, 0)
  <2>1. /\ t \in Register(8)
        /\ t[1] = u[2] /\ t[2] = u[3] /\ t[3] = u[4] /\ t[4] = (u[5] + ((u[1] + 0) % 2)) % 2
        /\ t[5] = (u[6] + ((u[1] + 0) % 2)) % 2 /\ t[6] = (u[7] + ((u[1] + 0) % 2)) % 2
        /\ t[7] = u[8] /\ t[8] = (u[1] + 0) % 2
    <3>1. 0 \in 0..1 OBVIOUS
    <3> HIDE DEF r, s, u, v
    <3> QED BY <1>1, <3>1, ShiftBits
  <2> HIDE DEF t
  <2>2. \A i \in 0..1 : (i + ((1 + 0) % 2)) % 2 = 1 - i OBVIOUS
  <2>3. /\ t[1] = v[1] /\ t[2] = v[2] /\ t[3] = v[3] /\ t[4] = v[4]
        /\ t[5] = v[5] /\ t[6] = v[6] /\ t[7] = v[7] /\ t[8] = v[8]
    BY <2>1, <2>2
  <2> HIDE DEF u, v
  <2>4. t = v BY <1>1, <2>1, <2>3, SameRegister8
  <2> QED BY <2>4 DEF t
<1> QED BY <1>2, <1>3

LEMMA SyndromeBits ==
    \A k \in 1..32 : Syndromes[k] \in Register(8) /\ TwoSet(Syndromes[k])
<1>1. Syndromes[1] \in Register(8) /\ TwoSet(Syndromes[1])
  BY DEF Syndromes, Register, TwoSet
<1>2. Syndromes[2] \in Register(8) /\ TwoSet(Syndromes[2])
  BY DEF Syndromes, Register, TwoSet
<1>3. Syndromes[3] \in Register(8) /\ TwoSet(Syndromes[3])
  BY DEF Syndromes, Register, TwoSet
<1>4. Syndromes[4] \in Register(8) /\ TwoSet(Syndromes[4])
  BY DEF Syndromes, Register, TwoSet
<1>5. Syndromes[5] \in Register(8) /\ TwoSet(Syndromes[5])
  BY DEF Syndromes, Register, TwoSet
<1>6. Syndromes[6] \in Register(8) /\ TwoSet(Syndromes[6])
  BY DEF Syndromes, Register, TwoSet
<1>7. Syndromes[7] \in Register(8) /\ TwoSet(Syndromes[7])
  BY DEF Syndromes, Register, TwoSet
<1>8. Syndromes[8] \in Register(8) /\ TwoSet(Syndromes[8])
  BY DEF Syndromes, Register, TwoSet
<1>9. Syndromes[9] \in Register(8) /\ TwoSet(Syndromes[9])
  BY DEF Syndromes, Register, TwoSet
<1>10. Syndromes[10] \in Register(8) /\ TwoSet(Syndromes[10])
  BY DEF Syndromes, Register, TwoSet
<1>11. Syndromes[11] \in Register(8) /\ TwoSet(Syndromes[11])
  BY DEF Syndromes, Register, TwoSet
<1>12. Syndromes[12] \in Register(8) /\ TwoSet(Syndromes[12])
  BY DEF Syndromes, Register, TwoSet
<1>13. Syndromes[13] \in Register(8) /\ TwoSet(Syndromes[13])
  BY DEF Syndromes, Register, TwoSet
<1>14. Syndromes[14] \in Register(8) /\ TwoSet(Syndromes[14])
  BY DEF Syndromes, Register, TwoSet
<1>15. Syndromes[15] \in Register(8) /\ TwoSet(Syndromes[15])
  BY DEF Syndromes, Register, TwoSet
<1>16. Syndromes[16] \in Register(8) /\ TwoSet(Syndromes[16])
  BY DEF Syndromes, Register, TwoSet
<1>17. Syndromes[17] \in Register(8) /\ TwoSet(Syndromes[17])
  BY DEF Syndromes, Register, TwoSet
<1>18. Syndromes[18] \in Register(8) /\ TwoSet(Syndromes[18])
  BY DEF Syndromes, Register, TwoSet
<1>19. Syndromes[19] \in Register(8) /\ TwoSet(Syndromes[19])
  BY DEF Syndromes, Register, TwoSet
<1>20. Syndromes[20] \in Register(8) /\ TwoSet(Syndromes[20])
  BY DEF Syndromes, Register, TwoSet
<1>21. Syndromes[21] \in Register(8) /\ TwoSet(Syndromes[21])
  BY DEF Syndromes, Register, TwoSet
<1>22. Syndromes[22] \in Register(8) /\ TwoSet(Syndromes[22])
  BY DEF Syndromes, Register, TwoSet
<1>23. Syndromes[23] \in Register(8) /\ TwoSet(Syndromes[23])
  BY DEF Syndromes, Register, TwoSet
<1>24. Syndromes[24] \in Register(8) /\ TwoSet(Syndromes[24])
  BY DEF Syndromes, Register, TwoSet
<1>25. Syndromes[25] \in Register(8) /\ TwoSet(Syndromes[25])
  BY DEF Syndromes, Register, TwoSet
<1>26. Syndromes[26] \in Register(8) /\ TwoSet(Syndromes[26])
  BY DEF Syndromes, Register, TwoSet
<1>27. Syndromes[27] \in Register(8) /\ TwoSet(Syndromes[27])
  BY DEF Syndromes, Register, TwoSet
<1>28. Syndromes[28] \in Register(8) /\ TwoSet(Syndromes[28])
  BY DEF Syndromes, Register, TwoSet
<1>29. Syndromes[29] \in Register(8) /\ TwoSet(Syndromes[29])
  BY DEF Syndromes, Register, TwoSet
<1>30. Syndromes[30] \in Register(8) /\ TwoSet(Syndromes[30])
  BY DEF Syndromes, Register, TwoSet
<1>31. Syndromes[31] \in Register(8) /\ TwoSet(Syndromes[31])
  BY DEF Syndromes, Register, TwoSet
<1>32. Syndromes[32] \in Register(8) /\ TwoSet(Syndromes[32])
  BY DEF Syndromes, Register, TwoSet
<1>33. \A k \in 1..32 :
      \/ k = 1 \/ k = 2 \/ k = 3 \/ k = 4 \/ k = 5 \/ k = 6 \/ k = 7 \/ k = 8
      \/ k = 9 \/ k = 10 \/ k = 11 \/ k = 12 \/ k = 13 \/ k = 14 \/ k = 15 \/ k = 16
      \/ k = 17 \/ k = 18 \/ k = 19 \/ k = 20 \/ k = 21 \/ k = 22 \/ k = 23 \/ k = 24
      \/ k = 25 \/ k = 26 \/ k = 27 \/ k = 28 \/ k = 29 \/ k = 30 \/ k = 31 \/ k = 32
  OBVIOUS
<1> QED
  BY <1>1, <1>2, <1>3, <1>4, <1>5, <1>6, <1>7, <1>8, 
     <1>9, <1>10, <1>11, <1>12, <1>13, <1>14, <1>15, <1>16, 
     <1>17, <1>18, <1>19, <1>20, <1>21, <1>22, <1>23, <1>24, 
     <1>25, <1>26, <1>27, <1>28, <1>29, <1>30, <1>31, <1>32, 
     <1>33

LEMMA SyndromeShift ==
    \A k \in 1..31 : Shift(Poly8, Syndromes[k], 0) = Syndromes[k + 1]
<1>0. 0 \in 0..1 /\ 1 \in 0..1 /\ 1 - 0 = 1 /\ 1 - 1 = 0 OBVIOUS
<1>1. Shift(Poly8, Syndromes[1], 0) = Syndromes[2]
  BY <1>0, ShiftTuple DEF Syndromes
<1>2. Shift(Poly8, Syndromes[2], 0) = Syndromes[3]
  BY <1>0, ShiftTuple DEF Syndromes
<1>3. Shift(Poly8, Syndromes[3], 0) = Syndromes[4]
  BY <1>0, ShiftTuple DEF Syndromes
<1>4. Shift(Poly8, Syndromes[4], 0) = Syndromes[5]
  BY <1>0, ShiftTuple DEF Syndromes
<1>5. Shift(Poly8, Syndromes[5], 0) = Syndromes[6]
  BY <1>0, ShiftTuple DEF Syndromes
<1>6. Shift(Poly8, Syndromes[6], 0) = Syndromes[7]
  BY <1>0, ShiftTuple DEF Syndromes
<1>7. Shift(Poly8, Syndromes[7], 0) = Syndromes[8]
  BY <1>0, ShiftTuple DEF Syndromes
<1>8. Shift(Poly8, Syndromes[8], 0) = Syndromes[9]
  BY <1>0, ShiftTuple DEF Syndromes
<1>9. Shift(Poly8, Syndromes[9], 0) = Syndromes[10]
  BY <1>0, ShiftTuple DEF Syndromes
<1>10. Shift(Poly8, Syndromes[10], 0) = Syndromes[11]
  BY <1>0, ShiftTuple DEF Syndromes
<1>11. Shift(Poly8, Syndromes[11], 0) = Syndromes[12]
  BY <1>0, ShiftTuple DEF Syndromes
<1>12. Shift(Poly8, Syndromes[12], 0) = Syndromes[13]
  BY <1>0, ShiftTuple DEF Syndromes
<1>13. Shift(Poly8, Syndromes[13], 0) = Syndromes[14]
  BY <1>0, ShiftTuple DEF Syndromes
<1>14. Shift(Poly8, Syndromes[14], 0) = Syndromes[15]
  BY <1>0, ShiftTuple DEF Syndromes
<1>15. Shift(Poly8, Syndromes[15], 0) = Syndromes[16]
  BY <1>0, ShiftTuple DEF Syndromes
<1>16. Shift(Poly8, Syndromes[16], 0) = Syndromes[17]
  BY <1>0, ShiftTuple DEF Syndromes
<1>17. Shift(Poly8, Syndromes[17], 0) = Syndromes[18]
  BY <1>0, ShiftTuple DEF Syndromes
<1>18. Shift(Poly8, Syndromes[18], 0) = Syndromes[19]
  BY <1>0, ShiftTuple DEF Syndromes
<1>19. Shift(Poly8, Syndromes[19], 0) = Syndromes[20]
  BY <1>0, ShiftTuple DEF Syndromes
<1>20. Shift(Poly8, Syndromes[20], 0) = Syndromes[21]
  BY <1>0, ShiftTuple DEF Syndromes
<1>21. Shift(Poly8, Syndromes[21], 0) = Syndromes[22]
  BY <1>0, ShiftTuple DEF Syndromes
<1>22. Shift(Poly8, Syndromes[22], 0) = Syndromes[23]
  BY <1>0, ShiftTuple DEF Syndromes
<1>23. Shift(Poly8, Syndromes[23], 0) = Syndromes[24]
  BY <1>0, ShiftTuple DEF Syndromes
<1>24. Shift(Poly8, Syndromes[24], 0) = Syndromes[25]
  BY <1>0, ShiftTuple DEF Syndromes
<1>25. Shift(Poly8, Syndromes[25], 0) = Syndromes[26]
  BY <1>0, ShiftTuple DEF Syndromes
<1>26. Shift(Poly8, Syndromes[26], 0) = Syndromes[27]
  BY <1>0, ShiftTuple DEF Syndromes
<1>27. Shift(Poly8, Syndromes[27], 0) = Syndromes[28]
  BY <1>0, ShiftTuple DEF Syndromes
<1>28. Shift(Poly8, Syndromes[28], 0) = Syndromes[29]
  BY <1>0, ShiftTuple DEF Syndromes
<1>29. Shift(Poly8, Syndromes[29], 0) = Syndromes[30]
  BY <1>0, ShiftTuple DEF Syndromes
<1>30. Shift(Poly8, Syndromes[30], 0) = Syndromes[31]
  BY <1>0, ShiftTuple DEF Syndromes
<1>31. Shift(Poly8, Syndromes[31], 0) = Syndromes[32]
  BY <1>0, ShiftTuple DEF Syndromes
<1>32. \A k \in 1..31 :
      \/ k = 1 \/ k = 2 \/ k = 3 \/ k = 4 \/ k = 5 \/ k = 6 \/ k = 7 \/ k = 8
      \/ k = 9 \/ k = 10 \/ k = 11 \/ k = 12 \/ k = 13 \/ k = 14 \/ k = 15 \/ k = 16
      \/ k = 17 \/ k = 18 \/ k = 19 \/ k = 20 \/ k = 21 \/ k = 22 \/ k = 23 \/ k = 24
      \/ k = 25 \/ k = 26 \/ k = 27 \/ k = 28 \/ k = 29 \/ k = 30 \/ k = 31
  OBVIOUS
<1> QED
  BY <1>1, <1>2, <1>3, <1>4, <1>5, <1>6, <1>7, <1>8, 
     <1>9, <1>10, <1>11, <1>12, <1>13, <1>14, <1>15, <1>16, 
     <1>17, <1>18, <1>19, <1>20, <1>21, <1>22, <1>23, <1>24, 
     <1>25, <1>26, <1>27, <1>28, <1>29, <1>30, <1>31, <1>32

------------------------------------------------------------------------------
(* What one wrong bit, and what two, leave in the register.                   *)

\* One difference, at p, leaves the syndrome of its distance from the end.
LEMMA OneDifference ==
    ASSUME NEW n \in 0..32, NEW e, NEW d, Chain(Poly8, 8, n, e, d), NEW p \in 1..n,
           e[p] = 1, \A i \in 1..n : i # p => e[i] = 0
    PROVE  TwoSet(d[n])
<1>1. d[p] = Syndromes[1]
  <2>1. n \in Nat /\ \A i \in 1..n : i < p => e[i] = 0 OBVIOUS
  <2>2. d[p] = Poly8 BY <2>1, Poly8Is, FirstDifference
  <2> QED BY <2>2 DEF Poly8, Syndromes
<1> DEFINE S == {j \in Nat : p + j <= n => d[p + j] = Syndromes[j + 1]}
<1>2. 0 \in S BY <1>1
<1>3. ASSUME NEW j \in Nat, j \in S PROVE j + 1 \in S
  <2> SUFFICES ASSUME p + (j + 1) <= n PROVE d[p + (j + 1)] = Syndromes[(j + 1) + 1] OBVIOUS
  <2>1. p + (j + 1) \in 1..n /\ (p + (j + 1)) - 1 = p + j /\ p + (j + 1) # p OBVIOUS
  <2>2. d[p + (j + 1)] = Shift(Poly8, d[p + j], 0) BY <2>1 DEF Chain
  <2>3. d[p + j] = Syndromes[j + 1] BY <1>3
  <2>4. j + 1 \in 1..31 OBVIOUS
  <2> QED BY <2>2, <2>3, <2>4, SyndromeShift
<1> HIDE DEF S
<1>4. Nat \subseteq S BY <1>2, <1>3, InductionSet
<1>5. n - p \in S BY <1>4
<1>6. d[n] = Syndromes[(n - p) + 1]
  <2>1. p + (n - p) = n OBVIOUS
  <2> QED BY <1>5, <2>1 DEF S
<1>7. (n - p) + 1 \in 1..32 OBVIOUS
<1> QED BY <1>6, <1>7, SyndromeBits

SetOnlyAt(n, e, p, q) ==
    /\ p \in 1..n /\ q \in 1..n /\ p < q /\ e[p] = 1 /\ e[q] = 1
    /\ \A i \in 1..n : i # p /\ i # q => e[i] = 0

\* After two differences, at p and q, the register is not clear.
LEMMA TwoDifferences ==
    ASSUME NEW n \in 0..32, NEW e, NEW d, Chain(Poly8, 8, n, e, d),
           NEW p, NEW q, SetOnlyAt(n, e, p, q)
    PROVE  d[n] # Zeros(8)
<1> USE DEF SetOnlyAt
<1>1. n \in Nat /\ q \in 0..n OBVIOUS
<1>2. TwoSet(d[q - 1])
  <2>1. q - 1 \in 0..32 /\ p \in 1..(q - 1) OBVIOUS
  <2>2. Chain(Poly8, 8, q - 1, e, d) BY DEF Chain
  <2>3. \A i \in 1..(q - 1) : i # p => e[i] = 0 OBVIOUS
  <2> QED BY <2>1, <2>2, <2>3, OneDifference
<1>3. d[q] # Zeros(8)
  <2>1. d[q] = Shift(Poly8, d[q - 1], 1) BY DEF Chain
  <2>2. q - 1 \in 0..n OBVIOUS
  <2>3. d[q - 1] \in Register(8) BY <1>1, <2>2, Poly8Is, ChainRegisters
  <2> QED BY <1>2, <2>1, <2>3, TwoSetShift
<1>4. \A i \in 1..n : i > q => e[i] = 0 OBVIOUS
<1>5. d[n] = Zeros(8) <=> d[q] = Zeros(8) BY <1>1, <1>4, Poly8Is, NoMoreDifferences
<1> QED BY <1>3, <1>5

LEMMA Crc8IsLast ==
    ASSUME NEW n \in Nat, NEW bits \in [1..n -> Bit]
    PROVE  \E reg : Run(Poly8, [i \in 1..8 |-> 1], n, bits, reg) /\ Crc8(bits) = reg[n]
BY CrcIsLast DEF Crc8, Poly8

\* The checksums of two words differ by the last register of their difference.
LEMMA CrcDifference ==
    ASSUME NEW n \in Nat, NEW m \in [1..n -> Bit], NEW x \in [1..n -> Bit],
           NEW e, Difference(n, m, x, e)
    PROVE  \E d : /\ Chain(Poly8, 8, n, e, d)
                  /\ d[n] = Xor(8, Crc8(m), Crc8(x))
                  /\ Crc8(m) \in Register(8) /\ Crc8(x) \in Register(8)
<1> DEFINE init == [i \in 1..8 |-> 1]
<1>1. init \in Register(8) BY DEF Register
<1>2. PICK r : Run(Poly8, init, n, m, r) /\ Crc8(m) = r[n] BY Crc8IsLast
<1>3. PICK s : Run(Poly8, init, n, x, s) /\ Crc8(x) = s[n] BY Crc8IsLast
<1> HIDE DEF init
<1> DEFINE d == [i \in 0..n |-> Xor(8, r[i], s[i])]
<1>4. Differences(8, n, r, s, d) BY DEF Differences
<1>5. d[n] = Xor(8, r[n], s[n]) OBVIOUS
<1> HIDE DEF d
<1>6. Chain(Poly8, 8, n, e, d) /\ r[n] \in Register(8) /\ s[n] \in Register(8)
  BY <1>1, <1>2, <1>3, <1>4, Poly8Is, RunDifference
<1> QED BY <1>2, <1>3, <1>5, <1>6

LEMMA Crc8IsRegister ==
    ASSUME NEW n \in Nat, NEW m \in [1..n -> Bit]
    PROVE  Crc8(m) \in Register(8)
<1> DEFINE e == [i \in 1..n |-> (m[i] + m[i]) % 2]
<1>1. Difference(n, m, m, e) BY DEF Difference
<1> HIDE DEF e
<1> QED BY <1>1, CrcDifference

------------------------------------------------------------------------------
(* Replies.                                                                   *)

\* Of a word m and its checksum, received as x and u, only the bits a and b of
\* the forty are wrong.
WrongOnlyAt(m, x, u, a, b) ==
    /\ \A i \in 1..32 : i # a /\ i # b => x[i] = m[i]
    /\ \A j \in 1..8 : 32 + j # a /\ 32 + j # b => u[j] = Crc8(m)[j]

\* A word and its checksum with up to two bits wrong, at a and b: if the
\* checksum still fits, the word is the one sent.  With one bit of the word
\* wrong two bits of the checksum would be, with two none could be.
LEMMA ReplyDistance ==
    ASSUME NEW m \in [1..32 -> Bit], NEW x \in [1..32 -> Bit],
           NEW u \in Register(8), NEW a, NEW b, WrongOnlyAt(m, x, u, a, b), Crc8(x) = u
    PROVE  \A i \in 1..32 : x[i] = m[i]
<1> USE DEF WrongOnlyAt
<1> DEFINE e == [i \in 1..32 |-> (m[i] + x[i]) % 2]
<1>1. PICK d : /\ Chain(Poly8, 8, 32, e, d) /\ d[32] = Xor(8, Crc8(m), Crc8(x))
               /\ Crc8(m) \in Register(8) /\ Crc8(x) \in Register(8)
  <2>1. PICK n \in Nat : n = 32 OBVIOUS
  <2>2. m \in [1..n -> Bit] /\ x \in [1..n -> Bit] /\ Difference(n, m, x, e)
    BY <2>1 DEF Difference
  <2> HIDE DEF e
  <2>3. \E d : /\ Chain(Poly8, 8, n, e, d) /\ d[n] = Xor(8, Crc8(m), Crc8(x))
               /\ Crc8(m) \in Register(8) /\ Crc8(x) \in Register(8)
    BY <2>2, CrcDifference
  <2> QED BY <2>1, <2>3
<1>2. \A i \in 1..32 : m[i] \in 0..1 /\ x[i] \in 0..1 BY DEF Bit
<1>3. \A i \in 1..32 : /\ x[i] # m[i] => e[i] = 1
                       /\ x[i] = m[i] => e[i] = 0
  <2>1. \A y, z \in 0..1 : /\ z # y => (y + z) % 2 = 1
                           /\ z = y => (y + z) % 2 = 0
    OBVIOUS
  <2> QED BY <1>2, <2>1
<1> HIDE DEF e
<1> SUFFICES ASSUME NEW p \in 1..32, x[p] # m[p] PROVE FALSE OBVIOUS
<1>4. p = a \/ p = b OBVIOUS
<1>5. CASE \A i \in 1..32 : i # p => x[i] = m[i]
  <2>1. TwoSet(d[32])
    <3>1. PICK n \in 0..32 : n = 32 OBVIOUS
    <3>2. Chain(Poly8, 8, n, e, d) /\ p \in 1..n BY <1>1, <3>1
    <3>3. e[p] = 1 /\ \A i \in 1..n : i # p => e[i] = 0 BY <1>3, <1>5, <3>1
    <3>4. TwoSet(d[n]) BY <3>2, <3>3, OneDifference
    <3> QED BY <3>1, <3>4
  <2>2. PICK i \in 1..8, j \in 1..8 : i # j /\ d[32][i] = 1 /\ d[32][j] = 1
    BY <2>1 DEF TwoSet
  <2>3. ASSUME NEW k \in 1..8, d[32][k] = 1 PROVE u[k] # Crc8(m)[k]
    <3>1. d[32][k] = (Crc8(m)[k] + Crc8(x)[k]) % 2 BY <1>1, Poly8Is, XorIs
    <3>2. Crc8(m)[k] \in 0..1 BY <1>1 DEF Register
    <3>3. \A y \in 0..1 : (y + y) % 2 # 1 OBVIOUS
    <3> QED BY <2>3, <3>1, <3>2, <3>3
  <2>4. u[i] # Crc8(m)[i] /\ u[j] # Crc8(m)[j] BY <2>2, <2>3
  <2>5. (32 + i = a \/ 32 + i = b) /\ (32 + j = a \/ 32 + j = b) BY <2>4
  <2>6. 32 + i # 32 + j /\ 32 + i # p /\ 32 + j # p BY <2>2
  <2> QED BY <1>4, <2>5, <2>6
<1>6. CASE \E i \in 1..32 : i # p /\ x[i] # m[i]
  <2>1. PICK q \in 1..32 : q # p /\ x[q] # m[q] BY <1>6
  <2>2. \A i \in 1..32 : i # p /\ i # q => x[i] = m[i] BY <1>4, <2>1
  <2>3. d[32] # Zeros(8)
    <3>1. PICK n \in 0..32 : n = 32 OBVIOUS
    <3>2. Chain(Poly8, 8, n, e, d) BY <1>1, <3>1
    <3>3. /\ p \in 1..n /\ q \in 1..n /\ e[p] = 1 /\ e[q] = 1
          /\ \A i \in 1..n : i # p /\ i # q => e[i] = 0
      BY <1>3, <2>1, <2>2, <3>1
    <3>4. d[n] # Zeros(8)
      <4>1. CASE p < q
        <5>1. SetOnlyAt(n, e, p, q) BY <3>3, <4>1 DEF SetOnlyAt
        <5> QED BY <3>1, <3>2, <5>1, TwoDifferences
      <4>2. CASE q < p
        <5>1. SetOnlyAt(n, e, q, p) BY <3>3, <4>2 DEF SetOnlyAt
        <5> QED BY <3>1, <3>2, <5>1, TwoDifferences
      <4> QED BY <2>1, <4>1, <4>2
    <3> QED BY <3>1, <3>4
  <2>4. Crc8(x) = Crc8(m)
    <3>1. ASSUME NEW j \in 1..8 PROVE u[j] = Crc8(m)[j]
      <4>1. 32 + j # a /\ 32 + j # b BY <1>4, <2>1
      <4> QED BY <4>1
    <3>2. u[1] = Crc8(m)[1] /\ u[2] = Crc8(m)[2] /\ u[3] = Crc8(m)[3] /\ u[4] = Crc8(m)[4]
          /\ u[5] = Crc8(m)[5] /\ u[6] = Crc8(m)[6] /\ u[7] = Crc8(m)[7] /\ u[8] = Crc8(m)[8]
      BY <3>1
    <3> QED BY <1>1, <3>2, SameRegister8
  <2>5. d[32] = Zeros(8) BY <1>1, <2>4, XorIs
  <2> QED BY <2>3, <2>5
<1> QED BY <1>5, <1>6

------------------------------------------------------------------------------
(* The CRC16 of a Hitag micro response.                                       *)

Poly16 == <<0, 0, 0, 1, 0, 0, 0, 0, 0, 0, 1, 0, 0, 0, 0, 1>>

LEMMA Poly16Is == Poly16 \in Register(16) /\ Poly16[16] = 1
BY DEF Poly16, Register

\* The bits of a register.
Bits16(r, a, b, c, d, e, f, g, h, i, j, k, l, m, n, o, p) ==
    /\ r \in Register(16)
    /\ r[1] = a /\ r[2] = b /\ r[3] = c /\ r[4] = d /\ r[5] = e /\ r[6] = f
    /\ r[7] = g /\ r[8] = h /\ r[9] = i /\ r[10] = j /\ r[11] = k /\ r[12] = l
    /\ r[13] = m /\ r[14] = n /\ r[15] = o /\ r[16] = p

LEMMA Poly16Bits == Bits16(Poly16, 0, 0, 0, 1, 0, 0, 0, 0, 0, 0, 1, 0, 0, 0, 0, 1)
BY Poly16Is DEF Bits16, Poly16

\* A zero moves a register up; its first bit, when set, turns three others.
LEMMA ShiftBits16 ==
    ASSUME NEW r \in Register(16)
    PROVE  LET t == Shift(Poly16, r, 0)
           IN  /\ t \in Register(16)
               /\ t[1] = r[2] /\ t[2] = r[3] /\ t[3] = r[4] /\ t[5] = r[6]
               /\ t[6] = r[7] /\ t[7] = r[8] /\ t[8] = r[9] /\ t[9] = r[10]
               /\ t[10] = r[11] /\ t[12] = r[13] /\ t[13] = r[14] /\ t[14] = r[15]
               /\ t[15] = r[16] /\ t[16] = r[1]
               /\ t[4] = (IF r[1] = 1 THEN 1 - r[5] ELSE r[5])
               /\ t[11] = (IF r[1] = 1 THEN 1 - r[12] ELSE r[12])
<1> DEFINE t == Shift(Poly16, r, 0)
           x == (r[1] + 0) % 2
<1>1. 16 \in Nat \ {0} /\ 0 \in 0..1 /\ Poly16 \in Register(16) BY Poly16Is
<1>2. /\ t \in Register(16)
      /\ \A i \in 1..16 : t[i] = ((IF i < 16 THEN r[i + 1] ELSE 0) + x * Poly16[i]) % 2
  BY <1>1, ShiftIs
<1> HIDE DEF t
<1>3. \A i \in 1..16 : r[i] \in 0..1 BY DEF Register
<1>4. x = r[1] /\ x \in 0..1 BY <1>3
<1> HIDE DEF x
<1>5. x * 0 = 0 /\ x * 1 = x BY <1>4
<1>6. ASSUME NEW i \in 1..15, Poly16[i] = 0 PROVE t[i] = r[i + 1]
  <2>1. r[i + 1] \in 0..1 BY <1>3
  <2>2. t[i] = (r[i + 1] + 0) % 2 BY <1>2, <1>5, <1>6
  <2> DEFINE y == r[i + 1]
  <2> HIDE DEF y
  <2>3. t[i] = y BY <2>1, <2>2 DEF y
  <2> QED BY <2>3 DEF y
<1>7. ASSUME NEW i \in 1..15, Poly16[i] = 1
      PROVE  t[i] = (IF r[1] = 1 THEN 1 - r[i + 1] ELSE r[i + 1])
  <2> DEFINE y == r[i + 1]
  <2>1. y \in 0..1 BY <1>3
  <2>2. t[i] = (y + x) % 2 BY <1>2, <1>5, <1>7
  <2> HIDE DEF y
  <2>3. t[i] = (IF x = 1 THEN 1 - y ELSE y) BY <1>4, <2>1, <2>2
  <2> QED BY <1>4, <2>3 DEF y
<1>8. /\ Poly16[1] = 0 /\ Poly16[2] = 0 /\ Poly16[3] = 0 /\ Poly16[4] = 1
      /\ Poly16[5] = 0 /\ Poly16[6] = 0 /\ Poly16[7] = 0 /\ Poly16[8] = 0
      /\ Poly16[9] = 0 /\ Poly16[10] = 0 /\ Poly16[11] = 1 /\ Poly16[12] = 0
      /\ Poly16[13] = 0 /\ Poly16[14] = 0 /\ Poly16[15] = 0 /\ Poly16[16] = 1
  BY DEF Poly16
<1>9. t[16] = r[1]
  <2>1. t[16] = (0 + x * 1) % 2 BY <1>2, <1>8
  <2> QED BY <1>4, <1>5, <2>1
<1>10. t[4] = (IF r[1] = 1 THEN 1 - r[5] ELSE r[5]) BY <1>7, <1>8
<1>11. t[11] = (IF r[1] = 1 THEN 1 - r[12] ELSE r[12]) BY <1>7, <1>8
<1>12. /\ t[1] = r[2] /\ t[2] = r[3] /\ t[3] = r[4] /\ t[5] = r[6]
       /\ t[6] = r[7] /\ t[7] = r[8] /\ t[8] = r[9] /\ t[9] = r[10]
       /\ t[10] = r[11] /\ t[12] = r[13] /\ t[13] = r[14] /\ t[14] = r[15]
       /\ t[15] = r[16]
  BY <1>6, <1>8
<1> QED BY <1>2, <1>9, <1>10, <1>11, <1>12 DEF t

LEMMA MoveBits16 ==
    ASSUME NEW b, NEW c, NEW d, NEW f, NEW g, NEW h, NEW i, NEW j, NEW k,
           NEW m, NEW n, NEW o, NEW p, NEW r
    PROVE
    /\ Bits16(r, 0, b, c, d, 0, f, g, h, i, j, k, 0, m, n, o, p) =>
          Bits16(Shift(Poly16, r, 0), b, c, d, 0, f, g, h, i, j, k, 0, m, n, o, p, 0)
    /\ Bits16(r, 0, b, c, d, 0, f, g, h, i, j, k, 1, m, n, o, p) =>
          Bits16(Shift(Poly16, r, 0), b, c, d, 0, f, g, h, i, j, k, 1, m, n, o, p, 0)
    /\ Bits16(r, 0, b, c, d, 1, f, g, h, i, j, k, 0, m, n, o, p) =>
          Bits16(Shift(Poly16, r, 0), b, c, d, 1, f, g, h, i, j, k, 0, m, n, o, p, 0)
    /\ Bits16(r, 0, b, c, d, 1, f, g, h, i, j, k, 1, m, n, o, p) =>
          Bits16(Shift(Poly16, r, 0), b, c, d, 1, f, g, h, i, j, k, 1, m, n, o, p, 0)
    /\ Bits16(r, 1, b, c, d, 0, f, g, h, i, j, k, 0, m, n, o, p) =>
          Bits16(Shift(Poly16, r, 0), b, c, d, 1, f, g, h, i, j, k, 1, m, n, o, p, 1)
    /\ Bits16(r, 1, b, c, d, 0, f, g, h, i, j, k, 1, m, n, o, p) =>
          Bits16(Shift(Poly16, r, 0), b, c, d, 1, f, g, h, i, j, k, 0, m, n, o, p, 1)
    /\ Bits16(r, 1, b, c, d, 1, f, g, h, i, j, k, 0, m, n, o, p) =>
          Bits16(Shift(Poly16, r, 0), b, c, d, 0, f, g, h, i, j, k, 1, m, n, o, p, 1)
    /\ Bits16(r, 1, b, c, d, 1, f, g, h, i, j, k, 1, m, n, o, p) =>
          Bits16(Shift(Poly16, r, 0), b, c, d, 0, f, g, h, i, j, k, 0, m, n, o, p, 1)
<1> DEFINE t == Shift(Poly16, r, 0)
<1>1. r \in Register(16) =>
        /\ t \in Register(16)
        /\ t[1] = r[2] /\ t[2] = r[3] /\ t[3] = r[4] /\ t[5] = r[6]
        /\ t[6] = r[7] /\ t[7] = r[8] /\ t[8] = r[9] /\ t[9] = r[10]
        /\ t[10] = r[11] /\ t[12] = r[13] /\ t[13] = r[14] /\ t[14] = r[15]
        /\ t[15] = r[16] /\ t[16] = r[1]
        /\ t[4] = (IF r[1] = 1 THEN 1 - r[5] ELSE r[5])
        /\ t[11] = (IF r[1] = 1 THEN 1 - r[12] ELSE r[12])
  BY ShiftBits16
<1> HIDE DEF t
<1>2. 1 - 0 = 1 /\ 1 - 1 = 0 /\ 0 # 1 OBVIOUS
<1> QED BY <1>1, <1>2 DEF Bits16, t

\* Within 64 zeros the polynomial does not come back.
LEMMA NoReturn16 ==
    ASSUME NEW d, d[0] = Poly16, \A i \in 1..64 : d[i] = Shift(Poly16, d[i - 1], 0)
    PROVE  \A i \in 1..64 : d[i] # Poly16
<1>0. Bits16(d[0], 0, 0, 0, 1, 0, 0, 0, 0, 0, 0, 1, 0, 0, 0, 0, 1) BY Poly16Bits
<1>1. /\ Bits16(d[1], 0, 0, 1, 0, 0, 0, 0, 0, 0, 1, 0, 0, 0, 0, 1, 0)
      /\ Bits16(d[2], 0, 1, 0, 0, 0, 0, 0, 0, 1, 0, 0, 0, 0, 1, 0, 0)
      /\ Bits16(d[3], 1, 0, 0, 0, 0, 0, 0, 1, 0, 0, 0, 0, 1, 0, 0, 0)
      /\ Bits16(d[4], 0, 0, 0, 1, 0, 0, 1, 0, 0, 0, 1, 1, 0, 0, 0, 1)
      /\ Bits16(d[5], 0, 0, 1, 0, 0, 1, 0, 0, 0, 1, 1, 0, 0, 0, 1, 0)
      /\ Bits16(d[6], 0, 1, 0, 0, 1, 0, 0, 0, 1, 1, 0, 0, 0, 1, 0, 0)
      /\ Bits16(d[7], 1, 0, 0, 1, 0, 0, 0, 1, 1, 0, 0, 0, 1, 0, 0, 0)
      /\ Bits16(d[8], 0, 0, 1, 1, 0, 0, 1, 1, 0, 0, 1, 1, 0, 0, 0, 1)
  <2>1. /\ d[1] = Shift(Poly16, d[0], 0)
        /\ d[2] = Shift(Poly16, d[1], 0)
        /\ d[3] = Shift(Poly16, d[2], 0)
        /\ d[4] = Shift(Poly16, d[3], 0)
        /\ d[5] = Shift(Poly16, d[4], 0)
        /\ d[6] = Shift(Poly16, d[5], 0)
        /\ d[7] = Shift(Poly16, d[6], 0)
        /\ d[8] = Shift(Poly16, d[7], 0)
    OBVIOUS
  <2> QED BY <1>0, <2>1, MoveBits16
<1>2. /\ Bits16(d[9], 0, 1, 1, 0, 0, 1, 1, 0, 0, 1, 1, 0, 0, 0, 1, 0)
      /\ Bits16(d[10], 1, 1, 0, 0, 1, 1, 0, 0, 1, 1, 0, 0, 0, 1, 0, 0)
      /\ Bits16(d[11], 1, 0, 0, 0, 1, 0, 0, 1, 1, 0, 1, 0, 1, 0, 0, 1)
      /\ Bits16(d[12], 0, 0, 0, 0, 0, 0, 1, 1, 0, 1, 1, 1, 0, 0, 1, 1)
      /\ Bits16(d[13], 0, 0, 0, 0, 0, 1, 1, 0, 1, 1, 1, 0, 0, 1, 1, 0)
      /\ Bits16(d[14], 0, 0, 0, 0, 1, 1, 0, 1, 1, 1, 0, 0, 1, 1, 0, 0)
      /\ Bits16(d[15], 0, 0, 0, 1, 1, 0, 1, 1, 1, 0, 0, 1, 1, 0, 0, 0)
      /\ Bits16(d[16], 0, 0, 1, 1, 0, 1, 1, 1, 0, 0, 1, 1, 0, 0, 0, 0)
  <2>1. /\ d[9] = Shift(Poly16, d[8], 0)
        /\ d[10] = Shift(Poly16, d[9], 0)
        /\ d[11] = Shift(Poly16, d[10], 0)
        /\ d[12] = Shift(Poly16, d[11], 0)
        /\ d[13] = Shift(Poly16, d[12], 0)
        /\ d[14] = Shift(Poly16, d[13], 0)
        /\ d[15] = Shift(Poly16, d[14], 0)
        /\ d[16] = Shift(Poly16, d[15], 0)
    OBVIOUS
  <2> QED BY <1>1, <2>1, MoveBits16
<1>3. /\ Bits16(d[17], 0, 1, 1, 0, 1, 1, 1, 0, 0, 1, 1, 0, 0, 0, 0, 0)
      /\ Bits16(d[18], 1, 1, 0, 1, 1, 1, 0, 0, 1, 1, 0, 0, 0, 0, 0, 0)
      /\ Bits16(d[19], 1, 0, 1, 0, 1, 0, 0, 1, 1, 0, 1, 0, 0, 0, 0, 1)
      /\ Bits16(d[20], 0, 1, 0, 0, 0, 0, 1, 1, 0, 1, 1, 0, 0, 0, 1, 1)
      /\ Bits16(d[21], 1, 0, 0, 0, 0, 1, 1, 0, 1, 1, 0, 0, 0, 1, 1, 0)
      /\ Bits16(d[22], 0, 0, 0, 1, 1, 1, 0, 1, 1, 0, 1, 0, 1, 1, 0, 1)
      /\ Bits16(d[23], 0, 0, 1, 1, 1, 0, 1, 1, 0, 1, 0, 1, 1, 0, 1, 0)
      /\ Bits16(d[24], 0, 1, 1, 1, 0, 1, 1, 0, 1, 0, 1, 1, 0, 1, 0, 0)
  <2>1. /\ d[17] = Shift(Poly16, d[16], 0)
        /\ d[18] = Shift(Poly16, d[17], 0)
        /\ d[19] = Shift(Poly16, d[18], 0)
        /\ d[20] = Shift(Poly16, d[19], 0)
        /\ d[21] = Shift(Poly16, d[20], 0)
        /\ d[22] = Shift(Poly16, d[21], 0)
        /\ d[23] = Shift(Poly16, d[22], 0)
        /\ d[24] = Shift(Poly16, d[23], 0)
    OBVIOUS
  <2> QED BY <1>2, <2>1, MoveBits16
<1>4. /\ Bits16(d[25], 1, 1, 1, 0, 1, 1, 0, 1, 0, 1, 1, 0, 1, 0, 0, 0)
      /\ Bits16(d[26], 1, 1, 0, 0, 1, 0, 1, 0, 1, 1, 1, 1, 0, 0, 0, 1)
      /\ Bits16(d[27], 1, 0, 0, 0, 0, 1, 0, 1, 1, 1, 0, 0, 0, 0, 1, 1)
      /\ Bits16(d[28], 0, 0, 0, 1, 1, 0, 1, 1, 1, 0, 1, 0, 0, 1, 1, 1)
      /\ Bits16(d[29], 0, 0, 1, 1, 0, 1, 1, 1, 0, 1, 0, 0, 1, 1, 1, 0)
      /\ Bits16(d[30], 0, 1, 1, 0, 1, 1, 1, 0, 1, 0, 0, 1, 1, 1, 0, 0)
      /\ Bits16(d[31], 1, 1, 0, 1, 1, 1, 0, 1, 0, 0, 1, 1, 1, 0, 0, 0)
      /\ Bits16(d[32], 1, 0, 1, 0, 1, 0, 1, 0, 0, 1, 0, 1, 0, 0, 0, 1)
  <2>1. /\ d[25] = Shift(Poly16, d[24], 0)
        /\ d[26] = Shift(Poly16, d[25], 0)
        /\ d[27] = Shift(Poly16, d[26], 0)
        /\ d[28] = Shift(Poly16, d[27], 0)
        /\ d[29] = Shift(Poly16, d[28], 0)
        /\ d[30] = Shift(Poly16, d[29], 0)
        /\ d[31] = Shift(Poly16, d[30], 0)
        /\ d[32] = Shift(Poly16, d[31], 0)
    OBVIOUS
  <2> QED BY <1>3, <2>1, MoveBits16
<1>5. /\ Bits16(d[33], 0, 1, 0, 0, 0, 1, 0, 0, 1, 0, 0, 0, 0, 0, 1, 1)
      /\ Bits16(d[34], 1, 0, 0, 0, 1, 0, 0, 1, 0, 0, 0, 0, 0, 1, 1, 0)
      /\ Bits16(d[35], 0, 0, 0, 0, 0, 0, 1, 0, 0, 0, 1, 0, 1, 1, 0, 1)
      /\ Bits16(d[36], 0, 0, 0, 0, 0, 1, 0, 0, 0, 1, 0, 1, 1, 0, 1, 0)
      /\ Bits16(d[37], 0, 0, 0, 0, 1, 0, 0, 0, 1, 0, 1, 1, 0, 1, 0, 0)
      /\ Bits16(d[38], 0, 0, 0, 1, 0, 0, 0, 1, 0, 1, 1, 0, 1, 0, 0, 0)
      /\ Bits16(d[39], 0, 0, 1, 0, 0, 0, 1, 0, 1, 1, 0, 1, 0, 0, 0, 0)
      /\ Bits16(d[40], 0, 1, 0, 0, 0, 1, 0, 1, 1, 0, 1, 0, 0, 0, 0, 0)
  <2>1. /\ d[33] = Shift(Poly16, d[32], 0)
        /\ d[34] = Shift(Poly16, d[33], 0)
        /\ d[35] = Shift(Poly16, d[34], 0)
        /\ d[36] = Shift(Poly16, d[35], 0)
        /\ d[37] = Shift(Poly16, d[36], 0)
        /\ d[38] = Shift(Poly16, d[37], 0)
        /\ d[39] = Shift(Poly16, d[38], 0)
        /\ d[40] = Shift(Poly16, d[39], 0)
    OBVIOUS
  <2> QED BY <1>4, <2>1, MoveBits16
<1>6. /\ Bits16(d[41], 1, 0, 0, 0, 1, 0, 1, 1, 0, 1, 0, 0, 0, 0, 0, 0)
      /\ Bits16(d[42], 0, 0, 0, 0, 0, 1, 1, 0, 1, 0, 1, 0, 0, 0, 0, 1)
      /\ Bits16(d[43], 0, 0, 0, 0, 1, 1, 0, 1, 0, 1, 0, 0, 0, 0, 1, 0)
      /\ Bits16(d[44], 0, 0, 0, 1, 1, 0, 1, 0, 1, 0, 0, 0, 0, 1, 0, 0)
      /\ Bits16(d[45], 0, 0, 1, 1, 0, 1, 0, 1, 0, 0, 0, 0, 1, 0, 0, 0)
      /\ Bits16(d[46], 0, 1, 1, 0, 1, 0, 1, 0, 0, 0, 0, 1, 0, 0, 0, 0)
      /\ Bits16(d[47], 1, 1, 0, 1, 0, 1, 0, 0, 0, 0, 1, 0, 0, 0, 0, 0)
      /\ Bits16(d[48], 1, 0, 1, 1, 1, 0, 0, 0, 0, 1, 1, 0, 0, 0, 0, 1)
  <2>1. /\ d[41] = Shift(Poly16, d[40], 0)
        /\ d[42] = Shift(Poly16, d[41], 0)
        /\ d[43] = Shift(Poly16, d[42], 0)
        /\ d[44] = Shift(Poly16, d[43], 0)
        /\ d[45] = Shift(Poly16, d[44], 0)
        /\ d[46] = Shift(Poly16, d[45], 0)
        /\ d[47] = Shift(Poly16, d[46], 0)
        /\ d[48] = Shift(Poly16, d[47], 0)
    OBVIOUS
  <2> QED BY <1>5, <2>1, MoveBits16
<1>7. /\ Bits16(d[49], 0, 1, 1, 0, 0, 0, 0, 0, 1, 1, 1, 0, 0, 0, 1, 1)
      /\ Bits16(d[50], 1, 1, 0, 0, 0, 0, 0, 1, 1, 1, 0, 0, 0, 1, 1, 0)
      /\ Bits16(d[51], 1, 0, 0, 1, 0, 0, 1, 1, 1, 0, 1, 0, 1, 1, 0, 1)
      /\ Bits16(d[52], 0, 0, 1, 1, 0, 1, 1, 1, 0, 1, 1, 1, 1, 0, 1, 1)
      /\ Bits16(d[53], 0, 1, 1, 0, 1, 1, 1, 0, 1, 1, 1, 1, 0, 1, 1, 0)
      /\ Bits16(d[54], 1, 1, 0, 1, 1, 1, 0, 1, 1, 1, 1, 0, 1, 1, 0, 0)
      /\ Bits16(d[55], 1, 0, 1, 0, 1, 0, 1, 1, 1, 1, 1, 1, 1, 0, 0, 1)
      /\ Bits16(d[56], 0, 1, 0, 0, 0, 1, 1, 1, 1, 1, 0, 1, 0, 0, 1, 1)
  <2>1. /\ d[49] = Shift(Poly16, d[48], 0)
        /\ d[50] = Shift(Poly16, d[49], 0)
        /\ d[51] = Shift(Poly16, d[50], 0)
        /\ d[52] = Shift(Poly16, d[51], 0)
        /\ d[53] = Shift(Poly16, d[52], 0)
        /\ d[54] = Shift(Poly16, d[53], 0)
        /\ d[55] = Shift(Poly16, d[54], 0)
        /\ d[56] = Shift(Poly16, d[55], 0)
    OBVIOUS
  <2> QED BY <1>6, <2>1, MoveBits16
<1>8. /\ Bits16(d[57], 1, 0, 0, 0, 1, 1, 1, 1, 1, 0, 1, 0, 0, 1, 1, 0)
      /\ Bits16(d[58], 0, 0, 0, 0, 1, 1, 1, 1, 0, 1, 1, 0, 1, 1, 0, 1)
      /\ Bits16(d[59], 0, 0, 0, 1, 1, 1, 1, 0, 1, 1, 0, 1, 1, 0, 1, 0)
      /\ Bits16(d[60], 0, 0, 1, 1, 1, 1, 0, 1, 1, 0, 1, 1, 0, 1, 0, 0)
      /\ Bits16(d[61], 0, 1, 1, 1, 1, 0, 1, 1, 0, 1, 1, 0, 1, 0, 0, 0)
      /\ Bits16(d[62], 1, 1, 1, 1, 0, 1, 1, 0, 1, 1, 0, 1, 0, 0, 0, 0)
      /\ Bits16(d[63], 1, 1, 1, 1, 1, 1, 0, 1, 1, 0, 0, 0, 0, 0, 0, 1)
      /\ Bits16(d[64], 1, 1, 1, 0, 1, 0, 1, 1, 0, 0, 1, 0, 0, 0, 1, 1)
  <2>1. /\ d[57] = Shift(Poly16, d[56], 0)
        /\ d[58] = Shift(Poly16, d[57], 0)
        /\ d[59] = Shift(Poly16, d[58], 0)
        /\ d[60] = Shift(Poly16, d[59], 0)
        /\ d[61] = Shift(Poly16, d[60], 0)
        /\ d[62] = Shift(Poly16, d[61], 0)
        /\ d[63] = Shift(Poly16, d[62], 0)
        /\ d[64] = Shift(Poly16, d[63], 0)
    OBVIOUS
  <2> QED BY <1>7, <2>1, MoveBits16
<1>9. 0 # 1 /\ \A a, b, c, e, f, g, h, i, j, k, l, m, n, o, p, q :
         Bits16(Poly16, a, b, c, e, f, g, h, i, j, k, l, m, n, o, p, q) =>
            /\ a = 0 /\ b = 0 /\ c = 0 /\ e = 1 /\ f = 0 /\ g = 0 /\ h = 0 /\ i = 0
            /\ j = 0 /\ k = 0 /\ l = 1 /\ m = 0 /\ n = 0 /\ o = 0 /\ p = 0 /\ q = 1
  BY Poly16Bits DEF Bits16
<1>10. d[1] # Poly16 /\ d[2] # Poly16 /\ d[3] # Poly16 /\ d[4] # Poly16
       /\ d[5] # Poly16 /\ d[6] # Poly16 /\ d[7] # Poly16 /\ d[8] # Poly16
  BY <1>1, <1>9
<1>11. d[9] # Poly16 /\ d[10] # Poly16 /\ d[11] # Poly16 /\ d[12] # Poly16
       /\ d[13] # Poly16 /\ d[14] # Poly16 /\ d[15] # Poly16 /\ d[16] # Poly16
  BY <1>2, <1>9
<1>12. d[17] # Poly16 /\ d[18] # Poly16 /\ d[19] # Poly16 /\ d[20] # Poly16
       /\ d[21] # Poly16 /\ d[22] # Poly16 /\ d[23] # Poly16 /\ d[24] # Poly16
  BY <1>3, <1>9
<1>13. d[25] # Poly16 /\ d[26] # Poly16 /\ d[27] # Poly16 /\ d[28] # Poly16
       /\ d[29] # Poly16 /\ d[30] # Poly16 /\ d[31] # Poly16 /\ d[32] # Poly16
  BY <1>4, <1>9
<1>14. d[33] # Poly16 /\ d[34] # Poly16 /\ d[35] # Poly16 /\ d[36] # Poly16
       /\ d[37] # Poly16 /\ d[38] # Poly16 /\ d[39] # Poly16 /\ d[40] # Poly16
  BY <1>5, <1>9
<1>15. d[41] # Poly16 /\ d[42] # Poly16 /\ d[43] # Poly16 /\ d[44] # Poly16
       /\ d[45] # Poly16 /\ d[46] # Poly16 /\ d[47] # Poly16 /\ d[48] # Poly16
  BY <1>6, <1>9
<1>16. d[49] # Poly16 /\ d[50] # Poly16 /\ d[51] # Poly16 /\ d[52] # Poly16
       /\ d[53] # Poly16 /\ d[54] # Poly16 /\ d[55] # Poly16 /\ d[56] # Poly16
  BY <1>7, <1>9
<1>17. d[57] # Poly16 /\ d[58] # Poly16 /\ d[59] # Poly16 /\ d[60] # Poly16
       /\ d[61] # Poly16 /\ d[62] # Poly16 /\ d[63] # Poly16 /\ d[64] # Poly16
  BY <1>8, <1>9
<1>18. \A i \in 1..64 :
         \/ i = 1 \/ i = 2 \/ i = 3 \/ i = 4 \/ i = 5 \/ i = 6 \/ i = 7 \/ i = 8
         \/ i = 9 \/ i = 10 \/ i = 11 \/ i = 12 \/ i = 13 \/ i = 14 \/ i = 15 \/ i = 16
         \/ i = 17 \/ i = 18 \/ i = 19 \/ i = 20 \/ i = 21 \/ i = 22 \/ i = 23 \/ i = 24
         \/ i = 25 \/ i = 26 \/ i = 27 \/ i = 28 \/ i = 29 \/ i = 30 \/ i = 31 \/ i = 32
         \/ i = 33 \/ i = 34 \/ i = 35 \/ i = 36 \/ i = 37 \/ i = 38 \/ i = 39 \/ i = 40
         \/ i = 41 \/ i = 42 \/ i = 43 \/ i = 44 \/ i = 45 \/ i = 46 \/ i = 47 \/ i = 48
         \/ i = 49 \/ i = 50 \/ i = 51 \/ i = 52 \/ i = 53 \/ i = 54 \/ i = 55 \/ i = 56
         \/ i = 57 \/ i = 58 \/ i = 59 \/ i = 60 \/ i = 61 \/ i = 62 \/ i = 63 \/ i = 64
  OBVIOUS
<1> QED BY <1>10, <1>11, <1>12, <1>13, <1>14, <1>15, <1>16, <1>17, <1>18
\* One or two differences among 65 bits leave a register that is not clear.
LEMMA FewDifferences16 ==
    ASSUME NEW e, NEW d, Chain(Poly16, 16, 65, e, d),
           NEW p, NEW q, SetBetween(65, e, p, q)
    PROVE  d[65] # Zeros(16)
<1> USE DEF SetBetween
<1>0. PICK w \in Nat \ {0}, n \in Nat : w = 16 /\ n = 65 OBVIOUS
<1>1. Poly16 \in Register(w) /\ Poly16[w] = 1 /\ Chain(Poly16, w, n, e, d) /\ p \in 1..n
  BY <1>0, Poly16Is
<1>2. d[p] = Poly16
  <2>1. \A i \in 1..n : i < p => e[i] = 0 BY <1>0
  <2> QED BY <1>1, <2>1, FirstDifference
<1>3. Poly16 # Zeros(w) BY <1>0, <1>1, ZerosIs
<1>4. \A i \in 0..n : d[i] \in Register(w) BY <1>1, ChainRegisters
<1>5. CASE p = q
  <2>1. p \in 0..n /\ \A i \in 1..n : i > p => e[i] = 0 BY <1>0, <1>5
  <2>2. d[n] = Zeros(w) <=> d[p] = Zeros(w) BY <1>1, <2>1, NoMoreDifferences
  <2> QED BY <1>0, <1>2, <1>3, <2>2
<1>6. CASE p # q
  <2>1. p < q BY <1>6
  <2>2. PICK c : Registers(Poly16, Poly16, 64, [i \in 1..64 |-> 0], c)
    <3>1. 64 \in Nat OBVIOUS
    <3> QED BY <3>1, RegistersExist
  <2>3. c[0] = Poly16 /\ \A i \in 1..64 : c[i] = Shift(Poly16, c[i - 1], 0)
    BY <2>2 DEF Registers
  <2> DEFINE S == {j \in Nat : p + j < q => d[p + j] = c[j]}
  <2>4. 0 \in S BY <1>2, <2>3
  <2>5. ASSUME NEW j \in Nat, j \in S PROVE j + 1 \in S
    <3> SUFFICES ASSUME p + (j + 1) < q PROVE d[p + (j + 1)] = c[j + 1] OBVIOUS
    <3>1. /\ p + (j + 1) \in 1..65 /\ (p + (j + 1)) - 1 = p + j
          /\ p + (j + 1) # p /\ p + (j + 1) # q /\ j + 1 \in 1..64 /\ (j + 1) - 1 = j
      OBVIOUS
    <3>2. d[p + (j + 1)] = Shift(Poly16, d[p + j], 0) BY <3>1 DEF Chain
    <3>3. d[p + j] = c[j] BY <2>5
    <3>4. c[j + 1] = Shift(Poly16, c[j], 0) BY <2>3, <3>1
    <3> QED BY <3>2, <3>3, <3>4
  <2> HIDE DEF S
  <2>6. Nat \subseteq S BY <2>4, <2>5, InductionSet
  <2> DEFINE k == q - p
  <2>7. k \in 1..64 /\ k - 1 \in Nat /\ p + (k - 1) = q - 1 /\ q - 1 < q BY <2>1
  <2>8. d[q - 1] = c[k - 1]
    <3>1. k - 1 \in S BY <2>6, <2>7
    <3> QED BY <2>7, <3>1 DEF S
  <2> HIDE DEF k
  <2>9. Shift(Poly16, d[q - 1], 0) # Poly16
    <3>1. c[k] = Shift(Poly16, c[k - 1], 0) BY <2>3, <2>7
    <3>2. c[k] # Poly16 BY <2>3, <2>7, NoReturn16
    <3> QED BY <2>8, <3>1, <3>2
  <2>10. d[q] # Zeros(w)
    <3>1. q \in 1..65 /\ q - 1 \in 0..n BY <1>0, <2>1
    <3>2. d[q] = Shift(Poly16, d[q - 1], 1) BY <1>6, <3>1 DEF Chain
    <3>3. d[q - 1] \in Register(w) BY <1>4, <3>1
    <3> QED BY <1>1, <2>9, <3>2, <3>3, SecondDifference
  <2>11. q \in 0..n /\ \A i \in 1..n : i > q => e[i] = 0 BY <1>0, <2>1
  <2>12. d[n] = Zeros(w) <=> d[q] = Zeros(w) BY <1>1, <2>11, NoMoreDifferences
  <2> QED BY <1>0, <2>10, <2>12
<1> QED BY <1>5, <1>6

\* The checksum of a response, as the last of its registers.
LEMMA Crc16IsLast ==
    ASSUME NEW n \in Nat, n % 8 = 1, NEW bits \in [1..n -> Bit]
    PROVE  \E reg : Run(Poly16, Zeros(16), n, bits, reg) /\ Crc16(bits) = reg[n]
<1>1. Len(bits) = n BY FunIsSeq
<1>2. Crc16Input(bits) = bits BY <1>1 DEF Crc16Input
<1>3. Crc16(bits) = Crc(Poly16, Zeros(16), bits) BY <1>2 DEF Crc16, Poly16
<1> QED BY <1>3, CrcIsLast

\* Of two responses without a remainder that differ in two bits at most, each
\* is the other.
LEMMA ResponseDistance ==
    ASSUME NEW f \in [1..65 -> Bit], NEW g \in [1..65 -> Bit],
           NEW a \in 1..65, NEW b \in 1..65, \A i \in 1..65 : i # a /\ i # b => f[i] = g[i],
           Crc16(f) = Zeros(16), Crc16(g) = Zeros(16)
    PROVE  f = g
<1>0. PICK w \in Nat \ {0}, n \in Nat : w = 16 /\ n = 65 OBVIOUS
<1>1. n % 8 = 1 /\ f \in [1..n -> Bit] /\ g \in [1..n -> Bit] BY <1>0
<1>2. PICK r : Run(Poly16, Zeros(16), n, f, r) /\ Crc16(f) = r[n] BY <1>1, Crc16IsLast
<1>3. PICK s : Run(Poly16, Zeros(16), n, g, s) /\ Crc16(g) = s[n] BY <1>1, Crc16IsLast
<1> DEFINE e == [i \in 1..n |-> (f[i] + g[i]) % 2]
           d == [i \in 0..n |-> Xor(w, r[i], s[i])]
<1>4. Poly16 \in Register(w) /\ Zeros(16) \in Register(w) BY <1>0, Poly16Is, ZerosIs
<1>5. Chain(Poly16, w, n, e, d)
  <2>1. Difference(n, f, g, e) /\ Differences(w, n, r, s, d)
    BY DEF Difference, Differences
  <2> HIDE DEF e, d
  <2> DEFINE z == Zeros(16)
  <2>2. Run(Poly16, z, n, f, r) /\ Run(Poly16, z, n, g, s) /\ z \in Register(w)
    BY <1>2, <1>3, <1>4
  <2> HIDE DEF z
  <2>3. w \in Nat \ {0} /\ n \in Nat OBVIOUS
  <2> QED BY <1>1, <1>4, <2>1, <2>2, <2>3, RunDifference
<1>6. d[n] = Zeros(w)
  <2>1. d[n] = Xor(w, r[n], s[n]) OBVIOUS
  <2> HIDE DEF d
  <2>2. r[n] \in Register(w) /\ s[n] = r[n] BY <1>2, <1>3, <1>4
  <2>3. Xor(w, r[n], s[n]) = Zeros(w) BY <2>2, XorIs
  <2> QED BY <2>1, <2>3
<1>7. \A i \in 1..65 : /\ f[i] # g[i] => e[i] = 1
                       /\ f[i] = g[i] => e[i] = 0
  <2>1. \A i \in 1..65 : f[i] \in 0..1 /\ g[i] \in 0..1 BY DEF Bit
  <2>2. \A y, z \in 0..1 : (y # z => (y + z) % 2 = 1) /\ (y = z => (y + z) % 2 = 0) OBVIOUS
  <2>3. \A i \in 1..65 : e[i] = (f[i] + g[i]) % 2 BY <1>0
  <2> QED BY <2>1, <2>2, <2>3
<1>8. d[65] = Zeros(16) /\ Chain(Poly16, 16, 65, e, d) BY <1>0, <1>5, <1>6
<1> HIDE DEF d, e
<1>9. ASSUME NEW i \in 1..65, f[i] # g[i] PROVE FALSE
  <2>1. PICK j \in 1..65 : \A k \in 1..65 : k # i /\ k # j => f[k] = g[k]
    <3>1. i = a \/ i = b BY <1>9
    <3> QED BY <3>1
  <2>2. PICK p \in 1..65, q \in 1..65 :
           /\ p <= q /\ f[p] # g[p]
           /\ p # q => f[q] # g[q]
           /\ \A k \in 1..65 : k # p /\ k # q => f[k] = g[k]
    <3>1. CASE f[j] = g[j] \/ i = j
      <4>1. i <= i /\ \A k \in 1..65 : k # i => f[k] = g[k] BY <2>1, <3>1
      <4> QED BY <1>9, <4>1
    <3>2. CASE f[j] # g[j] /\ i < j
      <4>1. i <= j /\ f[i] # g[i] /\ f[j] # g[j] BY <1>9, <3>2
      <4> WITNESS i \in 1..65, j \in 1..65
      <4> QED BY <2>1, <4>1
    <3>3. CASE f[j] # g[j] /\ j < i
      <4>1. j <= i /\ f[i] # g[i] /\ f[j] # g[j] BY <1>9, <3>3
      <4> WITNESS j \in 1..65, i \in 1..65
      <4> QED BY <2>1, <4>1
    <3>4. i < j \/ j < i \/ i = j OBVIOUS
    <3> QED BY <3>1, <3>2, <3>3, <3>4
  <2>3. q \in p..65 BY <2>2
  <2>4. e[p] = 1 /\ e[q] = 1 BY <1>7, <2>2
  <2>5. \A k \in 1..65 : k # p /\ k # q => e[k] = 0 BY <1>7, <2>2
  <2>6. SetBetween(65, e, p, q) BY <2>3, <2>4, <2>5 DEF SetBetween
  <2>7. d[65] # Zeros(16) BY <1>8, <2>6, FewDifferences16
  <2> QED BY <1>8, <2>7
<1> QED BY <1>9

------------------------------------------------------------------------------
(* Frames with at most two bits wrong.                                        *)

LEMMA NearItself ==
    ASSUME NEW n \in Nat \ {0}, NEW f
    PROVE  Near(0, n, f, f)
<1>1. 1 \in 1..n OBVIOUS
<1>2. NearByOne(n, f, f) /\ NearByTwo(n, f, f) BY <1>1 DEF NearByOne, NearByTwo
<1> QED BY <1>2 DEF Near

LEMMA NearFlip ==
    ASSUME NEW k \in Nat, NEW n \in Nat, NEW f \in [1..n -> Bit], NEW g, NEW j \in 1..n,
           Near(k, n, f, g)
    PROVE  Near(k + 1, n, [f EXCEPT ![j] = 1 - @], g)
<1> DEFINE h == [f EXCEPT ![j] = 1 - @]
<1>1. \A i \in 1..n : i # j => h[i] = f[i] OBVIOUS
<1>2. k + 1 # 0 OBVIOUS
<1>3. ASSUME k + 1 <= 1 PROVE NearByOne(n, h, g)
  <2>1. f = g BY <1>3 DEF Near
  <2>2. \A i \in 1..n : i # j => h[i] = g[i] BY <1>1, <2>1
  <2> QED BY <2>2 DEF NearByOne
<1>4. ASSUME k + 1 <= 2 PROVE NearByTwo(n, h, g)
  <2>1. PICK a \in 1..n : \A i \in 1..n : i # a => f[i] = g[i]
    BY <1>4 DEF Near, NearByOne
  <2>2. \A i \in 1..n : i # a /\ i # j => h[i] = g[i] BY <1>1, <2>1
  <2> QED BY <2>2 DEF NearByTwo
<1> HIDE DEF h
<1> QED BY <1>2, <1>3, <1>4 DEF Near, h

CleanReply(w) == WordBits(w) \o Crc8(WordBits(w))

LEMMA CleanReplyBits ==
    ASSUME NEW w \in Word
    PROVE  /\ CleanReply(w) \in [1..40 -> Bit]
           /\ \A i \in 1..32 : CleanReply(w)[i] = WordBits(w)[i]
           /\ \A j \in 1..8 : CleanReply(w)[32 + j] = Crc8(WordBits(w))[j]
<1> DEFINE m == WordBits(w)
           c == Crc8(m)
<1>1. m \in [1..32 -> Bit] BY WordBitsFacts
<1> HIDE DEF m
<1>2. c \in [1..8 -> Bit]
  <2>1. PICK n \in Nat : n = 32 OBVIOUS
  <2>2. m \in [1..n -> Bit] BY <1>1, <2>1
  <2>3. c \in Register(8) BY <2>2, Crc8IsRegister
  <2> QED BY <2>3 DEF Register, Bit
<1> HIDE DEF c
<1>3. PICK k \in Nat, l \in Nat : k = 32 /\ l = 8 OBVIOUS
<1>4. m \in [1..k -> Bit] /\ c \in [1..l -> Bit] BY <1>1, <1>2, <1>3
<1>5. /\ m \o c \in [1..(k + l) -> Bit]
      /\ \A i \in 1..k : (m \o c)[i] = m[i]
      /\ \A j \in 1..l : (m \o c)[k + j] = c[j]
  <2>1. m \o c \in [1..(k + l) -> Bit] BY <1>4, ConcatFun
  <2>2. \A i \in 1..k : (m \o c)[i] = m[i] BY <1>4, ConcatFun
  <2>3. \A j \in 1..l : (m \o c)[k + j] = c[j] BY <1>4, ConcatFun
  <2> QED BY <2>1, <2>2, <2>3
<1>6. k + l = 40 BY <1>3
<1> QED BY <1>3, <1>5, <1>6 DEF CleanReply, m, c

\* What is read from a reply with up to two bits wrong.
LEMMA ReplyRead ==
    ASSUME NEW w \in Word, NEW f \in [1..40 -> Bit],
           NearByTwo(40, f, CleanReply(w)),
           Reply(f, TRUE) # NoReply
    PROVE  Reply(f, TRUE) = w
<1>0. PICK a, b \in 1..40 : \A i \in 1..40 : i # a /\ i # b => f[i] = CleanReply(w)[i]
  BY DEF NearByTwo
<1> DEFINE m == WordBits(w)
           x == SubSeq(f, 1, 32)
           u == SubSeq(f, 33, 40)
<1>1. m \in [1..32 -> Bit] BY WordBitsFacts
<1>2. PICK l \in Nat, n1 \in Nat, n2 \in Nat, n3 \in Nat, n4 \in Nat :
         l = 40 /\ n1 = 1 /\ n2 = 32 /\ n3 = 33 /\ n4 = 40
  OBVIOUS
<1>3. f \in [1..l -> Bit] BY <1>2
<1>4. /\ 1 <= n1 /\ n1 <= n2 /\ n2 <= l /\ 1 <= n3 /\ n3 <= n4 /\ n4 <= l BY <1>2
<1>5. /\ SubSeq(f, n1, n2) = [i \in 1..(n2 - n1 + 1) |-> f[n1 + i - 1]]
      /\ SubSeq(f, n1, n2) \in [1..(n2 - n1 + 1) -> Bit]
  BY <1>3, <1>4, SubSeqFun
<1>6. /\ SubSeq(f, n3, n4) = [i \in 1..(n4 - n3 + 1) |-> f[n3 + i - 1]]
      /\ SubSeq(f, n3, n4) \in [1..(n4 - n3 + 1) -> Bit]
  BY <1>3, <1>4, SubSeqFun
<1>7. n2 - n1 + 1 = 32 /\ n4 - n3 + 1 = 8 BY <1>2
<1>8. x \in [1..32 -> Bit] /\ x = [i \in 1..32 |-> f[1 + i - 1]] BY <1>2, <1>5, <1>7
<1>9. u \in [1..8 -> Bit] /\ u = [i \in 1..8 |-> f[33 + i - 1]] BY <1>2, <1>6, <1>7
<1>10. Crc8(x) = u /\ Reply(f, TRUE) = WordAt(f, 1) BY DEF Reply
<1> HIDE DEF m, x, u
<1>11. \A i \in 1..32 : x[i] = f[i]
  <2> TAKE i \in 1..32
  <2>1. 1 + i - 1 = i OBVIOUS
  <2> QED BY <1>8, <2>1
<1>12. \A j \in 1..8 : u[j] = f[32 + j]
  <2> TAKE j \in 1..8
  <2>1. 33 + j - 1 = 32 + j OBVIOUS
  <2> QED BY <1>9, <2>1
<1>13. \A i \in 1..32 : i # a /\ i # b => x[i] = m[i]
  BY <1>0, <1>11, CleanReplyBits DEF m
<1>14. \A j \in 1..8 : 32 + j # a /\ 32 + j # b => u[j] = Crc8(m)[j]
  <2> SUFFICES ASSUME NEW j \in 1..8, 32 + j # a, 32 + j # b PROVE u[j] = Crc8(m)[j]
    OBVIOUS
  <2>1. 32 + j \in 1..40 OBVIOUS
  <2> QED BY <1>0, <1>12, <2>1, CleanReplyBits DEF m
<1>15. u \in Register(8) BY <1>9 DEF Register, Bit
<1>16. \A i \in 1..32 : x[i] = m[i]
  <2>1. x \in [1..32 -> Bit] /\ Crc8(x) = u BY <1>8, <1>10
  <2>2. WrongOnlyAt(m, x, u, a, b) BY <1>13, <1>14 DEF WrongOnlyAt
  <2> QED BY <1>1, <1>15, <2>1, <2>2, ReplyDistance
<1>17. \A i \in 1..32 : f[i] = WordBits(w)[i] BY <1>11, <1>16 DEF m
<1> QED BY <1>10, <1>17, WordAtWordBits

LEMMA CleanReplyRead ==
    ASSUME NEW w \in Word
    PROVE  Reply(CleanReply(w), TRUE) = w
<1> DEFINE f == CleanReply(w)
           m == WordBits(w)
           x == SubSeq(f, 1, 32)
           u == SubSeq(f, 33, 40)
<1>1. f \in [1..40 -> Bit] /\ m \in [1..32 -> Bit] BY CleanReplyBits, WordBitsFacts
<1>2. PICK l \in Nat, n1 \in Nat, n2 \in Nat, n3 \in Nat, n4 \in Nat :
         l = 40 /\ n1 = 1 /\ n2 = 32 /\ n3 = 33 /\ n4 = 40
  OBVIOUS
<1> HIDE DEF f, m
<1>3. f \in [1..l -> Bit] BY <1>1, <1>2
<1>4. /\ 1 <= n1 /\ n1 <= n2 /\ n2 <= l /\ 1 <= n3 /\ n3 <= n4 /\ n4 <= l BY <1>2
<1>5. SubSeq(f, n1, n2) = [i \in 1..(n2 - n1 + 1) |-> f[n1 + i - 1]]
  BY <1>3, <1>4, SubSeqFun
<1>6. SubSeq(f, n3, n4) = [i \in 1..(n4 - n3 + 1) |-> f[n3 + i - 1]]
  BY <1>3, <1>4, SubSeqFun
<1>7. n2 - n1 + 1 = 32 /\ n4 - n3 + 1 = 8 BY <1>2
<1>8. x = [i \in 1..32 |-> f[1 + i - 1]] BY <1>2, <1>5, <1>7
<1>9. u = [i \in 1..8 |-> f[33 + i - 1]] BY <1>2, <1>6, <1>7
<1>10. Crc8(m) \in Register(8)
  <2>1. PICK n \in Nat : n = 32 OBVIOUS
  <2>2. m \in [1..n -> Bit] BY <1>1, <2>1
  <2> QED BY <2>2, Crc8IsRegister
<1> HIDE DEF x, u
<1>11. x = m
  <2>1. \A i \in 1..32 : f[1 + i - 1] = m[i]
    <3> TAKE i \in 1..32
    <3>1. 1 + i - 1 = i OBVIOUS
    <3> QED BY <3>1, CleanReplyBits DEF f, m
  <2>2. m = [i \in 1..32 |-> m[i]] BY <1>1
  <2> QED BY <1>8, <2>1, <2>2
<1>12. u = Crc8(m)
  <2> DEFINE c == Crc8(m)
  <2>1. \A j \in 1..8 : f[33 + j - 1] = c[j]
    <3> TAKE j \in 1..8
    <3>1. 33 + j - 1 = 32 + j OBVIOUS
    <3> QED BY <3>1, CleanReplyBits DEF f, m
  <2>2. c = [j \in 1..8 |-> c[j]] BY <1>10 DEF Register
  <2> HIDE DEF c
  <2>3. u = c BY <1>9, <2>1, <2>2
  <2> QED BY <2>3 DEF c
<1>13. Reply(f, TRUE) = WordAt(f, 1) BY <1>11, <1>12 DEF Reply, x, u
<1>14. \A i \in 1..32 : f[i] = WordBits(w)[i] BY CleanReplyBits DEF f
<1> QED BY <1>13, <1>14, WordAtWordBits DEF f

LEMMA LastRegister ==
    ASSUME NEW w \in Nat \ {0}, NEW poly \in Register(w), NEW init \in Register(w),
           NEW n \in Nat, NEW m \in [1..n -> Bit], NEW r, Run(poly, init, n, m, r)
    PROVE  r[n] \in Register(w)
<1> DEFINE e == [i \in 1..n |-> (m[i] + m[i]) % 2]
           d == [i \in 0..n |-> Xor(w, r[i], r[i])]
<1>1. Difference(n, m, m, e) /\ Differences(w, n, r, r, d) BY DEF Difference, Differences
<1> HIDE DEF e, d
<1> QED BY <1>1, RunDifference

\* In p the k bits of c follow n others.
Follows(p, n, k, c) == \A i \in 1..k : p[n + i] = c[i]

LEMMA ConcatFollows ==
    ASSUME NEW S, NEW m \in Nat, NEW n \in Nat,
           NEW s \in [1..m -> S], NEW t \in [1..n -> S]
    PROVE  Follows(s \o t, m, n, t)
BY ConcatFun DEF Follows

\* Input f begins with the n bits of m.
StartsAlike(n, f, m) == \A i \in 1..n : f[i] = m[i]

\* Inputs that begin alike have the same registers so far.
LEMMA SameStart ==
    ASSUME NEW poly, NEW init, NEW n \in Nat, NEW k \in Nat, n <= k, NEW m, NEW f, NEW s, NEW r,
           Run(poly, init, n, m, s), Run(poly, init, k, f, r), StartsAlike(n, f, m)
    PROVE  r[n] = s[n]
<1> DEFINE S == {i \in Nat : i <= n => r[i] = s[i]}
<1>1. 0 \in S BY DEF Run
<1>2. ASSUME NEW i \in Nat, i \in S PROVE i + 1 \in S
  <2> SUFFICES ASSUME i + 1 <= n PROVE r[i + 1] = s[i + 1] OBVIOUS
  <2>1. i + 1 \in 1..n /\ i + 1 \in 1..k /\ (i + 1) - 1 = i BY <1>2
  <2>2. s[i + 1] = Shift(poly, s[i], m[i + 1]) /\ r[i + 1] = Shift(poly, r[i], f[i + 1])
    BY <2>1 DEF Run
  <2>3. f[i + 1] = m[i + 1] BY <2>1 DEF StartsAlike
  <2> QED BY <1>2, <2>1, <2>2, <2>3
<1> HIDE DEF S
<1>3. Nat \subseteq S BY <1>1, <1>2, InductionSet
<1>4. n \in S BY <1>3
<1> QED BY <1>4 DEF S

\* A clean response: a zero, the UID, a checksum that leaves no remainder.
LEMMA CleanResponse ==
    ASSUME NEW u \in [1..48 -> Bit]
    PROVE  /\ HtuFrame(u) \in [1..65 -> Bit]
           /\ HtuFrame(u)[1] = 0
           /\ \A i \in 1..48 : HtuFrame(u)[1 + i] = u[i]
           /\ Crc16(HtuFrame(u)) = Zeros(16)
<1>0. PICK o \in Nat, h \in Nat, n \in Nat, w \in Nat \ {0}, k \in Nat :
         o = 1 /\ h = 48 /\ n = 49 /\ w = 16 /\ k = 65
  OBVIOUS
<1> DEFINE z == <<0>>
           m == z \o u
           c == Crc16(m)
           f == m \o c
<1>1. z \in [1..o -> Bit] /\ z[1] = 0 BY <1>0 DEF Bit
<1>2. u \in [1..h -> Bit] /\ o + h = n /\ n % 8 = 1 /\ n + w = k /\ k % 8 = 1 BY <1>0
<1> HIDE DEF z
<1>3. /\ m \in [1..(o + h) -> Bit]
      /\ \A i \in 1..o : m[i] = z[i]
      /\ \A i \in 1..h : m[o + i] = u[i]
  <2>0. z \in [1..o -> Bit] /\ u \in [1..h -> Bit] BY <1>1, <1>2
  <2>1. z \o u \in [1..(o + h) -> Bit] BY <2>0, ConcatFun
  <2>2. \A i \in 1..o : (z \o u)[i] = z[i] BY <2>0, ConcatFun
  <2>3. \A i \in 1..h : (z \o u)[o + i] = u[i]
    <3>1. Follows(z \o u, o, h, u) BY <2>0, ConcatFollows
    <3> QED BY <3>1 DEF Follows
  <2> QED BY <2>1, <2>2, <2>3
<1> HIDE DEF m
<1>4. m \in [1..n -> Bit] BY <1>2, <1>3
<1>5. PICK s : Run(Poly16, Zeros(16), n, m, s) /\ c = s[n] BY <1>2, <1>4, Crc16IsLast
<1>6. Poly16 \in Register(w) /\ Zeros(16) \in Register(w) BY <1>0, Poly16Is, ZerosIs
<1>7. c \in Register(w)
  <2> DEFINE init == Zeros(16)
             poly == Poly16
  <2>1. Run(poly, init, n, m, s) /\ poly \in Register(w) /\ init \in Register(w)
    BY <1>5, <1>6
  <2> HIDE DEF init, poly
  <2>2. s[n] \in Register(w) BY <1>4, <2>1, LastRegister
  <2> QED BY <1>5, <2>2
<1>8. c \in [1..w -> Bit] BY <1>7 DEF Register, Bit
<1> HIDE DEF c
<1>9. /\ f \in [1..(n + w) -> Bit]
      /\ \A i \in 1..n : f[i] = m[i]
      /\ \A i \in 1..w : f[n + i] = c[i]
  <2>1. m \o c \in [1..(n + w) -> Bit] BY <1>4, <1>8, ConcatFun
  <2>2. \A i \in 1..n : (m \o c)[i] = m[i] BY <1>4, <1>8, ConcatFun
  <2>3. \A i \in 1..w : (m \o c)[n + i] = c[i]
    <3>1. Follows(m \o c, n, w, c) BY <1>4, <1>8, ConcatFollows
    <3> QED BY <3>1 DEF Follows
  <2> QED BY <2>1, <2>2, <2>3
<1> HIDE DEF f
<1>10. f \in [1..k -> Bit] BY <1>2, <1>9
<1>11. PICK r : Run(Poly16, Zeros(16), k, f, r) /\ Crc16(f) = r[k] BY <1>2, <1>10, Crc16IsLast
<1>12. r[n] = c
  <2>1. n <= k BY <1>0
  <2>2. StartsAlike(n, f, m) BY <1>9 DEF StartsAlike
  <2> DEFINE init == Zeros(16)
             poly == Poly16
  <2>3. Run(poly, init, n, m, s) /\ Run(poly, init, k, f, r) BY <1>5, <1>11
  <2> HIDE DEF init, poly
  <2>4. r[n] = s[n] BY <2>1, <2>2, <2>3, SameStart
  <2> QED BY <1>5, <2>4
<1>13. r[k] = Zeros(w)
  <2>1. Run(Poly16, Zeros(16), n + w, f, r) BY <1>2, <1>11
  <2>2. r[n] \in Register(w) /\ \A j \in 1..w : f[n + j] = r[n][j] BY <1>7, <1>9, <1>12
  <2>3. r[n + w] = Zeros(w) BY <1>6, <2>1, <2>2, RunOut
  <2> QED BY <1>2, <2>3
<1>14. f = HtuFrame(u) BY DEF HtuFrame, f, c, m, z
<1>15. f[1] = 0
  <2>1. 1 \in 1..n /\ 1 \in 1..o BY <1>0
  <2> QED BY <1>1, <1>3, <1>9, <2>1
<1>16. \A i \in 1..48 : f[1 + i] = u[i]
  <2> TAKE i \in 1..48
  <2>1. i \in 1..h /\ o + i \in 1..n /\ o + i = 1 + i BY <1>0
  <2> QED BY <1>3, <1>9, <2>1
<1>17. f \in [1..65 -> Bit] /\ Crc16(f) = Zeros(16) BY <1>0, <1>10, <1>11, <1>13
<1> QED BY <1>14, <1>15, <1>16, <1>17

\* What the decoder cuts out of a response.
LEMMA ResponseParts ==
    ASSUME NEW l \in {64, 65}, NEW f \in [1..l -> Bit]
    PROVE  /\ Len(f) = l
           /\ SubSeq(f, 1, l) = f
           /\ SubSeq(f, 1, 48) = [i \in 1..48 |-> f[i]]
           /\ SubSeq(f, 2, 49) = [i \in 1..48 |-> f[1 + i]]
<1>0. PICK a \in Nat, b \in Nat, c \in Nat, d \in Nat : a = 1 /\ b = 2 /\ c = 48 /\ d = 49
  OBVIOUS
<1>1. l \in Nat /\ 1 <= a /\ a <= c /\ c <= l /\ 1 <= b /\ b <= d /\ d <= l /\ a <= l /\ l <= l
  BY <1>0
<1>2. SubSeq(f, a, l) = [i \in 1..(l - a + 1) |-> f[a + i - 1]] BY <1>1, SubSeqFun
<1>3. SubSeq(f, a, c) = [i \in 1..(c - a + 1) |-> f[a + i - 1]] BY <1>1, SubSeqFun
<1>4. SubSeq(f, b, d) = [i \in 1..(d - b + 1) |-> f[b + i - 1]] BY <1>1, SubSeqFun
<1>5. /\ l - a + 1 = l /\ c - a + 1 = 48 /\ d - b + 1 = 48
      /\ \A i \in Nat : a + i - 1 = i /\ b + i - 1 = 1 + i
  BY <1>0, <1>1
<1>6. SubSeq(f, a, l) = [i \in 1..l |-> f[i]]
  <2>1. SubSeq(f, a, l) = [i \in 1..l |-> f[a + i - 1]] BY <1>2, <1>5
  <2>2. [i \in 1..l |-> f[a + i - 1]] = [i \in 1..l |-> f[i]] BY <1>5
  <2> QED BY <2>1, <2>2
<1>7. SubSeq(f, a, c) = [i \in 1..48 |-> f[i]]
  <2>1. SubSeq(f, a, c) = [i \in 1..48 |-> f[a + i - 1]] BY <1>3, <1>5
  <2>2. [i \in 1..48 |-> f[a + i - 1]] = [i \in 1..48 |-> f[i]] BY <1>5
  <2> QED BY <2>1, <2>2
<1>8. SubSeq(f, b, d) = [i \in 1..48 |-> f[1 + i]]
  <2>1. SubSeq(f, b, d) = [i \in 1..48 |-> f[b + i - 1]] BY <1>4, <1>5
  <2>2. \A i \in 1..48 : f[b + i - 1] = f[1 + i]
    <3> TAKE i \in 1..48
    <3>1. b + i - 1 = 1 + i BY <1>5
    <3> QED BY <3>1
  <2>3. [i \in 1..48 |-> f[b + i - 1]] = [i \in 1..48 |-> f[1 + i]] BY <2>2
  <2> QED BY <2>1, <2>3
<1>9. Len(f) = l BY <1>1, FunIsSeq
<1>10. f = [i \in 1..l |-> f[i]] OBVIOUS
<1> QED BY <1>0, <1>6, <1>7, <1>8, <1>9, <1>10

\* A response of full length, with up to two bits wrong, is read right or not
\* at all.
LEMMA ResponseRead ==
    ASSUME NEW u \in [1..48 -> Bit], NEW f \in [1..65 -> Bit],
           NearByTwo(65, f, HtuFrame(u)), HtuUid(f) # NoReply
    PROVE  HtuUid(f) = u
<1>1. 65 \in {64, 65} OBVIOUS
<1>2. /\ Len(f) = 65 /\ SubSeq(f, 1, 65) = f
      /\ SubSeq(f, 2, 49) = [i \in 1..48 |-> f[1 + i]]
  BY <1>1, ResponseParts
<1>3. HtuResponse = 65 /\ HtuUidBits + 1 = 49 /\ 65 >= 65 BY DEF HtuResponse, HtuUidBits
<1>4. Crc16(f) = Zeros(16) /\ HtuUid(f) = SubSeq(f, 2, 49)
  <2>1. HtuUid(f) = IF Crc16(f) = Zeros(16) THEN SubSeq(f, 2, 49) ELSE NoReply
    BY <1>2, <1>3 DEF HtuUid
  <2> QED BY <2>1
<1>5. f = HtuFrame(u)
  <2>1. PICK a, b \in 1..65 : \A i \in 1..65 : i # a /\ i # b => f[i] = HtuFrame(u)[i]
    BY DEF NearByTwo
  <2> QED BY <1>4, <2>1, CleanResponse, ResponseDistance
<1>6. \A i \in 1..48 : f[1 + i] = u[i] BY <1>5, CleanResponse
<1>7. u = [i \in 1..48 |-> u[i]] OBVIOUS
<1>8. [i \in 1..48 |-> f[1 + i]] = [i \in 1..48 |-> u[i]] BY <1>6
<1> QED BY <1>2, <1>4, <1>7, <1>8

LEMMA CleanResponseRead ==
    ASSUME NEW u \in [1..48 -> Bit]
    PROVE  HtuUid(HtuFrame(u)) = u
<1> DEFINE f == HtuFrame(u)
<1>1. f \in [1..65 -> Bit] /\ Crc16(f) = Zeros(16) /\ \A i \in 1..48 : f[1 + i] = u[i]
  BY CleanResponse
<1> HIDE DEF f
<1>2. 65 \in {64, 65} OBVIOUS
<1>3. /\ Len(f) = 65 /\ SubSeq(f, 1, 65) = f
      /\ SubSeq(f, 2, 49) = [i \in 1..48 |-> f[1 + i]]
  BY <1>1, <1>2, ResponseParts
<1>4. HtuResponse = 65 /\ HtuUidBits + 1 = 49 /\ 65 >= 65 BY DEF HtuResponse, HtuUidBits
<1>5. HtuUid(f) = SubSeq(f, 2, 49) BY <1>1, <1>3, <1>4 DEF HtuUid
<1>6. u = [i \in 1..48 |-> u[i]] OBVIOUS
<1>7. [i \in 1..48 |-> f[1 + i]] = [i \in 1..48 |-> u[i]] BY <1>1
<1> QED BY <1>3, <1>5, <1>6, <1>7 DEF f

\* A response whose flag was lost, before the rest of it.
LEMMA FlagLost ==
    ASSUME NEW u \in [1..48 -> Bit]
    PROVE  /\ Tail(HtuFrame(u)) \in [1..64 -> Bit]
           /\ \A i \in 1..64 : Tail(HtuFrame(u))[i] = HtuFrame(u)[i + 1]
           /\ \A i \in 1..48 : Tail(HtuFrame(u))[i] = u[i]
<1> DEFINE f == HtuFrame(u)
<1>1. f \in [1..65 -> Bit] /\ \A i \in 1..48 : f[1 + i] = u[i] BY CleanResponse
<1> HIDE DEF f
<1>2. Len(f) = 65
  <2>1. 65 \in {64, 65} OBVIOUS
  <2> QED BY <1>1, <2>1, ResponseParts
<1>3. f \in Seq(Bit) /\ f # <<>>
  <2>1. PICK n \in Nat : n = 65 OBVIOUS
  <2>2. f \in [1..n -> Bit] BY <1>1, <2>1
  <2>3. f \in Seq(Bit) BY <2>2, FunIsSeq
  <2>4. Len(f) # Len(<<>>) BY <1>2
  <2> QED BY <2>3, <2>4
<1>4. /\ Tail(f) \in Seq(Bit) /\ Len(Tail(f)) = 65 - 1
      /\ \A i \in 1..Len(Tail(f)) : Tail(f)[i] = f[i + 1]
  BY <1>2, <1>3, HeadTailProperties
<1>5. \A i \in 1..48 : i \in 1..64 /\ i + 1 = 1 + i OBVIOUS
<1>6. Tail(f) \in [1..64 -> Bit] /\ \A i \in 1..64 : Tail(f)[i] = f[i + 1]
  <2> DEFINE t == Tail(f)
  <2>1. t \in Seq(Bit) /\ Len(t) = 64 /\ \A i \in 1..Len(t) : t[i] = f[i + 1] BY <1>4
  <2> HIDE DEF t
  <2>2. t \in [1..Len(t) -> Bit] BY <2>1, SeqIsFun
  <2>3. t \in [1..64 -> Bit] /\ \A i \in 1..64 : t[i] = f[i + 1] BY <2>1, <2>2
  <2> QED BY <2>3 DEF t
<1> QED BY <1>1, <1>5, <1>6 DEF f

LEMMA WithZeroFlag ==
    ASSUME NEW f \in [1..64 -> Bit]
    PROVE  /\ <<0>> \o f \in [1..65 -> Bit]
           /\ (<<0>> \o f)[1] = 0
           /\ \A i \in 1..64 : (<<0>> \o f)[1 + i] = f[i]
<1>0. PICK o \in Nat, l \in Nat : o = 1 /\ l = 64 OBVIOUS
<1> DEFINE z == <<0>>
<1>1. z \in [1..o -> Bit] /\ z[1] = 0 BY <1>0 DEF Bit
<1>2. f \in [1..l -> Bit] /\ o + l = 65 /\ 1 \in 1..o BY <1>0
<1> HIDE DEF z
<1>3. /\ z \o f \in [1..(o + l) -> Bit]
      /\ \A i \in 1..o : (z \o f)[i] = z[i]
      /\ \A i \in 1..l : (z \o f)[o + i] = f[i]
  <2>0. z \in [1..o -> Bit] /\ f \in [1..l -> Bit] BY <1>1, <1>2
  <2>1. z \o f \in [1..(o + l) -> Bit] BY <2>0, ConcatFun
  <2>2. \A i \in 1..o : (z \o f)[i] = z[i] BY <2>0, ConcatFun
  <2>3. \A i \in 1..l : (z \o f)[o + i] = f[i]
    <3>1. Follows(z \o f, o, l, f) BY <2>0, ConcatFollows
    <3> QED BY <3>1 DEF Follows
  <2> QED BY <2>1, <2>2, <2>3
<1>4. (z \o f)[1] = 0 /\ \A i \in 1..64 : (z \o f)[1 + i] = f[i] BY <1>0, <1>1, <1>2, <1>3
<1>5. z \o f \in [1..65 -> Bit] BY <1>2, <1>3
<1> QED BY <1>4, <1>5 DEF z

\* A response without its flag, with up to two bits wrong, is read right if it
\* fits with a zero put in the place of the flag.
LEMMA FlaglessRead ==
    ASSUME NEW u \in [1..48 -> Bit], NEW f \in [1..64 -> Bit],
           NearByTwo(64, f, Tail(HtuFrame(u))), FitsWithZeroFlag(f)
    PROVE  HtuUid(f) = u
<1> DEFINE g == <<0>> \o f
           h == HtuFrame(u)
<1>1. /\ g \in [1..65 -> Bit] /\ g[1] = 0 /\ \A i \in 1..64 : g[1 + i] = f[i]
      /\ Crc16(g) = Zeros(16)
  BY WithZeroFlag DEF FitsWithZeroFlag
<1>2. /\ h \in [1..65 -> Bit] /\ h[1] = 0 /\ Crc16(h) = Zeros(16)
      /\ \A i \in 1..48 : h[1 + i] = u[i]
  BY CleanResponse
<1>3. PICK a, b \in 1..64 : \A i \in 1..64 : i # a /\ i # b => f[i] = h[i + 1]
  <2>1. PICK a, b \in 1..64 : \A i \in 1..64 : i # a /\ i # b => f[i] = Tail(h)[i]
    BY DEF NearByTwo
  <2>2. \A i \in 1..64 : Tail(h)[i] = h[i + 1] BY FlagLost
  <2> HIDE DEF h
  <2>3. \A i \in 1..64 : i # a /\ i # b => f[i] = h[i + 1] BY <2>1, <2>2
  <2> QED BY <2>3
<1> HIDE DEF g, h
<1>4. g = h
  <2>1. 1 + a \in 1..65 /\ 1 + b \in 1..65 OBVIOUS
  <2>2. ASSUME NEW i \in 1..65, i # 1 + a, i # 1 + b PROVE g[i] = h[i]
    <3>1. CASE i = 1 BY <1>1, <1>2, <3>1
    <3>2. CASE i # 1
      <4>1. i - 1 \in 1..64 /\ i - 1 # a /\ i - 1 # b /\ 1 + (i - 1) = i /\ (i - 1) + 1 = i
        BY <2>2, <3>2
      <4> QED BY <1>1, <1>3, <4>1
    <3> QED BY <3>1, <3>2
  <2> QED BY <1>1, <1>2, <2>1, <2>2, ResponseDistance
<1>5. \A i \in 1..48 : f[i] = u[i]
  <2> TAKE i \in 1..48
  <2>1. i \in 1..64 OBVIOUS
  <2> QED BY <1>1, <1>2, <1>4, <2>1
<1>6. 64 \in {64, 65} OBVIOUS
<1>7. Len(f) = 64 /\ SubSeq(f, 1, 48) = [i \in 1..48 |-> f[i]] BY <1>6, ResponseParts
<1>8. HtuResponse = 65 /\ HtuUidBits = 48 /\ ~(64 >= 65) /\ 65 - 1 = 64
  BY DEF HtuResponse, HtuUidBits
<1>9. HtuUid(f) = SubSeq(f, 1, 48) BY <1>7, <1>8 DEF HtuUid
<1>10. u = [i \in 1..48 |-> u[i]] OBVIOUS
<1>11. [i \in 1..48 |-> f[i]] = [i \in 1..48 |-> u[i]] BY <1>5
<1> QED BY <1>7, <1>9, <1>10, <1>11

LEMMA CleanFlaglessRead ==
    ASSUME NEW u \in [1..48 -> Bit]
    PROVE  HtuUid(Tail(HtuFrame(u))) = u
<1> DEFINE f == Tail(HtuFrame(u))
           g == <<0>> \o f
           h == HtuFrame(u)
<1>1. f \in [1..64 -> Bit] /\ \A i \in 1..64 : f[i] = h[i + 1] BY FlagLost
<1>2. h \in [1..65 -> Bit] /\ h[1] = 0 /\ Crc16(h) = Zeros(16) BY CleanResponse
<1>3. NearByTwo(64, f, f)
  <2>1. 1 \in 1..64 OBVIOUS
  <2> HIDE DEF f
  <2> QED BY <2>1 DEF NearByTwo
<1> HIDE DEF f, h
<1>4. g \in [1..65 -> Bit] /\ g[1] = 0 /\ \A i \in 1..64 : g[1 + i] = f[i]
  BY <1>1, WithZeroFlag
<1> HIDE DEF g
<1>5. g = h
  <2>1. ASSUME NEW i \in 1..65 PROVE g[i] = h[i]
    <3>1. CASE i = 1 BY <1>2, <1>4, <3>1
    <3>2. CASE i # 1
      <4>1. i - 1 \in 1..64 /\ 1 + (i - 1) = i /\ (i - 1) + 1 = i BY <3>2
      <4> QED BY <1>1, <1>4, <4>1
    <3> QED BY <3>1, <3>2
  <2> QED BY <1>2, <1>4, <2>1
<1>6. FitsWithZeroFlag(f) BY <1>2, <1>5 DEF FitsWithZeroFlag, g
<1>7. NearByTwo(64, f, Tail(HtuFrame(u))) BY <1>3 DEF f
<1>8. HtuUid(f) = u BY <1>1, <1>6, <1>7, FlaglessRead
<1> QED BY <1>8 DEF f

------------------------------------------------------------------------------
(* Every card number and every word, with at most two bits wrong.             *)

\* What a frame is after some flips of what was sent.
CardFrame ==
    kind = "card" => /\ sent \in CardId /\ frame \in [1..64 -> Bit]
                     /\ flips \in Nat /\ Near(flips, 64, frame, Encode(sent))
ReplyFrame ==
    kind = "reply" => /\ sent \in Word /\ frame \in [1..40 -> Bit]
                      /\ flips \in Nat /\ Near(flips, 40, frame, CleanReply(sent))
FewFlips == flips \in Nat /\ flips <= MaxFlips

LEMMA FewFlipsAlways == Spec => []FewFlips
<1>1. Init => FewFlips BY FramesAssumption DEF Init, FewFlips, FramesAssumption
<1>2. FewFlips /\ [Flip]_vars => FewFlips'
  <2>1. ASSUME FewFlips, Flip PROVE FewFlips'
    BY <2>1, FramesAssumption DEF Flip, FewFlips, FramesAssumption
  <2>2. ASSUME FewFlips, UNCHANGED vars PROVE FewFlips' BY <2>2 DEF vars, FewFlips
  <2> QED BY <2>1, <2>2
<1> QED BY <1>1, <1>2, PTL DEF Spec

LEMMA CardFrameAlways == Spec => []CardFrame
<1>1. Init => CardFrame
  <2> SUFFICES ASSUME Init, kind = "card" PROVE CardFrame BY DEF CardFrame
  <2>1. sent \in Cards /\ frame = Encode(sent) /\ flips = 0 BY DEF Init
  <2>2. sent \in CardId BY <2>1, FramesAssumption DEF FramesAssumption
  <2>3. PICK n \in Nat \ {0} : n = 64 OBVIOUS
  <2>4. Near(0, 64, frame, Encode(sent)) BY <2>1, <2>3, NearItself
  <2>5. frame \in [1..64 -> Bit] BY <2>1, <2>2, EncodedFrame
  <2> QED BY <2>1, <2>2, <2>4, <2>5 DEF CardFrame
<1>2. CardFrame /\ [Flip]_vars => CardFrame'
  <2> SUFFICES ASSUME CardFrame, [Flip]_vars, kind' = "card" PROVE CardFrame'
    BY DEF CardFrame
  <2>1. CASE UNCHANGED vars BY <2>1 DEF vars, CardFrame
  <2>2. CASE Flip
    <3>1. /\ kind = "card" /\ sent' = sent /\ flips' = flips + 1
          /\ sent \in CardId /\ frame \in [1..64 -> Bit] /\ flips \in Nat
          /\ Near(flips, 64, frame, Encode(sent))
      BY <2>2 DEF Flip, CardFrame
    <3>2. PICK n \in Nat : n = 64 OBVIOUS
    <3>3. frame \in [1..n -> Bit] /\ DOMAIN frame = 1..n BY <3>1, <3>2
    <3>4. PICK j \in 1..n : frame' = [frame EXCEPT ![j] = 1 - @] BY <2>2, <3>3 DEF Flip
    <3>5. [frame EXCEPT ![j] = 1 - @] \in [1..n -> Bit] BY <3>3, FlipKeepsBits
    <3>6. Near(flips, n, frame, Encode(sent)) BY <3>1, <3>2
    <3>7. Near(flips + 1, n, [frame EXCEPT ![j] = 1 - @], Encode(sent))
      BY <3>1, <3>3, <3>6, NearFlip
    <3>8. Near(flips', 64, frame', Encode(sent')) BY <3>1, <3>2, <3>4, <3>7
    <3>9. frame' \in [1..64 -> Bit] /\ sent' \in CardId /\ flips' \in Nat
      BY <3>1, <3>2, <3>4, <3>5
    <3> QED BY <3>8, <3>9 DEF CardFrame
  <2> QED BY <2>1, <2>2
<1> QED BY <1>1, <1>2, PTL DEF Spec

LEMMA ReplyFrameAlways == Spec => []ReplyFrame
<1>1. Init => ReplyFrame
  <2> SUFFICES ASSUME Init, kind = "reply" PROVE ReplyFrame BY DEF ReplyFrame
  <2>1. sent \in CrcWords /\ frame = CleanReply(sent) /\ flips = 0 BY DEF Init, CleanReply
  <2>2. sent \in Word BY <2>1, FramesAssumption DEF FramesAssumption
  <2>3. PICK n \in Nat \ {0} : n = 40 OBVIOUS
  <2>4. Near(0, 40, frame, CleanReply(sent)) BY <2>1, <2>3, NearItself
  <2>5. frame \in [1..40 -> Bit] BY <2>1, <2>2, CleanReplyBits
  <2> QED BY <2>1, <2>2, <2>4, <2>5 DEF ReplyFrame
<1>2. ReplyFrame /\ [Flip]_vars => ReplyFrame'
  <2> SUFFICES ASSUME ReplyFrame, [Flip]_vars, kind' = "reply" PROVE ReplyFrame'
    BY DEF ReplyFrame
  <2>1. CASE UNCHANGED vars BY <2>1 DEF vars, ReplyFrame
  <2>2. CASE Flip
    <3>1. /\ kind = "reply" /\ sent' = sent /\ flips' = flips + 1
          /\ sent \in Word /\ frame \in [1..40 -> Bit] /\ flips \in Nat
          /\ Near(flips, 40, frame, CleanReply(sent))
      BY <2>2 DEF Flip, ReplyFrame
    <3>2. PICK n \in Nat : n = 40 OBVIOUS
    <3>3. frame \in [1..n -> Bit] /\ DOMAIN frame = 1..n BY <3>1, <3>2
    <3>4. PICK j \in 1..n : frame' = [frame EXCEPT ![j] = 1 - @] BY <2>2, <3>3 DEF Flip
    <3>5. [frame EXCEPT ![j] = 1 - @] \in [1..n -> Bit] BY <3>3, FlipKeepsBits
    <3>6. Near(flips, n, frame, CleanReply(sent)) BY <3>1, <3>2
    <3>7. Near(flips + 1, n, [frame EXCEPT ![j] = 1 - @], CleanReply(sent))
      BY <3>1, <3>3, <3>6, NearFlip
    <3>8. Near(flips', 40, frame', CleanReply(sent')) BY <3>1, <3>2, <3>4, <3>7
    <3>9. frame' \in [1..40 -> Bit] /\ sent' \in Word /\ flips' \in Nat
      BY <3>1, <3>2, <3>4, <3>5
    <3> QED BY <3>8, <3>9 DEF ReplyFrame
  <2> QED BY <2>1, <2>2
<1> QED BY <1>1, <1>2, PTL DEF Spec

\* Every card number is read back as itself, and with one or two bits of its
\* frame wrong as itself or not at all (em4100_decode_hitag_data).
THEOREM CardDecodedRight ==
    ASSUME MaxFlips <= 2
    PROVE  Spec => []CardNeverMisread
<1>1. FewFlips /\ CardFrame => CardNeverMisread
  <2> SUFFICES ASSUME FewFlips, CardFrame, kind = "card"
               PROVE  Decode(frame) \in (IF flips = 0 THEN {sent} ELSE {sent, NoId})
    BY DEF CardNeverMisread
  <2>1. /\ sent \in CardId /\ frame \in [1..64 -> Bit] /\ flips \in Nat /\ flips <= 2
        /\ Near(flips, 64, frame, Encode(sent))
    BY FramesAssumption DEF CardFrame, FewFlips, FramesAssumption
  <2>2. CASE flips = 0 BY <2>1, <2>2, DecodeEncoded DEF Near
  <2>3. CASE flips # 0
    <3>1. NearByTwo(64, frame, Encode(sent)) BY <2>1 DEF Near
    <3>2. Decode(frame) # NoId => Decode(frame) = sent BY <2>1, <3>1, CardDistance
    <3> QED BY <2>3, <3>2
  <2> QED BY <2>2, <2>3
<1> QED BY <1>1, FewFlipsAlways, CardFrameAlways, PTL

\* Every word sent under a CRC8 is read as that word, and with one or two bits
\* of its reply wrong as that word or not at all (hitag_s_read_page).
THEOREM ReplyReadRight ==
    ASSUME MaxFlips <= 2
    PROVE  Spec => []ReplyNeverMisread
<1>1. FewFlips /\ ReplyFrame => ReplyNeverMisread
  <2> SUFFICES ASSUME FewFlips, ReplyFrame, kind = "reply"
               PROVE  Reply(frame, TRUE) \in (IF flips = 0 THEN {sent} ELSE {sent, NoReply})
    BY DEF ReplyNeverMisread
  <2>1. /\ sent \in Word /\ frame \in [1..40 -> Bit] /\ flips \in Nat /\ flips <= 2
        /\ Near(flips, 40, frame, CleanReply(sent))
    BY FramesAssumption DEF ReplyFrame, FewFlips, FramesAssumption
  <2>2. CASE flips = 0 BY <2>1, <2>2, CleanReplyRead DEF Near
  <2>3. CASE flips # 0
    <3>1. NearByTwo(40, frame, CleanReply(sent)) BY <2>1 DEF Near
    <3>2. Reply(frame, TRUE) # NoReply => Reply(frame, TRUE) = sent
      BY <2>1, <3>1, ReplyRead
    <3> QED BY <2>3, <3>2
  <2> QED BY <2>2, <2>3
<1> QED BY <1>1, FewFlipsAlways, ReplyFrameAlways, PTL

\* A response after some flips, whole or without its flag.
HtuFrameKept ==
    kind = "htu" =>
        /\ sent \in [1..48 -> Bit] /\ flips \in Nat
        /\ \/ /\ frame \in [1..65 -> Bit] /\ Near(flips, 65, frame, HtuFrame(sent))
           \/ /\ frame \in [1..64 -> Bit] /\ Near(flips, 64, frame, Tail(HtuFrame(sent)))

LEMMA HtuFrameAlways == Spec => []HtuFrameKept
<1>1. Init => HtuFrameKept
  <2> SUFFICES ASSUME Init, kind = "htu" PROVE HtuFrameKept BY DEF HtuFrameKept
  <2>1. sent \in HtuUids /\ flips = 0 /\ frame \in {HtuFrame(sent), Tail(HtuFrame(sent))}
    BY DEF Init
  <2>2. sent \in [1..48 -> Bit]
    BY <2>1, FramesAssumption DEF FramesAssumption, HtuUidBits
  <2>3. PICK l \in Nat \ {0}, s \in Nat \ {0} : l = 65 /\ s = 64 OBVIOUS
  <2>4. CASE frame = HtuFrame(sent)
    <3>1. Near(0, 65, frame, HtuFrame(sent)) BY <2>3, <2>4, NearItself
    <3>2. frame \in [1..65 -> Bit] BY <2>2, <2>4, CleanResponse
    <3> QED BY <2>1, <2>2, <3>1, <3>2 DEF HtuFrameKept
  <2>5. CASE frame = Tail(HtuFrame(sent))
    <3>1. Near(0, 64, frame, Tail(HtuFrame(sent))) BY <2>3, <2>5, NearItself
    <3>2. frame \in [1..64 -> Bit] BY <2>2, <2>5, FlagLost
    <3> QED BY <2>1, <2>2, <3>1, <3>2 DEF HtuFrameKept
  <2> QED BY <2>1, <2>4, <2>5
<1>2. HtuFrameKept /\ [Flip]_vars => HtuFrameKept'
  <2> SUFFICES ASSUME HtuFrameKept, [Flip]_vars, kind' = "htu" PROVE HtuFrameKept'
    BY DEF HtuFrameKept
  <2>1. CASE UNCHANGED vars BY <2>1 DEF vars, HtuFrameKept
  <2>2. CASE Flip
    <3>1. /\ kind = "htu" /\ sent' = sent /\ flips' = flips + 1
          /\ sent \in [1..48 -> Bit] /\ flips \in Nat
          /\ \/ frame \in [1..65 -> Bit] /\ Near(flips, 65, frame, HtuFrame(sent))
             \/ frame \in [1..64 -> Bit] /\ Near(flips, 64, frame, Tail(HtuFrame(sent)))
      BY <2>2 DEF Flip, HtuFrameKept
    <3>2. ASSUME NEW n \in Nat, NEW g, frame \in [1..n -> Bit], Near(flips, n, frame, g)
          PROVE  frame' \in [1..n -> Bit] /\ Near(flips', n, frame', g)
      <4>1. DOMAIN frame = 1..n BY <3>2
      <4>2. PICK j \in 1..n : frame' = [frame EXCEPT ![j] = 1 - @] BY <2>2, <4>1 DEF Flip
      <4>3. [frame EXCEPT ![j] = 1 - @] \in [1..n -> Bit] BY <3>2, FlipKeepsBits
      <4>4. Near(flips + 1, n, [frame EXCEPT ![j] = 1 - @], g) BY <3>1, <3>2, NearFlip
      <4> QED BY <3>1, <4>2, <4>3, <4>4
    <3>3. PICK l \in Nat, s \in Nat : l = 65 /\ s = 64 OBVIOUS
    <3>4. CASE frame \in [1..65 -> Bit] /\ Near(flips, 65, frame, HtuFrame(sent))
      <4>1. frame' \in [1..65 -> Bit] /\ Near(flips', 65, frame', HtuFrame(sent))
        BY <3>2, <3>3, <3>4
      <4> QED BY <3>1, <4>1 DEF HtuFrameKept
    <3>5. CASE frame \in [1..64 -> Bit] /\ Near(flips, 64, frame, Tail(HtuFrame(sent)))
      <4>1. frame' \in [1..64 -> Bit] /\ Near(flips', 64, frame', Tail(HtuFrame(sent)))
        BY <3>2, <3>3, <3>5
      <4> QED BY <3>1, <4>1 DEF HtuFrameKept
    <3> QED BY <3>1, <3>4, <3>5
  <2> QED BY <2>1, <2>2
<1> QED BY <1>1, <1>2, PTL DEF Spec

\* The UID of every Hitag micro tag is read as itself, and with one or two bits
\* of the response wrong as itself or not at all; without its flag, only a
\* response whose first 40 bits happen to fit the checksum is taken for another
\* one (hitag_htu_codec_decode_uid_response).
THEOREM HtuReadRight ==
    ASSUME MaxFlips <= 2
    PROVE  Spec => []HtuNeverMisread
<1>1. FewFlips /\ HtuFrameKept => HtuNeverMisread
  <2> SUFFICES ASSUME FewFlips, HtuFrameKept, kind = "htu" PROVE HtuNeverMisread
    BY DEF HtuNeverMisread
  <2>1. flips \in Nat /\ flips <= 2 /\ sent \in [1..48 -> Bit]
    BY FramesAssumption DEF HtuFrameKept, FewFlips, FramesAssumption
  <2>2. CASE frame \in [1..65 -> Bit] /\ Near(flips, 65, frame, HtuFrame(sent))
    <3>1. CASE flips = 0
      <4>1. HtuUid(frame) = sent BY <2>1, <2>2, <3>1, CleanResponseRead DEF Near
      <4> QED BY <3>1, <4>1 DEF HtuNeverMisread
    <3>2. CASE flips # 0
      <4>1. NearByTwo(65, frame, HtuFrame(sent)) BY <2>1, <2>2 DEF Near
      <4>2. HtuUid(frame) # NoReply => HtuUid(frame) = sent BY <2>1, <2>2, <4>1, ResponseRead
      <4> QED BY <3>2, <4>2 DEF HtuNeverMisread
    <3> QED BY <3>1, <3>2
  <2>3. CASE frame \in [1..64 -> Bit] /\ Near(flips, 64, frame, Tail(HtuFrame(sent)))
    <3>1. Len(frame) = 64
      <4>1. 64 \in {64, 65} OBVIOUS
      <4> QED BY <2>3, <4>1, ResponseParts
    <3>2. CASE flips = 0
      <4>1. HtuUid(frame) = sent BY <2>1, <2>3, <3>2, CleanFlaglessRead DEF Near
      <4> QED BY <3>2, <4>1 DEF HtuNeverMisread
    <3>3. CASE flips # 0
      <4>1. NearByTwo(64, frame, Tail(HtuFrame(sent))) BY <2>1, <2>3 DEF Near
      <4>2. FitsWithZeroFlag(frame) => HtuUid(frame) = sent
        BY <2>1, <2>3, <4>1, FlaglessRead
      <4>3. HtuResponse = 65 /\ ~(64 >= 65) /\ 65 - 1 = 64 BY DEF HtuResponse, HtuUidBits
      <4>4. ~FitsWithZeroFlag(frame) /\ ~FitsWithoutFlag(frame) => HtuUid(frame) = NoReply
        BY <3>1, <4>3 DEF HtuUid
      <4>5. flips > 0 /\ Len(frame) = HtuResponse - 1 BY <2>1, <3>1, <3>3, <4>3
      <4> QED BY <3>3, <4>2, <4>4, <4>5 DEF HtuNeverMisread
    <3> QED BY <3>2, <3>3
  <2> QED BY <2>2, <2>3 DEF HtuFrameKept
<1> QED BY <1>1, FewFlipsAlways, HtuFrameAlways, PTL
==============================================================================
