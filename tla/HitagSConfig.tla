----------------------------- MODULE HitagSConfig -----------------------------
(* The configuration page (page 1) of a Hitag S tag: how the writer unpacks   *)
(* it, packs it, and reads the memory size and the page locks out of it.      *)
(* Bytes of the word: <<CON0, CON1, CON2, PWDH0>>.                            *)
EXTENDS TagWord, FiniteSetsExt

Page == 0..63

Config == [ MEMT  : 0..3,        RES  : [0..5 -> Bit],
            LKP   : Bit,         LCON : Bit,
            TTFM  : 0..3,        TTFDR : 0..3,
            TTFC  : Bit,         auth : Bit,
            LCK   : [0..7 -> Bit], pwdh0 : Byte ]

Parse(w) ==
    [ MEMT  |-> w[1] % 4,
      RES   |-> [i \in 0..5 |-> BitOf(w[1], i + 2)],
      LKP   |-> BitOf(w[2], 0),
      LCON  |-> BitOf(w[2], 1),
      TTFM  |-> (w[2] \div 4) % 4,
      TTFDR |-> (w[2] \div 16) % 4,
      TTFC  |-> BitOf(w[2], 6),
      auth  |-> BitOf(w[2], 7),
      LCK   |-> [i \in 0..7 |-> BitOf(w[3], i)],
      pwdh0 |-> w[4] ]

Con0(c) == c.MEMT + 4 * c.RES[0] + 8 * c.RES[1] + 16 * c.RES[2]
           + 32 * c.RES[3] + 64 * c.RES[4] + 128 * c.RES[5]

\* Mutant: TTFC and auth packed into the same bit.
Con1TtfcInAuth(c) == c.LKP + 2 * c.LCON + 4 * c.TTFM + 16 * c.TTFDR
                     + 128 * (IF c.TTFC = 1 \/ c.auth = 1 THEN 1 ELSE 0)
Con1(c) == c.LKP + 2 * c.LCON + 4 * c.TTFM + 16 * c.TTFDR
           + 64 * c.TTFC + 128 * c.auth

Con2(c) == c.LCK[0] + 2 * c.LCK[1] + 4 * c.LCK[2] + 8 * c.LCK[3]
           + 16 * c.LCK[4] + 32 * c.LCK[5] + 64 * c.LCK[6] + 128 * c.LCK[7]

Pack(c) == <<Con0(c), Con1(c), Con2(c), c.pwdh0>>

\* MEMT = 2 is not used by the data sheet: the code takes the largest memory.
MaxPage(c) == CASE c.MEMT = 0 -> 31
                [] c.MEMT = 1 -> 7
                [] OTHER      -> 63

\* The code compares the page with these limits from LCK7 down to LCK0: the
\* first limit that is not below the page names the lock bit.
\*
\* Mutants: LCK4 one page short; the limits of LCK2 and LCK3 exchanged.
LockLimitShort == [k \in 0..7 |-> <<63, 47, 31, 23, 14, 11, 7, 5>>[k + 1]]
LockLimitSwapped == [k \in 0..7 |-> <<63, 47, 23, 31, 15, 11, 7, 5>>[k + 1]]
LockLimit == [k \in 0..7 |-> <<63, 47, 31, 23, 15, 11, 7, 5>>[k + 1]]
LockBit(p) == Max({k \in 0..7 : p <= LockLimit[k]})

PageLocked(c, p) ==
    /\ p > 3
    /\ p > 63 \/ c.LCK[LockBit(p)] = 1

\* hitag_s_page_writable: system pages have locks of their own.
PageWritable(w, p) ==
    LET c == Parse(w)
    IN  CASE p = 0        -> TRUE
          [] p = 1        -> c.LCON = 0
          [] p \in {2, 3} -> c.LKP = 0
          [] OTHER        -> ~PageLocked(c, p)

\* em4100_config_set_ttf: clear RES0 and auth, set the TTF fields, keep the
\* other bits.  No sequence calls it: an EM4100 write uses Em4100Config.
\* Mutant: CON1 set as a whole, LCON and LKP lost.
SetTtfWholeByte(w) == <<w[1] - 4 * BitOf(w[1], 2), 36, w[3], w[4]>>
SetTtf(w) == <<w[1] - 4 * BitOf(w[1], 2), 36 + (w[2] % 4), w[3], w[4]>>

\* The fields em4100_config_set_ttf sets by the comment of its header
\* (em4100_encode.h:49-50), all others as they were.
DocumentedTtf(w) == [Parse(w) EXCEPT !.TTFC = 0, !.TTFDR = 2, !.TTFM = 1]

\* em4100_config_make_8268_ttf: a constant, whatever the tag has now.
Em4100Config == <<218, 164, 0, 0>>

DefaultPassword == <<187, 221, 51, 153>>

\* The configuration a wipe writes: all fields 0 but these two.
WipeConfig ==
    Pack([ MEMT |-> 3, RES |-> [i \in 0..5 |-> 0], LKP |-> 0, LCON |-> 0,
           TTFM |-> 0, TTFDR |-> 0, TTFC |-> 0, auth |-> 0,
           LCK |-> [i \in 0..7 |-> 0], pwdh0 |-> DefaultPassword[1] ])

\* The comparison of a read-back: page 1 without its PWDH0 byte.
SameButPwdh0(v, w) == v[1] = w[1] /\ v[2] = w[2] /\ v[3] = w[3]
SameOnPage(p, v, w) == IF p = 1 THEN SameButPwdh0(v, w) ELSE v = w
==============================================================================
