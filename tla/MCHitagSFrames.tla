---------------------------- MODULE MCHitagSFrames ----------------------------
(* The words, card numbers and UIDs TLC inverts bits of.                      *)
EXTENDS HitagSFrames

MCConfigs == {ZeroWord, <<255, 255, 255, 255>>, WipeConfig, Em4100Config}
MCCrcWords  == {WipeConfig, Em4100Config}

Byte2Bits(b) == [i \in 1..8 |-> BitOf(b, 8 - i)]

Row(n) == SubSeq(Byte2Bits(n), 5, 8)
Card(rows) == [i \in 1..Rows |-> Row(rows[i])]
MCCards == { Card(<<0, 1, 0, 2, 0, 3, 0, 4, 0, 5>>),
             Card(<<15, 15, 14, 13, 0, 0, 7, 0, 8, 15>>) }

\* The second is the one whose checksum has no bit set.
MCHtuUids == { Byte2Bits(18) \o Byte2Bits(52) \o Byte2Bits(86) \o Byte2Bits(120)
               \o Byte2Bits(154) \o Byte2Bits(188),
               Zeros(HtuUidBits) }

\* The words the tests of the repository pin down (tests/test_config.c).
ASSUME TestedWords ==
    /\ WipeConfig = <<3, 0, 0, 187>>
    /\ Pack(Parse(Em4100Config)) = Em4100Config

\* The frames they pin down (tests/test_select_frame.c, tests/test_codec.c).
ASSUME TestedFrames ==
    /\ SubSeq(SelectFrame(<<82, 129, 2, 49>>), 1, 40)
          = Byte2Bits(2) \o WordBits(<<148, 8, 17, 139>>)
    /\ SubSeq(SelectFrame(<<82, 129, 2, 49>>), 38, 45) = Byte2Bits(111)
    /\ ReadUidFrame = SubSeq(WordBits(<<34, 4, 32, 0>>), 1, 27)
==============================================================================
