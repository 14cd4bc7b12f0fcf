----------------------------- MODULE HitagSCodec -----------------------------
(* Frames and checksums on the air (hitag_s_codec.c): the CRC8 of SELECT and  *)
(* of the replies in the advanced modes, the CRC16 of a Hitag micro / 8265    *)
(* response.  A frame is the sequence of its bits, first on the air first.    *)
EXTENDS HitagSUid, Sequences, SequencesExt

WordBits(w) == [i \in 1..32 |-> BitOf(w[((i - 1) \div 8) + 1], 7 - ((i - 1) % 8))]

ByteAt(bits, from) ==
    128 * bits[from] + 64 * bits[from + 1] + 32 * bits[from + 2] + 16 * bits[from + 3]
    + 8 * bits[from + 4] + 4 * bits[from + 5] + 2 * bits[from + 6] + bits[from + 7]
WordAt(bits, from) == [k \in 1..4 |-> ByteAt(bits, from + 8 * (k - 1))]

Zeros(n) == [i \in 1..n |-> 0]

\* One bit into a CRC register (most significant bit first).
Shift(poly, reg, bit) ==
    LET out == (reg[1] + bit) % 2
    IN  [i \in DOMAIN reg |->
            ((IF i < Len(reg) THEN reg[i + 1] ELSE 0) + out * poly[i]) % 2]

Crc(poly, init, bits) ==
    LET reg[i \in 0..Len(bits)] ==
            IF i = 0 THEN init ELSE Shift(poly, reg[i - 1], bits[i])
    IN  reg[Len(bits)]

\* hitag_s_codec_crc8: polynomial 0x1D, initial value 0xFF.
Crc8(bits) == Crc(<<0, 0, 0, 1, 1, 1, 0, 1>>, [i \in 1..8 |-> 1], bits)

\* hitag_htu_codec_crc16: polynomial 0x1021, initial value 0.  The code shifts
\* the data so that it ends on a byte; the bits before the first whole byte
\* make up the first one.  When there are none that first byte is all zeros,
\* and as many bytes as the data has are counted from it: the last byte of the
\* data is left out.
Crc16Input(bits) ==
    LET odd == Len(bits) % 8
    IN  IF odd > 0 THEN bits ELSE SubSeq(bits, 1, Len(bits) - 8)
Crc16(bits) ==
    Crc(<<0, 0, 0, 1, 0, 0, 0, 0, 0, 0, 1, 0, 0, 0, 0, 1>>, Zeros(16), Crc16Input(bits))

\* hitag_s_codec_build_select_frame.
SelectFrame(uid) == LET f == Zeros(5) \o WordBits(uid) IN f \o Crc8(f)

\* hitag_htu_codec_build_read_uid_frame: flags and command go out least
\* significant bit first, and so does the reflected CRC.
ReadUidFrame ==
    LET f == <<0, 0, 1, 0, 0>> \o <<0, 1, 0, 0, 0, 0>> IN f \o Crc16(f)
------------------------------------------------------------------------------
NoReply == <<>>

\* What hitag_s_select_frame and hitag_s_read_page make of a reply: in the
\* advanced modes 32 bits and their CRC8, in STD the bits alone.
\* Mutant: seven of the eight checksum bits are compared.
ReplyShortCrc(rx, crc) ==
    IF crc /\ SubSeq(Crc8(SubSeq(rx, 1, 32)), 1, 7) # SubSeq(rx, 33, 39)
    THEN NoReply ELSE WordAt(rx, 1)
Reply(rx, crc) ==
    IF crc /\ Crc8(SubSeq(rx, 1, 32)) # SubSeq(rx, 33, 40)
    THEN NoReply ELSE WordAt(rx, 1)

HtuUidBits  == 48
HtuResponse == 1 + HtuUidBits + 16     \* error flag, UID, CRC16

\* What a capture one bit short is tried as: a zero in the place of the error
\* flag, then the UID and its checksum without one.
FitsWithZeroFlag(rx) == Crc16(<<0>> \o rx) = Zeros(16)
FitsWithoutFlag(rx)  ==
    Crc16(SubSeq(rx, 1, HtuUidBits)) = SubSeq(rx, HtuUidBits + 1, HtuUidBits + 16)

\* hitag_htu_codec_decode_uid_response: the 48 UID bits, or NoReply.
\* Mutant: the checksum is not looked at when the flag is lost.
HtuUidUnchecked(rx) ==
    IF Len(rx) >= HtuResponse
    THEN IF Crc16(SubSeq(rx, 1, HtuResponse)) = Zeros(16)
         THEN SubSeq(rx, 2, HtuUidBits + 1) ELSE NoReply
    ELSE IF Len(rx) = HtuResponse - 1
    THEN SubSeq(rx, 1, HtuUidBits)
    ELSE NoReply
HtuUid(rx) ==
    IF Len(rx) >= HtuResponse
    THEN IF Crc16(SubSeq(rx, 1, HtuResponse)) = Zeros(16)
         THEN SubSeq(rx, 2, HtuUidBits + 1) ELSE NoReply
    ELSE IF Len(rx) = HtuResponse - 1 /\ (FitsWithZeroFlag(rx) \/ FitsWithoutFlag(rx))
    THEN SubSeq(rx, 1, HtuUidBits)
    ELSE NoReply
==============================================================================
