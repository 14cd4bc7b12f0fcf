------------------------------- MODULE TagWord -------------------------------
(* A page of the tag is 32 bits on the air, most significant byte first      *)
(* (hitag_s_proto.h, "Config page bitfield structure").  The C code carries  *)
(* it as a uint32_t; here it is the tuple of its four bytes, so that no       *)
(* value leaves the range of TLC's integers.                                  *)
EXTENDS Integers

Byte == 0..255
Bit  == 0..1
Word == [1..4 -> Byte]

\* Bit i of byte b, counted from the least significant one: (b >> i) & 1.
BitOf(b, i) == (b \div 2^i) % 2

\* The number of one bits of a byte.
PopByte(b) == BitOf(b, 0) + BitOf(b, 1) + BitOf(b, 2) + BitOf(b, 3)
              + BitOf(b, 4) + BitOf(b, 5) + BitOf(b, 6) + BitOf(b, 7)

\* hitag_s_codec_uid_popcount: the number of one bits of a word.
PopCount(w) == PopByte(w[1]) + PopByte(w[2]) + PopByte(w[3]) + PopByte(w[4])

\* The word with bit i of byte k inverted.
FlipBit(w, k, i) ==
    [w EXCEPT ![k] = IF BitOf(@, i) = 1 THEN @ - 2^i ELSE @ + 2^i]

ZeroWord == <<0, 0, 0, 0>>
==============================================================================
