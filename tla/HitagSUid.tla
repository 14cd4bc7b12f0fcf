------------------------------ MODULE HitagSUid ------------------------------
(* How the reader judges and re-reads a 32-bit UID (hitag_s_codec.c).        *)
EXTENDS TagWord

ReverseByte(b) ==
    128 * BitOf(b, 0) + 64 * BitOf(b, 1) + 32 * BitOf(b, 2) + 16 * BitOf(b, 3)
    + 8 * BitOf(b, 4) + 4 * BitOf(b, 5) + 2 * BitOf(b, 6) + BitOf(b, 7)

ReverseUidBytes(u) == <<u[4], u[3], u[2], u[1]>>
ReverseUidByteBits(u) ==
    <<ReverseByte(u[1]), ReverseByte(u[2]), ReverseByte(u[3]), ReverseByte(u[4])>>

\* The UIDs a SELECT is tried with.  The code tries them in this order, without
\* repeating one; a tag answers to its own UID only, so the set is what counts.
UidVariants(u) ==
    { u, ReverseUidBytes(u), ReverseUidByteBits(u),
      ReverseUidBytes(ReverseUidByteBits(u)) }

\* A decoded UID with so few or so many ones is taken for noise.  The five
\* values the code lists beside the bounds fall outside them already.
LowEntropy(u) == PopCount(u) <= 2 \/ PopCount(u) >= 30
==============================================================================
