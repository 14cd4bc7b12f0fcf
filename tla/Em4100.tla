-------------------------------- MODULE Em4100 --------------------------------
(* The 64-bit frame of an EM4100 card number (em4100_encode.c): nine header   *)
(* ones, ten rows of four data bits and a parity bit, four column parities    *)
(* and a stop bit.  A card number is its ten rows, most significant first; a  *)
(* frame is the sequence of its bits in the order they are sent.              *)
EXTENDS Integers, FiniteSets

Rows    == 10
Columns == 4
CardId  == [1..Rows -> [1..Columns -> 0..1]]
NoId    == <<>>

Parity(bits) == Cardinality({i \in DOMAIN bits : bits[i] = 1}) % 2

Column(id, c) == [i \in 1..Rows |-> id[i][c]]

\* em4100_encode: row r is bits 5 * r + 5 to 5 * r + 9, its parity the last of
\* them.  em4100_prepare_hitag_data splits the frame over pages 4 and 5.
Encode(id) ==
    [i \in 1..64 |->
        CASE i \in 1..9   -> 1
          [] i \in 10..59 -> LET row == id[(i - 5) \div 5]
                                 c   == (i % 5) + 1
                             IN  IF c <= Columns THEN row[c] ELSE Parity(row)
          [] i \in 60..63 -> Parity(Column(id, i - 59))
          [] OTHER        -> 0]

RowIn(frame, r)       == [c \in 1..Columns |-> frame[5 * r + 4 + c]]
RowParityIn(frame, r) == frame[5 * r + 9]
IdIn(frame)           == [r \in 1..Rows |-> RowIn(frame, r)]
HeaderIn(frame)       == \A i \in 1..9 : frame[i] = 1

\* em4100_decode_hitag_data: header, stop bit and every parity must be right.
\* Mutants: the column parities, or the row parities, are not looked at.
DecodeRowsOnly(frame) ==
    IF /\ HeaderIn(frame)
       /\ frame[64] = 0
       /\ \A i \in 1..Rows : RowParityIn(frame, i) = Parity(RowIn(frame, i))
    THEN IdIn(frame) ELSE NoId
Decode(frame) ==
    IF /\ HeaderIn(frame)
       /\ frame[64] = 0
       /\ \A i \in 1..Rows : RowParityIn(frame, i) = Parity(RowIn(frame, i))
       /\ \A c \in 1..Columns : frame[59 + c] = Parity(Column(IdIn(frame), c))
    THEN IdIn(frame) ELSE NoId
==============================================================================
