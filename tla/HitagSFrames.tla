----------------------------- MODULE HitagSFrames -----------------------------
(* Every frame that differs in a few bits from one the program sends, writes  *)
(* or reads: configuration pages and their locks, EM4100 frames, replies      *)
(* under CRC8 and under CRC16.                                                *)
EXTENDS HitagSConfig, HitagSCodec, Em4100

CONSTANTS
    MaxFlips,     \* the bits inverted in a frame
    Configs,      \* words of page 1
    Cards,        \* card numbers
    CrcWords,     \* words sent under a CRC8
    HtuUids       \* UIDs of Hitag micro tags, as their 48 bits

ASSUME FramesAssumption ==
    /\ MaxFlips \in Nat
    /\ Configs \subseteq Word
    /\ Cards \subseteq CardId
    /\ CrcWords \subseteq Word
    /\ HtuUids \subseteq [1..HtuUidBits -> Bit]

VARIABLES kind, sent, frame, flips

vars == <<kind, sent, frame, flips>>

\* What a Hitag micro tag sends: the error flag and the UID, then their CRC16.
HtuFrame(uid) == <<0>> \o uid \o Crc16(<<0>> \o uid)

Init == /\ flips = 0
        /\ \/ \E w \in Configs : kind = "page" /\ sent = w /\ frame = WordBits(w)
           \/ \E id \in Cards : kind = "card" /\ sent = id /\ frame = Encode(id)
           \/ \E w \in CrcWords :
                 kind = "reply" /\ sent = w /\ frame = WordBits(w) \o Crc8(WordBits(w))
           \/ \E u \in HtuUids :
                 kind = "htu" /\ sent = u /\ frame \in {HtuFrame(u), Tail(HtuFrame(u))}

Flip == /\ flips < MaxFlips
        /\ \E i \in DOMAIN frame : frame' = [frame EXCEPT ![i] = 1 - @]
        /\ flips' = flips + 1
        /\ UNCHANGED <<kind, sent>>

Spec == Init /\ [][Flip]_vars

word == WordAt(frame, 1)
------------------------------------------------------------------------------
\* The page groups of the lock bits as the comments of HitagSConfig give them
\* (hitag_s_proto.h:68-75).
DocumentedGroup == [k \in 0..7 |-> << 48..63, 32..47, 24..31, 16..23,
                                      12..15, 8..11, 6..7, 4..5 >>[k + 1]]

\* A bit pattern read into the bit field struct and packed again is the same
\* word, and the struct has a legal value in every field: no configuration a
\* tag can hold is distorted on its way through parse and pack.
RoundTrip ==
    kind = "page" => Parse(word) \in Config /\ Pack(Parse(word)) = word

\* A page is locked exactly when the lock bit whose documented group holds it
\* is set: the chain of comparisons in hitag_s_page_locked cuts the groups
\* where the comments of the struct say, and beyond page 63 all is locked.
LocksFollowTheGroups ==
    kind = "page" => \A p \in 0..64 :
        PageLocked(Parse(word), p) <=>
            \/ p = 64
            \/ \E k \in 0..7 : Parse(word).LCK[k] = 1 /\ p \in DocumentedGroup[k]

\* The groups of two lock bits never meet: changing one bit of the word changes
\* the writability of the pages of that one lock only, and a bit of CON0, PWDH0
\* or the TTF fields that of no page.
OneBitOneLock ==
    [][kind = "page" =>
       LET changed == {p \in Page : ~(PageWritable(word', p) <=> PageWritable(word, p))}
           groups  == {DocumentedGroup[k] : k \in 0..7} \cup {{1}, {2, 3}, {}}
       IN  /\ changed \in groups
           /\ (word'[1] # word[1] \/ word'[4] # word[4]) => changed = {}]_vars

\* em4100_config_set_ttf neither locks nor unlocks a page, leaves the memory
\* size alone and sets the fields its header names, on every configuration; of
\* the fields the header promises to preserve it clears two, auth and RES0, as
\* its test asks (tests/test_em4100_decode.c:37-38).  SomeCommentHolds of
\* Hitag8268Props is about that promise.  Only the test calls the function:
\* the EM4100 write of the application writes the constant Em4100Config, which
\* keeps neither locks nor size.
SetTtfKeepsLocks ==
    kind = "page" =>
    /\ \A p \in Page : PageWritable(SetTtf(word), p) <=> PageWritable(word, p)
    /\ MaxPage(Parse(SetTtf(word))) = MaxPage(Parse(word))
    /\ Parse(SetTtf(word)) =
          [DocumentedTtf(word) EXCEPT !.auth = 0, !.RES = [@ EXCEPT ![0] = 0]]

\* A card number read from pages 4 and 5 is the one written there, or none:
\* two bits wrong anywhere in the 64, in data, parities, header or stop bit,
\* never make another card number (em4100_decode_hitag_data).  Three may: a
\* data bit with the parities of its row and its column.
CardNeverMisread ==
    kind = "card" => Decode(frame) \in (IF flips = 0 THEN {sent} ELSE {sent, NoId})

\* With one or two bits wrong, a configuration or a page read in an advanced
\* mode is the one the tag sent, or refused.
ReplyNeverMisread ==
    kind = "reply" =>
        Reply(frame, TRUE) \in (IF flips = 0 THEN {sent} ELSE {sent, NoReply})

\* The same of the UID of a Hitag micro response, with its error flag or with
\* the flag lost on the air.  Only a response without its flag whose wrong bits
\* make its first 40 bits fit the checksum, which is all the code looks at when
\* it tries a response that never had a flag, is taken for another UID.
HtuNeverMisread ==
    kind = "htu" =>
        \/ HtuUid(frame) \in (IF flips = 0 THEN {sent} ELSE {sent, NoReply})
        \/ /\ flips > 0 /\ Len(frame) = HtuResponse - 1
           /\ FitsWithoutFlag(frame) /\ ~FitsWithZeroFlag(frame)
==============================================================================
