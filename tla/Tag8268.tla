------------------------------- MODULE Tag8268 -------------------------------
(* The 8268 chip, modelled from how the writer drives it: hitag_s_session.c   *)
(* (UID request, SELECT, the two-frame WRITE_PAGE exchange, authentication by *)
(* a write to page 64, READ_PAGE) and the page locks the writer expects it to *)
(* enforce (hitag_s_page_writable).                                           *)
(*                                                                            *)
(* The chip keeps a memory of pages: 0 the UID, 1 the configuration, 2 the    *)
(* password of the page-64 authentication, 3 a spare system page, 4 and up    *)
(* data.  Its session lives as long as it is powered: off, on, found (it has  *)
(* answered a UID request), selected, authed; armed is the page a WRITE_PAGE  *)
(* command has announced and the next data frame programs.                    *)
EXTENDS HitagSConfig, HitagSUid

CONSTANT TopPage    \* the chip's last page: 63, less in the bounded instances

ASSUME TopPageAssumption == TopPage \in 5..63

Pages    == 0..TopPage
Memory   == [Pages -> Word]
AuthPage == 64
NoPage   == -1

Session == [ state : {"off", "on", "found", "selected", "authed"},
             armed : Pages \cup {AuthPage, NoPage} ]

Off      == [state |-> "off", armed |-> NoPage]
Powered  == [state |-> "on", armed |-> NoPage]
Found    == [state |-> "found", armed |-> NoPage]
Selected == [state |-> "selected", armed |-> NoPage]

Disarmed(s) == [s EXCEPT !.armed = NoPage]

\* What the chip does with a frame: its memory and session after it, and the
\* answer it sends ("none" when it stays silent).
Reaction == [mem : Memory, session : Session, answer : {"ack", "nack", "none"}]

React(m, s, a) == [mem |-> m, session |-> s, answer |-> a]

\* A frame the chip does not hear.
Misses(m, s) == React(m, s, "none")

Accepts(m, s, p) ==
    \/ p = AuthPage /\ s.state \in {"selected", "authed"}
    \/ p \in Pages /\ s.state = "authed" /\ PageWritable(m[1], p)

\* WRITE_PAGE p.  A chip that refuses says so or stays silent; either way it
\* forgets a page armed earlier.
HearsWritePage(m, s, p) ==
    IF Accepts(m, s, p)
    THEN {React(m, [s EXCEPT !.armed = p], "ack")}
    ELSE {React(m, Disarmed(s), a) : a \in {"nack", "none"}}

\* The 40-bit frame after an accepted WRITE_PAGE: a password if page 64 is
\* armed, else the page's new value.  Unannounced, it is ignored.
HearsData(m, s, w) ==
    IF s.armed = AuthPage
    THEN IF w = m[2]
         THEN {React(m, [state |-> "authed", armed |-> NoPage], "ack")}
         ELSE {React(m, Disarmed(s), "nack")}
    ELSE IF s.armed \in Pages
    THEN {React([m EXCEPT ![s.armed] = w], Disarmed(s), "ack")}
    ELSE {Misses(m, s)}

\* READ_PAGE is answered with the page.  Pages 2 and 3 are not shown under auth
\* and LKP; a chip in plain mode shows PWDH0 as FF (README.md:141).
Readable(m, s, p) ==
    /\ s.state = "authed"
    /\ ~(p \in {2, 3} /\ Parse(m[1]).auth = 1 /\ Parse(m[1]).LKP = 1)

Shows(m, p) ==
    IF p = 1 /\ Parse(m[1]).auth = 0 THEN [m[1] EXCEPT ![4] = 255] ELSE m[p]
------------------------------------------------------------------------------
(* What every sequence takes from the tag or tries on it.                    *)
\* The loops over a tag's pages stop at the last page its MEMT names.
LastPage(w) ==
    IF MaxPage(Parse(w)) < TopPage THEN MaxPage(Parse(w)) ELSE TopPage

DefaultPasswords ==
    << DefaultPassword, <<77, 73, 75, 82>>, <<170, 170, 170, 170>>,
       <<0, 0, 0, 0>>, <<255, 255, 255, 255>> >>
==============================================================================
