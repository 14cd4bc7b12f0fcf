------------------------------ MODULE Hitag8268 ------------------------------
(* The 8268 sequences of the writer (hitag_s_8268.c over hitag_s_session.c):  *)
(* every call wakes the tag and reads its UID, SELECTs it, authenticates, and *)
(* then reads or writes pages one exchange at a time, over a field the tag    *)
(* may leave and a channel that may lose frames or decode noise.              *)
(*                                                                            *)
(* One action per exchange.  The tag's answer to a frame is decoded as it is, *)
(* lost (Lossy), or replaced by what noise decodes to (Noise): any two-bit    *)
(* acknowledgement, a UID of MisreadUids; a page or configuration reply       *)
(* carries a CRC8, and a corrupted one is told from a good one.               *)
EXTENDS Tag8268, Sequences

CONSTANTS
    Tags,         \* the memories the tag may have when it is first presented
    Calls,        \* the calls the application makes
    MisreadUids,  \* words a noisy UID capture may decode to
    Lossy,        \* may frames be lost and the tag leave the field?
    Noise         \* may noise be decoded in place of a reply?

VARIABLES
    mem, session,                 \* the tag: its memory, its powered session
    near,                         \* is the tag where the field reaches it?
    field,                        \* hitag_s_field_active
    pc,                           \* the exchange the reader is at
    call,                         \* the call in progress, or the last one
    uid, config,                  \* the locals of select_and_auth
    try,                          \* authenticate_multi's index
    plan, next,                   \* the page steps of the call and the current one
    got,                          \* the pages read so far (pages, page_valid)
    wiped,                        \* *pages_wiped
    result,                       \* what the call returned
    before                        \* history: the memory when the call began

tagVars    == <<mem, session, near>>
callVars   == <<call, before>>
authVars   == <<uid, config, try>>
stepVars   == <<plan, next, got, wiped>>
vars == <<tagVars, field, pc, callVars, authVars, stepVars, result>>

Ops == {"readUid", "write", "em4100", "read", "readAll", "clone", "wipe"}

Step == [do : {"read", "write", "verify"}, page : Pages, value : Word]
Item == [page : Pages, value : Word]

\* A call: its password (zero for "try the defaults"), the UID and the
\* configuration a clone writes, the pages a write, clone or read is about.
CallType == [op : Ops, pwd : Word, uid : Word, config : Word, data : Seq(Item)]

DistinctPages(items) ==
    \A i, j \in DOMAIN items : items[i].page = items[j].page => i = j

\* em4100_prepare_hitag_data yields pages 4 and 5; a clone plan holds data
\* pages only (hitag_s_dump_model_make_clone_plan starts at page 4).
ProperCall(c) ==
    /\ DistinctPages(c.data)
    /\ c.op = "em4100" => /\ Len(c.data) = 2
                          /\ c.data[1].page = 4
                          /\ c.data[2].page = 5
    /\ c.op = "clone" => \A i \in DOMAIN c.data : c.data[i].page > 3

ASSUME CallsAssumption ==
    /\ Calls \subseteq CallType
    /\ \A c \in Calls : ProperCall(c)
ASSUME TagsAssumption == Tags \subseteq Memory
ASSUME MisreadsAssumption == MisreadUids \subseteq Word
ASSUME ChannelAssumption == Lossy \in BOOLEAN /\ Noise \in BOOLEAN

NoWord  == <<>>
NoPages == [p \in Pages |-> NoWord]
NoCall  == [op |-> "readUid", pwd |-> ZeroWord, uid |-> ZeroWord,
            config |-> ZeroWord, data |-> <<>>]

Failures == {"Timeout", "Nack", "Error", "CrcError"}
Results  == {"None", "Ok"} \cup Failures

Passwords(c) == IF c.pwd = ZeroWord THEN DefaultPasswords ELSE <<c.pwd>>
------------------------------------------------------------------------------
(* The page steps of a call, in the order of the code.                       *)
EachPage(do, items) ==
    [i \in 1..Len(items) |->
        [do |-> do, page |-> items[i].page, value |-> items[i].value]]

PageStep(do, p, v) == [do |-> do, page |-> p, value |-> v]

\* One step for each data page 4..top.
DataPages(do, top, v) == [i \in 1..(top - 3) |-> PageStep(do, i + 3, v)]

WritePlan(c)  == EachPage("verify", c.data)
ReadPlan(c)   == EachPage("read", c.data)

\* Mutant: the configuration first, as the comment of the prototype has it.
Em4100PlanConfigFirst(c) ==
    <<PageStep("verify", 1, Em4100Config)>> \o EachPage("verify", c.data)
Em4100Plan(c) ==
    EachPage("verify", c.data) \o <<PageStep("verify", 1, Em4100Config)>>

\* Mutants: UID before configuration; the two values exchanged.
ClonePlanUidEarly(c) ==
    EachPage("write", c.data)
    \o <<PageStep("write", 0, c.uid), PageStep("write", 1, c.config)>>
ClonePlanExchanged(c) ==
    EachPage("write", c.data)
    \o <<PageStep("write", 1, c.uid), PageStep("write", 0, c.config)>>
ClonePlan(c) ==
    EachPage("write", c.data)
    \o <<PageStep("write", 1, c.config), PageStep("write", 0, c.uid)>>

\* Mutants: the password page left out; cleared like a data page.
WipePlanKeepingPassword(top) ==
    DataPages("write", top, ZeroWord)
    \o <<PageStep("write", 3, ZeroWord), PageStep("write", 1, WipeConfig)>>
WipePlanClearingPassword(top) ==
    DataPages("write", top, ZeroWord)
    \o << PageStep("write", 2, ZeroWord), PageStep("write", 3, ZeroWord),
          PageStep("write", 1, WipeConfig) >>
WipePlan(top) ==
    DataPages("write", top, ZeroWord)
    \o << PageStep("write", 2, DefaultPassword), PageStep("write", 3, ZeroWord),
          PageStep("write", 1, WipeConfig) >>

\* Pages 2 and 3 are left out when the tag will not show them; the last page is
\* that of the configuration SELECT returned.
ReadAllPlan(cfg, top) ==
    (IF Parse(cfg).auth = 1 /\ Parse(cfg).LKP = 1
     THEN <<>> ELSE <<PageStep("read", 2, ZeroWord), PageStep("read", 3, ZeroWord)>>)
    \o DataPages("read", top, ZeroWord)
------------------------------------------------------------------------------
(* The channel.                                                              *)
Unreliable == Lossy \/ Noise
Listening  == session.state # "off"

\* What may happen to the tag when the reader sends a frame it would react to
\* in the ways of reactions.
Frame(reactions) ==
    (IF Listening THEN reactions ELSE {})
    \cup (IF Lossy \/ ~Listening THEN {Misses(mem, session)} ELSE {})

\* What the reader may make of the tag's acknowledgement.
Decoded(answer) ==
    {answer} \cup (IF Lossy THEN {"none"} ELSE {})
             \cup (IF Noise THEN {"ack", "nack"} ELSE {})

\* A failed exchange with a reply under CRC8, and a tag that may have heard it.
ReplyFails(r, answers) ==
    /\ ~answers \/ Unreliable
    /\ r \in {"Timeout"} \cup (IF Noise THEN {"CrcError"} ELSE {})
------------------------------------------------------------------------------
(* Every exit of a sequence switches the field off.                          *)
\* Mutant: an exit that leaves the field on.
ReturnFieldOn(r) ==
    /\ pc' = "idle" /\ result' = r
    /\ UNCHANGED <<field, session>>
Return(r) ==
    /\ pc' = "idle" /\ result' = r
    /\ field' = FALSE /\ session' = Off

\* Go on to another exchange, leaving the tag in session s.
Continue(at, s) ==
    /\ pc' = at /\ session' = s
    /\ UNCHANGED <<field, result>>

Begin(c) ==
    /\ pc = "idle"
    /\ pc' = "probe"
    /\ call' = c /\ before' = mem
    /\ uid' = ZeroWord /\ config' = ZeroWord /\ try' = 1
    /\ plan' = <<>> /\ next' = 1 /\ got' = NoPages /\ wiped' = 0
    /\ result' = "None"
    /\ UNCHANGED <<tagVars, field>>

\* What a UID capture may decode to, and the tag's session then.
Captures ==
    (IF near THEN {[uid |-> mem[0], session |-> Found]} ELSE {})
    \cup {[uid |-> u, session |-> IF near THEN Found ELSE Off] :
              u \in IF Noise THEN MisreadUids ELSE {}}

\* A low-entropy UID is rejected, whatever sent it.
HeardUids == {h \in Captures : ~LowEntropy(h.uid)}

\* hitag_s_8268_probe_uid_adv1: the field is reset and the UID asked for, up to
\* once per wake-up timing; the last attempt leaves the field on if it succeeds.
Probe ==
    /\ pc = "probe"
    /\ \/ \E h \in HeardUids :
             /\ uid' = h.uid
             /\ IF call.op = "readUid"
                THEN Return("Ok")
                ELSE /\ pc' = "select" /\ field' = TRUE /\ session' = h.session
                     /\ UNCHANGED result
       \/ /\ ~near \/ LowEntropy(mem[0]) \/ Unreliable
          /\ Return("Timeout")
          /\ UNCHANGED uid
    /\ UNCHANGED <<mem, near, callVars, config, try, stepVars>>

\* hitag_s_select: the tag answers the SELECT of its own UID with its
\* configuration page; the other variants find no tag.
Select ==
    /\ pc = "select"
    /\ LET answers == session.state = "found" /\ mem[0] \in UidVariants(uid)
       IN  \/ /\ answers
              /\ config' = Shows(mem, 1)
              /\ Continue("auth", Selected)
           \/ /\ \E r \in Failures : ReplyFails(r, answers) /\ Return(r)
              /\ UNCHANGED config
    /\ UNCHANGED <<mem, near, callVars, uid, try, stepVars>>

\* A failed authentication: authenticate_multi goes on after a NACK only.
\* Mutants: it gives up after the first; it goes one past the last.
AuthFailsAtOnce(r, s) == Return(r) /\ UNCHANGED try
AuthFailsPastLast(r, s) ==
    IF r = "Nack" /\ try <= Len(Passwords(call))
    THEN try' = try + 1 /\ Continue("auth", s)
    ELSE Return(r) /\ UNCHANGED try
AuthFails(r, s) ==
    IF r = "Nack" /\ try < Len(Passwords(call))
    THEN try' = try + 1 /\ Continue("auth", s)
    ELSE Return(r) /\ UNCHANGED try

\* hitag_s_8268_authenticate, first exchange: WRITE_PAGE 64.
AuthCommand ==
    /\ pc = "auth"
    /\ \E x \in Frame(HearsWritePage(mem, session, AuthPage)) : \E a \in Decoded(x.answer) :
          \/ a = "ack"  /\ Continue("password", x.session) /\ UNCHANGED try
          \/ a = "nack" /\ AuthFails("Nack", x.session)
          \/ a = "none" /\ AuthFails("Timeout", x.session)
    /\ UNCHANGED <<mem, near, callVars, uid, config, stepVars>>

\* Where a call goes once authenticated, with the steps it then has.
Proceed ==
    CASE call.op \in {"em4100", "readAll"} -> pc' = "config" /\ UNCHANGED plan
      [] call.op = "write" -> pc' = "step" /\ plan' = WritePlan(call)
      [] call.op = "read"  -> pc' = "step" /\ plan' = ReadPlan(call)
      [] call.op = "clone" -> pc' = "step" /\ plan' = ClonePlan(call)
      [] OTHER             -> pc' = "step" /\ plan' = WipePlan(LastPage(config))

\* Second exchange: the password itself.
AuthPassword ==
    /\ pc = "password"
    /\ \E x \in Frame(HearsData(mem, session, Passwords(call)[try])) :
       \E a \in Decoded(x.answer) :
          /\ mem' = x.mem
          /\ \/ /\ a = "ack"
                /\ Proceed /\ session' = x.session
                /\ got' = IF call.op = "readAll" THEN [got EXCEPT ![0] = uid] ELSE got
                /\ UNCHANGED <<field, result, try>>
             \/ a = "nack" /\ AuthFails("Nack", x.session) /\ UNCHANGED <<plan, got>>
             \/ a = "none" /\ AuthFails("Timeout", x.session) /\ UNCHANGED <<plan, got>>
    /\ UNCHANGED <<near, callVars, uid, config, next, wiped>>
------------------------------------------------------------------------------
(* read_page(1) before the steps of an EM4100 write or a dump.  The EM4100    *)
(* write falls back on the configuration of the SELECT.                       *)
PlanEm4100(cfg, s) ==
    IF PageLocked(Parse(cfg), 4) \/ PageLocked(Parse(cfg), 5)
    THEN Return("Error") /\ UNCHANGED plan
    ELSE plan' = Em4100Plan(call) /\ Continue("step", s)

PlanFrom(cfg, s) ==
    \/ /\ call.op = "em4100"
       /\ PlanEm4100(cfg, s)
    \/ /\ call.op = "readAll"
       /\ plan' = ReadAllPlan(cfg, LastPage(config))
       /\ Continue("step", s)

ReadConfig ==
    /\ pc = "config"
    /\ LET answers == Readable(mem, session, 1)
       IN  \/ /\ answers
              /\ config' = Shows(mem, 1)
              /\ got' = IF call.op = "readAll" THEN [got EXCEPT ![1] = Shows(mem, 1)] ELSE got
              /\ PlanFrom(Shows(mem, 1), Disarmed(session))
           \/ /\ \E r \in Failures : ReplyFails(r, answers)
              /\ \E s \in {session, Disarmed(session)} : PlanFrom(config, s)
              /\ UNCHANGED <<config, got>>
    /\ UNCHANGED <<mem, near, callVars, uid, try, next, wiped>>
------------------------------------------------------------------------------
(* The steps.                                                                *)
Current == plan[next]

Advance(s) == next' = next + 1 /\ Continue("step", s)

\* A failed step ends the call, except in a wipe and in a dump, which go on
\* with the next page.
\* Mutant: the step is tried again for as long as it fails.
StepFailsRetry(r, s) == Continue("step", s) /\ UNCHANGED next
StepFails(r, s) ==
    IF call.op \in {"wipe", "readAll"}
    THEN Advance(s)
    ELSE Return(r) /\ UNCHANGED next

\* The clone passes over the data pages the SELECTed configuration locks.
Skipped(step) == call.op = "clone" /\ step.page > 3 /\ ~PageWritable(config, step.page)

SkipLocked ==
    /\ pc = "step" /\ next <= Len(plan)
    /\ Skipped(Current)
    /\ Advance(session)
    /\ UNCHANGED <<mem, near, callVars, authVars, plan, got, wiped>>

\* hitag_s_write_page, first exchange.
WriteCommand ==
    /\ pc = "step" /\ next <= Len(plan)
    /\ Current.do \in {"write", "verify"} /\ ~Skipped(Current)
    /\ \E x \in Frame(HearsWritePage(mem, session, Current.page)) :
       \E a \in Decoded(x.answer) :
          \/ a = "ack"  /\ Continue("data", x.session) /\ UNCHANGED next
          \/ a = "nack" /\ StepFails("Nack", x.session)
          \/ a = "none" /\ StepFails("Timeout", x.session)
    /\ UNCHANGED <<mem, near, callVars, authVars, plan, got, wiped>>

\* A page is written: a verified one is read back, a wiped one counted.
\* Mutant: the count of a wipe misses the system pages.
WrittenDataOnly(s) ==
    /\ IF Current.do = "verify"
       THEN Continue("readback", s) /\ UNCHANGED next
       ELSE Advance(s)
    /\ wiped' = IF call.op = "wipe" /\ Current.page > 3 THEN wiped + 1 ELSE wiped
\* Mutant: no read-back.
WrittenUnverified(s) ==
    /\ Advance(s)
    /\ wiped' = IF call.op = "wipe" THEN wiped + 1 ELSE wiped
Written(s) ==
    /\ IF Current.do = "verify"
       THEN Continue("readback", s) /\ UNCHANGED next
       ELSE Advance(s)
    /\ wiped' = IF call.op = "wipe" THEN wiped + 1 ELSE wiped

\* Second exchange.  A missing final acknowledgement is taken for success.
WriteData ==
    /\ pc = "data"
    /\ \E x \in Frame(HearsData(mem, session, Current.value)) :
       \E a \in Decoded(x.answer) :
          /\ mem' = x.mem
          /\ \/ a \in {"ack", "none"} /\ Written(x.session)
             \/ a = "nack" /\ StepFails("Nack", x.session) /\ UNCHANGED wiped
    /\ UNCHANGED <<near, callVars, authVars, plan, got>>

\* hitag_s_write_page_verify: read the page and compare, page 1 without PWDH0.
\* Mutant: the read value is not compared.
VerifiesAnything(p, w, v) == TRUE
Verifies(p, w, v) == SameOnPage(p, w, v)

ReadBack ==
    /\ pc = "readback"
    /\ LET answers == Readable(mem, session, Current.page)
           w == Shows(mem, Current.page)
       IN  \/ /\ answers
              /\ IF Verifies(Current.page, w, Current.value)
                 THEN Advance(Disarmed(session))
                 ELSE Return("Error") /\ UNCHANGED next
           \/ /\ \E r \in Failures : ReplyFails(r, answers) /\ Return(r)
              /\ UNCHANGED next
    /\ UNCHANGED <<mem, near, callVars, authVars, plan, got, wiped>>

\* Mutant: a read stored one page too high.
KeepShifted(p) == [got EXCEPT ![IF p = TopPage THEN 0 ELSE p + 1] = Shows(mem, p)]
Keep(p) == [got EXCEPT ![p] = Shows(mem, p)]

ReadPage ==
    /\ pc = "step" /\ next <= Len(plan)
    /\ Current.do = "read"
    /\ LET answers == Readable(mem, session, Current.page)
       IN  \/ /\ answers
              /\ got' = Keep(Current.page)
              /\ Advance(Disarmed(session))
           \/ /\ \E r \in Failures : ReplyFails(r, answers)
                    /\ \E s \in {session, Disarmed(session)} : StepFails(r, s)
              /\ UNCHANGED got
    /\ UNCHANGED <<mem, near, callVars, authVars, plan, wiped>>

Finish ==
    /\ pc = "step" /\ next > Len(plan)
    /\ Return("Ok")
    /\ UNCHANGED <<mem, near, callVars, authVars, stepVars>>
------------------------------------------------------------------------------
(* The user moves the tag.                                                   *)
TagLeaves ==
    /\ Lossy /\ near
    /\ near' = FALSE /\ session' = Off
    /\ UNCHANGED <<mem, field, pc, callVars, authVars, stepVars, result>>

TagReturns ==
    /\ ~near
    /\ near' = TRUE /\ session' = IF field THEN Powered ELSE Off
    /\ UNCHANGED <<mem, field, pc, callVars, authVars, stepVars, result>>
------------------------------------------------------------------------------
Init ==
    /\ mem \in Tags /\ session = Off /\ near = TRUE
    /\ field = FALSE /\ pc = "idle"
    /\ call = NoCall /\ before = mem
    /\ uid = ZeroWord /\ config = ZeroWord /\ try = 1
    /\ plan = <<>> /\ next = 1 /\ got = NoPages /\ wiped = 0
    /\ result = "None"

Reader == \/ Probe \/ Select \/ AuthCommand \/ AuthPassword \/ ReadConfig
          \/ SkipLocked \/ WriteCommand \/ WriteData \/ ReadBack \/ ReadPage
          \/ Finish

Next == \/ \E c \in Calls : Begin(c)
        \/ Reader
        \/ TagLeaves \/ TagReturns

Spec == Init /\ [][Next]_vars

\* Every exchange ends by its timeout, so the thread of a call always goes on;
\* nothing makes the user move the tag or the application call again.
FairSpec == Spec /\ WF_vars(Reader)
==============================================================================
