------------------------ MODULE Hitag8268PromiseProofs ------------------------
(* Safety theorems about what a call takes from the tag and does to it: a     *)
(* dump shows what is on it, a refusal means that no password of the call is  *)
(* the tag's; a call programs the pages of its job only (TagUpdate), in an    *)
(* order that never leaves the tag half configured, with a password that      *)
(* stays known, and counts what it wipes.                                     *)
EXTENDS Hitag8268Proofs, FiniteSetTheorems

------------------------------------------------------------------------------
(* What holds before the first page step of any call, whatever the channel.   *)
SetupPoints == {"probe", "select", "auth", "password", "config"}
StepPoints  == {"step", "data", "readback"}

\* No page is armed: a data frame of this session could only be a password.
NoPageArmed(s) == s.armed \in {NoPage, AuthPage}

\* A tag without power has forgotten what was armed.
Forgets(s) == s.state = "off" => s.armed = NoPage

\* Nothing has been programmed or read yet.
NothingDone ==
    pc \in SetupPoints =>
        /\ mem = before /\ NoPageArmed(session)
        /\ plan = <<>> /\ next = 1
        /\ \A p \in Pages \ {0} : got[p] = NoWord

\* The configuration the call works with is the one the tag had, up to PWDH0.
ConfigKnown ==
    pc \in {"auth", "password", "config"} \cup StepPoints =>
        SameButPwdh0(config, before[1])

\* A UID request goes no further.
UidOnly == call.op = "readUid" => pc \in {"idle", "probe"}

SetupParts == NothingDone /\ ConfigKnown /\ UidOnly /\ Forgets(session)
SetupInv   == TypeOK /\ NoSessionBetweenCalls /\ SetupParts

\* SELECT and READ_PAGE show the configuration up to PWDH0.
LEMMA ShowsConfig ==
    ASSUME NEW m \in Memory
    PROVE  SameButPwdh0(Shows(m, 1), m[1]) /\ SameOnPage(1, Shows(m, 1), m[1])
BY PageFacts DEF Shows, SameButPwdh0, SameOnPage, Memory, Word

\* Every page is shown as it is, page 1 up to PWDH0.
LEMMA ShowsPage ==
    ASSUME NEW m \in Memory, NEW p \in Pages
    PROVE  SameOnPage(p, Shows(m, p), m[p])
<1>1. CASE p = 1 BY <1>1, ShowsConfig
<1>2. CASE p # 1 BY <1>2 DEF Shows, SameOnPage
<1> QED BY <1>1, <1>2

\* What the writer asks of a configuration does not depend on PWDH0.
LEMMA SameLayout ==
    ASSUME NEW v, NEW w, SameButPwdh0(v, w)
    PROVE  /\ LastPage(v) = LastPage(w)
           /\ \A p : PageWritable(v, p) = PageWritable(w, p)
<1>1. /\ Parse(v).MEMT = Parse(w).MEMT /\ Parse(v).LCK = Parse(w).LCK
      /\ Parse(v).LCON = Parse(w).LCON /\ Parse(v).LKP = Parse(w).LKP
  BY DEF Parse, SameButPwdh0
<1>2. MaxPage(Parse(v)) = MaxPage(Parse(w)) BY <1>1 DEF MaxPage
<1>3. \A p : PageLocked(Parse(v), p) = PageLocked(Parse(w), p)
  BY <1>1 DEF PageLocked
<1> QED BY <1>1, <1>2, <1>3 DEF LastPage, PageWritable

\* A frame leaves an unpowered tag unarmed.
LEMMA FrameForgets ==
    ASSUME session \in Session, Forgets(session), NEW p, NEW w,
           NEW x \in Frame(HearsWritePage(mem, session, p))
                     \cup Frame(HearsData(mem, session, w))
    PROVE  Forgets(x.session)
BY DEF Frame, HearsWritePage, HearsData, Accepts, Misses, React, Disarmed, Session,
       Forgets

\* A return ends the setup of a call.
LEMMA ReturnSetup ==
    ASSUME NEW r, Return(r) PROVE SetupParts'
BY DEF Return, SetupParts, NothingDone, ConfigKnown, UidOnly, Forgets, Off,
       SetupPoints, StepPoints

\* A setup step that touches nothing keeps the setup.
LEMMA SetupGoesOn ==
    ASSUME SetupInv, UNCHANGED <<mem, before, call, plan, next>>,
           pc \in SetupPoints, pc' \in SetupPoints \cup StepPoints, pc' # "probe",
           pc' \in SetupPoints =>
               NoPageArmed(session') /\ \A p \in Pages \ {0} : got'[p] = NoWord,
           Forgets(session'), call.op # "readUid",
           pc' # "select" => SameButPwdh0(config', before[1])
    PROVE  SetupParts'
<1> USE DEF SetupInv, SetupParts, SetupPoints, StepPoints
<1>1. NothingDone' BY DEF NothingDone, NoPageArmed
<1>2. ConfigKnown' BY DEF ConfigKnown
<1>3. UidOnly' BY DEF UidOnly
<1> QED BY <1>1, <1>2, <1>3 DEF Forgets

\* A step of the plan keeps what the setup has left.
LEMMA StepGoesOn ==
    ASSUME SetupInv, UNCHANGED <<before, call, config>>,
           pc \in StepPoints \cup {"config", "password"},
           pc' \in StepPoints, Forgets(session')
    PROVE  SetupParts'
<1> USE DEF SetupInv, SetupParts, SetupPoints, StepPoints
<1>1. NothingDone' BY DEF NothingDone
<1>2. ConfigKnown' BY DEF ConfigKnown
<1>3. UidOnly' BY DEF UidOnly
<1> QED BY <1>1, <1>2, <1>3 DEF Forgets

\* A new call finds the field off and the tag without a session.
LEMMA BeginSetup == ASSUME SetupInv, NEW c \in Calls, Begin(c) PROVE SetupParts'
<1> USE DEF SetupInv, SetupParts, Begin, tagVars
<1>1. session = Off BY DEF NoSessionBetweenCalls
<1>2. NothingDone' BY <1>1 DEF NothingDone, NoPageArmed, Off, NoPages
<1>3. ConfigKnown' BY DEF ConfigKnown, StepPoints
<1>4. UidOnly' BY DEF UidOnly
<1> QED BY <1>1, <1>2, <1>3, <1>4 DEF Forgets

\* The UID request resets the field, so the tag comes out of it unarmed.
LEMMA ProbeSetup == ASSUME SetupInv, Probe PROVE SetupParts'
<1> USE DEF Probe, callVars, stepVars
<1>1. CASE \E r : Return(r) BY <1>1, ReturnSetup
<1>2. CASE \E h \in HeardUids : call.op # "readUid" /\ pc' = "select" /\ session' = h.session
  <2>1. session' \in {Found, Off} BY <1>2 DEF HeardUids, Captures
  <2>2. NoPageArmed(session') /\ Forgets(session')
    BY <2>1 DEF NoPageArmed, Forgets, Found, Off
  <2>3. \A p \in Pages \ {0} : got'[p] = NoWord
    BY DEF SetupInv, SetupParts, NothingDone, SetupPoints
  <2> QED BY <1>2, <2>2, <2>3, SetupGoesOn DEF SetupPoints
<1> QED BY <1>1, <1>2

\* SELECT is answered with the configuration.
LEMMA SelectSetup == ASSUME SetupInv, Select PROVE SetupParts'
<1> USE DEF Select, callVars, stepVars
<1>1. CASE \E r : Return(r) BY <1>1, ReturnSetup
<1>2. CASE config' = Shows(mem, 1) /\ Continue("auth", Selected)
  <2>1. mem = before /\ mem \in Memory /\ call.op # "readUid"
        /\ \A p \in Pages \ {0} : got[p] = NoWord
    BY DEF SetupInv, SetupParts, NothingDone, SetupPoints, UidOnly, TypeOK, TagTypeOK
  <2>2. SameButPwdh0(config', before[1]) BY <1>2, <2>1, ShowsConfig
  <2>3. NoPageArmed(Selected) /\ Forgets(Selected) BY DEF NoPageArmed, Forgets, Selected
  <2> QED BY <1>2, <2>1, <2>2, <2>3, SetupGoesOn DEF SetupPoints, Continue
<1> QED BY <1>1, <1>2

\* An authentication exchange arms page 64 at most.
LEMMA AuthFailsSetup ==
    ASSUME SetupInv, pc \in {"auth", "password"}, NEW r, NEW s, AuthFails(r, s),
           NoPageArmed(s), Forgets(s), UNCHANGED <<mem, before, call, plan, next, got, config>>
    PROVE  SetupParts'
<1>1. CASE Return(r) BY <1>1, ReturnSetup
<1>2. CASE Continue("auth", s)
  <2>1. \A p \in Pages \ {0} : got[p] = NoWord
    BY DEF SetupInv, SetupParts, NothingDone, SetupPoints
  <2>2. SameButPwdh0(config, before[1]) /\ call.op # "readUid"
    BY DEF SetupInv, SetupParts, ConfigKnown, UidOnly
  <2> QED BY <1>2, <2>1, <2>2, SetupGoesOn DEF SetupPoints, Continue
<1> QED BY <1>1, <1>2 DEF AuthFails

\* WRITE_PAGE 64.
LEMMA AuthCommandSetup == ASSUME SetupInv, AuthCommand PROVE SetupParts'
<1> USE DEF AuthCommand, callVars, stepVars
<1>1. PICK x \in Frame(HearsWritePage(mem, session, AuthPage)) :
        \/ Continue("password", x.session)
        \/ AuthFails("Nack", x.session)
        \/ AuthFails("Timeout", x.session)
  OBVIOUS
<1>2. /\ mem \in Memory /\ session \in Session /\ Forgets(session)
      /\ NoPageArmed(session) /\ \A p \in Pages \ {0} : got[p] = NoWord
      /\ SameButPwdh0(config, before[1]) /\ call.op # "readUid"
  BY DEF SetupInv, SetupParts, NothingDone, ConfigKnown, UidOnly, SetupPoints,
         TypeOK, TagTypeOK
<1>3. NoPageArmed(x.session) BY <1>2, WritePageFrame DEF NoPageArmed
<1>4. Forgets(x.session) BY <1>2, FrameForgets
<1>5. CASE Continue("password", x.session)
  BY <1>2, <1>3, <1>4, <1>5, SetupGoesOn DEF SetupPoints, Continue
<1>6. CASE AuthFails("Nack", x.session) \/ AuthFails("Timeout", x.session)
  BY <1>3, <1>4, <1>6, AuthFailsSetup DEF authVars
<1> QED BY <1>1, <1>5, <1>6

\* A frame to a tag with no page armed does not change its memory.
LEMMA PasswordFrame ==
    ASSUME mem \in Memory, session \in Session, NoPageArmed(session), NEW w \in Word,
           NEW x \in Frame(HearsData(mem, session, w))
    PROVE  x.mem = mem /\ NoPageArmed(x.session)
BY DataFrame, PageFacts DEF NoPageArmed

\* The password frame leaves the memory alone; an accepted password brings the
\* call to its steps or to a second read of page 1.
LEMMA AuthPasswordSetup == ASSUME SetupInv, AuthPassword PROVE SetupParts'
<1> USE DEF AuthPassword, callVars
<1>1. PICK x \in Frame(HearsData(mem, session, Passwords(call)[try])) :
        /\ mem' = x.mem
        /\ \/ /\ Proceed /\ session' = x.session
              /\ got' = IF call.op = "readAll" THEN [got EXCEPT ![0] = uid] ELSE got
           \/ AuthFails("Nack", x.session) /\ UNCHANGED <<plan, got>>
           \/ AuthFails("Timeout", x.session) /\ UNCHANGED <<plan, got>>
  OBVIOUS
<1>2. /\ mem \in Memory /\ session \in Session /\ Forgets(session)
      /\ NoPageArmed(session) /\ \A p \in Pages \ {0} : got[p] = NoWord
      /\ SameButPwdh0(config, before[1]) /\ call.op # "readUid"
      /\ got \in [Pages -> Word \cup {NoWord}]
  BY DEF SetupInv, SetupParts, NothingDone, ConfigKnown, UidOnly, SetupPoints,
         TypeOK, TagTypeOK, StepTypeOK
<1>3. Passwords(call)[try] \in Word
  BY PasswordWords DEF SetupInv, TypeOK, CallTypeOK
<1>4. mem' = mem /\ NoPageArmed(x.session) BY <1>1, <1>2, <1>3, PasswordFrame
<1>5. Forgets(x.session) BY <1>2, FrameForgets
<1>6. CASE /\ Proceed /\ session' = x.session
           /\ got' = IF call.op = "readAll" THEN [got EXCEPT ![0] = uid] ELSE got
  <2>1. CASE call.op \in {"em4100", "readAll"}
    <3>1. pc' = "config" /\ UNCHANGED plan BY <1>6, <2>1 DEF Proceed
    <3>2. \A p \in Pages \ {0} : got'[p] = NoWord BY <1>2, <1>6, PageFacts
    <3> QED BY <1>2, <1>4, <1>5, <1>6, <3>1, <3>2, SetupGoesOn DEF SetupPoints
  <2>2. CASE call.op \notin {"em4100", "readAll"}
    <3>1. pc' = "step" BY <1>6, <2>2 DEF Proceed
    <3> QED BY <1>5, <1>6, <3>1, StepGoesOn DEF StepPoints
  <2> QED BY <2>1, <2>2
<1>7. CASE /\ AuthFails("Nack", x.session) \/ AuthFails("Timeout", x.session)
           /\ UNCHANGED <<plan, got>>
  BY <1>4, <1>5, <1>7, AuthFailsSetup
<1> QED BY <1>1, <1>6, <1>7

\* Page 1 is read again, or the configuration of SELECT is kept.
LEMMA ReadConfigSetup == ASSUME SetupInv, ReadConfig PROVE SetupParts'
<1> USE DEF ReadConfig, callVars
<1>1. PICK s \in {session, Disarmed(session)} : \E cfg : PlanFrom(cfg, s)
  OBVIOUS
<1>2. CASE Return("Error") BY <1>2, ReturnSetup
<1>3. CASE Continue("step", s)
  <2>1. /\ mem \in Memory /\ session \in Session /\ Forgets(session) /\ mem = before
        /\ SameButPwdh0(config, before[1]) /\ call.op # "readUid"
    BY DEF SetupInv, SetupParts, NothingDone, ConfigKnown, UidOnly, SetupPoints,
           TypeOK, TagTypeOK
  <2>2. SameButPwdh0(config', before[1]) BY <2>1, ShowsConfig
  <2>3. Forgets(s) BY <2>1 DEF Forgets, Disarmed, Session
  <2>4. pc' = "step" /\ session' = s BY <1>3 DEF Continue
  <2>5. NothingDone' BY <2>4 DEF NothingDone, SetupPoints
  <2>6. ConfigKnown' BY <2>2 DEF ConfigKnown
  <2>7. UidOnly' BY <2>1 DEF UidOnly
  <2>8. Forgets(session') BY <2>3, <2>4
  <2> QED BY <2>5, <2>6, <2>7, <2>8 DEF SetupParts, Forgets
<1> QED BY <1>1, <1>2, <1>3 DEF PlanFrom, PlanEm4100

\* The page steps keep the configuration and leave an unpowered tag unarmed.
LEMMA PageStepSetup ==
    ASSUME SetupInv, SkipLocked \/ WriteCommand \/ WriteData \/ ReadBack \/ ReadPage \/ Finish
    PROVE  SetupParts'
<1>1. pc \in StepPoints /\ UNCHANGED <<before, call, config>>
  BY DEF SkipLocked, WriteCommand, WriteData, ReadBack, ReadPage, Finish, StepPoints,
         callVars, authVars
<1>2. session \in Session /\ Forgets(session) /\ Forgets(Disarmed(session))
  BY DEF SetupInv, SetupParts, TypeOK, TagTypeOK, Disarmed, Session, Forgets
<1>3. \/ \E r : Return(r)
      \/ pc' \in StepPoints /\ Forgets(session')
  <2> USE DEF Advance, Continue, StepFails, StepPoints
  <2>1. CASE SkipLocked BY <1>2, <2>1 DEF SkipLocked
  <2>2. CASE WriteCommand
    <3>1. PICK x \in Frame(HearsWritePage(mem, session, Current.page)) :
            \/ Continue("data", x.session)
            \/ StepFails("Nack", x.session)
            \/ StepFails("Timeout", x.session)
      BY <2>2 DEF WriteCommand
    <3>2. Forgets(x.session) BY <1>2, FrameForgets
    <3> QED BY <3>1, <3>2
  <2>3. CASE WriteData
    <3>1. PICK x \in Frame(HearsData(mem, session, Current.value)) :
            Written(x.session) \/ StepFails("Nack", x.session)
      BY <2>3 DEF WriteData
    <3>2. Forgets(x.session) BY <1>2, FrameForgets
    <3> QED BY <3>1, <3>2 DEF Written
  <2>4. CASE ReadBack BY <1>2, <2>4 DEF ReadBack
  <2>5. CASE ReadPage BY <1>2, <2>5 DEF ReadPage
  <2>6. CASE Finish BY <2>6 DEF Finish
  <2> QED BY <2>1, <2>2, <2>3, <2>4, <2>5, <2>6
<1> QED BY <1>1, <1>3, ReturnSetup, StepGoesOn

\* A tag that is moved loses its session.
LEMMA TagMovesSetup == ASSUME SetupInv, TagLeaves \/ TagReturns PROVE SetupParts'
<1> USE DEF TagLeaves, TagReturns, callVars, authVars, stepVars, SetupInv, SetupParts
<1>1. session' \in {Off, Powered} OBVIOUS
<1>2. NoPageArmed(session') /\ Forgets(session')
  BY <1>1 DEF NoPageArmed, Forgets, Off, Powered
<1>3. UNCHANGED <<mem, before, pc, plan, next, got, config, call>> OBVIOUS
<1> HIDE DEF TagLeaves, TagReturns
<1>4. NothingDone' BY <1>2, <1>3 DEF NothingDone, NoPageArmed
<1>5. ConfigKnown' BY <1>3 DEF ConfigKnown
<1>6. UidOnly' BY <1>3 DEF UidOnly
<1> QED BY <1>2, <1>4, <1>5, <1>6 DEF Forgets

\* The setup of every call is inductive, whatever the channel does.
LEMMA SetupInvStep == SetupInv /\ [Next]_vars => SetupInv'
<1> SUFFICES ASSUME SetupInv, [Next]_vars PROVE SetupInv' OBVIOUS
<1>1. SetupParts'
  <2>1. ASSUME NEW c \in Calls, Begin(c) PROVE SetupParts' BY <2>1, BeginSetup
  <2>2. CASE Probe        BY <2>2, ProbeSetup
  <2>3. CASE Select       BY <2>3, SelectSetup
  <2>4. CASE AuthCommand  BY <2>4, AuthCommandSetup
  <2>5. CASE AuthPassword BY <2>5, AuthPasswordSetup
  <2>6. CASE ReadConfig   BY <2>6, ReadConfigSetup
  <2>7. CASE SkipLocked \/ WriteCommand \/ WriteData \/ ReadBack \/ ReadPage \/ Finish
    BY <2>7, PageStepSetup
  <2>8. CASE TagLeaves \/ TagReturns BY <2>8, TagMovesSetup
  <2>9. CASE UNCHANGED vars
    BY <2>9 DEF vars, tagVars, callVars, authVars, stepVars, SetupInv, SetupParts,
                NothingDone, NoPageArmed, ConfigKnown, UidOnly, Forgets
  <2> QED BY <2>1, <2>2, <2>3, <2>4, <2>5, <2>6, <2>7, <2>8, <2>9 DEF Next, Reader
<1>2. TypeOK' BY TypeStep DEF SetupInv
<1>3. NoSessionBetweenCalls' BY IdleStep DEF SetupInv
<1> QED BY <1>1, <1>2, <1>3 DEF SetupInv

\* The initial states have no call to set up.
LEMMA SetupInvInit == Init => SetupInv
<1> SUFFICES ASSUME Init PROVE SetupInv OBVIOUS
<1>1. TypeOK BY InitType
<1>2. NoSessionBetweenCalls BY DEF Init, NoSessionBetweenCalls
<1>3. SetupParts
  BY DEF Init, SetupParts, NothingDone, ConfigKnown, UidOnly, Forgets, Off,
         SetupPoints, StepPoints
<1> QED BY <1>1, <1>2, <1>3 DEF SetupInv

------------------------------------------------------------------------------
(* What a read or a dump shows.                                               *)
ReadOnly(c) == c.op \in {"readUid", "read", "readAll"}

\* A page marked as read, against the memory m.
Shown(c, p, w, m) == SameOnPage(p, w, m[p]) /\ (c.op = "readAll" => p <= LastPage(m[1]))

\* A call that only reads has only steps that read, arms no page of the tag and
\* leaves it as it was; a dump has no step beyond the tag's last page.
ReadsOnly ==
    ReadOnly(call) =>
        /\ mem = before /\ NoPageArmed(session)
        /\ pc \in StepPoints =>
              \A j \in DOMAIN plan :
                  /\ plan[j].do = "read"
                  /\ call.op = "readAll" => plan[j].page <= LastPage(before[1])

\* The pages it has marked as read are those the tag shows.
MarkedAreShown ==
    ReadOnly(call) =>
        \A p \in Pages \ {0} : got[p] # NoWord => Shown(call, p, got[p], before)

ReadingParts == ReadsOnly /\ MarkedAreShown
ReadingInv   == SetupInv /\ ReadingParts

\* Both plans of a read hold reads only, a dump's up to its last page.
LEMMA ReadPlans ==
    ASSUME NEW c \in CallType, NEW cfg, NEW top \in 5..TopPage
    PROVE  /\ \A j \in DOMAIN ReadPlan(c) : ReadPlan(c)[j].do = "read"
           /\ \A j \in DOMAIN ReadAllPlan(cfg, top) :
                  ReadAllPlan(cfg, top)[j].do = "read" /\ ReadAllPlan(cfg, top)[j].page <= top
<1>1. c.data \in Seq(Item) BY DEF CallType
<1>2. \A j \in DOMAIN ReadPlan(c) : ReadPlan(c)[j].do = "read"
  <2> DEFINE each == EachPage("read", c.data)
  <2>1. /\ each \in Seq(Step) /\ Len(each) = Len(c.data)
        /\ \A i \in 1..Len(c.data) :
               each[i] = [do |-> "read", page |-> c.data[i].page, value |-> c.data[i].value]
    BY <1>1, EachPageType
  <2> HIDE DEF each
  <2>2. DOMAIN each = 1..Len(c.data) BY <2>1
  <2>3. ASSUME NEW j \in DOMAIN each PROVE each[j].do = "read"
    <3>1. each[j] = [do |-> "read", page |-> c.data[j].page, value |-> c.data[j].value]
      BY <2>1, <2>2
    <3> QED BY <3>1
  <2> QED BY <2>3 DEF ReadPlan, each
<1> DEFINE R == {s \in Step : s.do = "read" /\ s.page <= top}
<1> DEFINE system == IF Parse(cfg).auth = 1 /\ Parse(cfg).LKP = 1
                     THEN <<>> ELSE <<PageStep("read", 2, ZeroWord), PageStep("read", 3, ZeroWord)>>
<1>3. \A p \in Pages : p <= top => PageStep("read", p, ZeroWord) \in R
  BY ConstantWords DEF PageStep, Step
<1>4. system \in Seq(R)
  <2>1. PageStep("read", 2, ZeroWord) \in R /\ PageStep("read", 3, ZeroWord) \in R
    BY <1>3, PageFacts
  <2> HIDE DEF R
  <2> QED BY <2>1
<1>5. DataPages("read", top, ZeroWord) \in Seq(R)
  <2>1. \A i \in 1..(top - 3) : i + 3 \in Pages /\ i + 3 <= top
    BY TopPageAssumption DEF Pages
  <2>2. \A i \in 1..(top - 3) : PageStep("read", i + 3, ZeroWord) \in R
    BY <1>3, <2>1
  <2> HIDE DEF R
  <2> QED BY <2>2, TopPageAssumption DEF DataPages
<1>6. ReadAllPlan(cfg, top) = system \o DataPages("read", top, ZeroWord) BY DEF ReadAllPlan
<1> HIDE DEF system, R
<1>7. ReadAllPlan(cfg, top) \in Seq(R) BY <1>4, <1>5, <1>6
<1>8. \A j \in DOMAIN ReadAllPlan(cfg, top) : ReadAllPlan(cfg, top)[j] \in R BY <1>7
<1> QED BY <1>2, <1>8 DEF R

\* Setup and returns keep what a read has.
LEMMA ReadingKept ==
    ASSUME ReadingInv, UNCHANGED <<mem, before, call, got>>,
           ReadOnly(call) => NoPageArmed(session'),
           ReadOnly(call) /\ pc' \in StepPoints => pc \in StepPoints /\ UNCHANGED plan
    PROVE  ReadingParts'
<1> USE DEF ReadingInv, ReadingParts
<1>1. ReadsOnly' BY DEF ReadsOnly, NoPageArmed
<1>2. MarkedAreShown' BY DEF MarkedAreShown, Shown
<1> QED BY <1>1, <1>2

\* A return leaves the tag without a session.
LEMMA ReturnReading ==
    ASSUME ReadingInv, NEW r, Return(r), UNCHANGED <<mem, before, call, got>>
    PROVE  ReadingParts'
BY ReadingKept DEF Return, Off, NoPageArmed, StepPoints

\* At a setup point nothing is programmed or marked.
LEMMA SetupReading ==
    ASSUME SetupParts', pc' \in SetupPoints
    PROVE  ReadingParts'
<1> USE DEF SetupParts, NothingDone
<1>1. ReadsOnly' BY DEF ReadsOnly, SetupPoints, StepPoints, NoPageArmed
<1>2. MarkedAreShown' BY DEF MarkedAreShown
<1> QED BY <1>1, <1>2 DEF ReadingParts

\* So a read is right until it is authenticated.
LEMMA ProbeToCommandReading ==
    ASSUME ReadingInv, Probe \/ Select \/ AuthCommand
    PROVE  ReadingParts'
<1>1. SetupParts' BY ProbeSetup, SelectSetup, AuthCommandSetup DEF ReadingInv
<1>2. UNCHANGED <<mem, before, call, got>>
  BY DEF Probe, Select, AuthCommand, callVars, stepVars
<1>3. pc' \in SetupPoints \/ \E r : Return(r)
  BY DEF Probe, Select, AuthCommand, AuthFails, Continue, SetupPoints
<1> QED BY <1>1, <1>2, <1>3, SetupReading, ReturnReading

\* Once authenticated, a read has its plan.
LEMMA AuthPasswordReading == ASSUME ReadingInv, AuthPassword PROVE ReadingParts'
<1> USE DEF AuthPassword, callVars
<1>1. PICK x \in Frame(HearsData(mem, session, Passwords(call)[try])) :
        /\ mem' = x.mem
        /\ \/ /\ Proceed /\ session' = x.session
              /\ got' = IF call.op = "readAll" THEN [got EXCEPT ![0] = uid] ELSE got
           \/ AuthFails("Nack", x.session) /\ UNCHANGED <<plan, got>>
           \/ AuthFails("Timeout", x.session) /\ UNCHANGED <<plan, got>>
  OBVIOUS
<1>2. /\ mem \in Memory /\ session \in Session /\ mem = before
      /\ NoPageArmed(session) /\ \A p \in Pages \ {0} : got[p] = NoWord
      /\ call \in CallType /\ call.op # "readUid" /\ got \in [Pages -> Word \cup {NoWord}]
  BY DEF ReadingInv, SetupInv, SetupParts, NothingDone, UidOnly, SetupPoints, TypeOK,
         TagTypeOK, CallTypeOK, StepTypeOK
<1>3. Passwords(call)[try] \in Word
  BY PasswordWords DEF ReadingInv, SetupInv, TypeOK, CallTypeOK
<1>4. mem' = mem /\ NoPageArmed(x.session) BY <1>1, <1>2, <1>3, PasswordFrame
<1>5. SetupParts' BY AuthPasswordSetup DEF ReadingInv
<1>6. CASE /\ Proceed /\ session' = x.session
           /\ got' = IF call.op = "readAll" THEN [got EXCEPT ![0] = uid] ELSE got
  <2>1. CASE call.op \in {"em4100", "readAll"}
    BY <1>5, <1>6, <2>1, SetupReading DEF Proceed, SetupPoints
  <2>2. CASE call.op = "read"
    <3>1. pc' = "step" /\ plan' = ReadPlan(call) BY <1>6, <2>2 DEF Proceed
    <3>2. TopPage \in 5..TopPage BY TopPageAssumption
    <3>3. \A j \in DOMAIN plan' : plan'[j].do = "read" BY <1>2, <3>1, <3>2, ReadPlans
    <3>4. ReadsOnly' BY <1>2, <1>4, <1>6, <2>2, <3>3 DEF ReadsOnly, NoPageArmed
    <3>5. MarkedAreShown' BY <1>2, <1>6, <2>2 DEF MarkedAreShown
    <3> QED BY <3>4, <3>5 DEF ReadingParts
  <2>3. CASE call.op \notin {"em4100", "readAll", "read"}
    <3>1. ~ReadOnly(call)' BY <1>2, <2>3 DEF ReadOnly
    <3> QED BY <3>1 DEF ReadingParts, ReadsOnly, MarkedAreShown
  <2> QED BY <2>1, <2>2, <2>3
<1>7. CASE /\ AuthFails("Nack", x.session) \/ AuthFails("Timeout", x.session)
           /\ UNCHANGED <<plan, got>>
  <2>1. CASE pc' = "auth" BY <1>5, <2>1, SetupReading DEF SetupPoints
  <2>2. CASE \E r : Return(r) BY <1>4, <1>7, <2>2, ReturnReading
  <2> QED BY <1>7, <2>1, <2>2 DEF AuthFails, Continue
<1> QED BY <1>1, <1>6, <1>7

\* A dump marks page 1 with what the tag shows and plans up to its last page.
LEMMA ReadConfigReading == ASSUME ReadingInv, ReadConfig PROVE ReadingParts'
<1> USE DEF ReadConfig, callVars
<1>1. CASE call.op # "readAll"
  <2>1. PICK s \in {session, Disarmed(session)} : \E cfg : PlanFrom(cfg, s)
    OBVIOUS
  <2>2. ~ReadOnly(call)' BY <1>1, <2>1 DEF ReadOnly, PlanFrom
  <2> QED BY <2>2 DEF ReadingParts, ReadsOnly, MarkedAreShown
<1>2. CASE call.op = "readAll"
  <2>1. /\ mem \in Memory /\ session \in Session /\ mem = before
        /\ NoPageArmed(session) /\ \A p \in Pages \ {0} : got[p] = NoWord
        /\ call \in CallType /\ SameButPwdh0(config, before[1])
        /\ got \in [Pages -> Word \cup {NoWord}] /\ before \in Memory
    BY DEF ReadingInv, SetupInv, SetupParts, NothingDone, ConfigKnown, SetupPoints, TypeOK,
           TagTypeOK, CallTypeOK, StepTypeOK
  <2>2. PICK s \in {session, Disarmed(session)} :
          \E cfg : /\ plan' = ReadAllPlan(cfg, LastPage(config))
                   /\ Continue("step", s)
    BY <1>2 DEF PlanFrom
  <2>3. NoPageArmed(s) BY <2>1 DEF NoPageArmed, Disarmed, Session
  <2>4. LastPage(config) = LastPage(before[1]) BY <2>1, SameLayout
  <2>5. LastPage(config) \in 5..TopPage BY LastPageType
  <2>6. \A j \in DOMAIN plan' : plan'[j].do = "read" /\ plan'[j].page <= LastPage(before[1])
    BY <2>1, <2>2, <2>4, <2>5, ReadPlans
  <2>7. session' = s /\ pc' = "step" BY <2>2 DEF Continue
  <2>8. ReadsOnly' BY <2>1, <2>3, <2>6, <2>7 DEF ReadsOnly, NoPageArmed
  <2>9. ASSUME NEW p \in Pages \ {0}, got'[p] # NoWord PROVE Shown(call, p, got'[p], before)
    <3>1. p = 1 /\ got'[1] = Shows(mem, 1) BY <1>2, <2>1, <2>9
    <3>2. 1 <= LastPage(before[1]) BY <2>4, <2>5, TopPageAssumption
    <3> QED BY <2>1, <3>1, <3>2, ShowsConfig DEF Shown
  <2>10. MarkedAreShown' BY <2>9 DEF MarkedAreShown, Shown
  <2> QED BY <2>8, <2>10 DEF ReadingParts
<1> QED BY <1>1, <1>2

\* No write step belongs to a read.
LEMMA WritesAreNotReads ==
    ASSUME ReadingInv, next \in DOMAIN plan, pc \in StepPoints, plan[next].do # "read"
    PROVE  ~ReadOnly(call)
BY DEF ReadingInv, ReadingParts, ReadsOnly

\* A write step and a page passed over belong to other calls.
LEMMA WriteStepReading ==
    ASSUME ReadingInv, SkipLocked \/ WriteCommand \/ WriteData \/ ReadBack
    PROVE  ReadingParts'
<1>1. UNCHANGED call
  BY DEF SkipLocked, WriteCommand, WriteData, ReadBack, callVars
<1>2. ~ReadOnly(call)
  <2>1. CASE SkipLocked BY <2>1 DEF SkipLocked, Skipped, ReadOnly
  <2>2. CASE WriteCommand
    <3>1. next \in DOMAIN plan /\ plan[next].do # "read" /\ pc \in StepPoints
      BY <2>2 DEF ReadingInv, SetupInv, TypeOK, StepTypeOK, WriteCommand, Current, StepPoints
    <3> QED BY <3>1, WritesAreNotReads
  <2>3. CASE WriteData \/ ReadBack
    <3>1. next \in DOMAIN plan /\ plan[next].do # "read" /\ pc \in StepPoints
      BY <2>3 DEF ReadingInv, SetupInv, TypeOK, StepTypeOK, WriteData, ReadBack, StepPoints
    <3> QED BY <3>1, WritesAreNotReads
  <2> QED BY <2>1, <2>2, <2>3
<1> QED BY <1>1, <1>2 DEF ReadingParts, ReadsOnly, MarkedAreShown

\* A page read is marked with what the tag shows of it.
LEMMA ReadPageReading == ASSUME ReadingInv, ReadPage PROVE ReadingParts'
<1> USE DEF ReadPage, callVars, authVars
<1>1. CASE ~ReadOnly(call)
  BY <1>1 DEF ReadingParts, ReadsOnly, MarkedAreShown
<1>2. CASE ReadOnly(call)
  <2>1. /\ mem \in Memory /\ session \in Session /\ mem = before
        /\ NoPageArmed(session) /\ next \in DOMAIN plan /\ Current.page \in Pages
        /\ got \in [Pages -> Word \cup {NoWord}] /\ pc \in StepPoints
        /\ call.op = "readAll" => Current.page <= LastPage(before[1])
    BY <1>2, CurrentType DEF ReadingInv, SetupInv, ReadingParts, ReadsOnly, TypeOK, TagTypeOK,
       StepTypeOK, Current, StepPoints
  <2>2. NoPageArmed(Disarmed(session)) BY <2>1 DEF NoPageArmed, Disarmed, Session
  <2>3. NoPageArmed(session') /\ pc' \in {"idle", "step"}
    BY <2>1, <2>2 DEF StepFails, Advance, Continue, Return, NoPageArmed, Off
  <2>4. ReadsOnly'
    BY <1>2, <2>1, <2>3 DEF ReadingInv, ReadingParts, ReadsOnly, NoPageArmed, StepPoints
  <2>5. ASSUME NEW p \in Pages \ {0}, got'[p] # NoWord PROVE Shown(call, p, got'[p], before)
    <3>1. CASE got'[p] = got[p]
      BY <1>2, <2>5, <3>1 DEF ReadingInv, ReadingParts, MarkedAreShown
    <3>2. CASE p = Current.page /\ got'[p] = Shows(mem, p)
      BY <2>1, <3>2, ShowsPage DEF Shown
    <3> QED BY <2>1, <2>5, <3>1, <3>2 DEF Keep
  <2>6. MarkedAreShown' BY <2>5 DEF MarkedAreShown, Shown
  <2> QED BY <2>4, <2>6 DEF ReadingParts
<1> QED BY <1>1, <1>2

\* What a read marks is inductive.
LEMMA ReadingInvStep == ReadingInv /\ [Next]_vars => ReadingInv'
<1> SUFFICES ASSUME ReadingInv, [Next]_vars PROVE ReadingInv' OBVIOUS
<1>1. SetupInv' BY SetupInvStep DEF ReadingInv
<1>2. ReadingParts'
  <2>1. ASSUME NEW c \in Calls, Begin(c) PROVE ReadingParts'
    BY <1>1, <2>1, SetupReading DEF SetupInv, Begin, SetupPoints
  <2>2. CASE Probe \/ Select \/ AuthCommand BY <2>2, ProbeToCommandReading
  <2>3. CASE AuthPassword BY <2>3, AuthPasswordReading
  <2>4. CASE ReadConfig   BY <2>4, ReadConfigReading
  <2>5. CASE SkipLocked \/ WriteCommand \/ WriteData \/ ReadBack BY <2>5, WriteStepReading
  <2>6. CASE ReadPage     BY <2>6, ReadPageReading
  <2>7. CASE Finish
    BY <2>7, ReturnReading DEF Finish, callVars, stepVars
  <2>8. CASE TagLeaves \/ TagReturns
    <3>1. UNCHANGED <<mem, before, call, got, pc, plan>> /\ session' \in {Off, Powered}
      BY <2>8 DEF TagLeaves, TagReturns, callVars, stepVars
    <3> QED BY <3>1, ReadingKept DEF NoPageArmed, Off, Powered
  <2>9. CASE UNCHANGED vars
    <3>1. UNCHANGED <<mem, before, call, got, pc, plan, session>>
      BY <2>9 DEF vars, tagVars, callVars, stepVars
    <3> QED BY <3>1, ReadingKept DEF NoPageArmed, ReadingInv, ReadingParts, ReadsOnly
  <2> QED BY <2>1, <2>2, <2>3, <2>4, <2>5, <2>6, <2>7, <2>8, <2>9 DEF Next, Reader
<1> QED BY <1>1, <1>2 DEF ReadingInv

\* The initial states have nothing marked.
LEMMA ReadingInvInit == Init => ReadingInv
<1> SUFFICES ASSUME Init PROVE ReadingInv OBVIOUS
<1>1. SetupInv BY SetupInvInit
<1>2. ReadsOnly BY DEF Init, ReadsOnly, NoPageArmed, Off, StepPoints
<1>3. MarkedAreShown BY DEF Init, MarkedAreShown, NoPages
<1> QED BY <1>1, <1>2, <1>3 DEF ReadingInv, ReadingParts

\* Every page a dump or a read marks as read is what the tag holds, page 1 up
\* to PWDH0, and a dump marks none beyond the tag's memory, for every tag and
\* every set of calls, whatever noise decodes to and however often the tag
\* comes and goes (hitag_s_8268_read_all).
THEOREM DumpsShowTheTag == Spec => []DumpFaithful
<1>1. ReadingInv => DumpFaithful
  BY DEF ReadingInv, ReadingParts, ReadsOnly, MarkedAreShown, ReadOnly, Shown, DumpFaithful
<1> QED BY <1>1, ReadingInvInit, ReadingInvStep, PTL DEF Spec

------------------------------------------------------------------------------
(* What a refusal says, on a channel that loses and invents nothing.          *)

\* The call is at its first password, or has tried those before it in vain; the
\* tag has heard the command that announces the next one.
RefusedSoFar ==
    /\ near
    /\ pc \in {"probe", "select"} => try = 1
    /\ pc \in {"auth", "password"} =>
          /\ session.state = "selected"
          /\ \A i \in 1..(try - 1) : Passwords(call)[i] # before[2]
    /\ pc = "password" => session.armed = AuthPage

RefusalParts == RefusedSoFar /\ NackMeansUnknownPassword
RefusalInv   == SetupInv /\ RefusalParts

\* A selected tag accepts WRITE_PAGE 64 and says so.
LEMMA CommandIsHeard ==
    ASSUME ~Lossy, ~Noise, mem \in Memory, session \in Session, session.state = "selected",
           NEW x \in Frame(HearsWritePage(mem, session, AuthPage)),
           NEW a \in Decoded(x.answer)
    PROVE  a = "ack" /\ x.session.state = "selected" /\ x.session.armed = AuthPage
BY DEF Frame, HearsWritePage, Accepts, React, Decoded, Listening, Session

\* It answers the announced password truthfully.
LEMMA PasswordIsJudged ==
    ASSUME ~Lossy, ~Noise, mem \in Memory, session \in Session,
           session.state = "selected", session.armed = AuthPage, NEW w \in Word,
           NEW x \in Frame(HearsData(mem, session, w)),
           NEW a \in Decoded(x.answer)
    PROVE  /\ a \in {"ack", "nack"}
           /\ a = "nack" => w # mem[2] /\ x.session.state = "selected"
BY DEF Frame, HearsData, React, Decoded, Disarmed, Listening, Session

\* An end other than a refusal without a plan, and a step past the setup, keep it.
LEMMA RefusalKept ==
    ASSUME RefusalInv, near',
           \/ pc' \in StepPoints \cup {"config"}
           \/ pc' = "idle" /\ (result' # "Nack" \/ plan' # <<>>)
    PROVE  RefusalParts'
BY DEF RefusalParts, RefusedSoFar, NackMeansUnknownPassword, StepPoints

\* A new call has tried nothing yet; a UID request and a SELECT are not refused.
LEMMA BeginRefusal == ASSUME RefusalInv, NEW c \in Calls, Begin(c) PROVE RefusalParts'
BY DEF RefusalInv, RefusalParts, RefusedSoFar, NackMeansUnknownPassword, Begin, tagVars

\* The UID request finds the tag or times out.
LEMMA ProbeRefusal == ASSUME RefusalInv, Probe PROVE RefusalParts'
<1> USE DEF Probe, callVars, stepVars
<1>1. near' BY DEF RefusalInv, RefusalParts, RefusedSoFar
<1>2. CASE Return("Ok") \/ Return("Timeout") BY <1>1, <1>2, RefusalKept DEF Return
<1>3. CASE pc' = "select"
  <2>1. try' = 1 BY DEF RefusalInv, RefusalParts, RefusedSoFar
  <2> QED BY <1>1, <1>3, <2>1 DEF RefusalParts, RefusedSoFar, NackMeansUnknownPassword
<1> QED BY <1>2, <1>3

\* SELECT leaves the tag selected, or ends without a NACK.
LEMMA SelectRefusal == ASSUME RefusalInv, Select PROVE RefusalParts'
<1> USE DEF Select, callVars, stepVars
<1>1. near' /\ try' = 1 BY DEF RefusalInv, RefusalParts, RefusedSoFar
<1>2. CASE \E r \in {"Timeout", "CrcError"} : Return(r)
  BY <1>1, <1>2, RefusalKept DEF Return
<1>3. CASE Continue("auth", Selected)
  <2>1. pc' = "auth" /\ session'.state = "selected" BY <1>3 DEF Continue, Selected
  <2> QED BY <1>1, <2>1 DEF RefusalParts, RefusedSoFar, NackMeansUnknownPassword
<1> QED BY <1>2, <1>3 DEF ReplyFails

\* The command before a password is always accepted.
LEMMA AuthCommandRefusal ==
    ASSUME ~Lossy, ~Noise, RefusalInv, AuthCommand PROVE RefusalParts'
<1> USE DEF AuthCommand, callVars, stepVars
<1>1. PICK x \in Frame(HearsWritePage(mem, session, AuthPage)) : \E a \in Decoded(x.answer) :
        \/ a = "ack"  /\ Continue("password", x.session) /\ UNCHANGED try
        \/ a = "nack" /\ AuthFails("Nack", x.session)
        \/ a = "none" /\ AuthFails("Timeout", x.session)
  OBVIOUS
<1>2. /\ mem \in Memory /\ session \in Session /\ near /\ session.state = "selected"
      /\ \A i \in 1..(try - 1) : Passwords(call)[i] # before[2]
  BY DEF RefusalInv, SetupInv, TypeOK, TagTypeOK, RefusalParts, RefusedSoFar
<1>3. /\ Continue("password", x.session) /\ UNCHANGED try
      /\ x.session.state = "selected" /\ x.session.armed = AuthPage
  BY <1>1, <1>2, CommandIsHeard
<1>4. near' /\ pc' = "password" /\ session' = x.session
  BY <1>2, <1>3 DEF Continue
<1>5. RefusedSoFar' BY <1>2, <1>3, <1>4 DEF RefusedSoFar
<1>6. NackMeansUnknownPassword' BY <1>4 DEF NackMeansUnknownPassword
<1> QED BY <1>5, <1>6 DEF RefusalParts

\* A refused password is not the tag's; authenticate_multi gives up only when
\* none is left.
LEMMA AuthPasswordRefusal ==
    ASSUME ~Lossy, ~Noise, RefusalInv, AuthPassword PROVE RefusalParts'
<1> USE DEF AuthPassword, callVars
<1> DEFINE w == Passwords(call)[try]
<1>1. PICK x \in Frame(HearsData(mem, session, w)) : \E a \in Decoded(x.answer) :
        \/ a = "ack"  /\ Proceed
        \/ a = "nack" /\ AuthFails("Nack", x.session) /\ UNCHANGED plan
        \/ a = "none" /\ AuthFails("Timeout", x.session)
  OBVIOUS
<1>2. /\ mem \in Memory /\ session \in Session /\ near /\ session.state = "selected"
      /\ session.armed = AuthPage /\ mem = before
      /\ \A i \in 1..(try - 1) : Passwords(call)[i] # before[2]
      /\ call \in CallType /\ try \in DOMAIN Passwords(call)
  BY DEF RefusalInv, SetupInv, TypeOK, TagTypeOK, CallTypeOK, RefusalParts, RefusedSoFar,
         SetupParts, NothingDone, SetupPoints
<1>3. w \in Word /\ DOMAIN Passwords(call) = 1..Len(Passwords(call)) /\ Len(Passwords(call)) \in Nat
  BY <1>2, PasswordWords
<1>4. near' /\ UNCHANGED <<call, before>> BY <1>2
<1> HIDE DEF w
<1>5. \/ Proceed
      \/ AuthFails("Nack", x.session) /\ w # before[2] /\ x.session.state = "selected"
  BY <1>1, <1>2, <1>3, PasswordIsJudged
<1>6. CASE Proceed
  <2>1. pc' \in StepPoints \cup {"config"} BY <1>6 DEF Proceed, StepPoints
  <2> QED BY <1>4, <2>1, RefusalKept
<1>7. CASE AuthFails("Nack", x.session) /\ w # before[2] /\ x.session.state = "selected"
  <2>1. \A i \in 1..try : Passwords(call)[i] # before[2]
    BY <1>2, <1>3, <1>7 DEF w
  <2>2. CASE try' = try + 1 /\ Continue("auth", x.session)
    <3>1. pc' = "auth" /\ session' = x.session BY <2>2 DEF Continue
    <3>2. \A i \in 1..(try' - 1) : Passwords(call)[i] # before[2] BY <1>2, <1>3, <2>1, <2>2
    <3>3. RefusedSoFar' BY <1>4, <1>7, <3>1, <3>2 DEF RefusedSoFar
    <3>4. NackMeansUnknownPassword' BY <3>1 DEF NackMeansUnknownPassword
    <3> QED BY <3>3, <3>4 DEF RefusalParts
  <2>3. CASE Return("Nack") /\ ~(try < Len(Passwords(call)))
    <3>1. try = Len(Passwords(call)) BY <1>2, <1>3, <2>3
    <3>2. \A i \in DOMAIN Passwords(call) : Passwords(call)[i] # before[2]
      BY <1>3, <2>1, <3>1
    <3>3. pc' = "idle" BY <2>3 DEF Return
    <3>4. RefusedSoFar' BY <1>4, <3>3 DEF RefusedSoFar
    <3>5. NackMeansUnknownPassword' BY <1>4, <3>2 DEF NackMeansUnknownPassword
    <3> QED BY <3>4, <3>5 DEF RefusalParts
  <2> QED BY <1>7, <2>2, <2>3 DEF AuthFails
<1> QED BY <1>5, <1>6, <1>7

\* A call that has reached its steps has a plan, or ends well.
LEMMA StepRefusal ==
    ASSUME RefusalInv,
           \/ ReadConfig \/ SkipLocked \/ WriteCommand
           \/ WriteData \/ ReadBack \/ ReadPage \/ Finish
    PROVE  RefusalParts'
<1>1. near'
  BY DEF ReadConfig, SkipLocked, WriteCommand, WriteData, ReadBack, ReadPage, Finish,
         RefusalInv, RefusalParts, RefusedSoFar
<1>2. CASE ReadConfig
  <2>1. pc' = "step" \/ (pc' = "idle" /\ result' = "Error")
    BY <1>2 DEF ReadConfig, PlanFrom, PlanEm4100, Continue, Return
  <2> QED BY <1>1, <2>1, RefusalKept DEF StepPoints
<1>3. CASE Finish BY <1>1, <1>3, RefusalKept DEF Finish, Return
<1>4. CASE SkipLocked \/ WriteCommand \/ WriteData \/ ReadBack \/ ReadPage
  <2>1. plan # <<>> /\ UNCHANGED plan
    <3>1. next \in DOMAIN plan
      BY <1>4 DEF SkipLocked, WriteCommand, WriteData, ReadBack, ReadPage, RefusalInv, SetupInv,
                  TypeOK, StepTypeOK
    <3> QED BY <1>4, <3>1 DEF SkipLocked, WriteCommand, WriteData, ReadBack, ReadPage
  <2>2. pc' \in StepPoints \cup {"idle"}
    BY <1>4 DEF SkipLocked, WriteCommand, WriteData, ReadBack, ReadPage, StepFails, Advance,
                Continue, Return, Written, StepPoints
  <2> QED BY <1>1, <2>1, <2>2, RefusalKept
<1> QED BY <1>2, <1>3, <1>4

\* On a reliable channel the refusals of a call are inductive.
LEMMA RefusalInvStep == ASSUME ~Lossy, ~Noise PROVE RefusalInv /\ [Next]_vars => RefusalInv'
<1> SUFFICES ASSUME RefusalInv, [Next]_vars PROVE RefusalInv' OBVIOUS
<1>1. SetupInv' BY SetupInvStep DEF RefusalInv
<1>2. RefusalParts'
  <2>1. ASSUME NEW c \in Calls, Begin(c) PROVE RefusalParts' BY <2>1, BeginRefusal
  <2>2. CASE Probe        BY <2>2, ProbeRefusal
  <2>3. CASE Select       BY <2>3, SelectRefusal
  <2>4. CASE AuthCommand  BY <2>4, AuthCommandRefusal
  <2>5. CASE AuthPassword BY <2>5, AuthPasswordRefusal
  <2>6. CASE \/ ReadConfig \/ SkipLocked \/ WriteCommand
             \/ WriteData \/ ReadBack \/ ReadPage \/ Finish
    BY <2>6, StepRefusal
  <2>7. ~TagLeaves /\ ~TagReturns
    BY DEF TagLeaves, TagReturns, RefusalInv, RefusalParts, RefusedSoFar
  <2>8. CASE UNCHANGED vars
    BY <2>8 DEF vars, tagVars, callVars, authVars, stepVars, RefusalInv, RefusalParts,
                RefusedSoFar, NackMeansUnknownPassword
  <2> QED BY <2>1, <2>2, <2>3, <2>4, <2>5, <2>6, <2>7, <2>8 DEF Next, Reader
<1> QED BY <1>1, <1>2 DEF RefusalInv

\* With a tag that stays in the field and a channel that loses and invents
\* nothing, a call refused before it had a plan was refused every password it
\* was to try, and none of them was the tag's (authenticate_multi).  With loss
\* or noise a NACK may be one the tag never meant, and nothing is claimed.
THEOREM RefusalsAreTrue ==
    ASSUME ~Lossy, ~Noise PROVE Spec => []NackMeansUnknownPassword
<1>1. Init => RefusalInv
  <2> SUFFICES ASSUME Init PROVE RefusalInv OBVIOUS
  <2>1. SetupInv BY SetupInvInit
  <2>2. RefusalParts
    BY DEF Init, RefusalParts, RefusedSoFar, NackMeansUnknownPassword
  <2> QED BY <2>1, <2>2 DEF RefusalInv
<1>2. RefusalInv /\ [Next]_vars => RefusalInv' BY RefusalInvStep
<1>3. RefusalInv => NackMeansUnknownPassword BY DEF RefusalInv, RefusalParts
<1> QED BY <1>1, <1>2, <1>3, PTL DEF Spec

------------------------------------------------------------------------------
\* A clone and a wipe write without a read-back: of them nothing can be said on
\* a channel that both loses frames and invents acknowledgements, where a page
\* may stay armed and receive the value of the next.
ChannelFits == Lossy /\ Noise => \A c \in Calls : c.op \notin {"clone", "wipe"}

------------------------------------------------------------------------------
(* The plans.                                                                 *)

\* A step does the job j of a call: it programs a page of it with its value.
DoesJob(c, m, step) ==
    step.page \in PagesOf(c, m) /\ step.value = ValueOf(c, step.page)

\* The configuration before nothing but the UID, the UID before nothing.
RightOrder(steps) ==
    \A i, j \in DOMAIN steps : i < j =>
        /\ steps[i].page # 0
        /\ steps[i].page = 1 => steps[j].page = 0

\* The items of a call, found by their page.
LEMMA ItemOfPage ==
    ASSUME NEW c \in CallType, ProperCall(c), NEW i \in DOMAIN c.data
    PROVE  c.data[CHOOSE k \in DOMAIN c.data : c.data[k].page = c.data[i].page] = c.data[i]
<1> DEFINE k == CHOOSE k \in DOMAIN c.data : c.data[k].page = c.data[i].page
<1>1. k \in DOMAIN c.data /\ c.data[k].page = c.data[i].page OBVIOUS
<1>2. k = i BY <1>1 DEF ProperCall, DistinctPages
<1> QED BY <1>2

\* The step of an item does the job of a write or a clone that may write it.
LEMMA ItemDoesJob ==
    ASSUME NEW c \in CallType, ProperCall(c), c.op \in {"write", "em4100", "clone"},
           NEW m, NEW i \in DOMAIN c.data,
           c.op = "clone" => PageWritable(m[1], c.data[i].page)
    PROVE  c.data[i].page \in PagesOf(c, m) /\ ValueOf(c, c.data[i].page) = c.data[i].value
<1>1. c.data[CHOOSE k \in DOMAIN c.data : c.data[k].page = c.data[i].page] = c.data[i]
  BY ItemOfPage
<1>2. c.data[i].page \in PagesOf(c, m) BY DEF PagesOf
<1>3. c.op = "em4100" => c.data[i].page # 1
  BY DEF ProperCall, CallType
<1>4. c.op = "clone" => c.data[i].page > 3 BY DEF ProperCall
<1>5. c.data[i].page \in Pages
  <2>1. c.data \in Seq(Item) BY DEF CallType
  <2>2. c.data[i] \in Item BY <2>1
  <2> QED BY <2>2 DEF Item
<1>6. ValueOf(c, c.data[i].page) = c.data[i].value
  BY <1>1, <1>3, <1>4, <1>5, PageFacts DEF ValueOf
<1> QED BY <1>2, <1>6

\* The steps for the items of a call.
LEMMA ItemSteps ==
    ASSUME NEW c \in CallType, NEW do \in {"read", "write", "verify"}
    PROVE  /\ EachPage(do, c.data) \in Seq(Step) /\ Len(c.data) \in Nat
           /\ Len(EachPage(do, c.data)) = Len(c.data) /\ DOMAIN c.data = 1..Len(c.data)
           /\ \A i \in 1..Len(c.data) :
                  /\ EachPage(do, c.data)[i].do = do
                  /\ EachPage(do, c.data)[i].page = c.data[i].page
                  /\ EachPage(do, c.data)[i].value = c.data[i].value
<1> DEFINE each == EachPage(do, c.data)
<1>1. c.data \in Seq(Item) BY DEF CallType
<1>2. /\ each \in Seq(Step) /\ Len(each) = Len(c.data)
      /\ \A i \in 1..Len(c.data) :
             each[i] = [do |-> do, page |-> c.data[i].page, value |-> c.data[i].value]
  BY <1>1, EachPageType
<1> HIDE DEF each
<1>3. ASSUME NEW i \in 1..Len(c.data)
      PROVE  /\ each[i].do = do /\ each[i].page = c.data[i].page
             /\ each[i].value = c.data[i].value
  <2>1. each[i] = [do |-> do, page |-> c.data[i].page, value |-> c.data[i].value]
    BY <1>2
  <2> QED BY <2>1
<1>4. Len(c.data) \in Nat /\ DOMAIN c.data = 1..Len(c.data) BY <1>1
<1> QED BY <1>2, <1>3, <1>4 DEF each

\* Two steps after a sequence of steps, and three.
LEMMA TwoAfter ==
    ASSUME NEW s \in Seq(Step), NEW d \in Step, NEW e \in Step, NEW n \in Nat, Len(s) = n
    PROVE  /\ DOMAIN (s \o <<d, e>>) = 1..(n + 2)
           /\ \A i \in 1..n : (s \o <<d, e>>)[i] = s[i]
           /\ (s \o <<d, e>>)[n + 1] = d /\ (s \o <<d, e>>)[n + 2] = e
<1>1. <<d, e>> \in Seq(Step) /\ Len(<<d, e>>) = 2 /\ <<d, e>>[1] = d /\ <<d, e>>[2] = e
  OBVIOUS
<1>2. /\ s \o <<d, e>> \in Seq(Step)
      /\ Len(s \o <<d, e>>) = n + 2
      /\ \A i \in 1 .. n + 2 :
             (s \o <<d, e>>)[i] = IF i <= n THEN s[i] ELSE <<d, e>>[i - n]
  BY <1>1, ConcatProperties
<1>3. (s \o <<d, e>>)[n + 1] = <<d, e>>[1] /\ (s \o <<d, e>>)[n + 2] = <<d, e>>[2]
  BY <1>2
<1> QED BY <1>1, <1>2, <1>3

\* The same for the three steps that end a wipe.
LEMMA ThreeAfter ==
    ASSUME NEW s \in Seq(Step), NEW d \in Step, NEW e \in Step, NEW f \in Step,
           NEW n \in Nat, Len(s) = n
    PROVE  /\ DOMAIN (s \o <<d, e, f>>) = 1..(n + 3)
           /\ \A i \in 1..n : (s \o <<d, e, f>>)[i] = s[i]
           /\ (s \o <<d, e, f>>)[n + 1] = d /\ (s \o <<d, e, f>>)[n + 2] = e
           /\ (s \o <<d, e, f>>)[n + 3] = f
<1>1. /\ <<d, e, f>> \in Seq(Step) /\ Len(<<d, e, f>>) = 3
      /\ <<d, e, f>>[1] = d /\ <<d, e, f>>[2] = e /\ <<d, e, f>>[3] = f
  OBVIOUS
<1>2. /\ s \o <<d, e, f>> \in Seq(Step)
      /\ Len(s \o <<d, e, f>>) = n + 3
      /\ \A i \in 1 .. n + 3 :
             (s \o <<d, e, f>>)[i] = IF i <= n THEN s[i] ELSE <<d, e, f>>[i - n]
  BY <1>1, ConcatProperties
<1>3. /\ (s \o <<d, e, f>>)[n + 1] = <<d, e, f>>[1]
      /\ (s \o <<d, e, f>>)[n + 2] = <<d, e, f>>[2]
      /\ (s \o <<d, e, f>>)[n + 3] = <<d, e, f>>[3]
  BY <1>2
<1> QED BY <1>1, <1>2, <1>3

\* A write that names page 1 or 0 names it late: page 0 last, page 1 before
\* page 0 at most.
OrderedWrite(c) ==
    \A i, j \in DOMAIN c.data : i < j =>
        c.data[i].page # 0 /\ (c.data[i].page = 1 => c.data[j].page = 0)

\* The plan of a write programs its items.
LEMMA WritePlanFacts ==
    ASSUME NEW c \in CallType, ProperCall(c), c.op = "write", NEW m
    PROVE  /\ \A j \in DOMAIN WritePlan(c) :
                  WritePlan(c)[j].do # "read" /\ DoesJob(c, m, WritePlan(c)[j])
           /\ OrderedWrite(c) => RightOrder(WritePlan(c))
<1> DEFINE each == EachPage("verify", c.data)
<1> DEFINE n == Len(c.data)
<1>1. /\ each \in Seq(Step) /\ Len(each) = n /\ n \in Nat /\ DOMAIN c.data = 1..n
      /\ \A i \in 1..n : /\ each[i].do = "verify" /\ each[i].page = c.data[i].page
                         /\ each[i].value = c.data[i].value
  BY ItemSteps
<1>2. WritePlan(c) = each BY DEF WritePlan
<1> HIDE DEF each, n
<1>3. DOMAIN each = 1..n BY <1>1
<1>4. ASSUME NEW j \in 1..n PROVE each[j].do # "read" /\ DoesJob(c, m, each[j])
  <2>1. each[j].do = "verify" BY <1>1
  <2>2. c.data[j].page \in PagesOf(c, m) /\ ValueOf(c, c.data[j].page) = c.data[j].value
    BY <1>1, ItemDoesJob
  <2> QED BY <1>1, <2>1, <2>2 DEF DoesJob
<1>5. ASSUME OrderedWrite(c) PROVE RightOrder(each)
  BY <1>1, <1>3, <1>5 DEF OrderedWrite, RightOrder, ProperCall, DistinctPages
<1> QED BY <1>2, <1>3, <1>4, <1>5

\* The plan of an EM4100 write programs pages 4 and 5, then page 1.
LEMMA Em4100PlanFacts ==
    ASSUME NEW c \in CallType, ProperCall(c), c.op = "em4100", NEW m
    PROVE  /\ \A j \in DOMAIN Em4100Plan(c) :
                  Em4100Plan(c)[j].do # "read" /\ DoesJob(c, m, Em4100Plan(c)[j])
           /\ RightOrder(Em4100Plan(c))
<1> DEFINE each == EachPage("verify", c.data)
<1> DEFINE last == PageStep("verify", 1, Em4100Config)
<1>1. /\ each \in Seq(Step) /\ Len(each) = Len(c.data) /\ DOMAIN c.data = 1..Len(c.data)
      /\ \A i \in 1..Len(c.data) :
             /\ each[i].do = "verify" /\ each[i].page = c.data[i].page
             /\ each[i].value = c.data[i].value
  BY ItemSteps
<1>2. Len(c.data) = 2 /\ c.data[1].page = 4 /\ c.data[2].page = 5 BY DEF ProperCall
<1>3. last \in Step BY ConstantWords, PageFacts, StepWords
<1>4. last.do = "verify" /\ last.page = 1 /\ last.value = Em4100Config BY DEF PageStep
<1>5. Em4100Plan(c) = each \o <<last>> BY DEF Em4100Plan
<1> HIDE DEF each, last
<1>6. /\ DOMAIN Em4100Plan(c) = 1..3
      /\ Em4100Plan(c)[1] = each[1] /\ Em4100Plan(c)[2] = each[2] /\ Em4100Plan(c)[3] = last
  BY <1>1, <1>2, <1>3, <1>5, TwoAndOne
<1>7. \A i \in 1..2 : each[i].do # "read" /\ DoesJob(c, m, each[i])
  <2>1. ASSUME NEW i \in 1..2 PROVE each[i].do # "read" /\ DoesJob(c, m, each[i])
    <3>1. i \in DOMAIN c.data /\ i \in 1..Len(c.data) BY <1>1, <1>2
    <3>2. c.data[i].page \in PagesOf(c, m) /\ ValueOf(c, c.data[i].page) = c.data[i].value
      BY <3>1, ItemDoesJob
    <3>3. each[i].do = "verify" /\ each[i].page = c.data[i].page /\ each[i].value = c.data[i].value
      BY <1>1, <3>1
    <3> QED BY <3>2, <3>3 DEF DoesJob
  <2> QED BY <2>1
<1>8. last.do # "read" /\ DoesJob(c, m, last) BY <1>4 DEF DoesJob, PagesOf, ValueOf
<1>9. each[1].page = 4 /\ each[2].page = 5 BY <1>1, <1>2
<1>10. RightOrder(Em4100Plan(c)) BY <1>4, <1>6, <1>9 DEF RightOrder
<1>11. 1 \in 1..2 /\ 2 \in 1..2 OBVIOUS
<1>12. ASSUME NEW j \in 1..3
       PROVE  Em4100Plan(c)[j].do # "read" /\ DoesJob(c, m, Em4100Plan(c)[j])
  <2>1. j = 1 \/ j = 2 \/ j = 3 OBVIOUS
  <2> QED BY <1>6, <1>7, <1>8, <1>11, <2>1, Zenon
<1> QED BY <1>6, <1>10, <1>12

\* The plan of a clone programs the data pages it may write, then page 1, then
\* page 0; the others it passes over.
LEMMA ClonePlanFacts ==
    ASSUME NEW c \in CallType, ProperCall(c), c.op = "clone", NEW m
    PROVE  /\ \A j \in DOMAIN ClonePlan(c) :
                  /\ ClonePlan(c)[j].do # "read"
                  /\ \/ ClonePlan(c)[j].page > 3 /\ ~PageWritable(m[1], ClonePlan(c)[j].page)
                     \/ DoesJob(c, m, ClonePlan(c)[j])
           /\ RightOrder(ClonePlan(c))
<1> DEFINE each == EachPage("write", c.data)
<1> DEFINE n == Len(c.data)
<1> DEFINE d == PageStep("write", 1, c.config)
<1> DEFINE e == PageStep("write", 0, c.uid)
<1>1. /\ each \in Seq(Step) /\ Len(each) = n /\ n \in Nat /\ DOMAIN c.data = 1..n
      /\ \A i \in 1..n : /\ each[i].do = "write" /\ each[i].page = c.data[i].page
                         /\ each[i].value = c.data[i].value
  BY ItemSteps
<1>2. d \in Step /\ e \in Step
  <2>1. c.config \in Word /\ c.uid \in Word BY DEF CallType
  <2> QED BY <2>1, PageFacts, StepWords
<1>3. /\ d.do = "write" /\ d.page = 1 /\ d.value = c.config
      /\ e.do = "write" /\ e.page = 0 /\ e.value = c.uid
  BY DEF PageStep
<1>4. ClonePlan(c) = each \o <<d, e>> BY DEF ClonePlan
<1>5. \A i \in 1..n : c.data[i].page > 3 BY <1>1 DEF ProperCall
<1> HIDE DEF each, n, d, e
<1>6. /\ DOMAIN ClonePlan(c) = 1..(n + 2)
      /\ \A i \in 1..n : ClonePlan(c)[i] = each[i]
      /\ ClonePlan(c)[n + 1] = d /\ ClonePlan(c)[n + 2] = e
  BY <1>1, <1>2, <1>4, TwoAfter
<1>7. DoesJob(c, m, d) /\ DoesJob(c, m, e) BY <1>3 DEF DoesJob, PagesOf, ValueOf
<1>8. ASSUME NEW i \in 1..n, PageWritable(m[1], c.data[i].page)
      PROVE  DoesJob(c, m, each[i])
  <2>1. c.data[i].page \in PagesOf(c, m) /\ ValueOf(c, c.data[i].page) = c.data[i].value
    BY <1>1, <1>8, ItemDoesJob
  <2> QED BY <1>1, <2>1 DEF DoesJob
<1>9. ASSUME NEW j \in 1..(n + 2)
      PROVE  /\ ClonePlan(c)[j].do # "read"
             /\ \/ ClonePlan(c)[j].page > 3 /\ ~PageWritable(m[1], ClonePlan(c)[j].page)
                \/ DoesJob(c, m, ClonePlan(c)[j])
  <2>1. CASE j \in 1..n
    <3>1. ClonePlan(c)[j] = each[j] BY <1>6, <2>1
    <3>2. each[j].do # "read" /\ each[j].page = c.data[j].page /\ c.data[j].page > 3
      BY <1>1, <1>5, <2>1
    <3> QED BY <1>8, <2>1, <3>1, <3>2
  <2>2. CASE j = n + 1 BY <1>3, <1>6, <1>7, <2>2
  <2>3. CASE j = n + 2 BY <1>3, <1>6, <1>7, <2>3
  <2> QED BY <1>1, <2>1, <2>2, <2>3
<1>10. RightOrder(ClonePlan(c))
  <2> SUFFICES ASSUME NEW i \in 1..(n + 2), NEW j \in 1..(n + 2), i < j
               PROVE  /\ ClonePlan(c)[i].page # 0
                      /\ ClonePlan(c)[i].page = 1 => ClonePlan(c)[j].page = 0
    BY <1>6 DEF RightOrder
  <2>1. \A k \in 1..n : ClonePlan(c)[k].page = c.data[k].page BY <1>1, <1>6
  <2>2. ClonePlan(c)[n + 1].page = 1 /\ ClonePlan(c)[n + 2].page = 0 BY <1>3, <1>6
  <2>3. CASE i \in 1..n /\ j \in 1..n
    BY <1>1, <1>5, <2>1, <2>3 DEF ProperCall, DistinctPages
  <2>4. CASE i \in 1..n /\ j \in {n + 1, n + 2} BY <1>5, <2>1, <2>2, <2>4
  <2>5. CASE i = n + 1 /\ j = n + 2 BY <2>2, <2>5
  <2> QED BY <1>1, <2>3, <2>4, <2>5
<1> QED BY <1>6, <1>9, <1>10

\* The plan of a wipe programs every page of the tag but the UID, page 1 last.
LEMMA WipePlanFacts ==
    ASSUME NEW c \in CallType, c.op = "wipe", NEW m, NEW top, top = LastPage(m[1])
    PROVE  /\ \A j \in DOMAIN WipePlan(top) :
                  WipePlan(top)[j].do # "read" /\ DoesJob(c, m, WipePlan(top)[j])
           /\ RightOrder(WipePlan(top))
<1> DEFINE each == DataPages("write", top, ZeroWord)
<1> DEFINE n == top - 3
<1> DEFINE d == PageStep("write", 2, DefaultPassword)
<1> DEFINE e == PageStep("write", 3, ZeroWord)
<1> DEFINE f == PageStep("write", 1, WipeConfig)
<1>1. top \in 5..TopPage BY LastPageType
<1>2. n \in Nat /\ each \in Seq(Step) /\ Len(each) = n
      /\ \A i \in 1..n : each[i] = PageStep("write", i + 3, ZeroWord)
  <2>1. n \in Nat BY <1>1, TopPageAssumption
  <2>2. each \in Seq(Step) BY <1>1, ConstantWords, DataPagesType
  <2>3. each = [i \in 1..n |-> PageStep("write", i + 3, ZeroWord)] BY DEF DataPages
  <2> HIDE DEF each, n
  <2>4. DOMAIN each = 1..n BY <2>3
  <2>5. DOMAIN each = 1..Len(each) /\ Len(each) \in Nat BY <2>2
  <2>6. Len(each) = n BY <2>1, <2>4, <2>5
  <2> QED BY <2>1, <2>2, <2>3, <2>6
<1>3. \A i \in 1..n : each[i].do = "write" /\ each[i].page = i + 3 /\ each[i].value = ZeroWord
  <2> HIDE DEF each, n
  <2>1. ASSUME NEW i \in 1..n
        PROVE  each[i].do = "write" /\ each[i].page = i + 3 /\ each[i].value = ZeroWord
    <3>1. each[i] = [do |-> "write", page |-> i + 3, value |-> ZeroWord]
      BY <1>2 DEF PageStep
    <3> QED BY <3>1
  <2> QED BY <2>1
<1>4. d \in Step /\ e \in Step /\ f \in Step BY ConstantWords, PageFacts, StepWords
<1>5. /\ d.do = "write" /\ d.page = 2 /\ d.value = DefaultPassword
      /\ e.do = "write" /\ e.page = 3 /\ e.value = ZeroWord
      /\ f.do = "write" /\ f.page = 1 /\ f.value = WipeConfig
  BY DEF PageStep
<1>6. WipePlan(top) = each \o <<d, e, f>> BY DEF WipePlan
<1>7. n + 3 = top /\ top >= 5 BY <1>1, TopPageAssumption
<1> HIDE DEF each, n, d, e, f
<1>8. /\ DOMAIN WipePlan(top) = 1..(n + 3)
      /\ \A i \in 1..n : WipePlan(top)[i] = each[i]
      /\ WipePlan(top)[n + 1] = d /\ WipePlan(top)[n + 2] = e /\ WipePlan(top)[n + 3] = f
  BY <1>2, <1>4, <1>6, ThreeAfter
<1>9. PagesOf(c, m) = 1..top BY DEF PagesOf
<1>10. /\ ValueOf(c, 1) = WipeConfig /\ ValueOf(c, 2) = DefaultPassword
       /\ \A p \in 3..top : ValueOf(c, p) = ZeroWord
  <2>1. c.op # "em4100" /\ c.op # "clone" BY SMT
  <2>2. ValueOf(c, 1) = WipeConfig BY <2>1 DEF ValueOf
  <2>3. ValueOf(c, 2) = DefaultPassword BY <2>1 DEF ValueOf
  <2>4. ASSUME NEW p \in 3..top PROVE ValueOf(c, p) = ZeroWord
    <3>1. p # 1 /\ p # 2 BY <1>1, TopPageAssumption
    <3> QED BY <2>1, <3>1 DEF ValueOf
  <2> QED BY <2>2, <2>3, <2>4
<1>11. DoesJob(c, m, d) /\ DoesJob(c, m, e) /\ DoesJob(c, m, f)
  BY <1>1, <1>5, <1>7, <1>9, <1>10 DEF DoesJob
<1>12. ASSUME NEW i \in 1..n PROVE DoesJob(c, m, each[i])
  <2>1. i + 3 \in 3..top /\ i + 3 \in 1..top BY <1>1, <1>2, <1>7, TopPageAssumption
  <2> QED BY <1>3, <1>9, <1>10, <2>1 DEF DoesJob
<1>13. ASSUME NEW j \in 1..(n + 3)
       PROVE  WipePlan(top)[j].do # "read" /\ DoesJob(c, m, WipePlan(top)[j])
  <2>1. CASE j \in 1..n BY <1>3, <1>8, <1>12, <2>1
  <2>2. CASE j = n + 1 BY <1>5, <1>8, <1>11, <2>2
  <2>3. CASE j = n + 2 BY <1>5, <1>8, <1>11, <2>3
  <2>4. CASE j = n + 3 BY <1>5, <1>8, <1>11, <2>4
  <2> QED BY <1>2, <2>1, <2>2, <2>3, <2>4
<1>14. RightOrder(WipePlan(top))
  <2>1. \A k \in 1..n : WipePlan(top)[k].page = k + 3 BY <1>3, <1>8
  <2>2. WipePlan(top)[n + 1].page = 2 /\ WipePlan(top)[n + 2].page = 3 BY <1>5, <1>8
  <2>3. \A k \in 1..(n + 2) : WipePlan(top)[k].page \notin {0, 1} BY <1>2, <2>1, <2>2
  <2> QED BY <1>2, <1>8, <2>3 DEF RightOrder
<1> QED BY <1>8, <1>13, <1>14

------------------------------------------------------------------------------
(* A call programs the pages of its job only.                                 *)

\* The call is one the application makes.
CallIsGiven == call \in Calls \cup {NoCall}

\* The steps of a call that writes: each programs a page of its job, or is one
\* the clone passes over.
PlanDoesJob ==
    ~ReadOnly(call) /\ pc \in StepPoints =>
        \A j \in DOMAIN plan :
            plan[j].do # "read" /\ (Skipped(plan[j]) \/ DoesJob(call, before, plan[j]))

\* A data frame is sent for a step that is not passed over, and if the tag has
\* a page armed then it is the page of that step.
DataForTheStep ==
    pc = "data" => /\ ~Skipped(Current)
                   /\ session.armed \in {NoPage, AuthPage, Current.page}

JobParts   == CallIsGiven /\ PlanDoesJob /\ DataForTheStep
PromiseInv == ReadingInv /\ VerifiedInv /\ JobParts

\* A plan made from the configuration the call knows does its job.
LEMMA PlanMade ==
    ASSUME call \in CallType, ProperCall(call), SameButPwdh0(config, before[1]),
           UNCHANGED <<call, before, config>>,
           \/ call.op = "write" /\ plan' = WritePlan(call)
           \/ call.op = "em4100" /\ plan' = Em4100Plan(call)
           \/ call.op = "clone" /\ plan' = ClonePlan(call)
           \/ call.op = "wipe" /\ plan' = WipePlan(LastPage(config))
    PROVE  /\ PlanDoesJob'
           /\ (call.op = "write" => OrderedWrite(call)) => RightOrder(plan')
<1>1. /\ LastPage(config) = LastPage(before[1])
      /\ \A p : PageWritable(config, p) = PageWritable(before[1], p)
  BY SameLayout
<1>2. CASE call.op = "write" /\ plan' = WritePlan(call)
  BY <1>2, WritePlanFacts DEF PlanDoesJob
<1>3. CASE call.op = "em4100" /\ plan' = Em4100Plan(call)
  BY <1>3, Em4100PlanFacts DEF PlanDoesJob
<1>4. CASE call.op = "clone" /\ plan' = ClonePlan(call)
  <2>1. \A j \in DOMAIN plan' :
            plan'[j].do # "read" /\ (Skipped(plan[j])' \/ DoesJob(call, before, plan'[j]))
    BY <1>1, <1>4, ClonePlanFacts DEF Skipped
  <2>2. RightOrder(plan') BY <1>4, ClonePlanFacts
  <2> QED BY <2>1, <2>2 DEF PlanDoesJob
<1>5. CASE call.op = "wipe" /\ plan' = WipePlan(LastPage(config))
  BY <1>1, <1>5, WipePlanFacts DEF PlanDoesJob
<1> QED BY <1>2, <1>3, <1>4, <1>5

\* The parts of the job invariant outside the steps of a plan.
LEMMA JobOutside ==
    ASSUME call' \in Calls \cup {NoCall}, pc' \notin StepPoints
    PROVE  JobParts'
BY DEF JobParts, CallIsGiven, PlanDoesJob, DataForTheStep, StepPoints

\* The parts of it where a plan begins.
LEMMA JobBegins ==
    ASSUME PromiseInv, UNCHANGED call, pc' = "step", PlanDoesJob'
    PROVE  JobParts'
BY DEF PromiseInv, JobParts, CallIsGiven, DataForTheStep

\* The parts of it within the steps.
LEMMA JobGoesOn ==
    ASSUME PromiseInv, UNCHANGED <<call, before, config, plan>>,
           pc \in StepPoints, pc' \in StepPoints, DataForTheStep'
    PROVE  JobParts'
<1> USE DEF PromiseInv, JobParts
<1>1. CallIsGiven' BY DEF CallIsGiven
<1>2. PlanDoesJob' BY DEF PlanDoesJob, Skipped, DoesJob
<1> QED BY <1>1, <1>2

\* The setup of a call has no step.
LEMMA SetupJob ==
    ASSUME PromiseInv, Probe \/ Select \/ AuthCommand
    PROVE  JobParts'
<1>1. UNCHANGED call BY DEF Probe, Select, AuthCommand, callVars
<1>2. pc' \notin StepPoints
  BY DEF Probe, Select, AuthCommand, AuthFails, Continue, Return, StepPoints
<1> QED BY <1>1, <1>2, JobOutside DEF PromiseInv, JobParts, CallIsGiven

\* An accepted password gives the call its plan.
LEMMA AuthPasswordJob == ASSUME PromiseInv, AuthPassword PROVE JobParts'
<1> USE DEF AuthPassword, callVars
<1>1. UNCHANGED <<call, before, config>> OBVIOUS
<1>2. call \in Calls \cup {NoCall} BY DEF PromiseInv, JobParts, CallIsGiven
<1>3. /\ call \in CallType /\ ProperCall(call) /\ SameButPwdh0(config, before[1])
      /\ call.op # "readUid"
  BY DEF PromiseInv, ReadingInv, SetupInv, TypeOK, CallTypeOK, SetupParts, ConfigKnown, UidOnly,
         VerifiedInv, WriteProgress
<1>4. CASE pc' \notin StepPoints BY <1>1, <1>2, <1>4, JobOutside
<1>5. CASE Proceed /\ pc' \in StepPoints
  <2>1. pc' = "step" /\ call.op \notin {"em4100", "readAll"}
    BY <1>5 DEF Proceed, StepPoints
  <2>2. CASE call.op = "read"
    <3>1. PlanDoesJob' BY <1>1, <2>2 DEF PlanDoesJob, ReadOnly
    <3> QED BY <1>1, <2>1, <3>1, JobBegins
  <2>3. CASE call.op # "read"
    <3>1. call.op \in {"write", "clone", "wipe"}
      BY <1>3, <2>1, <2>3 DEF CallType, Ops
    <3>2. \/ call.op = "write" /\ plan' = WritePlan(call)
          \/ call.op = "clone" /\ plan' = ClonePlan(call)
          \/ call.op = "wipe" /\ plan' = WipePlan(LastPage(config))
      BY <1>5, <3>1 DEF Proceed
    <3>3. PlanDoesJob' BY <1>1, <1>3, <3>2, PlanMade
    <3> QED BY <1>1, <2>1, <3>3, JobBegins
  <2> QED BY <2>2, <2>3
<1>6. CASE (\E r, s : AuthFails(r, s)) /\ pc' \in StepPoints
  BY <1>6 DEF AuthFails, Continue, Return, StepPoints
<1> QED BY <1>4, <1>5, <1>6

\* So does the configuration of an EM4100 write.
LEMMA ReadConfigJob == ASSUME PromiseInv, ReadConfig PROVE JobParts'
<1> USE DEF ReadConfig, callVars
<1>1. UNCHANGED <<call, before>> OBVIOUS
<1>2. call \in Calls \cup {NoCall} BY DEF PromiseInv, JobParts, CallIsGiven
<1>3. /\ call \in CallType /\ ProperCall(call) /\ SameButPwdh0(config, before[1])
  BY DEF PromiseInv, ReadingInv, SetupInv, TypeOK, CallTypeOK, SetupParts, ConfigKnown,
         VerifiedInv, WriteProgress
<1>4. PICK s \in {session, Disarmed(session)} : \E cfg : PlanFrom(cfg, s)
  OBVIOUS
<1>5. CASE Return("Error") BY <1>1, <1>2, <1>5, JobOutside DEF Return, StepPoints
<1>6. CASE call.op = "em4100" /\ plan' = Em4100Plan(call) /\ Continue("step", s)
  <2>1. PlanDoesJob' BY <1>1, <1>3, <1>6, Em4100PlanFacts DEF PlanDoesJob
  <2> QED BY <1>1, <1>6, <2>1, JobBegins DEF Continue
<1>7. CASE call.op = "readAll" /\ Continue("step", s)
  <2>1. PlanDoesJob' BY <1>1, <1>7 DEF PlanDoesJob, ReadOnly
  <2> QED BY <1>1, <1>7, <2>1, JobBegins DEF Continue
<1> QED BY <1>4, <1>5, <1>6, <1>7 DEF PlanFrom, PlanEm4100

\* On a channel that does not both lose and invent, an acknowledged WRITE_PAGE
\* has armed its page or none.
LEMMA ArmsItsPage ==
    ASSUME ~(Lossy /\ Noise), mem \in Memory, session \in Session, Forgets(session),
           NEW p \in Pages, NEW x \in Frame(HearsWritePage(mem, session, p)),
           "ack" \in Decoded(x.answer)
    PROVE  x.session.armed \in {NoPage, p}
<1>1. CASE x = Misses(mem, session) /\ Lossy
  <2>1. ~Noise /\ x.answer = "none" BY <1>1 DEF Misses, React
  <2> QED BY <2>1 DEF Decoded
<1>2. CASE x = Misses(mem, session) /\ ~Listening
  <2>1. session.armed = NoPage BY <1>2 DEF Listening, Forgets
  <2> QED BY <1>2, <2>1 DEF Misses, React
<1>3. CASE x \in HearsWritePage(mem, session, p)
  BY <1>3 DEF HearsWritePage, React, Disarmed, Session
<1> QED BY <1>1, <1>2, <1>3, ChannelAssumption DEF Frame

\* A command frame for a step that is not passed over announces its page.
LEMMA WriteCommandJob == ASSUME ChannelFits, PromiseInv, WriteCommand PROVE JobParts'
<1> USE DEF WriteCommand, callVars, authVars
<1>1. PICK x \in Frame(HearsWritePage(mem, session, Current.page)) : \E a \in Decoded(x.answer) :
        \/ a = "ack" /\ Continue("data", x.session) /\ UNCHANGED next
        \/ StepFails("Nack", x.session)
        \/ StepFails("Timeout", x.session)
  OBVIOUS
<1>2. /\ UNCHANGED <<call, before, config, plan>> /\ pc \in StepPoints
      /\ call \in Calls \cup {NoCall} /\ ~Skipped(Current)
  BY DEF PromiseInv, JobParts, CallIsGiven, StepPoints
<1>3. /\ mem \in Memory /\ session \in Session /\ Forgets(session)
      /\ next \in DOMAIN plan /\ Current.page \in Pages /\ Current.do # "read"
      /\ call \in CallType
  BY CurrentType DEF PromiseInv, ReadingInv, SetupInv, TypeOK, TagTypeOK, CallTypeOK,
     StepTypeOK, SetupParts
<1>4. CASE StepFails("Nack", x.session) \/ StepFails("Timeout", x.session)
  <2>1. pc' \in {"idle", "step"} BY <1>4 DEF StepFails, Advance, Continue, Return
  <2>2. CASE pc' = "idle" BY <1>2, <2>2, JobOutside DEF StepPoints
  <2>3. CASE pc' = "step"
    BY <1>2, <2>3, JobGoesOn DEF DataForTheStep, StepPoints
  <2> QED BY <2>1, <2>2, <2>3
<1>5. CASE "ack" \in Decoded(x.answer) /\ Continue("data", x.session) /\ UNCHANGED next
  <2>1. pc' = "data" /\ session' = x.session /\ Current' = Current
    BY <1>2, <1>5 DEF Continue, Current
  <2>2. ~Skipped(Current)' BY <1>2, <2>1 DEF Skipped
  <2>3. ~ReadOnly(call)
    <3>1. plan[next].do # "read" BY <1>3 DEF Current
    <3> QED BY <1>2, <1>3, <3>1, WritesAreNotReads DEF PromiseInv
  <2>4. CASE Verified(call)
    <3>1. ArmedForTheStep' BY WriteCommandProgress DEF PromiseInv, WriteProgress
    <3>2. Verified(call)' BY <1>2, <2>4
    <3>3. DataForTheStep' BY <2>1, <2>2, <3>1, <3>2 DEF ArmedForTheStep, DataForTheStep
    <3> QED BY <1>2, <2>1, <3>3, JobGoesOn DEF StepPoints
  <2>5. CASE ~Verified(call)
    <3>1. call.op \in {"clone", "wipe"}
      BY <1>3, <2>3, <2>5 DEF CallType, Ops, ReadOnly, Verified
    <3>2. call \in Calls BY <1>2, <3>1 DEF NoCall
    <3>3. ~(Lossy /\ Noise) BY <3>1, <3>2 DEF ChannelFits
    <3>4. x.session.armed \in {NoPage, Current.page} BY <1>3, <1>5, <3>3, ArmsItsPage
    <3>5. DataForTheStep' BY <2>1, <2>2, <3>4 DEF DataForTheStep
    <3> QED BY <1>2, <2>1, <3>5, JobGoesOn DEF StepPoints
  <2> QED BY <2>4, <2>5
<1> QED BY <1>1, <1>4, <1>5

\* The other steps of a plan send no data frame next.
LEMMA OtherStepJob ==
    ASSUME PromiseInv, SkipLocked \/ WriteData \/ ReadBack \/ ReadPage \/ Finish
    PROVE  JobParts'
<1>1. /\ UNCHANGED <<call, before, config, plan>> /\ pc \in StepPoints
      /\ call \in Calls \cup {NoCall}
  BY DEF SkipLocked, WriteData, ReadBack, ReadPage, Finish, callVars, authVars, stepVars,
         PromiseInv, JobParts, CallIsGiven, StepPoints
<1>2. pc' \in {"idle", "step", "readback"}
  BY DEF SkipLocked, WriteData, ReadBack, ReadPage, Finish, Written, StepFails, Advance,
         Continue, Return
<1>3. CASE pc' = "idle" BY <1>1, <1>3, JobOutside DEF StepPoints
<1>4. CASE pc' \in {"step", "readback"}
  BY <1>1, <1>4, JobGoesOn DEF DataForTheStep, StepPoints
<1> QED BY <1>2, <1>3, <1>4

\* A tag that is moved is unarmed.
LEMMA TagMovesJob == ASSUME PromiseInv, TagLeaves \/ TagReturns PROVE JobParts'
<1>1. /\ UNCHANGED <<call, before, config, plan, pc, next>> /\ session' \in {Off, Powered}
  BY DEF TagLeaves, TagReturns, callVars, authVars, stepVars
<1>2. CASE pc \notin StepPoints
  BY <1>1, <1>2, JobOutside DEF PromiseInv, JobParts, CallIsGiven
<1>3. CASE pc \in StepPoints
  <2>1. session'.armed = NoPage BY <1>1 DEF Off, Powered
  <2>2. DataForTheStep'
    BY <1>1, <2>1 DEF PromiseInv, JobParts, DataForTheStep, Skipped, Current
  <2> QED BY <1>1, <1>3, <2>2, JobGoesOn
<1> QED BY <1>2, <1>3

\* That a call does its job only is inductive.
LEMMA PromiseInvStep == ASSUME ChannelFits PROVE PromiseInv /\ [Next]_vars => PromiseInv'
<1> SUFFICES ASSUME PromiseInv, [Next]_vars PROVE PromiseInv' OBVIOUS
<1>1. ReadingInv' /\ VerifiedInv'
  BY ReadingInvStep, VerifiedInvStep DEF PromiseInv
<1>2. JobParts'
  <2>1. ASSUME NEW c \in Calls, Begin(c) PROVE JobParts'
    BY <2>1, JobOutside DEF Begin, StepPoints
  <2>2. CASE Probe \/ Select \/ AuthCommand BY <2>2, SetupJob
  <2>3. CASE AuthPassword BY <2>3, AuthPasswordJob
  <2>4. CASE ReadConfig   BY <2>4, ReadConfigJob
  <2>5. CASE WriteCommand BY <2>5, WriteCommandJob
  <2>6. CASE SkipLocked \/ WriteData \/ ReadBack \/ ReadPage \/ Finish
    BY <2>6, OtherStepJob
  <2>7. CASE TagLeaves \/ TagReturns BY <2>7, TagMovesJob
  <2>8. CASE UNCHANGED vars
    BY <2>8 DEF vars, tagVars, callVars, authVars, stepVars, PromiseInv, JobParts, CallIsGiven,
                PlanDoesJob, DoesJob, DataForTheStep, Skipped, Current
  <2> QED BY <2>1, <2>2, <2>3, <2>4, <2>5, <2>6, <2>7, <2>8 DEF Next, Reader
<1> QED BY <1>1, <1>2 DEF PromiseInv

\* The initial states have no call.
LEMMA VerifiedInvInit == Init => VerifiedInv
<1> SUFFICES ASSUME Init PROVE VerifiedInv OBVIOUS
<1>1. TypeOK BY InitType
<1>2. NoSessionBetweenCalls BY DEF Init, NoSessionBetweenCalls
<1>3. ProperCall(call) BY DEF Init, NoCall, ProperCall, DistinctPages
<1>4. StartsAtFirst /\ ArmedForTheStep /\ StepsBehindHold /\ VerifiedOk
  BY DEF Init, NoCall, StartsAtFirst, ArmedForTheStep, StepsBehindHold, VerifiedOk, Verified, Off
<1> QED BY <1>1, <1>2, <1>3, <1>4 DEF VerifiedInv, WriteProgress

\* Before any call the sequences have promised nothing that is not kept.
LEMMA PromiseInvInit == Init => PromiseInv
<1> SUFFICES ASSUME Init PROVE PromiseInv OBVIOUS
<1>1. JobParts BY DEF Init, JobParts, CallIsGiven, PlanDoesJob, DataForTheStep, StepPoints
<1> QED BY <1>1, VerifiedInvInit, ReadingInvInit DEF PromiseInv

\* A step of a call either leaves the tag's memory alone or programs, with the
\* data frame of a write, a page of the call's job with its value.
LEMMA MemoryStep ==
    ASSUME PromiseInv, [Next]_vars
    PROVE  \/ mem' = mem
           \/ /\ WriteData /\ next \in DOMAIN plan /\ Current.page \in Pages
              /\ Current.do # "read" /\ DoesJob(call, before, Current)
              /\ mem' = [mem EXCEPT ![Current.page] = Current.value]
<1>1. mem \in Memory /\ session \in Session
  BY DEF PromiseInv, ReadingInv, SetupInv, TypeOK, TagTypeOK
<1>2. CASE AuthPassword
  <2>1. PICK x \in Frame(HearsData(mem, session, Passwords(call)[try])) : mem' = x.mem
    BY <1>2 DEF AuthPassword
  <2>2. NoPageArmed(session) /\ Passwords(call)[try] \in Word
    BY <1>2, PasswordWords DEF AuthPassword, PromiseInv, ReadingInv, SetupInv, SetupParts,
       NothingDone, SetupPoints, TypeOK, CallTypeOK
  <2> QED BY <1>1, <2>1, <2>2, PasswordFrame
<1>3. CASE WriteData
  <2>1. PICK x \in Frame(HearsData(mem, session, Current.value)) : mem' = x.mem
    BY <1>3 DEF WriteData
  <2>2. /\ next \in DOMAIN plan /\ Current.page \in Pages /\ Current.value \in Word
        /\ plan[next].do # "read" /\ pc = "data"
    BY <1>3, CurrentType DEF WriteData, PromiseInv, ReadingInv, SetupInv, TypeOK, StepTypeOK
  <2>3. ~ReadOnly(call) BY <2>2, WritesAreNotReads DEF PromiseInv, StepPoints
  <2>4. ~Skipped(Current) /\ session.armed \in {NoPage, AuthPage, Current.page}
    BY <2>2 DEF PromiseInv, JobParts, DataForTheStep
  <2>5. DoesJob(call, before, Current)
    BY <2>2, <2>3, <2>4 DEF PromiseInv, JobParts, PlanDoesJob, Current, StepPoints
  <2>6. \/ x.mem = mem
        \/ session.armed \in Pages /\ x.mem = [mem EXCEPT ![session.armed] = Current.value]
    BY <1>1, <2>2, DataFrame
  <2>7. \/ mem' = mem
        \/ mem' = [mem EXCEPT ![Current.page] = Current.value]
    BY <2>1, <2>4, <2>6, PageFacts
  <2> QED BY <1>3, <2>2, <2>5, <2>7 DEF Current
<1>4. CASE ~AuthPassword /\ ~WriteData
  <2>1. ASSUME NEW c \in Calls, Begin(c) PROVE mem' = mem BY <2>1 DEF Begin, tagVars
  <2>2. CASE Reader
    BY <1>4, <2>2 DEF Reader, Probe, Select, AuthCommand, ReadConfig, SkipLocked, WriteCommand,
       ReadBack, ReadPage, Finish
  <2>3. CASE TagLeaves \/ TagReturns BY <2>3 DEF TagLeaves, TagReturns
  <2>4. CASE UNCHANGED vars BY <2>4 DEF vars, tagVars
  <2> QED BY <2>1, <2>2, <2>3, <2>4 DEF Next
<1> QED BY <1>2, <1>3, <1>4

\* A step of the reader belongs to the call in progress; when it ends the call
\* the call has a result, and a data frame never ends one well.
LEMMA ReaderStep ==
    ASSUME Reader
    PROVE  /\ pc # "idle" /\ UNCHANGED <<call, before>>
           /\ pc' = "idle" => result' \in Failures \cup {"Ok"}
           /\ WriteData => pc' # "idle" \/ result' # "Ok"
<1> USE DEF Return, Continue, callVars, Failures
<1>1. CASE Probe        BY <1>1 DEF Probe, WriteData
<1>2. CASE Select       BY <1>2 DEF Select
<1>3. CASE AuthCommand  BY <1>3 DEF AuthCommand, AuthFails
<1>4. CASE AuthPassword
  <2>1. Proceed => pc' # "idle" BY DEF Proceed
  <2>2. \A s : /\ AuthFails("Nack", s) => pc' # "idle" \/ result' = "Nack"
               /\ AuthFails("Timeout", s) => pc' # "idle" \/ result' = "Timeout"
    BY DEF AuthFails
  <2>3. pc = "password" /\ UNCHANGED <<call, before>> BY <1>4 DEF AuthPassword
  <2>4. pc' = "idle" => result' \in {"Nack", "Timeout"}
    BY <1>4, <2>1, <2>2 DEF AuthPassword
  <2> QED BY <2>3, <2>4 DEF WriteData
<1>5. CASE ReadConfig   BY <1>5 DEF ReadConfig, PlanFrom, PlanEm4100
<1>6. CASE SkipLocked   BY <1>6 DEF SkipLocked, Advance
<1>7. CASE WriteCommand BY <1>7 DEF WriteCommand, StepFails, Advance
<1>8. CASE WriteData    BY <1>8 DEF WriteData, Written, StepFails, Advance
<1>9. CASE ReadBack     BY <1>9 DEF ReadBack, Advance
<1>10. CASE ReadPage    BY <1>10 DEF ReadPage, StepFails, Advance
<1>11. CASE Finish      BY <1>11 DEF Finish, WriteData
<1> QED
  BY <1>1, <1>2, <1>3, <1>4, <1>5, <1>6, <1>7, <1>8, <1>9, <1>10, <1>11 DEF Reader

------------------------------------------------------------------------------
(* The refinement of TagUpdate.                                               *)

\* What the refinement mapping makes of a call: no job before the first call,
\* the job of the call since, running until the call has returned.
NoJob      == [verified |-> FALSE, pages |-> [p \in {} |-> ZeroWord]]
AbsJob     == IF result = "None" /\ pc = "idle" THEN NoJob ELSE JobOf(call, before)
AbsOutcome == CASE pc # "idle"                    -> "running"
                [] pc = "idle" /\ result = "None" -> "none"
                [] pc = "idle" /\ result = "Ok"   -> "ok"
                [] OTHER                          -> "failed"

\* The three values of it, one at a time.
LEMMA AbsValues ==
    /\ pc # "idle" => AbsOutcome = "running" /\ AbsJob = JobOf(call, before)
    /\ pc = "idle" /\ result = "Ok" => AbsOutcome = "ok" /\ AbsJob = JobOf(call, before)
    /\ pc = "idle" /\ result \in Failures => AbsOutcome = "failed" /\ AbsJob = JobOf(call, before)
    /\ pc = "idle" => AbsOutcome # "running"
BY DEF AbsOutcome, AbsJob, Failures

\* The pages of a job are the pages the call may change.
LEMMA JobFields ==
    ASSUME NEW c, NEW m
    PROVE  /\ JobOf(c, m).verified = Verified(c)
           /\ DOMAIN JobOf(c, m).pages = PagesOf(c, m)
           /\ \A p \in PagesOf(c, m) : JobOf(c, m).pages[p] = ValueOf(c, p)
BY DEF JobOf

\* A call begins a job.
LEMMA BeginStarts ==
    ASSUME NEW c \in Calls, Begin(c)
    PROVE  Promise!Next
<1>1. AbsOutcome # "running" /\ AbsOutcome' = "running"
  BY DEF AbsOutcome, Begin
<1>2. AbsJob' = JobOf(c, mem) BY DEF AbsJob, Begin
<1>3. JobOf(c, mem) \in JobsFor(mem) BY DEF JobsFor
<1>4. mem' = mem BY DEF Begin, tagVars
<1> QED BY <1>1, <1>2, <1>3, <1>4 DEF Promise!Next, Promise!Start, AbsJob, AbsOutcome, NoJob

\* A page programmed is a step of the job; it may end the call with a failure.
LEMMA WriteDataPrograms ==
    ASSUME PromiseInv, WriteData, Current.page \in Pages, DoesJob(call, before, Current),
           mem' = [mem EXCEPT ![Current.page] = Current.value]
    PROVE  Promise!Next
<1>1. /\ pc # "idle" /\ UNCHANGED <<call, before>>
      /\ pc' = "idle" => result' \in Failures
  BY ReaderStep DEF Reader
<1>2. AbsOutcome = "running" /\ AbsJob = JobOf(call, before) BY <1>1, AbsValues
<1>3. AbsOutcome' \in {"running", "failed"} /\ AbsJob' = JobOf(call, before)
  BY <1>1 DEF AbsOutcome, AbsJob, Failures
<1>4. Current.page \in DOMAIN AbsJob.pages /\ AbsJob.pages[Current.page] = Current.value
  BY <1>2, JobFields DEF DoesJob
<1>5. Current.page \in Promise!Page BY TopPageAssumption DEF Pages, Promise!Page
<1>6. \E p \in Promise!Page : Promise!Program(p)
  BY <1>2, <1>3, <1>4, <1>5 DEF Promise!Program, AbsJob, AbsOutcome, NoJob
<1> QED BY <1>6 DEF Promise!Next

\* A step that leaves the memory alone goes on with the job or ends it; a
\* verified job ends well only when it is on the tag.
LEMMA ReaderKeepsPromise ==
    ASSUME PromiseInv, PromiseInv', Reader, mem' = mem
    PROVE  Promise!Next \/ UNCHANGED Promise!vars
<1>1. /\ pc # "idle" /\ UNCHANGED <<call, before>>
      /\ pc' = "idle" => result' \in Failures \cup {"Ok"}
  BY ReaderStep
<1>2. AbsOutcome = "running" /\ AbsJob = JobOf(call, before) BY <1>1, AbsValues
<1>3. AbsJob' = JobOf(call, before) BY <1>1 DEF AbsJob, Failures
<1>4. CASE pc' # "idle"
  <2>1. AbsOutcome' = "running" BY <1>4 DEF AbsOutcome
  <2>2. UNCHANGED <<mem, AbsJob, AbsOutcome>> BY <1>2, <1>3, <2>1
  <2> QED BY <2>2 DEF Promise!vars, AbsJob, AbsOutcome, NoJob
<1>5. CASE pc' = "idle" /\ result' \in Failures
  <2>1. AbsOutcome' = "failed" BY <1>5 DEF AbsOutcome, Failures
  <2>2. Promise!Fail BY <1>2, <1>3, <2>1 DEF Promise!Fail, AbsJob, AbsOutcome, NoJob
  <2> QED BY <2>2 DEF Promise!Next
<1>6. CASE pc' = "idle" /\ result' = "Ok"
  <2>1. AbsOutcome' = "ok" BY <1>6 DEF AbsOutcome
  <2>2. VerifiedOk' BY DEF PromiseInv, VerifiedInv, WriteProgress
  <2>3. Verified(call) =>
            \A p \in PagesOf(call, before) : SameOnPage(p, mem[p], ValueOf(call, p))
    BY <1>1, <1>6, <2>2 DEF VerifiedOk
  <2>4. AbsJob.verified => \A p \in DOMAIN AbsJob.pages : SameOnPage(p, mem[p], AbsJob.pages[p])
    BY <1>2, <2>3, JobFields
  <2>5. Promise!Succeed
    BY <1>2, <1>3, <2>1, <2>4
       DEF Promise!Succeed, Promise!Done, AbsJob, AbsOutcome, NoJob,
           SameOnPage, SameButPwdh0, Promise!SameOnPage, Promise!SameButPwdh0
  <2> QED BY <2>5 DEF Promise!Next
<1> QED BY <1>1, <1>4, <1>5, <1>6

\* What a step of the sequences does to the tag and to the call is a step of
\* TagUpdate or none.
LEMMA PromiseStep ==
    ASSUME PromiseInv, PromiseInv', [Next]_vars
    PROVE  Promise!Next \/ UNCHANGED Promise!vars
<1>1. ASSUME NEW c \in Calls, Begin(c) PROVE Promise!Next BY <1>1, BeginStarts
<1>2. CASE Reader
  BY <1>2, MemoryStep, WriteDataPrograms, ReaderKeepsPromise
<1>3. CASE TagLeaves \/ TagReturns \/ UNCHANGED vars
  <2>1. UNCHANGED <<mem, pc, call, before, result>>
    BY <1>3 DEF TagLeaves, TagReturns, vars, tagVars, callVars
  <2>2. UNCHANGED <<mem, AbsJob, AbsOutcome>>
    BY <2>1 DEF AbsJob, AbsOutcome, JobOf, PagesOf, ValueOf
  <2> QED BY <2>2 DEF Promise!vars, AbsJob, AbsOutcome, NoJob
<1> QED BY <1>1, <1>2, <1>3 DEF Next

\* The sequences implement TagUpdate: a call touches the pages of its job only,
\* each with its value, whatever is lost or invented, and a verified call
\* succeeds only when all of its pages hold; for every tag and every set of
\* calls, clones and wipes among them if the channel does not both lose frames
\* and invent acknowledgements.
THEOREM CallsKeepTheirPromise == ASSUME ChannelFits PROVE Spec => KeepsPromise
<1>1. Init => Promise!Init
  BY DEF Init, Promise!Init, Promise!NoJob, Promise!ZeroWord, ZeroWord
<1>2. PromiseInv /\ [Next]_vars => PromiseInv' BY PromiseInvStep
<1>3. PromiseInv /\ PromiseInv' /\ [Next]_vars => [Promise!Next]_(Promise!vars)
  BY PromiseStep
<1> QED BY <1>1, <1>2, <1>3, PromiseInvInit, PTL DEF Spec, KeepsPromise, Promise!Spec

------------------------------------------------------------------------------
(* What follows for the tag.                                                  *)

\* No write of the application names the password page.
PasswordNotWritten ==
    \A c \in Calls : c.op = "write" => \A i \in DOMAIN c.data : c.data[i].page # 2

\* The only value a job has for the password page is the factory password.
LEMMA PasswordOfJob ==
    ASSUME PasswordNotWritten, call \in Calls \cup {NoCall}, ProperCall(call), NEW m,
           2 \in PagesOf(call, m)
    PROVE  ValueOf(call, 2) = DefaultPassword
<1>1. call.op # "write" BY DEF PasswordNotWritten, PagesOf, NoCall
<1>2. call.op # "em4100"
  <2>1. ASSUME call.op = "em4100" PROVE 2 \notin PagesOf(call, m)
    <3>1. \A i \in DOMAIN call.data : call.data[i].page # 2
      <4>1. call \in CallType BY <2>1, CallsAssumption DEF NoCall
      <4>2. DOMAIN call.data = {1, 2} BY <2>1, <4>1 DEF ProperCall, CallType
      <4> QED BY <2>1, <4>2 DEF ProperCall
    <3> QED BY <2>1, <3>1 DEF PagesOf
  <2> QED BY <2>1
<1>3. call.op # "clone" BY DEF PagesOf, ProperCall
<1>4. call.op = "wipe" BY <1>1, <1>2, <1>3 DEF PagesOf
<1> QED BY <1>4 DEF ValueOf

\* No call, completed or broken off, leaves the tag with a password that is
\* neither the one it had nor the factory one, if no write of the application
\* names page 2 and, for its wipes, the channel does not both lose and invent.
THEOREM TagStaysReachable ==
    ASSUME ChannelFits, PasswordNotWritten PROVE Spec => []PasswordStaysKnown
<1>1. Init => PasswordStaysKnown BY DEF Init, PasswordStaysKnown
<1>2. ASSUME PromiseInv, PasswordStaysKnown, [Next]_vars PROVE PasswordStaysKnown'
  <2>1. mem \in Memory /\ call \in Calls \cup {NoCall} /\ ProperCall(call)
    BY <1>2 DEF PromiseInv, ReadingInv, SetupInv, TypeOK, TagTypeOK, JobParts, CallIsGiven,
       VerifiedInv, WriteProgress
  <2>2. CASE mem' = mem
    <3>1. before' \in {before, mem}
      <4>1. ASSUME NEW c \in Calls, Begin(c) PROVE before' = mem BY <4>1 DEF Begin
      <4>2. CASE Reader BY <4>2, ReaderStep
      <4>3. CASE TagLeaves \/ TagReturns \/ UNCHANGED vars
        BY <4>3 DEF TagLeaves, TagReturns, vars, callVars
      <4> QED BY <1>2, <4>1, <4>2, <4>3 DEF Next
    <3> QED BY <1>2, <2>2, <3>1 DEF PasswordStaysKnown
  <2>3. CASE /\ WriteData /\ DoesJob(call, before, Current) /\ Current.page \in Pages
             /\ mem' = [mem EXCEPT ![Current.page] = Current.value]
    <3>1. UNCHANGED before BY <2>3 DEF WriteData, callVars
    <3>2. CASE Current.page = 2
      <4>1. Current.value = DefaultPassword BY <2>1, <2>3, <3>2, PasswordOfJob DEF DoesJob
      <4> QED BY <2>1, <2>3, <3>2, <4>1 DEF PasswordStaysKnown, Memory
    <3>3. CASE Current.page # 2
      BY <1>2, <2>1, <2>3, <3>1, <3>3, PageFacts DEF PasswordStaysKnown, Memory
    <3> QED BY <3>2, <3>3
  <2> QED BY <1>2, <2>2, <2>3, MemoryStep
<1>3. PromiseInv /\ [Next]_vars => PromiseInv' BY PromiseInvStep
<1> QED BY <1>1, <1>2, <1>3, PromiseInvInit, PTL DEF Spec

------------------------------------------------------------------------------
(* The order of the writes.                                                   *)

\* The application's writes name the configuration and the UID last.
OrderedCalls == \A c \in Calls : c.op = "write" => OrderedWrite(c)

\* A plan that writes has its steps in the right order.
PlanInOrder == ~ReadOnly(call) /\ pc \in StepPoints => RightOrder(plan)

\* A page that differs from what it was belongs to a step behind, or to the one
\* that is read back or ended the call.
ChangedBehind ==
    \A p \in Pages : mem[p] # before[p] =>
        \E j \in DOMAIN plan :
            /\ plan[j].page = p
            /\ j < next \/ (j = next /\ pc \in {"readback", "idle"})

OrderParts == PlanInOrder /\ ChangedBehind
OrderInv   == PromiseInv /\ OrderParts

\* A plan just made is in order.
LEMMA PlanMadeInOrder ==
    ASSUME OrderedCalls, PromiseInv, AuthPassword \/ ReadConfig PROVE PlanInOrder'
<1> SUFFICES ASSUME ~ReadOnly(call), pc' \in StepPoints PROVE RightOrder(plan')
  BY DEF PlanInOrder, AuthPassword, ReadConfig, callVars
<1>1. /\ call \in CallType /\ ProperCall(call) /\ SameButPwdh0(config, before[1])
      /\ call \in Calls \cup {NoCall}
  BY DEF AuthPassword, ReadConfig, PromiseInv, ReadingInv, SetupInv, TypeOK, CallTypeOK,
         SetupParts, ConfigKnown, VerifiedInv, WriteProgress, JobParts, CallIsGiven
<1>2. call.op = "write" => OrderedWrite(call) BY <1>1 DEF OrderedCalls, NoCall
<1>3. CASE AuthPassword
  <2>1. UNCHANGED <<call, before, config>> BY <1>3 DEF AuthPassword, callVars
  <2>2. CASE Proceed
    <3>1. call.op \in {"write", "clone", "wipe"}
      BY <1>1, <2>2 DEF Proceed, CallType, Ops, ReadOnly, StepPoints
    <3>2. \/ call.op = "write" /\ plan' = WritePlan(call)
          \/ call.op = "clone" /\ plan' = ClonePlan(call)
          \/ call.op = "wipe" /\ plan' = WipePlan(LastPage(config))
      BY <2>2, <3>1 DEF Proceed
    <3> QED BY <1>1, <1>2, <2>1, <3>2, PlanMade
  <2>3. CASE \E r, s : AuthFails(r, s)
    BY <2>3 DEF AuthFails, Continue, Return, StepPoints
  <2> QED BY <1>3, <2>2, <2>3 DEF AuthPassword
<1>4. CASE ReadConfig
  <2>1. PICK s \in {session, Disarmed(session)} : \E cfg : PlanFrom(cfg, s)
    BY <1>4 DEF ReadConfig
  <2>2. call.op = "em4100" /\ plan' = Em4100Plan(call)
    BY <2>1 DEF PlanFrom, PlanEm4100, Return, ReadOnly, StepPoints
  <2> QED BY <1>1, <2>2, Em4100PlanFacts
<1> QED BY <1>3, <1>4

\* A step of the plan goes on to its next exchange, to the next step or ends
\* the call; what is read back or given up keeps its place.
LEMMA PlaceMoves ==
    ASSUME SkipLocked \/ WriteCommand \/ WriteData \/ ReadBack \/ ReadPage \/ Finish
    PROVE  /\ pc \in StepPoints /\ UNCHANGED <<plan, before, call>>
           /\ \/ next' = next + 1
              \/ next' = next /\ pc' = "idle"
              \/ next' = next /\ pc = "data" /\ pc' = "readback"
              \/ next' = next /\ pc = "step" /\ pc' = "data"
BY DEF SkipLocked, WriteCommand, WriteData, ReadBack, ReadPage, Finish, Written, StepFails,
       Advance, Continue, Return, StepPoints, callVars, authVars, stepVars

\* A page changed stays behind.
LEMMA PageStepOrder ==
    ASSUME OrderInv,
           SkipLocked \/ WriteCommand \/ WriteData \/ ReadBack \/ ReadPage \/ Finish
    PROVE  OrderParts'
<1>1. /\ pc \in StepPoints /\ UNCHANGED <<plan, before, call>>
      /\ \/ next' = next + 1
         \/ next' = next /\ pc' = "idle"
         \/ next' = next /\ pc = "data" /\ pc' = "readback"
         \/ next' = next /\ pc = "step" /\ pc' = "data"
  BY PlaceMoves
<1>2. mem \in Memory /\ plan \in Seq(Step) /\ next \in Nat
  BY DEF OrderInv, PromiseInv, ReadingInv, SetupInv, TypeOK, TagTypeOK, StepTypeOK
<1>3. PlanInOrder' BY <1>1 DEF OrderInv, OrderParts, PlanInOrder
<1>4. ASSUME NEW p \in Pages, mem'[p] # before[p]
      PROVE  \E j \in DOMAIN plan :
                 /\ plan[j].page = p
                 /\ j < next' \/ (j = next' /\ pc' \in {"readback", "idle"})
  <2>1. CASE mem[p] # before[p]
    <3>1. PICK j \in DOMAIN plan :
            /\ plan[j].page = p
            /\ j < next \/ (j = next /\ pc \in {"readback", "idle"})
      BY <2>1 DEF OrderInv, OrderParts, ChangedBehind
    <3>2. j < next' \/ (j = next' /\ pc' \in {"readback", "idle"})
      BY <1>1, <1>2, <3>1 DEF StepPoints
    <3> QED BY <3>1, <3>2
  <2>2. CASE mem'[p] # mem[p]
    <3>1. /\ WriteData /\ next \in DOMAIN plan /\ Current.page \in Pages
          /\ mem' = [mem EXCEPT ![Current.page] = Current.value]
      BY <2>2, MemoryStep DEF OrderInv, Next, Reader
    <3>2. plan[next].page = p BY <1>2, <2>2, <3>1 DEF Memory, Current
    <3>3. next < next' \/ (next = next' /\ pc' \in {"readback", "idle"})
      BY <1>1, <1>2, <3>1 DEF WriteData
    <3> QED BY <3>1, <3>2, <3>3
  <2> QED BY <1>4, <2>1, <2>2
<1>5. ChangedBehind' BY <1>1, <1>4 DEF ChangedBehind
<1> QED BY <1>3, <1>5 DEF OrderParts

\* Up to its plan a call has changed nothing.
LEMMA SetupOrder ==
    ASSUME OrderInv, [Next]_vars, pc \in SetupPoints, Reader
    PROVE  ChangedBehind'
<1>1. mem = before BY DEF OrderInv, PromiseInv, ReadingInv, SetupInv, SetupParts, NothingDone
<1>2. UNCHANGED before BY ReaderStep
<1>3. ~WriteData BY DEF WriteData, SetupPoints
<1>4. mem' = mem BY <1>3, MemoryStep DEF OrderInv
<1> QED BY <1>1, <1>2, <1>4 DEF ChangedBehind

\* The order is inductive.
LEMMA OrderInvStep ==
    ASSUME ChannelFits, OrderedCalls PROVE OrderInv /\ [Next]_vars => OrderInv'
<1> SUFFICES ASSUME OrderInv, [Next]_vars PROVE OrderInv' OBVIOUS
<1>1. PromiseInv' BY PromiseInvStep DEF OrderInv
<1>2. OrderParts'
  <2>1. ASSUME NEW c \in Calls, Begin(c) PROVE OrderParts'
    BY <2>1 DEF Begin, tagVars, OrderParts, PlanInOrder, ChangedBehind, StepPoints
  <2>2. CASE Probe \/ Select \/ AuthCommand
    <3>1. pc \in SetupPoints /\ Reader
      BY <2>2 DEF Probe, Select, AuthCommand, SetupPoints, Reader
    <3>2. pc' \notin StepPoints
      BY <2>2 DEF Probe, Select, AuthCommand, AuthFails, Continue, Return, StepPoints
    <3>3. ChangedBehind' BY <3>1, SetupOrder
    <3>4. PlanInOrder' BY <3>2 DEF PlanInOrder
    <3> QED BY <3>3, <3>4 DEF OrderParts
  <2>3. CASE AuthPassword \/ ReadConfig
    <3>1. pc \in SetupPoints /\ Reader
      BY <2>3 DEF AuthPassword, ReadConfig, SetupPoints, Reader
    <3>2. ChangedBehind' BY <3>1, SetupOrder
    <3>3. PlanInOrder' BY <2>3, PlanMadeInOrder DEF OrderInv
    <3> QED BY <3>2, <3>3 DEF OrderParts
  <2>4. CASE SkipLocked \/ WriteCommand \/ WriteData \/ ReadBack \/ ReadPage \/ Finish
    BY <2>4, PageStepOrder
  <2>5. CASE TagLeaves \/ TagReturns \/ UNCHANGED vars
    <3>1. UNCHANGED <<mem, before, call, pc, plan, next>>
      BY <2>5 DEF TagLeaves, TagReturns, vars, tagVars, callVars, stepVars
    <3> QED BY <3>1 DEF OrderInv, OrderParts, PlanInOrder, ChangedBehind
  <2> QED BY <2>1, <2>2, <2>3, <2>4, <2>5 DEF Next, Reader
<1> QED BY <1>1, <1>2 DEF OrderInv

\* README "Safe write order", for every tag: once a call has changed the
\* configuration no later step of it changes another page but the UID, and once
\* it has changed the UID none at all.  The application's own writes are taken
\* to be in that order, and the channel as in CallsKeepTheirPromise.
THEOREM WritesInSafeOrder ==
    ASSUME ChannelFits, OrderedCalls PROVE Spec => SafeWriteOrder
<1> DEFINE Safe == /\ mem[1] # before[1] => \A p \in Pages \ {0} : mem'[p] = mem[p]
                   /\ mem[0] # before[0] => mem' = mem
<1>1. Init => OrderInv
  <2> SUFFICES ASSUME Init PROVE OrderInv OBVIOUS
  <2>1. PlanInOrder /\ ChangedBehind
    BY DEF Init, PlanInOrder, ChangedBehind, StepPoints
  <2> QED BY <2>1, PromiseInvInit DEF OrderInv, OrderParts
<1>2. OrderInv /\ [Next]_vars => OrderInv' BY OrderInvStep
<1>3. ASSUME OrderInv, [Next]_vars PROVE Safe
  <2>1. CASE mem' = mem BY <2>1
  <2>2. CASE /\ WriteData /\ next \in DOMAIN plan /\ Current.page \in Pages
             /\ Current.do # "read" /\ mem' = [mem EXCEPT ![Current.page] = Current.value]
    <3>1. mem \in Memory BY <1>3 DEF OrderInv, PromiseInv, ReadingInv, SetupInv, TypeOK, TagTypeOK
    <3>2. pc = "data" BY <2>2 DEF WriteData
    <3>3. ~ReadOnly(call)
      BY <1>3, <2>2, <3>2, WritesAreNotReads DEF OrderInv, PromiseInv, Current, StepPoints
    <3>4. RightOrder(plan)
      BY <1>3, <3>2, <3>3 DEF OrderInv, OrderParts, PlanInOrder, StepPoints
    <3>5. \A p \in Pages : mem[p] # before[p] => \E j \in DOMAIN plan : plan[j].page = p /\ j < next
      BY <1>3, <3>2 DEF OrderInv, OrderParts, ChangedBehind
    <3>6. mem[0] = before[0] BY <2>2, <3>4, <3>5, PageFacts DEF RightOrder
    <3>7. mem[1] # before[1] => Current.page = 0
      BY <2>2, <3>4, <3>5, PageFacts DEF RightOrder, Current
    <3>8. Current.page = 0 => \A p \in Pages \ {0} : mem'[p] = mem[p]
      BY <2>2, <3>1 DEF Memory
    <3> QED BY <3>6, <3>7, <3>8
  <2> QED BY <1>3, <2>1, <2>2, MemoryStep DEF OrderInv
<1>4. OrderInv /\ [Next]_vars => [Safe]_vars BY <1>3
<1> HIDE DEF Safe
<1>5. Spec => [][Safe]_vars BY <1>1, <1>2, <1>4, PTL DEF Spec
<1> QED BY <1>5 DEF SafeWriteOrder, Safe

------------------------------------------------------------------------------
(* The count of a wipe.                                                       *)
ChangedPages == {p \in Pages : mem[p] # before[p]}

CountInv == PromiseInv /\ (call.op = "wipe" => Cardinality(ChangedPages) <= wiped)

\* The pages of a tag, and any of them, are finitely many.
LEMMA PagesAreFinite == ASSUME NEW S, S \subseteq Pages PROVE IsFiniteSet(S)
<1>1. IsFiniteSet(Pages) BY FS_Interval, TopPageAssumption DEF Pages
<1> QED BY <1>1, FS_Subset

\* On a channel that invents nothing, a wiped page that changes is counted.
LEMMA ProgrammedIsCounted ==
    ASSUME ~Noise, mem \in Memory, session \in Session, Current.value \in Word, wiped \in Nat,
           WriteData, call.op = "wipe"
    PROVE  wiped' = wiped + 1 \/ (wiped' = wiped /\ mem' = mem)
<1>1. PICK x \in Frame(HearsData(mem, session, Current.value)) : \E a \in Decoded(x.answer) :
        /\ mem' = x.mem
        /\ \/ a \in {"ack", "none"} /\ Written(x.session)
           \/ a = "nack" /\ StepFails("Nack", x.session) /\ UNCHANGED wiped
  BY DEF WriteData
<1>2. CASE Written(x.session) BY <1>2 DEF Written
<1>3. CASE "nack" \in Decoded(x.answer) /\ UNCHANGED wiped
  <2>1. x.answer = "nack" BY <1>3 DEF Decoded
  <2>2. x.mem = mem
    BY <2>1 DEF Frame, HearsData, Misses, React
  <2> QED BY <1>1, <1>3, <2>2
<1> QED BY <1>1, <1>2, <1>3

\* A set grows by at most one when an element joins it.
LEMMA OneMoreElement ==
  ASSUME NEW S, NEW x, IsFiniteSet(S)
  PROVE  /\ IsFiniteSet(S \cup {x})
         /\ Cardinality(S \cup {x}) <= Cardinality(S) + 1
         /\ Cardinality(S) \in Nat
<1>1. Cardinality(S) \in Nat BY FS_CardinalityType
<1>2. IsFiniteSet(S \cup {x}) BY FS_AddElement
<1>3. CASE x \in S
  <2>1. S \cup {x} = S BY <1>3
  <2>2. Cardinality(S \cup {x}) = Cardinality(S) BY <2>1, Zenon
  <2> QED BY <1>1, <1>2, <2>2
<1>4. CASE x \notin S
  <2>1. Cardinality(S \cup {x}) = Cardinality(S) + 1 BY <1>4, FS_AddElement
  <2> QED BY <1>1, <1>2, <2>1
<1> QED BY <1>3, <1>4

\* The number of pages a wipe reports is at least the number it has changed, on
\* a channel that may lose any frame but invents none (*pages_wiped).
THEOREM WipesCountEnough == ASSUME ~Noise PROVE Spec => []WipeCountsItsPages
<1>1. Init => CountInv
  <2> SUFFICES ASSUME Init PROVE CountInv OBVIOUS
  <2>1. call.op # "wipe" BY DEF Init, NoCall
  <2> QED BY <2>1, PromiseInvInit DEF CountInv
<1>2. ChannelFits BY DEF ChannelFits
<1>3. ASSUME CountInv, [Next]_vars PROVE CountInv'
  <2>1. PromiseInv' BY <1>2, <1>3, PromiseInvStep DEF CountInv
  <2>2. ASSUME NEW c \in Calls, Begin(c) PROVE Cardinality(ChangedPages') <= wiped'
    <3>1. ChangedPages' = {} BY <2>2 DEF ChangedPages, Begin, tagVars
    <3>2. wiped' = 0 BY <2>2 DEF Begin
    <3> QED BY <3>1, <3>2, FS_EmptySet
  <2>3. ASSUME call.op = "wipe", UNCHANGED <<mem, before>>, wiped' = wiped
        PROVE  Cardinality(ChangedPages') <= wiped'
    BY <1>3, <2>3 DEF CountInv, ChangedPages
  <2>4. CASE WriteData
    <3>1. /\ mem \in Memory /\ session \in Session /\ Current.value \in Word
          /\ Current.page \in Pages /\ wiped \in Nat
      BY <1>3, <2>4, CurrentType DEF CountInv, PromiseInv, ReadingInv, SetupInv, TypeOK,
         TagTypeOK, StepTypeOK, WriteData
    <3>2. UNCHANGED <<call, before>> BY <2>4 DEF WriteData, callVars
    <3>3. SUFFICES ASSUME call.op = "wipe" PROVE Cardinality(ChangedPages') <= wiped'
      BY <2>1, <3>2 DEF CountInv
    <3>4. CASE wiped' = wiped /\ mem' = mem BY <2>3, <3>2, <3>3, <3>4
    <3>5. CASE wiped' = wiped + 1
      <4>1. \/ mem' = mem
            \/ mem' = [mem EXCEPT ![Current.page] = Current.value]
        BY <1>3, MemoryStep DEF CountInv
      <4>2. ChangedPages' \subseteq ChangedPages \cup {Current.page}
        BY <3>1, <3>2, <4>1 DEF ChangedPages, Memory
      <4>3. IsFiniteSet(ChangedPages) BY PagesAreFinite DEF ChangedPages
      <4>4. /\ IsFiniteSet(ChangedPages \cup {Current.page})
            /\ Cardinality(ChangedPages \cup {Current.page}) <= Cardinality(ChangedPages) + 1
            /\ Cardinality(ChangedPages) \in Nat
        BY <4>3, OneMoreElement
      <4>5. /\ Cardinality(ChangedPages') <= Cardinality(ChangedPages \cup {Current.page})
            /\ Cardinality(ChangedPages') \in Nat
            /\ Cardinality(ChangedPages \cup {Current.page}) \in Nat
        BY <4>2, <4>4, FS_Subset, FS_CardinalityType
      <4>6. Cardinality(ChangedPages) <= wiped BY <1>3, <3>3 DEF CountInv
      <4> QED BY <3>1, <3>5, <4>4, <4>5, <4>6
    <3> QED BY <2>4, <3>1, <3>3, <3>4, <3>5, ProgrammedIsCounted
  <2>5. CASE Reader /\ ~WriteData
    <3>1. UNCHANGED <<call, before>> BY <2>5, ReaderStep
    <3>2. mem' = mem BY <1>3, <2>5, MemoryStep DEF CountInv
    <3>3. wiped' = wiped
      BY <2>5 DEF Reader, Probe, Select, AuthCommand, AuthPassword, ReadConfig, SkipLocked,
         WriteCommand, ReadBack, ReadPage, Finish, stepVars
    <3> QED BY <2>1, <2>3, <3>1, <3>2, <3>3 DEF CountInv
  <2>6. CASE TagLeaves \/ TagReturns \/ UNCHANGED vars
    <3>1. UNCHANGED <<mem, before, call, wiped>>
      BY <2>6 DEF TagLeaves, TagReturns, vars, tagVars, callVars, stepVars
    <3> QED BY <2>1, <2>3, <3>1 DEF CountInv
  <2> QED BY <1>3, <2>1, <2>2, <2>4, <2>5, <2>6 DEF Next, CountInv
<1>4. CountInv => WipeCountsItsPages BY DEF CountInv, ChangedPages, WipeCountsItsPages
<1> QED BY <1>1, <1>3, <1>4, PTL DEF Spec
==============================================================================
