--------------------------- MODULE Hitag8268Proofs ---------------------------
(* Theorems about the 8268 sequences, for every tag size, set of tags and     *)
(* calls, with or without loss and noise: their types, no session outlives    *)
(* its call, and a verified write that reports success is on the tag.         *)
EXTENDS Hitag8268Props, SequenceTheorems, TLAPS

\* The words the program holds as constants are words.
LEMMA ConstantWords ==
    /\ ZeroWord \in Word /\ DefaultPassword \in Word /\ Em4100Config \in Word
    /\ WipeConfig \in Word
<1>1. ZeroWord \in Word BY DEF ZeroWord, Word, Byte
<1>2. DefaultPassword \in Word BY DEF DefaultPassword, Word, Byte
<1>3. Em4100Config \in Word BY DEF Em4100Config, Word, Byte
<1>4. WipeConfig = <<3, 0, 0, 187>>
  BY DEF WipeConfig, Pack, Con0, Con1, Con2, DefaultPassword
<1>5. WipeConfig \in Word BY <1>4 DEF Word, Byte
<1> QED BY <1>1, <1>2, <1>3, <1>5

\* A call has between one and five passwords to try, each of them a word.
LEMMA PasswordWords ==
    ASSUME NEW c \in CallType
    PROVE  /\ Len(Passwords(c)) \in 1..5
           /\ DOMAIN Passwords(c) = 1..Len(Passwords(c))
           /\ \A i \in DOMAIN Passwords(c) : Passwords(c)[i] \in Word
<1>1. DefaultPasswords \in [1..5 -> Word] /\ Len(DefaultPasswords) = 5
  BY ConstantWords DEF DefaultPasswords, Word, Byte
<1>2. CASE c.pwd = ZeroWord
  <2>1. Passwords(c) = DefaultPasswords BY <1>2 DEF Passwords
  <2>2. DOMAIN DefaultPasswords = 1..5 BY <1>1
  <2>3. 5 \in 1..5 OBVIOUS
  <2>4. \A i \in 1..5 : DefaultPasswords[i] \in Word BY <1>1
  <2> QED BY <1>1, <2>1, <2>2, <2>3, <2>4, Zenon
<1>3. CASE c.pwd # ZeroWord
  <2>1. c.pwd \in Word BY DEF CallType
  <2>2. Passwords(c) = <<c.pwd>> BY <1>3 DEF Passwords
  <2> QED BY <2>1, <2>2
<1> QED BY <1>2, <1>3

\* What the tag shows of a page is a word.
LEMMA ShowsWord ==
    ASSUME NEW m \in Memory, NEW p \in Pages
    PROVE  Shows(m, p) \in Word
BY DEF Shows, Memory, Word, Byte

\* The pages the sequences name exist on every tag; page 64 is not one.
LEMMA PageFacts ==
    /\ 0 \in Pages /\ 1 \in Pages /\ 2 \in Pages /\ 3 \in Pages
    /\ 4 \in Pages /\ 5 \in Pages
    /\ Pages \subseteq Nat
    /\ AuthPage \notin Pages /\ NoPage \notin Pages /\ AuthPage # NoPage
BY TopPageAssumption DEF Pages, AuthPage, NoPage

\* A WRITE_PAGE frame leaves the memory alone and arms at most its own page.
LEMMA WritePageFrame ==
    ASSUME NEW p \in Pages \cup {AuthPage}, session \in Session,
           NEW x \in Frame(HearsWritePage(mem, session, p))
    PROVE  /\ x.mem = mem /\ x.session \in Session
           /\ x.answer \in {"ack", "nack", "none"}
           /\ x.session.armed \in {session.armed, p, NoPage}
BY DEF Frame, HearsWritePage, Misses, React, Disarmed, Session

\* A data frame programs the armed page, if any, and leaves either the session
\* as it was or one that is not armed.
LEMMA DataFrame ==
    ASSUME mem \in Memory, session \in Session, NEW w \in Word,
           NEW x \in Frame(HearsData(mem, session, w))
    PROVE  /\ x.mem \in Memory /\ x.session \in Session
           /\ x.answer \in {"ack", "nack", "none"}
           /\ x.session.armed \in {session.armed, NoPage}
           /\ \/ x.mem = mem
              \/ session.armed \in Pages /\ x.mem = [mem EXCEPT ![session.armed] = w]
<1>1. CASE x = Misses(mem, session)
  BY <1>1 DEF Misses, React
<1>2. CASE session.armed = AuthPage /\ x \in HearsData(mem, session, w)
  BY <1>2 DEF HearsData, React, Disarmed, Session
<1>3. CASE session.armed \in Pages /\ x \in HearsData(mem, session, w)
  <2>1. x = React([mem EXCEPT ![session.armed] = w], Disarmed(session), "ack")
    BY <1>3, PageFacts DEF HearsData
  <2>2. Disarmed(session) \in Session /\ Disarmed(session).armed = NoPage
    BY DEF Disarmed, Session
  <2>3. [mem EXCEPT ![session.armed] = w] \in Memory
    BY DEF Memory
  <2> QED BY <1>3, <2>1, <2>2, <2>3 DEF React
<1>4. x = Misses(mem, session) \/ x \in HearsData(mem, session, w)
  BY DEF Frame
<1>5. session.armed \notin Pages \cup {AuthPage} => HearsData(mem, session, w) = {Misses(mem, session)}
  BY DEF HearsData
<1> QED BY <1>1, <1>2, <1>3, <1>4, <1>5

\* A step of the plan is of its type when its page and value are.
LEMMA StepWords ==
    ASSUME NEW do \in {"read", "write", "verify"}, NEW p \in Pages, NEW v \in Word
    PROVE  PageStep(do, p, v) \in Step
BY DEF PageStep, Step

\* The steps for the items of a call: one each, in their order.
LEMMA EachPageType ==
    ASSUME NEW do \in {"read", "write", "verify"}, NEW items \in Seq(Item)
    PROVE  /\ EachPage(do, items) \in Seq(Step)
           /\ Len(EachPage(do, items)) = Len(items)
           /\ \A i \in 1..Len(items) :
                  EachPage(do, items)[i] =
                      [do |-> do, page |-> items[i].page, value |-> items[i].value]
<1>1. \A i \in 1..Len(items) : items[i] \in Item OBVIOUS
<1>2. \A i \in 1..Len(items) :
          [do |-> do, page |-> items[i].page, value |-> items[i].value] \in Step
  BY <1>1 DEF Item, Step
<1> QED BY <1>2 DEF EachPage

\* The last page of a configuration lies on the tag.
LEMMA LastPageType ==
    ASSUME NEW w
    PROVE  LastPage(w) \in 5..TopPage
<1>1. MaxPage(Parse(w)) \in {7, 31, 63} BY DEF MaxPage
<1>2. \/ LastPage(w) = MaxPage(Parse(w)) /\ MaxPage(Parse(w)) < TopPage
      \/ LastPage(w) = TopPage
  BY DEF LastPage
<1> QED BY <1>1, <1>2, TopPageAssumption

\* The steps over the data pages of a tag.
LEMMA DataPagesType ==
    ASSUME NEW do \in {"read", "write", "verify"}, NEW top \in 5..TopPage, NEW v \in Word
    PROVE  DataPages(do, top, v) \in Seq(Step)
<1>1. \A i \in 1..(top - 3) : PageStep(do, i + 3, v) \in Step
  BY TopPageAssumption DEF PageStep, Step, Pages
<1> QED BY <1>1, TopPageAssumption DEF DataPages

\* The plan of every call is a sequence of steps.
LEMMA PlanTypes ==
    ASSUME NEW c \in CallType, NEW w \in Word, NEW v
    PROVE  /\ WritePlan(c) \in Seq(Step) /\ ReadPlan(c) \in Seq(Step)
           /\ Em4100Plan(c) \in Seq(Step) /\ ClonePlan(c) \in Seq(Step)
           /\ WipePlan(LastPage(w)) \in Seq(Step)
           /\ ReadAllPlan(v, LastPage(w)) \in Seq(Step)
<1>1. c.data \in Seq(Item) /\ c.uid \in Word /\ c.config \in Word BY DEF CallType
<1>2. \A do \in {"read", "write", "verify"} : EachPage(do, c.data) \in Seq(Step)
  BY <1>1, EachPageType
<1>3. LastPage(w) \in 5..TopPage BY LastPageType
<1>4. \A do \in {"read", "write"} : DataPages(do, LastPage(w), ZeroWord) \in Seq(Step)
  BY <1>3, ConstantWords, DataPagesType
<1>5. WritePlan(c) \in Seq(Step) /\ ReadPlan(c) \in Seq(Step)
  BY <1>2 DEF WritePlan, ReadPlan
<1>6. Em4100Plan(c) \in Seq(Step)
  BY <1>2, StepWords, ConstantWords, PageFacts DEF Em4100Plan
<1>7. ClonePlan(c) \in Seq(Step)
  BY <1>1, <1>2, StepWords, PageFacts DEF ClonePlan
<1>8. WipePlan(LastPage(w)) \in Seq(Step)
  BY <1>4, StepWords, ConstantWords, PageFacts DEF WipePlan
<1>9. ReadAllPlan(v, LastPage(w)) \in Seq(Step)
  <2>1. PageStep("read", 2, ZeroWord) \in Step /\ PageStep("read", 3, ZeroWord) \in Step
    BY StepWords, ConstantWords, PageFacts
  <2>2. <<PageStep("read", 2, ZeroWord), PageStep("read", 3, ZeroWord)>> \in Seq(Step)
    BY <2>1
  <2>3. CASE Parse(v).auth = 1 /\ Parse(v).LKP = 1
    BY <1>4, <2>3 DEF ReadAllPlan
  <2>4. CASE ~(Parse(v).auth = 1 /\ Parse(v).LKP = 1)
    BY <1>4, <2>2, <2>4 DEF ReadAllPlan
  <2> QED BY <2>3, <2>4
<1> QED BY <1>5, <1>6, <1>7, <1>8, <1>9

------------------------------------------------------------------------------
(* Type correctness.                                                          *)
\* The initial states are of their types.
LEMMA InitType == Init => TypeOK
<1> SUFFICES ASSUME Init PROVE TypeOK OBVIOUS
<1>1. TagTypeOK
  BY TagsAssumption DEF Init, TagTypeOK, Off, Session
<1>2. NoCall \in CallType BY ConstantWords DEF NoCall, CallType, Ops
<1>3. 1 \in DOMAIN Passwords(NoCall) BY <1>2, PasswordWords
<1>4. CallTypeOK
  BY <1>1, <1>2, <1>3, ConstantWords DEF Init, CallTypeOK, TagTypeOK, Results
<1>5. StepTypeOK BY DEF Init, StepTypeOK, NoPages
<1> QED BY <1>1, <1>4, <1>5 DEF TypeOK

\* A call of the application keeps the types.
LEMMA BeginType == ASSUME TypeOK, NEW c \in Calls, Begin(c) PROVE TypeOK'
<1> USE DEF TypeOK, Begin, tagVars
<1>1. TagTypeOK' BY DEF TagTypeOK
<1>2. c \in CallType BY CallsAssumption
<1>3. 1 \in DOMAIN Passwords(c) BY <1>2, PasswordWords
<1>4. CallTypeOK'
  BY <1>2, <1>3, ConstantWords DEF CallTypeOK, TagTypeOK, Results
<1>5. StepTypeOK' BY DEF StepTypeOK, NoPages
<1> QED BY <1>1, <1>4, <1>5

\* Returning and continuing give the variables they set values of their kind.
LEMMA ReturnType ==
    ASSUME NEW r \in Results, Return(r)
    PROVE  /\ session' \in Session /\ field' \in BOOLEAN /\ result' \in Results
           /\ pc' = "idle"
BY DEF Return, Off, Session

\* The UID request (probe_uid_adv1) keeps the types.
LEMMA ProbeType == ASSUME TypeOK, Probe PROVE TypeOK'
<1> USE DEF TypeOK, Probe, callVars, stepVars
<1>1. \A h \in HeardUids : h.uid \in Word /\ h.session \in Session
  BY MisreadsAssumption, PageFacts
     DEF HeardUids, Captures, Found, Off, Session, TagTypeOK, Memory
<1>2. /\ uid' \in Word /\ session' \in Session /\ field' \in BOOLEAN
      /\ pc' \in {"idle", "select"} /\ result' \in Results
  <2>1. CASE \E h \in HeardUids :
               /\ uid' = h.uid
               /\ IF call.op = "readUid"
                  THEN Return("Ok")
                  ELSE /\ pc' = "select" /\ field' = TRUE /\ session' = h.session
                       /\ UNCHANGED result
    BY <1>1, <2>1, ReturnType DEF CallTypeOK, Results
  <2>2. CASE Return("Timeout") /\ UNCHANGED uid
    BY <2>2, ReturnType DEF CallTypeOK, Results, Failures
  <2> QED BY <2>1, <2>2
<1>3. TagTypeOK' BY <1>2 DEF TagTypeOK
<1>4. CallTypeOK' BY <1>2 DEF CallTypeOK
<1>5. StepTypeOK' BY <1>2 DEF StepTypeOK
<1> QED BY <1>3, <1>4, <1>5

\* SELECT (hitag_s_select) keeps the types.
LEMMA SelectType == ASSUME TypeOK, Select PROVE TypeOK'
<1> USE DEF TypeOK, Select, callVars, stepVars
<1>1. Shows(mem, 1) \in Word BY ShowsWord, PageFacts DEF TagTypeOK
<1>2. /\ config' \in Word /\ session' \in Session /\ field' \in BOOLEAN
      /\ pc' \in {"idle", "auth"} /\ result' \in Results
  <2>1. CASE config' = Shows(mem, 1) /\ Continue("auth", Selected)
    BY <1>1, <2>1 DEF Continue, Selected, Session, CallTypeOK
  <2>2. CASE (\E r \in Failures : Return(r)) /\ UNCHANGED config
    BY <2>2, ReturnType DEF CallTypeOK, Results
  <2> QED BY <2>1, <2>2
<1>3. TagTypeOK' BY <1>2 DEF TagTypeOK
<1>4. CallTypeOK' BY <1>2 DEF CallTypeOK
<1>5. StepTypeOK' BY <1>2 DEF StepTypeOK
<1> QED BY <1>3, <1>4, <1>5

\* After a failed authentication exchange the call has ended or has another
\* password to try.
LEMMA AuthFailsType ==
    ASSUME TypeOK, NEW r \in {"Nack", "Timeout"}, NEW s \in Session, AuthFails(r, s)
    PROVE  /\ session' \in Session /\ field' \in BOOLEAN /\ result' \in Results
           /\ pc' \in {"idle", "auth"} /\ try' \in DOMAIN Passwords(call)
<1> USE DEF TypeOK, CallTypeOK
<1>1. r \in Results BY DEF Results, Failures
<1>2. CASE r = "Nack" /\ try < Len(Passwords(call))
  <2>1. try' = try + 1 /\ Continue("auth", s) BY <1>2 DEF AuthFails
  <2>2. try + 1 \in DOMAIN Passwords(call) BY <1>2, PasswordWords
  <2> QED BY <2>1, <2>2 DEF Continue
<1>3. CASE ~(r = "Nack" /\ try < Len(Passwords(call)))
  BY <1>1, <1>3, ReturnType DEF AuthFails
<1> QED BY <1>2, <1>3

\* WRITE_PAGE 64 keeps the types.
LEMMA AuthCommandType == ASSUME TypeOK, AuthCommand PROVE TypeOK'
<1> USE DEF TypeOK, AuthCommand, callVars, stepVars
<1>1. PICK x \in Frame(HearsWritePage(mem, session, AuthPage)) :
        \E a \in Decoded(x.answer) :
            \/ a = "ack"  /\ Continue("password", x.session) /\ UNCHANGED try
            \/ a = "nack" /\ AuthFails("Nack", x.session)
            \/ a = "none" /\ AuthFails("Timeout", x.session)
  OBVIOUS
<1>2. x.session \in Session BY WritePageFrame DEF TagTypeOK
<1>3. /\ session' \in Session /\ field' \in BOOLEAN /\ result' \in Results
      /\ pc' \in {"idle", "auth", "password"} /\ try' \in DOMAIN Passwords(call)
  <2>1. CASE Continue("password", x.session) /\ UNCHANGED try
    BY <1>2, <2>1 DEF Continue, CallTypeOK
  <2>2. CASE AuthFails("Nack", x.session) BY <1>2, <2>2, AuthFailsType
  <2>3. CASE AuthFails("Timeout", x.session) BY <1>2, <2>3, AuthFailsType
  <2> QED BY <1>1, <2>1, <2>2, <2>3
<1>4. TagTypeOK' BY <1>3 DEF TagTypeOK
<1>5. CallTypeOK' BY <1>3 DEF CallTypeOK
<1>6. StepTypeOK' BY <1>3 DEF StepTypeOK
<1> QED BY <1>4, <1>5, <1>6

\* The plan a call gets once authenticated is a sequence of steps.
LEMMA ProceedType ==
    ASSUME TypeOK, Proceed
    PROVE  pc' \in {"config", "step"} /\ plan' \in Seq(Step)
<1> USE DEF TypeOK, CallTypeOK
<1>1. CASE call.op \in {"em4100", "readAll"}
  BY <1>1 DEF Proceed, StepTypeOK
<1>2. CASE call.op \notin {"em4100", "readAll"}
  <2>1. pc' = "step" /\ plan' \in { WritePlan(call), ReadPlan(call), ClonePlan(call),
                                   WipePlan(LastPage(config)) }
    BY <1>2, Zenon DEF Proceed
  <2> QED BY <2>1, PlanTypes
<1> QED BY <1>1, <1>2

\* Marking a page as read keeps the pages read so far a map of the pages.
LEMMA GotType ==
    ASSUME StepTypeOK, NEW p \in Pages, NEW w \in Word
    PROVE  [got EXCEPT ![p] = w] \in [Pages -> Word \cup {NoWord}]
BY DEF StepTypeOK

\* The password frame keeps the types.
LEMMA AuthPasswordType == ASSUME TypeOK, AuthPassword PROVE TypeOK'
<1> USE DEF TypeOK, AuthPassword, callVars
<1> DEFINE w == Passwords(call)[try]
<1>1. w \in Word BY PasswordWords DEF CallTypeOK
<1> HIDE DEF w
<1>2. PICK x \in Frame(HearsData(mem, session, w)) :
        \E a \in Decoded(x.answer) :
            /\ mem' = x.mem
            /\ \/ /\ a = "ack"
                  /\ Proceed /\ session' = x.session
                  /\ got' = IF call.op = "readAll" THEN [got EXCEPT ![0] = uid] ELSE got
                  /\ UNCHANGED <<field, result, try>>
               \/ a = "nack" /\ AuthFails("Nack", x.session) /\ UNCHANGED <<plan, got>>
               \/ a = "none" /\ AuthFails("Timeout", x.session) /\ UNCHANGED <<plan, got>>
  BY DEF w
<1>3. x.mem \in Memory /\ x.session \in Session
  BY <1>1, DataFrame DEF TagTypeOK
<1>4. /\ session' \in Session /\ field' \in BOOLEAN /\ result' \in Results
      /\ pc' \in {"idle", "auth", "config", "step"} /\ try' \in DOMAIN Passwords(call)
      /\ plan' \in Seq(Step) /\ got' \in [Pages -> Word \cup {NoWord}]
  <2>1. CASE /\ Proceed /\ session' = x.session
             /\ got' = IF call.op = "readAll" THEN [got EXCEPT ![0] = uid] ELSE got
             /\ UNCHANGED <<field, result, try>>
    <3>1. uid \in Word /\ 0 \in Pages BY PageFacts DEF CallTypeOK
    <3>2. got' \in [Pages -> Word \cup {NoWord}]
      BY <2>1, <3>1, GotType DEF StepTypeOK
    <3>3. session' \in Session /\ field' \in BOOLEAN /\ result' \in Results
          /\ try' \in DOMAIN Passwords(call)
      BY <1>3, <2>1 DEF CallTypeOK
    <3> QED BY <2>1, <3>2, <3>3, ProceedType
  <2>2. CASE AuthFails("Nack", x.session) /\ UNCHANGED <<plan, got>>
    BY <1>3, <2>2, AuthFailsType DEF StepTypeOK
  <2>3. CASE AuthFails("Timeout", x.session) /\ UNCHANGED <<plan, got>>
    BY <1>3, <2>3, AuthFailsType DEF StepTypeOK
  <2> QED BY <1>2, <2>1, <2>2, <2>3
<1>5. TagTypeOK' BY <1>2, <1>3, <1>4 DEF TagTypeOK
<1>6. CallTypeOK' BY <1>4 DEF CallTypeOK
<1>7. StepTypeOK' BY <1>4 DEF StepTypeOK
<1> QED BY <1>5, <1>6, <1>7

\* The plan of a dump or an EM4100 write is made from the configuration.
LEMMA PlanFromType ==
    ASSUME TypeOK, NEW cfg, NEW s \in Session, PlanFrom(cfg, s)
    PROVE  /\ session' \in Session /\ field' \in BOOLEAN /\ result' \in Results
           /\ pc' \in {"idle", "step"} /\ plan' \in Seq(Step)
<1> USE DEF TypeOK
<1>1. CASE PlanEm4100(cfg, s)
  <2>1. CASE Return("Error") /\ UNCHANGED plan
    BY <2>1, ReturnType DEF StepTypeOK, Results, Failures
  <2>2. CASE plan' = Em4100Plan(call) /\ Continue("step", s)
    BY <2>2, PlanTypes DEF CallTypeOK, Continue
  <2> QED BY <1>1, <2>1, <2>2 DEF PlanEm4100
<1>2. CASE plan' = ReadAllPlan(cfg, LastPage(config)) /\ Continue("step", s)
  BY <1>2, PlanTypes DEF CallTypeOK, Continue
<1> QED BY <1>1, <1>2 DEF PlanFrom

\* The read of page 1 before a dump or an EM4100 write keeps the types.
LEMMA ReadConfigType == ASSUME TypeOK, ReadConfig PROVE TypeOK'
<1> USE DEF TypeOK, ReadConfig, callVars
<1>1. Shows(mem, 1) \in Word BY ShowsWord, PageFacts DEF TagTypeOK
<1>2. session \in Session /\ Disarmed(session) \in Session
  BY DEF TagTypeOK, Disarmed, Session
<1>3. \E cfg : \E s \in Session : PlanFrom(cfg, s)
  BY <1>2, Zenon
<1>4. /\ config' \in Word /\ got' \in [Pages -> Word \cup {NoWord}]
  BY <1>1, PageFacts, GotType DEF CallTypeOK, StepTypeOK
<1>5. /\ session' \in Session /\ field' \in BOOLEAN /\ result' \in Results
      /\ pc' \in {"idle", "step"} /\ plan' \in Seq(Step)
  BY <1>3, PlanFromType
<1>6. TagTypeOK' BY <1>5 DEF TagTypeOK
<1>7. CallTypeOK' BY <1>4, <1>5 DEF CallTypeOK
<1>8. StepTypeOK' BY <1>4, <1>5 DEF StepTypeOK
<1> QED BY <1>6, <1>7, <1>8

\* Going on to the next step.
LEMMA AdvanceType ==
    ASSUME TypeOK, NEW s \in Session, Advance(s)
    PROVE  /\ session' \in Session /\ field' \in BOOLEAN /\ result' \in Results
           /\ pc' = "step" /\ next' \in Nat \ {0}
<1>1. next + 1 \in Nat \ {0} BY DEF TypeOK, StepTypeOK
<1> QED BY <1>1 DEF TypeOK, CallTypeOK, Advance, Continue

\* A step given up: the next one, or the end of the call.
LEMMA StepFailsType ==
    ASSUME TypeOK, NEW r \in Failures, NEW s \in Session, StepFails(r, s)
    PROVE  /\ session' \in Session /\ field' \in BOOLEAN /\ result' \in Results
           /\ pc' \in {"idle", "step"} /\ next' \in Nat \ {0}
<1>1. CASE Advance(s) BY <1>1, AdvanceType
<1>2. CASE Return(r) /\ UNCHANGED next
  BY <1>2, ReturnType DEF TypeOK, StepTypeOK, Results
<1> QED BY <1>1, <1>2 DEF StepFails

\* Passing over a locked page of a clone keeps the types.
LEMMA SkipLockedType == ASSUME TypeOK, SkipLocked PROVE TypeOK'
<1> USE DEF TypeOK, SkipLocked, callVars, authVars
<1>1. /\ session' \in Session /\ field' \in BOOLEAN /\ result' \in Results
      /\ pc' = "step" /\ next' \in Nat \ {0}
  BY AdvanceType DEF TagTypeOK
<1>2. TagTypeOK' BY <1>1 DEF TagTypeOK
<1>3. CallTypeOK' BY <1>1 DEF CallTypeOK
<1>4. StepTypeOK' BY <1>1 DEF StepTypeOK
<1> QED BY <1>2, <1>3, <1>4

\* The current step is one of the plan's.
LEMMA CurrentType ==
    ASSUME StepTypeOK, next \in DOMAIN plan
    PROVE  /\ Current \in Step /\ Current.page \in Pages /\ Current.value \in Word
           /\ Current.do \in {"read", "write", "verify"}
<1>1. Current \in Step BY DEF StepTypeOK, Current
<1> QED BY <1>1 DEF Step

\* The first exchange of write_page keeps the types.
LEMMA WriteCommandType == ASSUME TypeOK, WriteCommand PROVE TypeOK'
<1> USE DEF TypeOK, WriteCommand, callVars, authVars
<1>1. next \in DOMAIN plan /\ plan[next].do # "read"
  BY DEF StepTypeOK, Current
<1>2. Current.page \in Pages BY <1>1, CurrentType
<1>3. PICK x \in Frame(HearsWritePage(mem, session, Current.page)) :
        \E a \in Decoded(x.answer) :
            \/ a = "ack"  /\ Continue("data", x.session) /\ UNCHANGED next
            \/ a = "nack" /\ StepFails("Nack", x.session)
            \/ a = "none" /\ StepFails("Timeout", x.session)
  OBVIOUS
<1>4. x.session \in Session BY <1>2, WritePageFrame DEF TagTypeOK
<1>5. /\ session' \in Session /\ field' \in BOOLEAN /\ result' \in Results
      /\ \/ pc' = "data" /\ UNCHANGED next
         \/ pc' \in {"idle", "step"} /\ next' \in Nat \ {0}
  <2>1. CASE Continue("data", x.session) /\ UNCHANGED next
    BY <1>4, <2>1 DEF Continue, CallTypeOK
  <2>2. CASE StepFails("Nack", x.session)
    BY <1>4, <2>2, StepFailsType DEF Failures
  <2>3. CASE StepFails("Timeout", x.session)
    BY <1>4, <2>3, StepFailsType DEF Failures
  <2> QED BY <1>3, <2>1, <2>2, <2>3
<1>6. TagTypeOK' BY <1>5 DEF TagTypeOK
<1>7. CallTypeOK' BY <1>5 DEF CallTypeOK
<1>8. StepTypeOK' BY <1>1, <1>5 DEF StepTypeOK
<1> QED BY <1>6, <1>7, <1>8

\* A written page is read back, or the next step begins.
LEMMA WrittenType ==
    ASSUME TypeOK, NEW s \in Session, Written(s)
    PROVE  /\ session' \in Session /\ field' \in BOOLEAN /\ result' \in Results
           /\ wiped' \in Nat
           /\ \/ pc' = "readback" /\ UNCHANGED next
              \/ pc' = "step" /\ next' \in Nat \ {0}
<1>1. wiped' \in Nat BY DEF Written, TypeOK, StepTypeOK
<1>2. CASE Continue("readback", s) /\ UNCHANGED next
  BY <1>1, <1>2 DEF Continue, TypeOK, CallTypeOK
<1>3. CASE Advance(s) BY <1>1, <1>3, AdvanceType
<1> QED BY <1>2, <1>3 DEF Written

\* The second exchange of write_page keeps the types.
LEMMA WriteDataType == ASSUME TypeOK, WriteData PROVE TypeOK'
<1> USE DEF TypeOK, WriteData, callVars, authVars
<1>1. next \in DOMAIN plan /\ plan[next].do # "read" BY DEF StepTypeOK
<1>2. Current.value \in Word BY <1>1, CurrentType
<1>3. PICK x \in Frame(HearsData(mem, session, Current.value)) :
        \E a \in Decoded(x.answer) :
            /\ mem' = x.mem
            /\ \/ a \in {"ack", "none"} /\ Written(x.session)
               \/ a = "nack" /\ StepFails("Nack", x.session) /\ UNCHANGED wiped
  OBVIOUS
<1>4. x.mem \in Memory /\ x.session \in Session
  BY <1>2, DataFrame DEF TagTypeOK
<1>5. /\ session' \in Session /\ field' \in BOOLEAN /\ result' \in Results
      /\ wiped' \in Nat
      /\ \/ pc' = "readback" /\ UNCHANGED next
         \/ pc' \in {"idle", "step"} /\ next' \in Nat \ {0}
  <2>1. CASE Written(x.session) BY <1>4, <2>1, WrittenType
  <2>2. CASE StepFails("Nack", x.session) /\ UNCHANGED wiped
    BY <1>4, <2>2, StepFailsType DEF Failures, StepTypeOK
  <2> QED BY <1>3, <2>1, <2>2
<1>6. TagTypeOK' BY <1>3, <1>4, <1>5 DEF TagTypeOK
<1>7. CallTypeOK' BY <1>5 DEF CallTypeOK
<1>8. StepTypeOK' BY <1>1, <1>5 DEF StepTypeOK
<1> QED BY <1>6, <1>7, <1>8

\* The read-back of write_page_verify keeps the types.
LEMMA ReadBackType == ASSUME TypeOK, ReadBack PROVE TypeOK'
<1> USE DEF TypeOK, ReadBack, callVars, authVars
<1>1. Disarmed(session) \in Session BY DEF TagTypeOK, Disarmed, Session
<1>2. /\ session' \in Session /\ field' \in BOOLEAN /\ result' \in Results
      /\ pc' \in {"idle", "step"} /\ next' \in Nat \ {0}
  <2>1. CASE Advance(Disarmed(session)) BY <1>1, <2>1, AdvanceType
  <2>2. CASE (\E r \in Results : Return(r)) /\ UNCHANGED next
    BY <2>2, ReturnType DEF StepTypeOK
  <2> QED BY <2>1, <2>2 DEF Results, Failures
<1>3. TagTypeOK' BY <1>2 DEF TagTypeOK
<1>4. CallTypeOK' BY <1>2 DEF CallTypeOK
<1>5. StepTypeOK' BY <1>2 DEF StepTypeOK
<1> QED BY <1>3, <1>4, <1>5

\* Reading a page keeps the types.
LEMMA ReadPageType == ASSUME TypeOK, ReadPage PROVE TypeOK'
<1> USE DEF TypeOK, ReadPage, callVars, authVars
<1>1. next \in DOMAIN plan BY DEF StepTypeOK
<1>2. Current.page \in Pages BY <1>1, CurrentType
<1>3. session \in Session /\ Disarmed(session) \in Session
  BY DEF TagTypeOK, Disarmed, Session
<1>4. got' \in [Pages -> Word \cup {NoWord}]
  <2>1. Keep(Current.page) \in [Pages -> Word \cup {NoWord}]
    BY <1>2, ShowsWord, GotType DEF TagTypeOK, Keep
  <2> QED BY <2>1 DEF StepTypeOK
<1>5. /\ session' \in Session /\ field' \in BOOLEAN /\ result' \in Results
      /\ pc' \in {"idle", "step"} /\ next' \in Nat \ {0}
  <2>1. CASE Advance(Disarmed(session)) BY <1>3, <2>1, AdvanceType
  <2>2. CASE \E r \in Failures : \E s \in Session : StepFails(r, s)
    BY <2>2, StepFailsType
  <2> QED BY <1>3, <2>1, <2>2
<1>6. TagTypeOK' BY <1>5 DEF TagTypeOK
<1>7. CallTypeOK' BY <1>5 DEF CallTypeOK
<1>8. StepTypeOK' BY <1>4, <1>5 DEF StepTypeOK
<1> QED BY <1>6, <1>7, <1>8

\* The end of a call keeps the types.
LEMMA FinishType == ASSUME TypeOK, Finish PROVE TypeOK'
<1> USE DEF TypeOK, Finish, callVars, authVars, stepVars
<1>1. session' \in Session /\ field' \in BOOLEAN /\ result' \in Results /\ pc' = "idle"
  BY ReturnType DEF Results
<1>2. TagTypeOK' BY <1>1 DEF TagTypeOK
<1>3. CallTypeOK' BY <1>1 DEF CallTypeOK
<1>4. StepTypeOK' BY <1>1 DEF StepTypeOK
<1> QED BY <1>2, <1>3, <1>4

\* Taking the tag away and presenting it again keeps the types.
LEMMA TagMovesType == ASSUME TypeOK, TagLeaves \/ TagReturns PROVE TypeOK'
<1> USE DEF TypeOK, TagLeaves, TagReturns, callVars, authVars, stepVars
<1>1. near' \in BOOLEAN /\ session' \in {Off, Powered} /\ UNCHANGED mem
  OBVIOUS
<1>2. Off \in Session /\ Powered \in Session BY DEF Off, Powered, Session
<1> HIDE DEF TagLeaves, TagReturns
<1>3. TagTypeOK' BY <1>1, <1>2 DEF TagTypeOK
<1>4. CallTypeOK' BY DEF CallTypeOK, TagLeaves, TagReturns
<1>5. StepTypeOK' BY DEF StepTypeOK, TagLeaves, TagReturns
<1> QED BY <1>3, <1>4, <1>5

\* So does a step that changes nothing.
LEMMA StutterType == ASSUME TypeOK, UNCHANGED vars PROVE TypeOK'
<1> USE DEF TypeOK, vars, tagVars, callVars, authVars, stepVars
<1>1. TagTypeOK' BY DEF TagTypeOK
<1>2. CallTypeOK' BY DEF CallTypeOK
<1>3. StepTypeOK' BY DEF StepTypeOK
<1> QED BY <1>1, <1>2, <1>3

\* Every step keeps every variable within its type.
LEMMA TypeStep == TypeOK /\ [Next]_vars => TypeOK'
<1> SUFFICES ASSUME TypeOK, [Next]_vars PROVE TypeOK' OBVIOUS
<1>1. ASSUME NEW c \in Calls, Begin(c) PROVE TypeOK' BY <1>1, BeginType
<1>2. CASE Probe        BY <1>2, ProbeType
<1>3. CASE Select       BY <1>3, SelectType
<1>4. CASE AuthCommand  BY <1>4, AuthCommandType
<1>5. CASE AuthPassword BY <1>5, AuthPasswordType
<1>6. CASE ReadConfig   BY <1>6, ReadConfigType
<1>7. CASE SkipLocked   BY <1>7, SkipLockedType
<1>8. CASE WriteCommand BY <1>8, WriteCommandType
<1>9. CASE WriteData    BY <1>9, WriteDataType
<1>10. CASE ReadBack    BY <1>10, ReadBackType
<1>11. CASE ReadPage    BY <1>11, ReadPageType
<1>12. CASE Finish      BY <1>12, FinishType
<1>13. CASE TagLeaves \/ TagReturns BY <1>13, TagMovesType
<1>14. CASE UNCHANGED vars BY <1>14, StutterType
<1> QED
  BY <1>1, <1>2, <1>3, <1>4, <1>5, <1>6, <1>7, <1>8, <1>9, <1>10, <1>11,
     <1>12, <1>13, <1>14 DEF Next, Reader

\* Type correctness: every variable has a value of its kind in every reachable
\* state.  In particular authenticate_multi never indexes past its passwords,
\* and every exchange after authentication is about a step of the plan.
THEOREM TypeCorrect == Spec => []TypeOK
BY InitType, TypeStep, PTL DEF Spec

------------------------------------------------------------------------------
\* A step of the reader either goes on with the call or returns from it with
\* the field off and the tag's session ended.
LEMMA ReaderGoesOnOrReturns ==
    ASSUME Reader
    PROVE  pc' # "idle" \/ (pc' = "idle" /\ field' = FALSE /\ session' = Off)
<1> USE DEF Return, Continue
<1>1. CASE Probe        BY <1>1 DEF Probe
<1>2. CASE Select       BY <1>2 DEF Select
<1>3. CASE AuthCommand  BY <1>3 DEF AuthCommand, AuthFails
<1>4. CASE AuthPassword
  <2>1. Proceed => pc' # "idle" BY DEF Proceed
  <2>2. \A r, s : AuthFails(r, s) => pc' # "idle" \/ (field' = FALSE /\ session' = Off)
    BY DEF AuthFails
  <2> QED BY <1>4, <2>1, <2>2 DEF AuthPassword
<1>5. CASE ReadConfig   BY <1>5 DEF ReadConfig, PlanFrom, PlanEm4100
<1>6. CASE SkipLocked   BY <1>6 DEF SkipLocked, Advance
<1>7. CASE WriteCommand BY <1>7 DEF WriteCommand, StepFails, Advance
<1>8. CASE WriteData    BY <1>8 DEF WriteData, Written, StepFails, Advance
<1>9. CASE ReadBack     BY <1>9 DEF ReadBack, Advance
<1>10. CASE ReadPage    BY <1>10 DEF ReadPage, StepFails, Advance
<1>11. CASE Finish      BY <1>11 DEF Finish
<1> QED
  BY <1>1, <1>2, <1>3, <1>4, <1>5, <1>6, <1>7, <1>8, <1>9, <1>10, <1>11 DEF Reader

\* Whatever the channel and the user do, an idle reader has its field off and
\* the tag has no session: no exit of a sequence forgets hitag_s_field_off.
LEMMA IdleStep == NoSessionBetweenCalls /\ [Next]_vars => NoSessionBetweenCalls'
<1> SUFFICES ASSUME NoSessionBetweenCalls, [Next]_vars PROVE NoSessionBetweenCalls'
  OBVIOUS
<1> USE DEF NoSessionBetweenCalls
<1>1. ASSUME NEW c \in Calls, Begin(c) PROVE NoSessionBetweenCalls'
  BY <1>1 DEF Begin
<1>2. CASE Reader BY <1>2, ReaderGoesOnOrReturns
<1>3. CASE TagLeaves \/ TagReturns BY <1>3 DEF TagLeaves, TagReturns
<1>4. CASE UNCHANGED vars BY <1>4 DEF vars, tagVars
<1> QED BY <1>1, <1>2, <1>3, <1>4 DEF Next

\* Between calls the field is off and the tag has no session.
THEOREM SessionsEnd == Spec => []NoSessionBetweenCalls
<1>1. Init => NoSessionBetweenCalls BY DEF Init, NoSessionBetweenCalls
<1> QED BY <1>1, IdleStep, PTL DEF Spec

------------------------------------------------------------------------------
(* A verified write that reports success is on the tag.                       *)

\* A sequence of two and a last one.
LEMMA TwoAndOne ==
    ASSUME NEW S, NEW s \in Seq(S), NEW e \in S, Len(s) = 2
    PROVE  /\ DOMAIN (s \o <<e>>) = 1..3
           /\ (s \o <<e>>)[1] = s[1] /\ (s \o <<e>>)[2] = s[2] /\ (s \o <<e>>)[3] = e
<1>1. <<e>> \in Seq(S) /\ Len(<<e>>) = 1 /\ <<e>>[1] = e OBVIOUS
<1>2. /\ s \o <<e>> \in Seq(S)
      /\ Len(s \o <<e>>) = Len(s) + Len(<<e>>)
      /\ \A i \in 1 .. Len(s) + Len(<<e>>) :
             (s \o <<e>>)[i] = IF i <= Len(s) THEN s[i] ELSE <<e>>[i - Len(s)]
  BY <1>1, ConcatProperties
<1>3. Len(s) + Len(<<e>>) = 3 BY <1>1
<1>4. DOMAIN (s \o <<e>>) = 1..3 BY <1>2, <1>3
<1>5. \A i \in 1..2 : (s \o <<e>>)[i] = s[i] BY <1>2, <1>3
<1>6. 1 \in 1..2 /\ 2 \in 1..2 OBVIOUS
<1>7. (s \o <<e>>)[1] = s[1] /\ (s \o <<e>>)[2] = s[2] BY <1>5, <1>6, Zenon
<1>8. (s \o <<e>>)[3] = <<e>>[1] BY <1>2, <1>3
<1> QED BY <1>1, <1>4, <1>7, <1>8

\* The plan of a verified call verifies every step, has no page twice, and has
\* for each page of the call the step that writes its value.
LEMMA VerifiedPlanFacts ==
    ASSUME NEW c \in CallType, ProperCall(c), Verified(c), NEW m
    PROVE  /\ \A j \in DOMAIN VerifiedPlan(c) : VerifiedPlan(c)[j].do = "verify"
           /\ \A i, j \in DOMAIN VerifiedPlan(c) :
                  VerifiedPlan(c)[i].page = VerifiedPlan(c)[j].page => i = j
           /\ \A p \in PagesOf(c, m) : \E j \in DOMAIN VerifiedPlan(c) :
                  VerifiedPlan(c)[j].page = p /\ VerifiedPlan(c)[j].value = ValueOf(c, p)
<1> DEFINE n == Len(c.data)
<1> DEFINE each == EachPage("verify", c.data)
<1>1. c.data \in Seq(Item) /\ n \in Nat /\ DOMAIN c.data = 1..n BY DEF CallType
<1>2. /\ each \in Seq(Step) /\ Len(each) = n
      /\ \A i \in 1..n : /\ each[i].do = "verify" /\ each[i].page = c.data[i].page
                         /\ each[i].value = c.data[i].value
  <2>1. /\ each \in Seq(Step) /\ Len(each) = n
        /\ \A i \in 1..n : each[i] = [do |-> "verify", page |-> c.data[i].page,
                                      value |-> c.data[i].value]
    BY <1>1, EachPageType
  <2> HIDE DEF each, n
  <2>2. ASSUME NEW i \in 1..n
        PROVE  /\ each[i].do = "verify" /\ each[i].page = c.data[i].page
               /\ each[i].value = c.data[i].value
    <3>1. each[i] = [do |-> "verify", page |-> c.data[i].page, value |-> c.data[i].value]
      BY <2>1
    <3> QED BY <3>1
  <2> QED BY <2>1, <2>2
<1>3. \A i, j \in 1..n : c.data[i].page = c.data[j].page => i = j
  BY <1>1 DEF ProperCall, DistinctPages
<1>4. ASSUME NEW i \in 1..n, NEW p, c.data[i].page = p
      PROVE  c.data[CHOOSE k \in DOMAIN c.data : c.data[k].page = p] = c.data[i]
  <2> DEFINE k == CHOOSE k \in DOMAIN c.data : c.data[k].page = p
  <2>1. k \in DOMAIN c.data /\ c.data[k].page = p BY <1>1, <1>4
  <2> QED BY <1>1, <1>3, <1>4, <2>1
<1> HIDE DEF n, each
<1>5. CASE c.op = "write"
  <2>1. VerifiedPlan(c) = each BY <1>5 DEF VerifiedPlan, WritePlan, each
  <2>2. DOMAIN each = 1..n BY <1>2
  <2>3. PagesOf(c, m) = {c.data[i].page : i \in 1..n}
    BY <1>1, <1>5 DEF PagesOf
  <2>4. \A i \in 1..n : ValueOf(c, c.data[i].page) = c.data[i].value
    BY <1>4, <1>5 DEF ValueOf
  <2>5. \A p \in PagesOf(c, m) : \E j \in 1..n : each[j].page = p /\ each[j].value = ValueOf(c, p)
    BY <1>2, <2>3, <2>4
  <2> QED BY <1>2, <1>3, <2>1, <2>2, <2>5
<1>6. CASE c.op = "em4100"
  <2> DEFINE last == PageStep("verify", 1, Em4100Config)
  <2>1. VerifiedPlan(c) = each \o <<last>>
    BY <1>6 DEF VerifiedPlan, Em4100Plan, each
  <2>2. n = 2 /\ c.data[1].page = 4 /\ c.data[2].page = 5
    BY <1>6 DEF ProperCall, n
  <2>3. last.do = "verify" /\ last.page = 1 /\ last.value = Em4100Config
    BY DEF PageStep
  <2> HIDE DEF last
  <2>4. /\ DOMAIN VerifiedPlan(c) = 1..3
        /\ VerifiedPlan(c)[1] = each[1] /\ VerifiedPlan(c)[2] = each[2]
        /\ VerifiedPlan(c)[3] = last
    <3>1. each \in Seq(Step \cup {last}) /\ Len(each) = 2 BY <1>2, <2>2
    <3> QED BY <2>1, <3>1, TwoAndOne
  <2>5. PagesOf(c, m) = {4, 5, 1}
    <3>1. {c.data[i].page : i \in DOMAIN c.data} = {4, 5}
      BY <1>1, <2>2
    <3> QED BY <1>6, <3>1 DEF PagesOf
  <2>6. ValueOf(c, 4) = c.data[1].value /\ ValueOf(c, 5) = c.data[2].value
        /\ ValueOf(c, 1) = Em4100Config
    <3>1. 1 \in 1..n /\ 2 \in 1..n BY <2>2
    <3>2. c.data[CHOOSE k \in DOMAIN c.data : c.data[k].page = 4] = c.data[1]
      BY <1>4, <2>2, <3>1
    <3>3. c.data[CHOOSE k \in DOMAIN c.data : c.data[k].page = 5] = c.data[2]
      BY <1>4, <2>2, <3>1
    <3> QED BY <1>6, <3>2, <3>3 DEF ValueOf
  <2>7. \A j \in 1..3 : VerifiedPlan(c)[j].do = "verify"
    BY <1>2, <2>2, <2>3, <2>4
  <2>8. /\ VerifiedPlan(c)[1].page = 4 /\ VerifiedPlan(c)[1].value = ValueOf(c, 4)
        /\ VerifiedPlan(c)[2].page = 5 /\ VerifiedPlan(c)[2].value = ValueOf(c, 5)
        /\ VerifiedPlan(c)[3].page = 1 /\ VerifiedPlan(c)[3].value = ValueOf(c, 1)
    BY <1>2, <2>2, <2>3, <2>4, <2>6
  <2> QED BY <2>4, <2>5, <2>7, <2>8
<1> QED BY <1>5, <1>6 DEF Verified

\* A call that returns without having to claim anything keeps the invariant.
LEMMA ReturnProgress ==
    ASSUME WriteProgress, NEW r, Return(r), UNCHANGED call,
           Verified(call) => r # "Ok"
    PROVE  WriteProgress'
<1> USE DEF WriteProgress, Return
<1>1. ProperCall(call)' OBVIOUS
<1>2. StartsAtFirst' BY DEF StartsAtFirst
<1>3. ArmedForTheStep' BY DEF ArmedForTheStep, Off
<1>4. StepsBehindHold' BY DEF StepsBehindHold
<1>5. VerifiedOk' BY DEF VerifiedOk
<1> QED BY <1>1, <1>2, <1>3, <1>4, <1>5

\* A new call starts with an unarmed tag and no step behind it.
LEMMA BeginProgress ==
    ASSUME VerifiedInv, NEW c \in Calls, Begin(c) PROVE WriteProgress'
<1> USE DEF VerifiedInv, WriteProgress, Begin, tagVars
<1>1. ProperCall(call)' BY CallsAssumption
<1>2. StartsAtFirst' BY DEF StartsAtFirst
<1>3. ArmedForTheStep' BY DEF ArmedForTheStep, NoSessionBetweenCalls, Off
<1>4. StepsBehindHold' BY DEF StepsBehindHold
<1>5. VerifiedOk' BY DEF VerifiedOk
<1> QED BY <1>1, <1>2, <1>3, <1>4, <1>5

\* Before the steps: the exchange leaves the tag unarmed or armed for page 64,
\* and the call at its first step.
LEMMA EarlyProgress ==
    ASSUME VerifiedInv, UNCHANGED <<call, next>>,
           pc \in {"probe", "select", "auth", "password", "config"},
           pc' \in {"select", "auth", "password", "config", "step"},
           Verified(call) => session'.armed \in {NoPage, AuthPage},
           Verified(call) /\ pc' = "step" => plan' = VerifiedPlan(call)
    PROVE  WriteProgress'
<1> USE DEF VerifiedInv, WriteProgress
<1>1. ProperCall(call)' OBVIOUS
<1>2. StartsAtFirst' BY DEF StartsAtFirst
<1>3. ArmedForTheStep' BY DEF ArmedForTheStep
<1>4. StepsBehindHold'
  <2>1. next' = 1 BY DEF StartsAtFirst
  <2>2. CASE Verified(call) /\ pc' = "step"
    <3>1. call \in CallType BY DEF TypeOK, CallTypeOK
    <3>2. VerifiedPlan(call) \in Seq(Step) BY <3>1, ConstantWords, PlanTypes DEF VerifiedPlan
    <3>3. \A j \in DOMAIN VerifiedPlan(call) : ~(j < 1) BY <3>2
    <3> QED BY <2>1, <2>2, <3>3 DEF StepsBehindHold
  <2>3. CASE ~(Verified(call) /\ pc' = "step")
    BY <2>3 DEF StepsBehindHold
  <2> QED BY <2>2, <2>3
<1>5. VerifiedOk' BY DEF VerifiedOk
<1> QED BY <1>1, <1>2, <1>3, <1>4, <1>5

\* The UID request finds an unarmed tag.
LEMMA ProbeProgress == ASSUME VerifiedInv, Probe PROVE WriteProgress'
<1> USE DEF Probe, callVars, stepVars
<1>1. \A h \in HeardUids : h.session.armed = NoPage
  BY DEF HeardUids, Captures, Found, Off
<1>2. CASE \E r : Return(r) /\ (call.op # "readUid" => r # "Ok")
  BY <1>2, ReturnProgress DEF VerifiedInv, Verified
<1>3. CASE \E h \in HeardUids : pc' = "select" /\ session' = h.session
  BY <1>1, <1>3, EarlyProgress
<1> QED BY <1>2, <1>3

\* SELECT leaves it unarmed.
LEMMA SelectProgress == ASSUME VerifiedInv, Select PROVE WriteProgress'
<1> USE DEF Select, callVars, stepVars
<1>1. CASE \E r \in Failures : Return(r)
  BY <1>1, ReturnProgress DEF VerifiedInv, Failures
<1>2. CASE Continue("auth", Selected)
  BY <1>2, EarlyProgress DEF Continue, Selected
<1> QED BY <1>1, <1>2

\* A refused password leaves it as the exchange did.
LEMMA AuthFailsProgress ==
    ASSUME VerifiedInv, NEW r \in {"Nack", "Timeout"}, NEW s, AuthFails(r, s),
           pc \in {"auth", "password"}, UNCHANGED <<call, next>>,
           Verified(call) => s.armed \in {NoPage, AuthPage}
    PROVE  WriteProgress'
<1>1. CASE Return(r)
  BY <1>1, ReturnProgress DEF VerifiedInv
<1>2. CASE Continue("auth", s)
  BY <1>2, EarlyProgress DEF Continue
<1> QED BY <1>1, <1>2 DEF AuthFails

\* WRITE_PAGE 64 arms page 64 at most.
LEMMA AuthCommandProgress == ASSUME VerifiedInv, AuthCommand PROVE WriteProgress'
<1> USE DEF AuthCommand, callVars, stepVars
<1>1. PICK x \in Frame(HearsWritePage(mem, session, AuthPage)) :
        \/ Continue("password", x.session)
        \/ AuthFails("Nack", x.session)
        \/ AuthFails("Timeout", x.session)
  OBVIOUS
<1>2. Verified(call) => session.armed \in {NoPage, AuthPage}
  BY DEF VerifiedInv, WriteProgress, ArmedForTheStep
<1>3. Verified(call) => x.session.armed \in {NoPage, AuthPage}
  BY <1>2, WritePageFrame DEF VerifiedInv, TypeOK, TagTypeOK
<1>4. CASE Continue("password", x.session)
  BY <1>3, <1>4, EarlyProgress DEF Continue
<1>5. CASE AuthFails("Nack", x.session) \/ AuthFails("Timeout", x.session)
  BY <1>3, <1>5, AuthFailsProgress
<1> QED BY <1>1, <1>4, <1>5

\* An accepted password brings a verified write to its plan.
LEMMA AuthPasswordProgress == ASSUME VerifiedInv, AuthPassword PROVE WriteProgress'
<1> USE DEF AuthPassword, callVars
<1>1. PICK x \in Frame(HearsData(mem, session, Passwords(call)[try])) :
        \/ Proceed /\ session' = x.session
        \/ AuthFails("Nack", x.session)
        \/ AuthFails("Timeout", x.session)
  OBVIOUS
<1>2. Passwords(call)[try] \in Word
  BY PasswordWords DEF VerifiedInv, TypeOK, CallTypeOK
<1>3. Verified(call) => session.armed \in {NoPage, AuthPage}
  BY DEF VerifiedInv, WriteProgress, ArmedForTheStep
<1>4. Verified(call) => x.session.armed \in {NoPage, AuthPage}
  BY <1>2, <1>3, DataFrame DEF VerifiedInv, TypeOK, TagTypeOK
<1>5. CASE Proceed /\ session' = x.session
  <2>1. pc' \in {"config", "step"} BY <1>5 DEF Proceed
  <2>2. Verified(call) /\ pc' = "step" => plan' = VerifiedPlan(call)
    BY <1>5 DEF Proceed, Verified, VerifiedPlan
  <2> QED BY <1>4, <1>5, <2>1, <2>2, EarlyProgress
<1>6. CASE AuthFails("Nack", x.session) \/ AuthFails("Timeout", x.session)
  BY <1>4, <1>6, AuthFailsProgress
<1> QED BY <1>1, <1>5, <1>6

\* The configuration, read or not, brings an EM4100 write to its plan.
LEMMA ReadConfigProgress == ASSUME VerifiedInv, ReadConfig PROVE WriteProgress'
<1> USE DEF ReadConfig, callVars
<1>1. PICK cfg : \E s \in {session, Disarmed(session)} : PlanFrom(cfg, s)
  OBVIOUS
<1>2. Verified(call) => \A s \in {session, Disarmed(session)} : s.armed \in {NoPage, AuthPage}
  BY DEF VerifiedInv, WriteProgress, ArmedForTheStep, Disarmed, TypeOK, TagTypeOK, Session
<1>3. CASE Return("Error")
  BY <1>3, ReturnProgress DEF VerifiedInv
<1>4. CASE /\ \E s \in {session, Disarmed(session)} : Continue("step", s)
           /\ Verified(call) => plan' = VerifiedPlan(call)
  BY <1>2, <1>4, EarlyProgress DEF Continue
<1> QED BY <1>1, <1>3, <1>4 DEF PlanFrom, PlanEm4100, Verified, VerifiedPlan

\* A verified call has only verified steps, so it never skips a page, never
\* reads one, and is never a wipe.
LEMMA VerifiedStep ==
    ASSUME VerifiedInv, Verified(call), pc \in {"step", "data", "readback"},
           next \in DOMAIN plan
    PROVE  /\ Current.do = "verify" /\ call.op \notin {"clone", "wipe", "readAll"}
           /\ \A j \in DOMAIN plan : j < next => plan[j].page # Current.page
<1>1. call \in CallType /\ ProperCall(call) /\ plan = VerifiedPlan(call) /\ plan \in Seq(Step)
  BY DEF VerifiedInv, WriteProgress, StepsBehindHold, TypeOK, CallTypeOK, StepTypeOK
<1>2. /\ \A j \in DOMAIN plan : plan[j].do = "verify"
      /\ \A i, j \in DOMAIN plan : plan[i].page = plan[j].page => i = j
  BY <1>1, VerifiedPlanFacts
<1> QED BY <1>1, <1>2 DEF Current, Verified

\* A step within the steps that changes no page keeps those behind it.
LEMMA StepProgress ==
    ASSUME VerifiedInv, UNCHANGED <<call, plan>>,
           pc \in {"step", "data", "readback"}, pc' \in {"step", "data", "readback"},
           Verified(call) =>
               /\ \/ session'.armed \in {NoPage, AuthPage}
                  \/ pc' \in {"data", "readback"} /\ session'.armed = Current'.page
               /\ \A j \in DOMAIN plan : j < next' => OnTag(plan[j])'
    PROVE  WriteProgress'
<1> USE DEF VerifiedInv, WriteProgress
<1>1. ProperCall(call)' OBVIOUS
<1>2. StartsAtFirst' BY DEF StartsAtFirst
<1>3. ArmedForTheStep' BY DEF ArmedForTheStep
<1>4. StepsBehindHold' BY DEF StepsBehindHold
<1>5. VerifiedOk' BY DEF VerifiedOk
<1> QED BY <1>1, <1>2, <1>3, <1>4, <1>5

\* What is on the tag stays there while its memory does not change.
LEMMA OnTagKept ==
    ASSUME UNCHANGED mem, NEW step, OnTag(step)
    PROVE  OnTag(step)'
BY DEF OnTag

\* A verified call that gives up a step returns.
LEMMA StepFailsProgress ==
    ASSUME VerifiedInv, NEW r \in Failures, NEW s, StepFails(r, s),
           pc \in {"step", "data"}, next \in DOMAIN plan, UNCHANGED <<call, plan>>
    PROVE  WriteProgress'
<1>1. CASE Return(r)
  BY <1>1, ReturnProgress DEF VerifiedInv, Failures
<1>2. CASE call.op \in {"wipe", "readAll"} /\ Advance(s)
  <2>1. ~Verified(call) BY <1>2 DEF Verified
  <2> QED BY <1>2, <2>1, StepProgress DEF Advance, Continue
<1> QED BY <1>1, <1>2 DEF StepFails

\* A page passed over belongs to a clone.
LEMMA SkipLockedProgress == ASSUME VerifiedInv, SkipLocked PROVE WriteProgress'
<1>1. ~Verified(call) BY DEF SkipLocked, Skipped, Verified
<1> QED BY <1>1, StepProgress DEF SkipLocked, Advance, Continue, callVars

\* The command frame arms the page of the step at most.
LEMMA WriteCommandProgress == ASSUME VerifiedInv, WriteCommand PROVE WriteProgress'
<1> USE DEF WriteCommand, callVars
<1>1. PICK x \in Frame(HearsWritePage(mem, session, Current.page)) :
        \/ Continue("data", x.session) /\ UNCHANGED next
        \/ StepFails("Nack", x.session)
        \/ StepFails("Timeout", x.session)
  OBVIOUS
<1>2. next \in DOMAIN plan /\ Current.page \in Pages
  BY CurrentType DEF VerifiedInv, TypeOK, StepTypeOK
<1>3. CASE Continue("data", x.session) /\ UNCHANGED next
  <2>1. Verified(call) => session.armed \in {NoPage, AuthPage}
    BY DEF VerifiedInv, WriteProgress, ArmedForTheStep
  <2>2. x.session.armed \in {session.armed, Current.page, NoPage}
    BY <1>2, WritePageFrame DEF VerifiedInv, TypeOK, TagTypeOK
  <2>3. Current' = Current BY <1>3 DEF Current
  <2>4. Verified(call) => \A j \in DOMAIN plan : j < next' => OnTag(plan[j])'
    BY <1>3, OnTagKept DEF VerifiedInv, WriteProgress, StepsBehindHold
  <2> QED BY <1>3, <2>1, <2>2, <2>3, <2>4, StepProgress DEF Continue
<1>4. CASE StepFails("Nack", x.session) \/ StepFails("Timeout", x.session)
  BY <1>2, <1>4, StepFailsProgress DEF Failures
<1> QED BY <1>1, <1>3, <1>4

\* The data frame programs the page of the step at most, and a verified step
\* goes on to its read-back.
LEMMA WriteDataProgress == ASSUME VerifiedInv, WriteData PROVE WriteProgress'
<1> USE DEF WriteData, callVars
<1>1. PICK x \in Frame(HearsData(mem, session, Current.value)) :
        /\ mem' = x.mem
        /\ Written(x.session) \/ StepFails("Nack", x.session)
  OBVIOUS
<1>2. /\ next \in DOMAIN plan /\ plan \in Seq(Step)
      /\ Current.page \in Pages /\ Current.value \in Word
  BY CurrentType DEF VerifiedInv, TypeOK, StepTypeOK
<1>3. CASE Written(x.session) /\ Verified(call)
  <2>1. Current.do = "verify" BY <1>2, <1>3, VerifiedStep
  <2>2. pc' = "readback" /\ session' = x.session /\ UNCHANGED next
    BY <1>3, <2>1 DEF Written, Continue
  <2>3. \/ session.armed \in {NoPage, AuthPage}
        \/ session.armed = Current.page
    BY <1>3 DEF VerifiedInv, WriteProgress, ArmedForTheStep
  <2>4. /\ x.session.armed \in {session.armed, NoPage}
        /\ \/ mem' = mem
           \/ session.armed \in Pages /\ mem' = [mem EXCEPT ![session.armed] = Current.value]
    BY <1>1, <1>2, DataFrame DEF VerifiedInv, TypeOK, TagTypeOK
  <2>5. mem \in Memory BY DEF VerifiedInv, TypeOK, TagTypeOK
  <2>6. ASSUME NEW j \in DOMAIN plan, j < next PROVE OnTag(plan[j])'
    <3>1. OnTag(plan[j]) BY <1>3, <2>6 DEF VerifiedInv, WriteProgress, StepsBehindHold
    <3>2. plan[j].page # Current.page BY <1>2, <1>3, <2>6, VerifiedStep
    <3>3. plan[j].page \in Pages
      <4>1. plan[j] \in Step BY <1>2
      <4> QED BY <4>1 DEF Step
    <3>4. mem'[plan[j].page] = mem[plan[j].page]
      BY <2>3, <2>4, <2>5, <3>2, <3>3, PageFacts DEF Memory
    <3> QED BY <3>1, <3>4 DEF OnTag
  <2>7. Current' = Current BY <2>2 DEF Current
  <2>8. \/ session'.armed \in {NoPage, AuthPage}
        \/ session'.armed = Current'.page
    BY <2>2, <2>3, <2>4, <2>7
  <2> QED BY <2>2, <2>6, <2>8, StepProgress
<1>4. CASE Written(x.session) /\ ~Verified(call)
  <2>1. pc' \in {"step", "readback"} BY <1>4 DEF Written, Advance, Continue
  <2> QED BY <1>4, <2>1, StepProgress
<1>5. CASE StepFails("Nack", x.session)
  BY <1>2, <1>5, StepFailsProgress DEF Failures
<1> QED BY <1>1, <1>3, <1>4, <1>5

\* A read-back that agrees with the step's value has seen it on the tag.
LEMMA SeenOnTag ==
    ASSUME mem \in Memory, NEW step \in Step, Verifies(step.page, Shows(mem, step.page), step.value)
    PROVE  OnTag(step)
<1>1. step.page \in Pages BY DEF Step
<1>2. CASE step.page = 1
  BY <1>1, <1>2 DEF Verifies, OnTag, SameOnPage, SameButPwdh0, Shows, Memory, Word
<1>3. CASE step.page # 1
  BY <1>3 DEF Verifies, OnTag, SameOnPage, Shows
<1> QED BY <1>2, <1>3

\* So a step of a verified call is left behind only once it is on the tag.
LEMMA ReadBackProgress == ASSUME VerifiedInv, ReadBack PROVE WriteProgress'
<1> USE DEF ReadBack, callVars
<1>1. /\ next \in DOMAIN plan /\ plan \in Seq(Step) /\ Current \in Step
      /\ mem \in Memory /\ session \in Session
  BY CurrentType DEF VerifiedInv, TypeOK, TagTypeOK, StepTypeOK
<1>2. CASE \E r \in Failures : Return(r)
  BY <1>2, ReturnProgress DEF VerifiedInv, Failures
<1>3. CASE Verifies(Current.page, Shows(mem, Current.page), Current.value)
           /\ Advance(Disarmed(session))
  <2>1. OnTag(Current) BY <1>1, <1>3, SeenOnTag
  <2>2. session'.armed = NoPage /\ next' = next + 1 /\ pc' = "step"
    BY <1>1, <1>3 DEF Advance, Continue, Disarmed, Session
  <2>3. ASSUME Verified(call), NEW j \in DOMAIN plan, j < next' PROVE OnTag(plan[j])'
    <3>1. CASE j = next BY <2>1, <3>1, OnTagKept DEF Current
    <3>2. CASE j < next
      BY <2>3, <3>2, OnTagKept DEF VerifiedInv, WriteProgress, StepsBehindHold
    <3> QED BY <1>1, <2>2, <2>3, <3>1, <3>2
  <2> QED BY <2>2, <2>3, StepProgress
<1> QED BY <1>2, <1>3 DEF Failures

\* A page read belongs to a call that claims nothing about writes.
LEMMA ReadPageProgress == ASSUME VerifiedInv, ReadPage PROVE WriteProgress'
<1> USE DEF ReadPage, callVars, authVars
<1>1. next \in DOMAIN plan BY DEF VerifiedInv, TypeOK, StepTypeOK
<1>2. ~Verified(call) BY <1>1, VerifiedStep
<1>3. CASE \E s : Advance(s)
  BY <1>2, <1>3, StepProgress DEF Advance, Continue
<1>4. CASE \E r \in Failures : \E s : StepFails(r, s)
  BY <1>1, <1>4, StepFailsProgress
<1> QED BY <1>3, <1>4

\* With every step behind it, every page of a verified call is on the tag.
LEMMA FinishProgress == ASSUME VerifiedInv, Finish PROVE WriteProgress'
<1> USE DEF Finish, Return, callVars, stepVars
<1>1. CASE ~Verified(call) BY <1>1, ReturnProgress DEF VerifiedInv
<1>2. CASE Verified(call)
  <2>1. /\ call \in CallType /\ ProperCall(call) /\ plan \in Seq(Step)
        /\ plan = VerifiedPlan(call) /\ next \in Nat
        /\ \A j \in DOMAIN plan : j < next => OnTag(plan[j])
    BY <1>2 DEF VerifiedInv, WriteProgress, StepsBehindHold, TypeOK, CallTypeOK, StepTypeOK
  <2>2. \A j \in DOMAIN plan : OnTag(plan[j]) BY <2>1
  <2>3. \A p \in PagesOf(call, before) : SameOnPage(p, mem[p], ValueOf(call, p))
    BY <1>2, <2>1, <2>2, VerifiedPlanFacts DEF OnTag
  <2>4. VerifiedOk' BY <2>3 DEF VerifiedOk
  <2>5. ProperCall(call)' BY <2>1
  <2>6. StartsAtFirst' /\ ArmedForTheStep' /\ StepsBehindHold'
    BY DEF StartsAtFirst, ArmedForTheStep, StepsBehindHold, Off
  <2> QED BY <2>4, <2>5, <2>6 DEF WriteProgress
<1> QED BY <1>1, <1>2

\* A tag that leaves or returns is unarmed and keeps its memory.
LEMMA TagMovesProgress ==
    ASSUME VerifiedInv, TagLeaves \/ TagReturns PROVE WriteProgress'
<1> USE DEF TagLeaves, TagReturns, callVars, authVars, stepVars, VerifiedInv, WriteProgress
<1>1. ProperCall(call)' OBVIOUS
<1>2. StartsAtFirst' BY DEF StartsAtFirst
<1>3. ArmedForTheStep' BY DEF ArmedForTheStep, Off, Powered
<1>4. StepsBehindHold' BY DEF StepsBehindHold, OnTag
<1>5. VerifiedOk' BY DEF VerifiedOk
<1> QED BY <1>1, <1>2, <1>3, <1>4, <1>5

\* A step that changes nothing keeps everything.
LEMMA StutterProgress == ASSUME VerifiedInv, UNCHANGED vars PROVE WriteProgress'
<1> USE DEF vars, tagVars, callVars, authVars, stepVars, VerifiedInv, WriteProgress
<1>1. ProperCall(call)' OBVIOUS
<1>2. StartsAtFirst' BY DEF StartsAtFirst
<1>3. ArmedForTheStep' BY DEF ArmedForTheStep, Current
<1>4. StepsBehindHold' BY DEF StepsBehindHold, OnTag
<1>5. VerifiedOk' BY DEF VerifiedOk
<1> QED BY <1>1, <1>2, <1>3, <1>4, <1>5

\* The strengthened invariant is inductive.
LEMMA VerifiedInvStep == VerifiedInv /\ [Next]_vars => VerifiedInv'
<1> SUFFICES ASSUME VerifiedInv, [Next]_vars PROVE VerifiedInv' OBVIOUS
<1>1. WriteProgress'
  <2>1. ASSUME NEW c \in Calls, Begin(c) PROVE WriteProgress' BY <2>1, BeginProgress
  <2>2. CASE Probe        BY <2>2, ProbeProgress
  <2>3. CASE Select       BY <2>3, SelectProgress
  <2>4. CASE AuthCommand  BY <2>4, AuthCommandProgress
  <2>5. CASE AuthPassword BY <2>5, AuthPasswordProgress
  <2>6. CASE ReadConfig   BY <2>6, ReadConfigProgress
  <2>7. CASE SkipLocked   BY <2>7, SkipLockedProgress
  <2>8. CASE WriteCommand BY <2>8, WriteCommandProgress
  <2>9. CASE WriteData    BY <2>9, WriteDataProgress
  <2>10. CASE ReadBack    BY <2>10, ReadBackProgress
  <2>11. CASE ReadPage    BY <2>11, ReadPageProgress
  <2>12. CASE Finish      BY <2>12, FinishProgress
  <2>13. CASE TagLeaves \/ TagReturns BY <2>13, TagMovesProgress
  <2>14. CASE UNCHANGED vars BY <2>14, StutterProgress
  <2> QED
    BY <2>1, <2>2, <2>3, <2>4, <2>5, <2>6, <2>7, <2>8, <2>9, <2>10, <2>11,
       <2>12, <2>13, <2>14 DEF Next, Reader
<1>2. TypeOK' BY TypeStep DEF VerifiedInv
<1>3. NoSessionBetweenCalls' BY IdleStep DEF VerifiedInv
<1> QED BY <1>1, <1>2, <1>3 DEF VerifiedInv

\* README "Write verification": a UID or EM4100 write that returns Ok has left
\* every page of it on the tag, for every tag, every set of calls, and whatever
\* frames are lost or noise is taken for an acknowledgement.
THEOREM VerifiedWrites == Spec => []VerifiedOk
<1>1. Init => VerifiedInv
  <2> SUFFICES ASSUME Init PROVE VerifiedInv OBVIOUS
  <2>1. TypeOK BY InitType
  <2>2. NoSessionBetweenCalls BY DEF Init, NoSessionBetweenCalls
  <2>3. ProperCall(call) BY DEF Init, NoCall, ProperCall, DistinctPages
  <2>4. /\ StartsAtFirst /\ ArmedForTheStep /\ StepsBehindHold /\ VerifiedOk
    BY DEF Init, NoCall, StartsAtFirst, ArmedForTheStep, StepsBehindHold,
           VerifiedOk, Verified, Off
  <2> QED BY <2>1, <2>2, <2>3, <2>4 DEF VerifiedInv, WriteProgress
<1>2. VerifiedInv => VerifiedOk BY DEF VerifiedInv, WriteProgress
<1> QED BY <1>1, <1>2, VerifiedInvStep, PTL DEF Spec
==============================================================================
