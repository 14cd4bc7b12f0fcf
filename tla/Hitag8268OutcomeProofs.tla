------------------------ MODULE Hitag8268OutcomeProofs ------------------------
(* On a channel that loses and invents nothing a call does exactly what       *)
(* Effect says and reports success exactly when Succeeds says.                *)
EXTENDS Hitag8268PromiseProofs, Hitag8268Clones, SetInduction

------------------------------------------------------------------------------
(* The plans, and the pages they get onto a tag.                              *)

CanRead(m, p) == Readable(m, [state |-> "authed", armed |-> NoPage], p)
Writing(c)    == c.op \in {"write", "em4100", "clone", "wipe"}

\* The plan a call makes for a tag with memory m.
PlanFor(c, m) ==
    CASE c.op = "write"   -> WritePlan(c)
      [] c.op = "em4100"  -> Em4100Plan(c)
      [] c.op = "clone"   -> ClonePlan(c)
      [] c.op = "wipe"    -> WipePlan(LastPage(m[1]))
      [] c.op = "read"    -> ReadPlan(c)
      [] c.op = "readAll" -> ReadAllPlan(m[1], LastPage(m[1]))
      [] OTHER            -> <<>>

\* The pages that the steps before the n-th have programmed on a tag that
\* enforces its locks.
Done(steps, m, n) ==
    {steps[j].page : j \in {i \in DOMAIN steps : i < n /\ PageWritable(m[1], steps[i].page)}}

\* The steps before the n-th did not end the call.
Passes(c, m, step) ==
    /\ Verified(c)    => PageWritable(m[1], step.page)
    /\ c.op = "clone" => PageWritable(m[1], step.page) \/ step.page > 3
    /\ c.op = "read"  => CanRead(m, step.page)
PassesUpTo(c, m, steps, n) ==
    /\ c.op = "em4100" => PageWritable(m[1], 4) /\ PageWritable(m[1], 5)
    /\ \A j \in DOMAIN steps : j < n => Passes(c, m, steps[j])

------------------------------------------------------------------------------
(* The invariant.                                                             *)

\* The reader knows the tag it talks to, and the tag is in the session the
\* reader counts on.
Connected ==
    /\ pc \notin {"idle", "probe"} => uid = before[0] /\ Reached(call, before)
    /\ pc = "select" => session.state = "found"
    /\ pc \in {"config"} \cup StepPoints =>
          session.state = "authed" /\ Admitted(call, before)
    /\ pc = "data" => session.armed = Current.page
    /\ pc \in {"data", "readback"} => PageWritable(before[1], Current.page)
    /\ pc = "readback" => call.op # "wipe"

\* The next step that is not on the tag yet.
Reach == IF pc = "readback" THEN next + 1 ELSE next

\* The steps behind are on the tag, and nothing else is.
StepsDone ==
    /\ pc \in SetupPoints => wiped = 0
    /\ pc \in StepPoints =>
          /\ plan = PlanFor(call, before)
          /\ PassesUpTo(call, before, plan, next)
          /\ Writing(call) =>
                mem = [p \in Pages |-> IF p \in Done(plan, before, Reach)
                                       THEN ValueOf(call, p) ELSE before[p]]
          /\ call.op = "wipe" => wiped = Cardinality(Done(plan, before, next))

\* A dump marks what it has passed and can read.
DumpSoFar ==
    call.op = "readAll" =>
        /\ pc = "config" => got[0] = before[0]
        /\ pc \in StepPoints =>
              \A p \in Pages :
                  got[p] = IF p \in {0, 1}
                              \/ /\ \E j \in DOMAIN plan : j < next /\ plan[j].page = p
                                 /\ CanRead(before, p)
                           THEN Shows(before, p) ELSE NoWord

OutcomeParts == Connected /\ StepsDone /\ DumpSoFar /\ ReliableOutcome
OutcomeInv   == OrderInv /\ RefusalInv /\ OutcomeParts
------------------------------------------------------------------------------
(* The plans cover the pages of their call.                                   *)

\* Every page of a clone's job has a step: the items', then pages 1 and 0.
LEMMA CloneCovers ==
    ASSUME NEW c \in CallType, c.op = "clone", NEW m, NEW p \in PagesOf(c, m)
    PROVE  \E j \in DOMAIN ClonePlan(c) : ClonePlan(c)[j].page = p
<1> DEFINE each == EachPage("write", c.data)
<1> DEFINE n == Len(c.data)
<1> DEFINE d == PageStep("write", 1, c.config)
<1> DEFINE e == PageStep("write", 0, c.uid)
<1>1. /\ each \in Seq(Step) /\ Len(each) = n /\ n \in Nat /\ DOMAIN c.data = 1..n
      /\ \A i \in 1..n : each[i].page = c.data[i].page
  BY ItemSteps
<1>2. d \in Step /\ e \in Step
  <2>1. c.config \in Word /\ c.uid \in Word BY DEF CallType
  <2> QED BY <2>1, PageFacts, StepWords
<1>3. d.page = 1 /\ e.page = 0 BY DEF PageStep
<1>4. ClonePlan(c) = each \o <<d, e>> BY DEF ClonePlan
<1>5. p \in {c.data[i].page : i \in DOMAIN c.data} \cup {0, 1} BY DEF PagesOf
<1> HIDE DEF each, n, d, e
<1>6. /\ DOMAIN ClonePlan(c) = 1..(n + 2)
      /\ \A i \in 1..n : ClonePlan(c)[i] = each[i]
      /\ ClonePlan(c)[n + 1] = d /\ ClonePlan(c)[n + 2] = e
  BY <1>1, <1>2, <1>4, TwoAfter
<1>7. CASE \E i \in DOMAIN c.data : p = c.data[i].page
  <2>1. PICK i \in 1..n : p = c.data[i].page BY <1>1, <1>7
  <2>2. i \in 1..(n + 2) /\ ClonePlan(c)[i].page = p BY <1>1, <1>6, <2>1
  <2> QED BY <1>6, <2>2
<1>8. CASE p = 1
  <2>1. n + 1 \in 1..(n + 2) /\ ClonePlan(c)[n + 1].page = p BY <1>1, <1>3, <1>6, <1>8
  <2> QED BY <1>6, <2>1
<1>9. CASE p = 0
  <2>1. n + 2 \in 1..(n + 2) /\ ClonePlan(c)[n + 2].page = p BY <1>1, <1>3, <1>6, <1>9
  <2> QED BY <1>6, <2>1
<1> QED BY <1>5, <1>7, <1>8, <1>9

\* The pages of a wipe's steps: 4 and up, then 2, 3 and 1.
LEMMA WipePages ==
    ASSUME NEW top \in 5..TopPage
    PROVE  /\ DOMAIN WipePlan(top) = 1..top
           /\ \A i \in 1..(top - 3) : WipePlan(top)[i].page = i + 3
           /\ WipePlan(top)[top - 2].page = 2
           /\ WipePlan(top)[top - 1].page = 3
           /\ WipePlan(top)[top].page = 1
<1> DEFINE each == DataPages("write", top, ZeroWord)
<1> DEFINE n == top - 3
<1> DEFINE d == PageStep("write", 2, DefaultPassword)
<1> DEFINE e == PageStep("write", 3, ZeroWord)
<1> DEFINE f == PageStep("write", 1, WipeConfig)
<1>1. n \in Nat /\ n + 1 = top - 2 /\ n + 2 = top - 1 /\ n + 3 = top BY TopPageAssumption
<1>2. each \in Seq(Step) BY ConstantWords, DataPagesType
<1>3. each = [i \in 1..n |-> PageStep("write", i + 3, ZeroWord)] BY DEF DataPages
<1>4. d \in Step /\ e \in Step /\ f \in Step BY ConstantWords, PageFacts, StepWords
<1>5. d.page = 2 /\ e.page = 3 /\ f.page = 1 BY DEF PageStep
<1>6. WipePlan(top) = each \o <<d, e, f>> BY DEF WipePlan
<1> HIDE DEF each, n, d, e, f
<1>7. Len(each) = n
  <2>1. DOMAIN each = 1..n BY <1>3
  <2>2. DOMAIN each = 1..Len(each) /\ Len(each) \in Nat BY <1>2
  <2> QED BY <1>1, <2>1, <2>2
<1>8. ASSUME NEW i \in 1..n PROVE each[i].page = i + 3
  <2>1. each[i] = [do |-> "write", page |-> i + 3, value |-> ZeroWord]
    BY <1>3 DEF PageStep
  <2> QED BY <2>1
<1>9. /\ DOMAIN WipePlan(top) = 1..(n + 3)
      /\ \A i \in 1..n : WipePlan(top)[i] = each[i]
      /\ WipePlan(top)[n + 1] = d /\ WipePlan(top)[n + 2] = e /\ WipePlan(top)[n + 3] = f
  BY <1>1, <1>2, <1>4, <1>6, <1>7, ThreeAfter
<1>10. \A i \in 1..n : WipePlan(top)[i].page = i + 3 BY <1>8, <1>9
<1> QED BY <1>1, <1>5, <1>9, <1>10 DEF n

\* A wipe has a step for every page of its tag, and no page twice.
LEMMA WipeCovers ==
    ASSUME NEW top \in 5..TopPage
    PROVE  /\ \A p \in 1..top : \E j \in DOMAIN WipePlan(top) : WipePlan(top)[j].page = p
           /\ \A i, j \in DOMAIN WipePlan(top) :
                  WipePlan(top)[i].page = WipePlan(top)[j].page => i = j
<1> DEFINE page(i) == WipePlan(top)[i].page
<1>1. /\ DOMAIN WipePlan(top) = 1..top
      /\ \A i \in 1..(top - 3) : page(i) = i + 3
      /\ page(top - 2) = 2 /\ page(top - 1) = 3 /\ page(top) = 1
  BY WipePages
<1>2. top \in Nat /\ top >= 5 BY TopPageAssumption
<1> HIDE DEF page
<1>3. ASSUME NEW p \in 1..top PROVE \E j \in 1..top : page(j) = p
  <2>1. CASE p > 3
    <3>1. p - 3 \in 1..(top - 3) /\ p - 3 \in 1..top /\ (p - 3) + 3 = p BY <1>2, <2>1
    <3> QED BY <1>1, <3>1
  <2>2. CASE p \in {1, 2, 3} BY <1>1, <1>2, <2>2
  <2> QED BY <1>2, <2>1, <2>2
<1>4. ASSUME NEW i \in 1..top, NEW j \in 1..top, page(i) = page(j) PROVE i = j
  <2>1. /\ i \in 1..(top - 3) \/ i \in {top - 2, top - 1, top}
        /\ j \in 1..(top - 3) \/ j \in {top - 2, top - 1, top}
    BY <1>2
  <2> QED BY <1>1, <1>2, <1>4, <2>1
<1> QED BY <1>1, <1>3, <1>4 DEF page

\* The plan of a call that writes, for the tag it finds: its steps are those of
\* the job, in the right order, and cover it.
LEMMA WritingPlan ==
    ASSUME NEW c \in CallType, ProperCall(c), Writing(c),
           c.op = "write" => OrderedWrite(c), NEW m, NEW steps, steps = PlanFor(c, m)
    PROVE  /\ RightOrder(steps)
           /\ \A j \in DOMAIN steps :
                  /\ steps[j].do # "read"
                  /\ \/ c.op = "clone" /\ steps[j].page > 3 /\ ~PageWritable(m[1], steps[j].page)
                     \/ DoesJob(c, m, steps[j])
           /\ \A p \in PagesOf(c, m) : \E j \in DOMAIN steps : steps[j].page = p
<1>1. CASE c.op = "write"
  <2>1. steps = WritePlan(c) /\ VerifiedPlan(c) = WritePlan(c) /\ Verified(c)
    BY <1>1 DEF PlanFor, VerifiedPlan, Verified
  <2>2. RightOrder(steps) BY <1>1, <2>1, WritePlanFacts
  <2>3. \A j \in DOMAIN steps : steps[j].do # "read" /\ DoesJob(c, m, steps[j])
    BY <1>1, <2>1, WritePlanFacts
  <2>4. \A p \in PagesOf(c, m) : \E j \in DOMAIN steps : steps[j].page = p
    BY <2>1, VerifiedPlanFacts
  <2> QED BY <2>2, <2>3, <2>4
<1>2. CASE c.op = "em4100"
  <2>1. steps = Em4100Plan(c) /\ VerifiedPlan(c) = Em4100Plan(c) /\ Verified(c)
    BY <1>2 DEF PlanFor, VerifiedPlan, Verified
  <2>2. RightOrder(steps) BY <1>2, <2>1, Em4100PlanFacts
  <2>3. \A j \in DOMAIN steps : steps[j].do # "read" /\ DoesJob(c, m, steps[j])
    BY <1>2, <2>1, Em4100PlanFacts
  <2>4. \A p \in PagesOf(c, m) : \E j \in DOMAIN steps : steps[j].page = p
    BY <2>1, VerifiedPlanFacts
  <2> QED BY <2>2, <2>3, <2>4
<1>3. CASE c.op = "clone"
  <2>1. steps = ClonePlan(c) BY <1>3 DEF PlanFor
  <2>2. RightOrder(steps) BY <1>3, <2>1, ClonePlanFacts
  <2>3. \A j \in DOMAIN steps :
            /\ steps[j].do # "read"
            /\ \/ steps[j].page > 3 /\ ~PageWritable(m[1], steps[j].page)
               \/ DoesJob(c, m, steps[j])
    BY <1>3, <2>1, ClonePlanFacts
  <2>4. \A p \in PagesOf(c, m) : \E j \in DOMAIN steps : steps[j].page = p
    BY <1>3, <2>1, CloneCovers
  <2> QED BY <1>3, <2>2, <2>3, <2>4
<1>4. CASE c.op = "wipe"
  <2>1. steps = WipePlan(LastPage(m[1])) /\ LastPage(m[1]) \in 5..TopPage
    BY <1>4, LastPageType DEF PlanFor
  <2>2. PagesOf(c, m) = 1..LastPage(m[1]) BY <1>4 DEF PagesOf
  <2>3. \A p \in PagesOf(c, m) : \E j \in DOMAIN steps : steps[j].page = p
    BY <2>1, <2>2, WipeCovers
  <2>4. RightOrder(steps) BY <1>4, <2>1, WipePlanFacts
  <2>5. \A j \in DOMAIN steps : steps[j].do # "read" /\ DoesJob(c, m, steps[j])
    BY <1>4, <2>1, WipePlanFacts
  <2> QED BY <2>3, <2>4, <2>5
<1> QED BY <1>1, <1>2, <1>3, <1>4 DEF Writing
------------------------------------------------------------------------------
(* What the steps of a plan have programmed.                                  *)

\* Before the first step nothing is done.
LEMMA DoneFirst ==
    ASSUME NEW steps \in Seq(Step), NEW m PROVE Done(steps, m, 1) = {}
<1>1. DOMAIN steps = 1..Len(steps) /\ Len(steps) \in Nat OBVIOUS
<1> QED BY <1>1 DEF Done

\* A step adds its page, unless the page is locked.
LEMMA DoneNext ==
    ASSUME NEW steps \in Seq(Step), NEW m, NEW n \in DOMAIN steps
    PROVE  Done(steps, m, n + 1) = IF PageWritable(m[1], steps[n].page)
                                   THEN Done(steps, m, n) \cup {steps[n].page}
                                   ELSE Done(steps, m, n)
<1>1. DOMAIN steps = 1..Len(steps) /\ Len(steps) \in Nat OBVIOUS
<1>2. \A i \in DOMAIN steps : i < n + 1 <=> i < n \/ i = n BY <1>1
<1> QED BY <1>2 DEF Done

\* The next step passes: so have all the steps before the one after it.
LEMMA PassesNext ==
    ASSUME NEW steps \in Seq(Step), NEW c, NEW m, NEW n \in DOMAIN steps,
           PassesUpTo(c, m, steps, n), Passes(c, m, steps[n])
    PROVE  PassesUpTo(c, m, steps, n + 1)
<1>1. DOMAIN steps = 1..Len(steps) /\ Len(steps) \in Nat OBVIOUS
<1>2. \A i \in DOMAIN steps : i < n + 1 => i < n \/ i = n BY <1>1
<1> QED BY <1>2 DEF PassesUpTo

\* The UID page has no lock.
LEMMA UidIsWritable == ASSUME NEW w PROVE PageWritable(w, 0)
BY DEF PageWritable

\* With all steps behind, the writable pages of the job are done.
LEMMA AllDone ==
    ASSUME NEW c \in CallType, ProperCall(c), Writing(c),
           c.op = "write" => OrderedWrite(c), NEW m,
           NEW steps \in Seq(Step), steps = PlanFor(c, m), NEW n, \A j \in DOMAIN steps : j < n
    PROVE  Done(steps, m, n) = {p \in PagesOf(c, m) : PageWritable(m[1], p)}
<1>1. /\ \A j \in DOMAIN steps : \/ ~PageWritable(m[1], steps[j].page)
                                 \/ DoesJob(c, m, steps[j])
      /\ \A p \in PagesOf(c, m) : \E j \in DOMAIN steps : steps[j].page = p
  BY WritingPlan
<1> QED BY <1>1 DEF Done, DoesJob

\* A write whose steps have all passed has put every page of its job on the
\* tag; so has a clone, of the pages it may write, and so does a wipe.
LEMMA FinishedCall ==
    ASSUME NEW c \in CallType, ProperCall(c), Writing(c),
           c.op = "write" => OrderedWrite(c), NEW m,
           NEW steps \in Seq(Step), steps = PlanFor(c, m), NEW n, \A j \in DOMAIN steps : j < n,
           PassesUpTo(c, m, steps, n)
    PROVE  /\ Done(steps, m, n) = Reachable(c, m)
           /\ c.op # "wipe" => Reachable(c, m) = PagesOf(c, m)
<1>1. Done(steps, m, n) = {p \in PagesOf(c, m) : PageWritable(m[1], p)} BY AllDone
<1>2. \A p \in PagesOf(c, m) : \E j \in DOMAIN steps : steps[j].page = p BY WritingPlan
<1>3. \A j \in DOMAIN steps : Passes(c, m, steps[j]) BY DEF PassesUpTo
<1>4. CASE c.op = "write"
  <2>1. \A p \in PagesOf(c, m) : PageWritable(m[1], p)
    BY <1>2, <1>3, <1>4 DEF Passes, Verified
  <2>2. PagesOf(c, m) = {c.data[i].page : i \in DOMAIN c.data} BY <1>4 DEF PagesOf
  <2>3. DOMAIN c.data = 1..Len(c.data) /\ Len(c.data) \in Nat BY DEF CallType
  <2>4. \A k \in DOMAIN c.data : \A j \in 1..k : PageWritable(m[1], c.data[j].page)
    BY <2>1, <2>2, <2>3
  <2>5. Reachable(c, m) = {c.data[i].page : i \in DOMAIN c.data}
    BY <1>4, <2>4 DEF Reachable
  <2> QED BY <1>1, <2>1, <2>2, <2>5
<1>5. CASE c.op = "em4100"
  <2>1. \A p \in PagesOf(c, m) : PageWritable(m[1], p)
    BY <1>2, <1>3, <1>5 DEF Passes, Verified
  <2>2. PageWritable(m[1], 4) /\ PageWritable(m[1], 5) BY <1>5 DEF PassesUpTo
  <2>3. Reachable(c, m) = {p \in PagesOf(c, m) : PageWritable(m[1], p)}
    BY <1>5, <2>2 DEF Reachable
  <2> QED BY <1>1, <2>1, <2>3
<1>6. CASE c.op = "clone"
  <2>1. PagesOf(c, m) = {p \in {c.data[i].page : i \in DOMAIN c.data} : PageWritable(m[1], p)}
                        \cup {0, 1}
    BY <1>6 DEF PagesOf
  <2>2. PageWritable(m[1], 1)
    <3>1. PICK j \in DOMAIN steps : steps[j].page = 1 BY <1>2, <2>1
    <3> QED BY <1>3, <1>6, <3>1 DEF Passes
  <2>3. \A p \in PagesOf(c, m) : PageWritable(m[1], p) BY <2>1, <2>2, UidIsWritable
  <2>4. Reachable(c, m) = {p \in PagesOf(c, m) : PageWritable(m[1], p)}
    BY <1>6, <2>2 DEF Reachable
  <2> QED BY <1>1, <2>3, <2>4
<1>7. CASE c.op = "wipe"
  <2>1. Reachable(c, m) = {p \in PagesOf(c, m) : PageWritable(m[1], p)} BY <1>7 DEF Reachable
  <2> QED BY <1>1, <1>7, <2>1
<1> QED BY <1>4, <1>5, <1>6, <1>7 DEF Writing
\* A call that stops at a step the tag refuses has done what it can reach, and
\* has not reached that page.
LEMMA StoppedCall ==
    ASSUME NEW c \in CallType, ProperCall(c), c.op \in {"write", "em4100", "clone"},
           c.op = "write" => OrderedWrite(c), NEW m,
           NEW steps \in Seq(Step), steps = PlanFor(c, m), NEW n \in DOMAIN steps,
           PassesUpTo(c, m, steps, n), ~PageWritable(m[1], steps[n].page),
           c.op = "clone" => steps[n].page <= 3
    PROVE  Done(steps, m, n) = Reachable(c, m) /\ Reachable(c, m) # PagesOf(c, m)
<1>1. /\ RightOrder(steps)
      /\ \A j \in DOMAIN steps :
             \/ c.op = "clone" /\ steps[j].page > 3 /\ ~PageWritable(m[1], steps[j].page)
             \/ DoesJob(c, m, steps[j])
      /\ \A p \in PagesOf(c, m) : \E j \in DOMAIN steps : steps[j].page = p
  BY WritingPlan DEF Writing
<1>2. DOMAIN steps = 1..Len(steps) /\ Len(steps) \in Nat OBVIOUS
<1>3. steps[n].page \in Nat
  <2>1. steps[n] \in Step OBVIOUS
  <2> QED BY <2>1, PageFacts DEF Step
<1>4. steps[n].page \in PagesOf(c, m)
  BY <1>1, <1>3 DEF DoesJob
<1>5. steps[n].page # 0 BY UidIsWritable
<1>6. CASE c.op = "write"
  <2>1. /\ Len(steps) = Len(c.data) /\ DOMAIN c.data = 1..Len(c.data)
        /\ \A i \in DOMAIN c.data : steps[i].page = c.data[i].page
    <3>1. steps = EachPage("verify", c.data) BY <1>6 DEF PlanFor, WritePlan
    <3>2. DOMAIN c.data = 1..Len(c.data) BY ItemSteps
    <3>3. Len(steps) = Len(c.data) BY <3>1, ItemSteps
    <3>4. \A i \in 1..Len(c.data) : steps[i].page = c.data[i].page BY <3>1, ItemSteps
    <3> QED BY <3>2, <3>3, <3>4
  <2>2. \A j \in DOMAIN steps : j < n => PageWritable(m[1], c.data[j].page)
    BY <1>2, <1>6, <2>1 DEF PassesUpTo, Passes, Verified
  <2>3. ~PageWritable(m[1], c.data[n].page) BY <1>2, <2>1
  <2>4. ASSUME NEW i \in DOMAIN c.data
        PROVE  i < n <=> \A j \in 1..i : PageWritable(m[1], c.data[j].page)
    BY <1>2, <2>1, <2>2, <2>3
  <2>5. Reachable(c, m) = {c.data[i].page : i \in {k \in DOMAIN c.data : k < n}}
    BY <1>6, <2>4 DEF Reachable
  <2>6. Done(steps, m, n) = {c.data[i].page : i \in {k \in DOMAIN c.data : k < n}}
    BY <1>2, <2>1, <2>2 DEF Done
  <2>7. c.data[n].page \notin Done(steps, m, n) BY <2>3, <2>1 DEF Done
  <2>8. steps[n].page = c.data[n].page BY <1>2, <2>1
  <2> QED BY <1>4, <2>5, <2>6, <2>7, <2>8
<1>7. CASE c.op \in {"em4100", "clone"}
  <2>1. steps[n].page = 1
    <3>1. CASE c.op = "clone"
      <4>1. PagesOf(c, m) = {p \in {c.data[i].page : i \in DOMAIN c.data} : PageWritable(m[1], p)}
                            \cup {0, 1}
        BY <3>1 DEF PagesOf
      <4> QED BY <1>4, <1>5, <4>1
    <3>2. CASE c.op = "em4100"
      <4>1. PageWritable(m[1], 4) /\ PageWritable(m[1], 5) BY <3>2 DEF PassesUpTo
      <4>2. {c.data[i].page : i \in DOMAIN c.data} = {4, 5}
        <5>1. DOMAIN c.data = {1, 2} /\ c.data[1].page = 4 /\ c.data[2].page = 5
          BY <3>2 DEF ProperCall, CallType
        <5> QED BY <5>1
      <4>3. PagesOf(c, m) = {4, 5, 1} BY <3>2, <4>2 DEF PagesOf
      <4> QED BY <1>4, <4>1, <4>3
    <3> QED BY <1>7, <3>1, <3>2
  <2>2. Reachable(c, m) = {p \in PagesOf(c, m) \ {0} : PageWritable(m[1], p)}
    <3>1. CASE c.op = "clone" BY <2>1, <3>1 DEF Reachable
    <3>2. CASE c.op = "em4100"
      <4>1. PageWritable(m[1], 4) /\ PageWritable(m[1], 5) BY <3>2 DEF PassesUpTo
      <4>2. Reachable(c, m) = {p \in PagesOf(c, m) : PageWritable(m[1], p)}
        BY <3>2, <4>1 DEF Reachable
      <4>3. 0 \notin PagesOf(c, m)
        <5>1. \A i \in DOMAIN c.data : c.data[i].page # 0
          <6>1. DOMAIN c.data = {1, 2} /\ c.data[1].page = 4 /\ c.data[2].page = 5
            BY <3>2 DEF ProperCall, CallType
          <6> QED BY <6>1
        <5> QED BY <3>2, <5>1 DEF PagesOf
      <4> QED BY <4>2, <4>3
    <3> QED BY <1>7, <3>1, <3>2
  <2>3. ASSUME NEW p \in Reachable(c, m) PROVE p \in Done(steps, m, n)
    <3>1. PICK j \in DOMAIN steps : steps[j].page = p BY <1>1, <2>2, <2>3
    <3>2. p # 0 /\ p # 1 /\ PageWritable(m[1], p) BY <2>1, <2>2, <2>3
    <3>3. ~(n < j) BY <1>1, <2>1, <3>1, <3>2 DEF RightOrder
    <3>4. j # n BY <2>1, <3>1, <3>2
    <3>5. j < n BY <1>2, <3>3, <3>4
    <3> QED BY <3>1, <3>2, <3>5 DEF Done
  <2>4. ASSUME NEW p \in Done(steps, m, n) PROVE p \in Reachable(c, m)
    <3>1. PICK j \in DOMAIN steps : j < n /\ PageWritable(m[1], steps[j].page) /\ p = steps[j].page
      BY <2>4 DEF Done
    <3>2. p \in PagesOf(c, m) BY <1>1, <3>1 DEF DoesJob
    <3>3. p # 0 BY <1>1, <3>1 DEF RightOrder
    <3> QED BY <2>2, <3>1, <3>2, <3>3
  <2>5. Done(steps, m, n) = Reachable(c, m) BY <2>3, <2>4
  <2>6. steps[n].page \notin Reachable(c, m) BY <2>2
  <2> QED BY <1>4, <2>5, <2>6
<1> QED BY <1>6, <1>7

\* The plan of a call depends on the tag's configuration up to PWDH0, which a
\* tag in plain mode does not show.
LEMMA SamePlan ==
    ASSUME NEW v, NEW w, SameButPwdh0(v, w), NEW top
    PROVE  ReadAllPlan(v, top) = ReadAllPlan(w, top)
<1>1. Parse(v).auth = Parse(w).auth /\ Parse(v).LKP = Parse(w).LKP
  BY DEF Parse, SameButPwdh0
<1> QED BY <1>1 DEF ReadAllPlan
\* A dump has a step for every page of the tag beyond the configuration that
\* the tag shows, and for no page that it has not.
LEMMA DumpCovers ==
    ASSUME NEW m, NEW steps, steps = ReadAllPlan(m[1], LastPage(m[1])),
           NEW p \in Pages \ {0, 1}, CanRead(m, p)
    PROVE  (\E j \in DOMAIN steps : steps[j].page = p) <=> p <= LastPage(m[1])
<1> DEFINE top == LastPage(m[1])
<1> DEFINE hidden == Parse(m[1]).auth = 1 /\ Parse(m[1]).LKP = 1
<1> DEFINE system == IF hidden
                     THEN <<>> ELSE <<PageStep("read", 2, ZeroWord), PageStep("read", 3, ZeroWord)>>
<1> DEFINE each == DataPages("read", top, ZeroWord)
<1> DEFINE n == top - 3
<1>1. top \in 5..TopPage /\ top \in Nat /\ top >= 5 /\ n \in Nat /\ n + 3 = top
  BY LastPageType, TopPageAssumption
<1>2. p \in {2, 3} => ~hidden BY DEF CanRead, Readable
<1>3. \A j \in DOMAIN steps : steps[j].page <= top
  <2>1. NoCall \in CallType
    BY ConstantWords DEF NoCall, CallType, Ops
  <2>2. top \in 5..TopPage BY <1>1
  <2> HIDE DEF top
  <2>3. \A j \in DOMAIN ReadAllPlan(m[1], top) : ReadAllPlan(m[1], top)[j].page <= top
    BY <2>1, <2>2, ReadPlans
  <2> QED BY <2>3 DEF top
<1>4. /\ each \in Seq(Step) /\ Len(each) = n
      /\ \A i \in 1..n : each[i] = PageStep("read", i + 3, ZeroWord)
  <2>1. each \in Seq(Step) BY <1>1, ConstantWords, DataPagesType
  <2>2. each = [i \in 1..n |-> PageStep("read", i + 3, ZeroWord)] BY DEF DataPages
  <2> HIDE DEF each, n
  <2>3. DOMAIN each = 1..n BY <2>2
  <2>4. DOMAIN each = 1..Len(each) /\ Len(each) \in Nat BY <2>1
  <2>5. Len(each) = n BY <1>1, <2>3, <2>4
  <2> QED BY <2>1, <2>2, <2>5
<1>5. system \in Seq(Step)
  <2>1. PageStep("read", 2, ZeroWord) \in Step /\ PageStep("read", 3, ZeroWord) \in Step
    BY ConstantWords, PageFacts, StepWords
  <2> QED BY <2>1
<1>6. steps = system \o each BY DEF ReadAllPlan
<1>7. ~hidden => /\ Len(system) = 2
                 /\ system[1] = PageStep("read", 2, ZeroWord)
                 /\ system[2] = PageStep("read", 3, ZeroWord)
  OBVIOUS
<1> HIDE DEF each, system, n, hidden
<1>8. /\ DOMAIN steps = 1..(Len(system) + n) /\ Len(system) \in Nat
      /\ \A i \in 1..(Len(system) + n) :
             steps[i] = IF i <= Len(system) THEN system[i] ELSE each[i - Len(system)]
  <2>1. /\ system \o each \in Seq(Step)
        /\ Len(system \o each) = Len(system) + Len(each)
        /\ \A i \in 1..(Len(system) + Len(each)) :
               (system \o each)[i] = IF i <= Len(system) THEN system[i] ELSE each[i - Len(system)]
    BY <1>4, <1>5, ConcatProperties
  <2>2. Len(system) \in Nat BY <1>5
  <2> QED BY <1>4, <1>6, <2>1, <2>2
<1>9. ASSUME p <= top PROVE \E j \in DOMAIN steps : steps[j].page = p
  <2>1. CASE p > 3
    <3>1. /\ p - 3 \in 1..n /\ Len(system) + (p - 3) \in 1..(Len(system) + n)
          /\ ~(Len(system) + (p - 3) <= Len(system))
          /\ (Len(system) + (p - 3)) - Len(system) = p - 3
      BY <1>1, <1>8, <1>9, <2>1, PageFacts
    <3>2. steps[Len(system) + (p - 3)] = each[p - 3] BY <1>8, <3>1
    <3>3. each[p - 3].page = p
      <4>1. each[p - 3] = PageStep("read", (p - 3) + 3, ZeroWord) BY <1>4, <3>1
      <4>2. (p - 3) + 3 = p BY PageFacts
      <4> QED BY <4>1, <4>2 DEF PageStep
    <3> QED BY <1>8, <3>1, <3>2, <3>3
  <2>2. CASE p \in {2, 3}
    <3>1. /\ Len(system) = 2 /\ system[1] = PageStep("read", 2, ZeroWord)
          /\ system[2] = PageStep("read", 3, ZeroWord)
      BY <1>2, <1>7, <2>2
    <3>2. steps[1] = system[1] /\ steps[2] = system[2] BY <1>1, <1>8, <3>1
    <3>3. 1 \in DOMAIN steps /\ 2 \in DOMAIN steps BY <1>1, <1>8, <3>1
    <3>4. steps[1].page = 2 /\ steps[2].page = 3 BY <3>1, <3>2 DEF PageStep
    <3> QED BY <2>2, <3>3, <3>4
  <2> QED BY <2>1, <2>2, PageFacts
<1> QED BY <1>3, <1>9
------------------------------------------------------------------------------
(* Where a call ends.                                                         *)

\* What the proofs below know of a call in progress.
LEMMA CallFacts ==
    ASSUME OrderedCalls, OutcomeInv
    PROVE  /\ call \in CallType /\ ProperCall(call)
           /\ call.op = "write" => OrderedWrite(call)
           /\ mem \in Memory /\ before \in Memory /\ session \in Session
           /\ plan \in Seq(Step) /\ next \in Nat \ {0} /\ wiped \in Nat
           /\ got \in [Pages -> Word \cup {NoWord}] /\ near
<1> USE DEF OutcomeInv, OrderInv, PromiseInv
<1>1. TypeOK BY DEF ReadingInv, SetupInv
<1>2. ProperCall(call) BY DEF VerifiedInv, WriteProgress
<1>3. call \in Calls \cup {NoCall} BY DEF JobParts, CallIsGiven
<1>4. call.op = "write" => OrderedWrite(call) BY <1>3 DEF OrderedCalls, NoCall
<1>5. near BY DEF RefusalInv, RefusalParts, RefusedSoFar
<1> QED BY <1>1, <1>2, <1>4, <1>5 DEF TypeOK, TagTypeOK, CallTypeOK, StepTypeOK

\* Within a call the outcome says nothing yet.
LEMMA GoesOn ==
    ASSUME pc' # "idle" PROVE ReliableOutcome'
BY DEF ReliableOutcome, Returned

\* A call that ends has left no invariant to keep but the outcome.
LEMMA EndsWith ==
    ASSUME pc' = "idle", ReliableOutcome' PROVE OutcomeParts'
BY DEF OutcomeParts, Connected, StepsDone, DumpSoFar, StepPoints, SetupPoints

\* A call that fails before the tag lets it change a page.
LEMMA NothingChanged ==
    ASSUME before \in Memory, UNCHANGED <<call, before>>, pc' = "idle", result' # "Ok",
           mem' = before, ~Succeeds(call, before),
           Reached(call, before) /\ Admitted(call, before) => Reachable(call, before) = {}
    PROVE  OutcomeParts'
<1>1. Effect(call, before) = [p \in Pages |-> before[p]] BY DEF Effect
<1>2. Effect(call, before) = before BY <1>1 DEF Memory
<1>3. ReliableOutcome' BY <1>2 DEF ReliableOutcome, Returned
<1> QED BY <1>3, EndsWith

\* A writing call that ends with the pages it can reach programmed.
LEMMA ReachableChanged ==
    ASSUME before \in Memory, UNCHANGED <<call, before>>, pc' = "idle",
           Writing(call), Reached(call, before), Admitted(call, before),
           mem' = [p \in Pages |-> IF p \in Reachable(call, before)
                                   THEN ValueOf(call, p) ELSE before[p]],
           result' = "Ok" <=> Succeeds(call, before),
           call.op = "wipe" => wiped' = Cardinality(Reachable(call, before))
    PROVE  OutcomeParts'
<1>1. mem' = Effect(call, before) BY DEF Effect
<1>2. call.op # "readAll" BY DEF Writing
<1>3. ReliableOutcome' BY <1>1, <1>2 DEF ReliableOutcome, Returned
<1> QED BY <1>3, EndsWith

\* A call that only reads ends with the tag as it was.
LEMMA NothingToChange ==
    ASSUME before \in Memory, UNCHANGED <<call, before>>, pc' = "idle",
           ReadOnly(call), mem' = before, result' = "Ok" <=> Succeeds(call, before),
           call.op = "readAll" /\ result' = "Ok" =>
              \A p \in Pages :
                  got'[p] = IF p <= LastPage(before[1]) /\ CanRead(before, p)
                            THEN Shows(before, p) ELSE NoWord
    PROVE  OutcomeParts'
<1>1. Reachable(call, before) = {} BY DEF Reachable, PagesOf, ReadOnly
<1>2. Effect(call, before) = [p \in Pages |-> before[p]] BY <1>1 DEF Effect
<1>3. Effect(call, before) = before BY <1>2 DEF Memory
<1>4. call.op # "wipe" BY DEF ReadOnly
<1>5. ReliableOutcome' BY <1>3, <1>4 DEF ReliableOutcome, Returned, CanRead
<1> QED BY <1>5, EndsWith
------------------------------------------------------------------------------
(* The setup of a call.                                                       *)

\* Up to its plan a call has nothing to show for.
LEMMA SetupOutcome ==
    ASSUME pc' \in {"probe", "select", "auth", "password"}, wiped' = 0, Connected'
    PROVE  OutcomeParts'
BY GoesOn DEF OutcomeParts, StepsDone, DumpSoFar, StepPoints

\* A new call starts with the UID request.
LEMMA BeginOutcome == ASSUME NEW c \in Calls, Begin(c) PROVE OutcomeParts'
<1>1. pc' = "probe" /\ wiped' = 0 BY DEF Begin
<1>2. Connected' BY <1>1 DEF Connected, StepPoints
<1> QED BY <1>1, <1>2, SetupOutcome

\* What the setup of a call finds: the tag as it was when the call began.
LEMMA SetupFacts ==
    ASSUME OutcomeInv, pc \in SetupPoints
    PROVE  /\ mem = before /\ plan = <<>> /\ next = 1 /\ wiped = 0
           /\ \A p \in Pages \ {0} : got[p] = NoWord
BY DEF OutcomeInv, OutcomeParts, StepsDone, OrderInv, PromiseInv, ReadingInv, SetupInv,
       SetupParts, NothingDone

\* The UID request hears the UID of the tag, or rejects it.
LEMMA ProbeOutcome ==
    ASSUME ~Lossy, ~Noise, OrderedCalls, OutcomeInv, Probe PROVE OutcomeParts'
<1> USE DEF Probe
<1>1. UNCHANGED <<call, before, mem>> /\ wiped' = 0
  BY SetupFacts DEF callVars, stepVars, SetupPoints
<1>2. mem = before /\ before \in Memory /\ near
  BY CallFacts, SetupFacts DEF SetupPoints
<1>3. \A h \in Captures : h.uid = before[0] /\ h.session = Found
  BY <1>2 DEF Captures
<1>4. CASE Return("Timeout") /\ LowEntropy(mem[0])
  <2>1. ~Reached(call, before) BY <1>2, <1>4 DEF Reached
  <2>2. pc' = "idle" /\ result' # "Ok" BY <1>4 DEF Return
  <2> QED BY <1>1, <1>2, <2>1, <2>2, NothingChanged DEF Succeeds
<1>5. ASSUME NEW h \in HeardUids, uid' = h.uid, call.op = "readUid", Return("Ok")
      PROVE  OutcomeParts'
  <2>1. Reached(call, before) BY <1>3, <1>5 DEF HeardUids, Reached
  <2>2. Succeeds(call, before) BY <1>5, <2>1 DEF Succeeds
  <2>3. ReadOnly(call) BY <1>5 DEF ReadOnly
  <2>4. pc' = "idle" /\ result' = "Ok" BY <1>5 DEF Return
  <2>5. mem' = before /\ call.op # "readAll" BY <1>1, <1>2, <1>5
  <2> QED BY <1>1, <1>2, <2>2, <2>3, <2>4, <2>5, NothingToChange
<1>6. ASSUME NEW h \in HeardUids, uid' = h.uid, pc' = "select", session' = h.session
      PROVE  OutcomeParts'
  <2>1. h \in Captures /\ ~LowEntropy(h.uid) BY DEF HeardUids
  <2>2. h.uid = before[0] /\ h.session = Found BY <1>3, <2>1
  <2>3. Reached(call, before)' BY <1>1, <2>1, <2>2 DEF Reached
  <2>4. uid' = before'[0] /\ session'.state = "found" BY <1>1, <1>6, <2>2 DEF Found
  <2>5. Connected' BY <1>6, <2>3, <2>4 DEF Connected, StepPoints
  <2> QED BY <1>1, <1>6, <2>5, SetupOutcome
<1> QED BY <1>2, <1>4, <1>5, <1>6 DEF Unreliable

\* SELECT finds the tag whose UID was heard.
LEMMA SelectOutcome ==
    ASSUME ~Lossy, ~Noise, OrderedCalls, OutcomeInv, Select PROVE OutcomeParts'
<1> USE DEF Select
<1>1. UNCHANGED <<call, before, mem, uid>> /\ wiped' = 0
  BY SetupFacts DEF callVars, stepVars, SetupPoints
<1>2. mem = before BY SetupFacts DEF SetupPoints
<1>3. uid = before[0] /\ Reached(call, before) /\ session.state = "found"
  BY DEF OutcomeInv, OutcomeParts, Connected
<1>4. session.state = "found" /\ mem[0] \in UidVariants(uid)
  BY <1>2, <1>3 DEF UidVariants
<1>5. Continue("auth", Selected) BY <1>4 DEF ReplyFails, Unreliable
<1>6. pc' = "auth" BY <1>5 DEF Continue
<1>7. Connected' BY <1>1, <1>3, <1>6 DEF Connected, StepPoints, Reached
<1> QED BY <1>1, <1>6, <1>7, SetupOutcome

\* The command that announces a password is acknowledged.
LEMMA AuthCommandOutcome ==
    ASSUME ~Lossy, ~Noise, OrderedCalls, OutcomeInv, AuthCommand PROVE OutcomeParts'
<1> USE DEF AuthCommand
<1>1. PICK x \in Frame(HearsWritePage(mem, session, AuthPage)) : \E a \in Decoded(x.answer) :
        \/ a = "ack"  /\ Continue("password", x.session) /\ UNCHANGED try
        \/ a = "nack" /\ AuthFails("Nack", x.session)
        \/ a = "none" /\ AuthFails("Timeout", x.session)
  OBVIOUS
<1>2. mem \in Memory /\ session \in Session BY CallFacts
<1>3. session.state = "selected" BY DEF OutcomeInv, RefusalInv, RefusalParts, RefusedSoFar
<1>4. pc' = "password" BY <1>1, <1>2, <1>3, CommandIsHeard DEF Continue
<1>5. UNCHANGED <<call, before, uid>> /\ wiped' = 0
  BY SetupFacts DEF callVars, stepVars, SetupPoints
<1>6. uid = before[0] /\ Reached(call, before)
  BY DEF OutcomeInv, OutcomeParts, Connected
<1>7. Connected' BY <1>4, <1>5, <1>6 DEF Connected, StepPoints, Reached
<1> QED BY <1>4, <1>5, <1>7, SetupOutcome
\* The first step of a plan: the tag is as it was, and nothing is counted.
LEMMA StepsBegin ==
    ASSUME OrderedCalls, OutcomeInv, pc \in SetupPoints, pc # "probe",
           UNCHANGED <<call, before, mem, wiped, uid, next>>,
           pc' = "step", plan' = PlanFor(call, before), plan' \in Seq(Step),
           call.op = "em4100" => PageWritable(before[1], 4) /\ PageWritable(before[1], 5),
           session'.state = "authed", Admitted(call, before),
           call.op = "readAll" =>
               /\ got'[0] = before[0] /\ got'[1] = Shows(before, 1)
               /\ \A p \in Pages \ {0, 1} : got'[p] = NoWord
    PROVE  OutcomeParts'
<1>1. mem = before /\ before \in Memory /\ next = 1 /\ wiped = 0
  BY CallFacts, SetupFacts
<1>2. uid = before[0] /\ Reached(call, before)
  BY DEF OutcomeInv, OutcomeParts, Connected, SetupPoints
<1>3. Connected' BY <1>2 DEF Connected, StepPoints, Reached, Admitted
<1>4. DOMAIN plan' = 1..Len(plan') /\ Len(plan') \in Nat OBVIOUS
<1>5. Done(plan', before, 1) = {} BY DoneFirst
<1>6. PassesUpTo(call, before, plan', 1) BY <1>4 DEF PassesUpTo
<1>7. mem' = [p \in Pages |-> IF p \in Done(plan', before, 1)
                             THEN ValueOf(call, p) ELSE before[p]]
  BY <1>1, <1>5 DEF Memory
<1>8. wiped' = Cardinality(Done(plan', before, 1)) BY <1>1, <1>5, FS_EmptySet
<1>9. StepsDone'
  <2>1. next' = 1 /\ Reach' = 1 BY <1>1 DEF Reach
  <2> QED BY <1>6, <1>7, <1>8, <2>1 DEF StepsDone, SetupPoints
<1>10. DumpSoFar'
  <2>1. ~(\E j \in DOMAIN plan' : j < next') BY <1>1, <1>4
  <2>2. Shows(before, 0) = before[0] BY DEF Shows
  <2>3. call.op = "readAll" =>
            \A p \in Pages : got'[p] = IF p \in {0, 1} THEN Shows(before, p) ELSE NoWord
    BY <2>2
  <2> QED BY <2>1, <2>3 DEF DumpSoFar
<1> QED BY <1>3, <1>9, <1>10, GoesOn DEF OutcomeParts

\* An acknowledged password is the tag's, and the tag is authenticated.
LEMMA AckAdmits ==
    ASSUME ~Lossy, ~Noise, mem \in Memory, session \in Session,
           session.state = "selected", session.armed = AuthPage, NEW w,
           NEW x \in Frame(HearsData(mem, session, w)), "ack" \in Decoded(x.answer)
    PROVE  w = mem[2] /\ x.session.state = "authed"
BY DEF Frame, HearsData, React, Decoded, Disarmed, Listening, Session

\* An accepted password brings a call to its plan or to the configuration; a
\* call whose passwords are all refused has not been admitted.
LEMMA AuthPasswordOutcome ==
    ASSUME ~Lossy, ~Noise, OrderedCalls, OutcomeInv, AuthPassword PROVE OutcomeParts'
<1> USE DEF AuthPassword
<1> DEFINE w == Passwords(call)[try]
<1>1. PICK x \in Frame(HearsData(mem, session, w)) : \E a \in Decoded(x.answer) :
        /\ mem' = x.mem
        /\ \/ /\ a = "ack"
              /\ Proceed /\ session' = x.session
              /\ got' = IF call.op = "readAll" THEN [got EXCEPT ![0] = uid] ELSE got
           \/ a = "nack" /\ AuthFails("Nack", x.session) /\ UNCHANGED <<plan, got>>
           \/ a = "none" /\ AuthFails("Timeout", x.session) /\ UNCHANGED <<plan, got>>
  OBVIOUS
<1>2. /\ call \in CallType /\ before \in Memory /\ mem \in Memory /\ session \in Session
      /\ got \in [Pages -> Word \cup {NoWord}]
  BY CallFacts
<1>3. /\ mem = before /\ plan = <<>> /\ next = 1 /\ wiped = 0
      /\ \A p \in Pages \ {0} : got[p] = NoWord
  BY SetupFacts DEF SetupPoints
<1>4. /\ session.state = "selected" /\ session.armed = AuthPage
      /\ try \in DOMAIN Passwords(call) /\ call.op # "readUid"
      /\ SameButPwdh0(config, before[1]) /\ TypeOK
  BY DEF OutcomeInv, RefusalInv, RefusalParts, RefusedSoFar, SetupInv, TypeOK, CallTypeOK,
         SetupParts, UidOnly, ConfigKnown
<1>5. uid = before[0] /\ Reached(call, before)
  BY DEF OutcomeInv, OutcomeParts, Connected
<1>6. w \in Word BY <1>2, <1>4, PasswordWords
<1>7. UNCHANGED <<call, before, uid, next, wiped>> BY DEF callVars
<1>8. mem' = mem
  <2>1. NoPageArmed(session) BY <1>4 DEF NoPageArmed
  <2> QED BY <1>1, <1>2, <1>6, <2>1, PasswordFrame
<1> HIDE DEF w
<1>9. CASE /\ "ack" \in Decoded(x.answer) /\ Proceed /\ session' = x.session
           /\ got' = IF call.op = "readAll" THEN [got EXCEPT ![0] = uid] ELSE got
  <2>1. w = mem[2] /\ session'.state = "authed" BY <1>1, <1>2, <1>4, <1>9, AckAdmits
  <2>2. Admitted(call, before) BY <1>3, <1>4, <2>1 DEF Admitted, w
  <2>3. CASE call.op \in {"em4100", "readAll"}
    <3>1. pc' = "config" BY <1>9, <2>3 DEF Proceed
    <3>2. Connected' BY <1>5, <1>7, <2>1, <2>2, <3>1 DEF Connected, Reached, Admitted
    <3>3. StepsDone' BY <1>3, <1>7, <3>1 DEF StepsDone, StepPoints
    <3>4. call.op = "readAll" => got'[0] = before[0] BY <1>2, <1>5, <1>9, PageFacts
    <3>5. DumpSoFar' BY <1>7, <3>1, <3>4 DEF DumpSoFar, StepPoints
    <3> QED BY <3>1, <3>2, <3>3, <3>5, GoesOn DEF OutcomeParts
  <2>4. CASE call.op \in {"write", "read", "clone", "wipe"}
    <3>1. pc' = "step" BY <1>9, <2>4 DEF Proceed
    <3>2. LastPage(config) = LastPage(before[1]) BY <1>4, SameLayout
    <3>3. plan' = PlanFor(call, before)
      BY <1>9, <2>4, <3>2 DEF Proceed, PlanFor
    <3>4. plan' \in Seq(Step) BY <1>4, AuthPasswordType DEF TypeOK, StepTypeOK
    <3>5. pc \in SetupPoints /\ pc # "probe" BY DEF SetupPoints
    <3> QED BY <1>7, <1>8, <2>1, <2>2, <2>4, <3>1, <3>3, <3>4, <3>5, StepsBegin
  <2> QED BY <1>2, <1>4, <2>3, <2>4 DEF CallType, Ops
<1>10. CASE AuthFails("Nack", x.session) /\ UNCHANGED <<plan, got>>
  <2>1. CASE pc' = "auth"
    <3>1. Connected' BY <1>5, <1>7, <2>1 DEF Connected, StepPoints, Reached
    <3> QED BY <1>3, <1>7, <2>1, <3>1, SetupOutcome
  <2>2. CASE Return("Nack")
    <3>1. pc' = "idle" /\ result' = "Nack" BY <2>2 DEF Return
    <3>2. RefusalParts' BY AuthPasswordRefusal DEF OutcomeInv
    <3>3. \A i \in DOMAIN Passwords(call) : Passwords(call)[i] # before[2]
      BY <1>3, <1>7, <1>10, <3>1, <3>2 DEF RefusalParts, NackMeansUnknownPassword
    <3>4. ~Admitted(call, before) BY <3>3 DEF Admitted
    <3>5. ~Succeeds(call, before) BY <1>4, <3>4 DEF Succeeds
    <3> QED BY <1>2, <1>3, <1>7, <1>8, <3>1, <3>4, <3>5, NothingChanged
  <2> QED BY <1>10, <2>1, <2>2 DEF AuthFails, Continue
<1> QED BY <1>1, <1>2, <1>4, <1>6, <1>9, <1>10, PasswordIsJudged
\* The configuration read before an EM4100 write or a dump is the tag's, and
\* decides whether pages 4 and 5 are written at all.
LEMMA ReadConfigOutcome ==
    ASSUME ~Lossy, ~Noise, OrderedCalls, OutcomeInv, ReadConfig PROVE OutcomeParts'
<1> USE DEF ReadConfig
<1>1. /\ call \in CallType /\ before \in Memory /\ mem \in Memory /\ session \in Session
      /\ got \in [Pages -> Word \cup {NoWord}]
  BY CallFacts
<1>2. /\ mem = before /\ plan = <<>> /\ next = 1 /\ wiped = 0
      /\ \A p \in Pages \ {0} : got[p] = NoWord
  BY SetupFacts DEF SetupPoints
<1>3. SameButPwdh0(config, before[1]) /\ TypeOK
  BY DEF OutcomeInv, RefusalInv, SetupInv, SetupParts, ConfigKnown
<1>4. session.state = "authed" /\ Admitted(call, before)
      /\ (call.op = "readAll" => got[0] = before[0])
  BY DEF OutcomeInv, OutcomeParts, Connected, DumpSoFar
<1>5. UNCHANGED <<call, before, mem, uid, next, wiped>> BY DEF callVars
<1>6. Readable(mem, session, 1) BY <1>4 DEF Readable
<1>7. /\ got' = IF call.op = "readAll" THEN [got EXCEPT ![1] = Shows(mem, 1)] ELSE got
      /\ PlanFrom(Shows(mem, 1), Disarmed(session))
  BY <1>6 DEF ReplyFails, Unreliable
<1>8. SameButPwdh0(Shows(mem, 1), before[1]) BY <1>1, <1>2, ShowsConfig
<1>9. \A p : PageWritable(Shows(mem, 1), p) = PageWritable(before[1], p) BY <1>8, SameLayout
<1>10. Disarmed(session).state = "authed" BY <1>1, <1>4 DEF Disarmed, Session
<1>11. plan' \in Seq(Step) BY <1>3, ReadConfigType DEF TypeOK, StepTypeOK
<1>12. pc \in SetupPoints /\ pc # "probe" BY DEF SetupPoints
<1>13. CASE call.op = "em4100" /\ PlanEm4100(Shows(mem, 1), Disarmed(session))
  <2>1. /\ PageLocked(Parse(Shows(mem, 1)), 4) <=> ~PageWritable(before[1], 4)
        /\ PageLocked(Parse(Shows(mem, 1)), 5) <=> ~PageWritable(before[1], 5)
    <3>1. \A p \in {4, 5} : PageWritable(Shows(mem, 1), p) <=> ~PageLocked(Parse(Shows(mem, 1)), p)
      BY DEF PageWritable
    <3> QED BY <1>9, <3>1
  <2>2. CASE PageWritable(before[1], 4) /\ PageWritable(before[1], 5)
    <3>1. plan' = Em4100Plan(call) /\ Continue("step", Disarmed(session))
      BY <1>13, <2>1, <2>2 DEF PlanEm4100
    <3>2. plan' = PlanFor(call, before) BY <1>13, <3>1 DEF PlanFor
    <3>3. pc' = "step" /\ session'.state = "authed" BY <1>10, <3>1 DEF Continue
    <3> QED BY <1>4, <1>5, <1>11, <1>12, <1>13, <2>2, <3>2, <3>3, StepsBegin
  <2>3. CASE ~(PageWritable(before[1], 4) /\ PageWritable(before[1], 5))
    <3>1. Return("Error") BY <1>13, <2>1, <2>3 DEF PlanEm4100
    <3>2. pc' = "idle" /\ result' = "Error" BY <3>1 DEF Return
    <3>3. Reachable(call, before) = {} BY <1>13, <2>3 DEF Reachable
    <3>4. 1 \in PagesOf(call, before) BY <1>13 DEF PagesOf
    <3>5. ~Succeeds(call, before) BY <1>13, <3>3, <3>4 DEF Succeeds
    <3> QED BY <1>1, <1>2, <1>5, <3>2, <3>3, <3>5, NothingChanged
  <2> QED BY <2>2, <2>3
<1>14. CASE call.op = "readAll" /\ plan' = ReadAllPlan(Shows(mem, 1), LastPage(config))
            /\ Continue("step", Disarmed(session))
  <2>1. LastPage(config) = LastPage(before[1]) BY <1>3, SameLayout
  <2>2. plan' = ReadAllPlan(before[1], LastPage(before[1])) BY <1>8, <1>14, <2>1, SamePlan
  <2>3. plan' = PlanFor(call, before) BY <1>14, <2>2 DEF PlanFor
  <2>4. pc' = "step" /\ session'.state = "authed" BY <1>10, <1>14 DEF Continue
  <2>5. /\ got'[0] = before[0] /\ got'[1] = Shows(before, 1)
        /\ \A p \in Pages \ {0, 1} : got'[p] = NoWord
    BY <1>1, <1>2, <1>4, <1>7, <1>14, PageFacts
  <2> QED BY <1>4, <1>5, <1>11, <1>12, <1>14, <2>3, <2>4, <2>5, StepsBegin
<1> QED BY <1>7, <1>13, <1>14 DEF PlanFrom
------------------------------------------------------------------------------
(* The steps of a call.                                                       *)

\* What a step of the plan finds.
LEMMA StepFacts ==
    ASSUME OrderedCalls, OutcomeInv, pc \in StepPoints, next \in DOMAIN plan
    PROVE  /\ plan = PlanFor(call, before) /\ PassesUpTo(call, before, plan, next)
           /\ uid = before[0] /\ Reached(call, before) /\ Admitted(call, before)
           /\ session.state = "authed"
           /\ Current = plan[next] /\ Current \in Step
           /\ Current.page \in Pages /\ Current.value \in Word
           /\ Done(plan, before, next + 1) =
                  IF PageWritable(before[1], Current.page)
                  THEN Done(plan, before, next) \cup {Current.page}
                  ELSE Done(plan, before, next)
<1>1. plan \in Seq(Step) BY CallFacts
<1>2. StepTypeOK BY DEF OutcomeInv, RefusalInv, SetupInv, TypeOK
<1>3. Current \in Step /\ Current.page \in Pages /\ Current.value \in Word BY <1>2, CurrentType
<1>4. /\ plan = PlanFor(call, before) /\ PassesUpTo(call, before, plan, next)
      /\ uid = before[0] /\ Reached(call, before) /\ Admitted(call, before)
      /\ session.state = "authed"
  BY DEF OutcomeInv, OutcomeParts, StepsDone, Connected, StepPoints
<1> QED BY <1>1, <1>3, <1>4, DoneNext DEF Current

\* A step that writes belongs to a call that writes: it programs a page of its
\* job, or is one that a clone passes over.
LEMMA WriteStepFacts ==
    ASSUME OrderedCalls, OutcomeInv, pc \in StepPoints, next \in DOMAIN plan,
           Current.do # "read"
    PROVE  /\ Writing(call) /\ RightOrder(plan)
           /\ PageWritable(before[1], Current.page) => Current.value = ValueOf(call, Current.page)
           /\ mem = [p \in Pages |-> IF p \in Done(plan, before, Reach)
                                     THEN ValueOf(call, p) ELSE before[p]]
<1>1. call \in CallType /\ ProperCall(call) /\ (call.op = "write" => OrderedWrite(call))
  BY CallFacts
<1>2. plan = PlanFor(call, before) /\ Current = plan[next] BY StepFacts
<1>3. ~ReadOnly(call)
  BY <1>2, WritesAreNotReads DEF OutcomeInv, OrderInv, PromiseInv
<1>4. Writing(call) BY <1>1, <1>3 DEF Writing, ReadOnly, CallType, Ops
<1>5. /\ RightOrder(plan)
      /\ ~PageWritable(before[1], plan[next].page) \/ DoesJob(call, before, plan[next])
  BY <1>1, <1>2, <1>4, WritingPlan
<1>6. mem = [p \in Pages |-> IF p \in Done(plan, before, Reach)
                             THEN ValueOf(call, p) ELSE before[p]]
  BY <1>4 DEF OutcomeInv, OutcomeParts, StepsDone
<1> QED BY <1>2, <1>4, <1>5, <1>6 DEF DoesJob

\* The tag refuses the page of a step exactly if it would have when the call
\* began: once page 1 is written only page 0 follows.
LEMMA LocksAsBefore ==
    ASSUME OrderedCalls, OutcomeInv, pc = "step", next \in DOMAIN plan, Current.do # "read"
    PROVE  PageWritable(mem[1], Current.page) <=> PageWritable(before[1], Current.page)
<1>1. /\ RightOrder(plan)
      /\ mem = [p \in Pages |-> IF p \in Done(plan, before, Reach)
                                THEN ValueOf(call, p) ELSE before[p]]
  BY WriteStepFacts DEF StepPoints
<1>2. Reach = next BY DEF Reach
<1>3. CASE 1 \notin Done(plan, before, next)
  <2>1. mem[1] = before[1] BY <1>1, <1>2, <1>3, PageFacts
  <2> QED BY <2>1
<1>4. CASE 1 \in Done(plan, before, next)
  <2>1. PICK j \in DOMAIN plan : j < next /\ plan[j].page = 1 BY <1>4 DEF Done
  <2>2. Current.page = 0 BY <1>1, <2>1 DEF RightOrder, Current
  <2>3. PageWritable(mem[1], 0) /\ PageWritable(before[1], 0) BY UidIsWritable
  <2> QED BY <2>2, <2>3
<1> QED BY <1>3, <1>4

\* On to the next step.
LEMMA StepAdvances ==
    ASSUME OrderedCalls, OutcomeInv, pc \in StepPoints, next \in DOMAIN plan,
           UNCHANGED <<call, before, uid, plan>>,
           pc' = "step", next' = next + 1, session'.state = "authed",
           Passes(call, before, Current),
           Writing(call) =>
               mem' = [p \in Pages |-> IF p \in Done(plan, before, next + 1)
                                      THEN ValueOf(call, p) ELSE before[p]],
           call.op = "wipe" => wiped' = Cardinality(Done(plan, before, next + 1)),
           call.op = "readAll" => DumpSoFar'
    PROVE  OutcomeParts'
<1>1. /\ plan = PlanFor(call, before) /\ PassesUpTo(call, before, plan, next)
      /\ uid = before[0] /\ Reached(call, before) /\ Admitted(call, before)
      /\ Current = plan[next]
  BY StepFacts
<1>2. plan \in Seq(Step) BY CallFacts
<1>3. PassesUpTo(call, before, plan, next + 1) BY <1>1, <1>2, PassesNext
<1>4. Connected' BY <1>1 DEF Connected, StepPoints, Reached, Admitted
<1>5. Reach' = next + 1 BY DEF Reach
<1>6. StepsDone' BY <1>1, <1>3, <1>5 DEF StepsDone, SetupPoints
<1>7. DumpSoFar' BY DEF DumpSoFar
<1> QED BY <1>4, <1>6, <1>7, GoesOn DEF OutcomeParts

\* A locked page is passed over.
LEMMA SkipLockedOutcome ==
    ASSUME ~Lossy, ~Noise, OrderedCalls, OutcomeInv, SkipLocked PROVE OutcomeParts'
<1> USE DEF SkipLocked
<1>1. plan \in Seq(Step) /\ next \in Nat \ {0} BY CallFacts
<1>2. pc \in StepPoints /\ next \in DOMAIN plan BY <1>1 DEF StepPoints
<1>3. UNCHANGED <<call, before, uid, plan, mem, wiped>> BY DEF callVars, authVars
<1>4. /\ call.op = "clone" /\ Current.page > 3
      /\ ~PageWritable(config, Current.page) /\ SameButPwdh0(config, before[1])
  BY <1>2 DEF Skipped, OutcomeInv, RefusalInv, SetupInv, SetupParts, ConfigKnown
<1>5. ~PageWritable(before[1], Current.page) BY <1>4, SameLayout
<1>6. /\ session.state = "authed"
      /\ Done(plan, before, next + 1) = Done(plan, before, next)
  BY <1>2, <1>5, StepFacts
<1>7. pc' = "step" /\ next' = next + 1 /\ session' = session BY DEF Advance, Continue
<1>8. Passes(call, before, Current) BY <1>4 DEF Passes, Verified
<1>9. mem = [p \in Pages |-> IF p \in Done(plan, before, next + 1)
                             THEN ValueOf(call, p) ELSE before[p]]
  <2>1. Reach = next BY DEF Reach
  <2>2. Writing(call) BY <1>4 DEF Writing
  <2> QED BY <1>2, <1>6, <2>1, <2>2 DEF OutcomeInv, OutcomeParts, StepsDone
<1> QED BY <1>2, <1>3, <1>4, <1>6, <1>7, <1>8, <1>9, StepAdvances
\* A page refused ends a write and a clone, which have then done what they can,
\* and sends a wipe on to its next page.
LEMMA RefusedStep ==
    ASSUME ~Lossy, ~Noise, OrderedCalls, OutcomeInv, pc = "step", next \in DOMAIN plan,
           Current.do # "read", ~Skipped(Current), ~PageWritable(before[1], Current.page),
           UNCHANGED <<call, before, uid, plan, mem, wiped>>,
           NEW r \in Failures, NEW s, s.state = "authed", StepFails(r, s)
    PROVE  OutcomeParts'
<1>1. /\ call \in CallType /\ ProperCall(call) /\ (call.op = "write" => OrderedWrite(call))
      /\ before \in Memory /\ plan \in Seq(Step)
  BY CallFacts
<1>2. /\ plan = PlanFor(call, before) /\ PassesUpTo(call, before, plan, next)
      /\ Reached(call, before) /\ Admitted(call, before)
      /\ Current = plan[next] /\ Current.page \in Pages
      /\ Done(plan, before, next + 1) = Done(plan, before, next)
  BY StepFacts DEF StepPoints
<1>3. /\ Writing(call)
      /\ mem = [p \in Pages |-> IF p \in Done(plan, before, Reach)
                                THEN ValueOf(call, p) ELSE before[p]]
  BY WriteStepFacts DEF StepPoints
<1>4. Reach = next BY DEF Reach
<1>5. CASE call.op = "wipe"
  <2>1. pc' = "step" /\ next' = next + 1 /\ session' = s
    BY <1>5 DEF StepFails, Advance, Continue
  <2>2. Passes(call, before, Current) BY <1>5 DEF Passes, Verified
  <2>3. wiped = Cardinality(Done(plan, before, next))
    BY <1>5 DEF OutcomeInv, OutcomeParts, StepsDone, StepPoints
  <2> QED BY <1>2, <1>3, <1>4, <1>5, <2>1, <2>2, <2>3, StepAdvances DEF StepPoints
<1>6. CASE call.op \in {"write", "em4100", "clone"}
  <2>1. Return(r) BY <1>6 DEF StepFails
  <2>2. pc' = "idle" /\ result' # "Ok" BY <2>1 DEF Return, Failures
  <2>3. call.op = "clone" => Current.page <= 3
    <3>1. SameButPwdh0(config, before[1])
      BY DEF OutcomeInv, RefusalInv, SetupInv, SetupParts, ConfigKnown, StepPoints
    <3>2. ~PageWritable(config, Current.page) BY <3>1, SameLayout
    <3>3. call.op = "clone" => ~(Current.page > 3) BY <3>2 DEF Skipped
    <3>4. Current.page \in Nat BY <1>2, PageFacts
    <3> QED BY <3>3, <3>4
  <2>4. /\ Done(plan, before, next) = Reachable(call, before)
        /\ Reachable(call, before) # PagesOf(call, before)
    BY <1>1, <1>2, <1>6, <2>3, StoppedCall
  <2>5. ~Succeeds(call, before) BY <1>6, <2>4 DEF Succeeds
  <2> QED BY <1>1, <1>2, <1>3, <1>4, <1>6, <2>2, <2>4, <2>5, ReachableChanged
<1> QED BY <1>3, <1>5, <1>6 DEF Writing

\* A command frame is acknowledged exactly for a page the tag lets be written.
LEMMA WriteCommandOutcome ==
    ASSUME ~Lossy, ~Noise, OrderedCalls, OutcomeInv, WriteCommand PROVE OutcomeParts'
<1> USE DEF WriteCommand
<1>1. PICK x \in Frame(HearsWritePage(mem, session, Current.page)) : \E a \in Decoded(x.answer) :
        \/ a = "ack"  /\ Continue("data", x.session) /\ UNCHANGED next
        \/ a = "nack" /\ StepFails("Nack", x.session)
        \/ a = "none" /\ StepFails("Timeout", x.session)
  OBVIOUS
<1>2. /\ plan \in Seq(Step) /\ next \in Nat \ {0} /\ mem \in Memory /\ session \in Session
  BY CallFacts
<1>3. /\ pc = "step" /\ pc \in StepPoints /\ next \in DOMAIN plan
      /\ Current.do # "read" /\ ~Skipped(Current)
  BY <1>2 DEF StepPoints
<1>4. UNCHANGED <<call, before, uid, plan, mem, wiped>> BY DEF callVars, authVars
<1>5. /\ plan = PlanFor(call, before) /\ PassesUpTo(call, before, plan, next)
      /\ uid = before[0] /\ Reached(call, before) /\ Admitted(call, before)
      /\ session.state = "authed" /\ Current.page \in Pages
  BY <1>3, StepFacts
<1>6. PageWritable(mem[1], Current.page) <=> PageWritable(before[1], Current.page)
  BY <1>3, LocksAsBefore
<1>7. x \in HearsWritePage(mem, session, Current.page) BY <1>5 DEF Frame, Listening
<1>8. Decoded(x.answer) = {x.answer} BY DEF Decoded
<1>9. CASE PageWritable(before[1], Current.page)
  <2>1. x = React(mem, [session EXCEPT !.armed = Current.page], "ack")
    BY <1>5, <1>6, <1>7, <1>9 DEF HearsWritePage, Accepts
  <2>2. /\ x.answer = "ack" /\ x.session.state = "authed"
        /\ x.session.armed = Current.page
    BY <1>2, <1>5, <2>1 DEF React, Session
  <2>3. Continue("data", x.session) /\ UNCHANGED next BY <1>1, <1>8, <2>2
  <2>4. /\ pc' = "data" /\ session' = x.session BY <2>3 DEF Continue
  <2>5. Current' = Current BY <1>4, <2>3 DEF Current
  <2>6. Connected' BY <1>4, <1>5, <1>9, <2>2, <2>4, <2>5 DEF Connected, Reached, Admitted
  <2>7. Reach' = Reach BY <1>3, <2>3, <2>4 DEF Reach
  <2>8. StepsDone'
    BY <1>3, <1>4, <2>3, <2>4, <2>7 DEF OutcomeInv, OutcomeParts, StepsDone, StepPoints, SetupPoints
  <2>9. DumpSoFar'
    <3>1. call.op # "readAll" BY <1>3, WriteStepFacts DEF Writing
    <3> QED BY <1>4, <3>1 DEF DumpSoFar
  <2> QED BY <2>4, <2>6, <2>8, <2>9, GoesOn DEF OutcomeParts
<1>10. CASE ~PageWritable(before[1], Current.page)
  <2>1. Current.page # AuthPage BY <1>5, PageFacts
  <2>2. \E a \in {"nack", "none"} : x = React(mem, Disarmed(session), a)
    BY <1>6, <1>7, <1>10, <2>1 DEF HearsWritePage, Accepts
  <2>3. x.answer \in {"nack", "none"} /\ x.session = Disarmed(session) BY <2>2 DEF React
  <2>4. x.session.state = "authed" BY <1>2, <1>5, <2>3 DEF Disarmed, Session
  <2>5. \E r \in {"Nack", "Timeout"} : StepFails(r, x.session) BY <1>1, <1>8, <2>3
  <2> QED BY <1>3, <1>4, <1>10, <2>4, <2>5, RefusedStep DEF Failures
<1> QED BY <1>9, <1>10
\* A page programmed joins those that are done.
LEMMA PageProgrammed ==
    ASSUME NEW m \in Memory, NEW S, NEW c, NEW p \in Pages, NEW w \in Word,
           w = ValueOf(c, p), NEW b,
           m = [q \in Pages |-> IF q \in S THEN ValueOf(c, q) ELSE b[q]]
    PROVE  [m EXCEPT ![p] = w] =
           [q \in Pages |-> IF q \in S \cup {p} THEN ValueOf(c, q) ELSE b[q]]
OBVIOUS

\* A wipe counts the page: it has not been there before.
LEMMA OneMoreWiped ==
    ASSUME OrderedCalls, OutcomeInv, pc \in StepPoints, next \in DOMAIN plan,
           call.op = "wipe", PageWritable(before[1], Current.page)
    PROVE  Cardinality(Done(plan, before, next + 1)) = wiped + 1
<1>1. /\ plan = PlanFor(call, before) /\ Current = plan[next]
      /\ Done(plan, before, next + 1) = Done(plan, before, next) \cup {Current.page}
  BY StepFacts
<1>2. plan \in Seq(Step) BY CallFacts
<1>3. wiped = Cardinality(Done(plan, before, next))
  BY DEF OutcomeInv, OutcomeParts, StepsDone
<1>4. \A i, j \in DOMAIN plan : plan[i].page = plan[j].page => i = j
  <2>1. plan = WipePlan(LastPage(before[1])) BY <1>1 DEF PlanFor
  <2>2. LastPage(before[1]) \in 5..TopPage BY LastPageType
  <2> QED BY <2>1, <2>2, WipeCovers
<1>5. Current.page \notin Done(plan, before, next)
  <2>1. DOMAIN plan = 1..Len(plan) /\ Len(plan) \in Nat BY <1>2
  <2> QED BY <1>1, <1>4, <2>1 DEF Done
<1>6. Done(plan, before, next) \subseteq Pages
  <2>1. \A j \in DOMAIN plan : plan[j] \in Step BY <1>2
  <2> QED BY <2>1 DEF Done, Step
<1>7. IsFiniteSet(Done(plan, before, next)) BY <1>6, PagesAreFinite
<1>8. Cardinality(Done(plan, before, next) \cup {Current.page})
          = Cardinality(Done(plan, before, next)) + 1
  BY <1>5, <1>7, FS_AddElement
<1> QED BY <1>1, <1>3, <1>8, Zenon

\* A wipe reads nothing back.
LEMMA WipeDoes ==
    ASSUME NEW top \in 5..TopPage, NEW j \in DOMAIN WipePlan(top)
    PROVE  WipePlan(top)[j].do = "write"
<1> DEFINE each == DataPages("write", top, ZeroWord)
<1> DEFINE last == << PageStep("write", 2, DefaultPassword), PageStep("write", 3, ZeroWord),
                      PageStep("write", 1, WipeConfig) >>
<1> DEFINE W == {s \in Step : s.do = "write"}
<1>1. \A p \in Pages, v \in Word : PageStep("write", p, v) \in W
  BY DEF PageStep, Step
<1>2. each \in Seq(W)
  <2>1. \A i \in 1..(top - 3) : PageStep("write", i + 3, ZeroWord) \in W
    BY <1>1, ConstantWords, TopPageAssumption DEF Pages
  <2> HIDE DEF W
  <2> QED BY <2>1, TopPageAssumption DEF DataPages
<1>3. last \in Seq(W)
  <2>1. /\ PageStep("write", 2, DefaultPassword) \in W /\ PageStep("write", 3, ZeroWord) \in W
        /\ PageStep("write", 1, WipeConfig) \in W
    BY <1>1, ConstantWords, PageFacts
  <2> HIDE DEF W
  <2> QED BY <2>1
<1>4. WipePlan(top) = each \o last BY DEF WipePlan
<1> HIDE DEF each, last, W
<1>5. WipePlan(top) \in Seq(W) BY <1>2, <1>3, <1>4
<1>6. WipePlan(top)[j] \in W BY <1>5
<1> QED BY <1>6 DEF W

\* The data frame programs the page it was announced for, and no other.
LEMMA WriteDataOutcome ==
    ASSUME ~Lossy, ~Noise, OrderedCalls, OutcomeInv, WriteData PROVE OutcomeParts'
<1> USE DEF WriteData
<1>1. PICK x \in Frame(HearsData(mem, session, Current.value)) : \E a \in Decoded(x.answer) :
        /\ mem' = x.mem
        /\ \/ a \in {"ack", "none"} /\ Written(x.session)
           \/ a = "nack" /\ StepFails("Nack", x.session) /\ UNCHANGED wiped
  OBVIOUS
<1>2. /\ plan \in Seq(Step) /\ next \in Nat \ {0} /\ mem \in Memory /\ session \in Session
      /\ before \in Memory /\ wiped \in Nat
  BY CallFacts
<1>3. /\ pc = "data" /\ pc \in StepPoints /\ next \in DOMAIN plan /\ Current.do # "read"
  BY DEF StepPoints, OutcomeInv, RefusalInv, SetupInv, TypeOK, StepTypeOK, Current
<1>4. UNCHANGED <<call, before, uid, plan>> BY DEF callVars, authVars
<1>5. /\ plan = PlanFor(call, before) /\ PassesUpTo(call, before, plan, next)
      /\ uid = before[0] /\ Reached(call, before) /\ Admitted(call, before)
      /\ session.state = "authed" /\ Current.page \in Pages /\ Current.value \in Word
  BY <1>3, StepFacts
<1>6. PageWritable(before[1], Current.page) /\ session.armed = Current.page
  BY DEF OutcomeInv, OutcomeParts, Connected
<1>7. /\ Writing(call) /\ Current.value = ValueOf(call, Current.page)
      /\ mem = [p \in Pages |-> IF p \in Done(plan, before, Reach)
                                THEN ValueOf(call, p) ELSE before[p]]
  BY <1>3, <1>6, WriteStepFacts
<1>8. x = React([mem EXCEPT ![Current.page] = Current.value], Disarmed(session), "ack")
  <2>1. session.armed # AuthPage /\ session.armed \in Pages BY <1>5, <1>6, PageFacts
  <2>2. x \in HearsData(mem, session, Current.value) BY <1>5 DEF Frame, Listening
  <2> QED BY <1>6, <2>1, <2>2 DEF HearsData
<1>9. /\ x.answer = "ack" /\ x.session.state = "authed"
      /\ x.mem = [mem EXCEPT ![Current.page] = Current.value]
  BY <1>2, <1>5, <1>8 DEF React, Disarmed, Session
<1>10. Decoded(x.answer) = {"ack"} BY <1>9 DEF Decoded
<1>11. Written(x.session) /\ mem' = [mem EXCEPT ![Current.page] = Current.value]
  BY <1>1, <1>9, <1>10
<1>12. Done(plan, before, next + 1) = Done(plan, before, next) \cup {Current.page}
  BY <1>3, <1>6, StepFacts
<1>13. Reach = next BY <1>3 DEF Reach
<1>14. mem' = [p \in Pages |-> IF p \in Done(plan, before, next + 1)
                              THEN ValueOf(call, p) ELSE before[p]]
  BY <1>2, <1>5, <1>7, <1>11, <1>12, <1>13, PageProgrammed
<1>15. call.op # "readAll" BY <1>7 DEF Writing
<1>16. CASE Current.do = "verify"
  <2>1. pc' = "readback" /\ session' = x.session /\ next' = next
    BY <1>11, <1>16 DEF Written, Continue
  <2>2. call.op = "wipe" => FALSE
    <3>1. ASSUME call.op = "wipe" PROVE FALSE
      <4>1. plan = WipePlan(LastPage(before[1])) BY <1>5, <3>1 DEF PlanFor
      <4>2. Current.do = "write" BY <1>3, <4>1, WipeDoes, LastPageType DEF Current
      <4> QED BY <1>16, <4>2
    <3> QED BY <3>1
  <2>3. Current' = Current BY <1>4, <2>1 DEF Current
  <2>4. Connected'
    BY <1>4, <1>5, <1>6, <1>9, <2>1, <2>2, <2>3 DEF Connected, Reached, Admitted, StepPoints
  <2>5. Reach' = next + 1 BY <2>1 DEF Reach
  <2>6. StepsDone' BY <1>4, <1>5, <1>14, <2>1, <2>2, <2>5 DEF StepsDone, SetupPoints
  <2>7. DumpSoFar' BY <1>4, <1>15 DEF DumpSoFar
  <2> QED BY <2>1, <2>4, <2>6, <2>7, GoesOn DEF OutcomeParts
<1>17. CASE Current.do # "verify"
  <2>1. pc' = "step" /\ session' = x.session /\ next' = next + 1
    BY <1>11, <1>17 DEF Written, Advance, Continue
  <2>2. Passes(call, before, Current) BY <1>6, <1>7 DEF Passes, Writing
  <2>3. call.op = "wipe" => wiped' = Cardinality(Done(plan, before, next + 1))
    BY <1>3, <1>6, <1>11, OneMoreWiped DEF Written
  <2> QED BY <1>3, <1>4, <1>9, <1>14, <1>15, <2>1, <2>2, <2>3, StepAdvances
<1> QED BY <1>16, <1>17
\* The read-back of a page finds what was programmed.
LEMMA ReadBackOutcome ==
    ASSUME ~Lossy, ~Noise, OrderedCalls, OutcomeInv, ReadBack PROVE OutcomeParts'
<1> USE DEF ReadBack
<1>1. /\ plan \in Seq(Step) /\ next \in Nat \ {0} /\ mem \in Memory /\ session \in Session
      /\ before \in Memory
  BY CallFacts
<1>2. /\ pc = "readback" /\ pc \in StepPoints /\ next \in DOMAIN plan /\ Current.do # "read"
  BY DEF StepPoints, OutcomeInv, RefusalInv, SetupInv, TypeOK, StepTypeOK, Current
<1>3. UNCHANGED <<call, before, uid, plan, mem, wiped>> BY DEF callVars, authVars
<1>4. /\ plan = PlanFor(call, before) /\ Current = plan[next]
      /\ session.state = "authed" /\ Current.page \in Pages /\ Current.value \in Word
  BY <1>2, StepFacts
<1>5. PageWritable(before[1], Current.page) BY DEF OutcomeInv, OutcomeParts, Connected
<1>6. /\ Writing(call) /\ RightOrder(plan) /\ Current.value = ValueOf(call, Current.page)
      /\ mem = [p \in Pages |-> IF p \in Done(plan, before, Reach)
                                THEN ValueOf(call, p) ELSE before[p]]
  BY <1>2, <1>5, WriteStepFacts
<1>7. Reach = next + 1 BY DEF Reach
<1>8. Done(plan, before, next + 1) = Done(plan, before, next) \cup {Current.page}
  BY <1>2, <1>5, StepFacts
<1>9. mem[Current.page] = Current.value BY <1>4, <1>6, <1>7, <1>8
<1>10. Readable(mem, session, Current.page)
  <2>1. SUFFICES ASSUME Current.page \in {2, 3}, Parse(mem[1]).LKP = 1 PROVE FALSE
    BY <1>4 DEF Readable
  <2>2. Parse(before[1]).LKP = 0 BY <1>5, <2>1 DEF PageWritable
  <2>3. 1 \notin Done(plan, before, next + 1)
    <3>1. SUFFICES ASSUME NEW j \in DOMAIN plan, j < next, plan[j].page = 1 PROVE FALSE
      BY <1>8, <2>1 DEF Done
    <3> QED BY <1>2, <1>4, <1>6, <2>1, <3>1 DEF RightOrder
  <2>4. mem[1] = before[1] BY <1>6, <1>7, <2>3, PageFacts
  <2> QED BY <2>1, <2>2, <2>4
<1>11. Verifies(Current.page, Shows(mem, Current.page), Current.value)
  BY <1>1, <1>4, <1>9, ShowsPage DEF Verifies
<1>12. Advance(Disarmed(session)) BY <1>10, <1>11 DEF ReplyFails, Unreliable
<1>13. pc' = "step" /\ next' = next + 1 /\ session'.state = "authed"
  BY <1>1, <1>4, <1>12 DEF Advance, Continue, Disarmed, Session
<1>14. Passes(call, before, Current) BY <1>5, <1>6 DEF Passes, Writing
<1>15. call.op # "readAll" /\ call.op # "wipe"
  BY <1>6 DEF Writing, OutcomeInv, OutcomeParts, Connected
<1> QED BY <1>2, <1>3, <1>6, <1>7, <1>13, <1>14, <1>15, StepAdvances

\* A page read is marked; one the tag hides ends a read, and a dump goes on.
LEMMA ReadPageOutcome ==
    ASSUME ~Lossy, ~Noise, OrderedCalls, OutcomeInv, ReadPage PROVE OutcomeParts'
<1> USE DEF ReadPage
<1>1. /\ plan \in Seq(Step) /\ next \in Nat \ {0} /\ mem \in Memory /\ session \in Session
      /\ before \in Memory /\ call \in CallType /\ ProperCall(call)
      /\ (call.op = "write" => OrderedWrite(call)) /\ got \in [Pages -> Word \cup {NoWord}]
  BY CallFacts
<1>2. /\ pc = "step" /\ pc \in StepPoints /\ next \in DOMAIN plan /\ Current.do = "read"
  BY <1>1 DEF StepPoints
<1>3. UNCHANGED <<call, before, uid, plan, mem, wiped>> BY DEF callVars, authVars
<1>4. /\ plan = PlanFor(call, before) /\ PassesUpTo(call, before, plan, next)
      /\ Reached(call, before) /\ Admitted(call, before) /\ Current = plan[next]
      /\ session.state = "authed" /\ Current.page \in Pages /\ Current.value \in Word
  BY <1>2, StepFacts
<1>5. ~Writing(call) BY <1>1, <1>2, <1>4, WritingPlan
<1>6. call.op \in {"read", "readAll"}
  BY <1>1, <1>2, <1>4, <1>5 DEF PlanFor, CallType, Ops, Writing
<1>7. mem = before
  BY <1>6 DEF OutcomeInv, OrderInv, PromiseInv, ReadingInv, ReadingParts, ReadsOnly, ReadOnly
<1>8. Readable(mem, session, Current.page) <=> CanRead(before, Current.page)
  BY <1>4, <1>7 DEF Readable, CanRead
<1>9. /\ session' \in {session, Disarmed(session)} => session'.state = "authed"
      /\ Disarmed(session).state = "authed"
  BY <1>1, <1>4 DEF Disarmed, Session
<1>10. DOMAIN plan = 1..Len(plan) /\ Len(plan) \in Nat BY <1>1
<1>11. call.op = "readAll" =>
          \A p \in Pages :
              got[p] = IF p \in {0, 1}
                          \/ /\ \E j \in DOMAIN plan : j < next /\ plan[j].page = p
                             /\ CanRead(before, p)
                       THEN Shows(before, p) ELSE NoWord
  BY <1>2 DEF OutcomeInv, OutcomeParts, DumpSoFar
<1>12. \A p : (\E j \in DOMAIN plan : j < next + 1 /\ plan[j].page = p)
              <=> p = Current.page \/ \E j \in DOMAIN plan : j < next /\ plan[j].page = p
  <2>1. \A j \in DOMAIN plan : j < next + 1 <=> j = next \/ j < next BY <1>1, <1>10
  <2> QED BY <1>2, <1>4, <2>1
<1>13. CASE CanRead(before, Current.page)
  <2>1. got' = Keep(Current.page) /\ Advance(Disarmed(session))
    BY <1>8, <1>13 DEF ReplyFails, Unreliable
  <2>2. pc' = "step" /\ next' = next + 1 /\ session'.state = "authed"
    BY <1>9, <2>1 DEF Advance, Continue
  <2>3. Passes(call, before, Current) BY <1>6, <1>13 DEF Passes, Verified
  <2>4. call.op = "readAll" => DumpSoFar'
    <3>1. \A p \in Pages : got'[p] = IF p = Current.page THEN Shows(before, p) ELSE got[p]
      BY <1>1, <1>4, <1>7, <2>1 DEF Keep
    <3>2. SUFFICES ASSUME call.op = "readAll", NEW p \in Pages
                   PROVE  got'[p] = IF p \in {0, 1}
                                       \/ /\ \E j \in DOMAIN plan : j < next + 1 /\ plan[j].page = p
                                          /\ CanRead(before, p)
                                    THEN Shows(before, p) ELSE NoWord
      BY <1>3, <2>2 DEF DumpSoFar
    <3>3. CASE p = Current.page BY <1>12, <1>13, <3>1, <3>3
    <3>4. CASE p # Current.page BY <1>11, <1>12, <3>1, <3>2, <3>4
    <3> QED BY <3>3, <3>4
  <2>5. call.op # "wipe" BY <1>6
  <2> QED BY <1>2, <1>3, <1>5, <2>2, <2>3, <2>4, <2>5, StepAdvances
<1>14. CASE ~CanRead(before, Current.page)
  <2>1. PICK r \in Failures, s \in {session, Disarmed(session)} : StepFails(r, s) /\ got' = got
    BY <1>8, <1>14 DEF ReplyFails
  <2>2. CASE call.op = "readAll"
    <3>1. pc' = "step" /\ next' = next + 1 /\ session'.state = "authed"
      BY <1>4, <1>9, <2>1, <2>2 DEF StepFails, Advance, Continue
    <3>2. Passes(call, before, Current) BY <2>2 DEF Passes, Verified
    <3>3. DumpSoFar'
      <4>1. SUFFICES ASSUME NEW p \in Pages
                     PROVE  got[p] = IF p \in {0, 1}
                                        \/ /\ \E j \in DOMAIN plan : j < next + 1 /\ plan[j].page = p
                                           /\ CanRead(before, p)
                                     THEN Shows(before, p) ELSE NoWord
        BY <1>3, <2>1, <3>1 DEF DumpSoFar
      <4>2. CASE p = Current.page BY <1>11, <1>12, <1>14, <2>2, <4>2
      <4>3. CASE p # Current.page BY <1>11, <1>12, <2>2, <4>3
      <4> QED BY <4>2, <4>3
    <3>4. call.op # "wipe" BY <2>2
    <3> QED BY <1>2, <1>3, <1>5, <3>1, <3>2, <3>3, <3>4, StepAdvances
  <2>3. CASE call.op = "read"
    <3>1. Return(r) BY <2>1, <2>3 DEF StepFails
    <3>2. pc' = "idle" /\ result' # "Ok" BY <3>1 DEF Return, Failures
    <3>3. ~Succeeds(call, before)
      <4>1. plan = EachPage("read", call.data) BY <1>4, <2>3 DEF PlanFor, ReadPlan
      <4>2. DOMAIN call.data = DOMAIN plan
        <5>1. Len(plan) = Len(call.data) /\ DOMAIN call.data = 1..Len(call.data)
          BY <1>1, <4>1, ItemSteps
        <5> QED BY <1>10, <5>1
      <4>3. plan[next].page = call.data[next].page
        <5>1. next \in 1..Len(call.data) BY <1>1, <1>2, <4>2, ItemSteps
        <5> QED BY <1>1, <4>1, <5>1, ItemSteps
      <4>4. ~CanRead(before, call.data[next].page) /\ next \in DOMAIN call.data
        BY <1>2, <1>4, <1>14, <4>2, <4>3
      <4> QED BY <2>3, <4>4 DEF Succeeds, CanRead
    <3>4. ReadOnly(call) /\ mem' = before BY <1>3, <1>7, <2>3 DEF ReadOnly
    <3> QED BY <1>1, <1>3, <3>2, <3>3, <3>4, NothingToChange
  <2> QED BY <1>6, <2>2, <2>3
<1> QED BY <1>13, <1>14
\* A call that has all its steps behind it has done what it promises.
LEMMA FinishOutcome ==
    ASSUME ~Lossy, ~Noise, OrderedCalls, OutcomeInv, Finish PROVE OutcomeParts'
<1> USE DEF Finish
<1>1. /\ plan \in Seq(Step) /\ next \in Nat \ {0} /\ before \in Memory
      /\ call \in CallType /\ ProperCall(call) /\ (call.op = "write" => OrderedWrite(call))
  BY CallFacts
<1>2. /\ plan = PlanFor(call, before) /\ PassesUpTo(call, before, plan, next)
      /\ Reached(call, before) /\ Admitted(call, before) /\ call.op # "readUid"
  BY DEF OutcomeInv, OutcomeParts, StepsDone, Connected, StepPoints, RefusalInv, SetupInv,
         SetupParts, UidOnly
<1>3. UNCHANGED <<call, before, mem, got, wiped>> BY DEF callVars, stepVars
<1>4. pc' = "idle" /\ result' = "Ok" BY DEF Return
<1>5. \A j \in DOMAIN plan : j < next
  <2>1. DOMAIN plan = 1..Len(plan) /\ Len(plan) \in Nat BY <1>1
  <2> QED BY <1>1, <2>1
<1>6. CASE Writing(call)
  <2>1. mem = [p \in Pages |-> IF p \in Done(plan, before, next)
                               THEN ValueOf(call, p) ELSE before[p]]
    <3>1. Reach = next BY DEF Reach
    <3> QED BY <1>6, <3>1 DEF OutcomeInv, OutcomeParts, StepsDone, StepPoints
  <2>2. /\ Done(plan, before, next) = Reachable(call, before)
        /\ call.op # "wipe" => Reachable(call, before) = PagesOf(call, before)
    BY <1>1, <1>2, <1>5, <1>6, FinishedCall
  <2>3. Succeeds(call, before) BY <1>2, <1>6, <2>2 DEF Succeeds, Writing
  <2>4. call.op = "wipe" => wiped' = Cardinality(Reachable(call, before))
    BY <1>3, <2>2 DEF OutcomeInv, OutcomeParts, StepsDone, StepPoints
  <2> QED BY <1>1, <1>2, <1>3, <1>4, <1>6, <2>1, <2>2, <2>3, <2>4, ReachableChanged
<1>7. CASE call.op = "read"
  <2>1. \A i \in DOMAIN call.data : CanRead(before, call.data[i].page)
    <3>1. plan = EachPage("read", call.data) BY <1>2, <1>7 DEF PlanFor, ReadPlan
    <3>2. SUFFICES ASSUME NEW i \in DOMAIN call.data PROVE CanRead(before, call.data[i].page)
      OBVIOUS
    <3>3. i \in 1..Len(call.data) BY <1>1, ItemSteps
    <3>4. plan[i].page = call.data[i].page BY <1>1, <3>1, <3>3, ItemSteps
    <3>5. i \in DOMAIN plan
      <4>1. Len(plan) = Len(call.data) BY <1>1, <3>1, ItemSteps
      <4> QED BY <1>1, <3>3, <4>1
    <3>6. Passes(call, before, plan[i]) BY <1>2, <1>5, <3>5 DEF PassesUpTo
    <3> QED BY <1>7, <3>4, <3>6 DEF Passes
  <2>2. Succeeds(call, before) BY <1>2, <1>7, <2>1 DEF Succeeds, CanRead
  <2>3. ReadOnly(call) BY <1>7 DEF ReadOnly
  <2>4. mem' = before
    BY <1>3, <2>3 DEF OutcomeInv, OrderInv, PromiseInv, ReadingInv, ReadingParts, ReadsOnly
  <2> QED BY <1>1, <1>3, <1>4, <1>7, <2>2, <2>3, <2>4, NothingToChange
<1>8. CASE call.op = "readAll"
  <2>1. Succeeds(call, before) BY <1>2, <1>8 DEF Succeeds
  <2>2. ReadOnly(call) BY <1>8 DEF ReadOnly
  <2>3. mem' = before
    BY <1>3, <2>2 DEF OutcomeInv, OrderInv, PromiseInv, ReadingInv, ReadingParts, ReadsOnly
  <2>4. plan = ReadAllPlan(before[1], LastPage(before[1])) BY <1>2, <1>8 DEF PlanFor
  <2>5. ASSUME NEW p \in Pages
        PROVE  got[p] = IF p <= LastPage(before[1]) /\ CanRead(before, p)
                        THEN Shows(before, p) ELSE NoWord
    <3>1. got[p] = IF p \in {0, 1}
                      \/ /\ \E j \in DOMAIN plan : j < next /\ plan[j].page = p
                         /\ CanRead(before, p)
                   THEN Shows(before, p) ELSE NoWord
      BY <1>8 DEF OutcomeInv, OutcomeParts, DumpSoFar, StepPoints
    <3>2. CASE p \in {0, 1}
      <4>1. CanRead(before, p) BY <3>2 DEF CanRead, Readable
      <4>2. p <= LastPage(before[1])
        <5>1. LastPage(before[1]) \in 5..TopPage BY LastPageType
        <5> QED BY <3>2, <5>1, TopPageAssumption
      <4> QED BY <3>1, <3>2, <4>1, <4>2
    <3>3. CASE p \notin {0, 1}
      <4>1. CanRead(before, p) =>
                ((\E j \in DOMAIN plan : plan[j].page = p) <=> p <= LastPage(before[1]))
        BY <2>4, <3>3, DumpCovers
      <4> QED BY <1>5, <3>1, <3>3, <4>1
    <3> QED BY <3>2, <3>3
  <2> QED BY <1>1, <1>3, <1>4, <2>1, <2>2, <2>3, <2>5, NothingToChange
<1> QED BY <1>1, <1>2, <1>6, <1>7, <1>8 DEF CallType, Ops, Writing

------------------------------------------------------------------------------
(* The outcome of every call.                                                 *)

\* On a channel that loses and invents nothing what a call has done so far is
\* inductive.
LEMMA OutcomeInvStep ==
    ASSUME ~Lossy, ~Noise, OrderedCalls PROVE OutcomeInv /\ [Next]_vars => OutcomeInv'
<1> SUFFICES ASSUME OutcomeInv, [Next]_vars PROVE OutcomeInv' OBVIOUS
<1>1. OrderInv'
  <2>1. ChannelFits BY DEF ChannelFits
  <2> QED BY <2>1, OrderInvStep DEF OutcomeInv
<1>2. RefusalInv' BY RefusalInvStep DEF OutcomeInv
<1>3. OutcomeParts'
  <2>1. ASSUME NEW c \in Calls, Begin(c) PROVE OutcomeParts' BY <2>1, BeginOutcome
  <2>2. CASE Probe        BY <2>2, ProbeOutcome
  <2>3. CASE Select       BY <2>3, SelectOutcome
  <2>4. CASE AuthCommand  BY <2>4, AuthCommandOutcome
  <2>5. CASE AuthPassword BY <2>5, AuthPasswordOutcome
  <2>6. CASE ReadConfig   BY <2>6, ReadConfigOutcome
  <2>7. CASE SkipLocked   BY <2>7, SkipLockedOutcome
  <2>8. CASE WriteCommand BY <2>8, WriteCommandOutcome
  <2>9. CASE WriteData    BY <2>9, WriteDataOutcome
  <2>10. CASE ReadBack    BY <2>10, ReadBackOutcome
  <2>11. CASE ReadPage    BY <2>11, ReadPageOutcome
  <2>12. CASE Finish      BY <2>12, FinishOutcome
  <2>13. ~TagLeaves /\ ~TagReturns
    BY CallFacts DEF TagLeaves, TagReturns
  <2>14. CASE UNCHANGED vars
    <3>1. UNCHANGED <<mem, session, pc, call, before, uid, plan, next, got, wiped, result>>
      BY <2>14 DEF vars, tagVars, callVars, authVars, stepVars
    <3>2. Connected' BY <3>1 DEF OutcomeInv, OutcomeParts, Connected, Current
    <3>3. StepsDone' BY <3>1 DEF OutcomeInv, OutcomeParts, StepsDone, Reach
    <3>4. DumpSoFar' BY <3>1 DEF OutcomeInv, OutcomeParts, DumpSoFar
    <3>5. ReliableOutcome' BY <3>1 DEF OutcomeInv, OutcomeParts, ReliableOutcome, Returned
    <3> QED BY <3>2, <3>3, <3>4, <3>5 DEF OutcomeParts
  <2> QED
    BY <2>1, <2>2, <2>3, <2>4, <2>5, <2>6, <2>7, <2>8, <2>9, <2>10, <2>11, <2>12, <2>13, <2>14
       DEF Next, Reader
<1> QED BY <1>1, <1>2, <1>3 DEF OutcomeInv

\* With a tag that stays in the field and a channel that loses and invents
\* nothing, every call does to the tag exactly what Effect says and reports
\* success exactly when Succeeds says, a wipe counts the pages it could write
\* and a dump shows every page the tag lets it read: for every tag, every
\* memory size and every list of writes that names the configuration and the
\* UID last (the sequences of hitag_s_8268.c).
THEOREM CallsDoTheirEffect ==
    ASSUME ~Lossy, ~Noise, OrderedCalls PROVE Spec => []ReliableOutcome
<1>1. Init => OutcomeInv
  <2> SUFFICES ASSUME Init PROVE OutcomeInv OBVIOUS
  <2>1. PlanInOrder /\ ChangedBehind
    BY DEF Init, PlanInOrder, ChangedBehind, StepPoints
  <2>2. RefusalInv
    BY SetupInvInit DEF Init, RefusalInv, RefusalParts, RefusedSoFar, NackMeansUnknownPassword
  <2>3. OutcomeParts
    BY DEF Init, NoCall, OutcomeParts, Connected, StepsDone, DumpSoFar, ReliableOutcome,
           Returned, StepPoints, SetupPoints
  <2> QED BY <2>1, <2>2, <2>3, PromiseInvInit DEF OutcomeInv, OrderInv, OrderParts
<1>2. OutcomeInv /\ [Next]_vars => OutcomeInv' BY OutcomeInvStep
<1>3. OutcomeInv => ReliableOutcome BY DEF OutcomeInv, OutcomeParts
<1> QED BY <1>1, <1>2, <1>3, PTL DEF Spec

------------------------------------------------------------------------------
(* A dump on its way through a file to a clone.                               *)

\* What a loop from 0 has met before the n-th page.
Stages(S, n, f) ==
    f = [i \in 0..n |-> IF i = 0 THEN <<>>
                        ELSE IF i - 1 \in S THEN Append(f[i - 1], i - 1) ELSE f[i - 1]]

LEMMA StageByStage ==
    ASSUME NEW S, NEW n \in Nat, NEW f, Stages(S, n, f)
    PROVE  /\ f[0] = <<>>
           /\ \A i \in 1..n : /\ i - 1 \in S    => f[i] = Append(f[i - 1], i - 1)
                              /\ i - 1 \notin S => f[i] = f[i - 1]
<1> DEFINE x(i) == IF i = 0 THEN <<>>
                   ELSE IF i - 1 \in S THEN Append(f[i - 1], i - 1) ELSE f[i - 1]
<1>1. f = [i \in 0..n |-> x(i)] BY DEF Stages
<1> HIDE DEF x
<1>2. \A i \in 0..n : f[i] = x(i) BY <1>1
<1>3. f[0] = <<>> BY <1>2 DEF x
<1>4. ASSUME NEW i \in 1..n
      PROVE  /\ i - 1 \in S    => f[i] = Append(f[i - 1], i - 1)
             /\ i - 1 \notin S => f[i] = f[i - 1]
  <2>1. i \in 0..n /\ i # 0 OBVIOUS
  <2> QED BY <1>2, <2>1 DEF x
<1> QED BY <1>3, <1>4

LEMMA StagesExist ==
    ASSUME NEW S, NEW n \in Nat
    PROVE  \E f : Stages(S, n, f)
<1> DEFINE T == {k \in Nat : \E f : Stages(S, k, f)}
<1>1. 0 \in T
  <2>1. Stages(S, 0, [i \in 0..0 |-> <<>>]) BY DEF Stages
  <2> QED BY <2>1
<1>2. ASSUME NEW k \in Nat, k \in T PROVE k + 1 \in T
  <2>1. PICK f : Stages(S, k, f) BY <1>2
  <2> DEFINE x == IF k \in S THEN Append(f[k], k) ELSE f[k]
             g == [i \in 0..(k + 1) |-> IF i = k + 1 THEN x ELSE f[i]]
  <2>2. /\ f[0] = <<>>
        /\ \A i \in 1..k : /\ i - 1 \in S    => f[i] = Append(f[i - 1], i - 1)
                           /\ i - 1 \notin S => f[i] = f[i - 1]
    BY <2>1, StageByStage
  <2>3. g[0] = <<>> BY <2>2
  <2>4. ASSUME NEW i \in 1..(k + 1)
        PROVE  /\ i - 1 \in S    => g[i] = Append(g[i - 1], i - 1)
               /\ i - 1 \notin S => g[i] = g[i - 1]
    <3>1. g[i - 1] = f[i - 1] OBVIOUS
    <3>2. CASE i = k + 1
      <4>1. i - 1 = k /\ g[i] = x BY <3>2
      <4> QED BY <3>1, <4>1
    <3>3. CASE i # k + 1
      <4>1. i \in 1..k /\ g[i] = f[i] BY <3>3
      <4>2. /\ i - 1 \in S    => f[i] = Append(f[i - 1], i - 1)
            /\ i - 1 \notin S => f[i] = f[i - 1]
        BY <2>2, <4>1, Zenon
      <4> HIDE DEF g
      <4> QED BY <3>1, <4>1, <4>2, Zenon
    <3> QED BY <3>2, <3>3
  <2>5. g = [i \in 0..(k + 1) |-> g[i]] OBVIOUS
  <2> HIDE DEF g
  <2>6. \A i \in 0..(k + 1) :
          g[i] = IF i = 0 THEN <<>>
                 ELSE IF i - 1 \in S THEN Append(g[i - 1], i - 1) ELSE g[i - 1]
    <3> TAKE i \in 0..(k + 1)
    <3>1. CASE i = 0 BY <2>3, <3>1
    <3>2. CASE i # 0
      <4>1. i \in 1..(k + 1) BY <3>2
      <4> QED BY <2>4, <3>2, <4>1, Zenon
    <3> QED BY <3>1, <3>2
  <2>7. Stages(S, k + 1, g) BY <2>5, <2>6 DEF Stages
  <2> QED BY <2>7
<1> HIDE DEF T
<1>3. Nat \subseteq T BY <1>1, <1>2, InductionSet
<1> QED BY <1>3 DEF T

\* The loop meets the pages of its set, and no other.
LEMMA AscendingPages ==
    ASSUME NEW S, NEW top \in Nat
    PROVE  /\ Ascending(S, top) \in Seq(0..top)
           /\ \A p : (\E i \in DOMAIN Ascending(S, top) : Ascending(S, top)[i] = p)
                       <=> p \in S /\ p \in 0..top
<1> DEFINE f == CHOOSE g : Stages(S, top + 1, g)
<1>1. Stages(S, top + 1, f)
  <2>1. top + 1 \in Nat OBVIOUS
  <2> QED BY <2>1, StagesExist
<1>2. Ascending(S, top) = f[top + 1] BY DEF Ascending, Stages
<1> HIDE DEF f
<1>3. /\ f[0] = <<>>
      /\ \A i \in 1..(top + 1) : /\ i - 1 \in S    => f[i] = Append(f[i - 1], i - 1)
                                 /\ i - 1 \notin S => f[i] = f[i - 1]
  <2>1. top + 1 \in Nat OBVIOUS
  <2> QED BY <1>1, <2>1, StageByStage
<1> DEFINE Good(n) == /\ f[n] \in Seq(0..top)
                      /\ \A p : (\E i \in DOMAIN f[n] : f[n][i] = p)
                                  <=> p \in S /\ p \in 0..(n - 1)
           T == {n \in Nat : n <= top + 1 => Good(n)}
<1>4. 0 \in T
  <2>1. f[0] \in Seq(0..top) /\ DOMAIN f[0] = {} BY <1>3
  <2>2. 0..(0 - 1) = {} OBVIOUS
  <2> QED BY <2>1, <2>2
<1>5. ASSUME NEW n \in Nat, n \in T PROVE n + 1 \in T
  <2> SUFFICES ASSUME n + 1 <= top + 1 PROVE Good(n + 1) OBVIOUS
  <2>1. Good(n) BY <1>5
  <2>2. n + 1 \in 1..(top + 1) /\ (n + 1) - 1 = n /\ n \in 0..top OBVIOUS
  <2>3. (n \in S => f[n + 1] = Append(f[n], n)) /\ (n \notin S => f[n + 1] = f[n])
    <3>1. /\ (n + 1) - 1 \in S    => f[n + 1] = Append(f[(n + 1) - 1], (n + 1) - 1)
          /\ (n + 1) - 1 \notin S => f[n + 1] = f[(n + 1) - 1]
      BY <1>3, <2>2, Zenon
    <3> QED BY <2>2, <3>1
  <2>4. \A p : p \in 0..n <=> p \in 0..(n - 1) \/ p = n OBVIOUS
  <2>5. CASE n \notin S BY <2>1, <2>2, <2>3, <2>4, <2>5
  <2>6. CASE n \in S
    <3> DEFINE s == f[n]
               t == Append(s, n)
    <3>1. s \in Seq(0..top) BY <2>1
    <3>2. /\ t \in Seq(0..top) /\ Len(t) = Len(s) + 1
          /\ \A i \in 1..Len(s) : t[i] = s[i]
          /\ t[Len(s) + 1] = n
      BY <2>2, <3>1, AppendProperties
    <3>3. DOMAIN s = 1..Len(s) /\ DOMAIN t = 1..(Len(s) + 1) /\ Len(s) \in Nat
      BY <3>1, <3>2, LenProperties
    <3>4. f[n + 1] = t BY <2>3, <2>6
    <3> HIDE DEF s, t
    <3>5. \A p : (\E i \in DOMAIN s : s[i] = p) <=> p \in S /\ p \in 0..(n - 1)
      BY <2>1 DEF s
    <3>6. ASSUME NEW p
          PROVE  (\E i \in DOMAIN t : t[i] = p) <=> p \in S /\ p \in 0..n
      <4>1. (\E i \in DOMAIN t : t[i] = p) <=> (\E i \in DOMAIN s : s[i] = p) \/ p = n
        <5>1. ASSUME NEW i \in DOMAIN t PROVE (i \in DOMAIN s /\ t[i] = s[i]) \/ t[i] = n
          <6>1. i \in 1..Len(s) \/ i = Len(s) + 1 BY <3>3
          <6> QED BY <3>2, <3>3, <6>1
        <5>2. DOMAIN s \subseteq DOMAIN t /\ Len(s) + 1 \in DOMAIN t BY <3>3
        <5> QED BY <3>2, <3>3, <5>1, <5>2
      <4> QED BY <2>4, <2>6, <3>5, <4>1
    <3> QED BY <2>2, <3>2, <3>4, <3>6
  <2> QED BY <2>5, <2>6
<1> HIDE DEF T, Good
<1>6. Nat \subseteq T BY <1>4, <1>5, InductionSet
<1>7. top + 1 \in T BY <1>6
<1>8. Good(top + 1) BY <1>7 DEF T
<1>9. (top + 1) - 1 = top OBVIOUS
<1> QED BY <1>2, <1>8, <1>9 DEF Good

\* A whole dump has one line for every page, with the page's word.
LEMMA LinesOfDump ==
    ASSUME NEW d, WholeDump(d)
    PROVE  /\ Len(Lines(d)) \in Nat /\ DOMAIN Lines(d) = 1..Len(Lines(d))
           /\ \A p \in 0..d.max : \E i \in DOMAIN Lines(d) : Lines(d)[i].page = p
           /\ \A i \in DOMAIN Lines(d) : Lines(d)[i].word = d.pages[Lines(d)[i].page]
           /\ SubSeq(Lines(d), 1, Len(Lines(d))) = Lines(d)
<1> DEFINE ps == Ascending(PagesSaved(d), d.max)
           ls == Lines(d)
<1>1. d.max \in Nat /\ DOMAIN d.pages = 0..d.max BY DEF WholeDump, Pages
<1>2. PagesSaved(d) = 0..d.max BY <1>1 DEF PagesSaved
<1>3. /\ ps \in Seq(0..d.max)
      /\ \A p : (\E i \in DOMAIN ps : ps[i] = p) <=> p \in PagesSaved(d) /\ p \in 0..d.max
  BY <1>1, AscendingPages
<1>4. ls = [i \in DOMAIN ps |-> [page |-> ps[i], word |-> d.pages[ps[i]]]] BY DEF Lines
<1> HIDE DEF ps, ls
<1>5. Len(ps) \in Nat /\ DOMAIN ps = 1..Len(ps) BY <1>3, LenProperties
<1>6. DOMAIN ls = 1..Len(ps) BY <1>4, <1>5
<1>7. \A i \in DOMAIN ls : ls[i].page = ps[i] /\ ls[i].word = d.pages[ps[i]] BY <1>4
<1> DEFINE Any == {ls[i] : i \in 1..Len(ps)}
<1>8. ls \in [1..Len(ps) -> Any] BY <1>4, <1>5
<1> HIDE DEF Any
<1>9. ls \in Seq(Any) BY <1>5, <1>8, SeqDef
<1>10. Len(ls) \in Nat /\ DOMAIN ls = 1..Len(ls) BY <1>9, LenProperties
<1>11. Len(ls) = Len(ps) BY <1>5, <1>6, <1>10
<1>12. \A p \in 0..d.max : \E i \in DOMAIN ls : ls[i].page = p
  BY <1>2, <1>3, <1>5, <1>6, <1>7
<1>13. \A i \in DOMAIN ls : ls[i].word = d.pages[ls[i].page] BY <1>7
<1>14. SubSeq(ls, 1, Len(ls)) = ls
  <2> DEFINE n == Len(ls)
  <2>1. n \in Nat /\ \A i \in 1..n : ls[i] \in Any BY <1>8, <1>10, <1>11
  <2>2. /\ SubSeq(ls, 1, n) \in Seq(Any)
        /\ Len(SubSeq(ls, 1, n)) = IF 1 <= n THEN n - 1 + 1 ELSE 0
        /\ \A i \in 1..(n - 1 + 1) : SubSeq(ls, 1, n)[i] = ls[1 + i - 1]
    BY <1>9, <2>1, SubSeqProperties
  <2> QED BY <1>9, <2>1, <2>2, SeqEqual
<1> QED BY <1>10, <1>12, <1>13, <1>14 DEF ls

\* Saved, loaded and cloned, a whole dump is a clone of its UID, its
\* configuration and its data pages.
LEMMA CloneOfWhole ==
    ASSUME NEW d, WholeDump(d)
    PROVE  LET c == CloneOf(d)
           IN  /\ c.op = "clone" /\ c.uid = d.uid /\ c.config = d.pages[1]
               /\ \A p \in 4..d.max : \E i \in DOMAIN c.data : c.data[i].page = p
               /\ \A i \in DOMAIN c.data : c.data[i].value = d.pages[c.data[i].page]
<1> DEFINE n == Len(Lines(d))
           f == File(d, n)
           l == Load(f)
           s == CHOOSE x \in Saves(d) : x.ok
<1>1. d.max \in Nat /\ d.max >= 1 /\ d.pages \in [0..d.max -> Word] /\ d.pages[0] = d.uid
  BY DEF WholeDump, Pages
<1>2. s.file = f
  <2>1. n \in Nat BY LinesOfDump
  <2>2. n \in 0..n BY <2>1
  <2>3. [ok |-> n = n, file |-> f] \in Saves(d) BY <2>2 DEF Saves
  <2>4. \E x \in Saves(d) : x.ok BY <2>3
  <2>5. s \in Saves(d) /\ s.ok BY <2>4
  <2> HIDE DEF s
  <2>6. PICK k \in 0..n : s = [ok |-> k = n, file |-> File(d, k)] BY <2>5 DEF Saves
  <2>7. k = n BY <2>5, <2>6
  <2> QED BY <2>6, <2>7
<1>3. /\ f.uid = d.uid /\ f.max = d.max /\ f.lines = Lines(d) BY LinesOfDump DEF File
<1> HIDE DEF n, f, s
<1>4. \A p \in 0..d.max : Finds(f, p)
  <2> SUFFICES ASSUME NEW p \in 0..d.max, NEW q \in 0..p
               PROVE  \E i \in DOMAIN f.lines : f.lines[i].page = q
    BY DEF Finds
  <2>1. q \in 0..d.max BY <1>1
  <2> QED BY <1>3, <2>1, LinesOfDump
<1>5. ASSUME NEW p \in 0..d.max PROVE WordOf(f, p) = d.pages[p]
  <2> DEFINE i == CHOOSE j \in DOMAIN f.lines : f.lines[j].page = p
  <2>1. \E j \in DOMAIN f.lines : f.lines[j].page = p BY <1>3, LinesOfDump
  <2>2. i \in DOMAIN f.lines /\ f.lines[i].page = p BY <2>1
  <2>3. WordOf(f, p) = f.lines[i].word BY DEF WordOf
  <2> HIDE DEF i
  <2>4. f.lines[i].word = d.pages[f.lines[i].page] BY <1>3, <2>2, LinesOfDump
  <2> QED BY <2>2, <2>3, <2>4
<1>6. l.max = d.max /\ l.pages = d.pages
  <2> DEFINE found == {p \in 0..f.max : Finds(f, p)}
  <2>1. found = 0..d.max BY <1>3, <1>4
  <2>2. l = Dump(f.uid, f.max, [p \in {0} \cup found |-> IF p \in found THEN WordOf(f, p)
                                                         ELSE f.uid])
    BY DEF Load
  <2> HIDE DEF found
  <2>3. {0} \cup found = 0..d.max BY <1>1, <2>1
  <2>4. l.pages = [p \in 0..d.max |-> WordOf(f, p)] /\ l.max = d.max
    BY <1>3, <2>1, <2>2, <2>3 DEF Dump
  <2>5. d.pages = [p \in 0..d.max |-> d.pages[p]] BY <1>1
  <2>6. [p \in 0..d.max |-> WordOf(f, p)] = [p \in 0..d.max |-> d.pages[p]] BY <1>5
  <2> QED BY <2>4, <2>5, <2>6
<1> DEFINE job == PlanOf(l)
           ps  == Ascending(DataOf(l), l.max)
<1>7. /\ CloneOf(d).op = "clone" /\ CloneOf(d).uid = job.uid
      /\ CloneOf(d).config = job.config /\ CloneOf(d).data = job.data
  BY <1>2 DEF CloneOf, s
<1> HIDE DEF l
<1>8. 1 \in DOMAIN d.pages /\ DOMAIN d.pages = 0..d.max BY <1>1
<1>9. /\ job.uid = d.uid /\ job.config = d.pages[1]
      /\ job.data = [i \in DOMAIN ps |-> [page |-> ps[i], value |-> d.pages[ps[i]]]]
  BY <1>1, <1>6, <1>8 DEF PlanOf
<1>10. \A p : (\E i \in DOMAIN ps : ps[i] = p) <=> p \in DataOf(l) /\ p \in 0..d.max
  BY <1>1, <1>6, AscendingPages
<1>11. \A p \in 4..d.max : p \in DataOf(l) /\ p \in 0..d.max BY <1>6, <1>8 DEF DataOf
<1> HIDE DEF job, ps
<1>12. \A p \in 4..d.max : \E i \in DOMAIN job.data : job.data[i].page = p
  <2> TAKE p \in 4..d.max
  <2>1. PICK i \in DOMAIN ps : ps[i] = p BY <1>10, <1>11
  <2>2. i \in DOMAIN job.data /\ job.data[i].page = p BY <1>9, <2>1
  <2> QED BY <2>2
<1>13. \A i \in DOMAIN job.data : job.data[i].value = d.pages[job.data[i].page] BY <1>9
<1> QED BY <1>7, <1>9, <1>12, <1>13

\* A whole dump, saved, loaded and cloned onto another tag with success, is on
\* that tag as far as its locks allow, for every dump, every tag and every
\* memory size (hitag_s_dump_file.c, hitag_s_dump_model.h, clone in
\* hitag_s_8268.c).
THEOREM ClonesRestoreDumps ==
    ASSUME ~Lossy, ~Noise, OrderedCalls PROVE Spec => []CloneRestoresDump
<1>1. TypeOK /\ ReliableOutcome => CloneRestoresDump
  <2> SUFFICES ASSUME TypeOK, ReliableOutcome, pc = "idle", result = "Ok",
                      NEW d \in WholeDumps, call = CloneOf(d)
               PROVE  Restored(d)
    BY DEF CloneRestoresDump
  <2>1. mem = Effect(call, before) /\ Succeeds(call, before)
    BY DEF ReliableOutcome, Returned
  <2>2. WholeDump(d) BY DumpsAssumption
  <2>3. /\ call.op = "clone" /\ call.uid = d.uid /\ call.config = d.pages[1]
        /\ \A p \in 4..d.max : \E i \in DOMAIN call.data : call.data[i].page = p
        /\ \A i \in DOMAIN call.data : call.data[i].value = d.pages[call.data[i].page]
    BY <2>2, CloneOfWhole
  <2>4. d.max \in Pages \ {0} /\ DOMAIN d.pages = 0..d.max BY <2>2 DEF WholeDump
  <2>5. \A p \in PagesOf(call, before) : p \in Pages => mem[p] = ValueOf(call, p)
    <3>1. Reached(call, before) /\ Admitted(call, before)
          /\ Reachable(call, before) = PagesOf(call, before)
      BY <2>1, <2>3 DEF Succeeds
    <3> QED BY <2>1, <3>1 DEF Effect
  <2>6. 0 \in PagesOf(call, before) /\ 1 \in PagesOf(call, before) BY <2>3 DEF PagesOf
  <2>7. 0 \in Pages /\ 1 \in Pages BY TopPageAssumption DEF Pages, TopPageAssumption
  <2>8. mem[0] = d.uid
    <3>1. ValueOf(call, 0) = d.uid BY <2>3 DEF ValueOf
    <3> QED BY <2>5, <2>6, <2>7, <3>1
  <2>9. mem[1] = d.pages[1]
    <3>1. ValueOf(call, 1) = d.pages[1] BY <2>3 DEF ValueOf
    <3> QED BY <2>5, <2>6, <2>7, <3>1
  <2>10. ASSUME NEW p \in 0..d.max, p > 3, PageWritable(before[1], p)
         PROVE  mem[p] = d.pages[p]
    <3> DEFINE i == CHOOSE j \in DOMAIN call.data : call.data[j].page = p
    <3>1. p \in 4..d.max /\ p \in Pages
      <4>1. d.max \in 0..TopPage /\ TopPage \in Nat
        BY <2>4, TopPageAssumption DEF Pages, TopPageAssumption
      <4> QED BY <2>10, <4>1 DEF Pages
    <3>2. \E j \in DOMAIN call.data : call.data[j].page = p BY <2>3, <3>1
    <3>3. i \in DOMAIN call.data /\ call.data[i].page = p BY <3>2
    <3>4. ValueOf(call, p) = call.data[i].value BY <2>3, <3>1 DEF ValueOf
    <3> HIDE DEF i
    <3>5. ValueOf(call, p) = d.pages[p] BY <2>3, <3>3, <3>4
    <3>6. p \in PagesOf(call, before) BY <2>3, <2>10, <3>2 DEF PagesOf
    <3> QED BY <2>5, <3>1, <3>5, <3>6
  <2>11. 1 \in DOMAIN d.pages /\ SameOnPage(1, mem[1], d.pages[1])
    BY <2>4, <2>9 DEF Pages, SameOnPage, SameButPwdh0
  <2> QED BY <2>4, <2>8, <2>10, <2>11 DEF Restored
<1> QED BY <1>1, TypeCorrect, CallsDoTheirEffect, PTL
==============================================================================
