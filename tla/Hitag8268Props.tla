---------------------------- MODULE Hitag8268Props ----------------------------
(* What must hold of the 8268 sequences.                                      *)
EXTENDS Hitag8268

\* Every variable has a value of its kind; the password in turn is one of the
\* call's; what waits for a data frame or a read-back is a write step of the
\* plan.
TagTypeOK  == mem \in Memory /\ session \in Session /\ near \in BOOLEAN
CallTypeOK ==
    /\ field \in BOOLEAN
    /\ pc \in {"idle", "probe", "select", "auth", "password", "config",
               "step", "data", "readback"}
    /\ call \in CallType /\ before \in Memory
    /\ uid \in Word /\ config \in Word
    /\ try \in DOMAIN Passwords(call)
    /\ result \in Results
StepTypeOK ==
    /\ plan \in Seq(Step) /\ next \in Nat \ {0} /\ wiped \in Nat
    /\ got \in [Pages -> Word \cup {NoWord}]
    /\ pc \in {"data", "readback"} => next \in DOMAIN plan /\ plan[next].do # "read"
TypeOK == TagTypeOK /\ CallTypeOK /\ StepTypeOK

Verified(c) == c.op \in {"write", "em4100"}

\* The pages a call may change and the value each gets, given the memory it
\* starts from (the bounds of a wipe and the skips of a clone come from it).
PagesOf(c, m) ==
    CASE c.op \in {"write", "em4100"} ->
            {c.data[i].page : i \in DOMAIN c.data}
            \cup (IF c.op = "em4100" THEN {1} ELSE {})
      [] c.op = "clone" ->
            {p \in {c.data[i].page : i \in DOMAIN c.data} : PageWritable(m[1], p)}
            \cup {0, 1}
      [] c.op = "wipe" -> 1..LastPage(m[1])
      [] OTHER -> {}

ValueOf(c, p) ==
    CASE c.op = "em4100" /\ p = 1 -> Em4100Config
      [] c.op = "clone" /\ p = 0  -> c.uid
      [] c.op = "clone" /\ p = 1  -> c.config
      [] c.op = "wipe" /\ p = 1   -> WipeConfig
      [] c.op = "wipe" /\ p = 2   -> DefaultPassword
      [] c.op = "wipe" /\ p \notin {1, 2} -> ZeroWord
      [] OTHER -> c.data[CHOOSE i \in DOMAIN c.data : c.data[i].page = p].value

JobOf(c, m) == [ verified |-> Verified(c),
                 pages    |-> [p \in PagesOf(c, m) |-> ValueOf(c, p)] ]

JobsFor(m) == {JobOf(c, m) : c \in Calls}

Returned == pc = "idle" /\ result # "None"
------------------------------------------------------------------------------
\* README "Write verification": a UID or EM4100 write that returns Ok has left
\* every page of it on the tag (page 1 up to PWDH0), whatever frames were lost,
\* whatever noise was taken for an acknowledgement, and however often the tag
\* left the field on the way.
VerifiedOk ==
    pc = "idle" /\ result = "Ok" /\ Verified(call) =>
        \A p \in PagesOf(call, before) : SameOnPage(p, mem[p], ValueOf(call, p))

\* README.md:49 "Safe write order: Data pages -> config page -> UID", as the code
\* has it; hitag_s_proto.h:502-503 gives the EM4100 write the opposite order
\* (Em4100ConfigFirst below).
\* Once a call has changed the configuration, no later step of it changes any
\* other page but the UID, and once it has changed the UID none at all.
SafeWriteOrder ==
    [][ /\ mem[1] # before[1] => \A p \in Pages \ {0} : mem'[p] = mem[p]
        /\ mem[0] # before[0] => mem' = mem ]_vars

\* Every page a dump or a read marks as read is what the tag holds, under noise
\* and with a tag that comes and goes; no page beyond the tag's memory is ever
\* marked.  (Page 0 comes from the UID request: see DumpedUid.)
DumpFaithful ==
    pc = "idle" /\ call.op \in {"read", "readAll"} /\ result = "Ok" =>
        \A p \in Pages \ {0} : got[p] # NoWord =>
            /\ SameOnPage(p, got[p], mem[p])
            /\ call.op = "readAll" => p <= LastPage(mem[1])

\* Between calls the field is off and the tag has no session: an authenticated
\* session never outlives the call that opened it, on any of the exits.
NoSessionBetweenCalls ==
    pc = "idle" => ~field /\ session = Off

\* Whatever frames are lost, no call leaves the tag with a password that is
\* neither the one it had nor the factory one: a wipe that fails half way, and
\* resets the password before the configuration, never locks the application
\* out of the tag.
PasswordStaysKnown == mem[2] \in {before[2], DefaultPassword}

\* The number of pages a wipe reports is never less than the number of pages it
\* changed on the tag: the user is never told of fewer pages than were lost.
WipeCountsItsPages ==
    pc = "idle" /\ call.op = "wipe" /\ result = "Ok" =>
        Cardinality({p \in Pages : mem[p] # before[p]}) <= wiped

\* A call refused with a NACK before any page was touched has been refused
\* every password it was to try (hitag_s_8268_authenticate_multi).
NackMeansUnknownPassword ==
    pc = "idle" /\ result = "Nack" /\ plan = <<>> =>
        \A i \in DOMAIN Passwords(call) : Passwords(call)[i] # before[2]

\* The sequences do to the tag what TagUpdate promises: they touch the pages of
\* their job only, and a verified one succeeds only when all of them hold.
Promise == INSTANCE TagUpdate WITH
    Store   <- Tags,
    JobsFor <- JobsFor,
    store   <- mem,
    job     <- IF result = "None" /\ pc = "idle"
               THEN [verified |-> FALSE, pages |-> [p \in {} |-> ZeroWord]]
               ELSE JobOf(call, before),
    outcome <- CASE pc # "idle"                    -> "running"
                 [] pc = "idle" /\ result = "None" -> "none"
                 [] pc = "idle" /\ result = "Ok"   -> "ok"
                 [] OTHER                          -> "failed"

KeepsPromise == Promise!Spec

\* Every call returns to the application, whatever the tag does.
EveryCallReturns == pc # "idle" ~> pc = "idle"
------------------------------------------------------------------------------
(* Why VerifiedOk holds: an inductive strengthening.                          *)
VerifiedPlan(c) == IF c.op = "em4100" THEN Em4100Plan(c) ELSE WritePlan(c)

OnTag(step) == SameOnPage(step.page, mem[step.page], step.value)

\* In a verified call the tag is armed for no page but the one the call is
\* writing, so a frame taken for another never programs a page behind its back.
ArmedForTheStep ==
    Verified(call) =>
        \/ session.armed \in {NoPage, AuthPage}
        \/ pc \in {"data", "readback"} /\ session.armed = Current.page

\* A call starts with the first step of its plan.
StartsAtFirst ==
    pc \in {"probe", "select", "auth", "password", "config"} => next = 1

\* The steps a verified call has behind it are on the tag.
StepsBehindHold ==
    Verified(call) /\ pc \in {"step", "data", "readback"} =>
        /\ plan = VerifiedPlan(call)
        /\ \A j \in DOMAIN plan : j < next => OnTag(plan[j])

WriteProgress ==
    /\ ProperCall(call)
    /\ StartsAtFirst
    /\ ArmedForTheStep
    /\ StepsBehindHold
    /\ VerifiedOk

VerifiedInv == TypeOK /\ NoSessionBetweenCalls /\ WriteProgress
------------------------------------------------------------------------------
(* On a reliable channel a call is a function of the tag it finds.           *)
Reached(c, m) == ~LowEntropy(m[0])
Admitted(c, m) == \E i \in DOMAIN Passwords(c) : Passwords(c)[i] = m[2]

\* The pages whose new value the call gets onto a tag that enforces its locks:
\* a locked page is refused, and ends a write there and a clone before its UID.
Reachable(c, m) ==
    CASE c.op = "write" ->
            {c.data[i].page : i \in {k \in DOMAIN c.data :
                                        \A j \in 1..k : PageWritable(m[1], c.data[j].page)}}
      [] c.op = "em4100" /\ ~(PageWritable(m[1], 4) /\ PageWritable(m[1], 5)) -> {}
      [] c.op = "clone" /\ ~PageWritable(m[1], 1) ->
            {p \in PagesOf(c, m) \ {0} : PageWritable(m[1], p)}
      [] OTHER -> {p \in PagesOf(c, m) : PageWritable(m[1], p)}

Effect(c, m) ==
    [p \in Pages |-> IF Reached(c, m) /\ Admitted(c, m) /\ p \in Reachable(c, m)
                     THEN ValueOf(c, p) ELSE m[p]]

Succeeds(c, m) ==
    /\ Reached(c, m)
    /\ c.op # "readUid" => Admitted(c, m)
    /\ c.op \in {"write", "em4100", "clone"} => Reachable(c, m) = PagesOf(c, m)
    /\ c.op = "read" =>
          \A i \in DOMAIN c.data :
              Readable(m, [state |-> "authed", armed |-> NoPage], c.data[i].page)

\* With a tag that stays in the field and a channel without loss or noise,
\* every call does to the tag exactly what Effect says and reports success
\* exactly when Succeeds says; a wipe counts the pages it could write, and a
\* dump shows every page the tag lets it read.  The values are those the code
\* writes; the prototypes' comments name others for PWDH0 after a wipe and for
\* the configuration of an EM4100 write (SomeCommentHolds below).  A tag given a
\* UID of low entropy is out of reach from then on: Reached describes that.
ReliableOutcome ==
    Returned =>
        /\ mem = Effect(call, before)
        /\ result = "Ok" <=> Succeeds(call, before)
        /\ call.op = "wipe" /\ result = "Ok" =>
              wiped = Cardinality(Reachable(call, before))
        /\ call.op = "readAll" /\ result = "Ok" =>
              \A p \in Pages :
                  got[p] = IF p <= LastPage(mem[1])
                              /\ Readable(mem, [state |-> "authed", armed |-> NoPage], p)
                           THEN Shows(mem, p) ELSE NoWord
------------------------------------------------------------------------------
(* What the documentation says and the code does not do.                      *)

\* README.md:47 "Auto read-back after each page write": a clone that reports
\* success has put its UID, configuration and unlocked data pages on the tag.
CloneIsReadBack ==
    pc = "idle" /\ result = "Ok" /\ call.op = "clone" =>
        \A p \in PagesOf(call, before) : SameOnPage(p, mem[p], ValueOf(call, p))

\* README.md:16 "Clear all data pages, reset config and password": a wipe that
\* reports success has cleared them.
WipeClears ==
    pc = "idle" /\ result = "Ok" /\ call.op = "wipe" =>
        \A p \in PagesOf(call, before) : SameOnPage(p, mem[p], ValueOf(call, p))

\* hitag_s_proto.h:610 "PWDH0: kept as 0x00": so after a successful wipe.  The
\* code packs the first byte of the factory password into it.
WipeZeroesPwdh0 ==
    pc = "idle" /\ result = "Ok" /\ call.op = "wipe" => mem[1][4] = 0

\* hitag_s_proto.h:502-503 "Read config -> Modify TTF -> Write config -> Write
\* EM4100 data pages 4,5": data pages change once the configuration is written,
\* be it the one the comments describe or the one of the code.  The code writes
\* them first.
Em4100ConfigFirst ==
    call.op = "em4100" /\ (mem[4] # before[4] \/ mem[5] # before[5]) =>
        \/ SameButPwdh0(mem[1], Pack(DocumentedTtf(before[1])))
        \/ SameButPwdh0(mem[1], Em4100Config)

\* hitag_s_proto.h:502 "Read config -> Modify TTF", em4100_encode.h:38-39 "must be
\* read from the chip and modified separately": an EM4100 write changes the TTF
\* fields of the configuration it found.  The code writes a constant.
Em4100KeepsConfig ==
    pc = "idle" /\ result = "Ok" /\ call.op = "em4100" =>
        SameButPwdh0(mem[1], Pack(DocumentedTtf(before[1])))

\* em4100_encode.h:49-50 "Preserves all other config bits": so does
\* em4100_config_set_ttf on the configuration of the tag.  The code clears auth
\* and RES0 as well.
SetTtfKeepsOthers == Parse(SetTtf(mem[1])) = DocumentedTtf(mem[1])

\* Of these five statements of the documentation at least one holds throughout.
\* One behaviour on a perfect channel refutes all five: a tag with auth and a
\* lock bit set is wiped, then written as an EM4100 card.
SomeCommentHolds ==
    \/ []WipeClears
    \/ []WipeZeroesPwdh0
    \/ []Em4100ConfigFirst
    \/ []Em4100KeepsConfig
    \/ []SetTtfKeepsOthers

\* hitag_s_proto.h "uid_out Output: tag UID": the UID of a dump is the tag's.
DumpedUid ==
    pc = "idle" /\ result = "Ok" /\ call.op = "readAll" => got[0] = before[0]
==============================================================================
