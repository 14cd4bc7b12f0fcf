---------------------------- MODULE HitagSDebugRead ----------------------------
(* The debug read (hitag_s_debug_read_sequence_ex): the early wake matrix     *)
(* asks for the UID in every mode at every wake point; if that finds no tag,  *)
(* sessions are opened in one mode after the other until one is SELECTed or   *)
(* the budget is spent; then the pages are read, after authentication where   *)
(* the tag wants it.                                                          *)
(*                                                                            *)
(* One action per UID probe of a mode, SELECT, password and page.  The clock  *)
(* is furi_get_tick, modulo TickMod; the tag stays where it is.  A noisy      *)
(* channel also loses frames; a reply without CRC8, as STD has, may then be   *)
(* any word of Garbles.                                                       *)
EXTENDS Tag8268, HitagSTrace, Sequences

CONSTANTS
    Chips,        \* what may be in the field
    StrayUids,    \* words a noisy UID capture may decode to
    Garbles,      \* words a reply without CRC may decode to
    WakePoints,   \* how many wake points the matrix has
    QuietLimit,   \* HITAG_S_8268_DEBUG_NO_ACTIVITY_LIMIT
    Budget,       \* HITAG_S_DEBUG_READ_BUDGET_MS
    MaxSessions,  \* HITAG_S_DEBUG_READ_MAX_SESSION_ATTEMPTS
    TickMod,      \* 2^32
    StartTicks    \* the ticks a budget may start at

ASSUME BudgetAssumption ==
    /\ WakePoints \in Nat \ {0} /\ QuietLimit \in Nat \ {0}
    /\ Budget \in Nat \ {0} /\ MaxSessions \in Nat \ {0}
    /\ TickMod \in Nat /\ TickMod > Budget + 4 /\ StartTicks \subseteq 0..(TickMod - 1)
ASSUME WordsAssumption == StrayUids \subseteq Word /\ Garbles \subseteq Word

VARIABLES
    chip, noisy,          \* what is in the field, and the channel
    session, tagMode,     \* the tag's powered session and the mode it answers in
    rpc,                  \* the place in the sequence
    active,               \* active_mode_idx
    probe, quiet,         \* the matrix: its probe and no_activity_streak
    tries, start, now,    \* the session loop: session_attempt, start_tick, the tick
    elapsed,              \* history: the true time since start_tick
    uid, config, opened,  \* session.uid, config, session.selected
    mode,                 \* session.mode
    pwd, authed,          \* the password in turn; authed
    page, shown           \* the page in turn; pages where page_valid

chipVars  == <<chip, noisy>>
linkVars  == <<session, tagMode, active>>
wakeVars  == <<probe, quiet>>
clockVars == <<tries, start, now, elapsed>>
idVars    == <<uid, config, opened, mode>>
pageVars  == <<pwd, authed, page, shown>>
readVars  == <<chipVars, linkVars, rpc, wakeVars, clockVars, idVars, pageVars>>

\* proto_modes, which the wake matrix tries in the same order.
Modes    == << "ADV1", "FADV", "ADV2", "STD" >>
HasCrc(i) == Modes[i] # "STD"
NoMode   == "none"

\* family: an 8268, a Hitag micro, or nothing; knows: the modes the tag answers
\* in; plain: does it show its pages before authentication when auth is 0?
ChipType == [mem : Memory, family : {"8268", "htu", "none"},
             knows : SUBSET {Modes[i] : i \in 1..4}, plain : BOOLEAN]
ASSUME ChipsAssumption == Chips \subseteq ChipType

NoChip  == [mem |-> [p \in Pages |-> ZeroWord], family |-> "none", knows |-> {}, plain |-> FALSE]
NoShown == [p \in Pages |-> <<>>]

On == IF chip.family = "8268" THEN Powered ELSE Off

Knows(i) == chip.family = "8268" /\ Modes[i] \in chip.knows

\* Does the tag show page p in this session?
Reads8268(p) ==
    \/ Readable(chip.mem, session, p)
    \/ chip.plain /\ session.state = "selected" /\ Parse(chip.mem[1]).auth = 0
------------------------------------------------------------------------------
(* One UID capture in mode i: a word and whether the tag has heard the        *)
(* request.  A word of low entropy is no UID (hitag_s_uid_request_mode).      *)
Rejected == <<>>
Judged(w) == IF LowEntropy(w) THEN Rejected ELSE w

Captures(i) ==
    {[word |-> Judged(chip.mem[0]), heard |-> TRUE] : k \in {k \in {i} : Knows(k)}}
    \cup (IF noisy \/ ~Knows(i) THEN {[word |-> Rejected, heard |-> FALSE]} ELSE {})
    \cup (IF noisy THEN {[word |-> Judged(u), heard |-> Knows(i)] : u \in StrayUids} ELSE {})

\* The votes of a mode's three requests: a word is the UID once it has been
\* captured twice, and another candidate in between starts it anew.
Confirms(words, w) ==
    \E i, j \in 1..3 :
        /\ i < j /\ words[i] = w /\ words[j] = w
        /\ \A k \in (i + 1)..(j - 1) : words[k] \in {w, Rejected}

Confirmed(words) ==
    LET sure == {w \in {words[k] : k \in 1..3} \ {Rejected} : Confirms(words, w)}
    IN  IF sure = {} THEN Rejected ELSE CHOOSE w \in sure : TRUE

\* What the three requests of a mode may end with.
Confirmations(i) ==
    { [word |-> Confirmed([k \in 1..3 |-> c[k].word]), heard |-> \E k \in 1..3 : c[k].heard] :
        c \in [1..3 -> Captures(i)] }
------------------------------------------------------------------------------
(* Replies.                                                                  *)
\* READ_PAGE and SELECT replies: the page, a failure, and without CRC garbage.
Reply(answers, w) ==
    (IF answers THEN {[ok |-> TRUE, word |-> w]} ELSE {})
    \cup (IF noisy \/ ~answers THEN {[ok |-> FALSE, word |-> <<>>]} ELSE {})
    \cup (IF noisy /\ ~HasCrc(active) THEN {[ok |-> TRUE, word |-> g] : g \in Garbles} ELSE {})

------------------------------------------------------------------------------
(* A local that is read no more is set back, which keeps the instance small.  *)
MatrixLeft == probe' = 1 /\ quiet' = 0
ClockLeft  == tries' = 0 /\ start' = 0 /\ now' = 0 /\ elapsed' = 0

ReadIdle ==
    /\ rpc = "idle" /\ session = Off /\ tagMode = NoMode /\ active = 1
    /\ probe = 1 /\ quiet = 0 /\ tries = 0 /\ start = 0 /\ now = 0 /\ elapsed = 0
    /\ uid = ZeroWord /\ config = ZeroWord /\ opened = FALSE /\ mode = NoMode
    /\ pwd = 1 /\ authed = FALSE /\ page = 2

\* The tag after a field reset, or in a field switched off.
Restarted(s) == session' = s /\ tagMode' = NoMode

Stay(vs) == UNCHANGED <<chipVars, vs>>

\* hitags_worker_debug_read up to the sequence: the dump of an earlier run and
\* its trace are cleared.
ReadStart ==
    /\ rpc = "idle"
    /\ rpc' = "wake" /\ shown' = NoShown
    /\ chip' \in Chips /\ noisy' \in BOOLEAN
    /\ TraceStart("-")
    /\ UNCHANGED <<linkVars, wakeVars, clockVars, idVars, pwd, authed, page>>

\* Another diagnostic clears the dump as well; its user has taken the tag away.
ReadCleared ==
    /\ shown' = NoShown /\ chip' = NoChip /\ noisy' = FALSE
    /\ UNCHANGED <<linkVars, rpc, wakeVars, clockVars, idVars, pwd, authed, page>>

\* hitag_s_debug_read_finish and the worker's report.  Without a session and
\* without a Hitag micro the stage becomes NOISE, whatever it was.
StageOf(result, stage) ==
    IF result = "Ok" \/ opened \/ stage = "HTU" THEN stage ELSE "NOISE"

ReadReturns(result, stage) ==
    /\ rpc' = "idle" /\ Restarted(Off)
    /\ MatrixLeft /\ ClockLeft /\ active' = 1
    /\ uid' = ZeroWord /\ config' = ZeroWord /\ opened' = FALSE /\ mode' = NoMode
    /\ pwd' = 1 /\ authed' = FALSE /\ page' = 2
    /\ TraceStop(result, StageOf(result, stage))
    /\ Stay(shown)
------------------------------------------------------------------------------
(* The early wake matrix.                                                     *)
Probes  == 4 * WakePoints
ModeOf(n) == ((n - 1) % 4) + 1

\* A UID taken from a request: the mode of it becomes the active one.
\* Mutant: the single-shot branch forgets to set it.
ActiveForgotten(i) == active
ActiveFrom(i)      == i

TakeUid(i, c, at) ==
    /\ uid' = c.word /\ active' = ActiveFrom(i)
    /\ session' = IF c.heard THEN Found ELSE On
    /\ tagMode' = IF c.heard THEN Modes[i] ELSE NoMode
    /\ rpc' = at

WakeHit ==
    /\ rpc = "wake"
    /\ \E c \in Captures(ModeOf(probe)) :
          c.word # Rejected /\ TakeUid(ModeOf(probe), c, "wakeSelect")
    /\ MatrixLeft
    /\ Log
    /\ Stay(<<clockVars, config, opened, mode, pageVars>>)

\* Mutant: the index is not advanced.
SameProbe(n)  == n
AfterProbe(n) == n + 1

\* A miss; a tag may not be awake yet at an early wake point.
WakeMiss ==
    /\ rpc = "wake"
    /\ \E silent \in BOOLEAN :
          LET streak == IF silent THEN quiet + 1 ELSE 0
          IN  IF streak >= QuietLimit \/ probe = Probes
              THEN rpc' = "fallback" /\ MatrixLeft
              ELSE rpc' = "wake" /\ quiet' = streak /\ probe' = AfterProbe(probe)
    /\ Restarted(Off)
    /\ Log
    /\ Stay(<<active, clockVars, idVars, pageVars>>)

\* SELECT: the tag answers its own UID, in the mode it was asked in.
Answers == session.state = "found" /\ chip.mem[0] \in UidVariants(uid)

SelectOk ==
    /\ \E r \in Reply(Answers, Shows(chip.mem, 1)) :
          /\ r.ok
          /\ config' = r.word
          /\ session' = IF Answers THEN Selected ELSE session
    /\ opened' = TRUE /\ mode' = Modes[active]
    /\ rpc' = "config"
    /\ Log
    /\ UNCHANGED <<tagMode, uid>>

SelectFails == \E r \in Reply(Answers, Shows(chip.mem, 1)) : ~r.ok

WakeSelect ==
    /\ rpc = "wakeSelect"
    /\ \/ SelectOk
       \/ /\ SelectFails
          /\ rpc' = "fallback" /\ Restarted(Off) /\ uid' = ZeroWord
          /\ Log
          /\ UNCHANGED <<config, opened, mode>>
    /\ Stay(<<active, wakeVars, clockVars, pageVars>>)
------------------------------------------------------------------------------
(* The Hitag micro probe and the generic sessions within the budget.          *)
Fallback ==
    /\ rpc = "fallback"
    /\ \/ chip.family = "htu" /\ ReadReturns("Error", "HTU")
       \/ ReadReturns("Timeout", "TTF")
       \/ /\ rpc' = "session" /\ Restarted(On)
          /\ \E t \in StartTicks : start' = t /\ now' = t
          /\ Log
          /\ Stay(<<active, wakeVars, tries, elapsed, idVars, pageVars>>)

\* Mutant: the tick compared with the end of the budget, which may have wrapped.
ExpiredAbsolute(t, s) == t >= (s + Budget) % TickMod
Expired(t, s)         == (t - s) % TickMod >= Budget

TryAgain == ~Expired(now, start) /\ tries < MaxSessions

OpenSession ==
    /\ rpc = "session" /\ TryAgain
    /\ tries' = tries + 1 /\ active' = 1
    /\ opened' = FALSE /\ mode' = "STD"
    /\ rpc' = "mode"
    /\ Log
    /\ Stay(<<session, tagMode, wakeVars, start, now, elapsed, uid, config, pageVars>>)

GiveUp ==
    /\ rpc = "session" /\ ~TryAgain
    /\ \E r \in {"Timeout", "CrcError"} : ReadReturns(r, "UID")

\* A mode without a session: the field is reset for the next one; the time a
\* mode takes is noticed by the clock or not.
ModeOver ==
    /\ Restarted(On)
    /\ \E t \in 0..1 : now' = (now + t) % TickMod /\ elapsed' = elapsed + t
    /\ IF active = 4 THEN rpc' = "session" /\ UNCHANGED active
                     ELSE rpc' = "mode" /\ active' = active + 1
    /\ Log
    /\ UNCHANGED <<tries, start>>

ModeProbe ==
    /\ rpc = "mode"
    /\ \E c \in Confirmations(active) :
          \/ c.word # Rejected /\ TakeUid(active, c, "modeSelect") /\ Log /\ UNCHANGED clockVars
          \/ c.word = Rejected /\ ModeOver /\ UNCHANGED uid
    /\ Stay(<<wakeVars, config, opened, mode, pageVars>>)

ModeSelect ==
    /\ rpc = "modeSelect"
    /\ \/ SelectOk /\ UNCHANGED <<active, clockVars>>
       \/ SelectFails /\ ModeOver /\ UNCHANGED idVars
    /\ Stay(<<wakeVars, pageVars>>)
------------------------------------------------------------------------------
(* The pages.                                                                *)
Keep(p, w) == shown' = [shown EXCEPT ![p] = w]

\* Mutant: a tag that did not show page 1 is not authenticated with.
WantsAuthByConfig(cfg, read) == Parse(cfg).auth = 1
WantsAuth(cfg, read)         == Parse(cfg).auth = 1 \/ ~read

ReadConfig ==
    /\ rpc = "config"
    /\ \E r \in Reply(Reads8268(1), Shows(chip.mem, 1)) :
          LET cfg == IF r.ok THEN r.word ELSE config
          IN  /\ config' = cfg
              /\ shown' = [shown EXCEPT ![0] = uid, ![1] = r.word]
              /\ rpc' = IF WantsAuth(cfg, r.ok) THEN "auth" ELSE "pages"
    /\ session' = Disarmed(session)
    /\ Log
    /\ Stay(<<tagMode, active, wakeVars, clockVars, uid, opened, mode, pwd, authed, page>>)

Heard(reactions) ==
    (IF session.state # "off" THEN reactions ELSE {})
    \cup (IF noisy \/ session.state = "off" THEN {Misses(chip.mem, session)} ELSE {})

Taken(answer) == {answer} \cup (IF noisy THEN {"ack", "nack", "none"} ELSE {})

\* hitag_s_8268_authenticate_multi over the default passwords.
\* Mutant: the list is left one step too late.
AuthFailsPastLast(r, s) ==
    IF r = "Nack" /\ pwd <= Len(DefaultPasswords)
    THEN /\ pwd' = pwd + 1 /\ rpc' = "auth" /\ session' = s
         /\ Log
         /\ UNCHANGED <<tagMode, active, wakeVars, clockVars, idVars, authed, page, shown>>
    ELSE ReadReturns(r, "AUTH")
AuthFails(r, s) ==
    IF r = "Nack" /\ pwd < Len(DefaultPasswords)
    THEN /\ pwd' = pwd + 1 /\ rpc' = "auth" /\ session' = s
         /\ Log
         /\ UNCHANGED <<tagMode, active, wakeVars, clockVars, idVars, authed, page, shown>>
    ELSE ReadReturns(r, "AUTH")

Goes(at, s) ==
    /\ rpc' = at /\ session' = s
    /\ Log
    /\ UNCHANGED <<tagMode, active, wakeVars, clockVars, idVars, page, shown>>

AuthCommand ==
    /\ rpc = "auth"
    /\ \E x \in Heard(HearsWritePage(chip.mem, session, AuthPage)) : \E a \in Taken(x.answer) :
          \/ a = "ack"  /\ Goes("password", x.session) /\ UNCHANGED <<pwd, authed>>
          \/ a = "nack" /\ AuthFails("Nack", x.session)
          \/ a = "none" /\ AuthFails("Timeout", x.session)
    /\ UNCHANGED chipVars

AuthPassword ==
    /\ rpc = "password"
    /\ \E x \in Heard(HearsData(chip.mem, session, DefaultPasswords[pwd])) :
       \E a \in Taken(x.answer) :
          \/ a = "ack" /\ authed' = TRUE /\ pwd' = 1
             /\ Goes(IF shown[1] = <<>> THEN "reread" ELSE "pages", x.session)
          \/ a = "nack" /\ AuthFails("Nack", x.session)
          \/ a = "none" /\ AuthFails("Timeout", x.session)
    /\ UNCHANGED chipVars

\* Page 1 once more, if it could not be read before.
RereadConfig ==
    /\ rpc = "reread"
    /\ \E r \in Reply(Reads8268(1), Shows(chip.mem, 1)) :
          /\ config' = IF r.ok THEN r.word ELSE config
          /\ Keep(1, r.word)
    /\ rpc' = "pages" /\ session' = Disarmed(session)
    /\ Log
    /\ Stay(<<tagMode, active, wakeVars, clockVars, uid, opened, mode, pwd, authed, page>>)

\* Mutant: a page stored where the one before it belongs.
StoreAtPrevious(p) == p - 1
StoreAt(p)         == p

Protected(p) == p \in {2, 3} /\ authed /\ Parse(config).LKP = 1

NextPage ==
    /\ page' = page + 1 /\ rpc' = "pages"
    /\ Log
    /\ Stay(<<tagMode, active, wakeVars, clockVars, idVars, pwd, authed>>)

SkipProtected ==
    /\ rpc = "pages" /\ Protected(page)
    /\ NextPage
    /\ UNCHANGED <<session, shown>>

ReadPage ==
    /\ rpc = "pages" /\ ~Protected(page)
    /\ page <= 3 \/ page <= LastPage(config)
    /\ \E r \in Reply(Reads8268(page), Shows(chip.mem, page)) : Keep(StoreAt(page), r.word)
    /\ session' = Disarmed(session)
    /\ NextPage

PagesDone ==
    /\ rpc = "pages" /\ page > 3 /\ page > LastPage(config)
    /\ ReadReturns("Ok", "READ")

DebugReadStep ==
    \/ WakeHit \/ WakeMiss \/ WakeSelect
    \/ Fallback \/ OpenSession \/ GiveUp \/ ModeProbe \/ ModeSelect
    \/ ReadConfig \/ AuthCommand \/ AuthPassword \/ RereadConfig
    \/ SkipProtected \/ ReadPage \/ PagesDone

ReadInit ==
    /\ chip = NoChip /\ noisy = FALSE
    /\ shown = NoShown
    /\ ReadIdle
ReadTypeOK ==
    /\ chip \in Chips \cup {NoChip} /\ noisy \in BOOLEAN
    /\ session \in Session /\ tagMode \in {NoMode} \cup {Modes[i] : i \in 1..4}
    /\ rpc \in {"idle", "wake", "wakeSelect", "fallback", "session", "mode", "modeSelect",
                "config", "auth", "password", "reread", "pages"}
    /\ active \in 1..4 /\ probe \in 1..Probes /\ quiet \in 0..QuietLimit
    /\ tries \in 0..MaxSessions /\ elapsed \in Nat
    /\ start \in 0..(TickMod - 1) /\ now \in 0..(TickMod - 1)
    /\ uid \in Word /\ config \in Word /\ opened \in BOOLEAN
    /\ mode \in {NoMode} \cup {Modes[i] : i \in 1..4}
    /\ pwd \in DOMAIN DefaultPasswords /\ authed \in BOOLEAN
    /\ page \in Pages \cup {TopPage + 1}
    /\ shown \in [Pages -> Word \cup {<<>>}]
------------------------------------------------------------------------------
(* What must hold of it.                                                     *)
\* Every reply of the session carries a CRC8, or the channel adds nothing.
Trusted == ~noisy \/ mode # "STD"

\* Whatever frames were lost and whatever noise was decoded on the way to a
\* session, each page the debug read marks as read is the tag's, none lies
\* beyond its memory, and the UID shown is the tag's in one of its bit orders.
DebugReadFaithful ==
    opened /\ Trusted =>
        \A p \in Pages : shown[p] # <<>> =>
            IF p = 0 THEN chip.mem[0] \in UidVariants(shown[0])
            ELSE p <= LastPage(chip.mem[1]) /\ SameOnPage(p, shown[p], chip.mem[p])

\* A selected session is one the tag is in: the mode reported, the one replies
\* are decoded by and the one the tag answers in are the same, however many
\* modes and resets came before; without noise the reader also knows whether
\* the tag has accepted a password.
ModeAgrees ==
    opened /\ Trusted =>
        /\ mode = Modes[active] /\ tagMode = mode
        /\ session.state \in {"selected", "authed"}
        /\ ~noisy => (authed <=> session.state = "authed")

\* The generic sessions are begun within the budget of true time and no more
\* often than allowed, given up only when one of the two is used up, and over
\* one session (four modes of one tick) after the budget, wherever the tick
\* counter wraps.
BudgetKept ==
    /\ [][ rpc = "session" =>
              /\ rpc' = "mode" => elapsed < Budget /\ tries < MaxSessions
              /\ rpc' = "idle" => elapsed >= Budget \/ tries = MaxSessions ]_readVars
    /\ [](elapsed < Budget + 4)

\* On a clear channel a debug read that ends with Ok shows every page the tag
\* lets it read (pages 2 and 3 of a tag with LKP may be passed over) and no
\* other, one that ends in AUTH has been refused all five default passwords,
\* and on either channel the tag is unpowered when it is over.
ShowsAll ==
    \A p \in Pages \ {0} :
        \/ shown[p] = IF p <= LastPage(chip.mem[1])
                         /\ Readable(chip.mem, [state |-> "authed", armed |-> NoPage], p)
                      THEN Shows(chip.mem, p) ELSE <<>>
        \/ p \in {2, 3} /\ Parse(chip.mem[1]).LKP = 1 /\ shown[p] = <<>>

DebugReadComplete ==
    rpc = "idle" =>
        /\ session = Off
        /\ ~noisy /\ report.stage = "READ" => ShowsAll
        /\ ~noisy /\ report.stage = "AUTH" =>
              \A i \in DOMAIN DefaultPasswords : DefaultPasswords[i] # chip.mem[2]
==============================================================================
