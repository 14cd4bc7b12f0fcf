# Verification of the HiTag S writer

TLA+ models, TLC runs and TLAPS proofs of the Flipper Zero application that
reads and writes HiTag S tags of the 8268 family. `PROJECT.json` maps every
definition to the lines of the source it stands for and lists runs, mutants,
findings, hazards and theorems; this file says how they fit together.

    cd tla
    tlasany HitagSApp.tla
    tlc -workers 2 -config HitagSApp.cfg MCHitagSApp
    tlapm Hitag8268Proofs.tla

## 1. Inventory

The application is one Flipper app with two threads, over a bit-banged 125 kHz
reader. A user picks an operation in a scene; the scene starts the worker
thread; the worker runs a *sequence* against the tag, tries again when it
fails, and posts the result to the scene as a custom event.

| Component | Source | State | Operations | Talks to |
|---|---|---|---|---|
| Scenes, event loop | `scenes/*.c`, `hitags_writer_main.c` | scene stack, a state per scene, view shown, popup timer, `debug_tool`, `protocol_id` | on_enter / on_event / on_exit of 22 scenes, widget, dialog and popup callbacks | starts, stops and joins the worker; LF reader of the firmware |
| Worker thread | `hitags_worker.c` | `worker_op`, `worker_running`, thread flag STOP, attempt counter | retry loops of 7 operations, 8 diagnostics, micro probe | calls the sequences; posts events |
| 8268 sequences | `hitag_s_8268.c` | locals of each call, pages read | wake and UID, select, authenticate, write, EM4100 write, read, dump, clone, wipe, debug read | session layer |
| RF session layer | `hitag_s_session.c` | protocol mode, confirmation votes | UID request, SELECT, authenticate, WRITE_PAGE, READ_PAGE | codec, transport |
| RF transport, capture | `hitag_s_transport.c`, part of session | field on/off, edge buffer | field on/off, send bits, capture edges | hardware |
| Codec | `hitag_s_codec.c` | none | CRC8/16, bit packing, frames, UID variants, quality measure | |
| Configuration page | `hitag_s_proto.h`, `em4100_encode.c` | none | parse, pack, memory size, lock test, TTF set-up (`em4100_config_set_ttf`, which only its test calls), constant configuration of an EM4100 write | |
| EM4100 encoding | `em4100_encode.c` | none | parity encoding and decoding of a card number | |
| Dump model and files | `hitag_s_dump_model.h`, `hitag_s_dump_file.c` | dump pages, valid flags | clone plan, save, load | scenes, worker |
| Trace buffer | `hitag_s_trace.c` | 12 KiB string | start, append, stop | sequences, debug read scene |
| Write trial matrix | `hitags_worker.c` 464-829 | ID read first, trial in turn | try a write, verify, restore | LF reader, sequences |
| Offline tools, simulations | `*.py` | | trace analysis, UI and decoder simulations | not part of the app |

What is hard here, and what makes each part correct:

* **Channel.** A frame may be lost; noise may decode to an acknowledgement; the
  tag leaves and returns between any two exchanges. A verified write that
  reports success must still be true, an unverified one must at least keep to
  its pages and never lose the password.
* **Order.** Data, then configuration, then UID: the configuration may lock the
  data pages, and the UID is what a later call finds the tag by.
* **Sessions.** Every sequence has a dozen early returns, and each has to switch
  the field off.
* **Threads.** The UI thread joins the worker inside an event handler; results,
  timeouts, the LF reader's callback and Back arrive in any order; small event
  numbers mean one thing in a menu and another in a dialog.
* **Bounds.** Lock bits are chained page limits, memory sizes come from the tag,
  and password lists, traces and debug read budgets are bounded. Every loop of
  a debug read has to end, also where the tick counter wraps.
* **Restoring.** The write matrix writes to a card it has to leave as it found
  it; a dump saved, loaded and cloned has to be the tag that was dumped.
* **Misreads.** A frame with wrong bits must be refused, never taken for another
  card number, page or UID.

## 2. Modules

    TagWord           words of four bytes, as pages hold them
    HitagSConfig      configuration page: parse, pack, locks, the two words written
    HitagSUid         UID variants, the filter of implausible UIDs
    HitagSCodec       CRC8, CRC16, SELECT and READ UID frames, replies under a CRC
    Em4100            EM4100 frame of a card number, its strict decoder
    HitagSFrames      frames of these with wrong bits, what they may be read as
    Tag8268           the tag: password, locks, armed page        (external chip)
    Hitag8268         sequences of hitag_s_8268.c over the session layer
    HitagSDump        dump, .hts file, clone plan
    TagUpdate         abstract: an update touches the pages of its job only
    Hitag8268Props    their properties, refinement of TagUpdate, inductive invariant
    Hitag8268Clones   a dump saved, loaded and cloned by the sequences
    HitagSTrace       the bounded trace buffer and the report of a diagnostic
    HitagSWriteTrial  the write matrix of hitags_worker.c over a T5577
    HitagSDebugRead   wake matrix, protocol modes, votes, sessions, pages
    HitagSDiagnostics both, one at a time, over the one trace
    HitagSWorker      the worker thread's retry loop, start, stop and join
    HitagSScenes      the event handlers of the scenes, as pure operators
    HitagSApp         UI thread, event queue, worker, popup timer, LF reader, user
    SetInduction      least elements and induction over sets of numbers
    Hitag8268Proofs, Hitag8268PromiseProofs, Hitag8268OutcomeProofs,
    HitagSAppProofs, HitagSPatienceProofs, HitagSDiagnosticsProofs,
    HitagSFramesProofs                                           TLAPS
    MCHitagSFrames, MCHitag8268, MCHitagSDiagnostics, MCHitagSApp    instances for TLC

`Hitag8268` extends `Tag8268`, `HitagSUid` and `HitagSConfig`; `HitagSDebugRead`
extends `Tag8268` and `HitagSTrace`; `HitagSApp` extends `HitagSScenes`, which
extends `HitagSWorker`. The sequences and the application meet at a sequence
call: in `HitagSWorker` a call is one step with any outcome, and `Hitag8268`
says what it does to the tag and that it returns (`EveryCallReturns`, the reason
why `WorkerStep` may be assumed fair). Likewise a diagnostic is one step of the
worker there, and `HitagSDiagnostics` shows that it ends (`DiagnosticsEnd`).

### The sequences (Hitag8268)

One action per exchange with the tag. `pc` is the place in the code: `probe`
(mode switch and UID request), `select`, `auth` and `password` (the two halves
of WRITE_PAGE 64), `config` (EM4100 write and dump read page 1), then the steps
of a plan: `step`, `data` (second half of WRITE_PAGE) and `readback`
(`hitag_s_write_page_verify`). A *plan* is the list of pages a sequence reads
or writes in the order of its loops; wipe and dump make theirs from the
configuration the tag reports, a clone skips pages locked by it.

`mem`, `session`, `near` are the tag. The tag is external: what it accepts is
taken from how the code drives it. It checks the password against page 2,
stays selected after a refused password, accepts page 64 without a session in
plain mode, enforces the lock bits, and answers READ_PAGE 1 with PWDH0 hidden
(README.md:141 of the repository). `Lossy` allows lost frames and a tag that
comes and goes; `Noise` allows any two-bit acknowledgement in place of an answer
and a UID out of `MisreadUids`. Replies with a CRC8 are correct or rejected.

The EM4100 write tests the locks of pages 4 and 5 before it writes anything
(`PlanEm4100`). Left out: pulse timing and Manchester decoding. These sequences ask
for the UID in one mode with one capture; the four protocol modes with the votes
of `open_session` belong to the debug read. A tag whose UID the
filter of implausible UIDs rejects is out of reach of every call; `ReliableOutcome`
describes that (`Reached`) and no property forbids it.

### Dumps (HitagSDump)

Operators, not actions: `Saves` gives the files a save may leave (it can fail
after any page line), `Load` what the loader makes of one, `PlanOf` the clone
plan. A file is the lines of it the loader looks for. The reader of the file
format is firmware; it looks for a key from where it stands to the end of the
file, and after a missing key it stands at the end (`Finds`). `Hitag8268Clones`
turns a saved and loaded dump into a clone call, so that the clone actions of
`Hitag8268` run on it.

### Frames (HitagSFrames)

A state is a frame as it arrives: one that a tag or the program makes, with up
to `MaxFlips` bits inverted, one by one. The properties say what parser, decoder
and checksums make of each. The response of a Hitag micro tag, with a CRC16 over
error flag and UID, is external (`HtuFrame`); it arrives with its flag or without.

### The diagnostics (HitagSWriteTrial, HitagSDebugRead, HitagSTrace)

The write matrix has one action per read and per write of the card. The card is
a T5577, external: it takes a write that sends the password it asks for, or a
plain write if it asks for none; each block of a write arrives or is lost, and
block 0, written without a password bit, leaves the card open. A read gives the
card's id or nothing: a read of wrong bits does not give another id, which
`CardNeverMisread` shows of one and two wrong bits. What protected the card before is not restored,
only its id, and no document says otherwise. `MatrixRestoresTheCard` leaves out
the id of zero bytes, which a missed read shows too.

The debug read has one action per UID probe of a mode, per SELECT, password and
page. `active` is the static `active_mode_idx` by which replies are decoded,
`mode` what the session reports, `tagMode` the mode the tag answers in. A UID
request in the wake matrix is one capture; in `open_session` it is three with
two votes (`Confirmations`). The channel is clear or, for the whole run, noisy:
then frames are lost, captures decode to `StrayUids`, acknowledgements are
invented and, in STD mode, whose replies have no CRC8, pages may be any word of
`Garbles`; so the properties speak of sessions that are `Trusted`. The tag stays
where it is during a run. `probe` counts the pairs of wake point and mode.
The tick `now` is a counter modulo `TickMod`, `elapsed` the true time it stands
for; a mode takes zero or one ticks. Locals that are read no more are set back to
keep the instance small.

The trace counts lines, not bytes. `logged` is a history variable: how many lines the
run has logged, counted up to the budget.

Left out: the samples of edges between the reads of the matrix, the text of the trace,
the other diagnostics, which only collect one. The debug read passes over pages 2
and 3 when it has authenticated and LKP is set, the dump only when auth is set as
well; both are modelled as written.

### The application (HitagSApp)

A *screen* is what the control depends on: the scene's state, the custom events
its view can send and whether a popup timeout is armed. A handler is an
operator from scene, screen and event to a *reaction*: stay with a screen or
change scene, stop the worker, start an operation. `HitagSApp` turns that into
steps. `TakeEvent` takes the oldest custom event and, when the handler will
stop the worker, sets the flag. `Handle` is the rest of the handler, possible
once the thread is over. Between the two the worker, timers and the LF reader
go on: that is the time the UI thread is inside `furi_thread_join`.
`PressBack` begins at once, since the dispatcher hands Back over without the
custom event queue. `Enter` runs on_exit of the scene left and on_enter of the
one reached in the same step, as the scene manager does; `SelectFile` and
`LoadDump` run a file browser in on_enter and land in one of two places.

The scene manager, the view dispatcher, the GUI modules and the LF reader are
firmware, modelled as the source uses them. "Diagnostic" stands for the six
diagnostics with the same control (TTF timing, three disturb and late command
tests, T5577 and EM4x05 detection). The menus' selected line, texts, icons,
notifications and the LF reader's sense events are left out.

## 3. Runs

| Run | Asks | Instance |
|---|---|---|
| `frames` | parse and pack lose nothing, the locks follow the documented groups, one bit moves one lock, `em4100_config_set_ttf` keeps locks and size and changes the TTF fields, auth and RES0 only; EM4100 frames, CRC8 replies and micro responses with wrong bits are refused | every frame within two flipped bits of four configuration words, two card numbers, two replies, two UIDs in responses with and without their flag |
| `reliable` | each call does exactly what `Effect` says and succeeds exactly when `Succeeds` says, calls in any order; passwords are all tried; a whole dump saved, loaded and cloned is on the tag | ten tags (locks in each group, LCON, LKP and auth, three other passwords, an unknown one, a zero UID), twelve calls and the clones of two dumps |
| `noisy` | verified writes, reads and dumps under loss, noise, misread UIDs; no session left behind; safe order; `TagUpdate`; each call returns | two tags, five calls |
| `lossy` | clone and wipe under loss: page count, password, order, `TagUpdate` | a tag with a lock bit set, wipe with the default password list, a clone |
| `app` | patient user: no assertion fails, presses act where made, traces and results are not mixed up, runs and handlers end | 2 attempts, one waiting press |
| `app_hurried` | any user: a worker belongs to the scene on top, one reader, no scene twice | 2 attempts, two waiting presses |
| `diagnostics` | the card keeps its id, pages shown are the tag's, mode and session agree, the budget is kept, the trace is the run's, every diagnostic ends | six chips (none, micro, plain, LKP, last password, unknown password), three ids, four kinds of T5577, both channels |
| `clone_unverified`, `comments`, `clone_gap`, `misread_dump`, `double_start` | what a document or an assertion claims and the code does not do (section 5) | smallest instance that shows it |

**Bounds and why they are enough.** `TopPage = 7`: eight pages hold the UID,
the configuration, the password, page 3, and two lock groups (4-5 and 6-7); loops over further
pages repeat the same step. `MaxFlips = 2` reaches every pair of bits of the
words the program writes; a lock is one bit of one byte. `Attempts = 2` stands
for 10 or 15: first, last, and a wait between. `Presses` bounds what waits in
the queue: 1 is a user who lets a press be handled before the next, 2 lets a
press be read by a scene it was not made for. `QueueBound` keeps the timer and
the LF reader from adding to a long queue; the firmware's queue holds more than
the model's ever does, so no sender blocks on it in either.

In `diagnostics`, `TopPage = 5` keeps one data group; `WakePoints = 2` with
`QuietLimit = 3` lets the matrix stop within a wake point, across two, and at its
end (8 points and 12 in the code); `Budget = 5`, `MaxSessions = 3` and
`TickMod = 16` from ticks 0 and 14 let either bound end the loop, with and
without a wrap; `RestoreAttempts = 2` (5 in the code) has a first, a last and one
between trials; `TraceCap = 2` fills the trace in every run.
`CardNeverMisread` holds up to two wrong bits and no further: a data bit with the
parities of its row and column makes another card.

With loss **and** noise the unverified calls can slip by a frame: the tag stays
armed for one page and takes the data of the next. No document claims
otherwise, so clone and wipe are checked with loss alone (listed as a hazard).

`comments` checks `SomeCommentHolds`, a disjunction of five formulas `[]P`, one for
each statement of the documentation. A behaviour violates it only if it violates
every one of the five, so the counterexample, a wipe and an EM4100 write of one
tag, is the evidence for five findings. Checked as an invariant of its own, each
of the five is violated as well.

**Fairness.** `Hitag8268!FairSpec`: each exchange of the reader ends, by answer
or by timeout, as every capture loop in `hitag_s_session.c` is bounded; the tag
and the application's next call are not assumed fair. `HitagSApp!FairSpec`: the scheduler
runs the UI thread and the worker when they can run. The user, the popup timer
and the LF reader are not assumed to do anything. `RunsEnd` needs no press:
the worker runs out of attempts and the scene stops it on its result.
`HitagSDiagnostics!Spec`: the worker goes on with a diagnostic, as every capture
and every read it waits for has a timeout; nobody has to begin one.

Deadlock is checked in all runs but `frames`, whose frames stop at the bound.

Every property of a passing run has a *mutant*: a changed definition, next to
the original in its module, under which TLC finds the property violated.

## 4. Proofs

The theorems hold for every value of the constants the modules allow: any tag
size of 6 to 64 pages, any tags, calls, misread UIDs and channel; any number of
attempts, presses and queue bound; any cards, numbers of trials, wake points,
sessions, budget and tick counter, any trace of at least two lines; any
configuration words, card numbers, replies, UIDs and dumps. The
`ASSUME`s say what the modules allow, and TLC evaluates them in the runs: calls
are well typed, write no page twice, an EM4100 write is about pages 4 and 5, a
clone plan about data pages; dumps have the pages up to their last one
(`DumpsAssumption`), frames are made of words, card numbers and UIDs
(`FramesAssumption`); card ids are numbers (`CardIdsAssumption`), noise
decodes to words (`WordsAssumption`), the tick counter counts further than the
budget and one more session (`BudgetAssumption`). A theorem that needs more says
so in its own `ASSUME`:

| Assumption | Theorems | Why it is needed |
|---|---|---|
| `ChannelFits`: clones and wipes are called on a channel that loses frames or invents acknowledgements, not both | `CallsKeepTheirPromise`, `TagStaysReachable`, `WritesInSafeOrder` | without a read-back the tag can stay armed for one page and take the value of the next; `WriteCommand` does not keep `DataForTheStep` there |
| `PasswordNotWritten`: no `write` names page 2 | `TagStaysReachable` | a write of page 2 sets a password on purpose; the application's write names page 0 only |
| `OrderedCalls`: a `write` names page 1 before 0, 0 last | `WritesInSafeOrder`, `CallsDoTheirEffect`, `ClonesRestoreDumps` | the order of a write is its caller's; the application's is page 0 alone |
| `~Noise` | `WipesCountEnough` | an invented acknowledgement is counted for a page that comes later |
| `~Lossy`, `~Noise` | `RefusalsAreTrue` | a lost frame or an invented NACK is a refusal the tag never meant |
| the same | `CallsDoTheirEffect`, `ClonesRestoreDumps` | `ReliableOutcome` is the reference for a channel that does nothing of its own |
| `MaxFlips <= 2` | `CardDecodedRight`, `ReplyReadRight`, `HtuReadRight` | three wrong bits can make another card (a data bit and two parities) |
| `Presses = 1` | HitagSPatienceProofs | the run `double_start` violates `NoDoubleStart` with 2 |

**The sequences.**

* `TypeCorrect` (Hitag8268Proofs): beyond types, `TypeOK` says that `try` never
  leaves the password list and that a data frame or read-back always belongs to
  a write step of the plan. One lemma per action.
* `SessionsEnd` (Hitag8268Proofs): each action either goes on with the
  call or is `Return`, which ends in `field_off`.
* `VerifiedWrites`: `VerifiedOk` alone is not inductive: it says nothing of a
  call in progress. `VerifiedInv` adds `StepsBehindHold` (the plan's steps
  already passed are on the tag), `ArmedForTheStep` (the tag is armed for no
  other page than the one being written or for page 64, so a stray data frame
  cannot spoil a finished page) and `StartsAtFirst`. A step is passed only after
  a read-back equal to what was written; equal data frames to another page are
  excluded by `DistinctPages`.
* `DumpsShowTheTag` (Hitag8268PromiseProofs): `SetupInv` says that before the first
  page nothing is programmed, armed or read (`NothingDone`), that the
  configuration worked with is the tag's up to the bit it hides (`ConfigKnown`)
  and that an unpowered tag has forgotten what was armed. `ReadingInv` adds that
  a call that reads leaves the tag as it was and that every page marked so far
  is the tag's. A dump may then lose the tag at any step.
* `RefusalsAreTrue`: `RefusedSoFar` says that the passwords before `try` are not
  the tag's; authenticate_multi gives up only past the last.
* `CallsKeepTheirPromise` (Hitag8268PromiseProofs): the refinement of `TagUpdate`,
  initial states to initial states, each step to a step or a stutter.
  `PromiseInv` carries what that needs: the call is one of the calls given, each
  step of the plan does its job (page and value), and a tag about to take a data
  frame is armed for the page of the step at hand (`DataForTheStep`). The last
  one comes from read-backs in verified calls and from `ChannelFits` in the others.
* `TagStaysReachable`: each step of the abstract job that programs page 2 gives it
  the factory password.
* `WritesInSafeOrder`: plans are in that order (`PlanInOrder`), and a page that
  differs from before belongs to a step behind or to the one at hand
  (`ChangedBehind`); so after the configuration only the UID is left.
* `WipesCountEnough`: the number of pages that differ is at most the count. A page
  is programmed and counted in the same step as long as no acknowledgement is invented.
* `CallsDoTheirEffect` (Hitag8268OutcomeProofs): `ReliableOutcome` compares the
  end of a call with a closed form, so the invariant `OutcomeInv` has to say at
  every step how far the call has come. `StepsDone` says that the pages of the
  steps behind hold what the job gives them, as far as the locks of the
  configuration *before* the call allow, and that a wipe has counted exactly
  those; `DumpSoFar` that the pages behind are read exactly where the tag lets
  them be; `Connected` that tag and call agree on the session. `OrderInv` and
  `RefusalInv` from above supply what has changed and which passwords are left.
  The safe order matters here: the configuration changes only after the last
  page it could lock, or a call would not do what it does from the locks it saw.
  `CloneCovers`, `WipeCovers` and `DumpCovers` say that the plans miss no page.
* `ClonesRestoreDumps`: with the theorem before, a matter of the dump: each line
  saved is found again by the loader, page by page (`StageByStage`, by induction
  over the lines), so that the clone's job has the pages of the dump.

**Frames** (HitagSFramesProofs).

* `ParsePackRoundTrip`, `DocumentedLocks`, `TtfKeepsLocks`, `BitsLockOneGroup`:
  a byte is its eight bits and back (`BitsOfByte`, `ByteOfBits`), so each field
  of the configuration depends on its own bits; a page belongs to exactly one
  lock group (`DocumentedGroups`). `TtfKeepsLocks` compares the parsed word field by
  field with the documented change (`SetTtfParsed`).
* `CardDecodedRight`: two frames of different cards differ in three bits or more
  (`CardDistance`: a wrong data bit needs the parity of its row, or a second bit
  of the row, to be wrong too, and then nothing is left for its column).
* `ReplyReadRight`: the CRC register is linear (`ShiftOfXor`, `RunDifference`): what
  two runs differ by depends on the difference of their inputs alone. A single
  wrong bit among the 32 leaves a difference of at least two bits in the register
  (`OneDifference`), so one wrong checksum bit cannot hide it, and two wrong data
  bits never cancel (`TwoDifferences`). A register of eight bits is checked bit
  by bit as it moves; the runs are followed by induction (`SetInduction`).
* `HtuReadRight`: the first difference leaves the polynomial in the register, which
  shifts on without ever becoming clear, and a second difference could clear it
  only if the polynomial came back, which it does not within the positions of a
  response (`NoReturn16`); so two responses without a remainder never differ in
  one or two bits (`ResponseDistance`). That
  a response with its own checksum leaves no remainder is `CleanResponse`.

**The application.** `HitagSAppProofs` holds however fast the user presses.
`SceneInv` gives each scene a *depth* that every push increases (`Descends`),
and says that a running worker is the one the top scene starts and never behind
a question. From it follow `StackDescends` (no scene twice, at most seven deep),
`WorkerStaysInScene` and `ReaderHasOneUser`. Each handler is shown once to keep
to a few rules, and the steps are proved from the rules alone.

`HitagSPatienceProofs` is about a user who lets each press be handled before
the next. `PatienceInv` adds where events can be: a press is the last of the
queue and offered by the screen it was made on (`PressIsLast`), in a worker's
scene at most one event is on its way, and that is the result of the run which is
over, the end of a popup or a press (`OneAtATime`), no worker runs behind a screen
with buttons or a timeout (`ScreenFits`), its thread lives as long as it runs
(`ThreadFits`), and only the result scenes cover a worker's scene
(`WorkerSceneOnTop`). From it follow `PressActsWhereMade`,
`WorkerStartsOnce`, `SavedTraceIsStill`, `ResultEndsItsRun` and `AppTypes`.

**The diagnostics.** `CardIsRestored` (HitagSDiagnosticsProofs) follows from
`MatrixInv`: what was read is the card's id, the original is the id before, and
the phases in which the card may differ are those that a restore follows.
`SceneGetsItsTrace` follows from `TraceInv`: during a run the buffer is cut exactly
when it is full. For the debug read, `ReadInv` says what each phase finds
in its locals (`Phases`) and that a session to be trusted is with the tag in the
field, in its mode, with its configuration (`Linked`); `PagesAreTheTags` and
`OneModeForAll` follow. `EndsInv` adds what a reading on a clear channel still
owes (`ReadsAreComplete`) and completes the types (`DiagnosticsTypes`). `BudgetIsKept`
is an action property: `ClockInv` says that the tick is the true time since the
start or one turn of the counter less, and `TickMod > Budget + 4` makes their
difference unambiguous.

**What proving changed.** Two CASE expressions of `Hitag8268Props` (the value of a
wiped page, the outcome of a call) and two of `HitagSWriteTrial` had arms that
overlap. TLC takes the first arm, the language leaves the choice open, and
nothing could be proved of them; they are disjoint now. The write arm of
`Reachable`, in the reference of a call, was right only of the writes the run makes;
it now has the pages before the first locked one of any list. `WordBits`, `Encode`
and `Ascending` are functions on intervals now, as the prover can follow. The assumptions on card ids, noise words and the tick counter were
used silently before. `HtuNeverMisread` was false, and the run did not show it: the
code tries a response without its flag also as one that never had a flag, and that
check leaves the last UID byte out (`Crc16Input`). The UID of zeros, whose checksum
is zero in both forms, with a wrong bit in that byte is accepted as another UID.
The property now names this exception, and the run has that UID: without the
exception TLC finds it violated.

**Model-checked only.** Liveness: `EveryCallReturns`, `RunsEnd`, `HandlersEnd` and
`DiagnosticsEnd`. The prover has no fairness and no ENABLED to reason with. Every
other property of the passing runs is a theorem. The theorems on frames say
nothing of three and more wrong bits, nor do the runs.

## 5. Findings

* `clone_unverified`: clone uses `hitag_s_write_page` without read-back, and a
  missing final acknowledgement counts as success.
* `comments`, five statements that do not hold together with the code:
  * `WipeClears` (README.md:16, "Clear all data pages"): wipe tries locked data
    pages before it replaces the configuration that locks them, skips the
    failures and returns Ok.
  * `WipeZeroesPwdh0` (`hitag_s_proto.h:610`, "PWDH0: kept as 0x00"): wipe writes
    BB, the first byte of the factory password.
  * `Em4100ConfigFirst` (`hitag_s_proto.h:502-503`, "Write config -> Write EM4100
    data pages 4,5"): the EM4100 write writes the data first. README.md:49 ("Safe
    write order") agrees with the code, and `SafeWriteOrder` is that order.
  * `Em4100KeepsConfig` (`hitag_s_proto.h:502`, "Modify TTF", `em4100_encode.h:38-39`,
    "read from the chip and modified"): the EM4100 write writes a constant,
    which keeps neither locks nor memory size; `Effect` has that constant.
  * `SetTtfKeepsOthers` (`em4100_encode.h:49-50`, "Preserves all other config
    bits"): `em4100_config_set_ttf` clears auth and RES0 as well. Its test asks
    for that, nothing else calls it. `SetTtfKeepsLocks` states what it does change.
* `clone_gap`: a dump that lacks page 1 is saved as good, and its clone writes
  configuration 0; of a tag that hides pages 2 and 3 no later page is loaded,
  since the reader of the file only searches forward. Both clones report Ok.
* `misread_dump`: a dump stores the UID as decoded, not the variant SELECT used.
* `double_start`: two presses that wait together start the worker twice. It
  rests on the firmware turning both presses into custom events before it hands
  over the first one, as it can while the UI thread joins a worker.

## 6. Plan

1. Sequences, application, their first proofs (done).
2. Write matrix with its restore, debug read with modes, votes and budget, the
   trace they share (done).
3. Dump files and clone plan, EM4100 frames, checksums (done).
4. Proofs of the application, the diagnostics, dumps, refusals, safe order, page
   counts and the refinement of `TagUpdate` (done).
5. What a call leaves on the tag, clones of dumps, the configuration page and the
   frames for every value (done).

All of the plan is done.

Not modelled: edge capture and Manchester decoding, the AC2K quality measure and
the TTF pattern test (signal processing; their result is `Captures` and the
noise above), the Hitag micro probe's search over capture candidates (only its
result matters to the application, its decoder is in `HitagSCodec`), the
diagnostics that only sample edges into a trace, the Python tools, and the firmware itself.
