--------------------------- MODULE HitagSWriteTrial ---------------------------
(* The write matrix of hitags_worker.c: the EM4100 id of a card is read three *)
(* times, then each of seven ways to write a T5577 is tried with a temporary  *)
(* id, and the first id is written back wherever a write has taken effect.    *)
(* One action per read and per write of the card.                             *)
EXTENDS HitagSTrace, Sequences

CONSTANTS
    CardIds,          \* ids a card may have; 0 is the id of zero bytes
    CardGuards,       \* "open", a password the card asks for, or "never"
    RestoreAttempts   \* WRITE_STIM_RESTORE_ATTEMPTS

ASSUME RestoreAssumption == RestoreAttempts \in Nat \ {0}
ASSUME CardIdsAssumption == CardIds \subseteq Nat

VARIABLES
    card,        \* the T5577 in the field: its id and what its writes ask for
    cardBefore,  \* history: the id when the matrix began
    wpc,         \* the place in hitags_worker_write_stimulus_verify
    original,    \* the id read before the trials
    seen,        \* the reads of the phase: baseline, or after a trial
    trial,       \* the trial in turn
    restores     \* restore attempts made for it

cardVars  == <<card, cardBefore>>
matrixVars == <<wpc, original, seen, trial, restores>>
trialVars == <<cardVars, matrixVars>>

Missed == -1
Temp(id) == IF id % 2 = 0 THEN id + 1 ELSE id - 1

Ids   == CardIds \cup {Temp(id) : id \in CardIds}
NoCard == [id |-> 0, guard |-> "never"]
Cards == [id : Ids, guard : CardGuards \cup {"open"}] \cup {NoCard}

\* The trials: the blocks of the mask and the password sent, if any.
Method(block0, pass) == [block0 |-> block0, pass |-> pass]
Trials == << Method(TRUE, "open"), Method(FALSE, "open"), Method(TRUE, "open"),
             Method(TRUE, "00000000"), Method(TRUE, "FFFFFFFF"),
             Method(TRUE, "51243648"), Method(TRUE, "app") >>

\* What a write of an id may do to the card: nothing if the card asks for
\* another password or none; else each block arrives or is lost.  Block 0, which
\* has no password bit, leaves the card open.
Written(c, id, method) ==
    IF c.guard # method.pass
    THEN {c}
    ELSE { [ id    |-> IF data THEN id ELSE c.id,
             guard |-> IF method.block0 /\ setup THEN "open" ELSE c.guard ] :
               data \in BOOLEAN, setup \in BOOLEAN }

\* hitags_worker_read_em4100_once: the card's id, or nothing in its time.
Reads == {card.id, Missed}
------------------------------------------------------------------------------
(* The verdict on a trial, from its three reads.                             *)
\* after: the last of the reads, or its zero bytes where all were missed.
Shown(r) == IF r = Missed THEN 0 ELSE r
After(s) == CASE s[3] # Missed -> s[3]
              [] s[3] = Missed /\ s[2] # Missed -> s[2]
              [] OTHER -> Shown(s[1])

Stable(s)   == \A i \in 1..3 : s[i] = original
TempSeen(s) == \E i \in 1..3 : s[i] = Temp(original)

\* A trial whose reads are not all the original may have changed the card; it
\* is left alone if the last of them is the original again.
\* Mutant: a trial whose reads are missed is taken for one without effect.
RestoreOnlySeen(s) == TempSeen(s) /\ After(s) = Temp(original)
RestoreNeeded(s) ==
    /\ ~Stable(s)
    /\ After(s) # original
------------------------------------------------------------------------------
MatrixIdle ==
    /\ wpc = "idle" /\ original = 0 /\ seen = <<>> /\ trial = 1 /\ restores = 0

\* The locals of the function are gone with it.
MatrixReturns(result, stage) ==
    /\ wpc' = "idle" /\ original' = 0 /\ seen' = <<>> /\ trial' = 1 /\ restores' = 0
    /\ TraceStop(result, stage)
    /\ UNCHANGED cardVars

MatrixStart ==
    /\ wpc = "idle"
    /\ wpc' = "baseline"
    /\ card' \in [id : CardIds, guard : CardGuards] /\ cardBefore' = card'.id
    /\ TraceStart("WRITE_MATRIX")
    /\ UNCHANGED <<original, seen, trial, restores>>

\* The user has taken the card away for another diagnostic.
CardCleared ==
    /\ card' = NoCard /\ cardBefore' = 0
    /\ UNCHANGED matrixVars

\* The first of the three reads that succeeded.
FirstRead(s) == CASE s[1] # Missed -> s[1]
                  [] s[1] = Missed /\ s[2] # Missed -> s[2]
                  [] OTHER -> s[3]

BaselineRead ==
    /\ wpc = "baseline" /\ Len(seen) < 3
    /\ \E r \in Reads : seen' = Append(seen, r)
    /\ Log
    /\ UNCHANGED <<cardVars, wpc, original, trial, restores>>

\* No read succeeded: the matrix ends without a write.
BaselineFails ==
    /\ wpc = "baseline" /\ Len(seen) = 3 /\ FirstRead(seen) = Missed
    /\ MatrixReturns("Timeout", report.stage)

BaselineDone ==
    /\ wpc = "baseline" /\ Len(seen) = 3 /\ FirstRead(seen) # Missed
    /\ original' = FirstRead(seen)
    /\ wpc' = "trial" /\ seen' = <<>>
    /\ Log
    /\ UNCHANGED <<cardVars, trial, restores>>

TrialWrite ==
    /\ wpc = "trial" /\ trial <= Len(Trials)
    /\ \E c \in Written(card, Temp(original), Trials[trial]) : card' = c
    /\ wpc' = "after"
    /\ Log
    /\ UNCHANGED <<cardBefore, original, seen, trial, restores>>

TrialRead ==
    /\ wpc = "after" /\ Len(seen) < 3
    /\ \E r \in Reads : seen' = Append(seen, r)
    /\ Log
    /\ UNCHANGED <<cardVars, wpc, original, trial, restores>>

NextTrial ==
    /\ wpc' = "trial" /\ trial' = trial + 1 /\ seen' = <<>> /\ restores' = 0
    /\ Log
    /\ UNCHANGED <<cardVars, original>>

TrialJudged ==
    /\ wpc = "after" /\ Len(seen) = 3
    /\ IF RestoreNeeded(seen)
       THEN /\ wpc' = "restore" /\ restores' = 0 /\ seen' = <<>>
            /\ Log
            /\ UNCHANGED <<cardVars, original, trial>>
       ELSE NextTrial

\* hitags_worker_t5577_write_em4100_id and the read after it.
Restore ==
    /\ wpc = "restore" /\ restores < RestoreAttempts
    /\ \E c \in Written(card, original, Method(TRUE, "open")) : card' = c
    /\ wpc' = "restored" /\ restores' = restores + 1
    /\ Log
    /\ UNCHANGED <<cardBefore, original, seen, trial>>

RestoreRead ==
    /\ wpc = "restored"
    /\ \E r \in Reads :
          IF r = original
          THEN NextTrial
          ELSE /\ wpc' = "restore"
               /\ Log
               /\ UNCHANGED <<cardVars, original, seen, trial, restores>>

\* A restore that fails ends the matrix, with the stage that says so.
RestoreFailed ==
    /\ wpc = "restore" /\ restores = RestoreAttempts
    /\ MatrixReturns("Error", "WRITE_STIM_RESTORE_FAILED")

\* The trials are over, or the scene has asked the worker to stop.
MatrixDone ==
    /\ wpc = "trial"
    /\ MatrixReturns("Ok", report.stage)

WriteTrialStep ==
    \/ BaselineRead \/ BaselineFails \/ BaselineDone
    \/ TrialWrite \/ TrialRead \/ TrialJudged
    \/ Restore \/ RestoreRead \/ RestoreFailed
    \/ MatrixDone

TrialInit ==
    /\ card = NoCard /\ cardBefore = 0
    /\ MatrixIdle

TrialTypeOK ==
    /\ card \in Cards /\ cardBefore \in Ids \cup {0}
    /\ wpc \in {"idle", "baseline", "trial", "after", "restore", "restored"}
    /\ original \in Ids \cup {0} /\ seen \in Seq(Ids \cup {Missed}) /\ Len(seen) <= 3
    /\ trial \in 1..(Len(Trials) + 1) /\ restores \in 0..RestoreAttempts
------------------------------------------------------------------------------
(* What must hold of it.                                                     *)

\* debug_read.c:197 "writes temp ID\nthen restores": every trial begins, and the
\* matrix ends, with the card showing the id it had, whichever writes and reads
\* were lost and whenever it is stopped, unless it ends with the stage of a failed
\* restore.  (An id of zero bytes is shown by a missed read too.)
MatrixRestoresTheCard ==
    cardBefore # 0 =>
        /\ wpc \in {"baseline", "trial"} => card.id = cardBefore
        /\ wpc = "idle" /\ report.stage = "WRITE_MATRIX" => card.id = cardBefore
==============================================================================
