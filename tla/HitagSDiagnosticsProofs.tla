------------------------ MODULE HitagSDiagnosticsProofs ------------------------
(* Theorems about the worker's diagnostics: the trace handed to the scene is  *)
(* that of the run reported, and the write matrix gives the card its id back. *)
(* The session of a debug read is one the tag is in, the pages it marks as    *)
(* read are the tag's, on a clear channel all of them are read or all         *)
(* passwords were refused, and its budget holds wherever the tick counter     *)
(* wraps: for any chips, noise, budget and wake matrix.                       *)
EXTENDS HitagSDiagnostics, SequenceTheorems, TLAPS

\* Only one of the two runs, and a debug read knows no card.
OneRuns == rpc # "idle" => wpc = "idle" /\ cardBefore = 0

------------------------------------------------------------------------------
(* The trace.                                                                 *)

\* While a run goes on the buffer is cut exactly when it is full.
TraceInv ==
    /\ logged \in 0..TraceCap
    /\ IF NoDiagnostic
       THEN buffer = NoTrace /\ (logged > 0 => report.trace = Kept)
       ELSE /\ logged > 0 /\ buffer = Kept /\ report.trace = NoTrace
            /\ truncated = (logged = TraceCap)

\* A step of a run logs a line or, with the last one, hands the trace over.
LEMMA MatrixStepsLog ==
    ASSUME WriteTrialStep
    PROVE  /\ wpc # "idle"
           /\ \/ wpc' # "idle" /\ Log
              \/ wpc' = "idle" /\ \E result, stage : TraceStop(result, stage)
<1>1. CASE BaselineRead BY <1>1 DEF BaselineRead
<1>2. CASE BaselineFails BY <1>2 DEF BaselineFails, MatrixReturns
<1>3. CASE BaselineDone BY <1>3 DEF BaselineDone
<1>4. CASE TrialWrite BY <1>4 DEF TrialWrite
<1>5. CASE TrialRead BY <1>5 DEF TrialRead
<1>6. CASE TrialJudged BY <1>6 DEF TrialJudged, NextTrial
<1>7. CASE Restore BY <1>7 DEF Restore
<1>8. CASE RestoreRead BY <1>8 DEF RestoreRead, NextTrial
<1>9. CASE RestoreFailed BY <1>9 DEF RestoreFailed, MatrixReturns
<1>10. CASE MatrixDone BY <1>10 DEF MatrixDone, MatrixReturns
<1> QED BY <1>1, <1>2, <1>3, <1>4, <1>5, <1>6, <1>7, <1>8, <1>9, <1>10 DEF WriteTrialStep

\* So does a step of the debug read.
LEMMA ReadStepsLog ==
    ASSUME DebugReadStep
    PROVE  /\ rpc # "idle"
           /\ \/ rpc' # "idle" /\ Log
              \/ rpc' = "idle" /\ \E result, stage : TraceStop(result, stage)
<1> DEFINE G == \/ rpc' # "idle" /\ Log
                \/ rpc' = "idle" /\ \E result, stage : TraceStop(result, stage)
<1>1. ASSUME NEW r, NEW st, ReadReturns(r, st) PROVE G BY <1>1 DEF ReadReturns
<1>2. ASSUME NEW r, NEW s, AuthFails(r, s) PROVE G BY <1>1, <1>2 DEF AuthFails
<1>3. ASSUME NEW at, NEW s, Goes(at, s), at # "idle" PROVE G BY <1>3 DEF Goes
<1>4. CASE WakeHit BY <1>4 DEF WakeHit, TakeUid
<1>5. CASE WakeMiss BY <1>5 DEF WakeMiss
<1>6. CASE WakeSelect BY <1>6 DEF WakeSelect, SelectOk
<1>7. CASE Fallback BY <1>1, <1>7 DEF Fallback
<1>8. CASE OpenSession BY <1>8 DEF OpenSession
<1>9. CASE GiveUp BY <1>1, <1>9 DEF GiveUp
<1>10. CASE ModeProbe BY <1>10 DEF ModeProbe, ModeOver, TakeUid
<1>11. CASE ModeSelect BY <1>11 DEF ModeSelect, SelectOk, ModeOver
<1>12. CASE ReadConfig BY <1>12 DEF ReadConfig
<1>13. CASE AuthCommand BY <1>2, <1>3, <1>13 DEF AuthCommand
<1>14. CASE AuthPassword BY <1>2, <1>3, <1>14 DEF AuthPassword
<1>15. CASE RereadConfig BY <1>15 DEF RereadConfig
<1>16. CASE SkipProtected \/ ReadPage BY <1>16 DEF SkipProtected, ReadPage, NextPage
<1>17. CASE PagesDone BY <1>1, <1>17 DEF PagesDone
<1>18. rpc # "idle"
  BY DEF DebugReadStep, WakeHit, WakeMiss, WakeSelect, Fallback, OpenSession, GiveUp,
         ModeProbe, ModeSelect, ReadConfig, AuthCommand, AuthPassword, RereadConfig,
         SkipProtected, ReadPage, PagesDone
<1> QED BY <1>4, <1>5, <1>6, <1>7, <1>8, <1>9, <1>10, <1>11, <1>12, <1>13, <1>14, <1>15,
           <1>16, <1>17, <1>18 DEF DebugReadStep

\* The steps of the worker, seen from the trace.
LEMMA WorkerLogs ==
    ASSUME Worker, OneRuns
    PROVE  /\ ~NoDiagnostic
           /\ \/ ~NoDiagnostic' /\ Log
              \/ NoDiagnostic' /\ \E result, stage : TraceStop(result, stage)
BY MatrixStepsLog, ReadStepsLog DEF Worker, NoDiagnostic, OneRuns, readVars, trialVars, matrixVars

\* A line added to the kept trace of n lines.
LEMMA AppendedLine ==
    ASSUME NEW n \in 1..TraceCap
    PROVE  LET m == Capped(n + 1) IN
           /\ m \in 1..TraceCap
           /\ Appended([lines |-> n, marker |-> n = TraceCap], n = TraceCap)
                = [ buffer    |-> [lines |-> m, marker |-> m = TraceCap],
                    truncated |-> m = TraceCap ]
<1> DEFINE b == [lines |-> n, marker |-> n = TraceCap]
<1>1. TraceCap \in Nat /\ n \in Nat /\ n <= TraceCap BY TraceCapAssumption
<1>2. b # NoTrace BY <1>1, SMT DEF NoTrace
<1>3. CASE n = TraceCap
  <2>1. Capped(n + 1) = n BY <1>1, <1>3 DEF Capped
  <2>2. Appended(b, n = TraceCap) = [buffer |-> b, truncated |-> n = TraceCap]
    BY <1>3 DEF Appended
  <2> QED BY <1>1, <2>1, <2>2
<1>4. CASE n # TraceCap
  <2>1. Capped(n + 1) = n + 1 /\ n + 1 \in 1..TraceCap BY <1>1, <1>4 DEF Capped
  <2>2. b.lines = n OBVIOUS
  <2>3. Appended(b, n = TraceCap)
          = [ buffer    |-> [lines |-> n + 1, marker |-> n + 1 = TraceCap],
              truncated |-> n + 1 = TraceCap ]
    BY <1>2, <1>4, <2>2 DEF Appended
  <2> QED BY <2>1, <2>3
<1> QED BY <1>3, <1>4

\* The line and the end of a run, in terms of the lines logged.
LEMMA NextLine ==
    ASSUME TraceInv, ~NoDiagnostic
    PROVE  LET m == Capped(logged + 1)
               t == [lines |-> m, marker |-> m = TraceCap]
           IN  /\ m \in 1..TraceCap
               /\ Appended(buffer, truncated) = [buffer |-> t, truncated |-> m = TraceCap]
<1>1. /\ logged \in 1..TraceCap /\ truncated = (logged = TraceCap)
      /\ buffer = [lines |-> logged, marker |-> logged = TraceCap]
  BY TraceCapAssumption DEF TraceInv, Kept
<1> QED BY <1>1, AppendedLine

\* A logged line keeps the buffer whole or cut, ...
LEMMA LogKeeps ==
    ASSUME TraceInv, ~NoDiagnostic, Log
    PROVE  /\ logged' \in 1..TraceCap /\ buffer' = Kept' /\ report' = report
           /\ truncated' = (logged' = TraceCap)
<1> DEFINE m == Capped(logged + 1)
           t == [lines |-> m, marker |-> m = TraceCap]
           a == [buffer |-> t, truncated |-> m = TraceCap]
<1>1. m \in 1..TraceCap /\ Appended(buffer, truncated) = a BY NextLine
<1>2. a.buffer = t /\ a.truncated = (m = TraceCap) OBVIOUS
<1>3. logged' = m /\ buffer' = t /\ truncated' = (m = TraceCap) /\ report' = report
  BY <1>1, <1>2 DEF Log
<1> QED BY <1>1, <1>3 DEF Kept

\* ... and the scene is handed just that.
LEMMA StopKeeps ==
    ASSUME TraceInv, ~NoDiagnostic, NEW result, NEW stage, TraceStop(result, stage)
    PROVE  /\ logged' \in 1..TraceCap /\ buffer' = NoTrace /\ (report.trace = Kept)'
           /\ report' = [trace |-> Kept', result |-> result, stage |-> stage]
<1> DEFINE m == Capped(logged + 1)
           t == [lines |-> m, marker |-> m = TraceCap]
           a == [buffer |-> t, truncated |-> m = TraceCap]
<1>1. m \in 1..TraceCap /\ Appended(buffer, truncated) = a BY NextLine
<1>2. a.buffer = t OBVIOUS
<1>3. logged' = m /\ buffer' = NoTrace
      /\ report' = [trace |-> t, result |-> result, stage |-> stage]
  BY <1>1, <1>2 DEF TraceStop
<1> QED BY <1>1, <1>3 DEF Kept

\* No step breaks it.
LEMMA TraceInvStep ==
    ASSUME TraceInv, OneRuns, [Next]_vars
    PROVE  TraceInv'
<1>1. CASE MatrixStart \/ ReadStart
  <2>1. NoDiagnostic' = FALSE
    BY <1>1 DEF MatrixStart, ReadStart, NoDiagnostic
  <2>2. /\ buffer' = [lines |-> 1, marker |-> FALSE] /\ truncated' = FALSE /\ logged' = 1
        /\ (report.trace = NoTrace)'
    BY <1>1 DEF MatrixStart, ReadStart, TraceStart, TruncatedAtStart
  <2>3. 1 # TraceCap /\ 1 \in 0..TraceCap /\ 1 > 0 BY TraceCapAssumption
  <2> QED BY <2>1, <2>2, <2>3 DEF TraceInv, Kept
<1>2. CASE Worker
  <2>1. ~NoDiagnostic BY <1>2, WorkerLogs
  <2>2. CASE ~NoDiagnostic' /\ Log
    <3>1. /\ logged' \in 1..TraceCap /\ buffer' = Kept' /\ report' = report
          /\ truncated' = (logged' = TraceCap)
      BY <2>1, <2>2, LogKeeps
    <3>2. report.trace = NoTrace BY <2>1 DEF TraceInv
    <3>3. logged' \in 0..TraceCap /\ logged' > 0 BY <3>1, TraceCapAssumption
    <3> QED BY <2>2, <3>1, <3>2, <3>3 DEF TraceInv
  <2>3. ASSUME NoDiagnostic', NEW result, NEW stage, TraceStop(result, stage)
        PROVE  TraceInv'
    <3>1. logged' \in 1..TraceCap /\ buffer' = NoTrace /\ (report.trace = Kept)'
      BY <2>1, <2>3, StopKeeps
    <3>2. logged' \in 0..TraceCap BY <3>1, TraceCapAssumption
    <3> QED BY <2>3, <3>1, <3>2 DEF TraceInv
  <2> QED BY <1>2, <2>2, <2>3, WorkerLogs
<1>3. CASE UNCHANGED vars
  BY <1>3 DEF TraceInv, Kept, NoDiagnostic, vars, traceVars, trialVars, matrixVars, readVars
<1> QED BY <1>1, <1>2, <1>3 DEF Next, Begin

------------------------------------------------------------------------------
(* The write matrix.                                                          *)

\* The reads in hand are of the card as it is now.
ReadsAreTheCards ==
    wpc \in {"baseline", "after"} => \A i \in DOMAIN seen : seen[i] \in {card.id, Missed}

\* The id that is to be restored is the one the card had.
KnowsTheCard ==
    /\ wpc # "idle" => cardBefore \in CardIds
    /\ wpc = "baseline" => card.id = cardBefore
    /\ wpc \in {"trial", "after", "restore", "restored"} =>
          original = cardBefore /\ card.id \in {original, Temp(original)}

\* Every phase begins with its locals set; a trial that goes on is one of the list.
PhasesBegin ==
    /\ wpc = "idle" => MatrixIdle
    /\ wpc = "trial" => seen = <<>>
    /\ wpc \in {"after", "restore", "restored"} => trial <= Len(Trials)

MatrixInv ==
    /\ TrialTypeOK
    /\ OneRuns
    /\ ReadsAreTheCards
    /\ KnowsTheCard
    /\ PhasesBegin
    /\ MatrixRestoresTheCard

\* Ids, temporary ones too, are no missed reads.
LEMMA IdsAreNumbers ==
    /\ \A id \in CardIds : id \in Nat /\ Temp(id) \in Nat /\ id \in Ids /\ Temp(id) \in Ids
    /\ \A id \in Ids \cup {0} : id \in Nat /\ id # Missed
    /\ \A id \in Nat : id # Missed
<1>1. \A id \in Nat : id \in Nat /\ Temp(id) \in Nat BY SMT DEF Temp
<1>2. CardIds \subseteq Nat BY CardIdsAssumption
<1>3. \A id \in Nat : id # Missed BY DEF Missed
<1>4. \A id \in Ids \cup {0} : id \in Nat BY <1>1, <1>2 DEF Ids
<1> QED BY <1>1, <1>2, <1>3, <1>4 DEF Ids

\* The seven trials, none with the password of a card that takes none.
LEMMA SevenTrials ==
    /\ Len(Trials) = 7
    /\ \A i \in 1..7 : Trials[i].pass # "never"
    /\ Method(TRUE, "open").pass # "never"
<1>1. Len(Trials) = 7 BY DEF Trials
<1>2. /\ \A i \in {1, 2, 3} : Trials[i] \in {Method(TRUE, "open"), Method(FALSE, "open")}
      /\ Trials[4] = Method(TRUE, "00000000") /\ Trials[5] = Method(TRUE, "FFFFFFFF")
      /\ Trials[6] = Method(TRUE, "51243648") /\ Trials[7] = Method(TRUE, "app")
  BY DEF Trials
<1>3. \A i \in 1..7 : i \in {1, 2, 3} \/ i = 4 \/ i = 5 \/ i = 6 \/ i = 7 OBVIOUS
<1>4. /\ Method(TRUE, "open").pass # "never" /\ Method(FALSE, "open").pass # "never"
      /\ Method(TRUE, "00000000").pass # "never" /\ Method(TRUE, "FFFFFFFF").pass # "never"
      /\ Method(TRUE, "51243648").pass # "never" /\ Method(TRUE, "app").pass # "never"
  BY SMT DEF Method
<1>5. ASSUME NEW i \in 1..7 PROVE Trials[i].pass # "never"
  <2>1. CASE i \in {1, 2, 3} BY <1>2, <1>4, <2>1, Zenon
  <2>2. CASE i \in {4, 5, 6, 7} BY <1>2, <1>4, <2>2, Zenon
  <2> QED BY <1>3, <2>1, <2>2
<1> QED BY <1>1, <1>4, <1>5

\* A write leaves the card its id or gives it the one written.
LEMMA WrittenCards ==
    ASSUME card \in Cards, NEW id \in Ids, NEW method, method.pass # "never",
           NEW c \in Written(card, id, method)
    PROVE  c \in Cards /\ c.id \in {card.id, id}
<1>1. CASE card.guard # method.pass BY <1>1 DEF Written
<1>2. CASE card.guard = method.pass
  <2>1. PICK data \in BOOLEAN, setup \in BOOLEAN :
          c = [ id    |-> IF data THEN id ELSE card.id,
                guard |-> IF method.block0 /\ setup THEN "open" ELSE card.guard ]
    BY <1>2 DEF Written
  <2>2. c.id \in {card.id, id} /\ c.guard \in {card.guard, "open"} BY <2>1
  <2>3. card # NoCard BY <1>2 DEF NoCard
  <2>4. card.id \in Ids /\ card.guard \in CardGuards \cup {"open"} BY <2>3 DEF Cards
  <2> QED BY <2>1, <2>2, <2>4 DEF Cards
<1> QED BY <1>1, <1>2

\* A read more of the card.
LEMMA ReadMore ==
    ASSUME MatrixInv, wpc \in {"baseline", "after"}, Len(seen) < 3,
           NEW r \in Reads, seen' = Append(seen, r)
    PROVE  /\ seen' \in Seq(Ids \cup {Missed}) /\ Len(seen') <= 3
           /\ \A i \in DOMAIN seen' : seen'[i] \in {card.id, Missed}
<1>1. seen \in Seq(Ids \cup {Missed}) BY DEF MatrixInv, TrialTypeOK
<1>2. card.id \in Ids
  <2>1. card \in Cards /\ wpc # "idle" /\ cardBefore \in CardIds
    BY DEF MatrixInv, TrialTypeOK, KnowsTheCard
  <2>2. card.id \in {cardBefore, Temp(cardBefore)} BY DEF MatrixInv, KnowsTheCard
  <2> QED BY <2>1, <2>2, IdsAreNumbers
<1>3. r \in Ids \cup {Missed} BY <1>2 DEF Reads
<1>4. /\ seen' \in Seq(Ids \cup {Missed}) /\ Len(seen') = Len(seen) + 1
      /\ \A i \in 1..Len(seen) : seen'[i] = seen[i]
      /\ seen'[Len(seen) + 1] = r
  BY <1>1, <1>3, AppendProperties
<1>5. Len(seen) \in Nat /\ DOMAIN seen = 1..Len(seen) /\ DOMAIN seen' = 1..(Len(seen) + 1)
  BY <1>1, <1>4, LenProperties
<1>6. \A i \in 1..Len(seen) : seen[i] \in {card.id, Missed}
  BY <1>5 DEF MatrixInv, ReadsAreTheCards
<1>7. \A l \in Nat : \A i \in 1..(l + 1) : i \in 1..l \/ i = l + 1 OBVIOUS
<1>8. \A i \in DOMAIN seen' : i \in 1..Len(seen) \/ i = Len(seen) + 1
  BY <1>5, <1>7
<1>9. \A i \in DOMAIN seen' : seen'[i] \in {card.id, Missed}
  BY <1>4, <1>6, <1>8 DEF Reads
<1>10. Len(seen') <= 3 BY <1>4, <1>5
<1> QED BY <1>4, <1>9, <1>10

\* Three reads of the card: they know it, or have all missed it.
LEMMA ThreeReads ==
    ASSUME MatrixInv, wpc \in {"baseline", "after"}, Len(seen) = 3
    PROVE  /\ FirstRead(seen) \in {card.id, Missed}
           /\ After(seen) \in {card.id, 0}
           /\ Stable(seen) => original \in {card.id, Missed}
<1>1. seen \in Seq(Ids \cup {Missed}) BY DEF MatrixInv, TrialTypeOK
<1>2. DOMAIN seen = 1..3 BY <1>1, LenProperties
<1>3. /\ seen[1] \in {card.id, Missed} /\ seen[2] \in {card.id, Missed}
      /\ seen[3] \in {card.id, Missed}
  BY <1>2 DEF MatrixInv, ReadsAreTheCards
<1>4. FirstRead(seen) \in {card.id, Missed} BY <1>3 DEF FirstRead
<1>5. After(seen) \in {card.id, 0} BY <1>3 DEF After, Shown
<1>6. Stable(seen) => original \in {card.id, Missed} BY <1>3 DEF Stable
<1> QED BY <1>4, <1>5, <1>6

\* No phase of the matrix breaks the invariant: the reads, ...
LEMMA ReadsKeepMatrix ==
    ASSUME MatrixInv, BaselineRead \/ TrialRead, UNCHANGED readVars
    PROVE  MatrixInv'
<1>1. /\ wpc \in {"baseline", "after"} /\ Len(seen) < 3
      /\ \E r \in Reads : seen' = Append(seen, r)
      /\ UNCHANGED <<card, cardBefore, wpc, original, trial, restores, report>>
  BY DEF BaselineRead, TrialRead, cardVars, Log
<1>2. /\ seen' \in Seq(Ids \cup {Missed}) /\ Len(seen') <= 3
      /\ \A i \in DOMAIN seen' : seen'[i] \in {card.id, Missed}
  BY <1>1, ReadMore
<1>3. TrialTypeOK' BY <1>1, <1>2 DEF MatrixInv, TrialTypeOK
<1>4. OneRuns' BY <1>1 DEF MatrixInv, OneRuns, readVars
<1>5. ReadsAreTheCards' BY <1>1, <1>2 DEF ReadsAreTheCards
<1>6. KnowsTheCard' BY <1>1 DEF MatrixInv, KnowsTheCard
<1>7. PhasesBegin' BY <1>1 DEF MatrixInv, PhasesBegin
<1>8. MatrixRestoresTheCard' BY <1>1 DEF MatrixInv, MatrixRestoresTheCard
<1> QED BY <1>3, <1>4, <1>5, <1>6, <1>7, <1>8 DEF MatrixInv

\* ... the writes of a trial and of a restore, ...
LEMMA WritesKeepMatrix ==
    ASSUME MatrixInv, TrialWrite \/ Restore, UNCHANGED readVars
    PROVE  MatrixInv'
<1>1. /\ wpc \in {"trial", "restore"} /\ cardBefore \in CardIds /\ original = cardBefore
      /\ card \in Cards /\ card.id \in {original, Temp(original)}
      /\ seen \in Seq(Ids \cup {Missed}) /\ Len(seen) <= 3
      /\ UNCHANGED <<cardBefore, original, seen, trial, report>>
  BY DEF MatrixInv, KnowsTheCard, TrialTypeOK, TrialWrite, Restore, Log
<1>2. original \in Ids /\ Temp(original) \in Ids BY <1>1, IdsAreNumbers
<1>3. /\ wpc' \in {"after", "restored"} /\ restores' \in 0..RestoreAttempts
      /\ trial <= Len(Trials) /\ (wpc' = "after" => seen = <<>>)
  <2>1. CASE TrialWrite
    BY <2>1 DEF TrialWrite, MatrixInv, TrialTypeOK, PhasesBegin
  <2>2. CASE Restore
    BY <2>2, RestoreAssumption DEF Restore, MatrixInv, TrialTypeOK, PhasesBegin
  <2> QED BY <2>1, <2>2
<1>4. card' \in Cards /\ card'.id \in {original, Temp(original)}
  <2>1. CASE TrialWrite
    <3>1. trial \in 1..7 BY <2>1, SevenTrials DEF TrialWrite, MatrixInv, TrialTypeOK
    <3>2. card' \in Written(card, Temp(original), Trials[trial]) BY <2>1 DEF TrialWrite
    <3>3. Trials[trial].pass # "never" BY <3>1, SevenTrials
    <3> QED BY <1>1, <1>2, <3>2, <3>3, WrittenCards
  <2>2. CASE Restore
    <3>1. card' \in Written(card, original, Method(TRUE, "open")) BY <2>2 DEF Restore
    <3> QED BY <1>1, <1>2, <3>1, SevenTrials, WrittenCards
  <2> QED BY <2>1, <2>2
<1>5. TrialTypeOK' BY <1>1, <1>3, <1>4 DEF MatrixInv, TrialTypeOK
<1>6. OneRuns' BY <1>1 DEF MatrixInv, OneRuns, readVars
<1>7. ReadsAreTheCards'
  <2>1. wpc' = "after" => DOMAIN seen' = {} BY <1>1, <1>3
  <2> QED BY <1>3, <2>1 DEF ReadsAreTheCards
<1>8. KnowsTheCard' BY <1>1, <1>3, <1>4 DEF KnowsTheCard
<1>9. PhasesBegin' BY <1>1, <1>3 DEF PhasesBegin
<1>10. MatrixRestoresTheCard' BY <1>3 DEF MatrixRestoresTheCard
<1> QED BY <1>5, <1>6, <1>7, <1>8, <1>9, <1>10 DEF MatrixInv

\* ... the next trial, where the card has its id, ...
LEMMA NextTrialKeepsMatrix ==
    ASSUME MatrixInv, wpc \in {"after", "restored"}, NextTrial, UNCHANGED readVars,
           cardBefore # 0 => card.id = original
    PROVE  MatrixInv'
<1>1. /\ wpc' = "trial" /\ trial' = trial + 1 /\ seen' = <<>> /\ restores' = 0
      /\ UNCHANGED <<card, cardBefore, original>>
  BY DEF NextTrial, cardVars
<1>2. /\ cardBefore \in CardIds /\ original = cardBefore
      /\ card.id \in {original, Temp(original)} /\ trial <= Len(Trials)
  BY DEF MatrixInv, KnowsTheCard, PhasesBegin
<1>3. TrialTypeOK'
  <2>1. trial' \in 1..(Len(Trials) + 1)
    BY <1>1, <1>2, SevenTrials DEF MatrixInv, TrialTypeOK
  <2>2. seen' \in Seq(Ids \cup {Missed}) /\ Len(seen') <= 3 BY <1>1
  <2>3. 0 \in 0..RestoreAttempts BY RestoreAssumption
  <2> QED BY <1>1, <2>1, <2>2, <2>3 DEF MatrixInv, TrialTypeOK
<1>4. OneRuns' BY <1>1, <1>2 DEF MatrixInv, OneRuns, readVars
<1>5. ReadsAreTheCards' BY <1>1 DEF ReadsAreTheCards
<1>6. KnowsTheCard' BY <1>1, <1>2 DEF KnowsTheCard
<1>7. PhasesBegin' BY <1>1 DEF PhasesBegin
<1>8. MatrixRestoresTheCard' BY <1>1, <1>2 DEF MatrixRestoresTheCard
<1> QED BY <1>3, <1>4, <1>5, <1>6, <1>7, <1>8 DEF MatrixInv

\* ... the end of the matrix, where the card has its id or the stage says that
\* the restore has failed, ...
LEMMA ReturnKeepsMatrix ==
    ASSUME MatrixInv, NEW result, NEW stage, MatrixReturns(result, stage), wpc # "idle",
           UNCHANGED readVars,
           cardBefore # 0 => card.id = cardBefore \/ stage # "WRITE_MATRIX"
    PROVE  MatrixInv'
<1>1. /\ wpc' = "idle" /\ MatrixIdle' /\ UNCHANGED <<card, cardBefore>>
      /\ report'.stage = stage
  BY DEF MatrixReturns, MatrixIdle, TraceStop, cardVars
<1>2. TrialTypeOK'
  <2>1. /\ <<>> \in Seq(Ids \cup {Missed}) /\ Len(<<>>) <= 3
        /\ 1 \in 1..(Len(Trials) + 1) /\ 0 \in 0..RestoreAttempts
    BY SevenTrials, RestoreAssumption
  <2> QED BY <1>1, <2>1 DEF MatrixInv, TrialTypeOK, MatrixIdle
<1>3. OneRuns' BY <1>1 DEF MatrixInv, OneRuns, readVars
<1>4. ReadsAreTheCards' BY <1>1 DEF ReadsAreTheCards
<1>5. KnowsTheCard' BY <1>1 DEF KnowsTheCard
<1>6. PhasesBegin' BY <1>1 DEF PhasesBegin
<1>7. MatrixRestoresTheCard' BY <1>1 DEF MatrixRestoresTheCard
<1> QED BY <1>2, <1>3, <1>4, <1>5, <1>6, <1>7 DEF MatrixInv

\* ... and what is decided from three reads.
LEMMA BaselineDoneKeepsMatrix ==
    ASSUME MatrixInv, BaselineDone, UNCHANGED readVars
    PROVE  MatrixInv'
<1>1. /\ wpc = "baseline" /\ wpc' = "trial" /\ seen' = <<>> /\ original' = FirstRead(seen)
      /\ FirstRead(seen) # Missed /\ Len(seen) = 3
      /\ UNCHANGED <<card, cardBefore, trial, restores>>
  BY DEF BaselineDone, cardVars
<1>2. cardBefore \in CardIds /\ card.id = cardBefore BY <1>1 DEF MatrixInv, KnowsTheCard
<1>3. original' = cardBefore BY <1>1, <1>2, ThreeReads
<1>4. TrialTypeOK'
  <2>1. <<>> \in Seq(Ids \cup {Missed}) /\ Len(<<>>) <= 3 OBVIOUS
  <2> QED BY <1>1, <1>2, <1>3, <2>1, IdsAreNumbers DEF MatrixInv, TrialTypeOK
<1>5. OneRuns' BY <1>1 DEF MatrixInv, OneRuns, readVars
<1>6. ReadsAreTheCards' BY <1>1 DEF ReadsAreTheCards
<1>7. KnowsTheCard' BY <1>1, <1>2, <1>3 DEF KnowsTheCard
<1>8. PhasesBegin' BY <1>1 DEF PhasesBegin
<1>9. MatrixRestoresTheCard' BY <1>1, <1>2 DEF MatrixRestoresTheCard
<1> QED BY <1>4, <1>5, <1>6, <1>7, <1>8, <1>9 DEF MatrixInv

\* A trial judged to have changed nothing has left the card its id; else the
\* restore begins.
LEMMA TrialJudgedKeepsMatrix ==
    ASSUME MatrixInv, TrialJudged, UNCHANGED readVars
    PROVE  MatrixInv'
<1>1. wpc = "after" /\ Len(seen) = 3 BY DEF TrialJudged
<1>2. /\ cardBefore \in CardIds /\ original = cardBefore
      /\ card.id \in {original, Temp(original)} /\ trial <= Len(Trials)
  BY <1>1 DEF MatrixInv, KnowsTheCard, PhasesBegin
<1>3. CASE RestoreNeeded(seen)
  <2>1. /\ wpc' = "restore" /\ restores' = 0 /\ seen' = <<>>
        /\ UNCHANGED <<card, cardBefore, original, trial>>
    BY <1>3 DEF TrialJudged, cardVars
  <2>2. TrialTypeOK'
    <3>1. <<>> \in Seq(Ids \cup {Missed}) /\ Len(<<>>) <= 3 /\ 0 \in 0..RestoreAttempts
      BY RestoreAssumption
    <3> QED BY <2>1, <3>1 DEF MatrixInv, TrialTypeOK
  <2>3. OneRuns' BY <1>1, <2>1 DEF MatrixInv, OneRuns, readVars
  <2>4. ReadsAreTheCards' BY <2>1 DEF ReadsAreTheCards
  <2>5. KnowsTheCard' BY <1>2, <2>1 DEF KnowsTheCard
  <2>6. PhasesBegin' BY <1>2, <2>1 DEF PhasesBegin
  <2>7. MatrixRestoresTheCard' BY <2>1 DEF MatrixRestoresTheCard
  <2> QED BY <2>2, <2>3, <2>4, <2>5, <2>6, <2>7 DEF MatrixInv
<1>4. CASE ~RestoreNeeded(seen)
  <2>1. NextTrial BY <1>4 DEF TrialJudged
  <2>2. original # Missed BY <1>2, IdsAreNumbers
  <2>3. Stable(seen) => card.id = original BY <1>1, <2>2, ThreeReads
  <2>4. After(seen) = original => card.id = original \/ original = 0
    BY <1>1, ThreeReads
  <2>5. cardBefore # 0 => card.id = original
    BY <1>2, <1>4, <2>3, <2>4 DEF RestoreNeeded
  <2> QED BY <1>1, <2>1, <2>5, NextTrialKeepsMatrix
<1> QED BY <1>3, <1>4

\* A restore goes on until a read shows the id again.
LEMMA RestoreReadKeepsMatrix ==
    ASSUME MatrixInv, RestoreRead, UNCHANGED readVars
    PROVE  MatrixInv'
<1>1. wpc = "restored" BY DEF RestoreRead
<1>2. cardBefore \in CardIds /\ original = cardBefore
  BY <1>1 DEF MatrixInv, KnowsTheCard
<1>3. PICK r \in Reads :
          IF r = original
          THEN NextTrial
          ELSE /\ wpc' = "restore"
               /\ Log
               /\ UNCHANGED <<cardVars, original, seen, trial, restores>>
  BY DEF RestoreRead
<1>4. CASE r = original
  <2>1. original # Missed BY <1>2, IdsAreNumbers
  <2>2. card.id = original BY <1>4, <2>1 DEF Reads
  <2> QED BY <1>1, <1>3, <1>4, <2>2, NextTrialKeepsMatrix
<1>5. CASE r # original
  <2>1. wpc' = "restore" /\ UNCHANGED <<card, cardBefore, original, seen, trial, restores>>
    BY <1>3, <1>5 DEF cardVars
  <2>2. TrialTypeOK' BY <2>1 DEF MatrixInv, TrialTypeOK
  <2>3. OneRuns' BY <1>1, <2>1 DEF MatrixInv, OneRuns, readVars
  <2>4. ReadsAreTheCards' BY <2>1 DEF ReadsAreTheCards
  <2>5. KnowsTheCard' BY <1>1, <2>1 DEF MatrixInv, KnowsTheCard
  <2>6. PhasesBegin' BY <1>1, <2>1 DEF MatrixInv, PhasesBegin
  <2>7. MatrixRestoresTheCard' BY <2>1 DEF MatrixRestoresTheCard
  <2> QED BY <2>2, <2>3, <2>4, <2>5, <2>6, <2>7 DEF MatrixInv
<1> QED BY <1>4, <1>5

\* The matrix ends with the card's id, or says so.
LEMMA EndsKeepMatrix ==
    ASSUME MatrixInv, BaselineFails \/ RestoreFailed \/ MatrixDone, UNCHANGED readVars
    PROVE  MatrixInv'
<1>1. CASE BaselineFails
  <2>1. wpc = "baseline" /\ MatrixReturns("Timeout", report.stage)
    BY <1>1 DEF BaselineFails
  <2>2. card.id = cardBefore BY <2>1 DEF MatrixInv, KnowsTheCard
  <2> QED BY <2>1, <2>2, ReturnKeepsMatrix
<1>2. CASE RestoreFailed
  BY <1>2, ReturnKeepsMatrix DEF RestoreFailed
<1>3. CASE MatrixDone
  <2>1. wpc = "trial" /\ MatrixReturns("Ok", report.stage) BY <1>3 DEF MatrixDone
  <2>2. cardBefore # 0 => card.id = cardBefore
    BY <2>1 DEF MatrixInv, MatrixRestoresTheCard
  <2> QED BY <2>1, <2>2, ReturnKeepsMatrix
<1> QED BY <1>1, <1>2, <1>3

\* Nor does the start of a run, or a debug read.
LEMMA StartsKeepMatrix ==
    ASSUME MatrixInv, Begin
    PROVE  MatrixInv'
<1>1. wpc = "idle" /\ rpc = "idle" /\ MatrixIdle
  BY DEF Begin, NoDiagnostic, MatrixInv, PhasesBegin
<1>2. CASE MatrixStart /\ ReadCleared
  <2>1. /\ wpc' = "baseline" /\ card' \in [id : CardIds, guard : CardGuards]
        /\ cardBefore' = card'.id /\ rpc' = rpc
        /\ UNCHANGED <<original, seen, trial, restores>>
    BY <1>2 DEF MatrixStart, ReadCleared
  <2>2. card' \in Cards /\ cardBefore' \in CardIds
    <3>1. card'.id \in CardIds /\ card'.guard \in CardGuards
          /\ card' = [id |-> card'.id, guard |-> card'.guard]
      BY <2>1
    <3> QED BY <2>1, <3>1, IdsAreNumbers DEF Cards
  <2>3. seen' = <<>> /\ DOMAIN seen' = {} BY <1>1, <2>1 DEF MatrixIdle
  <2>4. TrialTypeOK' BY <2>1, <2>2, IdsAreNumbers DEF MatrixInv, TrialTypeOK
  <2>5. OneRuns' BY <1>1, <2>1 DEF OneRuns
  <2>6. ReadsAreTheCards' BY <2>3 DEF ReadsAreTheCards
  <2>7. KnowsTheCard' BY <2>1, <2>2 DEF KnowsTheCard
  <2>8. PhasesBegin' BY <2>1 DEF PhasesBegin
  <2>9. MatrixRestoresTheCard' BY <2>1 DEF MatrixRestoresTheCard
  <2> QED BY <2>4, <2>5, <2>6, <2>7, <2>8, <2>9 DEF MatrixInv
<1>3. CASE ReadStart /\ CardCleared
  <2>1. /\ card' = NoCard /\ cardBefore' = 0
        /\ UNCHANGED <<wpc, original, seen, trial, restores>>
    BY <1>3 DEF CardCleared, matrixVars
  <2>2. card' \in Cards BY <2>1 DEF Cards
  <2>3. TrialTypeOK' BY <2>1, <2>2 DEF MatrixInv, TrialTypeOK
  <2>4. OneRuns' BY <1>1, <2>1 DEF OneRuns
  <2>5. ReadsAreTheCards' BY <1>1, <2>1 DEF ReadsAreTheCards
  <2>6. KnowsTheCard' BY <1>1, <2>1 DEF KnowsTheCard
  <2>7. PhasesBegin' BY <1>1, <2>1 DEF PhasesBegin, MatrixIdle
  <2>8. MatrixRestoresTheCard' BY <2>1 DEF MatrixRestoresTheCard
  <2> QED BY <2>3, <2>4, <2>5, <2>6, <2>7, <2>8 DEF MatrixInv
<1> QED BY <1>2, <1>3 DEF Begin

\* A step that leaves the matrix alone.
LEMMA OthersKeepMatrix ==
    ASSUME MatrixInv, UNCHANGED trialVars,
           \/ rpc # "idle"
           \/ rpc' = rpc /\ report' = report
    PROVE  MatrixInv'
<1>1. UNCHANGED <<card, cardBefore, wpc, original, seen, trial, restores>>
  BY DEF trialVars, cardVars, matrixVars
<1>2. TrialTypeOK' BY <1>1 DEF MatrixInv, TrialTypeOK
<1>3. OneRuns' BY <1>1 DEF MatrixInv, OneRuns
<1>4. ReadsAreTheCards' BY <1>1 DEF MatrixInv, ReadsAreTheCards
<1>5. KnowsTheCard' BY <1>1 DEF MatrixInv, KnowsTheCard
<1>6. PhasesBegin' BY <1>1 DEF MatrixInv, PhasesBegin, MatrixIdle
<1>7. MatrixRestoresTheCard'
  BY <1>1 DEF MatrixInv, OneRuns, MatrixRestoresTheCard
<1> QED BY <1>2, <1>3, <1>4, <1>5, <1>6, <1>7 DEF MatrixInv

\* No step breaks the invariant of the matrix.
LEMMA MatrixInvStep == MatrixInv /\ [Next]_vars => MatrixInv'
<1> SUFFICES ASSUME MatrixInv, [Next]_vars PROVE MatrixInv' OBVIOUS
<1>1. CASE Begin BY <1>1, StartsKeepMatrix
<1>2. CASE WriteTrialStep /\ UNCHANGED readVars
  BY <1>2, ReadsKeepMatrix, WritesKeepMatrix, BaselineDoneKeepsMatrix,
     TrialJudgedKeepsMatrix, RestoreReadKeepsMatrix, EndsKeepMatrix
  DEF WriteTrialStep
<1>3. CASE DebugReadStep /\ UNCHANGED trialVars
  BY <1>3, ReadStepsLog, OthersKeepMatrix
<1>4. CASE UNCHANGED vars
  BY <1>4, OthersKeepMatrix DEF vars, traceVars, readVars
<1> QED BY <1>1, <1>2, <1>3, <1>4 DEF Next, Worker

\* It holds at first.
LEMMA MatrixInvInit == Init => MatrixInv
<1> SUFFICES ASSUME Init PROVE MatrixInv OBVIOUS
<1>1. /\ card = NoCard /\ cardBefore = 0 /\ MatrixIdle /\ rpc = "idle"
  BY DEF Init, TrialInit, ReadInit, ReadIdle
<1>2. TrialTypeOK
  <2>1. card \in Cards BY <1>1 DEF Cards
  <2>2. /\ <<>> \in Seq(Ids \cup {Missed}) /\ Len(<<>>) <= 3
        /\ 1 \in 1..(Len(Trials) + 1) /\ 0 \in 0..RestoreAttempts
    BY SevenTrials, RestoreAssumption
  <2> QED BY <1>1, <2>1, <2>2 DEF TrialTypeOK, MatrixIdle
<1>3. wpc = "idle" BY <1>1 DEF MatrixIdle
<1> QED BY <1>1, <1>2, <1>3
        DEF MatrixInv, OneRuns, ReadsAreTheCards, KnowsTheCard, PhasesBegin,
            MatrixRestoresTheCard

\* So does the one of the trace.
LEMMA TraceInvInit == Init => TraceInv
<1>1. Init => logged = 0 /\ buffer = NoTrace /\ NoDiagnostic
  BY DEF Init, TraceInit, TrialInit, ReadInit, MatrixIdle, ReadIdle, NoDiagnostic
<1>2. 0 \in 0..TraceCap /\ ~(0 > 0) BY TraceCapAssumption
<1> QED BY <1>1, <1>2 DEF TraceInv

\* The invariants of the matrix and the trace.
THEOREM DiagnosticsInv == Spec => [](MatrixInv /\ TraceInv)
<1>1. Init => MatrixInv /\ TraceInv BY MatrixInvInit, TraceInvInit
<1>2. MatrixInv /\ TraceInv /\ [Next]_vars => (MatrixInv /\ TraceInv)'
  BY MatrixInvStep, TraceInvStep DEF MatrixInv
<1> QED BY <1>1, <1>2, PTL DEF Spec

\* Whichever reads and writes of the card are lost and whenever the matrix is
\* stopped, it ends with the id the card had or with the stage that says that
\* the restore failed; every trial begins with that id.
THEOREM CardIsRestored == Spec => []MatrixRestoresTheCard
<1>1. MatrixInv => MatrixRestoresTheCard BY DEF MatrixInv
<1> QED BY <1>1, DiagnosticsInv, PTL

\* The trace the scene gets is that of the run reported, whole or cut and then
\* marked so, for every budget of at least two lines; during a run it has none.
THEOREM SceneGetsItsTrace == Spec => []TraceIsOfThisRun
<1>1. TraceInv => TraceIsOfThisRun BY DEF TraceInv, TraceIsOfThisRun
<1> QED BY <1>1, DiagnosticsInv, PTL

------------------------------------------------------------------------------
(* The debug read.                                                            *)

\* The phases before a session is opened, and those within one.
Searching == {"wake", "wakeSelect", "fallback", "session", "mode", "modeSelect"}
InSession == {"config", "auth", "password", "reread", "pages"}

\* Each phase finds the locals it counts on.
Phases ==
    /\ opened <=> rpc \in InSession
    /\ rpc \in Searching => shown = NoShown
    /\ rpc \in Searching \cup {"config", "auth", "password"} => ~authed
    /\ rpc \in Searching \cup {"config"} => pwd = 1
    /\ rpc \in Searching \cup {"config", "auth", "password", "reread"} => page = 2
    /\ rpc = "reread" => authed
    /\ page >= 2
    /\ rpc = "idle" => ReadIdle

\* A tag that has heard the request answers in the mode of it.  A session that
\* can be trusted is with the tag in the field, and knows its configuration.
Linked ==
    /\ rpc \in {"wakeSelect", "modeSelect"} /\ session.state = "found" =>
          tagMode = Modes[active]
    /\ rpc \in InSession => mode = Modes[active]
    /\ rpc \in InSession /\ Trusted =>
          /\ tagMode = mode
          /\ session.state \in {"selected", "authed"}
          /\ session.armed \in {NoPage, AuthPage}
          /\ chip.mem[0] \in UidVariants(uid) /\ config = Shows(chip.mem, 1)

\* What page p shows in the end, if it is not passed over.
EndsAs(p) ==
    IF p <= LastPage(chip.mem[1])
       /\ Readable(chip.mem, [state |-> "authed", armed |-> NoPage], p)
    THEN Shows(chip.mem, p) ELSE <<>>
PassedOver(p) == p \in {2, 3} /\ Parse(chip.mem[1]).LKP = 1 /\ shown[p] = <<>>

\* Without noise the reader knows what the tag knows, the passwords behind it
\* were refused, and the pages behind it are shown as they must be.
Clear ==
    rpc \in InSession /\ ~noisy =>
        /\ authed <=> session.state = "authed"
        /\ rpc \in {"auth", "password"} =>
              \A i \in 1..(pwd - 1) : DefaultPasswords[i] # chip.mem[2]
        /\ rpc = "password" => session.armed = AuthPage
        /\ rpc # "pages" => \A p \in Pages \ {0} : shown[p] = <<>>
        /\ rpc = "pages" =>
              /\ authed \/ (chip.plain /\ Parse(chip.mem[1]).auth = 0)
              /\ shown[1] = Shows(chip.mem, 1)
              /\ \A p \in Pages \ {0, 1} :
                    IF p < page THEN shown[p] = EndsAs(p) \/ PassedOver(p)
                    ELSE shown[p] = <<>>

ReadInv ==
    /\ ReadTypeOK
    /\ Phases
    /\ Linked
    /\ DebugReadFaithful
    /\ Clear

\* What stays of it between runs.
StageOfMatrix == wpc # "idle" => report.stage = "WRITE_MATRIX"

------------------------------------------------------------------------------
(* What the steps are built from.                                             *)

\* The pages the debug read names exist on every tag; page 64 is not one.
LEMMA PagesNamed ==
    /\ 0 \in Pages /\ 1 \in Pages /\ 2 \in Pages /\ 3 \in Pages
    /\ Pages \subseteq Nat /\ TopPage \in Nat /\ TopPage >= 5
    /\ AuthPage \notin Pages /\ NoPage \notin Pages /\ AuthPage # NoPage
BY TopPageAssumption DEF Pages, AuthPage, NoPage

\* The five default passwords.
LEMMA FivePasswords ==
    /\ DOMAIN DefaultPasswords = 1..5 /\ Len(DefaultPasswords) = 5
    /\ \A i \in 1..5 : DefaultPasswords[i] \in Word
<1>1. DefaultPasswords \in [1..5 -> Word] /\ Len(DefaultPasswords) = 5
  BY DEF DefaultPasswords, DefaultPassword, Word, Byte
<1> QED BY <1>1

\* The four modes; STD is the one without CRC8.
LEMMA FourModes ==
    /\ \A i \in 1..4 : Modes[i] \in {Modes[j] : j \in 1..4} /\ Modes[i] # NoMode
    /\ \A i \in 1..4 : HasCrc(i) <=> Modes[i] # "STD"
    /\ "STD" \in {Modes[j] : j \in 1..4}
<1>1. Modes[1] = "ADV1" /\ Modes[2] = "FADV" /\ Modes[3] = "ADV2" /\ Modes[4] = "STD"
  BY DEF Modes
<1>2. \A i \in 1..4 : Modes[i] # NoMode
  <2>1. \A i \in 1..4 : i = 1 \/ i = 2 \/ i = 3 \/ i = 4 OBVIOUS
  <2> QED BY <1>1, <2>1 DEF NoMode
<1>3. "STD" \in {Modes[j] : j \in 1..4} BY <1>1
<1> QED BY <1>2, <1>3 DEF HasCrc

\* The sessions of a tag that has heard nothing, a request, a SELECT.
LEMMA SessionTypes ==
    /\ Off \in Session /\ Powered \in Session /\ Found \in Session /\ Selected \in Session
    /\ Selected.state = "selected" /\ Selected.armed = NoPage
    /\ Found.state = "found" /\ Off.state # "found" /\ Powered.state # "found"
    /\ \A s \in Session : /\ Disarmed(s) \in Session /\ Disarmed(s).armed = NoPage
                          /\ Disarmed(s).state = s.state
BY SMT DEF Session, Off, Powered, Found, Selected, Disarmed

\* Whatever is in the field has a memory of words.
LEMMA ChipTypes ==
    ASSUME NEW c \in Chips \cup {NoChip}
    PROVE  /\ c.mem \in Memory /\ \A p \in Pages : c.mem[p] \in Word
           /\ c.family \in {"8268", "htu", "none"}
           /\ \A p \in Pages : Shows(c.mem, p) \in Word
<1>1. ZeroWord \in Word BY DEF ZeroWord, Word, Byte
<1>2. NoChip \in ChipType BY <1>1 DEF NoChip, ChipType, Memory
<1>3. c \in ChipType BY <1>2, ChipsAssumption
<1>4. c.mem \in Memory /\ c.family \in {"8268", "htu", "none"} BY <1>3 DEF ChipType
<1>5. \A p \in Pages : c.mem[p] \in Word BY <1>4 DEF Memory
<1>6. ASSUME NEW p \in Pages PROVE Shows(c.mem, p) \in Word
  <2>1. c.mem[1] \in Word BY <1>5, PagesNamed
  <2>2. [c.mem[1] EXCEPT ![4] = 255] \in Word BY <2>1 DEF Word, Byte
  <2> QED BY <1>5, <2>2 DEF Shows
<1> QED BY <1>4, <1>5, <1>6

\* Plain mode hides PWDH0 only: what the reader takes from page 1 is true of it.
LEMMA ShownConfig ==
    ASSUME NEW m, m[1] \in Word
    PROVE  LET w == Shows(m, 1) IN
           /\ Parse(w).auth = Parse(m[1]).auth /\ Parse(w).LKP = Parse(m[1]).LKP
           /\ LastPage(w) = LastPage(m[1]) /\ SameOnPage(1, w, m[1])
<1> DEFINE w == Shows(m, 1)
<1>1. w[1] = m[1][1] /\ w[2] = m[1][2] /\ w[3] = m[1][3] BY DEF Shows, Word
<1> HIDE DEF w
<1>2. Parse(w).MEMT = Parse(m[1]).MEMT /\ Parse(w).auth = Parse(m[1]).auth
      /\ Parse(w).LKP = Parse(m[1]).LKP
  BY <1>1 DEF Parse
<1>3. MaxPage(Parse(w)) = MaxPage(Parse(m[1])) BY <1>2 DEF MaxPage
<1>4. LastPage(w) = LastPage(m[1]) BY <1>3 DEF LastPage
<1>5. SameOnPage(1, w, m[1]) BY <1>1 DEF SameOnPage, SameButPwdh0
<1> QED BY <1>2, <1>4, <1>5 DEF w

\* Every tag has the system pages, and no more than its chip.
LEMMA LastPages ==
    ASSUME NEW w
    PROVE  LastPage(w) \in Nat /\ LastPage(w) >= 5 /\ LastPage(w) <= TopPage
<1>1. MaxPage(Parse(w)) \in {31, 7, 63} BY DEF MaxPage
<1> QED BY <1>1, TopPageAssumption DEF LastPage

\* A reply is a failure or a word, which is the page's if it can be trusted; on
\* a clear channel it fails when the tag does not answer, and only then.
LEMMA Replies ==
    ASSUME NEW answers \in BOOLEAN, NEW w \in Word, NEW r \in Reply(answers, w)
    PROVE  /\ r.ok \in BOOLEAN /\ r.word \in Word \cup {<<>>}
           /\ r.ok => r.word \in Word
           /\ ~r.ok => r.word = <<>>
           /\ r.ok /\ (~noisy \/ HasCrc(active)) => answers /\ r.word = w
           /\ ~noisy => r.ok = answers
<1>1. CASE r = [ok |-> TRUE, word |-> w] /\ answers BY <1>1
<1>2. CASE r = [ok |-> FALSE, word |-> <<>>] /\ (noisy \/ ~answers) BY <1>2
<1>3. CASE noisy /\ ~HasCrc(active) /\ r \in {[ok |-> TRUE, word |-> g] : g \in Garbles}
  <2>1. PICK g \in Garbles : r = [ok |-> TRUE, word |-> g] BY <1>3
  <2>2. r.ok = TRUE /\ r.word = g BY <2>1
  <2>3. g \in Word BY WordsAssumption
  <2> QED BY <1>3, <2>2, <2>3
<1>4. \/ r = [ok |-> TRUE, word |-> w] /\ answers
      \/ r = [ok |-> FALSE, word |-> <<>>] /\ (noisy \/ ~answers)
      \/ noisy /\ ~HasCrc(active) /\ r \in {[ok |-> TRUE, word |-> g] : g \in Garbles}
  BY DEF Reply
<1> QED BY <1>1, <1>2, <1>3, <1>4, Zenon

\* A UID capture in mode i is rejected or a word; one that the tag has heard is
\* of a mode it knows.
LEMMA CaptureTypes ==
    ASSUME chip \in Chips \cup {NoChip}, NEW i, NEW c \in Captures(i)
    PROVE  /\ c.word \in Word \cup {Rejected} /\ c.heard \in BOOLEAN
           /\ c.heard => Knows(i)
<1>1. chip.mem[0] \in Word BY ChipTypes, PagesNamed
<1>2. \A u \in Word : Judged(u) \in Word \cup {Rejected} BY DEF Judged
<1>3. Knows(i) \in BOOLEAN BY DEF Knows
<1>4. CASE c \in {[word |-> Judged(chip.mem[0]), heard |-> TRUE] : k \in {k \in {i} : Knows(k)}}
  <2>1. c = [word |-> Judged(chip.mem[0]), heard |-> TRUE] /\ Knows(i) BY <1>4
  <2> QED BY <1>1, <1>2, <2>1
<1>5. CASE c = [word |-> Rejected, heard |-> FALSE] BY <1>5
<1>6. CASE c \in {[word |-> Judged(u), heard |-> Knows(i)] : u \in StrayUids}
  <2>1. PICK u \in StrayUids : c = [word |-> Judged(u), heard |-> Knows(i)] BY <1>6
  <2>2. u \in Word BY WordsAssumption
  <2>3. c.word = Judged(u) /\ c.heard = Knows(i) BY <2>1
  <2> QED BY <1>2, <1>3, <2>2, <2>3
<1> QED BY <1>4, <1>5, <1>6 DEF Captures

\* So is what the votes of a mode end with.
LEMMA ConfirmationTypes ==
    ASSUME chip \in Chips \cup {NoChip}, NEW i, NEW c \in Confirmations(i)
    PROVE  /\ c.word \in Word \cup {Rejected} /\ c.heard \in BOOLEAN
           /\ c.heard => Knows(i)
<1>1. PICK v \in [1..3 -> Captures(i)] :
        c = [word |-> Confirmed([k \in 1..3 |-> v[k].word]), heard |-> \E k \in 1..3 : v[k].heard]
  BY DEF Confirmations
<1> DEFINE words == [k \in 1..3 |-> v[k].word]
           sure  == {w \in {words[k] : k \in 1..3} \ {Rejected} : Confirms(words, w)}
<1>2. \A k \in 1..3 : words[k] \in Word \cup {Rejected} /\ (v[k].heard => Knows(i))
  BY CaptureTypes
<1>3. c.word = Confirmed(words) /\ c.heard = (\E k \in 1..3 : v[k].heard) BY <1>1
<1>4. sure \subseteq Word BY <1>2
<1>5. sure # {} => (CHOOSE w \in sure : TRUE) \in sure OBVIOUS
<1>6. Confirmed(words) \in Word \cup {Rejected} BY <1>4, <1>5 DEF Confirmed
<1> QED BY <1>2, <1>3, <1>6
\* A tick of the counter, and one later.
LEMMA Ticks ==
    ASSUME NEW t \in Nat
    PROVE  t % TickMod \in 0..(TickMod - 1)
BY BudgetAssumption

------------------------------------------------------------------------------
(* The steps, one by one.                                                     *)

\* The end of a debug read leaves nothing of it.
LEMMA ReturnKeepsRead ==
    ASSUME ReadInv, NEW r, NEW st, ReadReturns(r, st), UNCHANGED chipVars
    PROVE  ReadInv'
<1>1. /\ rpc' = "idle" /\ session' = Off /\ tagMode' = NoMode /\ active' = 1
      /\ probe' = 1 /\ quiet' = 0 /\ tries' = 0 /\ start' = 0 /\ now' = 0 /\ elapsed' = 0
      /\ uid' = ZeroWord /\ config' = ZeroWord /\ opened' = FALSE /\ mode' = NoMode
      /\ pwd' = 1 /\ authed' = FALSE /\ page' = 2
      /\ shown' = shown /\ chip' = chip /\ noisy' = noisy
  BY DEF ReadReturns, Restarted, MatrixLeft, ClockLeft, Stay, chipVars
<1>2. ReadTypeOK'
  <2>1. ZeroWord \in Word BY DEF ZeroWord, Word, Byte
  <2>2. 1 \in 1..Probes /\ 0 \in 0..QuietLimit /\ 0 \in 0..MaxSessions
        /\ 0 \in 0..(TickMod - 1) /\ 0 \in Nat
    BY BudgetAssumption DEF Probes
  <2>3. Off \in Session /\ 1 \in DOMAIN DefaultPasswords /\ 2 \in Pages
    BY SessionTypes, FivePasswords, PagesNamed
  <2>4. /\ chip \in Chips \cup {NoChip} /\ noisy \in BOOLEAN
        /\ shown \in [Pages -> Word \cup {<<>>}]
    BY DEF ReadInv, ReadTypeOK
  <2>5. /\ tagMode' \in {NoMode} \cup {Modes[i] : i \in 1..4}
        /\ mode' \in {NoMode} \cup {Modes[i] : i \in 1..4}
        /\ active' \in 1..4 /\ page' \in Pages \cup {TopPage + 1}
    BY <1>1, <2>3
  <2>6. /\ uid' \in Word /\ config' \in Word /\ session' \in Session
        /\ pwd' \in DOMAIN DefaultPasswords
    BY <1>1, <2>1, <2>3
  <2>7. /\ probe' \in 1..Probes /\ quiet' \in 0..QuietLimit
        /\ tries' \in 0..MaxSessions /\ elapsed' \in Nat
        /\ start' \in 0..(TickMod - 1) /\ now' \in 0..(TickMod - 1)
    BY <1>1, <2>2
  <2> QED BY <1>1, <2>4, <2>5, <2>6, <2>7 DEF ReadTypeOK
<1>3. Phases' BY <1>1 DEF Phases, ReadIdle, Searching, InSession
<1>4. Linked' /\ DebugReadFaithful' /\ Clear'
  BY <1>1 DEF Linked, DebugReadFaithful, Clear, InSession
<1> QED BY <1>2, <1>3, <1>4 DEF ReadInv

\* A step that goes on searching: what it has to keep of the tag.
LEMMA SearchKeepsRead ==
    ASSUME ReadInv, rpc \in Searching, rpc' \in Searching, ~opened',
           UNCHANGED <<chipVars, pageVars>>, ReadTypeOK',
           rpc' \in {"wakeSelect", "modeSelect"} /\ session'.state = "found"
               => tagMode' = Modes[active']
    PROVE  ReadInv'
<1>1. /\ chip' = chip /\ noisy' = noisy /\ pwd' = pwd /\ authed' = authed
      /\ page' = page /\ shown' = shown
  BY DEF chipVars, pageVars
<1>2. rpc' \notin InSession /\ rpc' # "idle" /\ rpc' # "reread"
  BY DEF Searching, InSession
<1>3. Phases' BY <1>1, <1>2 DEF ReadInv, Phases
<1>4. Linked' /\ DebugReadFaithful' /\ Clear'
  BY <1>2 DEF Linked, DebugReadFaithful, Clear
<1> QED BY <1>3, <1>4 DEF ReadInv

\* A UID taken: the mode the tag answers in is the active one.
LEMMA TakeUidKeepsRead ==
    ASSUME ReadInv, rpc \in {"wake", "mode"}, NEW i \in 1..4, NEW c,
           c.word \in Word, c.heard \in BOOLEAN, NEW at \in {"wakeSelect", "modeSelect"},
           TakeUid(i, c, at), probe' \in 1..Probes, quiet' \in 0..QuietLimit,
           UNCHANGED <<chipVars, clockVars, config, opened, mode, pageVars>>
    PROVE  ReadInv'
<1>1. /\ uid' = c.word /\ active' = i /\ rpc' = at
      /\ session' = (IF c.heard THEN Found ELSE On)
      /\ tagMode' = (IF c.heard THEN Modes[i] ELSE NoMode)
  BY DEF TakeUid, ActiveFrom
<1>2. On \in Session /\ On.state # "found" BY SessionTypes DEF On
<1>3. ReadTypeOK'
  BY <1>1, <1>2, SessionTypes, FourModes
  DEF ReadInv, ReadTypeOK, chipVars, clockVars, pageVars
<1>4. ~opened' BY DEF ReadInv, Phases, InSession
<1>5. session'.state = "found" => tagMode' = Modes[active']
  BY <1>1, <1>2
<1> QED BY <1>1, <1>3, <1>4, <1>5, SearchKeepsRead DEF Searching

\* The early wake matrix.
LEMMA WakeKeepsRead ==
    ASSUME ReadInv, WakeHit \/ WakeMiss
    PROVE  ReadInv'
<1>1. CASE WakeHit
  <2>1. PICK c \in Captures(ModeOf(probe)) :
          c.word # Rejected /\ TakeUid(ModeOf(probe), c, "wakeSelect")
    BY <1>1 DEF WakeHit
  <2>2. c.word \in Word /\ c.heard \in BOOLEAN
    BY <2>1, CaptureTypes DEF ReadInv, ReadTypeOK
  <2>3. ModeOf(probe) \in 1..4
    BY BudgetAssumption DEF ModeOf, ReadInv, ReadTypeOK, Probes
  <2>4. probe' \in 1..Probes /\ quiet' \in 0..QuietLimit
    BY <1>1, BudgetAssumption DEF WakeHit, MatrixLeft, Probes
  <2>5. rpc = "wake" /\ UNCHANGED <<chipVars, clockVars, config, opened, mode, pageVars>>
    BY <1>1 DEF WakeHit, Stay
  <2> QED BY <2>1, <2>2, <2>3, <2>4, <2>5, TakeUidKeepsRead
<1>2. CASE WakeMiss
  <2>1. /\ rpc = "wake" /\ rpc' \in {"wake", "fallback"}
        /\ session' = Off /\ tagMode' = NoMode
        /\ UNCHANGED <<chipVars, active, clockVars, idVars, pageVars>>
    BY <1>2 DEF WakeMiss, Restarted, Stay
  <2>2. probe' \in 1..Probes /\ quiet' \in 0..QuietLimit
    BY <1>2, BudgetAssumption
    DEF WakeMiss, MatrixLeft, AfterProbe, Probes, ReadInv, ReadTypeOK
  <2>3. ReadTypeOK'
    BY <2>1, <2>2, SessionTypes
    DEF ReadInv, ReadTypeOK, chipVars, clockVars, idVars, pageVars
  <2>4. ~opened' BY <2>1 DEF ReadInv, Phases, InSession, idVars
  <2> QED BY <2>1, <2>3, <2>4, SearchKeepsRead DEF Searching
<1> QED BY <1>1, <1>2
\* SELECT: a session that can be trusted is with the tag, in the active mode,
\* and knows its configuration.
LEMMA SelectKeepsRead ==
    ASSUME ReadInv, rpc \in {"wakeSelect", "modeSelect"}, SelectOk,
           UNCHANGED <<chipVars, active, wakeVars, clockVars, pageVars>>
    PROVE  ReadInv'
<1> DEFINE w == Shows(chip.mem, 1)
<1>1. PICK r \in Reply(Answers, w) :
        r.ok /\ config' = r.word /\ session' = (IF Answers THEN Selected ELSE session)
  BY DEF SelectOk
<1>2. /\ opened' = TRUE /\ mode' = Modes[active] /\ rpc' = "config"
      /\ UNCHANGED <<tagMode, uid, chip, noisy, active, probe, quiet, tries, start, now,
                     elapsed, pwd, authed, page, shown>>
  BY DEF SelectOk, chipVars, wakeVars, clockVars, pageVars
<1>3. w \in Word /\ Answers \in BOOLEAN
  BY ChipTypes, PagesNamed DEF ReadInv, ReadTypeOK, Answers
<1>4. r.word \in Word /\ (~noisy \/ HasCrc(active) => Answers /\ r.word = w)
  <2> HIDE DEF w
  <2> QED BY <1>1, <1>3, Replies
<1>5. active \in 1..4 BY DEF ReadInv, ReadTypeOK
<1>6. ReadTypeOK'
  BY <1>1, <1>2, <1>4, <1>5, SessionTypes, FourModes DEF ReadInv, ReadTypeOK
<1>7. Phases'
  BY <1>2 DEF ReadInv, Phases, Searching, InSession
<1>8. ASSUME Trusted'
      PROVE  /\ session' = Selected /\ tagMode' = mode'
             /\ chip.mem[0] \in UidVariants(uid) /\ config' = w
  <2>1. ~noisy \/ HasCrc(active) BY <1>2, <1>5, <1>8, FourModes DEF Trusted
  <2>2. Answers /\ config' = w BY <1>1, <1>4, <2>1
  <2> QED BY <1>1, <1>2, <2>2 DEF Answers, ReadInv, Linked
<1>9. Linked' BY <1>2, <1>8, SessionTypes DEF Linked, InSession
<1>10. shown' = NoShown BY <1>2 DEF ReadInv, Phases, Searching
<1>11. \A p \in Pages : shown'[p] = <<>> BY <1>10 DEF NoShown
<1>12. DebugReadFaithful' BY <1>11 DEF DebugReadFaithful
<1>13. Clear'
  <2>1. ~noisy => Trusted' BY <1>2 DEF Trusted
  <2>2. ~authed' /\ pwd' = 1 BY <1>2 DEF ReadInv, Phases, Searching
  <2> QED BY <1>2, <1>8, <1>11, <2>1, <2>2, SessionTypes DEF Clear
<1> QED BY <1>6, <1>7, <1>9, <1>12, <1>13 DEF ReadInv

\* A mode that is over, to the next mode or the next session.
LEMMA ModeOverKeepsRead ==
    ASSUME ReadInv, rpc \in {"mode", "modeSelect"}, ModeOver,
           UNCHANGED <<chipVars, wakeVars, idVars, pageVars>>
    PROVE  ReadInv'
<1>1. /\ rpc' \in {"session", "mode"} /\ active' \in 1..4 /\ session' = On /\ tagMode' = NoMode
      /\ UNCHANGED <<tries, start>>
  BY DEF ModeOver, Restarted, ReadInv, ReadTypeOK
<1>2. now' \in 0..(TickMod - 1) /\ elapsed' \in Nat
  <2>1. PICK t \in 0..1 : now' = (now + t) % TickMod /\ elapsed' = elapsed + t
    BY DEF ModeOver
  <2>2. now + t \in Nat /\ elapsed + t \in Nat BY BudgetAssumption DEF ReadInv, ReadTypeOK
  <2> QED BY <2>1, <2>2, Ticks
<1>3. On \in Session BY SessionTypes DEF On
<1>4. ReadTypeOK'
  BY <1>1, <1>2, <1>3, SMT DEF ReadInv, ReadTypeOK, chipVars, wakeVars, idVars, pageVars
<1>5. ~opened' BY DEF idVars, ReadInv, Phases, InSession
<1> QED BY <1>1, <1>4, <1>5, SearchKeepsRead DEF Searching

\* The SELECT of the matrix, the Hitag micro probe and the sessions.
LEMMA SessionsKeepRead ==
    ASSUME ReadInv,
           WakeSelect \/ Fallback \/ OpenSession \/ GiveUp \/ ModeProbe \/ ModeSelect
    PROVE  ReadInv'
<1>1. CASE WakeSelect
  <2>1. rpc = "wakeSelect" /\ UNCHANGED <<chipVars, active, wakeVars, clockVars, pageVars>>
    BY <1>1 DEF WakeSelect, Stay
  <2>2. CASE SelectOk BY <2>1, <2>2, SelectKeepsRead
  <2>3. CASE ~SelectOk
    <3>1. /\ rpc' = "fallback" /\ session' = Off /\ tagMode' = NoMode /\ uid' = ZeroWord
          /\ UNCHANGED <<config, opened, mode>>
      BY <1>1, <2>3 DEF WakeSelect, Restarted
    <3>2. ZeroWord \in Word BY DEF ZeroWord, Word, Byte
    <3>3. ReadTypeOK'
      BY <2>1, <3>1, <3>2, SessionTypes
      DEF ReadInv, ReadTypeOK, chipVars, wakeVars, clockVars, pageVars
    <3>4. ~opened' BY <2>1, <3>1 DEF ReadInv, Phases, InSession
    <3> QED BY <2>1, <3>1, <3>3, <3>4, SearchKeepsRead DEF Searching
  <2> QED BY <2>2, <2>3
<1>2. CASE Fallback
  <2>1. ASSUME NEW r, NEW st, ReadReturns(r, st) PROVE ReadInv'
    BY <2>1, ReturnKeepsRead DEF ReadReturns, Stay
  <2>2. ASSUME rpc' = "session" /\ Restarted(On),
               \E t \in StartTicks : start' = t /\ now' = t,
               Stay(<<active, wakeVars, tries, elapsed, idVars, pageVars>>)
        PROVE  ReadInv'
    <3>1. start' \in 0..(TickMod - 1) /\ now' \in 0..(TickMod - 1)
      BY <2>2, BudgetAssumption
    <3>2. On \in Session BY SessionTypes DEF On
    <3>3. ReadTypeOK'
      BY <2>2, <3>1, <3>2, SMT
      DEF Restarted, Stay, ReadInv, ReadTypeOK, chipVars, wakeVars, idVars, pageVars
    <3>4. rpc = "fallback" BY <1>2 DEF Fallback
    <3>5. ~opened' BY <2>2, <3>4 DEF Stay, idVars, ReadInv, Phases, InSession
    <3> QED BY <2>2, <3>3, <3>4, <3>5, SearchKeepsRead DEF Searching, Stay
  <2> QED BY <1>2, <2>1, <2>2 DEF Fallback
<1>3. CASE OpenSession
  <2>1. /\ rpc = "session" /\ rpc' = "mode" /\ tries < MaxSessions /\ tries' = tries + 1
        /\ active' = 1 /\ opened' = FALSE /\ mode' = "STD"
        /\ UNCHANGED <<chipVars, session, tagMode, wakeVars, start, now, elapsed, uid,
                       config, pageVars>>
    BY <1>3 DEF OpenSession, TryAgain, Stay
  <2>2. tries' \in 0..MaxSessions /\ 1 \in 1..4 /\ "STD" \in {Modes[j] : j \in 1..4}
    BY <2>1, FourModes, BudgetAssumption DEF ReadInv, ReadTypeOK
  <2>3. ReadTypeOK'
    BY <2>1, <2>2
    DEF ReadInv, ReadTypeOK, chipVars, wakeVars, pageVars
  <2> QED BY <2>1, <2>3, SearchKeepsRead DEF Searching
<1>4. CASE GiveUp BY <1>4, ReturnKeepsRead DEF GiveUp, ReadReturns, Stay
<1>5. CASE ModeProbe
  <2>1. PICK c \in Confirmations(active) :
          \/ c.word # Rejected /\ TakeUid(active, c, "modeSelect") /\ UNCHANGED clockVars
          \/ c.word = Rejected /\ ModeOver /\ UNCHANGED uid
    BY <1>5 DEF ModeProbe
  <2>2. /\ rpc = "mode" /\ active \in 1..4 /\ probe \in 1..Probes /\ quiet \in 0..QuietLimit
        /\ UNCHANGED <<chipVars, wakeVars, config, opened, mode, pageVars>>
    BY <1>5 DEF ModeProbe, Stay, ReadInv, ReadTypeOK
  <2>3. CASE c.word # Rejected
    <3>1. c.word \in Word /\ c.heard \in BOOLEAN
      BY <2>3, ConfirmationTypes DEF ReadInv, ReadTypeOK
    <3>2. probe' \in 1..Probes /\ quiet' \in 0..QuietLimit BY <2>2 DEF wakeVars
    <3> QED BY <2>1, <2>2, <2>3, <3>1, <3>2, TakeUidKeepsRead
  <2>4. CASE c.word = Rejected
    BY <2>1, <2>2, <2>4, ModeOverKeepsRead DEF idVars
  <2> QED BY <2>3, <2>4
<1>6. CASE ModeSelect
  BY <1>6, SelectKeepsRead, ModeOverKeepsRead DEF ModeSelect, Stay
<1> QED BY <1>1, <1>2, <1>3, <1>4, <1>5, <1>6
------------------------------------------------------------------------------
(* The pages.                                                                 *)

\* What a session that can be trusted is read by.
LEMMA TrustedSession ==
    ASSUME ReadInv, rpc \in InSession, Trusted
    PROVE  /\ ~noisy \/ HasCrc(active)
           /\ tagMode = mode /\ mode = Modes[active]
           /\ session.state \in {"selected", "authed"}
           /\ session.armed \in {NoPage, AuthPage}
           /\ chip.mem[0] \in UidVariants(uid) /\ config = Shows(chip.mem, 1)
           /\ Parse(config).auth = Parse(chip.mem[1]).auth
           /\ Parse(config).LKP = Parse(chip.mem[1]).LKP
           /\ LastPage(config) = LastPage(chip.mem[1])
<1>1. /\ tagMode = mode /\ mode = Modes[active]
      /\ session.state \in {"selected", "authed"}
      /\ session.armed \in {NoPage, AuthPage}
      /\ chip.mem[0] \in UidVariants(uid) /\ config = Shows(chip.mem, 1)
  BY DEF ReadInv, Linked
<1>2. active \in 1..4 /\ chip.mem[1] \in Word
  BY ChipTypes, PagesNamed DEF ReadInv, ReadTypeOK
<1>3. ~noisy \/ HasCrc(active) BY <1>1, <1>2, FourModes DEF Trusted
<1> QED BY <1>1, <1>2, <1>3, ShownConfig

\* The tag answers a READ_PAGE or it does not.
LEMMA ReadsOrNot == ASSUME NEW p PROVE Reads8268(p) \in BOOLEAN
BY DEF Reads8268, Readable

\* What a READ_PAGE of the session brings.
LEMMA PageReply ==
    ASSUME ReadInv, NEW p \in Pages, NEW r \in Reply(Reads8268(p), Shows(chip.mem, p))
    PROVE  /\ r.ok \in BOOLEAN /\ r.word \in Word \cup {<<>>}
           /\ r.ok => r.word \in Word
           /\ ~r.ok => r.word = <<>>
           /\ r.ok /\ (~noisy \/ HasCrc(active)) =>
                 Reads8268(p) /\ r.word = Shows(chip.mem, p)
           /\ ~noisy => r.ok = Reads8268(p)
<1> DEFINE w == Shows(chip.mem, p)
           answers == Reads8268(p)
<1>1. w \in Word /\ answers \in BOOLEAN BY ChipTypes, ReadsOrNot DEF ReadInv, ReadTypeOK
<1>2. r \in Reply(answers, w) OBVIOUS
<1> HIDE DEF w, answers
<1>3. /\ r.ok \in BOOLEAN /\ r.word \in Word \cup {<<>>}
      /\ r.ok => r.word \in Word
      /\ ~r.ok => r.word = <<>>
      /\ r.ok /\ (~noisy \/ HasCrc(active)) => answers /\ r.word = w
      /\ ~noisy => r.ok = answers
  BY <1>1, <1>2, Replies
<1> QED BY <1>3 DEF w, answers

\* A word stored where no other page is disturbed.
LEMMA OnePageKept ==
    ASSUME ReadInv, NEW p \in Pages, NEW w \in Word \cup {<<>>}, Keep(p, w)
    PROVE  /\ shown' \in [Pages -> Word \cup {<<>>}]
           /\ shown'[p] = w /\ \A q \in Pages \ {p} : shown'[q] = shown[q]
BY DEF Keep, ReadInv, ReadTypeOK

\* The configuration page, read before authentication.
LEMMA ReadConfigKeepsRead ==
    ASSUME ReadInv, ReadConfig
    PROVE  ReadInv'
<1>1. PICK r \in Reply(Reads8268(1), Shows(chip.mem, 1)) :
          /\ config' = (IF r.ok THEN r.word ELSE config)
          /\ shown' = [shown EXCEPT ![0] = uid, ![1] = r.word]
          /\ rpc' = IF WantsAuth(IF r.ok THEN r.word ELSE config, r.ok) THEN "auth" ELSE "pages"
  BY DEF ReadConfig
<1>2. /\ rpc = "config" /\ session' = Disarmed(session)
      /\ UNCHANGED <<chip, noisy, tagMode, active, probe, quiet, tries, start, now, elapsed,
                     uid, opened, mode, pwd, authed, page>>
  BY DEF ReadConfig, Stay, chipVars, wakeVars, clockVars
<1>3. /\ r.ok \in BOOLEAN /\ r.word \in Word \cup {<<>>}
      /\ r.ok => r.word \in Word
      /\ ~r.ok => r.word = <<>>
      /\ r.ok /\ (~noisy \/ HasCrc(active)) => r.word = Shows(chip.mem, 1)
      /\ ~noisy => r.ok = Reads8268(1)
  BY PageReply, PagesNamed
<1>4. /\ shown' \in [Pages -> Word \cup {<<>>}] /\ shown'[0] = uid /\ shown'[1] = r.word
      /\ \A q \in Pages \ {0, 1} : shown'[q] = shown[q]
  BY <1>1, <1>3, PagesNamed DEF ReadInv, ReadTypeOK
<1>5. config' \in Word /\ rpc' \in {"auth", "pages"}
  BY <1>1, <1>3 DEF ReadInv, ReadTypeOK
<1>6. session' \in Session /\ session'.armed = NoPage /\ session'.state = session.state
  BY <1>2, SessionTypes DEF ReadInv, ReadTypeOK
<1>7. ReadTypeOK' BY <1>2, <1>4, <1>5, <1>6 DEF ReadInv, ReadTypeOK
<1>8. Phases' BY <1>2, <1>5 DEF ReadInv, Phases, Searching, InSession
<1>9. rpc \in InSession /\ rpc' \in InSession BY <1>2, <1>5 DEF InSession
<1>10. Trusted' = Trusted BY <1>2 DEF Trusted
<1>11. ASSUME Trusted
       PROVE  /\ config' = Shows(chip.mem, 1) /\ tagMode' = mode' /\ mode' = Modes[active']
              /\ session'.state \in {"selected", "authed"}
              /\ chip.mem[0] \in UidVariants(uid)
              /\ r.ok => r.word = Shows(chip.mem, 1)
  BY <1>1, <1>2, <1>3, <1>6, <1>9, <1>11, TrustedSession
<1>12. Linked'
  <2>1. mode' = Modes[active'] BY <1>2, <1>9 DEF ReadInv, Linked
  <2> QED BY <1>2, <1>5, <1>6, <1>10, <1>11, <2>1 DEF Linked
<1>13. chip.mem[1] \in Word BY ChipTypes, PagesNamed DEF ReadInv, ReadTypeOK
<1>14. DebugReadFaithful'
  <2> SUFFICES ASSUME Trusted, NEW p \in Pages, shown'[p] # <<>>
               PROVE  IF p = 0 THEN chip.mem[0] \in UidVariants(shown'[0])
                      ELSE p <= LastPage(chip.mem[1]) /\ SameOnPage(p, shown'[p], chip.mem[p])
    BY <1>2, <1>10 DEF DebugReadFaithful
  <2>1. CASE p = 0 BY <1>4, <1>11, <2>1
  <2>2. CASE p = 1
    <3>1. shown'[1] = Shows(chip.mem, 1) BY <1>3, <1>4, <1>11, <2>2
    <3>2. 1 <= LastPage(chip.mem[1]) BY LastPages
    <3> QED BY <1>13, <2>2, <3>1, <3>2, ShownConfig
  <2>3. CASE p \notin {0, 1}
    <3>1. shown'[p] = shown[p] /\ opened BY <1>4, <1>9, <2>3 DEF ReadInv, Phases
    <3> QED BY <2>3, <3>1 DEF ReadInv, DebugReadFaithful
  <2> QED BY <2>1, <2>2, <2>3
<1>15. Clear'
  <2> SUFFICES ASSUME ~noisy PROVE Clear' BY <1>2 DEF Clear
  <2>1. Trusted BY DEF Trusted
  <2>2. ~authed /\ pwd = 1 /\ page = 2 BY <1>2 DEF ReadInv, Phases
  <2>3. session.state = "selected" BY <1>9, <2>1, <2>2, TrustedSession DEF ReadInv, Clear
  <2>4. \A p \in Pages \ {0, 1} : shown'[p] = <<>>
    BY <1>2, <1>4, <1>9 DEF ReadInv, Clear
  <2>5. r.ok <=> chip.plain /\ Parse(chip.mem[1]).auth = 0
    BY <1>3, <2>3 DEF Reads8268, Readable
  <2>6. r.ok => r.word = Shows(chip.mem, 1) /\ Parse(r.word).auth = Parse(chip.mem[1]).auth
    BY <1>11, <1>13, <2>1, ShownConfig
  <2>7. rpc' = (IF r.ok THEN "pages" ELSE "auth") BY <1>1, <2>5, <2>6 DEF WantsAuth
  <2>8. CASE r.ok
    <3>1. rpc' = "pages" /\ shown'[1] = Shows(chip.mem, 1) BY <1>4, <2>6, <2>7, <2>8
    <3>2. \A p \in Pages \ {0, 1} : ~(p < page) BY <2>2, PagesNamed
    <3> QED BY <1>2, <1>6, <2>2, <2>3, <2>4, <2>5, <2>8, <3>1, <3>2 DEF Clear
  <2>9. CASE ~r.ok
    <3>1. rpc' = "auth" /\ shown'[1] = <<>> BY <1>3, <1>4, <2>7, <2>9
    <3>2. \A p \in Pages \ {0} : shown'[p] = <<>> BY <2>4, <3>1
    <3> QED BY <1>2, <1>6, <2>2, <2>3, <3>1, <3>2 DEF Clear
  <2> QED BY <2>8, <2>9
<1> QED BY <1>7, <1>8, <1>12, <1>14, <1>15 DEF ReadInv
\* What the tag makes of the command of the page-64 authentication.
LEMMA HearsCommand ==
    ASSUME ReadInv, rpc \in InSession,
           NEW x \in Heard(HearsWritePage(chip.mem, session, AuthPage)),
           NEW a \in Taken(x.answer)
    PROVE  /\ a \in {"ack", "nack", "none"}
           /\ x.session \in Session /\ x.session.state = session.state
           /\ Trusted => x.session.armed \in {NoPage, AuthPage}
           /\ ~noisy => a = "ack" /\ x.session.armed = AuthPage
<1>1. session \in Session BY DEF ReadInv, ReadTypeOK
<1>2. /\ [session EXCEPT !.armed = AuthPage] \in Session
      /\ [session EXCEPT !.armed = AuthPage].armed = AuthPage
      /\ [session EXCEPT !.armed = AuthPage].state = session.state
  BY <1>1 DEF Session
<1>3. Disarmed(session) \in Session /\ Disarmed(session).armed = NoPage
      /\ Disarmed(session).state = session.state
  BY <1>1, SessionTypes
<1>4. Trusted => /\ session.state \in {"selected", "authed"}
                 /\ session.armed \in {NoPage, AuthPage}
  BY TrustedSession
<1>5. \/ /\ Accepts(chip.mem, session, AuthPage)
         /\ x.session = [session EXCEPT !.armed = AuthPage] /\ x.answer = "ack"
      \/ /\ ~Accepts(chip.mem, session, AuthPage)
         /\ x.session = Disarmed(session) /\ x.answer \in {"nack", "none"}
      \/ /\ noisy \/ session.state = "off"
         /\ x.session = session /\ x.answer = "none"
  <2>1. \/ x \in HearsWritePage(chip.mem, session, AuthPage)
        \/ (noisy \/ session.state = "off") /\ x = Misses(chip.mem, session)
    BY DEF Heard
  <2>2. CASE x = Misses(chip.mem, session)
    BY <2>1, <2>2 DEF Misses, React, HearsWritePage
  <2>3. CASE x \in HearsWritePage(chip.mem, session, AuthPage)
    BY <2>3 DEF HearsWritePage, React
  <2> QED BY <2>1, <2>2, <2>3
<1>6. a \in {"ack", "nack", "none"} /\ (~noisy => a = x.answer)
  BY <1>5 DEF Taken
<1>7. Trusted => Accepts(chip.mem, session, AuthPage) BY <1>4 DEF Accepts
<1>8. ~noisy => Trusted BY DEF Trusted
<1> QED BY <1>1, <1>2, <1>3, <1>4, <1>5, <1>6, <1>7, <1>8

\* And what it makes of the password.
LEMMA HearsPassword ==
    ASSUME ReadInv, rpc \in InSession,
           NEW x \in Heard(HearsData(chip.mem, session, DefaultPasswords[pwd])),
           NEW a \in Taken(x.answer)
    PROVE  /\ a \in {"ack", "nack", "none"}
           /\ x.session \in Session
           /\ Trusted => /\ x.session.state \in {"selected", "authed"}
                         /\ x.session.armed \in {NoPage, AuthPage}
           /\ ~noisy /\ session.armed = AuthPage =>
                 \/ /\ a = "ack" /\ DefaultPasswords[pwd] = chip.mem[2]
                    /\ x.session.state = "authed"
                 \/ /\ a = "nack" /\ DefaultPasswords[pwd] # chip.mem[2]
                    /\ x.session.state = session.state
<1> DEFINE w == DefaultPasswords[pwd]
           authed8268 == [state |-> "authed", armed |-> NoPage]
<1>1. session \in Session BY DEF ReadInv, ReadTypeOK
<1>2. Disarmed(session) \in Session /\ Disarmed(session).armed = NoPage
      /\ Disarmed(session).state = session.state
  BY <1>1, SessionTypes
<1>3. authed8268 \in Session /\ authed8268.state = "authed" /\ authed8268.armed = NoPage
  BY DEF Session
<1>4. Trusted => /\ session.state \in {"selected", "authed"}
                 /\ session.armed \in {NoPage, AuthPage}
  BY TrustedSession
<1>5. AuthPage \notin Pages /\ NoPage \notin Pages BY PagesNamed
<1>6. \/ /\ session.armed = AuthPage /\ w = chip.mem[2]
         /\ x.session = authed8268 /\ x.answer = "ack"
      \/ /\ session.armed = AuthPage /\ w # chip.mem[2]
         /\ x.session = Disarmed(session) /\ x.answer = "nack"
      \/ /\ session.armed \in Pages
         /\ x.session = Disarmed(session) /\ x.answer = "ack"
      \/ /\ session.armed \notin Pages \cup {AuthPage} \/ noisy \/ session.state = "off"
         /\ x.session = session /\ x.answer = "none"
  <2> HIDE DEF w
  <2>1. \/ x \in HearsData(chip.mem, session, w)
        \/ (noisy \/ session.state = "off") /\ x = Misses(chip.mem, session)
    BY DEF Heard, w
  <2>2. CASE (noisy \/ session.state = "off") /\ x = Misses(chip.mem, session)
    BY <2>2 DEF Misses, React
  <2>3. CASE x \in HearsData(chip.mem, session, w) /\ session.armed = AuthPage /\ w = chip.mem[2]
    BY <2>3 DEF HearsData, React
  <2>4. CASE x \in HearsData(chip.mem, session, w) /\ session.armed = AuthPage /\ w # chip.mem[2]
    BY <2>4 DEF HearsData, React
  <2>5. CASE x \in HearsData(chip.mem, session, w) /\ session.armed # AuthPage
             /\ session.armed \in Pages
    BY <2>5 DEF HearsData, React
  <2>6. CASE x \in HearsData(chip.mem, session, w) /\ session.armed # AuthPage
             /\ session.armed \notin Pages
    BY <2>6 DEF HearsData, React, Misses
  <2> QED BY <2>1, <2>2, <2>3, <2>4, <2>5, <2>6
<1>7. a \in {"ack", "nack", "none"} /\ (~noisy => a = x.answer)
  BY <1>6 DEF Taken
<1>8. ~noisy => Trusted BY DEF Trusted
<1> HIDE DEF authed8268, w
<1>9. x.session \in Session BY <1>1, <1>2, <1>3, <1>6
<1>10. Trusted => /\ x.session.state \in {"selected", "authed"}
                  /\ x.session.armed \in {NoPage, AuthPage}
  BY <1>2, <1>3, <1>4, <1>6
<1>11. ~noisy /\ session.armed = AuthPage =>
          \/ a = "ack" /\ w = chip.mem[2] /\ x.session.state = "authed"
          \/ a = "nack" /\ w # chip.mem[2] /\ x.session.state = session.state
  BY <1>2, <1>3, <1>4, <1>5, <1>6, <1>7, <1>8
<1> QED BY <1>7, <1>9, <1>10, <1>11 DEF w

\* A step of the authentication: what it keeps, and what must become of it.
LEMMA AuthStepKeepsRead ==
    ASSUME ReadInv, rpc \in {"auth", "password"},
           rpc' \in {"auth", "password", "reread", "pages"},
           session' \in Session,
           Trusted => /\ session'.state \in {"selected", "authed"}
                      /\ session'.armed \in {NoPage, AuthPage},
           pwd' \in 1..5, authed' \in BOOLEAN,
           authed' <=> rpc' \in {"reread", "pages"},
           UNCHANGED <<chipVars, tagMode, active, wakeVars, clockVars, idVars, page, shown>>,
           Clear'
    PROVE  ReadInv'
<1>1. UNCHANGED <<chip, noisy, tagMode, active, probe, quiet, tries, start, now, elapsed,
                  uid, config, opened, mode, page, shown>>
  BY DEF chipVars, wakeVars, clockVars, idVars
<1>2. ReadTypeOK' BY <1>1, FivePasswords DEF ReadInv, ReadTypeOK
<1>3. Phases' BY <1>1 DEF ReadInv, Phases, Searching, InSession
<1>4. rpc \in InSession /\ rpc' \in InSession /\ Trusted' = Trusted
  BY <1>1 DEF InSession, Trusted
<1>5. Linked' BY <1>1, <1>4 DEF ReadInv, Linked
<1>6. DebugReadFaithful' BY <1>1, <1>4 DEF ReadInv, DebugReadFaithful, Trusted
<1> QED BY <1>2, <1>3, <1>5, <1>6 DEF ReadInv
\* The command of an authentication.
LEMMA AuthCommandKeepsRead ==
    ASSUME ReadInv, AuthCommand
    PROVE  ReadInv'
<1>0. PICK x \in Heard(HearsWritePage(chip.mem, session, AuthPage)) : \E a \in Taken(x.answer) :
          \/ a = "ack"  /\ Goes("password", x.session) /\ UNCHANGED <<pwd, authed>>
          \/ a = "nack" /\ AuthFails("Nack", x.session)
          \/ a = "none" /\ AuthFails("Timeout", x.session)
  BY DEF AuthCommand
<1>1. PICK a \in Taken(x.answer) :
          \/ a = "ack"  /\ Goes("password", x.session) /\ UNCHANGED <<pwd, authed>>
          \/ a = "nack" /\ AuthFails("Nack", x.session)
          \/ a = "none" /\ AuthFails("Timeout", x.session)
  BY <1>0
<1>2. rpc = "auth" /\ rpc \in InSession /\ UNCHANGED chipVars
  BY DEF AuthCommand, InSession
<1>3. /\ x.session \in Session /\ x.session.state = session.state
      /\ Trusted => x.session.armed \in {NoPage, AuthPage}
      /\ ~noisy => a = "ack" /\ x.session.armed = AuthPage
  BY <1>2, HearsCommand
<1>4. Trusted => x.session.state \in {"selected", "authed"} BY <1>2, <1>3, TrustedSession
<1>5. pwd \in 1..5 /\ ~authed /\ authed \in BOOLEAN
  BY <1>2, FivePasswords DEF ReadInv, ReadTypeOK, Phases
<1>6. noisy' = noisy /\ chip' = chip BY <1>2 DEF chipVars
<1>7. CASE Goes("password", x.session) /\ UNCHANGED <<pwd, authed>> /\ a = "ack"
  <2>1. /\ rpc' = "password" /\ session' = x.session /\ pwd' = pwd /\ authed' = authed
        /\ UNCHANGED <<tagMode, active, wakeVars, clockVars, idVars, page, shown>>
    BY <1>7 DEF Goes
  <2>2. Clear'
    <3>1. shown' = shown BY <2>1
    <3> QED BY <1>2, <1>3, <1>5, <1>6, <2>1, <3>1 DEF ReadInv, Clear
  <2> QED BY <1>2, <1>3, <1>4, <1>5, <2>1, <2>2, AuthStepKeepsRead
<1>8. ASSUME NEW r, AuthFails(r, x.session), noisy PROVE ReadInv'
  <2>1. CASE r = "Nack" /\ pwd < Len(DefaultPasswords)
    <3>1. /\ rpc' = "auth" /\ session' = x.session /\ pwd' = pwd + 1 /\ authed' = authed
          /\ UNCHANGED <<tagMode, active, wakeVars, clockVars, idVars, page, shown>>
      BY <1>8, <2>1 DEF AuthFails
    <3>2. pwd' \in 1..5 BY <1>5, <2>1, <3>1, FivePasswords
    <3>3. Clear' BY <1>6, <1>8 DEF Clear
    <3> QED BY <1>2, <1>3, <1>4, <1>5, <3>1, <3>2, <3>3, AuthStepKeepsRead
  <2>2. CASE ~(r = "Nack" /\ pwd < Len(DefaultPasswords))
    <3>1. ReadReturns(r, "AUTH") BY <1>8, <2>2 DEF AuthFails
    <3> QED BY <1>2, <3>1, ReturnKeepsRead
  <2> QED BY <2>1, <2>2
<1> QED BY <1>1, <1>3, <1>7, <1>8

\* Its password.
LEMMA AuthPasswordKeepsRead ==
    ASSUME ReadInv, AuthPassword
    PROVE  ReadInv'
<1>0. PICK x \in Heard(HearsData(chip.mem, session, DefaultPasswords[pwd])) :
        \E a \in Taken(x.answer) :
          \/ a = "ack" /\ authed' = TRUE /\ pwd' = 1
             /\ Goes(IF shown[1] = <<>> THEN "reread" ELSE "pages", x.session)
          \/ a = "nack" /\ AuthFails("Nack", x.session)
          \/ a = "none" /\ AuthFails("Timeout", x.session)
  BY DEF AuthPassword
<1>1. PICK a \in Taken(x.answer) :
          \/ a = "ack" /\ authed' = TRUE /\ pwd' = 1
             /\ Goes(IF shown[1] = <<>> THEN "reread" ELSE "pages", x.session)
          \/ a = "nack" /\ AuthFails("Nack", x.session)
          \/ a = "none" /\ AuthFails("Timeout", x.session)
  BY <1>0
<1>2. rpc = "password" /\ rpc \in InSession /\ UNCHANGED chipVars
  BY DEF AuthPassword, InSession
<1>3. /\ x.session \in Session
      /\ Trusted => /\ x.session.state \in {"selected", "authed"}
                    /\ x.session.armed \in {NoPage, AuthPage}
      /\ ~noisy /\ session.armed = AuthPage =>
            \/ a = "ack" /\ x.session.state = "authed"
            \/ /\ a = "nack" /\ DefaultPasswords[pwd] # chip.mem[2]
               /\ x.session.state = session.state
  BY <1>2, HearsPassword
<1>4. pwd \in 1..5 /\ ~authed /\ authed \in BOOLEAN /\ page = 2
  BY <1>2, FivePasswords DEF ReadInv, ReadTypeOK, Phases
<1>5. noisy' = noisy /\ chip' = chip BY <1>2 DEF chipVars
<1>6. ~noisy => /\ session.armed = AuthPage /\ session.state # "authed"
                /\ \A i \in 1..(pwd - 1) : DefaultPasswords[i] # chip.mem[2]
                /\ \A p \in Pages \ {0} : shown[p] = <<>>
  BY <1>2, <1>4 DEF ReadInv, Clear
<1>7. CASE a = "ack" /\ authed' = TRUE /\ pwd' = 1
           /\ Goes(IF shown[1] = <<>> THEN "reread" ELSE "pages", x.session)
  <2>1. /\ rpc' = (IF shown[1] = <<>> THEN "reread" ELSE "pages") /\ session' = x.session
        /\ UNCHANGED <<tagMode, active, wakeVars, clockVars, idVars, page, shown>>
    BY <1>7 DEF Goes
  <2>2. Clear'
    <3> SUFFICES ASSUME ~noisy PROVE Clear' BY <1>5 DEF Clear
    <3>1. rpc' = "reread" BY <1>6, <2>1, PagesNamed
    <3>2. session'.state = "authed" BY <1>3, <1>6, <1>7, <2>1
    <3>3. shown' = shown BY <2>1
    <3> QED BY <1>5, <1>6, <1>7, <3>1, <3>2, <3>3 DEF Clear
  <2> QED BY <1>2, <1>3, <1>7, <2>1, <2>2, AuthStepKeepsRead
<1>8. ASSUME NEW r, AuthFails(r, x.session), r = "Nack" => a = "nack" PROVE ReadInv'
  <2>1. CASE r = "Nack" /\ pwd < Len(DefaultPasswords)
    <3>1. /\ rpc' = "auth" /\ session' = x.session /\ pwd' = pwd + 1 /\ authed' = authed
          /\ UNCHANGED <<tagMode, active, wakeVars, clockVars, idVars, page, shown>>
      BY <1>8, <2>1 DEF AuthFails
    <3>2. pwd' \in 1..5 BY <1>4, <2>1, <3>1, FivePasswords
    <3>3. Clear'
      <4> SUFFICES ASSUME ~noisy PROVE Clear' BY <1>5 DEF Clear
      <4>1. DefaultPasswords[pwd] # chip.mem[2] /\ x.session.state = session.state
        BY <1>3, <1>6, <1>8, <2>1
      <4>2. \A i \in 1..(pwd' - 1) : i \in 1..(pwd - 1) \/ i = pwd BY <1>4, <3>1
      <4>3. \A i \in 1..(pwd' - 1) : DefaultPasswords[i] # chip.mem[2]
        BY <1>6, <4>1, <4>2
      <4>4. shown' = shown BY <3>1
      <4> QED BY <1>4, <1>5, <1>6, <3>1, <4>1, <4>3, <4>4 DEF Clear
    <3> QED BY <1>2, <1>3, <1>4, <3>1, <3>2, <3>3, AuthStepKeepsRead
  <2>2. CASE ~(r = "Nack" /\ pwd < Len(DefaultPasswords))
    <3>1. ReadReturns(r, "AUTH") BY <1>8, <2>2 DEF AuthFails
    <3> QED BY <1>2, <3>1, ReturnKeepsRead
  <2> QED BY <2>1, <2>2
<1>9. "Timeout" # "Nack" OBVIOUS
<1> QED BY <1>1, <1>7, <1>8, <1>9

\* On a clear channel an authentication is given up when every one of the
\* default passwords has been refused.
LEMMA AllRefused ==
    ASSUME ReadInv, AuthCommand \/ AuthPassword, rpc' = "idle", ~noisy
    PROVE  \A i \in DOMAIN DefaultPasswords : DefaultPasswords[i] # chip.mem[2]
<1>1. rpc \in InSession /\ pwd \in 1..5
  BY FivePasswords DEF AuthCommand, AuthPassword, InSession, ReadInv, ReadTypeOK
<1>2. CASE AuthCommand
  <2>0. PICK x \in Heard(HearsWritePage(chip.mem, session, AuthPage)) :
          \E a \in Taken(x.answer) :
            \/ a = "ack"  /\ Goes("password", x.session)
            \/ a = "nack" \/ a = "none"
    BY <1>2 DEF AuthCommand
  <2>1. PICK a \in Taken(x.answer) :
            \/ a = "ack"  /\ Goes("password", x.session)
            \/ a = "nack" \/ a = "none"
    BY <2>0
  <2>2. a = "ack" BY <1>1, <2>1, HearsCommand
  <2> QED BY <2>1, <2>2 DEF Goes
<1>3. CASE AuthPassword
  <2>0. PICK x \in Heard(HearsData(chip.mem, session, DefaultPasswords[pwd])) :
          \E a \in Taken(x.answer) :
            \/ a = "ack" /\ Goes(IF shown[1] = <<>> THEN "reread" ELSE "pages", x.session)
            \/ a = "nack" /\ AuthFails("Nack", x.session)
            \/ a = "none"
    BY <1>3 DEF AuthPassword
  <2>1. PICK a \in Taken(x.answer) :
            \/ a = "ack" /\ Goes(IF shown[1] = <<>> THEN "reread" ELSE "pages", x.session)
            \/ a = "nack" /\ AuthFails("Nack", x.session)
            \/ a = "none"
    BY <2>0
  <2>2. /\ rpc = "password" /\ session.armed = AuthPage
        /\ \A i \in 1..(pwd - 1) : DefaultPasswords[i] # chip.mem[2]
    BY <1>1, <1>3 DEF AuthPassword, ReadInv, Clear
  <2>3. a = "ack" \/ (a = "nack" /\ DefaultPasswords[pwd] # chip.mem[2])
    BY <1>1, <2>1, <2>2, HearsPassword
  <2>4. a # "ack" BY <2>1 DEF Goes
  <2>5. pwd = 5
    BY <1>1, <2>1, <2>3, <2>4, FivePasswords DEF AuthFails
  <2>6. \A i \in 1..5 : i \in 1..(pwd - 1) \/ i = pwd BY <2>5
  <2> QED BY <2>2, <2>3, <2>4, <2>6, FivePasswords
<1> QED BY <1>2, <1>3
\* The configuration page once more.
LEMMA RereadKeepsRead ==
    ASSUME ReadInv, RereadConfig
    PROVE  ReadInv'
<1>1. PICK r \in Reply(Reads8268(1), Shows(chip.mem, 1)) :
        config' = (IF r.ok THEN r.word ELSE config) /\ Keep(1, r.word)
  BY DEF RereadConfig
<1>2. /\ rpc = "reread" /\ rpc' = "pages" /\ session' = Disarmed(session)
      /\ UNCHANGED <<chip, noisy, tagMode, active, probe, quiet, tries, start, now, elapsed,
                     uid, opened, mode, pwd, authed, page>>
  BY DEF RereadConfig, Stay, chipVars, wakeVars, clockVars
<1>3. /\ r.ok \in BOOLEAN /\ r.word \in Word \cup {<<>>}
      /\ r.ok => r.word \in Word
      /\ ~r.ok => r.word = <<>>
      /\ r.ok /\ (~noisy \/ HasCrc(active)) => r.word = Shows(chip.mem, 1)
      /\ ~noisy => r.ok = Reads8268(1)
  BY PageReply, PagesNamed
<1>4. /\ shown' \in [Pages -> Word \cup {<<>>}] /\ shown'[1] = r.word
      /\ \A q \in Pages \ {1} : shown'[q] = shown[q]
  BY <1>1, <1>3, OnePageKept, PagesNamed
<1>5. config' \in Word BY <1>1, <1>3 DEF ReadInv, ReadTypeOK
<1>6. session' \in Session /\ session'.armed = NoPage /\ session'.state = session.state
  BY <1>2, SessionTypes DEF ReadInv, ReadTypeOK
<1>7. ReadTypeOK' BY <1>2, <1>4, <1>5, <1>6 DEF ReadInv, ReadTypeOK
<1>8. Phases' BY <1>2 DEF ReadInv, Phases, Searching, InSession
<1>9. rpc \in InSession /\ rpc' \in InSession BY <1>2 DEF InSession
<1>10. Trusted' = Trusted BY <1>2 DEF Trusted
<1>11. ASSUME Trusted
       PROVE  /\ config' = Shows(chip.mem, 1) /\ tagMode' = mode' /\ mode' = Modes[active']
              /\ session'.state \in {"selected", "authed"}
              /\ chip.mem[0] \in UidVariants(uid)
              /\ r.ok => r.word = Shows(chip.mem, 1)
  BY <1>1, <1>2, <1>3, <1>6, <1>9, <1>11, TrustedSession
<1>12. Linked'
  <2>1. mode' = Modes[active'] BY <1>2, <1>9 DEF ReadInv, Linked
  <2> QED BY <1>2, <1>6, <1>10, <1>11, <2>1 DEF Linked
<1>13. chip.mem[1] \in Word BY ChipTypes, PagesNamed DEF ReadInv, ReadTypeOK
<1>14. DebugReadFaithful'
  <2> SUFFICES ASSUME Trusted, NEW p \in Pages, shown'[p] # <<>>
               PROVE  IF p = 0 THEN chip.mem[0] \in UidVariants(shown'[0])
                      ELSE p <= LastPage(chip.mem[1]) /\ SameOnPage(p, shown'[p], chip.mem[p])
    BY <1>2, <1>10 DEF DebugReadFaithful
  <2>1. CASE p = 1
    <3>1. shown'[1] = Shows(chip.mem, 1) BY <1>3, <1>4, <1>11, <2>1
    <3>2. 1 <= LastPage(chip.mem[1]) BY LastPages
    <3> QED BY <1>13, <2>1, <3>1, <3>2, ShownConfig
  <2>2. CASE p # 1
    <3>1. shown'[p] = shown[p] /\ opened BY <1>4, <1>9, <2>2 DEF ReadInv, Phases
    <3>2. shown'[0] = shown[0] BY <1>4, PagesNamed
    <3> QED BY <3>1, <3>2 DEF ReadInv, DebugReadFaithful
  <2> QED BY <2>1, <2>2
<1>15. Clear'
  <2> SUFFICES ASSUME ~noisy PROVE Clear' BY <1>2 DEF Clear
  <2>1. Trusted BY DEF Trusted
  <2>2. authed /\ page = 2 BY <1>2 DEF ReadInv, Phases
  <2>3. session.state = "authed" /\ \A p \in Pages \ {0} : shown[p] = <<>>
    BY <1>2, <1>9, <2>2 DEF ReadInv, Clear
  <2>4. Reads8268(1) BY <2>3 DEF Reads8268, Readable
  <2>5. shown'[1] = Shows(chip.mem, 1) BY <1>3, <1>4, <1>11, <2>1, <2>4
  <2>6. \A p \in Pages \ {0, 1} : ~(p < page) /\ shown'[p] = <<>>
    BY <1>4, <2>2, <2>3, PagesNamed
  <2> QED BY <1>2, <1>6, <2>2, <2>3, <2>5, <2>6 DEF Clear
<1> QED BY <1>7, <1>8, <1>12, <1>14, <1>15 DEF ReadInv

\* A page passed over, because the tag will not show it.
LEMMA SkipKeepsRead ==
    ASSUME ReadInv, SkipProtected
    PROVE  ReadInv'
<1>1. /\ rpc = "pages" /\ rpc' = "pages" /\ page' = page + 1
      /\ page \in {2, 3} /\ authed /\ Parse(config).LKP = 1
      /\ UNCHANGED <<chip, noisy, tagMode, active, probe, quiet, tries, start, now, elapsed,
                     uid, config, opened, mode, pwd, authed, session, shown>>
  BY DEF SkipProtected, Protected, NextPage, Stay, chipVars, wakeVars, clockVars, idVars
<1>2. page' \in Pages \cup {TopPage + 1} BY <1>1, TopPageAssumption DEF Pages
<1>3. ReadTypeOK' BY <1>1, <1>2 DEF ReadInv, ReadTypeOK
<1>4. Phases' BY <1>1 DEF ReadInv, Phases, Searching, InSession
<1>5. rpc \in InSession /\ Trusted' = Trusted BY <1>1 DEF InSession, Trusted
<1>6. Linked' BY <1>1, <1>5 DEF ReadInv, Linked
<1>7. DebugReadFaithful' BY <1>1, <1>5 DEF ReadInv, DebugReadFaithful
<1>8. Clear'
  <2> SUFFICES ASSUME ~noisy PROVE Clear' BY <1>1 DEF Clear
  <2>1. Parse(chip.mem[1]).LKP = 1 BY <1>1, <1>5, TrustedSession DEF Trusted
  <2>2. /\ authed <=> session.state = "authed"
        /\ shown[1] = Shows(chip.mem, 1)
        /\ \A p \in Pages \ {0, 1} :
              IF p < page THEN shown[p] = EndsAs(p) \/ PassedOver(p) ELSE shown[p] = <<>>
    BY <1>1, <1>5 DEF ReadInv, Clear
  <2>3. \A p \in Pages \ {0, 1} :
          IF p < page' THEN shown[p] = EndsAs(p) \/ PassedOver(p) ELSE shown[p] = <<>>
    <3> TAKE p \in Pages \ {0, 1}
    <3>1. p \in Nat BY PagesNamed
    <3>2. CASE p = page BY <1>1, <2>1, <2>2, <3>1, <3>2 DEF PassedOver
    <3>3. CASE p # page
      <4>1. p < page' <=> p < page BY <1>1, <3>1, <3>3
      <4> QED BY <2>2, <4>1
    <3> QED BY <3>2, <3>3
  <2>4. \A p \in Pages : EndsAs(p)' = EndsAs(p) /\ PassedOver(p)' = PassedOver(p)
    BY <1>1 DEF EndsAs, PassedOver
  <2> QED BY <1>1, <2>2, <2>3, <2>4 DEF Clear
<1> QED BY <1>3, <1>4, <1>6, <1>7, <1>8 DEF ReadInv

\* The tag of a session shows a page, while it shows pages at all, if it would
\* show it to a reader who has authenticated.
LEMMA ShownAsAuthed ==
    ASSUME NEW p, session.state = "authed"
                  \/ (session.state = "selected" /\ chip.plain
                      /\ Parse(chip.mem[1]).auth = 0)
    PROVE  Reads8268(p)
             <=> Readable(chip.mem, [state |-> "authed", armed |-> NoPage], p)
BY DEF Reads8268, Readable

\* A page read.
LEMMA ReadPageKeepsRead ==
    ASSUME ReadInv, ReadPage
    PROVE  ReadInv'
<1>1. PICK r \in Reply(Reads8268(page), Shows(chip.mem, page)) : Keep(page, r.word)
  BY DEF ReadPage, StoreAt
<1>2. /\ rpc = "pages" /\ rpc' = "pages" /\ page' = page + 1
      /\ page <= 3 \/ page <= LastPage(config)
      /\ session' = Disarmed(session)
      /\ UNCHANGED <<chip, noisy, tagMode, active, probe, quiet, tries, start, now, elapsed,
                     uid, config, opened, mode, pwd, authed>>
  BY DEF ReadPage, NextPage, Stay, chipVars, wakeVars, clockVars, idVars
<1>3. page \in Pages /\ page >= 2 /\ page' \in Pages \cup {TopPage + 1}
  BY <1>2, LastPages, TopPageAssumption DEF ReadInv, ReadTypeOK, Phases, Pages
<1>4. /\ r.ok \in BOOLEAN /\ r.word \in Word \cup {<<>>}
      /\ ~r.ok => r.word = <<>>
      /\ r.ok /\ (~noisy \/ HasCrc(active)) => r.word = Shows(chip.mem, page)
      /\ ~noisy => r.ok = Reads8268(page)
  BY <1>3, PageReply
<1>5. /\ shown' \in [Pages -> Word \cup {<<>>}] /\ shown'[page] = r.word
      /\ \A q \in Pages \ {page} : shown'[q] = shown[q]
  BY <1>1, <1>3, <1>4, OnePageKept
<1>6. session' \in Session /\ session'.armed = NoPage /\ session'.state = session.state
  BY <1>2, SessionTypes DEF ReadInv, ReadTypeOK
<1>7. ReadTypeOK' BY <1>2, <1>3, <1>5, <1>6 DEF ReadInv, ReadTypeOK
<1>8. Phases' BY <1>2, <1>3 DEF ReadInv, Phases, Searching, InSession, Pages
<1>9. rpc \in InSession /\ Trusted' = Trusted BY <1>2 DEF InSession, Trusted
<1>10. Linked' BY <1>2, <1>6, <1>9 DEF ReadInv, Linked
<1>11. ASSUME Trusted
       PROVE  /\ page <= LastPage(chip.mem[1]) /\ Shows(chip.mem, page) = chip.mem[page]
              /\ r.ok => r.word = Shows(chip.mem, page)
  <2>1. LastPage(config) = LastPage(chip.mem[1]) /\ (~noisy \/ HasCrc(active))
    BY <1>9, <1>11, TrustedSession
  <2>2. page <= LastPage(chip.mem[1]) BY <1>2, <1>3, <2>1, LastPages DEF Pages
  <2>3. page # 1 BY <1>3
  <2> QED BY <1>4, <2>1, <2>2, <2>3 DEF Shows
<1>12. DebugReadFaithful'
  <2> SUFFICES ASSUME Trusted, NEW p \in Pages, shown'[p] # <<>>
               PROVE  IF p = 0 THEN chip.mem[0] \in UidVariants(shown'[0])
                      ELSE p <= LastPage(chip.mem[1]) /\ SameOnPage(p, shown'[p], chip.mem[p])
    BY <1>2, <1>9 DEF DebugReadFaithful
  <2>1. CASE p = page
    <3>1. shown'[p] = chip.mem[p] /\ p # 0 /\ p # 1 BY <1>3, <1>4, <1>5, <1>11, <2>1
    <3> QED BY <1>11, <2>1, <3>1 DEF SameOnPage
  <2>2. CASE p # page
    <3>1. shown'[p] = shown[p] /\ opened BY <1>5, <1>9, <2>2 DEF ReadInv, Phases
    <3>2. shown'[0] = shown[0] BY <1>3, <1>5, PagesNamed
    <3> QED BY <3>1, <3>2 DEF ReadInv, DebugReadFaithful
  <2> QED BY <2>1, <2>2
<1>13. Clear'
  <2> SUFFICES ASSUME ~noisy PROVE Clear' BY <1>2 DEF Clear
  <2>1. Trusted BY DEF Trusted
  <2>2. /\ authed <=> session.state = "authed"
        /\ authed \/ (chip.plain /\ Parse(chip.mem[1]).auth = 0)
        /\ shown[1] = Shows(chip.mem, 1)
        /\ \A p \in Pages \ {0, 1} :
              IF p < page THEN shown[p] = EndsAs(p) \/ PassedOver(p) ELSE shown[p] = <<>>
    BY <1>2, <1>9 DEF ReadInv, Clear
  <2>3. session.state \in {"selected", "authed"} BY <1>9, <2>1, TrustedSession
  <2>4. r.ok <=> Readable(chip.mem, [state |-> "authed", armed |-> NoPage], page)
    BY <1>4, <2>2, <2>3, ShownAsAuthed
  <2>5. shown'[page] = EndsAs(page) BY <1>4, <1>5, <1>11, <2>1, <2>4 DEF EndsAs
  <2>6. \A p \in Pages : EndsAs(p)' = EndsAs(p) BY <1>2 DEF EndsAs
  <2>7. ASSUME NEW p \in Pages, shown'[p] = shown[p] PROVE PassedOver(p)' = PassedOver(p)
    BY <1>2, <2>7 DEF PassedOver
  <2>8. ASSUME NEW p \in Pages \ {0, 1}
        PROVE  IF p < page' THEN shown'[p] = EndsAs(p)' \/ PassedOver(p)' ELSE shown'[p] = <<>>
    <3>1. p \in Nat /\ page \in Nat BY <1>3, PagesNamed
    <3>2. CASE p = page BY <1>2, <2>5, <2>6, <3>1, <3>2
    <3>3. CASE p # page
      <4>1. p < page' <=> p < page BY <1>2, <3>1, <3>3
      <4>2. shown'[p] = shown[p] BY <1>5, <3>3
      <4> QED BY <2>2, <2>6, <2>7, <4>1, <4>2
    <3> QED BY <3>2, <3>3
  <2>9. shown'[1] = Shows(chip'.mem, 1)
    <3>1. page # 1 BY <1>3
    <3> QED BY <1>2, <1>5, <2>2, <3>1, PagesNamed
  <2> QED BY <1>2, <1>6, <2>2, <2>8, <2>9 DEF Clear
<1> QED BY <1>7, <1>8, <1>10, <1>12, <1>13 DEF ReadInv
------------------------------------------------------------------------------
(* The invariant of the debug read.                                           *)

\* Nothing of a debug read is left when another diagnostic begins or goes on.
LEMMA IdleKeepsRead ==
    ASSUME ReadInv, rpc = "idle", rpc' = "idle",
           chip' \in Chips \cup {NoChip}, noisy' \in BOOLEAN,
           shown' \in [Pages -> Word \cup {<<>>}],
           UNCHANGED <<linkVars, wakeVars, clockVars, idVars, pwd, authed, page>>
    PROVE  ReadInv'
<1>1. UNCHANGED <<session, tagMode, active, probe, quiet, tries, start, now, elapsed,
                  uid, config, opened, mode, pwd, authed, page>>
  BY DEF linkVars, wakeVars, clockVars, idVars
<1>2. ReadTypeOK' BY <1>1 DEF ReadInv, ReadTypeOK
<1>3. Phases'
  <2>1. ReadIdle' BY <1>1 DEF ReadInv, Phases, ReadIdle
  <2> QED BY <1>1, <2>1 DEF ReadInv, Phases, Searching, InSession
<1>4. ~opened' BY <1>1 DEF ReadInv, Phases, InSession
<1>5. Linked' /\ DebugReadFaithful' /\ Clear'
  BY <1>4 DEF Linked, DebugReadFaithful, Clear, InSession
<1> QED BY <1>2, <1>3, <1>5 DEF ReadInv

\* A tag that shows nothing has pages of no words.
LEMMA NothingShown == NoShown \in [Pages -> Word \cup {<<>>}]
BY DEF NoShown

\* No step of the diagnostics breaks it.
LEMMA ReadInvStep == ReadInv /\ OneRuns /\ [Next]_vars => ReadInv'
<1> SUFFICES ASSUME ReadInv, OneRuns, [Next]_vars PROVE ReadInv' OBVIOUS
<1>1. CASE MatrixStart /\ ReadCleared /\ NoDiagnostic
  <2>1. /\ rpc = "idle" /\ rpc' = "idle" /\ chip' = NoChip /\ noisy' = FALSE
        /\ shown' = NoShown
        /\ UNCHANGED <<linkVars, wakeVars, clockVars, idVars, pwd, authed, page>>
    BY <1>1 DEF ReadCleared, NoDiagnostic
  <2> QED BY <2>1, NothingShown, IdleKeepsRead
<1>2. CASE ReadStart
  <2>1. /\ rpc = "idle" /\ rpc' = "wake" /\ chip' \in Chips /\ noisy' \in BOOLEAN
        /\ shown' = NoShown
        /\ UNCHANGED <<session, tagMode, active, probe, quiet, tries, start, now, elapsed,
                       uid, config, opened, mode, pwd, authed, page>>
    BY <1>2 DEF ReadStart, linkVars, wakeVars, clockVars, idVars
  <2>2. ReadTypeOK' BY <2>1, NothingShown DEF ReadInv, ReadTypeOK
  <2>3. ReadIdle BY <2>1 DEF ReadInv, Phases
  <2>4. Phases' BY <2>1, <2>3 DEF Phases, ReadIdle, Searching, InSession
  <2>5. Linked' /\ DebugReadFaithful' /\ Clear'
    BY <2>1, <2>3 DEF ReadIdle, Linked, DebugReadFaithful, Clear, InSession
  <2> QED BY <2>2, <2>4, <2>5 DEF ReadInv
<1>3. CASE DebugReadStep
  <2>1. CASE PagesDone BY <2>1, ReturnKeepsRead DEF PagesDone, ReadReturns, Stay
  <2> QED BY <1>3, <2>1, WakeKeepsRead, SessionsKeepRead, ReadConfigKeepsRead,
             AuthCommandKeepsRead, AuthPasswordKeepsRead, RereadKeepsRead, SkipKeepsRead,
             ReadPageKeepsRead
          DEF DebugReadStep
<1>4. CASE UNCHANGED readVars
  <2>1. UNCHANGED <<chip, noisy, session, tagMode, rpc, active, probe, quiet, tries, start, now,
                    elapsed, uid, config, opened, mode, pwd, authed, page, shown>>
    BY <1>4 DEF readVars, chipVars, linkVars, wakeVars, clockVars, idVars, pageVars
  <2>2. ReadTypeOK' BY <2>1 DEF ReadInv, ReadTypeOK
  <2>3. Phases' BY <2>1 DEF ReadInv, Phases, ReadIdle
  <2>4. Linked' BY <2>1 DEF ReadInv, Linked, Trusted
  <2>5. DebugReadFaithful' BY <2>1 DEF ReadInv, DebugReadFaithful, Trusted
  <2>6. Clear' BY <2>1 DEF ReadInv, Clear, EndsAs, PassedOver
  <2> QED BY <2>2, <2>3, <2>4, <2>5, <2>6 DEF ReadInv
<1> QED BY <1>1, <1>2, <1>3, <1>4 DEF Next, Begin, Worker, vars

\* It holds at first.
LEMMA ReadInvInit == Init => ReadInv
<1> SUFFICES ASSUME Init PROVE ReadInv OBVIOUS
<1>1. chip = NoChip /\ noisy = FALSE /\ shown = NoShown /\ ReadIdle
  BY DEF Init, ReadInit
<1>2. ReadTypeOK
  <2>1. ZeroWord \in Word BY DEF ZeroWord, Word, Byte
  <2>2. /\ 1 \in 1..Probes /\ 0 \in 0..QuietLimit /\ 0 \in 0..MaxSessions
        /\ 0 \in 0..(TickMod - 1) /\ 0 \in Nat
    BY BudgetAssumption DEF Probes
  <2>3. Off \in Session /\ 1 \in DOMAIN DefaultPasswords /\ 2 \in Pages
    BY SessionTypes, FivePasswords, PagesNamed
  <2>4. /\ probe \in 1..Probes /\ quiet \in 0..QuietLimit
        /\ tries \in 0..MaxSessions /\ elapsed \in Nat
        /\ start \in 0..(TickMod - 1) /\ now \in 0..(TickMod - 1)
    BY <1>1, <2>2 DEF ReadIdle
  <2>5. /\ uid \in Word /\ config \in Word /\ session \in Session
        /\ pwd \in DOMAIN DefaultPasswords
    BY <1>1, <2>1, <2>3 DEF ReadIdle
  <2>6. /\ tagMode \in {NoMode} \cup {Modes[i] : i \in 1..4}
        /\ mode \in {NoMode} \cup {Modes[i] : i \in 1..4}
        /\ active \in 1..4 /\ page \in Pages \cup {TopPage + 1}
        /\ rpc = "idle" /\ opened = FALSE /\ authed = FALSE
    BY <1>1, <2>3 DEF ReadIdle
  <2> QED BY <1>1, <2>4, <2>5, <2>6, NothingShown DEF ReadTypeOK
<1>3. Phases BY <1>1 DEF ReadIdle, Phases, Searching, InSession
<1>4. Linked /\ DebugReadFaithful /\ Clear
  BY <1>1 DEF ReadIdle, Linked, DebugReadFaithful, Clear, InSession
<1> QED BY <1>2, <1>3, <1>4 DEF ReadInv

\* With whatever tag, noise and clock: every variable of the debug read keeps
\* its kind, and each phase finds what it counts on.
THEOREM ReadInvHolds == Spec => []ReadInv
<1>1. Init => ReadInv BY ReadInvInit
<1>2. ReadInv /\ (MatrixInv /\ TraceInv) /\ [Next]_vars => ReadInv'
  BY ReadInvStep DEF MatrixInv
<1> QED BY <1>1, <1>2, DiagnosticsInv, PTL DEF Spec

\* Each page the debug read marks as read is the tag's, unless the channel adds
\* noise to a mode without CRC8: for every tag, noise and wake matrix.
THEOREM PagesAreTheTags == Spec => []DebugReadFaithful
<1>1. ReadInv => DebugReadFaithful BY DEF ReadInv
<1> QED BY <1>1, ReadInvHolds, PTL

\* The mode reported, the one replies are decoded by and the one the tag answers
\* in agree whenever a session is open and can be trusted.
THEOREM OneModeForAll == Spec => []ModeAgrees
<1>1. ReadInv => ModeAgrees
  <2> SUFFICES ASSUME ReadInv, opened, Trusted
               PROVE  /\ mode = Modes[active] /\ tagMode = mode
                      /\ session.state \in {"selected", "authed"}
                      /\ ~noisy => (authed <=> session.state = "authed")
    BY DEF ModeAgrees
  <2>1. rpc \in InSession BY DEF ReadInv, Phases
  <2> QED BY <2>1, TrustedSession DEF ReadInv, Clear
<1> QED BY <1>1, ReadInvHolds, PTL
------------------------------------------------------------------------------
(* The end of a run: its result, its stage and what they promise.             *)

Results == {"None", "Ok", "Timeout", "Nack", "CrcError", "Error"}

\* The stages a matrix ends with.
LEMMA MatrixStages ==
    ASSUME WriteTrialStep, report.stage = "WRITE_MATRIX"
    PROVE  \/ wpc' # "idle" /\ Log
           \/ /\ wpc' = "idle"
              /\ \E result \in Results,
                    stage \in {"WRITE_MATRIX", "WRITE_STIM_RESTORE_FAILED"} :
                      TraceStop(result, stage)
<1> DEFINE R == {"WRITE_MATRIX", "WRITE_STIM_RESTORE_FAILED"}
           G == \/ wpc' # "idle" /\ Log
                \/ wpc' = "idle" /\ \E result \in Results, stage \in R : TraceStop(result, stage)
<1>1. CASE BaselineFails
  <2>1. "Timeout" \in Results /\ "WRITE_MATRIX" \in R BY DEF Results
  <2>2. wpc' = "idle" /\ TraceStop("Timeout", "WRITE_MATRIX")
    BY <1>1 DEF BaselineFails, MatrixReturns
  <2> QED BY <2>1, <2>2
<1>2. CASE RestoreFailed
  <2>1. "Error" \in Results /\ "WRITE_STIM_RESTORE_FAILED" \in R BY DEF Results
  <2>2. wpc' = "idle" /\ TraceStop("Error", "WRITE_STIM_RESTORE_FAILED")
    BY <1>2 DEF RestoreFailed, MatrixReturns
  <2> QED BY <2>1, <2>2
<1>3. CASE MatrixDone
  <2>1. "Ok" \in Results /\ "WRITE_MATRIX" \in R BY DEF Results
  <2>2. wpc' = "idle" /\ TraceStop("Ok", "WRITE_MATRIX")
    BY <1>3 DEF MatrixDone, MatrixReturns
  <2> QED BY <2>1, <2>2
<1>4. CASE ~BaselineFails /\ ~RestoreFailed /\ ~MatrixDone
  BY <1>4 DEF WriteTrialStep, BaselineRead, BaselineDone, TrialWrite, TrialRead, TrialJudged,
              Restore, RestoreRead, NextTrial
<1> QED BY <1>1, <1>2, <1>3, <1>4

\* What a debug read that has ended is remembered by.
EndedWith(result, stage) ==
    /\ rpc' = "idle" /\ session' = Off /\ UNCHANGED <<chip, noisy, shown>>
    /\ TraceStop(result, stage)

\* The stages a debug read ends with, and where READ and AUTH come from.
LEMMA ReadStages ==
    ASSUME DebugReadStep
    PROVE  \/ rpc' # "idle" /\ Log
           \/ \E result \in Results, stage \in Stages :
                 /\ EndedWith(result, stage)
                 /\ stage = "READ" => PagesDone
                 /\ stage = "AUTH" => AuthCommand \/ AuthPassword
<1> DEFINE G == \/ rpc' # "idle" /\ Log
                \/ \E result \in Results, stage \in Stages :
                      /\ EndedWith(result, stage)
                      /\ stage = "READ" => PagesDone
                      /\ stage = "AUTH" => AuthCommand \/ AuthPassword
<1>1. ASSUME NEW r \in Results, NEW st \in Stages, ReadReturns(r, st), UNCHANGED chipVars,
             st = "READ" => PagesDone, st = "AUTH" => AuthCommand \/ AuthPassword
      PROVE  G
  <2>1. StageOf(r, st) \in {st, "NOISE"} /\ "NOISE" \in Stages BY DEF StageOf, Stages
  <2>2. EndedWith(r, StageOf(r, st))
    BY <1>1 DEF ReadReturns, Restarted, Stay, chipVars, EndedWith
  <2>3. /\ StageOf(r, st) = "READ" => PagesDone
        /\ StageOf(r, st) = "AUTH" => AuthCommand \/ AuthPassword
    BY <1>1, <2>1
  <2> QED BY <1>1, <2>1, <2>2, <2>3
<1>2. /\ {"Ok", "Timeout", "Nack", "CrcError", "Error"} \subseteq Results
      /\ {"HTU", "TTF", "UID", "AUTH", "READ"} \subseteq Stages
  BY DEF Results, Stages
<1>3. CASE Fallback
  <2>1. ASSUME ReadReturns("Error", "HTU") PROVE G
    BY <1>1, <1>2, <2>1 DEF ReadReturns, Stay
  <2>2. ASSUME ReadReturns("Timeout", "TTF") PROVE G
    BY <1>1, <1>2, <2>2 DEF ReadReturns, Stay
  <2> QED BY <1>3, <2>1, <2>2 DEF Fallback
<1>4. CASE GiveUp
  <2>1. PICK r \in {"Timeout", "CrcError"} : ReadReturns(r, "UID") BY <1>4 DEF GiveUp
  <2> QED BY <1>1, <1>2, <2>1 DEF ReadReturns, Stay
<1>5. CASE AuthCommand \/ AuthPassword
  <2>1. ASSUME NEW r \in {"Nack", "Timeout"}, NEW s, AuthFails(r, s) PROVE G
    <3>1. CASE ReadReturns(r, "AUTH") BY <1>1, <1>2, <1>5, <3>1 DEF ReadReturns, Stay
    <3> QED BY <2>1, <3>1 DEF AuthFails
  <2>2. ASSUME NEW at \in {"password", "reread", "pages"}, NEW s, Goes(at, s) PROVE G
    BY <2>2 DEF Goes
  <2>3. CASE AuthCommand BY <2>1, <2>2, <2>3 DEF AuthCommand
  <2>4. CASE AuthPassword BY <2>1, <2>2, <2>4 DEF AuthPassword
  <2> QED BY <1>5, <2>3, <2>4
<1>6. CASE PagesDone BY <1>1, <1>2, <1>6 DEF PagesDone, ReadReturns, Stay
<1>7. CASE WakeHit BY <1>7 DEF WakeHit, TakeUid
<1>8. CASE WakeMiss BY <1>8 DEF WakeMiss
<1>9. CASE WakeSelect BY <1>9 DEF WakeSelect, SelectOk
<1>10. CASE OpenSession BY <1>10 DEF OpenSession
<1>11. CASE ModeProbe BY <1>11 DEF ModeProbe, ModeOver, TakeUid
<1>12. CASE ModeSelect BY <1>12 DEF ModeSelect, SelectOk, ModeOver
<1>13. CASE ReadConfig BY <1>13 DEF ReadConfig
<1>14. CASE RereadConfig BY <1>14 DEF RereadConfig
<1>15. CASE SkipProtected \/ ReadPage BY <1>15 DEF SkipProtected, ReadPage, NextPage
<1> QED BY <1>3, <1>4, <1>5, <1>6, <1>7, <1>8, <1>9, <1>10, <1>11, <1>12, <1>13, <1>14, <1>15
        DEF DebugReadStep

\* On a clear channel the pages are done when all of them are shown.
LEMMA PagesDoneShowsAll ==
    ASSUME ReadInv, PagesDone, ~noisy
    PROVE  ShowsAll
<1>1. rpc = "pages" /\ rpc \in InSession /\ page > 3 /\ page > LastPage(config)
  BY DEF PagesDone, InSession
<1>2. LastPage(config) = LastPage(chip.mem[1]) BY <1>1, TrustedSession DEF Trusted
<1>3. /\ shown[1] = Shows(chip.mem, 1)
      /\ \A p \in Pages \ {0, 1} :
            IF p < page THEN shown[p] = EndsAs(p) \/ PassedOver(p) ELSE shown[p] = <<>>
  BY <1>1 DEF ReadInv, Clear
<1>4. LastPage(chip.mem[1]) \in Nat /\ LastPage(chip.mem[1]) >= 5 BY LastPages
<1>5. ASSUME NEW p \in Pages \ {0} PROVE shown[p] = EndsAs(p) \/ PassedOver(p)
  <2>1. p \in Nat /\ page \in Nat BY PagesNamed DEF ReadInv, ReadTypeOK
  <2>2. CASE p = 1
    <3>1. EndsAs(1) = Shows(chip.mem, 1) BY <1>4 DEF EndsAs, Readable
    <3> QED BY <1>3, <2>2, <3>1
  <2>3. CASE p # 1 /\ p < page BY <1>3, <2>3
  <2>4. CASE p # 1 /\ ~(p < page)
    <3>1. ~(p <= LastPage(chip.mem[1])) BY <1>1, <1>2, <1>4, <2>1, <2>4
    <3>2. EndsAs(p) = <<>> BY <3>1 DEF EndsAs
    <3> QED BY <1>3, <2>4, <3>2
  <2> QED BY <2>2, <2>3, <2>4
<1> QED BY <1>5 DEF ShowsAll, EndsAs, PassedOver
\* Between and during runs the reports are of their kind, a matrix keeps its
\* stage, and a debug read that has ended has kept its promise.
EndsInv ==
    /\ TraceTypeOK
    /\ StageOfMatrix
    /\ DebugReadComplete

\* A line keeps the trace and the report of their kind; so does the end of a run.
LEMMA LinesKeepTypes ==
    ASSUME TraceInv, TraceTypeOK, ~NoDiagnostic,
           \/ Log
           \/ \E result \in Results, stage \in Stages : TraceStop(result, stage)
    PROVE  TraceTypeOK'
<1>1. CASE Log
  <2>1. /\ logged' \in 1..TraceCap /\ buffer' = Kept' /\ report' = report
        /\ truncated' = (logged' = TraceCap)
    BY <1>1, LogKeeps
  <2>2. Kept' \in Traces BY <2>1 DEF Kept, Traces
  <2>3. logged' \in 0..TraceCap BY <2>1, TraceCapAssumption
  <2>4. truncated' \in BOOLEAN BY <2>1
  <2> QED BY <2>1, <2>2, <2>3, <2>4 DEF TraceTypeOK
<1>2. CASE \E result \in Results, stage \in Stages : TraceStop(result, stage)
  <2>1. PICK result \in Results : \E stage \in Stages : TraceStop(result, stage) BY <1>2
  <2>2. PICK stage \in Stages : TraceStop(result, stage) BY <2>1
  <2>3. /\ logged' \in 1..TraceCap /\ buffer' = NoTrace
        /\ report' = [trace |-> Kept', result |-> result, stage |-> stage]
    BY <2>2, StopKeeps
  <2>4. Kept' \in Traces BY <2>3 DEF Kept, Traces
  <2>5. report' \in Reports BY <2>3, <2>4 DEF Reports, Results
  <2>6. logged' \in 0..TraceCap BY <2>3, TraceCapAssumption
  <2>7. buffer' \in Traces BY <2>3, TraceCapAssumption DEF NoTrace, Traces
  <2>8. truncated' \in BOOLEAN
    <3> DEFINE m == Capped(logged + 1)
               t == [lines |-> m, marker |-> m = TraceCap]
    <3>1. Appended(buffer, truncated) = [buffer |-> t, truncated |-> m = TraceCap]
      BY NextLine
    <3>2. truncated' = (m = TraceCap) BY <2>2, <3>1 DEF TraceStop
    <3> QED BY <3>2
  <2> QED BY <2>5, <2>6, <2>7, <2>8 DEF TraceTypeOK
<1> QED BY <1>1, <1>2

\* No step breaks it.
LEMMA EndsInvStep ==
    ASSUME MatrixInv, TraceInv, ReadInv, EndsInv, [Next]_vars
    PROVE  EndsInv'
<1>1. OneRuns /\ (wpc = "idle" => MatrixIdle)
  BY DEF MatrixInv, PhasesBegin
<1>2. ASSUME NEW st \in Stages, TraceStart(st) PROVE TraceTypeOK' /\ report'.stage = st
  <2>1. /\ buffer' = [lines |-> 1, marker |-> FALSE] /\ truncated' = FALSE /\ logged' = 1
        /\ report' = [trace |-> NoTrace, result |-> "None", stage |-> st]
    BY <1>2 DEF TraceStart, TruncatedAtStart
  <2>2. /\ [lines |-> 1, marker |-> FALSE] \in Traces /\ NoTrace \in Traces
        /\ 1 \in 0..TraceCap
    BY TraceCapAssumption DEF Traces, NoTrace
  <2>3. report' \in Reports BY <2>1, <2>2 DEF Reports
  <2> QED BY <2>1, <2>2, <2>3 DEF TraceTypeOK
<1>3. CASE MatrixStart /\ ReadCleared /\ NoDiagnostic
  <2>1. /\ rpc = "idle" /\ wpc' # "idle" /\ TraceStart("WRITE_MATRIX")
        /\ session' = session
    BY <1>3 DEF NoDiagnostic, MatrixStart, ReadCleared, linkVars
  <2>2. "WRITE_MATRIX" \in Stages BY DEF Stages
  <2>3. TraceTypeOK' /\ report'.stage = "WRITE_MATRIX" BY <1>2, <2>1, <2>2
  <2>4. session = Off BY <2>1 DEF ReadInv, Phases, ReadIdle
  <2> QED BY <2>1, <2>3, <2>4 DEF EndsInv, StageOfMatrix, DebugReadComplete
<1>4. CASE ReadStart /\ CardCleared /\ NoDiagnostic
  <2>1. rpc' = "wake" /\ wpc' = "idle" /\ TraceStart("-")
    BY <1>4 DEF NoDiagnostic, ReadStart, CardCleared, matrixVars
  <2>2. TraceTypeOK' BY <1>2, <2>1 DEF Stages
  <2> QED BY <2>1, <2>2 DEF EndsInv, StageOfMatrix, DebugReadComplete
<1>5. CASE WriteTrialStep /\ UNCHANGED readVars
  <2>1. /\ wpc # "idle" /\ rpc = "idle" /\ rpc' = "idle" /\ report.stage = "WRITE_MATRIX"
        /\ UNCHANGED <<session, chip, noisy, shown>>
    BY <1>1, <1>5, MatrixStepsLog
    DEF OneRuns, EndsInv, StageOfMatrix, readVars, linkVars, chipVars, pageVars
  <2>2. ~NoDiagnostic BY <2>1 DEF NoDiagnostic
  <2>3. session = Off BY <2>1 DEF ReadInv, Phases, ReadIdle
  <2>4. CASE wpc' # "idle" /\ Log
    <3>1. report' = report BY <2>4 DEF Log
    <3>2. TraceTypeOK' BY <2>2, <2>4, LinesKeepTypes DEF EndsInv
    <3>3. report'.stage # "READ" /\ report'.stage # "AUTH" BY <2>1, <3>1
    <3> QED BY <2>1, <2>3, <3>1, <3>2, <3>3 DEF EndsInv, StageOfMatrix, DebugReadComplete
  <2>5. ASSUME wpc' = "idle", NEW result \in Results,
               NEW stage \in {"WRITE_MATRIX", "WRITE_STIM_RESTORE_FAILED"},
               TraceStop(result, stage)
        PROVE  EndsInv'
    <3>1. stage \in Stages BY DEF Stages
    <3>2. TraceTypeOK' BY <2>2, <2>5, <3>1, LinesKeepTypes DEF EndsInv
    <3>3. report'.stage = stage BY <2>5 DEF TraceStop
    <3> QED BY <2>1, <2>3, <2>5, <3>2, <3>3 DEF EndsInv, StageOfMatrix, DebugReadComplete
  <2> QED BY <1>5, <2>1, <2>4, <2>5, MatrixStages
<1>6. CASE DebugReadStep /\ UNCHANGED trialVars
  <2>1. /\ rpc # "idle" /\ wpc = "idle" /\ wpc' = "idle" /\ ~NoDiagnostic
    BY <1>1, <1>6, ReadStepsLog DEF OneRuns, trialVars, matrixVars, NoDiagnostic
  <2>2. CASE rpc' # "idle" /\ Log
    <3>1. TraceTypeOK' BY <2>1, <2>2, LinesKeepTypes DEF EndsInv
    <3> QED BY <2>1, <2>2, <3>1 DEF EndsInv, StageOfMatrix, DebugReadComplete
  <2>3. ASSUME NEW result \in Results, NEW stage \in Stages, EndedWith(result, stage),
               stage = "READ" => PagesDone, stage = "AUTH" => AuthCommand \/ AuthPassword
        PROVE  EndsInv'
    <3>1. TraceTypeOK' BY <2>1, <2>3, LinesKeepTypes DEF EndsInv, EndedWith
    <3>2. /\ rpc' = "idle" /\ session' = Off /\ report'.stage = stage
          /\ chip' = chip /\ noisy' = noisy /\ shown' = shown
      BY <2>3 DEF EndedWith, TraceStop
    <3>3. ~noisy /\ stage = "READ" => ShowsAll' BY <2>3, <3>2, PagesDoneShowsAll DEF ShowsAll
    <3>4. ~noisy /\ stage = "AUTH" =>
              \A i \in DOMAIN DefaultPasswords : DefaultPasswords[i] # chip.mem[2]
      BY <2>3, <3>2, AllRefused
    <3> QED BY <2>1, <3>1, <3>2, <3>3, <3>4 DEF EndsInv, StageOfMatrix, DebugReadComplete
  <2> QED BY <1>6, <2>2, <2>3, ReadStages
<1>7. CASE UNCHANGED vars
  <2>1. UNCHANGED <<buffer, truncated, logged, report, wpc, rpc, session, chip, noisy, shown>>
    BY <1>7 DEF vars, traceVars, trialVars, matrixVars, readVars, linkVars, chipVars, pageVars
  <2> QED BY <2>1 DEF EndsInv, TraceTypeOK, StageOfMatrix, DebugReadComplete, ShowsAll
<1> QED BY <1>3, <1>4, <1>5, <1>6, <1>7 DEF Next, Begin, Worker

\* It holds at first.
LEMMA EndsInvInit == Init => EndsInv
<1> SUFFICES ASSUME Init PROVE EndsInv OBVIOUS
<1>1. /\ buffer = NoTrace /\ truncated = FALSE /\ logged = 0
      /\ report = [trace |-> NoTrace, result |-> "None", stage |-> "-"]
      /\ wpc = "idle" /\ session = Off
  BY DEF Init, TraceInit, TrialInit, MatrixIdle, ReadInit, ReadIdle
<1>2. NoTrace \in Traces /\ 0 \in 0..TraceCap
  BY TraceCapAssumption DEF NoTrace, Traces
<1>3. report \in Reports BY <1>1, <1>2 DEF Reports, Stages
<1>4. TraceTypeOK BY <1>1, <1>2, <1>3 DEF TraceTypeOK
<1>5. report.stage = "-" BY <1>1
<1> QED BY <1>1, <1>4, <1>5 DEF EndsInv, StageOfMatrix, DebugReadComplete

\* All of it, for every tag, card, noise, budget and trace.
THEOREM EndsInvHolds == Spec => []EndsInv
<1>1. Init => EndsInv BY EndsInvInit
<1>2. (MatrixInv /\ TraceInv) /\ ReadInv /\ EndsInv /\ [Next]_vars => EndsInv'
  BY EndsInvStep
<1> QED BY <1>1, <1>2, DiagnosticsInv, ReadInvHolds, PTL DEF Spec

\* Type correctness of the diagnostics: no index leaves its list, no counter
\* its limit, whatever the user begins.
THEOREM DiagnosticsTypes == Spec => []TypeOK
<1>1. (MatrixInv /\ TraceInv) /\ ReadInv /\ EndsInv => TypeOK
  BY DEF MatrixInv, ReadInv, EndsInv, TypeOK
<1> QED BY <1>1, DiagnosticsInv, ReadInvHolds, EndsInvHolds, PTL

\* A debug read leaves the tag unpowered; on a clear channel one that ends with
\* READ shows all that the tag shows, one that ends with AUTH has been refused
\* every default password.
THEOREM ReadsAreComplete == Spec => []DebugReadComplete
<1>1. EndsInv => DebugReadComplete BY DEF EndsInv
<1> QED BY <1>1, EndsInvHolds, PTL
------------------------------------------------------------------------------
(* The budget.                                                                *)

\* The tick is the true time since the start, or one turn of the counter less.
\* A mode is tried while the budget lasts or in the session it ended in.
Early == {"idle", "wake", "wakeSelect", "fallback"}
Timed == {"session", "mode", "modeSelect"}
ClockInv ==
    /\ elapsed < Budget + 4
    /\ rpc \in Early => elapsed = 0
    /\ rpc \in Timed => now \in {start + elapsed, start + elapsed - TickMod}
    /\ rpc \in {"mode", "modeSelect"} => elapsed < Budget + (active - 1)

\* A difference of ticks, taken modulo the counter, is the true time between.
LEMMA TicksApart ==
    ASSUME NEW e \in 0..(TickMod - 1), NEW s \in 0..(TickMod - 1),
           NEW t \in {s + e, s + e - TickMod}
    PROVE  (t - s) % TickMod = e
<1>1. TickMod \in Nat BY BudgetAssumption
<1>2. e % TickMod = e /\ (e - TickMod) % TickMod = e BY <1>1
<1>3. t - s = e \/ t - s = e - TickMod BY <1>1
<1> QED BY <1>2, <1>3

\* So the budget is used up when the code says so.
LEMMA ExpiredInTime ==
    ASSUME ReadInv, ClockInv, rpc \in Timed
    PROVE  Expired(now, start) <=> elapsed >= Budget
<1>1. elapsed \in 0..(TickMod - 1) /\ start \in 0..(TickMod - 1)
  BY BudgetAssumption DEF ReadInv, ReadTypeOK, ClockInv
<1>2. now \in {start + elapsed, start + elapsed - TickMod} BY DEF ClockInv
<1>3. (now - start) % TickMod = elapsed BY <1>1, <1>2, TicksApart
<1> QED BY <1>3 DEF Expired

\* The tick goes on with the time, over the end of the counter too.
LEMMA ModeOverTicks ==
    ASSUME ReadInv, ClockInv, rpc \in {"mode", "modeSelect"}, ModeOver
    PROVE  ClockInv'
<1>1. PICK t \in 0..1 : now' = (now + t) % TickMod /\ elapsed' = elapsed + t
  BY DEF ModeOver
<1>2. /\ TickMod \in Nat /\ Budget \in Nat /\ elapsed \in Nat /\ active \in 1..4
      /\ start \in 0..(TickMod - 1) /\ now \in 0..(TickMod - 1) /\ start' = start
  BY BudgetAssumption DEF ReadInv, ReadTypeOK, ModeOver
<1>3. elapsed < Budget + (active - 1) /\ now \in {start + elapsed, start + elapsed - TickMod}
  BY DEF ClockInv, Early, Timed
<1>4. now' \in {start' + elapsed', start' + elapsed' - TickMod}
  <2>1. CASE now + t < TickMod
    <3>1. (now + t) % TickMod = now + t BY <1>2, <2>1
    <3> QED BY <1>1, <1>2, <1>3, <3>1
  <2>2. CASE now + t >= TickMod
    <3>1. now + t = TickMod BY <1>2, <2>2
    <3>2. TickMod % TickMod = 0 BY BudgetAssumption
    <3>3. now' = 0 BY <1>1, <3>1, <3>2
    <3>4. start + elapsed + t >= TickMod /\ start + elapsed + t < TickMod + TickMod
      BY <1>2, <1>3, <3>1, BudgetAssumption
    <3>5. start + elapsed + t - TickMod \in {0, TickMod}
      BY <1>2, <1>3, <3>1
    <3> QED BY <1>1, <1>2, <3>3, <3>4, <3>5
  <2> QED BY <1>2, <2>1, <2>2
<1>5. elapsed' < Budget + 4 BY <1>1, <1>2, <1>3
<1>6. \/ rpc' = "session"
      \/ rpc' = "mode" /\ active' = active + 1
  BY DEF ModeOver
<1>7. rpc' \in {"mode", "modeSelect"} => elapsed' < Budget + (active' - 1)
  BY <1>1, <1>2, <1>3, <1>6
<1>8. rpc' \notin Early BY <1>6 DEF Early
<1> QED BY <1>4, <1>5, <1>7, <1>8 DEF ClockInv

\* Steps that leave the clock alone, and those that leave the sessions.
LEMMA StillTicks ==
    ASSUME ClockInv, UNCHANGED <<elapsed, start, now>>,
           rpc' \in Timed => rpc \in Timed,
           rpc' \in Early => rpc \in Early,
           rpc' \in {"mode", "modeSelect"} =>
              rpc \in {"mode", "modeSelect"} /\ active' = active
    PROVE  ClockInv'
BY DEF ClockInv

\* The clock is set back with the locals.
LEMMA ReturnTicks ==
    ASSUME NEW r, NEW st, ReadReturns(r, st)
    PROVE  ClockInv'
<1>1. elapsed' = 0 /\ rpc' = "idle" BY DEF ReadReturns, ClockLeft
<1> QED BY <1>1, BudgetAssumption DEF ClockInv, Early, Timed

\* No step breaks it.
LEMMA ClockInvStep == ReadInv /\ ClockInv /\ [Next]_vars => ClockInv'
<1> SUFFICES ASSUME ReadInv, ClockInv, [Next]_vars PROVE ClockInv' OBVIOUS
<1>1. CASE WakeHit \/ WakeMiss \/ WakeSelect
  <2>1. /\ UNCHANGED <<elapsed, start, now>>
        /\ rpc \in Early /\ rpc' \in {"wake", "wakeSelect", "fallback", "config"}
    BY <1>1 DEF Early, WakeHit, WakeMiss, WakeSelect, SelectOk, TakeUid, Stay, clockVars
  <2> QED BY <2>1, StillTicks DEF Early, Timed
<1>2. CASE Fallback
  <2>1. ASSUME rpc' = "session", \E t \in StartTicks : start' = t /\ now' = t,
               elapsed' = elapsed, rpc = "fallback"
        PROVE  ClockInv'
    <3>1. start' \in 0..(TickMod - 1) /\ now' = start' BY <2>1, BudgetAssumption
    <3>2. elapsed = 0 BY <2>1 DEF ClockInv, Early
    <3> QED BY <2>1, <3>1, <3>2, BudgetAssumption DEF ClockInv, Early, Timed
  <2> QED BY <1>2, <2>1, ReturnTicks DEF Fallback, Stay
<1>3. CASE OpenSession
  <2>1. /\ rpc = "session" /\ ~Expired(now, start) /\ active' = 1 /\ rpc' = "mode"
        /\ UNCHANGED <<start, now, elapsed>>
    BY <1>3 DEF OpenSession, TryAgain, Stay
  <2>2. ~(elapsed >= Budget) BY <2>1, ExpiredInTime DEF Early, Timed
  <2>3. elapsed \in Nat /\ Budget \in Nat BY BudgetAssumption DEF ReadInv, ReadTypeOK
  <2> QED BY <2>1, <2>2, <2>3 DEF ClockInv, Early, Timed
<1>4. CASE GiveUp BY <1>4, ReturnTicks DEF GiveUp
<1>5. CASE ModeProbe
  <2>1. rpc = "mode" BY <1>5 DEF ModeProbe
  <2>2. ASSUME NEW c, TakeUid(active, c, "modeSelect"), UNCHANGED clockVars PROVE ClockInv'
    BY <2>1, <2>2, StillTicks DEF TakeUid, ActiveFrom, Early, Timed, clockVars
  <2> QED BY <1>5, <2>1, <2>2, ModeOverTicks DEF ModeProbe
<1>6. CASE ModeSelect
  <2>1. rpc = "modeSelect" BY <1>6 DEF ModeSelect
  <2>2. ASSUME SelectOk, UNCHANGED clockVars PROVE ClockInv'
    BY <2>2, StillTicks DEF SelectOk, Early, Timed, clockVars
  <2> QED BY <1>6, <2>1, <2>2, ModeOverTicks DEF ModeSelect
<1>7. CASE ReadConfig \/ RereadConfig \/ SkipProtected \/ ReadPage
  <2>1. UNCHANGED <<elapsed, start, now>> /\ rpc' \in {"auth", "pages"}
    BY <1>7 DEF ReadConfig, RereadConfig, SkipProtected, ReadPage, NextPage, Stay, clockVars
  <2> QED BY <2>1, StillTicks DEF Early, Timed
<1>8. CASE AuthCommand \/ AuthPassword
  <2>1. ASSUME NEW r, NEW s, AuthFails(r, s) PROVE ClockInv'
    BY <2>1, ReturnTicks, StillTicks DEF AuthFails, clockVars, Early, Timed
  <2>2. ASSUME NEW at \in {"password", "reread", "pages"}, NEW s, Goes(at, s) PROVE ClockInv'
    BY <2>2, StillTicks DEF Goes, clockVars, Early, Timed
  <2> QED BY <1>8, <2>1, <2>2 DEF AuthCommand, AuthPassword
<1>9. CASE PagesDone BY <1>9, ReturnTicks DEF PagesDone
<1>10. CASE Begin \/ UNCHANGED readVars
  <2>1. UNCHANGED <<elapsed, start, now, active>> /\ (rpc' = rpc \/ (rpc = "idle" /\ rpc' = "wake"))
    BY <1>10 DEF Begin, ReadStart, ReadCleared, readVars, linkVars, clockVars
  <2> QED BY <2>1, StillTicks DEF Early, Timed
<1> QED BY <1>1, <1>2, <1>3, <1>4, <1>5, <1>6, <1>7, <1>8, <1>9, <1>10
        DEF Next, Worker, DebugReadStep, vars

\* It holds at first.
LEMMA ClockInvInit == Init => ClockInv
<1>1. Init => rpc = "idle" /\ elapsed = 0 BY DEF Init, ReadInit, ReadIdle
<1> QED BY <1>1, BudgetAssumption DEF ClockInv, Early, Timed

\* What a step of a session loop promises of its budget.
BeginsInBudget ==
    rpc = "session" =>
        /\ rpc' = "mode" => elapsed < Budget /\ tries < MaxSessions
        /\ rpc' = "idle" => elapsed >= Budget \/ tries = MaxSessions

\* Sessions are begun while the budget lasts, and given up when it does not.
LEMMA SessionsInBudget ==
    ASSUME ReadInv, ClockInv, [Next]_vars
    PROVE  [BeginsInBudget]_readVars
<1> SUFFICES ASSUME rpc = "session", DebugReadStep PROVE BeginsInBudget
  BY MatrixStepsLog DEF BeginsInBudget, Next, Begin, NoDiagnostic, Worker, vars
<1>1. Expired(now, start) <=> elapsed >= Budget BY ExpiredInTime DEF Timed
<1>2. /\ elapsed \in Nat /\ Budget \in Nat /\ MaxSessions \in Nat /\ tries \in 0..MaxSessions
  BY BudgetAssumption DEF ReadInv, ReadTypeOK
<1>3. CASE OpenSession
  BY <1>1, <1>2, <1>3 DEF OpenSession, TryAgain, BeginsInBudget
<1>4. CASE GiveUp
  BY <1>1, <1>2, <1>4 DEF GiveUp, ReadReturns, TryAgain, BeginsInBudget
<1> QED
  BY <1>3, <1>4
  DEF DebugReadStep, WakeHit, WakeMiss, WakeSelect, Fallback, ModeProbe, ModeSelect,
      ReadConfig, AuthCommand, AuthPassword, RereadConfig, SkipProtected, ReadPage, PagesDone

\* The budget holds in true time, for every budget, every width of the tick
\* counter and every tick it starts at: the difference of two ticks is never
\* misread, and the sessions end one session after it.
THEOREM BudgetIsKept == Spec => BudgetKept
<1>1. Init => ClockInv BY ClockInvInit
<1>2. ReadInv /\ ClockInv /\ [Next]_vars => ClockInv' BY ClockInvStep
<1>3. Spec => []ClockInv BY <1>1, <1>2, ReadInvHolds, PTL DEF Spec
<1>4. ReadInv /\ ClockInv /\ [Next]_vars => [BeginsInBudget]_readVars BY SessionsInBudget
<1>5. ClockInv => elapsed < Budget + 4 BY DEF ClockInv
<1>6. Spec => [](elapsed < Budget + 4) BY <1>3, <1>5, PTL
<1>7. Spec => [][BeginsInBudget]_readVars BY <1>3, <1>4, ReadInvHolds, PTL DEF Spec
<1> QED BY <1>6, <1>7 DEF BudgetKept, BeginsInBudget

==============================================================================
