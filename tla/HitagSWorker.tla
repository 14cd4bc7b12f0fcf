----------------------------- MODULE HitagSWorker -----------------------------
(* The worker thread of the writer: one operation at a time, tried again      *)
(* until it succeeds, its attempts run out or it is asked to stop; its result *)
(* is a custom event posted to the view dispatcher's queue. A call of a tag   *)
(* sequence is one step with any outcome: Hitag8268 says what the calls do    *)
(* and that each of them returns.                                             *)
EXTENDS Integers, Sequences

CONSTANT Attempts                  \* 10 or 15 in the code
ASSUME AttemptsAssumption == Attempts \in Nat \ {0}

VARIABLES
    worker_op,                     \* app->worker_op
    worker_running,                \* app->worker_running: started, not joined
    thread,                        \* where the thread is in its retry loop
    attempt,                       \* the loop's counter
    stop_flag,                     \* HITAGS_WORKER_FLAG_STOP of the thread
    queue                          \* custom events that wait for the UI thread

workerVars == <<worker_op, worker_running, thread, attempt, stop_flag>>

\* The custom events the model speaks of, with their numbers: the results of
\* buttons, dialogs and menus are sent as the small numbers from 0 on.
Ev == [ Next |-> 100, PopupClosed |-> 102, WriteOk |-> 103, WriteFailed |-> 104,
        ReadOk |-> 106, ReadFailed |-> 107, WriteUidOk |-> 108,
        WriteUidFailed |-> 109, DumpOk |-> 110, DumpFailed |-> 111,
        CloneOk |-> 112, CloneFailed |-> 113, WipeOk |-> 114, WipeFailed |-> 115,
        DebugOk |-> 116, DebugPartial |-> 117, DebugFailed |-> 118,
        HtuProbeOk |-> 119, HtuProbeFailed |-> 120, LfReadDone |-> 127 ]

\* Diagnostics run once and end with a trace, or without one.
\* "Diagnostic" stands for the six of them (TTF timing, the disturb tests, late
\* command, T5577 and EM4x05 detection), which have the same control.
DebugOps == {"Diagnostic", "DebugRead", "WriteStimulusVerify"}
RetriedOps == {"Write", "ReadUid", "ReadPages", "WriteUid", "FullDump",
               "CloneDump", "WipeTag"}
Ops == RetriedOps \cup DebugOps \cup {"HtuProbe"}
OpOrIdle == Ops \cup {"Idle"}

\* What each operation may post when its call succeeds, and when it gives up.
Posts == [op \in Ops |->
    CASE op = "Write"       -> [ok |-> {Ev.WriteOk},    failed |-> {Ev.WriteFailed}]
      [] op \in {"ReadUid", "ReadPages"}
                            -> [ok |-> {Ev.ReadOk},     failed |-> {Ev.ReadFailed}]
      [] op = "WriteUid"    -> [ok |-> {Ev.WriteUidOk}, failed |-> {Ev.WriteUidFailed}]
      [] op = "FullDump"    -> [ok |-> {Ev.DumpOk},     failed |-> {Ev.DumpFailed}]
      [] op = "CloneDump"   -> [ok |-> {Ev.CloneOk},    failed |-> {Ev.CloneFailed}]
      [] op = "WipeTag"     -> [ok |-> {Ev.WipeOk},     failed |-> {Ev.WipeFailed}]
      [] op = "DebugRead"   -> [ok |-> {Ev.DebugOk, Ev.DebugPartial},
                                failed |-> {Ev.DebugFailed}]
      [] op = "HtuProbe"    -> [ok |-> {Ev.HtuProbeOk}, failed |-> {Ev.HtuProbeFailed}]
      [] op = "Diagnostic"  -> [ok |-> {Ev.DebugPartial}, failed |-> {Ev.DebugFailed}]
      [] OTHER              -> [ok |-> {Ev.DebugPartial}, failed |-> {Ev.DebugPartial}]]

MaxAttempts(op) == IF op \in RetriedOps THEN Attempts ELSE 1

Nowhere == [scene |-> "none", state |-> "None"]
Post(e) == queue' = Append(queue, [ev |-> e, by |-> "worker", at |-> Nowhere])

WorkerInit ==
    /\ worker_op = "Idle"
    /\ worker_running = FALSE
    /\ thread = "none"
    /\ attempt = 0
    /\ stop_flag = FALSE

\* hitags_writer_worker_start, when its assertion holds. A new thread starts
\* with no flag set.
WorkerStart(op) ==
    /\ worker_op' = op
    /\ worker_running' = TRUE
    /\ thread' = IF op \in RetriedOps THEN "test" ELSE "call"
    /\ attempt' = 1
    /\ stop_flag' = FALSE

\* hitags_writer_worker_stop after its join: the thread is over.
WorkerStopped ==
    /\ worker_op' = "Idle"
    /\ worker_running' = FALSE
    /\ thread' = "none"
    /\ attempt' = 0
    /\ stop_flag' = FALSE

-------------------------------------------------------------------------------
\* The head of the retry loop: for(attempts = 1; !should_stop(); attempts++).
ShouldStop ==
    /\ thread = "test"
    /\ thread' = IF stop_flag THEN "over" ELSE "call"
    /\ UNCHANGED <<worker_op, worker_running, attempt, stop_flag, queue>>

\* The call of the sequence succeeds: the result is posted even if a stop was
\* asked for meanwhile.
Succeed ==
    /\ thread = "call"
    /\ \E e \in Posts[worker_op].ok : Post(e)
    /\ thread' = "over"
    /\ UNCHANGED <<worker_op, worker_running, attempt, stop_flag>>

GiveUp ==
    /\ thread = "call"
    /\ attempt >= MaxAttempts(worker_op)
    /\ \E e \in Posts[worker_op].failed : Post(e)
    /\ thread' = "over"
    /\ UNCHANGED <<worker_op, worker_running, attempt, stop_flag>>

Fail ==
    /\ thread = "call"
    /\ attempt < MaxAttempts(worker_op)
    /\ thread' = "wait"
    /\ UNCHANGED <<worker_op, worker_running, attempt, stop_flag, queue>>

\* hitags_worker_wait_or_stop: back at once with the flag, else after 100 or
\* 200 ms.
\*
\* Mutant: the loop no longer counts its attempts.
WaitOrStopUncounted ==
    /\ thread = "wait"
    /\ thread' = IF stop_flag THEN "over" ELSE "test"
    /\ UNCHANGED <<worker_op, worker_running, attempt, stop_flag, queue>>
\* Mutant: a stop that is seen during the wait starts the wait over.
WaitOrStopAgain ==
    /\ thread = "wait"
    /\ IF stop_flag
       THEN UNCHANGED <<thread, attempt>>
       ELSE thread' = "test" /\ attempt' = attempt + 1
    /\ UNCHANGED <<worker_op, worker_running, stop_flag, queue>>
WaitOrStop ==
    /\ thread = "wait"
    /\ IF stop_flag
       THEN thread' = "over" /\ UNCHANGED attempt
       ELSE thread' = "test" /\ attempt' = attempt + 1
    /\ UNCHANGED <<worker_op, worker_running, stop_flag, queue>>

Worker == ShouldStop \/ Succeed \/ GiveUp \/ Fail \/ WaitOrStop
===============================================================================
