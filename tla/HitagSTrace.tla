----------------------------- MODULE HitagSTrace -----------------------------
(* The trace of a diagnostic (hitag_s_trace.c) and what the worker leaves the *)
(* scene of it: trace, result and stage.  Sizes are in lines, and the budget  *)
(* TraceCap stands for HITAG_S_TRACE_TRUNCATE_AT bytes.                       *)
EXTENDS Integers

CONSTANT TraceCap
ASSUME TraceCapAssumption == TraceCap \in Nat \ {0, 1}

VARIABLES
    buffer,       \* g_debug_trace while the trace is active, NoTrace otherwise
    truncated,    \* g_trace_truncated
    logged,       \* history: lines logged since the start, counted to TraceCap
    report        \* app->debug_trace, app->last_result, app->debug_stage

traceVars == <<buffer, truncated, logged, report>>

\* lines kept, and the marker that says the rest is missing
NoTrace == [lines |-> 0, marker |-> FALSE]
Traces  == [lines : 0..TraceCap, marker : BOOLEAN]

Stages  == {"-", "HTU", "TTF", "UID", "AUTH", "READ", "NOISE",
            "WRITE_MATRIX", "WRITE_STIM_RESTORE_FAILED"}
Reports == [trace : Traces, stage : Stages,
            result : {"None", "Ok", "Timeout", "Nack", "CrcError", "Error"}]

TraceTypeOK ==
    /\ buffer \in Traces /\ truncated \in BOOLEAN
    /\ logged \in 0..TraceCap /\ report \in Reports

Capped(n) == IF n < TraceCap THEN n ELSE TraceCap

\* hitag_s_trace_vappend: a line that fills the buffer is cut short and the
\* marker appended; nothing is appended after it.
Appended(b, cut) ==
    IF b = NoTrace \/ cut
    THEN [buffer |-> b, truncated |-> cut]
    ELSE [ buffer    |-> [lines |-> b.lines + 1, marker |-> b.lines + 1 = TraceCap],
           truncated |-> b.lines + 1 = TraceCap ]

Log ==
    LET a == Appended(buffer, truncated)
    IN  /\ buffer' = a.buffer /\ truncated' = a.truncated
        /\ logged' = Capped(logged + 1)
        /\ UNCHANGED report

\* hitags_worker_reset_debug_trace_state and hitag_s_debug_trace_start: the last
\* trace is freed, the new one starts with its header.  (The last result, which
\* nothing reads during a run, is forgotten here.)
\* Mutant: the cut of the last trace is not forgotten.
TruncatedKept    == truncated
TruncatedAtStart == FALSE

TraceStart(stage) ==
    /\ buffer' = [lines |-> 1, marker |-> FALSE]
    /\ truncated' = TruncatedAtStart
    /\ logged' = 1
    /\ report' = [trace |-> NoTrace, result |-> "None", stage |-> stage]

\* The last line of a run and hitag_s_debug_trace_stop: the worker takes the
\* trace over and reports.
TraceStop(result, stage) ==
    LET a == Appended(buffer, truncated)
    IN  /\ report' = [trace |-> a.buffer, result |-> result, stage |-> stage]
        /\ buffer' = NoTrace /\ truncated' = a.truncated
        /\ logged' = Capped(logged + 1)

TraceInit ==
    /\ buffer = NoTrace /\ truncated = FALSE /\ logged = 0
    /\ report = [trace |-> NoTrace, result |-> "None", stage |-> "-"]
==============================================================================
