--------------------------- MODULE HitagSDiagnostics ---------------------------
(* The worker runs the debug read or the write matrix, one at a time and as   *)
(* often as the user likes, with whatever tag the user puts into the field.   *)
(* Both write the one trace buffer and leave their report to the scene.       *)
EXTENDS HitagSWriteTrial, HitagSDebugRead

vars == <<traceVars, trialVars, readVars>>

NoDiagnostic == wpc = "idle" /\ rpc = "idle"

Init == TraceInit /\ TrialInit /\ ReadInit

Begin == \/ NoDiagnostic /\ MatrixStart /\ ReadCleared
         \/ NoDiagnostic /\ ReadStart /\ CardCleared

Worker == \/ WriteTrialStep /\ UNCHANGED readVars
          \/ DebugReadStep /\ UNCHANGED trialVars

Next == Begin \/ Worker

\* The thread of a diagnostic goes on by itself; nothing makes the user begin.
Spec == Init /\ [][Next]_vars /\ WF_vars(Worker)
------------------------------------------------------------------------------
\* Every variable has a value of its kind: no index leaves its list and no
\* counter its limit.
TypeOK == TraceTypeOK /\ TrialTypeOK /\ ReadTypeOK

\* hitag_s_trace.c: the trace handed to the scene is that of the run reported,
\* from its header on, whole or cut at the budget and then marked as cut; while
\* a run goes on, the scene holds no trace of an earlier one.
Kept == [lines |-> logged, marker |-> logged = TraceCap]
TraceIsOfThisRun ==
    IF NoDiagnostic
    THEN buffer = NoTrace /\ (logged > 0 => report.trace = Kept)
    ELSE buffer = Kept /\ report.trace = NoTrace

\* Every diagnostic comes to its end, with whatever tag and noise: its matrix of
\* probes, its sessions, passwords, pages, trials and restores are bounded.
DiagnosticsEnd == ~NoDiagnostic ~> NoDiagnostic
==============================================================================
