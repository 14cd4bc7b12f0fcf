------------------------------- MODULE HitagSApp -------------------------------
(* The application: the UI thread that hands events to the scene on top of    *)
(* the stack, the worker thread it starts and joins, the LF reader of the     *)
(* firmware, popup timeouts and the user. Custom events wait in a queue;      *)
(* Back is handed over at once. A press becomes the custom event of what the   *)
(* screen shows at that moment, and is handled when its turn comes. At most    *)
(* Presses of them wait: with one, the user lets a press be handled before    *)
(* the next; with more, presses may be hurried.                               *)
EXTENDS HitagSScenes, FiniteSets

CONSTANTS
    Presses,           \* how many presses may wait
    QueueBound         \* no timer or LF event is added to a queue this long
ASSUME PressesAssumption == Presses \in Nat \ {0} /\ QueueBound \in Nat \ {0}

VARIABLES
    mode,              \* "running", "exited", or "crashed" by a failed assertion
    stack,             \* the scene manager's stack
    screen,            \* state and view of the scene on top
    debug_tool,        \* app->debug_tool
    protocol_id,       \* app->protocol_id: "EM4100" or another protocol
    protocol_id_next,  \* app->protocol_id_next, set by the LF reader's callback
    lf,                \* the LF reader: "off" or "reading"
    busy               \* the event the UI thread is handling

appVars == <<mode, stack, screen, debug_tool, protocol_id, protocol_id_next, lf,
             busy>>
vars == <<appVars, workerVars, queue>>

NoEvent == [ev |-> 0, by |-> "nobody", at |-> Nowhere]
Top     == stack[Len(stack)]
Here    == [scene |-> Top, state |-> screen.state]

Reactions(e) == OnEvent(Top, debug_tool, protocol_id, screen, e)

\* The handler of e calls hitags_writer_worker_stop: itself, through on_exit of
\* a worker scene, or when the application is freed.
Leaves(r) == r.go # "stay"
Exits(r)  == r.go = "previous" /\ Len(stack) = 1
Stops(r)  == r.stop \/ (Leaves(r) /\ Top \in WorkerScenes) \/ Exits(r)

Init ==
    /\ mode = "running"
    /\ stack = <<"Start">>
    /\ screen = OpensWith("Start", "DebugRead", "other")
    /\ debug_tool = "DebugRead"
    /\ protocol_id = "other"
    /\ protocol_id_next = "other"
    /\ lf = "off"
    /\ busy = NoEvent
    /\ queue = <<>>
    /\ WorkerInit

-------------------------------------------------------------------------------
(* The user, the popup timer and the LF reader.                               *)

Waiting == Cardinality({i \in DOMAIN queue : queue[i].by = "user"})

Press(e) ==
    /\ mode = "running" /\ busy = NoEvent
    /\ Waiting < Presses
    /\ e \in screen.offers
    /\ queue' = Append(queue, [ev |-> e, by |-> "user", at |-> Here])
    /\ UNCHANGED <<mode, stack, screen, debug_tool, protocol_id, protocol_id_next,
                   lf, busy, workerVars>>

PopupTimesOut ==
    /\ mode = "running" /\ screen.timer
    /\ Len(queue) < QueueBound
    /\ screen' = [screen EXCEPT !.timer = FALSE]
    /\ queue' = Append(queue, [ev |-> Ev.PopupClosed, by |-> "timer", at |-> Nowhere])
    /\ UNCHANGED <<mode, stack, debug_tool, protocol_id, protocol_id_next, lf, busy,
                   workerVars>>

LfReadDone ==
    /\ lf = "reading"
    /\ Len(queue) < QueueBound
    /\ protocol_id_next' \in {"EM4100", "other"}
    /\ lf' = "off"
    /\ queue' = Append(queue, [ev |-> Ev.LfReadDone, by |-> "lf", at |-> Nowhere])
    /\ UNCHANGED <<mode, stack, screen, debug_tool, protocol_id, busy, workerVars>>

-------------------------------------------------------------------------------
(* The UI thread takes an event, then runs its handler; a handler that stops  *)
(* the worker sets the flag and waits in furi_thread_join for the thread to   *)
(* be over, while everything else goes on.                                    *)

Begin(event) ==
    /\ busy' = event
    /\ stop_flag' = (stop_flag \/ (worker_running /\ \E r \in Reactions(event.ev) : Stops(r)))
    /\ UNCHANGED <<mode, stack, screen, debug_tool, protocol_id, protocol_id_next, lf,
                   worker_op, worker_running, thread, attempt>>

TakeEvent ==
    /\ mode = "running" /\ busy = NoEvent
    /\ queue # <<>>
    /\ Begin(Head(queue))
    /\ queue' = Tail(queue)

PressBack ==
    /\ mode = "running" /\ busy = NoEvent
    /\ Waiting < Presses
    /\ Begin([ev |-> Back, by |-> "user", at |-> Here])
    /\ UNCHANGED queue

\* The worker's side of a handler: stop, then start; starting a worker that
\* runs fails furi_assert(!app->worker_running).
WorkerAfter(stops, op) ==
    CASE op # "Idle"          -> WorkerStart(op)
      [] op = "Idle" /\ stops -> WorkerStopped
      [] OTHER                -> UNCHANGED workerVars

\* What a handler leaves behind: the stack, the screen and the worker.
Settle(stk, s, stops, op) ==
    IF op # "Idle" /\ worker_running /\ ~stops
    THEN /\ mode' = "crashed"
         /\ UNCHANGED <<stack, screen, workerVars>>
    ELSE /\ mode' = "running"
         /\ stack' = stk
         /\ screen' = s
         /\ WorkerAfter(stops, op)

\* Back to start searches the stack for the start scene and drops what is above.
NewStack(r) ==
    CASE r.go = "next"     -> Append(stack, r.to)
      [] r.go = "previous" -> Below(stack)
      [] OTHER             -> SubSeq(stack, 1, CHOOSE i \in DOMAIN stack : stack[i] = "Start")

Exit ==
    /\ mode' = "exited"
    /\ WorkerStopped
    /\ UNCHANGED <<stack, screen, lf>>

\* read_em4100 starts the LF reader on entry and stops it on exit.
\*
\* Mutant: on_exit leaves it on.
LfLeftOn(top) == IF top = "ReadEm4100" THEN "reading" ELSE lf
LfIn(top)     == IF top = "ReadEm4100" THEN "reading" ELSE "off"

\* A change of scene ends with the on_enter handler of the new top.
Enter(stk, r, tool, protocol) ==
    LET top == stk[Len(stk)] IN
    /\ Settle(stk, OpensWith(top, tool, protocol), Stops(r), StartsWith(top, tool))
    /\ lf' = LfIn(top)

React(r, tool, protocol) ==
    \/ /\ ~Leaves(r)
       /\ Settle(stack, r.show, Stops(r), r.op)
       /\ UNCHANGED lf
    \/ Exits(r) /\ Exit
    \/ /\ Leaves(r) /\ ~Exits(r)
       /\ \E stk \in Landings(NewStack(r)) : Enter(stk, r, tool, protocol)

Handle ==
    /\ mode = "running" /\ busy # NoEvent
    /\ \E r \in Reactions(busy.ev) :
        LET tool == ToolAfter(Top, busy.ev, debug_tool)
            protocol == IF Top = "ReadEm4100" /\ busy.ev = Ev.LfReadDone
                        THEN protocol_id_next ELSE protocol_id
        IN  /\ Stops(r) /\ worker_running => thread = "over"
            /\ React(r, tool, protocol)
            /\ debug_tool' = tool
            /\ protocol_id' = protocol
    /\ busy' = NoEvent
    /\ UNCHANGED <<protocol_id_next, queue>>

UiThread == TakeEvent \/ Handle
User     == PressBack \/ \E e \in 0..10 \cup {Ev.Next} : Press(e)
Others   == PopupTimesOut \/ LfReadDone
Stopped  == mode # "running" /\ UNCHANGED vars

WorkerStep == mode = "running" /\ Worker /\ UNCHANGED appVars

NextStep == UiThread \/ User \/ Others \/ WorkerStep \/ Stopped
Spec     == Init /\ [][NextStep]_vars

\* The scheduler runs every thread that can run. Users need not press anything,
\* the timer and the LF reader are left without fairness too.
FairSpec == Spec /\ WF_vars(UiThread) /\ WF_vars(WorkerStep)

-------------------------------------------------------------------------------
(* Properties.                                                                *)

Event == [ev : Events, by : {"nobody", "user", "worker", "timer", "lf"},
          at : [scene : Scenes \cup {"none"}, state : States]]

\* Types. The queue never grows past the presses, the events QueueBound allows
\* and one result: one worker at a time posts, and posts once.
TypeOK ==
    /\ mode \in {"running", "crashed", "exited"}
    /\ stack \in Seq(Scenes) /\ Len(stack) \in 1..7
    /\ screen \in Screen
    /\ debug_tool \in DebugOps
    /\ protocol_id \in {"EM4100", "other"} /\ protocol_id_next \in {"EM4100", "other"}
    /\ lf \in {"off", "reading"}
    /\ busy \in Event
    /\ queue \in Seq(Event) /\ Len(queue) <= QueueBound + Presses + 1
    /\ worker_op \in OpOrIdle /\ worker_running \in BOOLEAN
    /\ thread \in {"none", "test", "call", "wait", "over"}
    /\ attempt \in 0..Attempts /\ stop_flag \in BOOLEAN

\* A worker that runs is the one the scene on top started, and never runs
\* behind a screen that still asks for the operation to be confirmed: no way
\* out of a scene leaves its worker behind (on_exit handlers, worker_stop).
WorkerBelongsToScene ==
    worker_running =>
        /\ worker_op = SceneOp(Top, debug_tool)
        /\ screen.state \notin {"Input", "Confirm", "RiskConfirm"}

\* The tag reader has one user: the firmware's LF reader runs only in the scene
\* of its own, never beside the worker, which drives the same field.
OneReader == lf = "reading" => Top = "ReadEm4100" /\ ~worker_running

\* No scene is on the stack twice, and start is at its bottom: retries,
\* cancellations and file browsers that end early never pile up scenes.
NoSceneTwice ==
    /\ stack[1] = "Start"
    /\ \A i, j \in DOMAIN stack : stack[i] = stack[j] => i = j

\* A press acts on the screen it was made on, whatever results, timeouts and
\* reader events come in between. True of a user who lets each press be handled
\* before the next.
PressesActWhereMade == busy.by = "user" => busy.at = Here

\* A trace is saved only while no worker can be rewriting it (save_trace reads
\* app->debug_trace, the worker frees and replaces it). Under the same patience.
TraceIsStill ==
    Top = "DebugRead" /\ busy # NoEvent /\ busy.ev = Center => ~worker_running

\* Every worker that was started is joined again: attempts run out, a stop is
\* seen between two attempts, and the scene takes the result as its own.
RunsEnd == worker_running ~> (~worker_running \/ mode = "crashed")

\* The UI thread comes back from every handler, from Back during a run too.
HandlersEnd == busy # NoEvent ~> (busy = NoEvent \/ mode = "crashed")

\* A result is handled while the run that posted it is the last one started: a
\* result posted just before Back never ends the operation started next.
ResultOfThisRun == busy.by = "worker" /\ worker_running => thread = "over"

\* furi_assert(!app->worker_running) of hitags_writer_worker_start never fails.
NoDoubleStart == mode # "crashed"

================================================================================
