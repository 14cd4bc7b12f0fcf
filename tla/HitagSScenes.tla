----------------------------- MODULE HitagSScenes -----------------------------
(* The scenes of the application: what each shows and starts when it is       *)
(* entered, and how its event handler reacts. A screen is the part of a view  *)
(* the control depends on: the scene's state, the custom events its buttons   *)
(* or menu lines can send, and whether a popup timeout is armed. Menu lines,  *)
(* dialog results and widget buttons share the numbers from 0 on.             *)
EXTENDS HitagSWorker

Left   == 0
Center == 1
Right  == 2
Back   == -1                       \* SceneManagerEventTypeBack, not a number

Menus == {"Start", "ReadMenu", "WriteMenu", "DumpMenu", "ToolsMenu"}
\* The scenes whose on_exit handler calls hitags_writer_worker_stop.
\*
\* Mutant: read_uid leaves its worker to itself.
WorkerScenesButReadUid == {"Write", "ReadTag", "WriteUid", "FullDump",
                           "LoadDump", "WipeTag", "HtuProbe", "DebugRead"}
WorkerScenes == {"Write", "ReadTag", "ReadUid", "WriteUid", "FullDump",
                 "LoadDump", "WipeTag", "HtuProbe", "DebugRead"}
Scenes == Menus \cup WorkerScenes \cup
          {"InputId", "SelectFile", "WriteConfirm", "WriteSuccess", "WriteFail",
           "ReadEm4100", "ReadEm4100Success", "About"}

States == {"None", "Input", "Confirm", "RiskConfirm", "Writing", "Scanning",
           "Success", "Partial", "Failed"}
Events == {Back} \cup 0..10 \cup {Ev[n] : n \in DOMAIN Ev}
Screen == [state : States, offers : SUBSET (0..10 \cup {Ev.Next}), timer : BOOLEAN]

View(st, of)   == [state |-> st, offers |-> of, timer |-> FALSE]
\* Mutant: the popup of a running operation offers Retry.
PopupWithRetry(st) == View(st, {Right})
Popup(st)      == View(st, {})
TimedPopup(st) == [state |-> st, offers |-> {}, timer |-> TRUE]

-------------------------------------------------------------------------------
(* What a handler asks for: a screen of the same scene or a change of scene,  *)
(* a worker to stop and an operation to start, in this order.                 *)

Reaction == [go : {"stay", "next", "previous", "start"}, to : Scenes,
             show : Screen, stop : BOOLEAN, op : OpOrIdle]

Stay(s)      == [go |-> "stay", to |-> "Start", show |-> s,
                 stop |-> FALSE, op |-> "Idle"]
\* Mutant: a result is shown without stopping the worker first.
ResultOfRunning(s) == Stay(s)
Result(s)    == [Stay(s) EXCEPT !.stop = TRUE]
\* Mutant: a running operation can be retried, which stops it and starts it again.
RunAgain(st, op) == [Stay(View(st, {Right})) EXCEPT !.op = op, !.stop = TRUE]
Run(st, op)  == [Stay(Popup(st)) EXCEPT !.op = op]
Next(to)     == [Stay(Popup("None")) EXCEPT !.go = "next", !.to = to]
Previous     == [Stay(Popup("None")) EXCEPT !.go = "previous"]
BackToStart  == [Stay(Popup("None")) EXCEPT !.go = "start"]
Stopping(r)  == [r EXCEPT !.stop = TRUE]

\* An event no branch takes: the scene manager turns Back into a step back.
Default(s, e) == IF e = Back THEN Previous ELSE Stay(s)

\* The menus: the scene behind each line, from line 0 on.
StartLines     == <<"ReadMenu", "WriteMenu", "DumpMenu", "ToolsMenu">>
ReadMenuLines  == <<"ReadEm4100", "ReadTag", "ReadUid">>
WriteMenuLines == <<"InputId", "SelectFile", "WriteUid">>
DumpMenuLines  == <<"FullDump", "LoadDump">>
ToolsMenuLines == <<"WipeTag", "HtuProbe">> \o [i \in 1..8 |-> "DebugRead"] \o <<"About">>
Lines == [ Start |-> StartLines, ReadMenu |-> ReadMenuLines,
           WriteMenu |-> WriteMenuLines, DumpMenu |-> DumpMenuLines,
           ToolsMenu |-> ToolsMenuLines ]
MenuOnEvent(menu, s, e) ==
    IF e + 1 \in DOMAIN Lines[menu] THEN Next(Lines[menu][e + 1]) ELSE Default(s, e)

\* The diagnostic a line of the tools menu selects (app->debug_tool).
ToolOfLine == <<"DebugRead">> \o [i \in 1..6 |-> "Diagnostic"]
              \o <<"WriteStimulusVerify">>
ToolAfter(scene, e, tool) ==
    IF scene = "ToolsMenu" /\ e \in 2..9 THEN ToolOfLine[e - 1] ELSE tool

InputIdOnEvent(s, e) == IF e = Ev.Next THEN Next("WriteConfirm") ELSE Default(s, e)

WriteConfirmOnEvent(s, e) ==
    CASE e = Right -> Next("Write")
      [] e = Left  -> Previous
      [] OTHER     -> Default(s, e)

WriteOnEvent(s, e) ==
    CASE e = Ev.WriteOk     -> Stopping(Next("WriteSuccess"))
      [] e = Ev.WriteFailed -> Stopping(Next("WriteFail"))
      [] e = Back           -> Stopping(Previous)
      [] OTHER              -> Stay(s)

WriteSuccessOnEvent(s, e) ==
    IF e \in {Back, Ev.PopupClosed} THEN BackToStart ELSE Stay(s)

\* Mutant: Retry pushes a second write scene instead of going back to it.
WriteFailOnEventPushes(s, e) ==
    CASE e = Right           -> Next("Write")
      [] e \in {Left, Back}  -> BackToStart
      [] OTHER               -> Stay(s)
WriteFailOnEvent(s, e) ==
    CASE e = Right           -> Previous
      [] e \in {Left, Back}  -> BackToStart
      [] OTHER               -> Stay(s)

ReadEm4100OnEvent(s, e) ==
    CASE e = Ev.LfReadDone -> Next("ReadEm4100Success")
      [] e = Back          -> Previous
      [] OTHER             -> Stay(s)

ReadEm4100SuccessOnEvent(protocol, s, e) ==
    CASE e \in {Back, Left, Center}          -> Previous
      [] e = Right /\ protocol = "EM4100"    -> Next("WriteConfirm")
      [] OTHER                               -> Stay(s)

\* read_uid and read_tag: the same handler around another operation.
ReadOnEvent(op, s, e) ==
    CASE e = Ev.ReadOk          -> Result(View("None", {Center}))
      [] e = Ev.ReadFailed      -> Result(View("None", {Left, Right}))
      [] e \in {Left, Center}   -> Previous
      [] e = Right              -> Run("None", op)
      [] e = Back               -> Stopping(Previous)
      [] OTHER                  -> Stay(s)

ReadUidOnEvent(s, e) == ReadOnEvent("ReadUid", s, e)
ReadTagOnEvent(s, e) == ReadOnEvent("ReadPages", s, e)

HtuProbeOnEvent(s, e) ==
    CASE e \in {Ev.HtuProbeOk, Ev.HtuProbeFailed} -> Result(View("Success", {Left, Right}))
      [] e = Left  -> Previous
      [] e = Right -> Run("Scanning", "HtuProbe")
      [] e = Back  -> Stopping(Previous)
      [] OTHER     -> Stay(s)

\* write_uid, load_dump and wipe_tag once the worker was confirmed: success,
\* failure, Back and Retry from the failure, and the end of the success popup.
WritingOnEvent(op, ok, failed, s, e) ==
    CASE e = ok             -> Result(TimedPopup("Writing"))
      [] e = failed         -> Result(View("Writing", {Left, Right}))
      [] e = Left           -> BackToStart
      [] e = Right          -> Run("Writing", op)
      [] e = Ev.PopupClosed -> BackToStart
      [] e = Back           -> Stopping(Previous)
      [] OTHER              -> Stay(s)

WriteUidOnEvent(s, e) ==
    CASE s.state = "Writing" ->
            WritingOnEvent("WriteUid", Ev.WriteUidOk, Ev.WriteUidFailed, s, e)
      [] s.state = "Input" /\ e = Ev.Next -> Stay(View("Confirm", {Left, Right}))
      [] s.state = "Confirm" /\ e = Right -> Run("Writing", "WriteUid")
      [] s.state = "Confirm" /\ e = Left  -> Stay(View("Input", {Ev.Next}))
      [] s.state # "Writing" /\ e = Ev.PopupClosed -> BackToStart
      [] OTHER                            -> Default(s, e)

\* load_dump and wipe_tag: Cancel leaves the scene.
ConfirmedOnEvent(op, ok, failed, s, e) ==
    CASE s.state = "Writing" -> WritingOnEvent(op, ok, failed, s, e)
      [] s.state = "Confirm" /\ e = Right -> Run("Writing", op)
      [] s.state = "Confirm" /\ e = Left  -> Previous
      [] s.state # "Writing" /\ e = Ev.PopupClosed -> BackToStart
      [] OTHER                            -> Default(s, e)
LoadDumpOnEvent(s, e) ==
    ConfirmedOnEvent("CloneDump", Ev.CloneOk, Ev.CloneFailed, s, e)
WipeTagOnEvent(s, e) == ConfirmedOnEvent("WipeTag", Ev.WipeOk, Ev.WipeFailed, s, e)

\* The widgets a dump or a debug read ends with; PopupClosed shows the last one.
DumpWidget == [ Scanning |-> {}, Success |-> {Left, Center, Right}, Failed |-> {Left, Right} ]
DebugWidget == [ Confirm |-> {}, RiskConfirm |-> {}, Scanning |-> {},
                 Success |-> {Left, Center}, Partial |-> {Left, Center, Right},
                 Failed |-> {Left, Right} ]

\* Center saves: a timed popup when the file is written, a message otherwise.
Saves(s) == {Stay(TimedPopup(s.state)), Stay(s)}

FullDumpOnEvent(s, e) ==
    CASE e = Ev.DumpOk      -> {Result(View("Success", DumpWidget.Success))}
      [] e = Ev.DumpFailed  -> {Result(View("Failed", DumpWidget.Failed))}
      [] e = Left           -> {Previous}
      [] e = Center /\ s.state = "Success" -> Saves(s)
      [] e = Right /\ s.state = "Failed"   -> {Run("Scanning", "FullDump")}
      [] e = Ev.PopupClosed -> {Stay(View(s.state, DumpWidget[s.state]))}
      [] e = Back           -> {Stopping(Previous)}
      [] OTHER              -> {Stay(s)}

DebugReadOnEvent(tool, s, e) ==
    CASE e = Ev.DebugOk      -> {Result(View("Success", DebugWidget.Success))}
      [] e = Ev.DebugPartial -> {Result(View("Partial", DebugWidget.Partial))}
      [] e = Ev.DebugFailed  -> {Result(View("Failed", DebugWidget.Failed))}
      [] e = Right /\ s.state = "Confirm" ->
            {IF tool = "WriteStimulusVerify" THEN Stay(View("RiskConfirm", {Left, Right}))
                                             ELSE Run("Scanning", tool)}
      [] e = Right /\ s.state \in {"RiskConfirm", "Failed", "Partial"} ->
            {Run("Scanning", tool)}
      [] e = Left            -> {Previous}
      [] e = Center          -> Saves(s)
      [] e = Ev.PopupClosed  -> {Stay(View(s.state, DebugWidget[s.state]))}
      [] e = Back            -> {Stopping(Previous)}
      [] OTHER               -> {Stay(s)}

\* The reactions of a scene to an event; two where saving a file may fail.
OnEvent(scene, tool, protocol, s, e) ==
    CASE scene \in Menus               -> {MenuOnEvent(scene, s, e)}
      [] scene = "InputId"             -> {InputIdOnEvent(s, e)}
      [] scene = "WriteConfirm"        -> {WriteConfirmOnEvent(s, e)}
      [] scene = "Write"               -> {WriteOnEvent(s, e)}
      [] scene = "WriteSuccess"        -> {WriteSuccessOnEvent(s, e)}
      [] scene = "WriteFail"           -> {WriteFailOnEvent(s, e)}
      [] scene = "ReadEm4100"          -> {ReadEm4100OnEvent(s, e)}
      [] scene = "ReadEm4100Success"   -> {ReadEm4100SuccessOnEvent(protocol, s, e)}
      [] scene = "ReadTag"             -> {ReadTagOnEvent(s, e)}
      [] scene = "ReadUid"             -> {ReadUidOnEvent(s, e)}
      [] scene = "HtuProbe"            -> {HtuProbeOnEvent(s, e)}
      [] scene = "WriteUid"            -> {WriteUidOnEvent(s, e)}
      [] scene = "LoadDump"            -> {LoadDumpOnEvent(s, e)}
      [] scene = "WipeTag"             -> {WipeTagOnEvent(s, e)}
      [] scene = "FullDump"            -> FullDumpOnEvent(s, e)
      [] scene = "DebugRead"           -> DebugReadOnEvent(tool, s, e)
      [] OTHER                         -> {Default(s, e)}

-------------------------------------------------------------------------------
(* The on_enter handlers: the screen a scene opens with, and the operation it *)
(* starts.                                                                    *)

SceneOp(scene, tool) ==
    CASE scene = "Write"     -> "Write"
      [] scene = "ReadTag"   -> "ReadPages"
      [] scene = "ReadUid"   -> "ReadUid"
      [] scene = "WriteUid"  -> "WriteUid"
      [] scene = "FullDump"  -> "FullDump"
      [] scene = "LoadDump"  -> "CloneDump"
      [] scene = "WipeTag"   -> "WipeTag"
      [] scene = "HtuProbe"  -> "HtuProbe"
      [] scene = "DebugRead" -> tool
      [] OTHER               -> "Idle"

OpensWith(scene, tool, protocol) ==
    CASE scene \in Menus         -> View("None", {i - 1 : i \in DOMAIN Lines[scene]})
      [] scene = "InputId"       -> View("None", {Ev.Next})
      [] scene \in {"WriteConfirm", "WriteFail"} -> View("None", {Left, Right})
      [] scene = "WriteSuccess"  -> TimedPopup("None")
      [] scene = "ReadEm4100Success" ->
            View("None", {Left, IF protocol = "EM4100" THEN Right ELSE Center})
      [] scene = "WriteUid"      -> View("Input", {Ev.Next})
      [] scene \in {"LoadDump", "WipeTag"} -> View("Confirm", {Left, Right})
      [] scene = "DebugRead"     ->
            IF tool = "WriteStimulusVerify" THEN View("Confirm", {Left, Right})
                                            ELSE Popup("Scanning")
      [] scene \in {"FullDump", "HtuProbe"} -> Popup("Scanning")
      [] OTHER                   -> Popup("None")

\* Scenes that ask first, or whose worker is started by an event only.
AsksFirst(scene, tool) ==
    \/ scene \in {"WriteUid", "LoadDump", "WipeTag"}
    \/ scene = "DebugRead" /\ tool = "WriteStimulusVerify"
StartsWith(scene, tool) == IF AsksFirst(scene, tool) THEN "Idle" ELSE SceneOp(scene, tool)

\* The stacks a change of scene can end in: select_file and load_dump run a
\* file browser inside on_enter and move on or back from there.
Below(stk) == SubSeq(stk, 1, Len(stk) - 1)
SelectFileLandings(stk) == {Append(stk, "WriteConfirm"), Below(stk)}
LoadDumpLandings(stk)   == {stk, Below(stk)}
Landings(stk) ==
    CASE stk[Len(stk)] = "SelectFile" -> SelectFileLandings(stk)
      [] stk[Len(stk)] = "LoadDump"   -> LoadDumpLandings(stk)
      [] OTHER                        -> {stk}
===============================================================================
