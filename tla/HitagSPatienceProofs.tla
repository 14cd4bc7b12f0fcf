------------------------- MODULE HitagSPatienceProofs -------------------------
(* Theorems about the application under a patient user, who lets each press   *)
(* be handled before the next (Presses = 1): presses act where they were      *)
(* made, results belong to the run that is over, and the assertion of         *)
(* hitags_writer_worker_start holds. A user who hurries breaks the last one   *)
(* (run double_start), so none of this follows without the assumption.        *)
EXTENDS HitagSAppProofs, FiniteSetTheorems

\* Events by who sends them.
Results == {Ev.WriteOk, Ev.WriteFailed, Ev.ReadOk, Ev.ReadFailed, Ev.WriteUidOk,
            Ev.WriteUidFailed, Ev.DumpOk, Ev.DumpFailed, Ev.CloneOk, Ev.CloneFailed,
            Ev.WipeOk, Ev.WipeFailed, Ev.DebugOk, Ev.DebugPartial, Ev.DebugFailed,
            Ev.HtuProbeOk, Ev.HtuProbeFailed}
Buttons == 0..10 \cup {Ev.Next}
FromProgram(q) ==
    /\ \/ q.by = "worker" /\ q.ev \in Results
       \/ q.by = "timer"  /\ q.ev = Ev.PopupClosed
       \/ q.by = "lf"     /\ q.ev = Ev.LfReadDone
    /\ q.at = Nowhere
FromUser(q, at) == q.by = "user" /\ q.at = at

\* A screen of a scene: a dump or a debug read shows one of its widgets, a
\* popup with a timeout has no buttons, nor has the LF reader's or that of a
\* written tag.
Fits(s, scene) ==
    /\ s \in Screen
    /\ s.timer => s.offers = {}
    /\ scene = "FullDump"   => s.state \in DOMAIN DumpWidget
    /\ scene = "DebugRead"  => s.state \in DOMAIN DebugWidget
    /\ scene \in {"ReadEm4100", "WriteSuccess"} => s.offers = {}

\* While the worker runs its scene shows a popup without buttons or timeout.
ScreenFits ==
    /\ Fits(screen, Top)
    /\ screen.timer \/ screen.offers # {} => ~worker_running

\* Worker scenes are left before others are entered, except write, which the
\* two scenes of its result are above.
OnlyTop(stk) ==
    \A i \in DOMAIN stk :
        stk[i] \in WorkerScenes /\ i # Len(stk) =>
            i = Len(stk) - 1 /\ stk[Len(stk)] \in {"WriteSuccess", "WriteFail"}
WorkerSceneOnTop == OnlyTop(stack)

\* Nothing is posted after a press: it is the last of the queue, and offered by
\* the screen it was made on. While one is handled the queue is empty; while
\* Back is, no press waits.
PressIsLast ==
    /\ \A i \in DOMAIN queue :
          \/ FromProgram(queue[i])
          \/ /\ i = Len(queue)
             /\ FromUser(queue[i], Here) /\ queue[i].ev \in screen.offers
    /\ \/ busy = NoEvent
       \/ FromProgram(busy)
       \/ /\ FromUser(busy, Here)
          /\ \/ busy.ev \in screen.offers /\ queue = <<>>
             \/ busy.ev = Back /\ \A i \in DOMAIN queue : FromProgram(queue[i])

\* In a worker scene at most one event is on its way: the result of the run
\* that is over, the end of the popup of a result, or a press.
Awaited(q) ==
    /\ ~screen.timer
    /\ \/ q.by = "worker" /\ worker_running /\ thread = "over"
       \/ q.by = "timer"  /\ ~worker_running /\ screen.offers = {}
       \/ q.by = "user"
OneAtATime ==
    Top \in WorkerScenes =>
        /\ Len(queue) <= 1 /\ \A i \in DOMAIN queue : Awaited(queue[i])
        /\ FromProgram(busy) => queue = <<>> /\ Awaited(busy)

\* A queue beyond its bound ends with the press that took it there.
QueueFits ==
    Len(queue) > QueueBound =>
        Len(queue) = QueueBound + 1 /\ queue[Len(queue)].by = "user"

\* The thread exists while the worker runs and counts its attempts.
ThreadFits ==
    /\ worker_running \in BOOLEAN /\ stop_flag \in BOOLEAN
    /\ worker_running =>
        /\ thread \in {"test", "call", "wait", "over"}
        /\ attempt \in 1..MaxAttempts(worker_op)
        /\ thread = "wait" => attempt < MaxAttempts(worker_op)
    /\ ~worker_running => worker_op = "Idle" /\ thread = "none" /\ attempt = 0

PlainTypes ==
    /\ mode \in {"running", "exited"}
    /\ protocol_id \in {"EM4100", "other"} /\ protocol_id_next \in {"EM4100", "other"}
    /\ lf \in {"off", "reading"}
    /\ busy \in Event /\ queue \in Seq(Event)

PatienceInv ==
    /\ SceneInv
    /\ ScreenFits
    /\ WorkerSceneOnTop
    /\ PressIsLast
    /\ OneAtATime
    /\ QueueFits
    /\ ThreadFits
    /\ PlainTypes

------------------------------------------------------------------------------
(* What handlers do with the events of the program, of buttons and of Back.   *)

\* An operation is only started by the right button; Back leaves, and from the
\* result of a write leaves for start; a result that stays stops the worker
\* when it shows anything; worker scenes other than write push nothing.
Answers(r, scene, s, e) ==
    /\ r.op # "Idle" => e = Right
    /\ e = Back => /\ r.op = "Idle" /\ r.go \in {"previous", "start"}
                   /\ scene \in {"WriteSuccess", "WriteFail"} => r.go = "start"
    /\ e \in Results /\ r.go = "stay" => r.show = s \/ r.stop
    /\ r.go = "next" /\ scene \in WorkerScenes =>
           scene = "Write" /\ r.to \in {"WriteSuccess", "WriteFail"}

\* The screens it shows fit the scene, those of a run without buttons.
Presents(r, scene) ==
    r.go = "stay" => /\ Fits(r.show, scene)
                     /\ r.op # "Idle" => r.show.offers = {} /\ ~r.show.timer

Behaves(r, scene, s, e) == Answers(r, scene, s, e) /\ Presents(r, scene)

\* The numbers of the events that handlers compare.
LEMMA EventNumbers ==
    /\ Results \subseteq 103..120
    /\ Ev.Next = 100 /\ Ev.PopupClosed = 102 /\ Ev.LfReadDone = 127
    /\ Left = 0 /\ Center = 1 /\ Right = 2 /\ Back = -1
    /\ Back \notin Buttons
    /\ Results \subseteq Events /\ Buttons \subseteq Events
    /\ Ev.PopupClosed \in Events /\ Ev.LfReadDone \in Events /\ Back \in Events
<1>1. DOMAIN Ev = {"Next", "PopupClosed", "WriteOk", "WriteFailed", "ReadOk", "ReadFailed",
                   "WriteUidOk", "WriteUidFailed", "DumpOk", "DumpFailed", "CloneOk",
                   "CloneFailed", "WipeOk", "WipeFailed", "DebugOk", "DebugPartial",
                   "DebugFailed", "HtuProbeOk", "HtuProbeFailed", "LfReadDone"}
  BY SMT DEF Ev
<1>2. Results \subseteq 103..120 BY SMT DEF Ev, Results
<1>3. Ev.Next = 100 /\ Ev.PopupClosed = 102 /\ Ev.LfReadDone = 127 BY SMT DEF Ev
<1>4. \A n \in DOMAIN Ev : Ev[n] \in Events BY DEF Events
<1>5. Results \subseteq Events BY <1>1, <1>4, SMT DEF Results
<1>6. Buttons \subseteq Events BY <1>1, <1>4, SMT DEF Buttons, Events
<1>7. Ev.PopupClosed \in Events /\ Ev.LfReadDone \in Events /\ Back \in Events
  BY <1>1, <1>4 DEF Events
<1>8. Left = 0 /\ Center = 1 /\ Right = 2 /\ Back = -1 BY DEF Left, Center, Right, Back
<1>9. Back \notin Buttons BY <1>3, <1>8 DEF Buttons
<1> QED BY <1>2, <1>3, <1>5, <1>6, <1>7, <1>8, <1>9

\* Screens built for a scene fit it.
LEMMA BuiltScreensFit ==
    ASSUME NEW scene, scene \notin {"ReadEm4100", "WriteSuccess"}, NEW st \in States,
           scene = "FullDump" => st \in DOMAIN DumpWidget,
           scene = "DebugRead" => st \in DOMAIN DebugWidget
    PROVE  /\ \A of \in SUBSET Buttons : Fits(View(st, of), scene)
           /\ Fits(Popup(st), scene) /\ Fits(TimedPopup(st), scene)
BY SMT DEF Fits, View, Popup, TimedPopup, Screen, Buttons

\* The reactions handlers are built from: a screen of the same scene, ...
LEMMA StayBehaves ==
    ASSUME NEW scene, NEW s, NEW e, NEW t, Fits(t, scene), e # Back
    PROVE  /\ t = s \/ e \notin Results => Behaves(Stay(t), scene, s, e)
           /\ Behaves(Result(t), scene, s, e)
BY SMT DEF Behaves, Answers, Presents, Stay, Result

\* ... a run of the operation, from the right button, ...
LEMMA RunBehaves ==
    ASSUME NEW scene, NEW s, NEW op, NEW st, Fits(Popup(st), scene)
    PROVE  Behaves(Run(st, op), scene, s, Right)
<1>1. Right # Back /\ Right \notin Results BY EventNumbers
<1> QED BY <1>1, SMT DEF Behaves, Answers, Presents, Stay, Run, Popup, View

\* ... a deeper scene, ...
LEMMA NextBehaves ==
    ASSUME NEW scene, NEW s, NEW e, e # Back, NEW to,
           scene \in WorkerScenes => scene = "Write" /\ to \in {"WriteSuccess", "WriteFail"}
    PROVE  Behaves(Next(to), scene, s, e) /\ Behaves(Stopping(Next(to)), scene, s, e)
BY SMT DEF Behaves, Answers, Presents, Stay, Next, Stopping

\* ... and the ways back.
LEMMA BackBehaves ==
    ASSUME NEW scene, NEW s, NEW e
    PROVE  /\ Behaves(BackToStart, scene, s, e)
           /\ scene \notin {"WriteSuccess", "WriteFail"} \/ e # Back =>
                  Behaves(Previous, scene, s, e) /\ Behaves(Stopping(Previous), scene, s, e)
BY SMT DEF Behaves, Answers, Presents, Stay, Previous, BackToStart, Stopping

\* No menu has a line 0: Back selects none.
LEMMA NoLineZero == \A menu \in Menus : 0 \notin DOMAIN Lines[menu]
<1>1. 0 \notin DOMAIN ToolsMenuLines BY ToolsLines, LenProperties
<1>2. \A menu \in Menus \ {"ToolsMenu"} : 0 \notin DOMAIN Lines[menu]
  BY SMT DEF Lines, StartLines, ReadMenuLines, WriteMenuLines, DumpMenuLines, Menus
<1>3. Lines["ToolsMenu"] = ToolsMenuLines BY DEF Lines
<1> QED BY <1>1, <1>2, <1>3

\* Every handler behaves so, on a screen that fits its scene.
LEMMA HandlersBehave ==
    ASSUME NEW scene \in Scenes, NEW tool \in DebugOps, NEW protocol, NEW s, NEW e,
           Fits(s, scene), NEW r \in OnEvent(scene, tool, protocol, s, e)
    PROVE  Behaves(r, scene, s, e)
<1> DEFINE K(x) == Behaves(x, scene, s, e)
<1>1. \A t : Fits(t, scene) /\ e # Back => K(Result(t)) /\ (e \notin Results => K(Stay(t)))
  BY StayBehaves
<1>2. e # Back => K(Stay(s)) BY StayBehaves
<1>3. K(BackToStart) BY BackBehaves
<1>4. scene \notin {"WriteSuccess", "WriteFail"} \/ e # Back =>
          K(Previous) /\ K(Stopping(Previous))
  BY BackBehaves
<1>5. \A to : scene \notin WorkerScenes /\ e # Back => K(Next(to)) BY NextBehaves
<1>6. \A op, st : Fits(Popup(st), scene) /\ e = Right => K(Run(st, op)) BY RunBehaves
<1>7. \A st \in States :
          /\ scene \notin {"ReadEm4100", "WriteSuccess"}
          /\ scene = "FullDump" => st \in DOMAIN DumpWidget
          /\ scene = "DebugRead" => st \in DOMAIN DebugWidget
          => /\ \A of \in SUBSET Buttons : Fits(View(st, of), scene)
             /\ Fits(Popup(st), scene) /\ Fits(TimedPopup(st), scene)
  BY BuiltScreensFit
<1>8. {Left, Right} \in SUBSET Buttons /\ {Center} \in SUBSET Buttons
      /\ {Left, Center, Right} \in SUBSET Buttons /\ {Left, Center} \in SUBSET Buttons
      /\ {} \in SUBSET Buttons /\ {Ev.Next} \in SUBSET Buttons
  BY EventNumbers DEF Buttons
<1>9. /\ Left # Back /\ Center # Back /\ Right # Back /\ Ev.Next # Back
      /\ Ev.PopupClosed # Back /\ Back \notin Results
      /\ Left \notin Results /\ Center \notin Results /\ Right \notin Results
      /\ Ev.Next \notin Results /\ Ev.PopupClosed \notin Results
      /\ Ev.LfReadDone # Back
  BY EventNumbers
<1>10. \A x \in Results : x # Back BY EventNumbers
<1>11. scene \notin {"WriteSuccess", "WriteFail"} => K(Default(s, e))
  BY <1>2, <1>4 DEF Default
<1>12. "None" \in States /\ "Input" \in States /\ "Confirm" \in States
       /\ "RiskConfirm" \in States /\ "Writing" \in States /\ "Scanning" \in States
       /\ "Success" \in States /\ "Partial" \in States /\ "Failed" \in States
  BY DEF States
<1>13. s.state \in States BY SMT DEF Fits, Screen
<1> HIDE DEF K
<1>20. CASE scene \in Menus
  <2>1. r = MenuOnEvent(scene, s, e) BY <1>20, SMT DEF OnEvent, Menus
  <2>2. scene \notin {"WriteSuccess", "WriteFail"} /\ scene \notin WorkerScenes
    BY <1>20 DEF Menus, WorkerScenes
  <2>3. e + 1 \in DOMAIN Lines[scene] => e # Back
    BY <1>20, NoLineZero, EventNumbers
  <2> QED BY <2>1, <2>2, <2>3, <1>5, <1>11 DEF MenuOnEvent, K
<1>21. CASE scene \in {"InputId", "WriteConfirm", "ReadEm4100", "ReadEm4100Success",
                       "SelectFile", "About"}
  <2>1. r \in {InputIdOnEvent(s, e), WriteConfirmOnEvent(s, e), ReadEm4100OnEvent(s, e),
               ReadEm4100SuccessOnEvent(protocol, s, e), Default(s, e)}
    BY <1>21, SMT DEF OnEvent, Menus
  <2>2. scene \notin {"WriteSuccess", "WriteFail"} /\ scene \notin WorkerScenes
    BY <1>21 DEF WorkerScenes
  <2>3. K(InputIdOnEvent(s, e)) BY <2>2, <1>5, <1>9, <1>11 DEF InputIdOnEvent
  <2>4. K(WriteConfirmOnEvent(s, e))
    BY <2>2, <1>4, <1>5, <1>9, <1>11, SMT DEF WriteConfirmOnEvent
  <2>5. K(ReadEm4100OnEvent(s, e))
    BY <2>2, <1>2, <1>4, <1>5, <1>9, SMT DEF ReadEm4100OnEvent
  <2>6. K(ReadEm4100SuccessOnEvent(protocol, s, e))
    BY <2>2, <1>2, <1>4, <1>5, <1>9, SMT DEF ReadEm4100SuccessOnEvent
  <2> QED BY <2>1, <2>2, <2>3, <2>4, <2>5, <2>6, <1>11 DEF K
<1>22. CASE scene = "Write"
  <2>1. r = WriteOnEvent(s, e) BY <1>22, SMT DEF OnEvent, Menus
  <2>2. e # Back => /\ K(Stopping(Next("WriteSuccess")))
                    /\ K(Stopping(Next("WriteFail")))
    BY <1>22, NextBehaves DEF K
  <2>3. Ev.WriteOk \in Results /\ Ev.WriteFailed \in Results BY DEF Results
  <2> QED BY <2>1, <2>2, <2>3, <1>2, <1>4, <1>10, <1>22, SMT DEF WriteOnEvent, K
<1>23. CASE scene \in {"WriteSuccess", "WriteFail"}
  <2>1. r \in {WriteSuccessOnEvent(s, e), WriteFailOnEvent(s, e)}
    BY <1>23, SMT DEF OnEvent, Menus
  <2>2. K(WriteSuccessOnEvent(s, e)) BY <1>2, <1>3, SMT DEF WriteSuccessOnEvent
  <2>3. K(WriteFailOnEvent(s, e)) BY <1>2, <1>3, <1>4, <1>9, SMT DEF WriteFailOnEvent
  <2> QED BY <2>1, <2>2, <2>3 DEF K
<1>24. CASE scene \in {"ReadTag", "ReadUid"}
  <2>1. \E op : r = ReadOnEvent(op, s, e)
    BY <1>24, SMT DEF OnEvent, Menus, ReadTagOnEvent, ReadUidOnEvent
  <2>2. e # Back => /\ K(Result(View("None", {Center})))
                    /\ K(Result(View("None", {Left, Right})))
    BY <1>1, <1>7, <1>8, <1>12, <1>24
  <2>3. \A op : e = Right => K(Run("None", op)) BY <1>6, <1>7, <1>12, <1>24
  <2>4. Ev.ReadOk \in Results /\ Ev.ReadFailed \in Results BY DEF Results
  <2> QED BY <2>1, <2>2, <2>3, <2>4, <1>2, <1>4, <1>9, <1>10, <1>24, SMT DEF ReadOnEvent, K
<1>25. CASE scene = "HtuProbe"
  <2>1. r = HtuProbeOnEvent(s, e) BY <1>25, SMT DEF OnEvent, Menus
  <2>2. e # Back => K(Result(View("Success", {Left, Right})))
    BY <1>1, <1>7, <1>8, <1>12, <1>25
  <2>3. e = Right => K(Run("Scanning", "HtuProbe")) BY <1>6, <1>7, <1>12, <1>25
  <2>4. Ev.HtuProbeOk \in Results /\ Ev.HtuProbeFailed \in Results BY DEF Results
  <2> QED
    BY <2>1, <2>2, <2>3, <2>4, <1>2, <1>4, <1>9, <1>10, <1>25, SMT DEF HtuProbeOnEvent, K
<1>26. ASSUME scene \in {"WriteUid", "LoadDump", "WipeTag"}, NEW op, NEW ok \in Results,
              NEW failed \in Results
       PROVE  K(WritingOnEvent(op, ok, failed, s, e))
  <2>1. e # Back => /\ K(Result(TimedPopup("Writing")))
                    /\ K(Result(View("Writing", {Left, Right})))
    BY <1>1, <1>7, <1>8, <1>12, <1>26
  <2>2. e = Right => K(Run("Writing", op)) BY <1>6, <1>7, <1>12, <1>26
  <2> QED BY <2>1, <2>2, <1>2, <1>3, <1>4, <1>10, <1>26, SMT DEF WritingOnEvent
<1>27. CASE scene = "WriteUid"
  <2>1. r = WriteUidOnEvent(s, e) BY <1>27, SMT DEF OnEvent, Menus
  <2>2. e = Right => K(Run("Writing", "WriteUid")) BY <1>6, <1>7, <1>12, <1>27
  <2>3. /\ e = Ev.Next => K(Stay(View("Confirm", {Left, Right})))
        /\ e = Left => K(Stay(View("Input", {Ev.Next})))
    BY <1>1, <1>7, <1>8, <1>9, <1>12, <1>27
  <2>4. K(WritingOnEvent("WriteUid", Ev.WriteUidOk, Ev.WriteUidFailed, s, e))
    BY <1>26, <1>27 DEF Results
  <2>5. K(WriteUidOnEvent(s, e))
    BY <2>2, <2>3, <2>4, <1>3, <1>11, <1>27, SMT DEF WriteUidOnEvent
  <2> QED BY <2>1, <2>5 DEF K
<1>28. CASE scene \in {"LoadDump", "WipeTag"}
  <2>1. \E op : \E ok, failed \in Results : r = ConfirmedOnEvent(op, ok, failed, s, e)
    <3>1. r \in {LoadDumpOnEvent(s, e), WipeTagOnEvent(s, e)}
      BY <1>28, SMT DEF OnEvent, Menus
    <3> QED BY <3>1 DEF LoadDumpOnEvent, WipeTagOnEvent, Results
  <2>2. PICK op : \E ok, failed \in Results : r = ConfirmedOnEvent(op, ok, failed, s, e)
    BY <2>1
  <2>3. PICK ok \in Results, failed \in Results : r = ConfirmedOnEvent(op, ok, failed, s, e)
    BY <2>2
  <2>4. e = Right => K(Run("Writing", op)) BY <1>6, <1>7, <1>12, <1>28
  <2>5. K(WritingOnEvent(op, ok, failed, s, e)) BY <1>26, <1>28
  <2> QED
    BY <2>3, <2>4, <2>5, <1>3, <1>4, <1>11, <1>28, SMT DEF ConfirmedOnEvent, K
<1>29. ASSUME scene \in {"FullDump", "DebugRead"}
       PROVE  e = Center => \A x \in Saves(s) : K(x)
  <2>1. Fits(TimedPopup(s.state), scene) BY <1>7, <1>13, <1>29 DEF Fits
  <2> QED BY <2>1, <1>1, <1>2, <1>9 DEF Saves
<1>30. CASE scene = "FullDump"
  <2>1. r \in FullDumpOnEvent(s, e) BY <1>30, SMT DEF OnEvent, Menus
  <2>2. DumpWidget \in [{"Scanning", "Success", "Failed"} -> SUBSET Buttons]
    BY <1>8, SMT DEF DumpWidget
  <2>3. "Scanning" \in DOMAIN DumpWidget /\ "Success" \in DOMAIN DumpWidget
        /\ "Failed" \in DOMAIN DumpWidget /\ s.state \in DOMAIN DumpWidget
    BY <2>2, <1>30 DEF Fits
  <2>4. e # Back => /\ K(Result(View("Success", DumpWidget.Success)))
                    /\ K(Result(View("Failed", DumpWidget.Failed)))
    BY <2>2, <2>3, <1>1, <1>7, <1>12, <1>30
  <2>5. e = Right => K(Run("Scanning", "FullDump")) BY <2>3, <1>6, <1>7, <1>12, <1>30
  <2>6. e = Ev.PopupClosed => K(Stay(View(s.state, DumpWidget[s.state])))
    BY <2>2, <2>3, <1>1, <1>7, <1>9, <1>13, <1>30
  <2>7. Ev.DumpOk \in Results /\ Ev.DumpFailed \in Results BY DEF Results
  <2> QED BY <2>1, <2>4, <2>5, <2>6, <2>7, <1>2, <1>4, <1>10, <1>29, <1>30, SMT
          DEF FullDumpOnEvent, K
<1>31. CASE scene = "DebugRead"
  <2>1. r \in DebugReadOnEvent(tool, s, e) BY <1>31, SMT DEF OnEvent, Menus
  <2>2. DebugWidget \in [{"Confirm", "RiskConfirm", "Scanning", "Success", "Partial",
                          "Failed"} -> SUBSET Buttons]
    BY <1>8, SMT DEF DebugWidget
  <2>3. \A st \in {"Confirm", "RiskConfirm", "Scanning", "Success", "Partial", "Failed"} :
            st \in DOMAIN DebugWidget /\ st \in States
    BY <2>2, <1>12
  <2>4. s.state \in DOMAIN DebugWidget BY <1>31 DEF Fits
  <2>5. e # Back => /\ K(Result(View("Success", DebugWidget.Success)))
                    /\ K(Result(View("Partial", DebugWidget.Partial)))
                    /\ K(Result(View("Failed", DebugWidget.Failed)))
    BY <2>2, <2>3, <1>1, <1>7, <1>31
  <2>6. e = Right => /\ K(Run("Scanning", tool))
                     /\ K(Stay(View("RiskConfirm", {Left, Right})))
    BY <2>3, <1>1, <1>6, <1>7, <1>8, <1>9, <1>31
  <2>7. e = Ev.PopupClosed => K(Stay(View(s.state, DebugWidget[s.state])))
    BY <2>2, <2>4, <1>1, <1>7, <1>9, <1>13, <1>31
  <2>8. Ev.DebugOk \in Results /\ Ev.DebugPartial \in Results /\ Ev.DebugFailed \in Results
    BY DEF Results
  <2> QED BY <2>1, <2>5, <2>6, <2>7, <2>8, <1>2, <1>4, <1>10, <1>29, <1>31, SMT
          DEF DebugReadOnEvent, K
<1> QED
  BY <1>20, <1>21, <1>22, <1>23, <1>24, <1>25, <1>27, <1>28, <1>30, <1>31
  DEF Scenes, WorkerScenes

\* Outside the worker scenes the program's events change nothing but the scene
\* of the LF reader and that of a written tag, whatever their age.
LEMMA ProgramEventsElsewhere ==
    ASSUME NEW scene \in Scenes, scene \notin WorkerScenes, NEW tool, NEW protocol, NEW s,
           NEW e, e \in Results \/ e \in {Ev.PopupClosed, Ev.LfReadDone},
           NEW r \in OnEvent(scene, tool, protocol, s, e)
    PROVE  \/ r = Stay(s)
           \/ scene = "ReadEm4100" /\ r = Next("ReadEm4100Success")
           \/ scene = "WriteSuccess" /\ r = BackToStart
<1>1. e \in Int /\ e > 101
  <2>1. e \in Results => e \in 103..120 BY EventNumbers
  <2>2. e \in Results \/ e = 102 \/ e = 127 BY EventNumbers
  <2> QED BY <2>1, <2>2
<1>2. /\ e # Left /\ e # Center /\ e # Right /\ e # Back /\ e # Ev.Next
      /\ e + 1 \notin 1..11
  BY <1>1, EventNumbers
<1>3. Default(s, e) = Stay(s) BY <1>2 DEF Default
<1>4. CASE scene \in Menus
  <2>1. r = MenuOnEvent(scene, s, e) BY <1>4, SMT DEF OnEvent, Menus
  <2>2. DOMAIN Lines[scene] \subseteq 1..11
    <3>1. scene = "ToolsMenu" => DOMAIN Lines[scene] = 1..11
      BY ToolsLines, LenProperties, SMT DEF Lines
    <3>2. scene # "ToolsMenu" => DOMAIN Lines[scene] \subseteq 1..11
      BY <1>4, SMT DEF Lines, StartLines, ReadMenuLines, WriteMenuLines, DumpMenuLines, Menus
    <3> QED BY <3>1, <3>2
  <2> QED BY <2>1, <2>2, <1>2, <1>3 DEF MenuOnEvent
<1>5. CASE scene \notin Menus
  <2>1. /\ scene = "InputId"       => r = InputIdOnEvent(s, e)
        /\ scene = "WriteConfirm"  => r = WriteConfirmOnEvent(s, e)
        /\ scene = "WriteFail"     => r = WriteFailOnEvent(s, e)
        /\ scene = "ReadEm4100Success" => r = ReadEm4100SuccessOnEvent(protocol, s, e)
        /\ scene = "ReadEm4100"    => r = ReadEm4100OnEvent(s, e)
        /\ scene = "WriteSuccess"  => r = WriteSuccessOnEvent(s, e)
        /\ scene \in {"SelectFile", "About"} => r = Default(s, e)
    BY SMT DEF OnEvent, Menus
  <2>8. scene \in {"InputId", "WriteConfirm", "WriteFail", "ReadEm4100Success", "ReadEm4100",
                  "WriteSuccess", "SelectFile", "About"}
    BY <1>5 DEF Scenes
  <2>2. InputIdOnEvent(s, e) = Stay(s) BY <1>2, <1>3 DEF InputIdOnEvent
  <2>3. WriteConfirmOnEvent(s, e) = Stay(s) BY <1>2, <1>3, SMT DEF WriteConfirmOnEvent
  <2>4. WriteFailOnEvent(s, e) = Stay(s) BY <1>2, SMT DEF WriteFailOnEvent
  <2>5. ReadEm4100SuccessOnEvent(protocol, s, e) = Stay(s)
    BY <1>2, SMT DEF ReadEm4100SuccessOnEvent
  <2>6. ReadEm4100OnEvent(s, e) \in {Stay(s), Next("ReadEm4100Success")}
    BY <1>2, SMT DEF ReadEm4100OnEvent
  <2>7. WriteSuccessOnEvent(s, e) \in {Stay(s), BackToStart} BY SMT DEF WriteSuccessOnEvent
  <2> QED BY <2>1, <2>2, <2>3, <2>4, <2>5, <2>6, <2>7, <2>8, <1>3
<1> QED BY <1>4, <1>5

\* Every scene opens with a screen that fits it, without buttons or timeout
\* when its worker is started at once.
LEMMA OpeningFits ==
    ASSUME NEW top \in Scenes, NEW tool \in DebugOps, NEW protocol
    PROVE  /\ Fits(OpensWith(top, tool, protocol), top)
           /\ StartsWith(top, tool) # "Idle" =>
                  /\ OpensWith(top, tool, protocol).offers = {}
                  /\ ~OpensWith(top, tool, protocol).timer
<1> DEFINE o == OpensWith(top, tool, protocol)
<1>1. {Left, Right} \in SUBSET Buttons /\ {Ev.Next} \in SUBSET Buttons
  BY EventNumbers DEF Buttons
<1>2. "None" \in States /\ "Input" \in States /\ "Confirm" \in States /\ "Scanning" \in States
  BY DEF States
<1>3. CASE top \in Menus
  <2>1. o = View("None", {i - 1 : i \in DOMAIN Lines[top]}) BY <1>3, SMT DEF OpensWith, Menus
  <2>2. {i - 1 : i \in DOMAIN Lines[top]} \in SUBSET Buttons
    <3>1. top = "ToolsMenu" => DOMAIN Lines[top] = 1..11
      BY ToolsLines, LenProperties, SMT DEF Lines
    <3>2. top # "ToolsMenu" => DOMAIN Lines[top] \subseteq 1..11
      BY <1>3, SMT DEF Lines, StartLines, ReadMenuLines, WriteMenuLines, DumpMenuLines, Menus
    <3> QED BY <3>1, <3>2 DEF Buttons
  <2>3. StartsWith(top, tool) = "Idle" /\ top \notin {"ReadEm4100", "WriteSuccess", "FullDump", "DebugRead"}
    BY <1>3, SMT DEF StartsWith, SceneOp, AsksFirst, Menus
  <2> QED BY <2>1, <2>2, <2>3, <1>2, BuiltScreensFit
<1>4. CASE top \notin Menus
  <2> DEFINE questions == View("Confirm", {Left, Right})
             asked     == top = "DebugRead" /\ tool = "WriteStimulusVerify"
  <2>1. /\ top \in {"FullDump", "HtuProbe"} \/ (top = "DebugRead" /\ ~asked)
               => o = Popup("Scanning")
        /\ asked \/ top \in {"LoadDump", "WipeTag"} => o = questions
        /\ top = "WriteSuccess" => o = TimedPopup("None")
        /\ top = "WriteUid" => o = View("Input", {Ev.Next})
        /\ top = "InputId" => o = View("None", {Ev.Next})
        /\ top \in {"WriteConfirm", "WriteFail"} => o = View("None", {Left, Right})
        /\ top = "ReadEm4100Success" =>
               o = View("None", {Left, IF protocol = "EM4100" THEN Right ELSE Center})
        /\ top \in {"Write", "ReadTag", "ReadUid", "SelectFile", "About", "ReadEm4100"} =>
               o = Popup("None")
    BY SMT DEF OpensWith, Menus
  <2>10. {Left, IF protocol = "EM4100" THEN Right ELSE Center} \in SUBSET Buttons
    BY EventNumbers DEF Buttons
  <2>2. /\ top \in {"WriteSuccess", "WriteUid", "LoadDump", "WipeTag", "InputId",
                   "WriteConfirm", "WriteFail", "ReadEm4100Success"}
               => StartsWith(top, tool) = "Idle"
        /\ asked => StartsWith(top, tool) = "Idle"
    <3>1. asked \/ top \in {"WriteUid", "LoadDump", "WipeTag"} => AsksFirst(top, tool)
      BY DEF AsksFirst
    <3>2. top \in {"WriteSuccess", "InputId", "WriteConfirm", "WriteFail",
                  "ReadEm4100Success"} => SceneOp(top, tool) = "Idle"
      BY SMT DEF SceneOp
    <3> QED BY <3>1, <3>2 DEF StartsWith
  <2>3. \A st : Popup(st).offers = {} /\ ~Popup(st).timer BY SMT DEF Popup, View
  <2>4. "Scanning" \in DOMAIN DumpWidget /\ "Scanning" \in DOMAIN DebugWidget
        /\ "Confirm" \in DOMAIN DebugWidget
    BY SMT DEF DumpWidget, DebugWidget
  <2>5. Fits(Popup("None"), "ReadEm4100")
    BY <1>2, SMT DEF Fits, Popup, View, Screen
  <2>6. CASE o = Popup("Scanning") /\ top \in {"FullDump", "HtuProbe", "DebugRead"}
    BY <2>3, <2>4, <2>6, <1>2, BuiltScreensFit
  <2>7. CASE /\ o = View("Confirm", {Left, Right})
             /\ top = "DebugRead" /\ tool = "WriteStimulusVerify"
    BY <2>2, <2>4, <2>7, <1>1, <1>2, BuiltScreensFit
  <2>8. CASE o = Popup("None") /\ top \notin {"FullDump", "DebugRead", "WriteSuccess"}
    BY <2>3, <2>5, <2>8, <1>2, BuiltScreensFit
  <2>12. CASE top = "WriteSuccess"
    <3>1. Fits(TimedPopup("None"), "WriteSuccess")
      BY <1>2, SMT DEF Fits, TimedPopup, Screen
    <3> QED BY <2>1, <2>2, <2>12, <3>1
  <2>9. CASE top \in {"WriteUid", "LoadDump", "WipeTag", "InputId",
                      "WriteConfirm", "WriteFail", "ReadEm4100Success"}
    <3>1. top \notin {"ReadEm4100", "WriteSuccess", "FullDump", "DebugRead"} BY <2>9
    <3>2. \A st \in States : /\ Fits(TimedPopup(st), top)
                             /\ \A of \in SUBSET Buttons : Fits(View(st, of), top)
      BY <3>1, BuiltScreensFit
    <3>3. Fits(o, top) BY <2>1, <2>9, <2>10, <3>2, <1>1, <1>2
    <3>4. StartsWith(top, tool) = "Idle" BY <2>2, <2>9
    <3> QED BY <3>3, <3>4
  <2>11. top \in {"WriteSuccess", "WriteUid", "LoadDump", "WipeTag", "InputId", "WriteConfirm",
                  "WriteFail", "ReadEm4100Success", "FullDump", "HtuProbe", "DebugRead",
                  "Write", "ReadTag", "ReadUid", "SelectFile", "About", "ReadEm4100"}
    BY <1>4 DEF Scenes, WorkerScenes
  <2> QED BY <2>1, <2>6, <2>7, <2>8, <2>9, <2>11, <2>12
<1> QED BY <1>3, <1>4

------------------------------------------------------------------------------
(* The stack under changes of scene.                                          *)

\* Changes of scene leave at most write below the top, under its results; Back
\* never lands in a worker scene.
LEMMA ChangesKeepOnlyTop ==
    ASSUME Descends(stack), OnlyTop(stack), NEW r, NEW s, NEW e, Goes(r, Top),
           Answers(r, Top, s, e), Leaves(r), ~Exits(r)
    PROVE  /\ OnlyTop(NewStack(r))
           /\ e = Back => LET t == NewStack(r) IN t[Len(t)] \notin WorkerScenes
<1>1. Len(stack) \in 1..7 /\ DOMAIN stack = 1..Len(stack) /\ Top \in Scenes /\ stack[1] = "Start"
  BY DescendsFacts DEF Top, Descends
<1> DEFINE L == Len(stack)
<1>2. ASSUME NEW n \in 1..L
      PROVE  /\ OnlyTop(SubSeq(stack, 1, n))
             /\ Len(SubSeq(stack, 1, n)) = n /\ SubSeq(stack, 1, n)[n] = stack[n]
  <2> DEFINE t == SubSeq(stack, 1, n)
  <2>1. \A i \in 1..n : stack[i] \in Scenes BY <1>1, DescendsFacts
  <2>2. t \in Seq(Scenes) /\ Len(t) = n /\ \A i \in 1..n : t[i] = stack[i]
    BY <1>1, <2>1, SubSeqProperties
  <2> HIDE DEF t
  <2>3. DOMAIN t = 1..n BY <2>2
  <2>4. ASSUME NEW i \in 1..n, t[i] \in WorkerScenes, i # n PROVE FALSE \/ n = L
    <3>1. \A l \in 1..7 : \A m \in 1..l : \A j \in 1..m :
             j # m => j \in 1..l /\ j # l /\ (j = l - 1 => m = l)
      OBVIOUS
    <3>2. i \in 1..L /\ i # L /\ (i = L - 1 => n = L) BY <1>1, <2>4, <3>1
    <3>3. i \in DOMAIN stack /\ stack[i] \in WorkerScenes BY <1>1, <2>2, <2>4, <3>2
    <3>4. i = L - 1 BY <3>2, <3>3 DEF OnlyTop
    <3> QED BY <3>2, <3>4
  <2>5. OnlyTop(t)
    BY <1>1, <2>2, <2>3, <2>4 DEF OnlyTop
  <2> QED BY <2>2, <2>5 DEF t
<1>3. CASE r.go = "next"
  <2> DEFINE t == Append(stack, r.to)
  <2>1. stack \in Seq(Scenes) /\ r.to \in Scenes BY <1>3 DEF Descends, Goes
  <2>2. /\ Len(t) = L + 1 /\ DOMAIN t = 1..(L + 1) /\ t[L + 1] = r.to
        /\ \A i \in 1..L : t[i] = stack[i]
    BY <1>1, <2>1, AppendProperties, LenProperties
  <2>3. Top \notin {"WriteSuccess", "WriteFail"}
    <3>1. Depth[r.to] > Depth[Top] /\ Depth[r.to] <= 6 /\ Depth[r.to] \in Nat
      BY <1>3, <2>1, Depths DEF Goes
    <3> QED BY <3>1, Depths
  <2>4. Top \in WorkerScenes => r.to \in {"WriteSuccess", "WriteFail"} BY <1>3 DEF Answers
  <2>5. NewStack(r) = t /\ e # Back BY <1>3 DEF NewStack, Answers
  <2> HIDE DEF t
  <2>6. ASSUME NEW i \in 1..(L + 1), t[i] \in WorkerScenes, i # L + 1
        PROVE  i = L /\ r.to \in {"WriteSuccess", "WriteFail"}
    <3>1. i \in DOMAIN stack /\ stack[i] \in WorkerScenes BY <1>1, <2>2, <2>6
    <3>2. i = L BY <3>1, <2>3 DEF OnlyTop, Top
    <3> QED BY <3>1, <3>2, <2>4 DEF Top
  <2>7. \A l \in 1..7 : (l + 1) - 1 = l OBVIOUS
  <2>8. (L + 1) - 1 = L BY <1>1, <2>7
  <2>9. OnlyTop(t) BY <2>2, <2>6, <2>8, Zenon DEF OnlyTop
  <2> QED BY <2>5, <2>9
<1>4. CASE r.go = "previous"
  <2>1. L - 1 \in 1..L /\ NewStack(r) = SubSeq(stack, 1, L - 1)
    BY <1>1, <1>4 DEF Exits, NewStack, Below
  <2>2. e = Back => Top \notin {"WriteSuccess", "WriteFail"} BY <1>4 DEF Answers
  <2>3. e = Back => stack[L - 1] \notin WorkerScenes
    BY <1>1, <2>1, <2>2 DEF OnlyTop, Top
  <2> QED BY <1>2, <2>1, <2>3
<1>5. CASE r.go = "start"
  <2> DEFINE n == CHOOSE i \in DOMAIN stack : stack[i] = "Start"
  <2>1. n \in 1..L /\ stack[n] = "Start" BY <1>1
  <2>2. NewStack(r) = SubSeq(stack, 1, n) BY <1>5 DEF NewStack
  <2>3. "Start" \notin WorkerScenes BY DEF WorkerScenes
  <2> HIDE DEF n
  <2> QED BY <1>2, <2>1, <2>2, <2>3
<1> QED BY <1>3, <1>4, <1>5 DEF Goes, Leaves

\* The file browser keeps that too, and takes nobody from a scene that is no
\* worker scene into one.
LEMMA LandingsKeepOnlyTop ==
    ASSUME NEW stk, Descends(stk), OnlyTop(stk), NEW t \in Landings(stk)
    PROVE  /\ OnlyTop(t)
           /\ stk[Len(stk)] \notin WorkerScenes => t[Len(t)] \notin WorkerScenes
<1> DEFINE L == Len(stk)
           top == stk[L]
<1>1. L \in 1..7 /\ DOMAIN stk = 1..L /\ stk[1] = "Start" /\ stk \in Seq(Scenes)
  BY DescendsFacts DEF Descends
<1>2. CASE top = "SelectFile" /\ t = Append(stk, "WriteConfirm")
  <2>1. "WriteConfirm" \in Scenes /\ "WriteConfirm" \notin WorkerScenes
        /\ "SelectFile" \notin WorkerScenes
    BY DEF Scenes, WorkerScenes
  <2>2. /\ Len(t) = L + 1 /\ DOMAIN t = 1..(L + 1) /\ t[L + 1] = "WriteConfirm"
        /\ \A i \in 1..L : t[i] = stk[i]
    BY <1>1, <1>2, <2>1, AppendProperties, LenProperties
  <2>3. \A i \in 1..L : stk[i] \notin WorkerScenes
    BY <1>1, <1>2, <2>1 DEF OnlyTop
  <2> QED BY <1>1, <2>1, <2>2, <2>3 DEF OnlyTop
<1>3. CASE top \in {"SelectFile", "LoadDump"} /\ t = Below(stk)
  <2>1. L - 1 \in 1..L BY <1>1, <1>3
  <2>2. \A i \in 1..(L - 1) : stk[i] \in Scenes BY <1>1, DescendsFacts
  <2>3. /\ Len(t) = L - 1 /\ t \in Seq(Scenes) /\ \A i \in 1..(L - 1) : t[i] = stk[i]
    BY <1>1, <1>3, <2>1, <2>2, SubSeqProperties DEF Below
  <2>4. DOMAIN t = 1..(L - 1) BY <2>3
  <2>5. \A i \in 1..(L - 1) : stk[i] \notin WorkerScenes
    BY <1>1, <1>3 DEF OnlyTop
  <2> QED BY <1>1, <2>1, <2>3, <2>4, <2>5 DEF OnlyTop
<1>4. CASE t = stk BY <1>4
<1>5. \/ top = "SelectFile" /\ t = Append(stk, "WriteConfirm")
      \/ top \in {"SelectFile", "LoadDump"} /\ t = Below(stk)
      \/ t = stk
  BY SMT DEF Landings, SelectFileLandings, LoadDumpLandings
<1> QED BY <1>2, <1>3, <1>4, <1>5

------------------------------------------------------------------------------
(* The handler of an event, reaction by reaction.                             *)

Tool     == ToolAfter(Top, busy.ev, debug_tool)
Protocol == IF Top = "ReadEm4100" /\ busy.ev = Ev.LfReadDone
            THEN protocol_id_next ELSE protocol_id

\* The handler reacts as r says: on the same screen, by closing the
\* application, or in another scene.
StaysIn(r) ==
    /\ ~Leaves(r)
    /\ mode' = "running" /\ stack' = stack /\ screen' = r.show /\ lf' = lf
    /\ WorkerAfter(Stops(r), r.op)
    /\ r.op # "Idle" => ~worker_running
GoesTo(r, stk) ==
    LET top == stk[Len(stk)] IN
    /\ Leaves(r) /\ ~Exits(r) /\ stk \in Landings(NewStack(r))
    /\ Descends(stk) /\ OnlyTop(stk) /\ top \in Scenes
    /\ mode' = "running" /\ stack' = stk /\ lf' = LfIn(top)
    /\ screen' = OpensWith(top, Tool, Protocol)
    /\ WorkerAfter(Stops(r), StartsWith(top, Tool))
Reacts(r) ==
    /\ r \in Reactions(busy.ev)
    /\ Behaves(r, Top, screen, busy.ev) /\ Goes(r, Top)
    /\ worker_running => Stops(r) \/ ~Leaves(r)
    /\ \/ StaysIn(r)
       \/ Exits(r) /\ Exit
       \/ \E stk : GoesTo(r, stk)

\* Nothing starts while the worker runs: only the right button starts anything,
\* and a screen that has one shows no running worker.
LEMMA NothingStartsTwice ==
    ASSUME PatienceInv, busy # NoEvent, NEW r, Behaves(r, Top, screen, busy.ev),
           r.op # "Idle"
    PROVE  ~worker_running
<1>1. busy.ev = Right BY DEF Behaves, Answers
<1>2. ~FromProgram(busy)
  <2>1. Right \notin Results /\ Right # Ev.PopupClosed /\ Right # Ev.LfReadDone
    BY EventNumbers
  <2> QED BY <1>1, <2>1 DEF FromProgram
<1>3. busy.ev # Back BY <1>1, EventNumbers
<1>4. busy.ev \in screen.offers BY <1>2, <1>3 DEF PatienceInv, PressIsLast
<1>5. screen.offers # {} BY <1>4
<1> QED BY <1>5 DEF PatienceInv, ScreenFits

\* So every handler reacts as the scene says, and no assertion fails.
LEMMA HandleReacts ==
    ASSUME PatienceInv, Handle
    PROVE  /\ \E r : Reacts(r)
           /\ debug_tool' = Tool /\ Tool \in DebugOps /\ protocol_id' = Protocol
           /\ mode = "running" /\ busy # NoEvent /\ busy' = NoEvent
           /\ UNCHANGED <<protocol_id_next, queue>>
<1> PICK r \in Reactions(busy.ev) :
        /\ React(r, Tool, Protocol)
        /\ debug_tool' = Tool /\ protocol_id' = Protocol
  BY DEF Handle, Tool, Protocol
<1>1. mode = "running" /\ busy # NoEvent /\ busy' = NoEvent
      /\ UNCHANGED <<protocol_id_next, queue>>
  BY DEF Handle
<1>2. Descends(stack) /\ OnlyTop(stack) /\ debug_tool \in DebugOps /\ Top \in Scenes
  BY DescendsFacts DEF PatienceInv, SceneInv, Top, WorkerSceneOnTop
<1>3. Tool \in DebugOps BY <1>2, ToolTypes DEF Tool
<1>4. Goes(r, Top) BY <1>2, HandlersKeep DEF Reactions, Keeps
<1>5. Behaves(r, Top, screen, busy.ev)
  BY <1>2, HandlersBehave DEF Reactions, PatienceInv, ScreenFits
<1>6. r.op # "Idle" => ~worker_running BY <1>1, <1>5, NothingStartsTwice
<1>7. worker_running => Stops(r) \/ ~Leaves(r)
  BY RunsInWorkerScene DEF PatienceInv, Stops
<1>8. CASE ~Leaves(r) /\ Settle(stack, r.show, Stops(r), r.op) /\ UNCHANGED lf
  <2>1. StaysIn(r) BY <1>6, <1>8 DEF Settle, StaysIn
  <2> QED BY <1>1, <1>3, <1>4, <1>5, <1>7, <2>1 DEF Reacts
<1>9. CASE Exits(r) /\ Exit
  BY <1>1, <1>3, <1>4, <1>5, <1>7, <1>9 DEF Reacts
<1>10. ASSUME Leaves(r), ~Exits(r), NEW stk \in Landings(NewStack(r)),
              Enter(stk, r, Tool, Protocol)
       PROVE  \E t : GoesTo(r, t)
  <2>1. Descends(NewStack(r)) /\ OnlyTop(NewStack(r))
    BY <1>2, <1>4, <1>5, <1>10, NewStackDescends, ChangesKeepOnlyTop DEF Behaves
  <2>2. Descends(stk) /\ OnlyTop(stk) BY <1>10, <2>1, LandingsDescend, LandingsKeepOnlyTop
  <2>3. stk[Len(stk)] \in Scenes BY <2>2, DescendsFacts
  <2> QED BY <1>7, <1>10, <2>2, <2>3 DEF GoesTo, Enter, Settle
<1>11. (\E t : GoesTo(r, t)) => Reacts(r) BY <1>4, <1>5, <1>7 DEF Reacts
<1> QED BY <1>1, <1>3, <1>8, <1>9, <1>10, <1>11 DEF React

\* The worker after a handler: started with an operation, stopped, or left alone.
LEMMA WorkerAfterFits ==
    ASSUME ThreadFits, NEW stops \in BOOLEAN, NEW op, op \in Ops \/ op = "Idle",
           WorkerAfter(stops, op)
    PROVE  /\ ThreadFits'
           /\ op = "Idle" /\ stops => ~worker_running'
           /\ op = "Idle" /\ ~stops => UNCHANGED workerVars
<1>1. "Idle" \notin Ops BY DEF Ops, RetriedOps, DebugOps
<1>2. \A o : MaxAttempts(o) \in Nat \ {0}
  BY AttemptsAssumption DEF MaxAttempts
<1>3. CASE op \in Ops
  <2>1. WorkerStart(op) BY <1>1, <1>3 DEF WorkerAfter
  <2>2. 1 \in 1..MaxAttempts(op) BY <1>2
  <2> QED BY <1>1, <1>3, <2>1, <2>2 DEF WorkerStart, ThreadFits
<1>4. CASE op = "Idle" /\ stops
  <2>1. WorkerStopped BY <1>4 DEF WorkerAfter
  <2> QED BY <1>4, <2>1 DEF WorkerStopped, ThreadFits
<1>5. CASE op = "Idle" /\ ~stops
  <2>1. UNCHANGED workerVars BY <1>5 DEF WorkerAfter
  <2> QED BY <1>5, <2>1 DEF workerVars, ThreadFits
<1> QED BY <1>3, <1>4, <1>5

\* What a handler leaves fits: the screen, the stack, the thread, the types.
LEMMA HandleFits ==
    ASSUME PatienceInv, Handle
    PROVE  ScreenFits' /\ WorkerSceneOnTop' /\ ThreadFits' /\ PlainTypes'
<1> PICK r : Reacts(r) BY HandleReacts
<1>1. /\ Tool \in DebugOps /\ protocol_id' = Protocol
      /\ mode = "running" /\ busy # NoEvent /\ UNCHANGED <<protocol_id_next, queue>>
  BY HandleReacts
<1>2. /\ protocol_id' \in {"EM4100", "other"} /\ protocol_id_next' \in {"EM4100", "other"}
      /\ busy' \in Event /\ queue' \in Seq(Event)
  <2>1. NoEvent \in Event
    BY DEF NoEvent, Event, Events, Nowhere, States
  <2> QED BY <1>1, <2>1, HandleReacts DEF PatienceInv, PlainTypes, Protocol
<1>3. ThreadFits /\ Fits(screen, Top) /\ WorkerSceneOnTop /\ PlainTypes
  BY DEF PatienceInv, ScreenFits
<1>4. Stops(r) \in BOOLEAN BY DEF Stops, Exits, Leaves
<1>5. Behaves(r, Top, screen, busy.ev) BY DEF Reacts
<1>6. CASE StaysIn(r)
  <2>1. r.op \in Ops \/ r.op = "Idle"
    <3>1. Top \in Scenes /\ debug_tool \in DebugOps /\ r \in Reactions(busy.ev)
      BY DescendsFacts DEF PatienceInv, SceneInv, Top, Reacts
    <3> QED BY <3>1, HandlersKeep DEF Keeps, Starts, Reactions
  <2>2. /\ ThreadFits'
        /\ r.op = "Idle" /\ Stops(r) => ~worker_running'
        /\ r.op = "Idle" /\ ~Stops(r) => UNCHANGED workerVars
    BY <1>3, <1>4, <1>6, <2>1, WorkerAfterFits DEF StaysIn
  <2>3. r.go = "stay" /\ Top' = Top /\ OnlyTop(stack)' /\ mode' = "running" /\ lf' = lf
    BY <1>3, <1>6 DEF StaysIn, Leaves, Top, WorkerSceneOnTop, OnlyTop
  <2>4. Fits(screen, Top)' BY <1>5, <1>6, <2>3 DEF Behaves, Presents, StaysIn, Fits
  <2>5. screen'.timer \/ screen'.offers # {} => ~worker_running'
    <3>1. CASE r.op # "Idle"
      BY <1>5, <1>6, <2>3, <3>1 DEF Behaves, Presents, StaysIn
    <3>2. CASE r.op = "Idle" /\ Stops(r) BY <2>2, <3>2
    <3>3. CASE r.op = "Idle" /\ ~Stops(r) /\ ~worker_running
      BY <2>2, <3>3 DEF workerVars
    <3>4. CASE r.op = "Idle" /\ ~Stops(r) /\ worker_running
      <4>1. Top \in WorkerScenes BY <3>4, RunsInWorkerScene DEF PatienceInv
      <4>2. FromProgram(busy)
        <5>1. screen.offers = {} BY <3>4 DEF PatienceInv, ScreenFits
        <5>2. busy.ev # Back BY <1>5, <2>3 DEF Behaves, Answers
        <5> QED BY <1>1, <5>1, <5>2 DEF PatienceInv, PressIsLast
      <4>3. busy.by = "worker" BY <3>4, <4>1, <4>2 DEF PatienceInv, OneAtATime, Awaited, FromProgram
      <4>4. busy.ev \in Results BY <4>2, <4>3 DEF FromProgram
      <4>5. r.show = screen BY <1>5, <2>3, <3>4, <4>4 DEF Behaves, Answers, Stops
      <4> QED BY <1>6, <3>4, <4>5 DEF StaysIn, PatienceInv, ScreenFits
    <3> QED BY <3>1, <3>2, <3>3, <3>4
  <2> QED BY <1>2, <1>3, <2>2, <2>3, <2>4, <2>5
          DEF ScreenFits, WorkerSceneOnTop, PlainTypes
<1>7. CASE Exits(r) /\ Exit
  <2>1. stack' = stack /\ screen' = screen /\ lf' = lf /\ mode' = "exited" /\ WorkerStopped
    BY <1>7 DEF Exit
  <2>2. ThreadFits' /\ ~worker_running' BY <2>1 DEF WorkerStopped, ThreadFits
  <2>3. Fits(screen, Top)' /\ OnlyTop(stack)'
    BY <1>3, <2>1 DEF Fits, OnlyTop, WorkerSceneOnTop, Top
  <2> QED BY <1>2, <1>3, <2>1, <2>2, <2>3 DEF ScreenFits, WorkerSceneOnTop, PlainTypes
<1>8. ASSUME NEW stk, GoesTo(r, stk)
      PROVE  ScreenFits' /\ WorkerSceneOnTop' /\ ThreadFits' /\ PlainTypes'
  <2> DEFINE top == stk[Len(stk)]
             op  == StartsWith(top, Tool)
  <2>1. /\ top \in Scenes /\ OnlyTop(stk) /\ Leaves(r)
        /\ mode' = "running" /\ stack' = stk /\ lf' \in {"off", "reading"}
        /\ screen' = OpensWith(top, Tool, Protocol) /\ WorkerAfter(Stops(r), op)
    BY <1>8 DEF GoesTo, LfIn
  <2>2. op \in Ops \/ op = "Idle" BY <1>1, <2>1, Opening
  <2>3. Top' = top BY <2>1 DEF Top
  <2>4. Fits(OpensWith(top, Tool, Protocol), top) BY <1>1, <2>1, OpeningFits
  <2>5. op # "Idle" => ~screen'.timer /\ screen'.offers = {} BY <1>1, <2>1, OpeningFits
  <2> HIDE DEF top, op
  <2>6. /\ ThreadFits'
        /\ op = "Idle" /\ Stops(r) => ~worker_running'
        /\ op = "Idle" /\ ~Stops(r) => UNCHANGED workerVars
    BY <1>3, <1>4, <2>1, <2>2, WorkerAfterFits
  <2>7. op = "Idle" => ~worker_running' BY <2>1, <2>6 DEF Reacts, workerVars
  <2>8. Fits(screen, Top)' BY <2>1, <2>3, <2>4 DEF Fits
  <2>9. OnlyTop(stack)' BY <2>1 DEF OnlyTop
  <2> QED BY <1>2, <2>1, <2>5, <2>6, <2>7, <2>8, <2>9
          DEF ScreenFits, WorkerSceneOnTop, PlainTypes
<1> QED BY <1>6, <1>7, <1>8 DEF Reacts

\* With nothing left to handle the queue's invariants are about the queue only.
LEMMA IdleQueue ==
    ASSUME busy' = NoEvent, queue' = queue, PlainTypes
    PROVE  /\ queue = <<>> => PressIsLast' /\ OneAtATime'
           /\ QueueFits => QueueFits'
<1>1. ~FromProgram(NoEvent) BY DEF FromProgram, NoEvent
<1>2. queue = <<>> => Len(queue) = 0 /\ DOMAIN queue = {} OBVIOUS
<1>3. queue = <<>> => PressIsLast' BY <1>2 DEF PressIsLast
<1>4. queue = <<>> => OneAtATime' BY <1>1, <1>2 DEF OneAtATime, FromProgram
<1>5. QueueFits => QueueFits' BY DEF QueueFits
<1> QED BY <1>3, <1>4, <1>5

\* A handler leaves no press behind on a screen it was not made on, and no
\* event of the program in a worker scene.
LEMMA HandleKeepsQueue ==
    ASSUME PatienceInv, Handle
    PROVE  PressIsLast' /\ OneAtATime' /\ QueueFits'
<1> PICK r : Reacts(r) BY HandleReacts
<1>1. mode = "running" /\ busy # NoEvent /\ busy' = NoEvent /\ queue' = queue
  BY HandleReacts
<1>2. QueueFits' /\ (queue = <<>> => PressIsLast' /\ OneAtATime')
  BY <1>1, IdleQueue DEF PatienceInv
<1>3. ~FromProgram(NoEvent) BY DEF FromProgram, NoEvent
<1>4. Top \in Scenes BY DescendsFacts DEF PatienceInv, SceneInv, Top
<1>5. ASSUME Top' \notin WorkerScenes, \A i \in DOMAIN queue : FromProgram(queue[i])
      PROVE  PressIsLast' /\ OneAtATime'
  BY <1>1, <1>5 DEF PressIsLast, OneAtATime, FromProgram
<1>6. CASE queue # <<>> /\ ~FromProgram(busy)
  <2>1. busy.ev = Back /\ \A i \in DOMAIN queue : FromProgram(queue[i])
    BY <1>1, <1>6 DEF PatienceInv, PressIsLast
  <2>2. r.go \in {"previous", "start"} /\ ~StaysIn(r)
    BY <2>1 DEF Reacts, Behaves, Answers, StaysIn, Leaves
  <2>3. ASSUME Exits(r), Exit PROVE Top' \notin WorkerScenes
    <3>1. Top = "Start" BY <2>3 DEF Exits, Top, PatienceInv, SceneInv, Descends
    <3> QED BY <2>3, <3>1 DEF Exit, Top, WorkerScenes
  <2>4. ASSUME NEW stk, GoesTo(r, stk) PROVE Top' \notin WorkerScenes
    <3> DEFINE t == NewStack(r)
    <3>1. Descends(stack) /\ OnlyTop(stack) /\ Goes(r, Top) /\ Leaves(r) /\ ~Exits(r)
      BY <2>4 DEF PatienceInv, SceneInv, WorkerSceneOnTop, Reacts, GoesTo
    <3>2. Answers(r, Top, screen, Back) BY <2>1 DEF Reacts, Behaves
    <3>3. Descends(t) /\ OnlyTop(t) /\ t[Len(t)] \notin WorkerScenes
      BY <3>1, <3>2, NewStackDescends, ChangesKeepOnlyTop
    <3>4. stk \in Landings(t) /\ stack' = stk BY <2>4 DEF GoesTo
    <3>5. stk[Len(stk)] \notin WorkerScenes BY <3>3, <3>4, LandingsKeepOnlyTop
    <3> QED BY <3>4, <3>5 DEF Top
  <2> QED BY <1>2, <1>5, <2>1, <2>2, <2>3, <2>4 DEF Reacts
<1>7. CASE queue # <<>> /\ FromProgram(busy)
  <2>1. Top \in Scenes /\ Top \notin WorkerScenes
    BY <1>4, <1>7 DEF PatienceInv, OneAtATime
  <2>2. r \in OnEvent(Top, debug_tool, protocol_id, screen, busy.ev)
    BY DEF Reacts, Reactions
  <2>6. busy.ev \in Results \/ busy.ev \in {Ev.PopupClosed, Ev.LfReadDone}
    BY <1>7 DEF FromProgram
  <2>3. \/ r = Stay(screen)
        \/ Top = "ReadEm4100" /\ r = Next("ReadEm4100Success")
        \/ Top = "WriteSuccess" /\ r = BackToStart
    BY <2>1, <2>2, <2>6, ProgramEventsElsewhere
  <2>4. CASE r = Stay(screen)
    <3>1. r.go = "stay" /\ r.show = screen BY <2>4, SMT DEF Stay
    <3>2. StaysIn(r) BY <3>1 DEF Reacts, GoesTo, Exits, Leaves
    <3>3. screen' = screen /\ Top' = Top /\ Here' = Here
      BY <3>1, <3>2 DEF StaysIn, Top, Here
    <3>4. PressIsLast'
      BY <1>1, <3>3 DEF PatienceInv, PressIsLast, FromProgram, FromUser
    <3>5. OneAtATime' BY <2>1, <3>3 DEF OneAtATime
    <3> QED BY <1>2, <3>4, <3>5
  <2>5. CASE Top \in {"ReadEm4100", "WriteSuccess"} /\ r # Stay(screen)
    <3>1. screen.offers = {} BY <2>5 DEF PatienceInv, ScreenFits, Fits
    <3>2. \A i \in DOMAIN queue : FromProgram(queue[i])
      BY <3>1 DEF PatienceInv, PressIsLast
    <3>8. /\ Next("ReadEm4100Success").go = "next"
          /\ Next("ReadEm4100Success").to = "ReadEm4100Success"
          /\ BackToStart.go = "start"
      BY SMT DEF Next, BackToStart, Stay
    <3>3. \/ r.go = "next" /\ r.to = "ReadEm4100Success"
          \/ r.go = "start"
      BY <2>3, <2>5, <3>8, Zenon
    <3>4. PICK stk : GoesTo(r, stk) BY <3>3 DEF Reacts, StaysIn, Leaves, Exits
    <3>5. /\ stk \in Landings(NewStack(r)) /\ stack' = stk
      BY <3>4 DEF GoesTo
    <3>6. CASE r.go = "next" /\ r.to = "ReadEm4100Success"
      <4> DEFINE t == Append(stack, "ReadEm4100Success")
      <4>1. stack \in Seq(Scenes) /\ "ReadEm4100Success" \in Scenes
        BY DEF PatienceInv, SceneInv, Descends, Scenes
      <4>2. t[Len(t)] = "ReadEm4100Success" /\ NewStack(r) = t
        BY <3>6, <4>1, AppendProperties DEF NewStack
      <4> HIDE DEF t
      <4>3. stk = t BY <3>5, <4>2 DEF Landings
      <4>4. Top' = "ReadEm4100Success" BY <3>5, <4>2, <4>3 DEF Top
      <4> QED BY <1>2, <1>5, <3>2, <4>4 DEF WorkerScenes
    <3>7. CASE r.go = "start"
      <4> DEFINE n == CHOOSE i \in DOMAIN stack : stack[i] = "Start"
                 t == SubSeq(stack, 1, n)
      <4>1. Descends(stack) /\ Len(stack) \in 1..7 /\ DOMAIN stack = 1..Len(stack)
            /\ stack[1] = "Start"
        BY DescendsFacts DEF PatienceInv, SceneInv, Descends
      <4>2. n \in 1..Len(stack) /\ stack[n] = "Start" BY <4>1
      <4>3. t[Len(t)] = "Start" BY <4>1, <4>2, PrefixDescends
      <4>4. NewStack(r) = t BY <3>7 DEF NewStack
      <4> HIDE DEF t
      <4>5. stk = t BY <3>5, <4>3, <4>4 DEF Landings
      <4>6. Top' = "Start" BY <3>5, <4>3, <4>5 DEF Top
      <4> QED BY <1>2, <1>5, <3>2, <4>6 DEF WorkerScenes
    <3> QED BY <3>3, <3>6, <3>7
  <2> QED BY <2>3, <2>4, <2>5
<1> QED BY <1>2, <1>6, <1>7

------------------------------------------------------------------------------
(* The other steps.                                                           *)

\* What the invariants say of screen, stack and worker outlives every step
\* that leaves these alone.
LEMMA SceneUnchanged ==
    ASSUME PatienceInv, UNCHANGED <<mode, stack, screen, protocol_id, worker_op,
                                    worker_running, thread, attempt>>,
           stop_flag' \in BOOLEAN
    PROVE  /\ ScreenFits' /\ WorkerSceneOnTop' /\ ThreadFits'
           /\ Here' = Here /\ Top' = Top
<1>1. Here' = Here /\ Top' = Top BY DEF Here, Top
<1>2. ScreenFits' BY <1>1 DEF PatienceInv, ScreenFits, Fits
<1>3. WorkerSceneOnTop' BY DEF PatienceInv, WorkerSceneOnTop, OnlyTop
<1>4. ThreadFits' BY DEF PatienceInv, ThreadFits
<1> QED BY <1>1, <1>2, <1>3, <1>4

\* A queue without its head, ...
LEMMA TailOfQueue ==
    ASSUME queue \in Seq(Event), queue # <<>>
    PROVE  /\ Head(queue) = queue[1] /\ 1 \in DOMAIN queue /\ queue[1] \in Event
           /\ Tail(queue) \in Seq(Event)
           /\ Len(Tail(queue)) = Len(queue) - 1 /\ Len(queue) \in Nat \ {0}
           /\ DOMAIN Tail(queue) = 1..(Len(queue) - 1) /\ DOMAIN queue = 1..Len(queue)
           /\ \A i \in 1..(Len(queue) - 1) : Tail(queue)[i] = queue[i + 1]
<1>1. Len(queue) \in Nat \ {0} /\ DOMAIN queue = 1..Len(queue)
  BY EmptySeq, LenProperties
<1>2. /\ Tail(queue) \in Seq(Event) /\ Len(Tail(queue)) = Len(queue) - 1
      /\ \A i \in 1..Len(Tail(queue)) : Tail(queue)[i] = queue[i + 1]
  BY HeadTailProperties
<1>3. DOMAIN Tail(queue) = 1..Len(Tail(queue)) BY <1>2, LenProperties
<1>4. Head(queue) = queue[1] OBVIOUS
<1>5. 1 \in DOMAIN queue /\ queue[1] \in Event BY <1>1, ElementOfSeq
<1> QED BY <1>1, <1>2, <1>3, <1>4, <1>5

\* ... and one with an event more.
LEMMA AppendToQueue ==
    ASSUME queue \in Seq(Event), NEW q \in Event
    PROVE  /\ Append(queue, q) \in Seq(Event)
           /\ Len(Append(queue, q)) = Len(queue) + 1 /\ Len(queue) \in Nat
           /\ DOMAIN Append(queue, q) = 1..(Len(queue) + 1) /\ DOMAIN queue = 1..Len(queue)
           /\ \A i \in 1..Len(queue) : Append(queue, q)[i] = queue[i]
           /\ Append(queue, q)[Len(queue) + 1] = q
<1>1. Append(queue, q) \in Seq(Event) /\ Len(Append(queue, q)) = Len(queue) + 1
      /\ \A i \in 1..Len(queue) : Append(queue, q)[i] = queue[i]
      /\ Append(queue, q)[Len(queue) + 1] = q
  BY AppendProperties
<1>2. Len(queue) \in Nat /\ DOMAIN queue = 1..Len(queue) BY LenProperties
<1>3. DOMAIN Append(queue, q) = 1..(Len(queue) + 1) BY <1>1, LenProperties
<1> QED BY <1>1, <1>2, <1>3

\* What the worker posts is a result.
LEMMA PostsAreResults ==
    ASSUME NEW op \in Ops
    PROVE  Posts[op].ok \subseteq Results /\ Posts[op].failed \subseteq Results
BY SMT DEF Posts, Results, Ops, RetriedOps, DebugOps

\* The screen's address, and the events of the program, are well formed.
LEMMA EventsAreEvents ==
    ASSUME PatienceInv
    PROVE  /\ \A e \in Buttons \cup {Back} : [ev |-> e, by |-> "user", at |-> Here] \in Event
           /\ \A e \in Results : [ev |-> e, by |-> "worker", at |-> Nowhere] \in Event
           /\ [ev |-> Ev.PopupClosed, by |-> "timer", at |-> Nowhere] \in Event
           /\ [ev |-> Ev.LfReadDone, by |-> "lf", at |-> Nowhere] \in Event
<1>1. Top \in Scenes BY DescendsFacts DEF PatienceInv, SceneInv, Top
<1>2. screen.state \in States BY SMT DEF PatienceInv, ScreenFits, Fits, Screen
<1>3. Here \in [scene : Scenes \cup {"none"}, state : States] BY <1>1, <1>2 DEF Here
<1>4. Nowhere \in [scene : Scenes \cup {"none"}, state : States] BY DEF Nowhere, States
<1>5. Buttons \cup {Back} \subseteq Events /\ Results \subseteq Events
      /\ Ev.PopupClosed \in Events /\ Ev.LfReadDone \in Events
  BY EventNumbers
<1> QED BY <1>3, <1>4, <1>5 DEF Event

\* A patient user presses when no press waits.
LEMMA NoneWaits ==
    ASSUME queue \in Seq(Event), Presses = 1, Waiting < Presses
    PROVE  \A i \in DOMAIN queue : queue[i].by # "user"
<1> DEFINE W == {i \in DOMAIN queue : queue[i].by = "user"}
<1>1. Len(queue) \in Nat /\ DOMAIN queue = 1..Len(queue) BY LenProperties
<1>2. IsFiniteSet(1..Len(queue)) BY <1>1, FS_Interval
<1>3. IsFiniteSet(W) BY <1>1, <1>2, FS_Subset
<1>4. Cardinality(W) \in Nat BY <1>3, FS_CardinalityType
<1>5. Cardinality(W) < 1 BY DEF Waiting
<1>6. Cardinality(W) = 0 BY <1>4, <1>5
<1>7. W = {} BY <1>3, <1>6, FS_EmptySet
<1> QED BY <1>7

\* In a worker scene a screen with buttons has nothing to wait for.
LEMMA ButtonsMeanQuiet ==
    ASSUME PatienceInv, Top \in WorkerScenes, screen.offers # {} \/ screen.timer,
           \A i \in DOMAIN queue : queue[i].by # "user"
    PROVE  queue = <<>>
<1>1. \A i \in DOMAIN queue : ~Awaited(queue[i])
  BY DEF PatienceInv, ScreenFits, Fits, Awaited
<1>2. DOMAIN queue = {} BY <1>1 DEF PatienceInv, OneAtATime
<1>3. queue \in Seq(Event) BY DEF PatienceInv, PlainTypes
<1>4. queue # <<>> => 1 \in DOMAIN queue BY <1>3, TailOfQueue
<1> QED BY <1>2, <1>4

\* A press joins the queue as its last event.
LEMMA PressKeeps ==
    ASSUME PatienceInv, Presses = 1, NEW e \in Buttons, Press(e)
    PROVE  PressIsLast' /\ OneAtATime' /\ QueueFits' /\ PlainTypes'
<1> DEFINE q == [ev |-> e, by |-> "user", at |-> Here]
           L == Len(queue)
<1>1. /\ queue \in Seq(Event) /\ q \in Event /\ busy = NoEvent /\ e \in screen.offers
      /\ queue' = Append(queue, q) /\ busy' = busy
  BY EventsAreEvents DEF PatienceInv, PlainTypes, Press
<1>2. \A i \in DOMAIN queue : queue[i].by # "user"
  BY <1>1, NoneWaits DEF Press
<1>3. q.by = "user" /\ q.at = Here /\ q.ev = e OBVIOUS
<1> HIDE DEF q
<1>4. /\ L \in Nat /\ Len(queue') = L + 1 /\ queue' \in Seq(Event)
      /\ DOMAIN queue' = 1..(L + 1) /\ DOMAIN queue = 1..L
      /\ \A i \in 1..L : queue'[i] = queue[i]
      /\ queue'[L + 1] = q
  BY <1>1, AppendToQueue
<1> HIDE DEF L
<1>5. UNCHANGED <<mode, stack, screen, protocol_id, protocol_id_next, lf, worker_running, thread>>
  BY DEF Press, workerVars
<1>6. Here' = Here /\ Top' = Top BY <1>5 DEF Here, Top
<1>7. \A i \in 1..L : FromProgram(queue[i])
  BY <1>2, <1>4 DEF PatienceInv, PressIsLast, FromUser
<1>8. PressIsLast'
  <2> SUFFICES ASSUME NEW i \in DOMAIN queue'
               PROVE  \/ FromProgram(queue'[i])
                      \/ /\ i = Len(queue')
                         /\ FromUser(queue'[i], Here') /\ queue'[i].ev \in screen'.offers
    BY <1>1 DEF PressIsLast
  <2>1. i \in 1..L \/ i = L + 1 BY <1>4
  <2>2. i \in 1..L => FromProgram(queue'[i]) BY <1>4, <1>7
  <2>3. FromUser(q, Here') /\ q.ev \in screen'.offers BY <1>1, <1>3, <1>5, <1>6 DEF FromUser
  <2>4. i = L + 1 => i = Len(queue') /\ queue'[i] = q BY <1>4
  <2> QED BY <2>1, <2>2, <2>3, <2>4, Zenon
<1>9. OneAtATime'
  <2> SUFFICES ASSUME Top \in WorkerScenes
               PROVE  /\ Len(queue') <= 1 /\ \A i \in DOMAIN queue' : Awaited(queue[i])'
                      /\ ~FromProgram(busy')
    BY <1>6 DEF OneAtATime
  <2>1. queue = <<>> BY <1>1, <1>2, ButtonsMeanQuiet
  <2>2. L = 0 BY <2>1 DEF L
  <2>3. ~screen'.timer BY <1>1, <1>5 DEF PatienceInv, ScreenFits, Fits
  <2>4. \A i \in DOMAIN queue' : queue'[i] = q BY <1>4, <2>2
  <2>5. \A i \in DOMAIN queue' : Awaited(queue[i])' BY <1>3, <2>3, <2>4 DEF Awaited
  <2>6. ~FromProgram(busy') BY <1>1 DEF FromProgram, NoEvent
  <2> QED BY <1>4, <2>2, <2>5, <2>6
<1>10. QueueFits'
  <2>1. L <= QueueBound \/ L = 0
    <3>1. L > QueueBound => L = QueueBound + 1 /\ queue[L].by = "user"
      BY DEF PatienceInv, QueueFits, L
    <3>2. L > QueueBound /\ L # 0 => FALSE
      <4>1. L # 0 => L \in DOMAIN queue BY <1>4
      <4> QED BY <1>2, <3>1, <4>1
    <3> QED BY <1>4, <3>2, PressesAssumption
  <2>2. L <= QueueBound BY <1>4, <2>1, PressesAssumption
  <2>3. L + 1 > QueueBound => L + 1 = QueueBound + 1
    BY <1>4, <2>2, PressesAssumption
  <2> QED BY <1>3, <1>4, <2>3 DEF QueueFits
<1>11. PlainTypes' BY <1>1, <1>4, <1>5 DEF PatienceInv, PlainTypes
<1> QED BY <1>8, <1>9, <1>10, <1>11


\* The next event is taken: a press only when nothing else waits.
LEMMA TakeEventKeeps ==
    ASSUME PatienceInv, TakeEvent
    PROVE  PressIsLast' /\ OneAtATime' /\ QueueFits' /\ PlainTypes'
<1> DEFINE L == Len(queue)
<1>1. /\ queue \in Seq(Event) /\ queue # <<>> /\ busy = NoEvent
      /\ UNCHANGED <<mode, stack, screen, protocol_id, protocol_id_next, lf,
                     worker_running, thread>>
  BY DEF PatienceInv, PlainTypes, TakeEvent, Begin
<1>2. /\ busy' = queue[1] /\ busy' \in Event /\ queue' \in Seq(Event)
      /\ L \in Nat \ {0} /\ Len(queue') = L - 1
      /\ DOMAIN queue = 1..L /\ DOMAIN queue' = 1..(L - 1)
      /\ \A i \in 1..(L - 1) : queue'[i] = queue[i + 1]
  BY <1>1, TailOfQueue DEF TakeEvent, Begin
<1>3. Here' = Here /\ Top' = Top BY <1>1 DEF Here, Top
<1>4. L = 1 => queue' = <<>> BY <1>2, EmptySeq
<1> HIDE DEF L
<1>5. 1 \in 1..L /\ \A i \in 1..(L - 1) : i + 1 \in 1..L /\ (i + 1 = L => i = L - 1)
  BY <1>2
<1>6. PressIsLast'
  <2>1. ASSUME NEW i \in DOMAIN queue'
        PROVE  \/ FromProgram(queue'[i])
               \/ /\ i = Len(queue')
                  /\ FromUser(queue'[i], Here') /\ queue'[i].ev \in screen'.offers
    <3>1. i + 1 \in DOMAIN queue /\ queue'[i] = queue[i + 1] /\ (i + 1 = L => i = Len(queue'))
      BY <1>2, <1>5
    <3>2. \/ FromProgram(queue[i + 1])
          \/ /\ i + 1 = L
             /\ FromUser(queue[i + 1], Here) /\ queue[i + 1].ev \in screen.offers
      BY <3>1 DEF PatienceInv, PressIsLast, L
    <3> QED BY <1>1, <1>3, <3>1, <3>2
  <2>2. \/ FromProgram(busy')
        \/ FromUser(busy', Here') /\ busy'.ev \in screen'.offers /\ queue' = <<>>
    <3>1. \/ FromProgram(queue[1])
          \/ /\ 1 = L
             /\ FromUser(queue[1], Here) /\ queue[1].ev \in screen.offers
      BY <1>2, <1>5 DEF PatienceInv, PressIsLast, L
    <3> QED BY <1>1, <1>2, <1>3, <1>4, <3>1
  <2> QED BY <2>1, <2>2 DEF PressIsLast
<1>7. OneAtATime'
  <2> SUFFICES ASSUME Top \in WorkerScenes
               PROVE  queue' = <<>> /\ Awaited(busy)'
    <3>1. queue' = <<>> => DOMAIN queue' = {} /\ Len(queue') <= 1 OBVIOUS
    <3> QED BY <1>3, <3>1 DEF OneAtATime
  <2>1. L = 1 BY <1>2 DEF PatienceInv, OneAtATime, L
  <2>2. Awaited(queue[1]) BY <1>2, <1>5 DEF PatienceInv, OneAtATime
  <2>3. Awaited(busy)' BY <1>1, <1>2, <2>2 DEF Awaited
  <2> QED BY <1>4, <2>1, <2>3
<1>8. QueueFits'
  <2>1. L > QueueBound => L = QueueBound + 1 BY DEF PatienceInv, QueueFits, L
  <2>2. ~(L - 1 > QueueBound) BY <1>2, <2>1, PressesAssumption
  <2> QED BY <1>2, <2>2 DEF QueueFits
<1>9. PlainTypes' BY <1>1, <1>2 DEF PatienceInv, PlainTypes
<1> QED BY <1>6, <1>7, <1>8, <1>9

\* Back is handed over when no press waits.
LEMMA PressBackKeeps ==
    ASSUME PatienceInv, Presses = 1, PressBack
    PROVE  PressIsLast' /\ OneAtATime' /\ QueueFits' /\ PlainTypes'
<1> DEFINE q == [ev |-> Back, by |-> "user", at |-> Here]
<1>1. /\ queue \in Seq(Event) /\ q \in Event /\ busy' = q /\ queue' = queue
      /\ UNCHANGED <<mode, stack, screen, protocol_id, protocol_id_next, lf,
                     worker_running, thread>>
  BY EventsAreEvents DEF PatienceInv, PlainTypes, PressBack, Begin
<1>2. q.by = "user" /\ q.at = Here /\ q.ev = Back OBVIOUS
<1> HIDE DEF q
<1>3. \A i \in DOMAIN queue : queue[i].by # "user" BY <1>1, NoneWaits DEF PressBack
<1>4. \A i \in DOMAIN queue : FromProgram(queue[i])
  BY <1>3 DEF PatienceInv, PressIsLast, FromUser
<1>5. Here' = Here /\ Top' = Top BY <1>1 DEF Here, Top
<1>6. PressIsLast' BY <1>1, <1>2, <1>4, <1>5 DEF PressIsLast, FromUser
<1>7. OneAtATime'
  <2>1. ~FromProgram(busy') BY <1>1, <1>2 DEF FromProgram
  <2>2. \A i \in DOMAIN queue : Awaited(queue[i]) => Awaited(queue[i])'
    BY <1>1 DEF Awaited
  <2> QED BY <1>1, <1>5, <2>1, <2>2 DEF PatienceInv, OneAtATime
<1>8. QueueFits' BY <1>1 DEF PatienceInv, QueueFits
<1>9. PlainTypes' BY <1>1 DEF PatienceInv, PlainTypes
<1> QED BY <1>6, <1>7, <1>8, <1>9

\* What the program posts may follow what it posted before, but no press; in a
\* worker scene nothing else may be on its way.
LEMMA PostKeeps ==
    ASSUME PatienceInv, NEW q \in Event, FromProgram(q), screen.offers = {},
           queue' = Append(queue, q), busy' = busy, Here' = Here, Top' = Top,
           screen'.offers = screen.offers, Len(queue) < QueueBound,
           Top \in WorkerScenes => queue = <<>> /\ ~FromProgram(busy) /\ Awaited(q)'
    PROVE  PressIsLast' /\ OneAtATime' /\ QueueFits' /\ queue' \in Seq(Event)
<1> DEFINE L == Len(queue)
<1>1. /\ L \in Nat /\ Len(queue') = L + 1 /\ queue' \in Seq(Event)
      /\ DOMAIN queue' = 1..(L + 1) /\ DOMAIN queue = 1..L
      /\ \A i \in 1..L : queue'[i] = queue[i]
      /\ queue'[L + 1] = q
  BY AppendToQueue DEF PatienceInv, PlainTypes
<1>2. \A i \in 1..L : FromProgram(queue[i]) BY <1>1 DEF PatienceInv, PressIsLast
<1>3. queue = <<>> => L = 0 OBVIOUS
<1>4. L < QueueBound OBVIOUS
<1> HIDE DEF L
<1>5. \A i \in DOMAIN queue' : i \in 1..L \/ i = L + 1 BY <1>1
<1>6. \A i \in DOMAIN queue' : FromProgram(queue'[i]) BY <1>1, <1>2, <1>5
<1>7. PressIsLast'
  <2>1. \/ busy' = NoEvent
        \/ FromProgram(busy')
        \/ FromUser(busy', Here') /\ busy'.ev = Back
    BY DEF PatienceInv, PressIsLast
  <2> QED BY <1>6, <2>1 DEF PressIsLast
<1>8. OneAtATime'
  <2> SUFFICES ASSUME Top \in WorkerScenes
               PROVE  /\ Len(queue') <= 1 /\ \A i \in DOMAIN queue' : Awaited(queue[i])'
                      /\ ~FromProgram(busy')
    BY DEF OneAtATime
  <2>1. L = 0 BY <1>3
  <2>2. \A i \in DOMAIN queue' : queue'[i] = q BY <1>1, <2>1
  <2>3. \A i \in DOMAIN queue' : Awaited(queue[i])' BY <2>2 DEF Awaited
  <2> QED BY <1>1, <2>1, <2>3
<1>9. QueueFits'
  <2>1. ~(L + 1 > QueueBound) BY <1>1, <1>4, PressesAssumption
  <2> QED BY <1>1, <2>1 DEF QueueFits
<1> QED BY <1>1, <1>7, <1>8, <1>9


\* A popup with a timeout has no buttons, so no press waits behind it.
LEMMA PopupTimesOutKeeps ==
    ASSUME PatienceInv, PopupTimesOut
    PROVE  ScreenFits' /\ WorkerSceneOnTop' /\ PressIsLast' /\ OneAtATime' /\ QueueFits'
           /\ ThreadFits' /\ PlainTypes'
<1> DEFINE q == [ev |-> Ev.PopupClosed, by |-> "timer", at |-> Nowhere]
<1>1. /\ q \in Event /\ screen.timer /\ screen.offers = {} /\ ~worker_running
      /\ Len(queue) < QueueBound /\ queue' = Append(queue, q)
      /\ UNCHANGED <<mode, stack, protocol_id, protocol_id_next, lf, busy, workerVars>>
  BY EventsAreEvents DEF PatienceInv, ScreenFits, Fits, PopupTimesOut
<1>2. FromProgram(q) /\ q.by = "timer" BY DEF FromProgram
<1> HIDE DEF q
<1>3. /\ screen' \in Screen /\ screen'.state = screen.state /\ screen'.offers = screen.offers
      /\ ~screen'.timer
  <2>1. screen \in Screen /\ screen' = [screen EXCEPT !.timer = FALSE]
    BY DEF PatienceInv, ScreenFits, Fits, PopupTimesOut
  <2>2. screen'.state = screen.state /\ screen'.offers = screen.offers BY <2>1, SMT DEF Screen
  <2>3. screen'.timer = FALSE BY <2>1, SMT DEF Screen
  <2>4. screen' \in Screen BY <2>1 DEF Screen
  <2> QED BY <2>2, <2>3, <2>4
<1>4. Here' = Here /\ Top' = Top BY <1>1, <1>3 DEF Here, Top
<1>5. ScreenFits' BY <1>1, <1>3, <1>4 DEF PatienceInv, ScreenFits, Fits
<1>6. WorkerSceneOnTop' BY <1>1 DEF PatienceInv, WorkerSceneOnTop, OnlyTop
<1>7. ThreadFits' BY <1>1 DEF PatienceInv, ThreadFits, workerVars
<1>8. ASSUME Top \in WorkerScenes PROVE queue = <<>> /\ ~FromProgram(busy) /\ Awaited(q)'
  <2>1. \A i \in DOMAIN queue : ~Awaited(queue[i]) BY <1>1 DEF Awaited
  <2>2. DOMAIN queue = {} BY <1>8, <2>1 DEF PatienceInv, OneAtATime
  <2>3. queue = <<>> BY <2>2, TailOfQueue DEF PatienceInv, PlainTypes
  <2>4. ~FromProgram(busy) BY <1>1, <1>8 DEF PatienceInv, OneAtATime, Awaited
  <2>5. Awaited(q)' BY <1>1, <1>2, <1>3 DEF Awaited, workerVars
  <2> QED BY <2>3, <2>4, <2>5
<1>9. PressIsLast' /\ OneAtATime' /\ QueueFits' /\ queue' \in Seq(Event)
  BY <1>1, <1>2, <1>3, <1>4, <1>8, PostKeeps
<1>10. PlainTypes' BY <1>1, <1>9 DEF PatienceInv, PlainTypes
<1> QED BY <1>5, <1>6, <1>7, <1>9, <1>10

\* The LF reader's scene has no buttons either, and no worker.
LEMMA LfReadDoneKeeps ==
    ASSUME PatienceInv, LfReadDone
    PROVE  PressIsLast' /\ OneAtATime' /\ QueueFits' /\ PlainTypes'
<1> DEFINE q == [ev |-> Ev.LfReadDone, by |-> "lf", at |-> Nowhere]
<1>1. /\ q \in Event /\ Len(queue) < QueueBound /\ queue' = Append(queue, q)
      /\ protocol_id_next' \in {"EM4100", "other"} /\ lf' = "off"
      /\ UNCHANGED <<mode, stack, screen, protocol_id, busy, workerVars>>
  BY EventsAreEvents DEF LfReadDone
<1>2. FromProgram(q) BY DEF FromProgram
<1> HIDE DEF q
<1>3. Top = "ReadEm4100" BY DEF LfReadDone, PatienceInv, SceneInv, OneReader
<1>4. screen.offers = {} BY <1>3 DEF PatienceInv, ScreenFits, Fits
<1>5. Top \notin WorkerScenes BY <1>3 DEF WorkerScenes
<1>6. Here' = Here /\ Top' = Top BY <1>1 DEF Here, Top
<1>7. PressIsLast' /\ OneAtATime' /\ QueueFits' /\ queue' \in Seq(Event)
  BY <1>1, <1>2, <1>4, <1>5, <1>6, PostKeeps
<1>8. PlainTypes' BY <1>1, <1>7 DEF PatienceInv, PlainTypes
<1> QED BY <1>7, <1>8

\* The steps of the thread, without its queue: it counts its attempts, and is
\* over for good.
LEMMA ThreadSteps ==
    ASSUME ThreadFits, Worker
    PROVE  /\ ThreadFits' /\ worker_running /\ worker_running' /\ thread # "over"
           /\ stop_flag' \in BOOLEAN
           /\ \/ queue' = queue
              \/ /\ thread = "call" /\ thread' = "over"
                 /\ \E e \in Posts[worker_op].ok \cup Posts[worker_op].failed : Post(e)
<1>1. worker_running /\ thread # "over" /\ stop_flag' \in BOOLEAN
      /\ UNCHANGED <<worker_op, worker_running>>
  BY DEF ThreadFits, Worker, ShouldStop, Succeed, GiveUp, Fail, WaitOrStop
<1>2. thread' \in {"test", "call", "wait", "over"}
  BY DEF Worker, ShouldStop, Succeed, GiveUp, Fail, WaitOrStop
<1>3. /\ attempt' \in 1..MaxAttempts(worker_op)
      /\ thread' = "wait" => attempt' < MaxAttempts(worker_op)
  <2>1. attempt \in 1..MaxAttempts(worker_op) /\ MaxAttempts(worker_op) \in Nat
    BY <1>1, AttemptsAssumption DEF ThreadFits, MaxAttempts
  <2>2. CASE ShouldStop BY <2>1, <2>2 DEF ShouldStop
  <2>3. CASE Succeed \/ GiveUp BY <2>1, <2>3 DEF Succeed, GiveUp
  <2>4. CASE Fail BY <2>1, <2>4 DEF Fail
  <2>5. CASE WaitOrStop
    <3>1. thread = "wait" /\ attempt < MaxAttempts(worker_op)
      BY <1>1, <2>5 DEF WaitOrStop, ThreadFits
    <3>2. attempt' \in {attempt, attempt + 1} /\ thread' # "wait"
      BY <2>5 DEF WaitOrStop
    <3> QED BY <2>1, <3>1, <3>2
  <2> QED BY <2>2, <2>3, <2>4, <2>5 DEF Worker
<1>4. ThreadFits' BY <1>1, <1>2, <1>3 DEF ThreadFits, MaxAttempts
<1>5. \/ queue' = queue
      \/ /\ thread = "call" /\ thread' = "over"
         /\ \E e \in Posts[worker_op].ok \cup Posts[worker_op].failed : Post(e)
  BY DEF Worker, ShouldStop, Succeed, GiveUp, Fail, WaitOrStop
<1> QED BY <1>1, <1>4, <1>5

\* The worker posts its result over an empty queue, and once.
LEMMA WorkerStepKeeps ==
    ASSUME PatienceInv, WorkerStep
    PROVE  ScreenFits' /\ WorkerSceneOnTop' /\ PressIsLast' /\ OneAtATime' /\ QueueFits'
           /\ ThreadFits' /\ PlainTypes'
<1>1. UNCHANGED <<mode, stack, screen, protocol_id, protocol_id_next, lf, busy>>
  BY DEF WorkerStep, appVars
<1>2. /\ ThreadFits' /\ worker_running /\ worker_running' /\ thread # "over"
      /\ stop_flag' \in BOOLEAN
  BY ThreadSteps DEF PatienceInv, WorkerStep
<1>3. Here' = Here /\ Top' = Top BY <1>1 DEF Here, Top
<1>4. ScreenFits' BY <1>1, <1>2, <1>3 DEF PatienceInv, ScreenFits, Fits
<1>5. WorkerSceneOnTop' BY <1>1 DEF PatienceInv, WorkerSceneOnTop, OnlyTop
<1>6. Top \in WorkerScenes BY <1>2, RunsInWorkerScene DEF PatienceInv
<1>7. screen.offers = {} /\ ~screen.timer BY <1>2 DEF PatienceInv, ScreenFits
<1>8. queue = <<>>
  <2>1. \A i \in DOMAIN queue : FromProgram(queue[i])
    BY <1>7 DEF PatienceInv, PressIsLast
  <2>2. \A i \in DOMAIN queue : ~Awaited(queue[i]) BY <1>2, <2>1 DEF Awaited, FromProgram
  <2>3. DOMAIN queue = {} BY <1>6, <2>2 DEF PatienceInv, OneAtATime
  <2> QED BY <2>3, TailOfQueue DEF PatienceInv, PlainTypes
<1>9. ~FromProgram(busy)
  BY <1>2, <1>6 DEF PatienceInv, OneAtATime, Awaited, FromProgram
<1>10. CASE queue' = queue
  <2>1. PressIsLast' BY <1>1, <1>3, <1>10 DEF PatienceInv, PressIsLast
  <2>2. OneAtATime'
    <3>1. DOMAIN queue' = {} /\ Len(queue') <= 1 BY <1>8, <1>10
    <3> QED BY <1>1, <1>9, <3>1 DEF OneAtATime
  <2>3. QueueFits' BY <1>10 DEF PatienceInv, QueueFits
  <2>4. PlainTypes' BY <1>1, <1>10 DEF PatienceInv, PlainTypes
  <2> QED BY <1>2, <1>4, <1>5, <2>1, <2>2, <2>3, <2>4
<1>11. ASSUME thread = "call", thread' = "over",
              NEW e \in Posts[worker_op].ok \cup Posts[worker_op].failed, Post(e)
       PROVE  PressIsLast' /\ OneAtATime' /\ QueueFits' /\ PlainTypes'
  <2> DEFINE q == [ev |-> e, by |-> "worker", at |-> Nowhere]
  <2>1. worker_op \in Ops BY <1>2 DEF PatienceInv, SceneInv, WorkerFits
  <2>2. e \in Results BY <1>11, <2>1, PostsAreResults
  <2>3. q \in Event /\ FromProgram(q) /\ q.by = "worker" /\ queue' = Append(queue, q)
    BY <1>11, <2>2, EventsAreEvents DEF FromProgram, Post
  <2> HIDE DEF q
  <2>4. Awaited(q)' BY <1>1, <1>2, <1>7, <1>11, <2>3 DEF Awaited
  <2>5. Len(queue) < QueueBound
    <3>1. Len(queue) = 0 BY <1>8
    <3> QED BY <3>1, PressesAssumption
  <2>6. PressIsLast' /\ OneAtATime' /\ QueueFits' /\ queue' \in Seq(Event)
    BY <1>1, <1>3, <1>7, <1>8, <1>9, <2>3, <2>4, <2>5, PostKeeps
  <2>7. PlainTypes' BY <1>1, <2>6 DEF PatienceInv, PlainTypes
  <2> QED BY <2>6, <2>7
<1>12. \/ queue' = queue
       \/ /\ thread = "call" /\ thread' = "over"
          /\ \E e \in Posts[worker_op].ok \cup Posts[worker_op].failed : Post(e)
  BY ThreadSteps DEF PatienceInv, WorkerStep
<1> QED BY <1>2, <1>4, <1>5, <1>10, <1>11, <1>12


------------------------------------------------------------------------------
(* The invariant, and what it says of presses, results and the assertion.     *)

\* The application opens with the menu of the start scene and no worker.
LEMMA PatienceInvInit == Init => PatienceInv
<1> SUFFICES ASSUME Init PROVE PatienceInv OBVIOUS
<1>1. SceneInv BY SceneInvInit
<1>2. /\ mode = "running" /\ stack = <<"Start">> /\ lf = "off" /\ busy = NoEvent
      /\ queue = <<>> /\ protocol_id = "other" /\ protocol_id_next = "other"
      /\ screen = OpensWith("Start", "DebugRead", "other")
      /\ worker_op = "Idle" /\ worker_running = FALSE /\ thread = "none" /\ attempt = 0
      /\ stop_flag = FALSE
  BY DEF Init, WorkerInit
<1>3. Len(stack) = 1 /\ DOMAIN stack = {1} /\ Top = "Start" BY <1>2 DEF Top
<1>4. "Start" \in Scenes /\ "DebugRead" \in DebugOps /\ "Start" \notin WorkerScenes
  BY DEF Scenes, Menus, DebugOps, WorkerScenes
<1>5. ScreenFits BY <1>2, <1>3, <1>4, OpeningFits DEF ScreenFits
<1>6. WorkerSceneOnTop BY <1>2, <1>3, <1>4 DEF WorkerSceneOnTop, OnlyTop
<1>7. DOMAIN queue = {} /\ Len(queue) = 0 BY <1>2
<1>8. PressIsLast BY <1>2, <1>7 DEF PressIsLast
<1>9. OneAtATime BY <1>3, <1>4 DEF OneAtATime
<1>10. QueueFits BY <1>7, PressesAssumption DEF QueueFits
<1>11. ThreadFits BY <1>2 DEF ThreadFits
<1>12. PlainTypes
  <2>1. NoEvent \in Event BY DEF NoEvent, Event, Events, Nowhere, States
  <2>2. <<>> \in Seq(Event) BY EmptySeq
  <2> QED BY <1>2, <2>1, <2>2 DEF PlainTypes
<1> QED BY <1>1, <1>5, <1>6, <1>8, <1>9, <1>10, <1>11, <1>12 DEF PatienceInv

\* No step of a patient user's session breaks it.
LEMMA PatienceInvStep ==
    ASSUME Presses = 1, PatienceInv, [NextStep]_vars
    PROVE  PatienceInv'
<1>1. SceneInv' BY SceneInvStep DEF PatienceInv
<1>2. CASE TakeEvent
  <2>1. UNCHANGED <<mode, stack, screen, protocol_id, worker_op, worker_running, thread, attempt>>
        /\ stop_flag' \in BOOLEAN
    BY <1>2 DEF TakeEvent, Begin, PatienceInv, ThreadFits
  <2> QED BY <1>1, <1>2, <2>1, TakeEventKeeps, SceneUnchanged DEF PatienceInv
<1>3. CASE Handle BY <1>1, <1>3, HandleFits, HandleKeepsQueue DEF PatienceInv
<1>4. CASE PressBack
  <2>1. UNCHANGED <<mode, stack, screen, protocol_id, worker_op, worker_running, thread, attempt>>
        /\ stop_flag' \in BOOLEAN
    BY <1>4 DEF PressBack, Begin, PatienceInv, ThreadFits
  <2> QED BY <1>1, <1>4, <2>1, PressBackKeeps, SceneUnchanged DEF PatienceInv
<1>5. ASSUME NEW e \in Buttons, Press(e) PROVE PatienceInv'
  <2>1. UNCHANGED <<mode, stack, screen, protocol_id, worker_op, worker_running, thread, attempt>>
        /\ stop_flag' \in BOOLEAN
    BY <1>5 DEF Press, workerVars, PatienceInv, ThreadFits
  <2> QED BY <1>1, <1>5, <2>1, PressKeeps, SceneUnchanged DEF PatienceInv
<1>6. CASE PopupTimesOut BY <1>1, <1>6, PopupTimesOutKeeps DEF PatienceInv
<1>7. CASE LfReadDone
  <2>1. UNCHANGED <<mode, stack, screen, protocol_id, worker_op, worker_running, thread, attempt>>
        /\ stop_flag' \in BOOLEAN
    BY <1>7 DEF LfReadDone, workerVars, PatienceInv, ThreadFits
  <2> QED BY <1>1, <1>7, <2>1, LfReadDoneKeeps, SceneUnchanged DEF PatienceInv
<1>8. CASE WorkerStep BY <1>1, <1>8, WorkerStepKeeps DEF PatienceInv
<1>9. CASE UNCHANGED vars
  <2>1. /\ UNCHANGED <<mode, stack, screen, protocol_id, worker_op, worker_running, thread, attempt>>
        /\ UNCHANGED <<protocol_id_next, lf, busy, queue>> /\ stop_flag' \in BOOLEAN
    BY <1>9 DEF vars, appVars, workerVars, PatienceInv, ThreadFits
  <2>2. ScreenFits' /\ WorkerSceneOnTop' /\ ThreadFits' /\ Here' = Here /\ Top' = Top
    BY <2>1, SceneUnchanged
  <2>3. PressIsLast' BY <2>1, <2>2 DEF PatienceInv, PressIsLast
  <2>4. OneAtATime' BY <2>1, <2>2 DEF PatienceInv, OneAtATime, Awaited
  <2>5. QueueFits' /\ PlainTypes' BY <2>1 DEF PatienceInv, QueueFits, PlainTypes
  <2> QED BY <1>1, <2>2, <2>3, <2>4, <2>5 DEF PatienceInv
<1> QED BY <1>2, <1>3, <1>4, <1>5, <1>6, <1>7, <1>8, <1>9
        DEF NextStep, UiThread, User, Others, Stopped, Buttons

\* PatienceInv holds throughout a patient user's session.
THEOREM PatienceInvHolds == ASSUME Presses = 1 PROVE Spec => []PatienceInv
BY PatienceInvInit, PatienceInvStep, PTL DEF Spec

\* A press acts on the screen it was made on: no result, timeout or reader
\* event that comes between the press and its handler changes that screen.
THEOREM PressActsWhereMade ==
    ASSUME Presses = 1 PROVE Spec => []PressesActWhereMade
<1>1. PatienceInv => PressesActWhereMade
  BY DEF PatienceInv, PressIsLast, PressesActWhereMade, FromProgram, FromUser, NoEvent
<1> QED BY <1>1, PatienceInvHolds, PTL

\* The assertion of hitags_writer_worker_start that no worker runs never fails.
THEOREM WorkerStartsOnce == ASSUME Presses = 1 PROVE Spec => []NoDoubleStart
<1>1. PatienceInv => NoDoubleStart BY DEF PatienceInv, PlainTypes, NoDoubleStart
<1> QED BY <1>1, PatienceInvHolds, PTL

\* The trace that is saved is not one the worker is writing.
THEOREM SavedTraceIsStill == ASSUME Presses = 1 PROVE Spec => []TraceIsStill
<1>1. ASSUME PatienceInv, busy # NoEvent, busy.ev = Center PROVE ~worker_running
  <2>1. Center \notin Results /\ Center # Ev.PopupClosed /\ Center # Ev.LfReadDone
        /\ Center # Back
    BY EventNumbers
  <2>2. busy.ev \in screen.offers
    BY <1>1, <2>1 DEF PatienceInv, PressIsLast, FromProgram
  <2> QED BY <1>1, <2>2 DEF PatienceInv, ScreenFits
<1>2. PatienceInv => TraceIsStill BY <1>1 DEF TraceIsStill
<1> QED BY <1>2, PatienceInvHolds, PTL

\* A result is handled while the run that posted it is the last one started.
THEOREM ResultEndsItsRun == ASSUME Presses = 1 PROVE Spec => []ResultOfThisRun
<1>1. ASSUME PatienceInv, busy.by = "worker", worker_running PROVE thread = "over"
  <2>1. Top \in WorkerScenes BY <1>1, RunsInWorkerScene DEF PatienceInv
  <2>2. FromProgram(busy)
    BY <1>1 DEF PatienceInv, PressIsLast, FromUser, NoEvent
  <2> QED BY <1>1, <2>1, <2>2 DEF PatienceInv, OneAtATime, Awaited
<1>2. PatienceInv => ResultOfThisRun BY <1>1 DEF ResultOfThisRun
<1> QED BY <1>2, PatienceInvHolds, PTL

\* The types, the bounds of stack, queue and attempts among them.
THEOREM AppTypes == ASSUME Presses = 1 PROVE Spec => []TypeOK
<1>1. ASSUME PatienceInv PROVE TypeOK
  <2>1. /\ stack \in Seq(Scenes) /\ Len(stack) \in 1..7 /\ debug_tool \in DebugOps
    BY <1>1, DescendsFacts DEF PatienceInv, SceneInv, Descends
  <2>2. /\ mode \in {"running", "crashed", "exited"} /\ screen \in Screen
        /\ protocol_id \in {"EM4100", "other"} /\ protocol_id_next \in {"EM4100", "other"}
        /\ lf \in {"off", "reading"} /\ busy \in Event /\ queue \in Seq(Event)
    BY <1>1 DEF PatienceInv, PlainTypes, ScreenFits, Fits
  <2>3. Len(queue) <= QueueBound + Presses + 1
    <3>1. Len(queue) \in Nat BY <2>2, LenProperties
    <3>2. Len(queue) > QueueBound => Len(queue) = QueueBound + 1
      BY <1>1 DEF PatienceInv, QueueFits
    <3> QED BY <3>1, <3>2, PressesAssumption
  <2>4. worker_op \in OpOrIdle
    BY <1>1 DEF PatienceInv, SceneInv, WorkerFits, ThreadFits, OpOrIdle
  <2>5. worker_running \in BOOLEAN /\ stop_flag \in BOOLEAN
        /\ thread \in {"none", "test", "call", "wait", "over"}
    BY <1>1 DEF PatienceInv, ThreadFits
  <2>6. attempt \in 0..Attempts
    <3>1. MaxAttempts(worker_op) \in 1..Attempts BY AttemptsAssumption DEF MaxAttempts
    <3>2. attempt \in 1..MaxAttempts(worker_op) \/ attempt = 0
      BY <1>1 DEF PatienceInv, ThreadFits
    <3> QED BY <3>1, <3>2, AttemptsAssumption
  <2> QED BY <2>1, <2>2, <2>3, <2>4, <2>5, <2>6 DEF TypeOK
<1> QED BY <1>1, PatienceInvHolds, PTL

==============================================================================
