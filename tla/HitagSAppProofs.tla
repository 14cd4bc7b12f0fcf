--------------------------- MODULE HitagSAppProofs ---------------------------
(* Safety theorems about scenes, worker and LF reader that hold however fast  *)
(* the user presses: for any number of waiting presses and any queue.         *)
EXTENDS HitagSApp, SequenceTheorems, TLAPS

\* How deep in the application a scene is. Every change of scene that pushes
\* one goes down, the file browser's short cut to write_confirm too.
Depth == [scene \in Scenes |->
    CASE scene = "Start"                       -> 0
      [] scene \in Menus \ {"Start"}           -> 1
      [] scene = "ReadEm4100Success"           -> 3
      [] scene = "WriteConfirm"                -> 4
      [] scene = "Write"                       -> 5
      [] scene \in {"WriteSuccess", "WriteFail"} -> 6
      [] OTHER                                 -> 2]

\* A stack of scenes that start is at the bottom of and that goes down.
Descends(stk) ==
    /\ stk \in Seq(Scenes) /\ Len(stk) # 0
    /\ stk[1] = "Start"
    /\ \A i \in DOMAIN stk : Depth[stk[i]] >= i - 1
    /\ \A i, j \in DOMAIN stk : i < j => Depth[stk[i]] < Depth[stk[j]]

\* A worker that runs does what the scene on top starts, behind a screen that
\* is past its questions.
Asking == {"Input", "Confirm", "RiskConfirm"}
WorkerFits ==
    worker_running => /\ worker_op \in Ops
                      /\ worker_op = SceneOp(Top, debug_tool)
                      /\ screen.state \notin Asking

SceneInv ==
    /\ Descends(stack)
    /\ debug_tool \in DebugOps
    /\ WorkerFits
    /\ OneReader

------------------------------------------------------------------------------
(* What every handler keeps to.                                               *)

\* A reaction changes to a deeper scene, goes back, or stays.
Goes(r, scene) ==
    \/ r.go \in {"stay", "previous", "start"}
    \/ r.go = "next" /\ r.to \in Scenes /\ Depth[r.to] > Depth[scene]

\* An operation is only started by staying, is the one of the scene, and hides
\* the question.
Starts(r, scene, tool) ==
    r.op # "Idle" => /\ r.go = "stay"
                     /\ r.op = SceneOp(scene, tool) /\ r.op \in Ops
                     /\ r.show.state \notin Asking

\* A question is only asked after a question.
Shows(r, s) == r.go = "stay" /\ r.show.state \in Asking => s.state \in Asking

Keeps(r, scene, tool, s) == Goes(r, scene) /\ Starts(r, scene, tool) /\ Shows(r, s)

\* The reactions handlers are built from, field by field.
LEMMA StayKeeps ==
    ASSUME NEW scene, NEW tool, NEW s, NEW t, t.state \in Asking => s.state \in Asking
    PROVE  Keeps(Stay(t), scene, tool, s) /\ Keeps(Result(t), scene, tool, s)
BY SMT DEF Keeps, Goes, Starts, Shows, Stay, Result

\* Steps back keep to the rules in every scene.
LEMMA BackKeeps ==
    ASSUME NEW scene, NEW tool, NEW s
    PROVE  /\ Keeps(Previous, scene, tool, s)
           /\ Keeps(Stopping(Previous), scene, tool, s)
           /\ Keeps(BackToStart, scene, tool, s)
BY SMT DEF Keeps, Goes, Starts, Shows, Stay, Previous, BackToStart, Stopping

\* The run of a scene's operation keeps to the rules.
LEMMA RunKeeps ==
    ASSUME NEW scene, NEW tool, NEW s, NEW st, st \notin Asking,
           SceneOp(scene, tool) \in Ops
    PROVE  Keeps(Run(st, SceneOp(scene, tool)), scene, tool, s)
BY SMT DEF Keeps, Goes, Starts, Shows, Stay, Run, Popup, View

\* A change to a deeper scene keeps to the rules.
LEMMA NextKeeps ==
    ASSUME NEW scene, NEW tool, NEW s, NEW to \in Scenes, Depth[to] > Depth[scene]
    PROVE  Keeps(Next(to), scene, tool, s) /\ Keeps(Stopping(Next(to)), scene, tool, s)
BY SMT DEF Keeps, Goes, Starts, Shows, Stay, Next, Stopping

\* Depth, scene by scene.
LEMMA Depths ==
    /\ Depth \in [Scenes -> Nat]
    /\ Depth["Start"] = 0
    /\ \A m \in Menus \ {"Start"} : Depth[m] = 1
    /\ \A w \in WorkerScenes \ {"Write"} : Depth[w] = 2
    /\ Depth["InputId"] = 2 /\ Depth["SelectFile"] = 2
    /\ Depth["ReadEm4100"] = 2 /\ Depth["About"] = 2
    /\ Depth["ReadEm4100Success"] = 3 /\ Depth["WriteConfirm"] = 4
    /\ Depth["Write"] = 5 /\ Depth["WriteSuccess"] = 6 /\ Depth["WriteFail"] = 6
    /\ \A scene \in Scenes : Depth[scene] <= 6
BY SMT DEF Depth, Scenes, Menus, WorkerScenes

\* The operations of the scenes are operations of the worker.
LEMMA SceneOps ==
    ASSUME NEW tool \in DebugOps
    PROVE  /\ \A scene \in WorkerScenes : SceneOp(scene, tool) \in Ops
           /\ \A scene \in Scenes \ WorkerScenes : SceneOp(scene, tool) = "Idle"
           /\ "Idle" \notin Ops
BY SMT DEF SceneOp, WorkerScenes, Ops, RetriedOps, DebugOps, Scenes, Menus

\* The lines of the tools menu, whose middle ones all open the debug scene.
LEMMA ToolsLines ==
    /\ ToolsMenuLines \in Seq({"WipeTag", "HtuProbe", "DebugRead", "About"})
    /\ Len(ToolsMenuLines) = 11
<1> DEFINE S == {"WipeTag", "HtuProbe", "DebugRead", "About"}
           a == <<"WipeTag", "HtuProbe">>
           b == [i \in 1..8 |-> "DebugRead"]
           c == <<"About">>
<1>1. a \in Seq(S) /\ Len(a) = 2 OBVIOUS
<1>2. b \in Seq(S) /\ Len(b) = 8 OBVIOUS
<1>3. c \in Seq(S) /\ Len(c) = 1 OBVIOUS
<1> HIDE DEF S, a, b, c
<1>4. \A s, t \in Seq(S) : s \o t \in Seq(S) /\ Len(s \o t) = Len(s) + Len(t)
  BY ConcatProperties, Zenon
<1>5. a \o b \in Seq(S) /\ Len(a \o b) = Len(a) + Len(b) BY <1>1, <1>2, <1>4, Zenon
<1>6. /\ (a \o b) \o c \in Seq(S)
      /\ Len((a \o b) \o c) = (Len(a) + Len(b)) + Len(c)
  BY <1>3, <1>4, <1>5, Zenon
<1>7. (Len(a) + Len(b)) + Len(c) = 11 BY <1>1, <1>2, <1>3
<1> QED BY <1>6, <1>7, Zenon DEF ToolsMenuLines, S, a, b, c

\* Every line of a menu is a deeper scene.
LEMMA MenuLines ==
    ASSUME NEW menu \in Menus, NEW i \in DOMAIN Lines[menu]
    PROVE  Lines[menu][i] \in Scenes /\ Depth[Lines[menu][i]] > Depth[menu]
<1>1. CASE menu = "Start"
  <2>1. Lines[menu] = StartLines BY <1>1 DEF Lines
  <2>2. StartLines[i] \in Menus \ {"Start"} BY <2>1 DEF StartLines, Menus
  <2>3. Depth[StartLines[i]] = 1 /\ Depth[menu] = 0 BY <1>1, <2>2, Depths
  <2>4. StartLines[i] \in Scenes BY <2>2 DEF Scenes
  <2> QED BY <2>1, <2>3, <2>4, SMT
<1>2. CASE menu # "Start"
  <2>1. Depth[menu] = 1 BY <1>2, Depths
  <2>2. CASE menu = "ToolsMenu"
    <3>1. Lines[menu] = ToolsMenuLines BY <2>2 DEF Lines
    <3>2. ToolsMenuLines[i] \in {"WipeTag", "HtuProbe", "DebugRead", "About"}
      BY <3>1, ToolsLines, ElementOfSeq, LenProperties
    <3> QED BY <2>1, <3>1, <3>2, Depths, SMT DEF Scenes, WorkerScenes
  <2>3. CASE menu # "ToolsMenu"
    <3>1. Lines[menu][i] \in {"ReadEm4100", "ReadTag", "ReadUid", "InputId", "SelectFile",
                              "WriteUid", "FullDump", "LoadDump"}
      BY <1>2, <2>3, SMT DEF Lines, ReadMenuLines, WriteMenuLines, DumpMenuLines, Menus
    <3> QED BY <2>1, <3>1, Depths, SMT DEF Scenes, WorkerScenes
  <2> QED BY <2>2, <2>3
<1> QED BY <1>1, <1>2

\* The state of a screen built for it.
LEMMA ScreenStates ==
    \A st, of : View(st, of).state = st /\ Popup(st).state = st /\ TimedPopup(st).state = st
BY SMT DEF View, Popup, TimedPopup

\* Every handler, whatever its screen and the event, keeps to the rules.
LEMMA HandlersKeep ==
    ASSUME NEW scene \in Scenes, NEW tool \in DebugOps, NEW protocol, NEW s, NEW e,
           NEW r \in OnEvent(scene, tool, protocol, s, e)
    PROVE  Keeps(r, scene, tool, s)
<1> DEFINE K(x) == Keeps(x, scene, tool, s)
<1>1. \A t : (t.state \in Asking => s.state \in Asking) => K(Stay(t)) /\ K(Result(t))
  BY StayKeeps
<1>2. K(Previous) /\ K(Stopping(Previous)) /\ K(BackToStart) BY BackKeeps
<1>3. \A to \in Scenes : Depth[to] > Depth[scene] => K(Next(to)) /\ K(Stopping(Next(to)))
  BY NextKeeps
<1>4. \A st : st \notin Asking /\ scene \in WorkerScenes => K(Run(st, SceneOp(scene, tool)))
  BY RunKeeps, SceneOps
<1>5. K(Stay(s)) /\ K(Default(s, e)) BY <1>1, <1>2 DEF Default
<1>6. \A st, of : st \notin Asking => /\ K(Stay(View(st, of))) /\ K(Result(View(st, of)))
                                      /\ K(Result(TimedPopup(st)))
  BY <1>1, ScreenStates
<1> HIDE DEF K
<1>10. CASE scene \in Menus
  <2>1. r = MenuOnEvent(scene, s, e) BY <1>10, SMT DEF OnEvent, Menus
  <2> QED BY <2>1, <1>3, <1>5, <1>10, MenuLines DEF MenuOnEvent, K
<1>11. CASE scene = "InputId"
  <2>1. r = InputIdOnEvent(s, e) BY <1>11, SMT DEF OnEvent, Menus
  <2>2. Depth["WriteConfirm"] > Depth[scene] /\ "WriteConfirm" \in Scenes
    BY <1>11, Depths DEF Scenes
  <2> QED BY <2>1, <2>2, <1>3, <1>5 DEF InputIdOnEvent, K
<1>12. CASE scene = "WriteConfirm"
  <2>1. r = WriteConfirmOnEvent(s, e) BY <1>12, SMT DEF OnEvent, Menus
  <2>2. Depth["Write"] > Depth[scene] /\ "Write" \in Scenes
    BY <1>12, Depths DEF Scenes, WorkerScenes
  <2> QED BY <2>1, <2>2, <1>2, <1>3, <1>5, SMT DEF WriteConfirmOnEvent, K
<1>13. CASE scene = "Write"
  <2>1. r = WriteOnEvent(s, e) BY <1>13, SMT DEF OnEvent, Menus
  <2>2. /\ Depth["WriteSuccess"] > Depth[scene] /\ "WriteSuccess" \in Scenes
        /\ Depth["WriteFail"] > Depth[scene] /\ "WriteFail" \in Scenes
    BY <1>13, Depths DEF Scenes
  <2> QED BY <2>1, <2>2, <1>2, <1>3, <1>5, SMT DEF WriteOnEvent, K
<1>14. CASE scene = "WriteSuccess"
  <2>1. r = WriteSuccessOnEvent(s, e) BY <1>14, SMT DEF OnEvent, Menus
  <2> QED BY <2>1, <1>2, <1>5, SMT DEF WriteSuccessOnEvent, K
<1>15. CASE scene = "WriteFail"
  <2>1. r = WriteFailOnEvent(s, e) BY <1>15, SMT DEF OnEvent, Menus
  <2> QED BY <2>1, <1>2, <1>5, SMT DEF WriteFailOnEvent, K
<1>16. CASE scene = "ReadEm4100"
  <2>1. r = ReadEm4100OnEvent(s, e) BY <1>16, SMT DEF OnEvent, Menus
  <2>2. Depth["ReadEm4100Success"] > Depth[scene] /\ "ReadEm4100Success" \in Scenes
    BY <1>16, Depths DEF Scenes
  <2> QED BY <2>1, <2>2, <1>2, <1>3, <1>5, SMT DEF ReadEm4100OnEvent, K
<1>17. CASE scene = "ReadEm4100Success"
  <2>1. r = ReadEm4100SuccessOnEvent(protocol, s, e) BY <1>17, SMT DEF OnEvent, Menus
  <2>2. Depth["WriteConfirm"] > Depth[scene] /\ "WriteConfirm" \in Scenes
    BY <1>17, Depths DEF Scenes
  <2> QED BY <2>1, <2>2, <1>2, <1>3, <1>5, SMT DEF ReadEm4100SuccessOnEvent, K
<1>18. CASE scene \in {"ReadTag", "ReadUid"}
  <2>1. /\ r = ReadOnEvent(SceneOp(scene, tool), s, e)
        /\ scene \in WorkerScenes
    BY <1>18, SMT DEF OnEvent, Menus, WorkerScenes, SceneOp, ReadTagOnEvent, ReadUidOnEvent
  <2>2. "None" \notin Asking BY DEF Asking
  <2> QED BY <2>1, <2>2, <1>2, <1>4, <1>5, <1>6, SMT DEF ReadOnEvent, K
<1>19. CASE scene = "HtuProbe"
  <2>1. /\ r = HtuProbeOnEvent(s, e) /\ SceneOp(scene, tool) = "HtuProbe"
        /\ scene \in WorkerScenes
    BY <1>19, SMT DEF OnEvent, Menus, SceneOp, WorkerScenes
  <2>2. "Success" \notin Asking /\ "Scanning" \notin Asking BY DEF Asking
  <2>3. K(Run("Scanning", "HtuProbe")) BY <2>1, <2>2, <1>4
  <2> QED BY <2>1, <2>2, <2>3, <1>2, <1>5, <1>6, SMT DEF HtuProbeOnEvent, K
<1>20. ASSUME NEW op, NEW ok, NEW failed, K(Run("Writing", op))
       PROVE  K(WritingOnEvent(op, ok, failed, s, e))
  <2>1. "Writing" \notin Asking BY DEF Asking
  <2> QED BY <2>1, <1>2, <1>5, <1>6, <1>20, SMT DEF WritingOnEvent
<1>21. CASE scene = "WriteUid"
  <2>1. /\ r = WriteUidOnEvent(s, e) /\ SceneOp(scene, tool) = "WriteUid"
        /\ scene \in WorkerScenes
    BY <1>21, SMT DEF OnEvent, Menus, SceneOp, WorkerScenes
  <2>2. K(Run("Writing", "WriteUid")) BY <2>1, <1>4 DEF Asking
  <2>3. /\ s.state = "Input" => K(Stay(View("Confirm", {Left, Right})))
        /\ s.state = "Confirm" => K(Stay(View("Input", {Ev.Next})))
    BY <1>1, ScreenStates DEF Asking
  <2>4. K(WritingOnEvent("WriteUid", Ev.WriteUidOk, Ev.WriteUidFailed, s, e))
    BY <2>2, <1>20
  <2>5. K(WriteUidOnEvent(s, e))
    BY <2>2, <2>3, <2>4, <1>2, <1>5, SMT DEF WriteUidOnEvent
  <2> QED BY <2>1, <2>5 DEF K
<1>22. CASE scene \in {"LoadDump", "WipeTag"}
  <2> DEFINE op == SceneOp(scene, tool)
  <2>1. /\ \E ok, failed : r = ConfirmedOnEvent(op, ok, failed, s, e)
        /\ scene \in WorkerScenes
    BY <1>22, SMT
    DEF OnEvent, Menus, SceneOp, WorkerScenes, LoadDumpOnEvent, WipeTagOnEvent
  <2>2. K(Run("Writing", op)) BY <2>1, <1>4 DEF Asking
  <2> HIDE DEF op
  <2> QED BY <2>1, <2>2, <1>2, <1>5, <1>20, SMT DEF ConfirmedOnEvent, K
<1>23. \A x \in Saves(s) : K(x)
  <2>1. K(Stay(TimedPopup(s.state))) BY <1>1, ScreenStates
  <2> QED BY <2>1, <1>5 DEF Saves
<1>24. \A of : K(Stay(View(s.state, of))) BY <1>1, ScreenStates
<1>25. CASE scene = "FullDump"
  <2>1. /\ r \in FullDumpOnEvent(s, e) /\ SceneOp(scene, tool) = "FullDump"
        /\ scene \in WorkerScenes
    BY <1>25, SMT DEF OnEvent, Menus, SceneOp, WorkerScenes
  <2>2. K(Run("Scanning", "FullDump")) BY <2>1, <1>4 DEF Asking
  <2>3. "Success" \notin Asking /\ "Failed" \notin Asking BY DEF Asking
  <2> QED BY <2>1, <2>2, <2>3, <1>2, <1>5, <1>6, <1>23, <1>24, SMT DEF FullDumpOnEvent, K
<1>26. CASE scene = "DebugRead"
  <2>1. /\ r \in DebugReadOnEvent(tool, s, e) /\ SceneOp(scene, tool) = tool
        /\ scene \in WorkerScenes
    BY <1>26, SMT DEF OnEvent, Menus, SceneOp, WorkerScenes
  <2>2. K(Run("Scanning", tool)) BY <2>1, <1>4 DEF Asking
  <2>3. \A of : s.state = "Confirm" => K(Stay(View("RiskConfirm", of)))
    BY <1>1, ScreenStates DEF Asking
  <2>4. "Success" \notin Asking /\ "Failed" \notin Asking /\ "Partial" \notin Asking
    BY DEF Asking
  <2> QED BY <2>1, <2>2, <2>3, <2>4, <1>2, <1>5, <1>6, <1>23, <1>24, SMT
          DEF DebugReadOnEvent, K
<1>27. CASE scene \in {"SelectFile", "About"}
  <2>1. r = Default(s, e) BY <1>27, SMT DEF OnEvent, Menus
  <2> QED BY <2>1, <1>5 DEF K
<1> QED
  BY <1>10, <1>11, <1>12, <1>13, <1>14, <1>15, <1>16, <1>17, <1>18, <1>19, <1>21, <1>22,
     <1>25, <1>26, <1>27 DEF Scenes, WorkerScenes

------------------------------------------------------------------------------
(* The stack.                                                                 *)

\* Dropping scenes from the top keeps a stack descending.
LEMMA PrefixDescends ==
    ASSUME NEW stk, Descends(stk), NEW n \in 1..Len(stk)
    PROVE  /\ Descends(SubSeq(stk, 1, n))
           /\ SubSeq(stk, 1, n)[Len(SubSeq(stk, 1, n))] = stk[n]
<1> DEFINE t == SubSeq(stk, 1, n)
<1>1. stk \in Seq(Scenes) /\ Len(stk) \in Nat /\ DOMAIN stk = 1..Len(stk)
  BY LenProperties DEF Descends
<1>2. \A i \in 1..n : stk[i] \in Scenes BY <1>1
<1>3. t \in Seq(Scenes) /\ Len(t) = n /\ \A i \in 1..n : t[i] = stk[i]
  BY <1>1, <1>2, SubSeqProperties
<1> HIDE DEF t
<1>4. DOMAIN t = 1..n /\ 1 \in 1..n /\ n \in 1..n /\ 1..n \subseteq DOMAIN stk
  BY <1>1, <1>3
<1>5. Descends(t) BY <1>1, <1>3, <1>4 DEF Descends
<1> QED BY <1>3, <1>4, <1>5 DEF t

\* So does adding a deeper one.
LEMMA AppendDescends ==
    ASSUME NEW stk, Descends(stk), NEW to \in Scenes, Depth[to] > Depth[stk[Len(stk)]]
    PROVE  Descends(Append(stk, to)) /\ Append(stk, to)[Len(Append(stk, to))] = to
<1> DEFINE t == Append(stk, to)
<1>1. stk \in Seq(Scenes) /\ Len(stk) \in Nat \ {0} /\ DOMAIN stk = 1..Len(stk)
  BY LenProperties DEF Descends
<1>2. /\ t \in Seq(Scenes) /\ Len(t) = Len(stk) + 1
      /\ \A i \in 1..Len(stk) : t[i] = stk[i]
      /\ t[Len(stk) + 1] = to
  BY <1>1, AppendProperties
<1> HIDE DEF t
<1>3. DOMAIN t = 1..(Len(stk) + 1) BY <1>2
<1>4. /\ \A i \in 1..Len(stk) : Depth[stk[i]] >= i - 1 /\ Depth[stk[i]] \in Nat
      /\ \A i, j \in 1..Len(stk) : i < j => Depth[stk[i]] < Depth[stk[j]]
      /\ Depth[to] \in Nat
  <2>1. \A i \in 1..Len(stk) : stk[i] \in Scenes BY <1>1
  <2>2. \A i \in 1..Len(stk) : Depth[stk[i]] \in Nat BY <2>1, Depths
  <2> QED BY <1>1, <2>2, Depths DEF Descends
<1>5. \A i \in 1..Len(stk) : Depth[stk[i]] < Depth[to]
  BY <1>1, <1>4
<1>6. Depth[to] >= Len(stk) BY <1>1, <1>4
<1>7. \A i \in DOMAIN t : Depth[t[i]] >= i - 1 BY <1>1, <1>2, <1>3, <1>4, <1>6
<1>8. \A i, j \in DOMAIN t : i < j => Depth[t[i]] < Depth[t[j]]
  BY <1>1, <1>2, <1>3, <1>4, <1>5
<1>9. t[1] = "Start" BY <1>1, <1>2 DEF Descends
<1> QED BY <1>1, <1>2, <1>7, <1>8, <1>9 DEF Descends, t

\* A descending stack has at most seven scenes, none of them twice, and only
\* start at its bottom.
LEMMA DescendsFacts ==
    ASSUME NEW stk, Descends(stk)
    PROVE  /\ Len(stk) \in 1..7 /\ DOMAIN stk = 1..Len(stk)
           /\ \A i \in DOMAIN stk : stk[i] \in Scenes
           /\ Len(stk) \in DOMAIN stk /\ stk[Len(stk)] \in Scenes
           /\ \A i, j \in DOMAIN stk : stk[i] = stk[j] => i = j
           /\ \A i \in DOMAIN stk : stk[i] = "Start" => i = 1
<1>1. stk \in Seq(Scenes) /\ Len(stk) \in Nat \ {0} /\ DOMAIN stk = 1..Len(stk)
  BY LenProperties DEF Descends
<1>2. \A i \in DOMAIN stk : stk[i] \in Scenes BY <1>1
<1>3. \A i \in DOMAIN stk : Depth[stk[i]] \in Nat /\ Depth[stk[i]] <= 6
  BY <1>2, Depths
<1>4. \A i, j \in DOMAIN stk : stk[i] = stk[j] => i = j
  BY <1>1, <1>3 DEF Descends
<1>5. Len(stk) - 1 <= 6
  <2>1. Len(stk) \in DOMAIN stk BY <1>1
  <2>2. Depth[stk[Len(stk)]] >= Len(stk) - 1 BY <2>1 DEF Descends
  <2> QED BY <1>1, <1>3, <2>1, <2>2
<1>6. \A i \in DOMAIN stk : stk[i] = "Start" => i = 1 BY <1>1, <1>4 DEF Descends
<1>7. \A n \in Nat \ {0} : n - 1 <= 6 => n \in 1..7 OBVIOUS
<1>8. Len(stk) \in 1..7 BY <1>1, <1>5, <1>7, Zenon
<1>9. Len(stk) \in DOMAIN stk BY <1>1
<1> QED BY <1>1, <1>2, <1>4, <1>6, <1>8, <1>9

\* What a change of scene does to the stack, before the file browser.
LEMMA NewStackDescends ==
    ASSUME Descends(stack), NEW r, Goes(r, Top), Leaves(r), ~Exits(r)
    PROVE  Descends(NewStack(r))
<1>1. Len(stack) \in 1..7 /\ DOMAIN stack = 1..Len(stack) BY DescendsFacts
<1>2. CASE r.go = "next"
  BY <1>2, AppendDescends DEF NewStack, Goes, Top
<1>3. CASE r.go = "previous"
  <2>1. Len(stack) - 1 \in 1..Len(stack) BY <1>1, <1>3 DEF Exits
  <2> QED BY <1>3, <2>1, PrefixDescends DEF NewStack, Below
<1>4. CASE r.go = "start"
  <2>1. \E i \in DOMAIN stack : stack[i] = "Start" BY <1>1 DEF Descends
  <2>2. (CHOOSE i \in DOMAIN stack : stack[i] = "Start") \in 1..Len(stack) BY <1>1, <2>1
  <2>3. NewStack(r) = SubSeq(stack, 1, CHOOSE i \in DOMAIN stack : stack[i] = "Start")
    BY <1>4 DEF NewStack
  <2> QED BY <2>2, <2>3, PrefixDescends
<1> QED BY <1>2, <1>3, <1>4 DEF Goes, Leaves

\* What the file browser does to it.
LEMMA LandingsDescend ==
    ASSUME NEW stk, Descends(stk), NEW t \in Landings(stk)
    PROVE  Descends(t)
<1> DEFINE top == stk[Len(stk)]
<1>1. Len(stk) \in 1..7 /\ DOMAIN stk = 1..Len(stk) /\ stk[1] = "Start"
  BY DescendsFacts DEF Descends
<1>2. top # "Start" => Descends(Below(stk))
  <2> SUFFICES ASSUME top # "Start" PROVE Descends(Below(stk)) OBVIOUS
  <2>1. Len(stk) - 1 \in 1..Len(stk) BY <1>1
  <2> QED BY <2>1, PrefixDescends DEF Below
<1>3. CASE top = "SelectFile"
  <2>1. Descends(Append(stk, "WriteConfirm"))
    <3>1. "WriteConfirm" \in Scenes /\ Depth["WriteConfirm"] > Depth[top]
      BY <1>3, Depths DEF Scenes
    <3> QED BY <3>1, AppendDescends
  <2>2. t \in SelectFileLandings(stk) BY <1>3 DEF Landings
  <2> QED BY <1>2, <1>3, <2>1, <2>2 DEF SelectFileLandings
<1>4. CASE top = "LoadDump"
  <2>1. t \in LoadDumpLandings(stk) BY <1>4 DEF Landings
  <2> QED BY <1>2, <1>4, <2>1 DEF LoadDumpLandings
<1>5. CASE top \notin {"SelectFile", "LoadDump"}
  <2>1. t = stk BY <1>5 DEF Landings
  <2> QED BY <2>1
<1> QED BY <1>3, <1>4, <1>5

------------------------------------------------------------------------------
(* The steps of the application.                                              *)

\* The diagnostic the tools menu selects is one, and nothing else selects one.
LEMMA ToolTypes ==
    ASSUME NEW scene, NEW e, NEW tool \in DebugOps
    PROVE  /\ ToolAfter(scene, e, tool) \in DebugOps
           /\ scene # "ToolsMenu" => ToolAfter(scene, e, tool) = tool
<1> DEFINE a == <<"DebugRead">>
           b == [i \in 1..6 |-> "Diagnostic"]
           c == <<"WriteStimulusVerify">>
<1>1. a \in Seq(DebugOps) /\ Len(a) = 1 BY DEF DebugOps
<1>2. b \in Seq(DebugOps) /\ Len(b) = 6 BY DEF DebugOps
<1>3. c \in Seq(DebugOps) /\ Len(c) = 1 BY DEF DebugOps
<1> HIDE DEF a, b, c
<1>4. \A s, t \in Seq(DebugOps) : s \o t \in Seq(DebugOps) /\ Len(s \o t) = Len(s) + Len(t)
  BY ConcatProperties, Zenon
<1>5. a \o b \in Seq(DebugOps) /\ Len(a \o b) = Len(a) + Len(b) BY <1>1, <1>2, <1>4, Zenon
<1>6. /\ (a \o b) \o c \in Seq(DebugOps)
      /\ Len((a \o b) \o c) = (Len(a) + Len(b)) + Len(c)
  BY <1>3, <1>4, <1>5, Zenon
<1>7. (Len(a) + Len(b)) + Len(c) = 8 BY <1>1, <1>2, <1>3
<1>8. ToolOfLine \in Seq(DebugOps) /\ Len(ToolOfLine) = 8
  BY <1>6, <1>7, Zenon DEF ToolOfLine, a, b, c
<1>9. \A i \in 1..8 : ToolOfLine[i] \in DebugOps
  BY <1>8, ElementOfSeq, Zenon
<1>10. e \in 2..9 => ToolOfLine[e - 1] \in DebugOps BY <1>9
<1> QED BY <1>10 DEF ToolAfter

\* A scene that starts its operation at once is a worker scene and opens past
\* its questions.
LEMMA Opening ==
    ASSUME NEW top \in Scenes, NEW tool \in DebugOps, NEW protocol,
           StartsWith(top, tool) # "Idle"
    PROVE  /\ StartsWith(top, tool) = SceneOp(top, tool)
           /\ StartsWith(top, tool) \in Ops /\ top \in WorkerScenes
           /\ OpensWith(top, tool, protocol).state \notin Asking
<1>1. ~AsksFirst(top, tool) /\ SceneOp(top, tool) # "Idle" BY DEF StartsWith
<1>2. top \in WorkerScenes /\ SceneOp(top, tool) \in Ops BY <1>1, SceneOps
<1>3. top \in {"Write", "ReadTag", "ReadUid"} =>
          OpensWith(top, tool, protocol) = Popup("None")
  BY SMT DEF OpensWith, Menus
<1>4. top \in {"FullDump", "HtuProbe", "DebugRead"} =>
          OpensWith(top, tool, protocol) = Popup("Scanning")
  BY <1>1, SMT DEF OpensWith, Menus, AsksFirst
<1>5. top \in {"Write", "ReadTag", "ReadUid", "FullDump", "HtuProbe", "DebugRead"}
  BY <1>1, <1>2 DEF AsksFirst, WorkerScenes
<1>6. OpensWith(top, tool, protocol).state \in {"None", "Scanning"}
  BY <1>3, <1>4, <1>5, ScreenStates
<1> QED BY <1>1, <1>2, <1>6 DEF StartsWith, Asking

\* A worker only runs in a worker scene, which then neither selects a
\* diagnostic nor reads with the LF reader.
LEMMA RunsInWorkerScene ==
    ASSUME SceneInv, worker_running
    PROVE  Top \in WorkerScenes /\ lf # "reading"
<1>1. Top \in Scenes BY DescendsFacts DEF SceneInv, Top
<1>2. SceneOp(Top, debug_tool) # "Idle" BY SceneOps DEF SceneInv, WorkerFits
<1> QED BY <1>1, <1>2, SceneOps DEF SceneInv, OneReader

\* The handler of an event keeps the invariant.
LEMMA HandleKeepsSceneInv ==
    ASSUME SceneInv, Handle
    PROVE  SceneInv'
<1> DEFINE tool == ToolAfter(Top, busy.ev, debug_tool)
           protocol == IF Top = "ReadEm4100" /\ busy.ev = Ev.LfReadDone
                       THEN protocol_id_next ELSE protocol_id
<1> PICK r \in Reactions(busy.ev) :
        /\ React(r, tool, protocol)
        /\ debug_tool' = tool
  BY DEF Handle
<1>1. Descends(stack) /\ debug_tool \in DebugOps /\ Top \in Scenes
  BY DescendsFacts DEF SceneInv, Top
<1>2. tool \in DebugOps /\ (Top # "ToolsMenu" => tool = debug_tool) BY <1>1, ToolTypes
<1>3. Keeps(r, Top, debug_tool, screen) BY <1>1, HandlersKeep DEF Reactions
<1>4. worker_running => Top \in WorkerScenes /\ lf # "reading" /\ tool = debug_tool
  BY <1>2, RunsInWorkerScene DEF WorkerScenes
<1>5. "ReadEm4100" \notin WorkerScenes /\ "ToolsMenu" \notin WorkerScenes
  BY DEF WorkerScenes
<1>6. SceneInv => OneReader BY DEF SceneInv
<1> HIDE DEF tool, protocol
<1>10. CASE ~Leaves(r) /\ Settle(stack, r.show, Stops(r), r.op) /\ UNCHANGED lf
  <2>1. stack' = stack /\ Top' = Top BY <1>10 DEF Settle, Top
  <2>2. CASE r.op # "Idle" /\ worker_running /\ ~Stops(r)
    <3>1. screen' = screen /\ UNCHANGED workerVars BY <1>10, <2>2 DEF Settle
    <3> QED BY <1>1, <1>2, <1>4, <1>10, <2>1, <2>2, <3>1
            DEF SceneInv, WorkerFits, OneReader, workerVars
  <2>3. CASE ~(r.op # "Idle" /\ worker_running /\ ~Stops(r)) /\ r.op # "Idle"
    <3>1. screen' = r.show /\ WorkerStart(r.op) BY <1>10, <2>3 DEF Settle, WorkerAfter
    <3>2. r.op \in Ops /\ r.op = SceneOp(Top, debug_tool) /\ r.show.state \notin Asking
      BY <1>3, <2>3 DEF Keeps, Starts
    <3>3. Top \in WorkerScenes BY <1>1, <2>3, <3>2, SceneOps
    <3>4. tool = debug_tool BY <1>2, <1>5, <3>3
    <3>5. lf # "reading" BY <1>5, <1>6, <3>3 DEF OneReader
    <3> QED BY <1>1, <1>2, <1>10, <2>1, <3>1, <3>2, <3>4, <3>5
            DEF SceneInv, WorkerFits, OneReader, WorkerStart
  <2>4. CASE r.op = "Idle" /\ Stops(r)
    <3>1. worker_running' = FALSE BY <1>10, <2>4 DEF Settle, WorkerAfter, WorkerStopped
    <3> QED BY <1>1, <1>2, <1>10, <2>1, <3>1 DEF SceneInv, WorkerFits, OneReader
  <2>5. CASE r.op = "Idle" /\ ~Stops(r)
    <3>1. screen' = r.show /\ UNCHANGED workerVars
      BY <1>10, <2>5 DEF Settle, WorkerAfter
    <3>2. r.go = "stay" BY <1>10 DEF Leaves
    <3>3. r.show.state \in Asking => screen.state \in Asking BY <1>3, <3>2 DEF Keeps, Shows
    <3> QED BY <1>1, <1>2, <1>4, <1>10, <2>1, <3>1, <3>3
            DEF SceneInv, WorkerFits, OneReader, workerVars
  <2> QED BY <2>2, <2>3, <2>4, <2>5
<1>11. CASE Exit
  <2>1. stack' = stack /\ Top' = Top /\ lf' = lf /\ worker_running' = FALSE
    BY <1>11 DEF Exit, WorkerStopped, Top
  <2> QED BY <1>1, <1>2, <2>1 DEF SceneInv, WorkerFits, OneReader
<1>12. ASSUME Leaves(r), ~Exits(r), NEW stk \in Landings(NewStack(r)),
              Enter(stk, r, tool, protocol)
       PROVE  SceneInv'
  <2> DEFINE top == stk[Len(stk)]
  <2>1. Descends(stk)
    BY <1>1, <1>3, <1>12, NewStackDescends, LandingsDescend DEF Keeps
  <2>2. top \in Scenes BY <2>1, DescendsFacts
  <2>3. /\ Settle(stk, OpensWith(top, tool, protocol), Stops(r), StartsWith(top, tool))
        /\ lf' = LfIn(top)
    BY <1>12 DEF Enter
  <2>4. worker_running => Stops(r) BY <1>4, <1>12 DEF Stops
  <2>5. /\ stack' = stk /\ Top' = top /\ screen' = OpensWith(top, tool, protocol)
        /\ WorkerAfter(Stops(r), StartsWith(top, tool))
    BY <2>3, <2>4 DEF Settle, Top
  <2>6. lf' = "reading" => top = "ReadEm4100" BY <2>3 DEF LfIn
  <2> HIDE DEF top
  <2>7. CASE StartsWith(top, tool) # "Idle"
    <3>1. WorkerStart(StartsWith(top, tool)) BY <2>5, <2>7 DEF WorkerAfter
    <3> QED BY <1>2, <1>5, <2>1, <2>2, <2>5, <2>6, <2>7, <3>1, Opening
            DEF SceneInv, WorkerFits, OneReader, WorkerStart
  <2>8. CASE StartsWith(top, tool) = "Idle"
    <3>1. ~worker_running'
      BY <2>4, <2>5, <2>8 DEF WorkerAfter, WorkerStopped, workerVars
    <3> QED BY <1>2, <2>1, <2>5, <2>6, <3>1 DEF SceneInv, WorkerFits, OneReader
  <2> QED BY <2>7, <2>8
<1> QED BY <1>10, <1>11, <1>12 DEF React

\* Any step of the application keeps the invariant.
LEMMA SceneInvStep == SceneInv /\ [NextStep]_vars => SceneInv'
<1> SUFFICES ASSUME SceneInv, [NextStep]_vars PROVE SceneInv'
  OBVIOUS
<1>1. ASSUME UNCHANGED <<stack, screen, debug_tool, worker_op, worker_running>>,
             lf' = lf \/ lf' = "off"
      PROVE  SceneInv'
  BY <1>1 DEF SceneInv, WorkerFits, OneReader, Top
<1>2. CASE Handle BY <1>2, HandleKeepsSceneInv
<1>3. CASE TakeEvent \/ PressBack BY <1>1, <1>3 DEF TakeEvent, PressBack, Begin
<1>4. ASSUME NEW e, Press(e) PROVE SceneInv' BY <1>1, <1>4 DEF Press, workerVars
<1>5. CASE PopupTimesOut
  <2>1. screen'.state = screen.state BY <1>5, SMT DEF PopupTimesOut
  <2>2. UNCHANGED <<stack, debug_tool, worker_op, worker_running, lf>>
    BY <1>5 DEF PopupTimesOut, workerVars
  <2> QED BY <2>1, <2>2 DEF SceneInv, WorkerFits, OneReader, Top
<1>6. CASE LfReadDone BY <1>1, <1>6 DEF LfReadDone, workerVars
<1>7. CASE WorkerStep
  BY <1>1, <1>7
  DEF WorkerStep, Worker, ShouldStop, Succeed, GiveUp, Fail, WaitOrStop, appVars
<1>8. CASE UNCHANGED vars BY <1>1, <1>8 DEF vars, appVars, workerVars
<1> QED
  BY <1>2, <1>3, <1>4, <1>5, <1>6, <1>7, <1>8
  DEF NextStep, UiThread, User, Others, Stopped

\* And it holds at the start.
LEMMA SceneInvInit == Init => SceneInv
<1> SUFFICES ASSUME Init PROVE SceneInv OBVIOUS
<1>1. stack = <<"Start">> /\ "Start" \in Scenes BY DEF Init, Scenes, Menus
<1>2. stack \in Seq(Scenes) /\ Len(stack) = 1 /\ DOMAIN stack = {1} /\ stack[1] = "Start"
  BY <1>1
<1>3. Depth[stack[1]] >= 0 BY <1>2, Depths
<1>4. Descends(stack) BY <1>2, <1>3 DEF Descends
<1>5. lf # "reading" /\ ~worker_running /\ debug_tool \in DebugOps
  BY DEF Init, WorkerInit, DebugOps
<1> QED BY <1>4, <1>5 DEF SceneInv, WorkerFits, OneReader

\* The invariant of scenes, worker and LF reader.
THEOREM SceneInvHolds == Spec => []SceneInv
BY SceneInvInit, SceneInvStep, PTL DEF Spec

\* However many presses wait, a worker that runs is the one the scene on top
\* started and never runs behind a question: no exit of a scene forgets
\* hitags_writer_worker_stop, and stale events start nothing in other scenes.
THEOREM WorkerStaysInScene == Spec => []WorkerBelongsToScene
<1>1. SceneInv => WorkerBelongsToScene
  BY DEF SceneInv, WorkerFits, WorkerBelongsToScene, Asking
<1> QED BY <1>1, SceneInvHolds, PTL

\* The LF reader and the worker never drive the field together.
THEOREM ReaderHasOneUser == Spec => []OneReader
<1>1. SceneInv => OneReader BY DEF SceneInv
<1> QED BY <1>1, SceneInvHolds, PTL

\* No scene is on the stack twice, start is at its bottom, and seven scenes are
\* the deepest the application gets, under any retries and cancellations.
THEOREM StackDescends == Spec => [](NoSceneTwice /\ Len(stack) \in 1..7)
<1>1. SceneInv => NoSceneTwice /\ Len(stack) \in 1..7
  BY DescendsFacts DEF SceneInv, NoSceneTwice, Descends
<1> QED BY <1>1, SceneInvHolds, PTL

==============================================================================
