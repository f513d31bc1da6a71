------------------------------ MODULE Desktop ------------------------------
(***************************************************************************)
(* The desktop around the engine (ui.cpp, ui_workflow.hpp): the event loop *)
(* of run_desktop, the one background operation and the one background     *)
(* analysis it may have under way, the watchdog of a timed run, and the    *)
(* session calls of Engine (engine.cpp), each atomic because it holds the  *)
(* lifecycle mutex.                                                        *)
(*                                                                         *)
(* A frame finishes a completed operation, looks at the window's close     *)
(* button, takes a snapshot and draws with it: what a button does is       *)
(* decided by the snapshot of the frame, not by the engine of that moment. *)
(*                                                                         *)
(* Sessions are numbered; the recording of session s is file s.  A session *)
(* with path 0 is in memory only.                                          *)
(***************************************************************************)
EXTENDS Naturals, FiniteSets

CONSTANTS Launches,       \* launches tried: "ordinary", "timed", "manual"
          Recordings,     \* files that exist when the desktop starts
          MaxSession,     \* bound: highest session number
          Verifies        \* outcomes of reading a confirmed recording back

ASSUME DesktopAssumption ==
  /\ Launches \subseteq {"ordinary", "timed", "manual"}
  /\ IsFiniteSet(Recordings) /\ Recordings = 1..Cardinality(Recordings)
  /\ Verifies \subseteq BOOLEAN

VARIABLES launch,   \* how run_desktop was called
          eng,      \* the engine's session
          nextNo,   \* number of the next new session
          op,       \* DesktopState::operation
          ana,      \* DesktopState::analysis_operation
          request,  \* DesktopState::pending_analysis, its session
          panel,    \* the loaded analysis: the session it is shown for, its own
          dlg,      \* what the "Unrecorded session" dialog is open for
          picker,   \* file chooser and the callback it will run
          ui,       \* place in the event loop and what the frame knows
          dog,      \* ReceiveDeadline
          consent   \* sessions the user agreed to discard

uvars == <<launch, eng, nextNo, op, ana, request, panel, dlg, picker, ui, dog, consent>>
desk == <<op, ana, request, panel, dlg, picker, ui, dog, consent>>

NoSession ==
  [id |-> 0, data |-> FALSE, running |-> FALSE, path |-> 0, hist |-> FALSE,
   confirmed |-> FALSE, error |-> FALSE]
NoOp == [kind |-> "none", arg |-> 0, step |-> "idle", ok |-> FALSE]
NoAnalysis == [state |-> "idle", req |-> 0, got |-> 0, ok |-> FALSE]
NoDialog == [new |-> FALSE, close |-> FALSE, open |-> 0]
NothingShown == [for |-> 0, of |-> 0]

\* has_session_data
HasData(s) == s.data \/ s.hist

-----------------------------------------------------------------------------
(* Engine calls: the sets of their outcomes.                               *)

\* stop_locked: a running receiver may deliver its last input while it is
\* joined, and the final save of a recording is confirmed or not.
AfterJoin(e, d, c) == [e EXCEPT !.running = FALSE, !.data = d, !.confirmed = c,
                               !.error = @ \/ (e.path # 0 /\ ~c)]
LastInput(e) == {e.data, TRUE}
FinalSave(e) == IF e.path # 0 THEN BOOLEAN ELSE {FALSE}
Stopped(e) ==
  IF ~e.running THEN {e} ELSE {AfterJoin(e, d, c) : d \in LastInput(e), c \in FinalSave(e)}

\* save_locked: refused for history and memory; a running recording confirms
\* within five seconds or not; a stopped one must have confirmed its final
\* save and read back.
Saves(e) ==
  IF e.hist \/ e.path = 0 THEN {FALSE}
  ELSE IF e.running THEN BOOLEAN
  ELSE IF e.confirmed THEN Verifies ELSE {FALSE}

\* start: a new session or the resumption of the current one; it fails before
\* or after the acquisition began.
Started(e, rec) ==
  UNION {
    LET resume  == e1.id # 0
        refused == e1.hist \/ (resume /\ e1.path # 0 /\ ~e1.confirmed)
        begun   == IF resume THEN e1
                   ELSE [NoSession EXCEPT !.id = nextNo, !.path = IF rec THEN nextNo ELSE 0]
    IN  {[e |-> [e1 EXCEPT !.error = TRUE], ok |-> FALSE]}
          \cup (IF refused \/ (resume /\ e1.path # 0 /\ TRUE \notin Saves(e1)) THEN {}
                ELSE {[e |-> [begun EXCEPT !.error = TRUE, !.confirmed = c], ok |-> FALSE]
                        : c \in FinalSave(begun)}
                     \cup {[e |-> [begun EXCEPT !.running = TRUE, !.error = FALSE,
                                                !.confirmed = FALSE], ok |-> TRUE]})
    : e1 \in Stopped(e)}

\* new_session: unrecorded measurements need the user's discard; a recording
\* with measurements must have been saved.
Renewed(e, discard) ==
  IF ~e.hist /\ e.path = 0 /\ (e.data \/ e.running) /\ ~discard
  THEN {[e |-> e, ok |-> FALSE]}
  ELSE UNION {
    IF ~e.hist /\ e1.path # 0 /\ e1.data
    THEN {[e |-> IF k THEN NoSession ELSE e1, ok |-> k] : k \in Saves(e1)}
    ELSE {[e |-> NoSession, ok |-> TRUE]}
    : e1 \in Stopped(e)}

\* open_session: whatever the engine holds is replaced, unless the file is bad.
Opened(e, f) ==
  {[e |-> e1, ok |-> FALSE] : e1 \in Stopped(e)}
    \cup {[e |-> [NoSession EXCEPT !.id = f, !.path = f, !.hist = TRUE, !.confirmed = e1.confirmed],
           ok |-> TRUE] : e1 \in Stopped(e)}

\* save_session_copy: a running recording is saved first, a stopped one is
\* copied as its file is, finalized or not.
Copies(e) == IF e.path = 0 THEN {FALSE}
             ELSE IF e.running THEN Saves(e) \cup {FALSE} ELSE BOOLEAN

-----------------------------------------------------------------------------
(* The receiver and the operating system.                                  *)

Measure ==
  /\ eng.running /\ ~eng.data
  /\ eng' = [eng EXCEPT !.data = TRUE]
  /\ UNCHANGED <<launch, nextNo>> /\ UNCHANGED desk

\* A receiver or recorder failure ends the worker by itself.
ReceiverFails ==
  /\ eng.running
  /\ \E e \in Stopped(eng) : eng' = [e EXCEPT !.error = TRUE]
  /\ UNCHANGED <<launch, nextNo>> /\ UNCHANGED desk

\* ReceiveDeadline: the deadline passes, then the receiver is stopped.
DeadlinePasses ==
  /\ dog = "armed"
  /\ dog' = "expired"
  /\ UNCHANGED <<launch, eng, nextNo, op, ana, request, panel, dlg, picker, ui, consent>>

\* A watchdog that only raises the flag the event loop looks at.
DeadlineStops_Flag ==
  /\ dog = "expired"
  /\ dog' = "stopped"
  /\ UNCHANGED <<launch, eng, nextNo, op, ana, request, panel, dlg, picker, ui, consent>>

DeadlineStops ==
  /\ dog = "expired"
  /\ dog' = "stopped" /\ eng' \in Stopped(eng)
  /\ UNCHANGED <<launch, nextNo, op, ana, request, panel, dlg, picker, ui, consent>>

\* SIGINT in the operator-controlled launch.
Interrupt ==
  /\ launch = "manual" /\ ~ui.signal
  /\ ui' = [ui EXCEPT !.signal = TRUE]
  /\ UNCHANGED <<launch, eng, nextNo, op, ana, request, panel, dlg, picker, dog, consent>>

-----------------------------------------------------------------------------
(* The background operation: one call, or two with the mutex free between. *)

Busy == op.step # "idle"

Done(k) == op' = [op EXCEPT !.step = "done", !.ok = k]

OpOutcome(results) == \E r \in results : eng' = r.e /\ Done(r.ok)

Operate ==
  \/ /\ op.kind = "new"
     /\ OpOutcome(Renewed(eng, op.arg = 1))
  \/ /\ op.kind = "save" /\ \E k \in Saves(eng) : Done(k)
     /\ UNCHANGED eng
  \/ /\ op.kind = "stop"
     /\ \E e \in Stopped(eng) : eng' = e /\ Done(~e.error)
  \/ /\ op.kind = "copy"
     /\ \E k \in Copies(eng) : Done(k)
     /\ UNCHANGED eng
  \/ /\ op.kind = "open" /\ op.step = "run"
     /\ IF ~eng.hist /\ HasData(eng) /\ eng.path # 0
        THEN \E k \in Saves(eng) : IF k THEN op' = [op EXCEPT !.step = "then"] ELSE Done(FALSE)
        ELSE op' = [op EXCEPT !.step = "then"]
     /\ UNCHANGED eng
  \/ /\ op.kind = "open" /\ op.step = "then"
     /\ OpOutcome(Opened(eng, op.arg))
  \/ /\ op.kind = "close" /\ op.step = "run"
     /\ eng' \in Stopped(eng) /\ op' = [op EXCEPT !.step = "then"]
  \/ /\ op.kind = "close" /\ op.step = "then"
     /\ \E k \in Saves(eng) : Done(k)
     /\ UNCHANGED eng

OperationStep ==
  /\ op.step \in {"run", "then"}
  /\ Operate
  /\ UNCHANGED <<launch, nextNo, ana, request, panel, dlg, picker, ui, dog, consent>>

\* analyze_survey: the session on the engine when the mutex is obtained is
\* pinned, then read with the mutex free.
AnalysisStep ==
  /\ \/ /\ ana.state = "waiting"
        /\ ana' = IF eng.path = 0 THEN [ana EXCEPT !.state = "done"]
                  ELSE [ana EXCEPT !.state = "reading", !.got = eng.path]
     \/ /\ ana.state = "reading"
        /\ \E k \in BOOLEAN : ana' = [ana EXCEPT !.state = "done", !.ok = k]
  /\ UNCHANGED <<launch, eng, nextNo, op, request, panel, dlg, picker, ui, dog, consent>>

-----------------------------------------------------------------------------
(* The event loop.                                                         *)

LoopAt(place) == ui.pc = place
Go(place) == ui' = [ui EXCEPT !.pc = place]

\* begin_operation
Begin(kind, arg) ==
  op' = IF Busy THEN op ELSE [kind |-> kind, arg |-> arg, step |-> "run", ok |-> FALSE]

\* progress_analysis: a completed result is kept for the session it was
\* requested for, then a pending request is started.
Progress(busy, wanted, loaded) ==
  LET keep  == ana.state = "done" /\ eng.id = ana.req /\ wanted = 0
      free  == ana.state \in {"idle", "done"}
      start == free /\ wanted # 0 /\ ~busy
  IN  /\ panel' = IF ~keep THEN loaded
                  ELSE IF ana.ok THEN [for |-> ana.req, of |-> ana.got] ELSE NothingShown
      /\ ana' = IF start /\ eng.id = wanted
                THEN [NoAnalysis EXCEPT !.state = "waiting", !.req = wanted]
                ELSE IF ana.state = "done" THEN NoAnalysis ELSE ana
      /\ request' = IF start THEN 0 ELSE wanted

\* finish_operation, with what it runs after a success, and progress_analysis.
FrameBegins ==
  /\ LoopAt("top") /\ dog \notin {"expired", "stopped"}
  /\ LET ended == op.step = "done"
         done(kind) == ended /\ op.ok /\ op.kind = kind
         fresh == done("new") \/ done("open")      \* clear_views
         approved == ui.approved \/ done("close")
     IN  /\ op' = IF ended THEN NoOp ELSE op
         /\ dlg' = IF done("new") THEN [dlg EXCEPT !.new = FALSE] ELSE dlg
         /\ Progress(Busy /\ ~ended, IF fresh THEN 0 ELSE request,
                     IF fresh THEN NothingShown ELSE panel)
         /\ ui' = [ui EXCEPT !.approved = approved, !.pc = IF approved THEN "exit" ELSE "close"]
  /\ UNCHANGED <<launch, eng, nextNo, picker, dog, consent>>

AsksFirst_DataOnly(e) == HasData(e) /\ e.path = 0

\* The close button asks when measurements exist, or may still arrive, that
\* are not recorded.
AsksFirst(e) == (HasData(e) \/ e.running) /\ e.path = 0

\* The window's close button, pressed or not.
WindowClose ==
  /\ LoopAt("close")
  /\ \/ Go("snapshot") /\ UNCHANGED <<op, dlg>>
     \/ /\ launch # "ordinary" /\ Go("exit") /\ UNCHANGED <<op, dlg>>
     \/ /\ launch = "ordinary" /\ Busy /\ Go("snapshot") /\ UNCHANGED <<op, dlg>>
     \/ /\ launch = "ordinary" /\ ~Busy /\ AsksFirst(eng)
        /\ dlg' = [dlg EXCEPT !.close = TRUE] /\ Go("snapshot") /\ UNCHANGED op
     \/ /\ launch = "ordinary" /\ ~Busy /\ ~AsksFirst(eng)
        /\ IF eng.hist \/ ~HasData(eng) THEN Go("exit") /\ UNCHANGED op
           ELSE Begin("close", 0) /\ Go("snapshot")
        /\ UNCHANGED dlg
  /\ UNCHANGED <<launch, eng, nextNo, ana, request, panel, picker, dog, consent>>

\* The managed launches react to a signal or an error here; then the frame's
\* snapshot is taken.  A minimized window draws nothing.
TakeSnapshot ==
  /\ LoopAt("snapshot")
  /\ LET stop == launch = "manual" /\ ui.started /\ ~ui.reported /\ (ui.signal \/ eng.error)
     IN  eng' \in IF stop THEN Stopped(eng) ELSE {eng}
  /\ ui' = [ui EXCEPT
       !.snap = eng',
       !.reported = @ \/ (launch = "manual" /\ ui.started /\ ~eng'.running),
       !.pc = IF (launch = "timed" /\ ui.started /\ eng'.error) \/ dog \in {"expired", "stopped"}
              THEN "exit" ELSE "draw"]
  /\ UNCHANGED <<launch, nextNo, op, ana, request, panel, dlg, picker, dog, consent>>

\* progress_analysis after the frame was drawn.
FrameEnds ==
  /\ LoopAt("end")
  /\ Progress(Busy, request, panel)
  /\ Go("top")
  /\ UNCHANGED <<launch, eng, nextNo, op, dlg, picker, dog, consent>>

\* The loop ends: the watchdog is cancelled and joined, the operation and the
\* analysis are waited for, the receiver is stopped.
LoopEnds ==
  \/ LoopAt("top") /\ dog \in {"expired", "stopped"} /\ Go("exit")
     /\ UNCHANGED <<launch, eng, nextNo, op, ana, request, panel, dlg, picker, dog, consent>>
  \/ /\ LoopAt("exit") /\ dog # "expired"
     /\ op.step \in {"idle", "done"} /\ ana.state \in {"idle", "done"}
     /\ eng' \in Stopped(eng)
     /\ dog' = "stopped" /\ Go("closed")
     /\ UNCHANGED <<launch, nextNo, op, ana, request, panel, dlg, picker, consent>>

-----------------------------------------------------------------------------
(* What the user may do with one frame.                                    *)

Modal == dlg # NoDialog \/ picker # "none"

\* New
ClickNew ==
  /\ ~Modal /\ ~Busy /\ ~ui.started
  /\ IF HasData(ui.snap) /\ ui.snap.path = 0
     THEN dlg' = [dlg EXCEPT !.new = TRUE] /\ UNCHANGED op
     ELSE Begin("new", 0) /\ UNCHANGED dlg
  /\ UNCHANGED <<request, picker, consent>>

\* Save, Stop reception
ClickOperation ==
  /\ ~Modal /\ ~Busy
  /\ \/ /\ ~ui.started /\ ui.snap.id # 0 /\ ~ui.snap.hist /\ ui.snap.path # 0
        /\ Begin("save", 0)
     \/ ui.snap.running /\ Begin("stop", 0)
  /\ UNCHANGED <<request, dlg, picker, consent>>

\* Open... and Save a copy... show the file chooser.
ClickChooser ==
  /\ ~Modal /\ ~Busy /\ ~ui.started
  /\ \/ ~ui.snap.running /\ picker' = "open"
     \/ ui.snap.path # 0 /\ ui.snap.id # 0 /\ picker' = "copy"
  /\ UNCHANGED <<op, request, dlg, consent>>

\* A file is chosen: the callback looks at the engine of that moment.
ChooseFile ==
  /\ picker # "none" /\ dlg = NoDialog /\ ~Busy
  /\ ui.snap.running => picker = "copy"
  /\ picker' = "none"
  /\ \/ /\ picker = "copy" /\ Begin("copy", 0) /\ UNCHANGED dlg
     \/ /\ picker = "open"
        /\ \E f \in Recordings :
             IF HasData(eng) /\ eng.path = 0
             THEN dlg' = [dlg EXCEPT !.open = f] /\ UNCHANGED op
             ELSE Begin("open", f) /\ UNCHANGED dlg
  /\ UNCHANGED <<request, consent>>

CancelChooser ==
  /\ picker # "none" /\ dlg = NoDialog
  /\ picker' = "none"
  /\ UNCHANGED <<op, request, dlg, consent>>

\* The "Unrecorded session" dialog: discard and open, or create new.
ClickDiscard ==
  /\ dlg # NoDialog /\ ~dlg.close
  /\ consent' = consent \cup {eng.id}
  /\ dlg' = NoDialog
  /\ IF dlg.open # 0 THEN Begin("open", dlg.open) ELSE Begin("new", 1)
  /\ UNCHANGED <<request, picker>>

ClickKeep ==
  /\ dlg # NoDialog
  /\ dlg' = NoDialog
  /\ UNCHANGED <<op, request, picker, consent>>

\* queue_analysis, by the user or by the Analyze tab itself.
QueueAnalysis ==
  /\ ~Modal /\ ~Busy /\ request = 0 /\ ana.state = "idle"
  /\ ui.snap.path # 0 /\ ui.snap.id # 0
  /\ request' = ui.snap.id
  /\ UNCHANGED <<op, dlg, picker, consent>>

\* One frame without reception being started.
Draw ==
  /\ LoopAt("draw")
  /\ \/ ClickNew \/ ClickOperation \/ ClickChooser \/ ChooseFile \/ CancelChooser
     \/ ClickDiscard \/ ClickKeep \/ QueueAnalysis
     \/ UNCHANGED <<op, request, dlg, picker, consent>>
  /\ Go("end")
  /\ UNCHANGED <<launch, eng, nextNo, ana, panel, dog>>

\* Discard and close
DiscardAndClose ==
  /\ LoopAt("draw") /\ dlg.close
  /\ consent' = consent \cup {eng.id}
  /\ dlg' = [dlg EXCEPT !.close = FALSE, !.new = FALSE]
  /\ ui' = [ui EXCEPT !.pc = "end", !.approved = TRUE]
  /\ UNCHANGED <<launch, eng, nextNo, op, ana, request, panel, picker, dog>>

\* Start or Resume reception: the engine call is made by the UI thread.
ClickStart ==
  /\ LoopAt("draw") /\ ~Modal /\ ~Busy
  /\ ~ui.snap.running /\ ~ui.snap.hist /\ ~ui.started
  /\ ~(launch = "manual" /\ ui.signal)
  /\ eng.id = 0 => nextNo <= MaxSession
  /\ \E rec \in BOOLEAN : \E r \in Started(eng, rec) :
       /\ eng' = r.e
       /\ nextNo' = IF r.e.id = nextNo THEN nextNo + 1 ELSE nextNo
       /\ panel' = IF r.ok THEN NothingShown ELSE panel
       /\ ui' = [ui EXCEPT !.pc = "end", !.started = @ \/ (launch # "ordinary" /\ r.ok)]
       /\ dog' = IF launch = "timed" /\ r.ok THEN "armed" ELSE dog
  /\ UNCHANGED <<launch, op, ana, request, dlg, picker, consent>>

DesktopInit ==
  /\ launch \in Launches
  /\ eng \in {NoSession} \cup {[NoSession EXCEPT !.id = f, !.path = f, !.hist = TRUE] : f \in Recordings}
  /\ eng.hist => launch = "ordinary"
  /\ nextNo = Cardinality(Recordings) + 1
  /\ op = NoOp /\ ana = NoAnalysis /\ request = eng.id /\ panel = NothingShown
  /\ dlg = NoDialog /\ picker = "none" /\ dog = "off" /\ consent = {}
  /\ ui = [pc |-> "top", snap |-> eng, approved |-> FALSE, started |-> FALSE,
           reported |-> FALSE, signal |-> FALSE]

Loop == FrameBegins \/ WindowClose \/ TakeSnapshot \/ Draw \/ DiscardAndClose \/ ClickStart \/ FrameEnds
        \/ LoopEnds

DesktopNext ==
  \/ Measure \/ ReceiverFails \/ DeadlinePasses \/ DeadlineStops \/ Interrupt
  \/ OperationStep \/ AnalysisStep \/ Loop

\* The watchdog, the operation and the analysis are threads of their own, and
\* each engine call they make returns.  Drawing may stall: the event loop is
\* not assumed to turn in a timed run.
DesktopSpec ==
  /\ DesktopInit /\ [][DesktopNext]_uvars
  /\ WF_uvars(DeadlineStops) /\ WF_uvars(OperationStep) /\ WF_uvars(AnalysisStep)
  /\ WF_uvars(launch # "timed" /\ Loop)

-----------------------------------------------------------------------------
(* Properties.                                                             *)

\* Measurements that are not recorded leave the engine, by New, by Open or
\* with the window, only after the user discarded that very session: although
\* buttons act on a snapshot that may be old, and the receiver may deliver
\* until it is joined (ui_workflow.hpp request_*, ui.cpp run_desktop).
UnrecordedStep ==
  launch = "ordinary" =>
    /\ (~eng.hist /\ eng.path = 0 /\ eng.data /\ eng'.id # eng.id) => eng.id \in consent'
    /\ (ui'.pc = "closed" /\ ~eng'.hist /\ eng'.path = 0 /\ eng'.data) => eng'.id \in consent'
UnrecordedKept == [][UnrecordedStep]_uvars

\* A managed reception ends for good: after the deadline whatever the event
\* loop is doing, after SIGINT as long as it turns (ui.cpp ReceiveDeadline,
\* run_desktop).
ReceptionEnds ==
  /\ dog = "expired" ~> [](~eng.running)
  /\ (ui.signal /\ ui.started) ~> [](~eng.running)
=============================================================================
