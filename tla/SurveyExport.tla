---------------------------- MODULE SurveyExport ----------------------------
(***************************************************************************)
(* Writing a saved survey to a file: the export window (ui.cpp), the       *)
(* engine's export_report and export_session, and the files themselves     *)
(* (PrivateFile, SessionStore::write_report_file, export_csv and           *)
(* export_geojson in storage.cpp, PngFile in desktop_assets.cpp).  The     *)
(* window is reviewed for one survey while Open and New, run by a          *)
(* background operation, replace the survey; other programs create, remove *)
(* and replace files under the chosen name meanwhile.                      *)
(***************************************************************************)
EXTENDS Naturals, FiniteSets

CONSTANTS FileNames,   \* names the user may choose
          ExtensionOf, \* FileNames -> "csv", "html", "geojson" or "png"
          NoEntry,     \* nothing under a name
          Sections,    \* rows of an export, written in order 1..Sections
          MaxFiles     \* bound on files created

SavedSurveys == {1, 2}
NoSurvey == 0
ReportKinds == {"summary", "track", "analysis", "archive"}

VARIABLES
  files,    \* FileNames -> file [id, by, kind, survey, reviewed, whole], or NoEntry
  engineOn, \* survey the engine has saved, NoSurvey without one
  shown,    \* survey of the frame's snapshot
  busy,     \* "idle", "opening" (the operation runs) or "opened" (it returned)
  window,   \* [open, survey, kind, gps, path]
  writer,   \* the export under way: [step, path, kind, survey, reviewed, id, row]
  made      \* files created so far

xvars == <<files, engineOn, shown, busy, window, writer, made>>

NoWriter == [step |-> "none", path |-> NoEntry, kind |-> "none", survey |-> NoSurvey,
             reviewed |-> NoSurvey, id |-> 0, row |-> 0]
NoWindow == [open |-> FALSE, survey |-> NoSurvey, kind |-> "summary", gps |-> FALSE, path |-> NoEntry]
Idle == busy = "idle" /\ writer.step = "none"

\* prepare_report_export: the options are reset, the survey is remembered.
OpenWindow ==
  /\ Idle /\ shown # NoSurvey
  /\ window' = [NoWindow EXCEPT !.open = TRUE, !.survey = shown]
  /\ UNCHANGED <<files, engineOn, shown, busy, writer, made>>

SetOptions ==
  /\ Idle /\ window.open
  /\ \E k \in ReportKinds, g \in BOOLEAN : window' = [window EXCEPT !.kind = k, !.gps = g]
  /\ UNCHANGED <<files, engineOn, shown, busy, writer, made>>

\* The file picker refuses an existing name and another extension.
FitsKind(p, k) ==
  CASE k = "analysis" -> ExtensionOf[p] = "html"
    [] k = "archive" -> ExtensionOf[p] \in {"csv", "geojson"}
    [] OTHER -> ExtensionOf[p] = "csv"
ChooseName ==
  /\ Idle /\ window.open
  /\ \E p \in FileNames : /\ files[p] = NoEntry /\ FitsKind(p, window.kind)
                          /\ window' = [window EXCEPT !.path = p]
  /\ UNCHANGED <<files, engineOn, shown, busy, writer, made>>

\* New and Open run in the background; the export waits for them.
BeginOpen == /\ Idle /\ busy' = "opening"
             /\ UNCHANGED <<files, engineOn, shown, window, writer, made>>
EngineOpens ==
  /\ busy = "opening" /\ busy' = "opened"
  /\ \E s \in SavedSurveys \cup {NoSurvey} : engineOn' = s
  /\ UNCHANGED <<files, shown, window, writer, made>>
\* A reception after New records another survey; the window may still be open.
RecordSurvey ==
  /\ Idle /\ engineOn = NoSurvey
  /\ \E s \in SavedSurveys : engineOn' = s
  /\ UNCHANGED <<files, shown, busy, window, writer, made>>
\* finish_operation comes before the snapshot of a frame; Open closes the window.
NextFrame ==
  /\ writer.step = "none"
  /\ busy' = IF busy = "opened" THEN "idle" ELSE busy
  /\ shown' = engineOn
  /\ window' = IF busy = "opened" /\ engineOn # NoSurvey THEN [window EXCEPT !.open = FALSE] ELSE window
  /\ UNCHANGED <<files, engineOn, writer, made>>

\* report_export_block_reason.
SurveyUnchanged_Skipped == shown # NoSurvey
SurveyUnchanged == shown # NoSurvey /\ window.survey = shown
Allowed ==
  /\ window.open /\ Idle /\ SurveyUnchanged
  /\ window.path # NoEntry /\ FitsKind(window.path, window.kind)
  /\ window.kind = "track" => window.gps

\* Engine::export_report and export_session, under the lifecycle lock.
BeginExport ==
  /\ Allowed /\ engineOn # NoSurvey
  /\ window.kind = "archive" /\ ExtensionOf[window.path] = "geojson" => window.gps
  /\ writer' = [step |-> "create", path |-> window.path, kind |-> window.kind, survey |-> engineOn,
                reviewed |-> window.survey, id |-> 0, row |-> 0]
  /\ UNCHANGED <<files, engineOn, shown, busy, window, made>>

\* write_waveform_png, for the picture of the survey on the screen.
BeginImage ==
  /\ Idle /\ shown # NoSurvey
  /\ \E p \in FileNames : /\ files[p] = NoEntry /\ ExtensionOf[p] = "png"
                          /\ writer' = [NoWriter EXCEPT !.step = "create", !.path = p, !.kind = "image",
                                                        !.survey = shown, !.reviewed = shown]
  /\ UNCHANGED <<files, engineOn, shown, busy, window, made>>

\* The name is created exclusively.
CreateFile ==
  /\ writer.step = "create" /\ made < MaxFiles
  /\ IF files[writer.path] # NoEntry THEN writer' = NoWriter /\ UNCHANGED <<files, made>>
     ELSE /\ made' = made + 1
          /\ writer' = [writer EXCEPT !.step = "write", !.id = made + 1]
          /\ files' = [files EXCEPT ![writer.path] =
               [id |-> made + 1, by |-> "app", kind |-> writer.kind, survey |-> writer.survey,
                reviewed |-> writer.reviewed, whole |-> FALSE]]
  /\ UNCHANGED <<engineOn, shown, busy, window>>

Own == files[writer.path] # NoEntry /\ files[writer.path].id = writer.id

\* A failed report or picture is removed, a partial archive is left for inspection.
Discards_Any == writer.kind # "archive"
Discards == writer.kind # "archive" /\ Own
WriteRow ==
  /\ writer.step = "write" /\ writer.row < Sections
  /\ writer' = [writer EXCEPT !.row = @ + 1]
  /\ UNCHANGED <<files, engineOn, shown, busy, window, made>>
FailExport ==
  /\ writer.step = "write" /\ writer' = NoWriter
  /\ files' = IF Discards THEN [files EXCEPT ![writer.path] = NoEntry] ELSE files
  /\ UNCHANGED <<engineOn, shown, busy, window, made>>
SyncFile ==
  /\ writer.step = "write" /\ writer.row = Sections
  /\ files' = IF Own THEN [files EXCEPT ![writer.path].whole = TRUE] ELSE files
  /\ writer' = NoWriter /\ window' = [window EXCEPT !.open = writer.kind = "image" /\ @]
  /\ UNCHANGED <<engineOn, shown, busy, made>>

\* Another program removes the file under a name or puts its own there.
OtherProgram ==
  /\ \E p \in FileNames :
       \/ files[p] # NoEntry /\ files' = [files EXCEPT ![p] = NoEntry] /\ UNCHANGED made
       \/ /\ made < MaxFiles /\ made' = made + 1
          /\ files' = [files EXCEPT ![p] = [id |-> made + 1, by |-> "other", kind |-> "none",
               survey |-> NoSurvey, reviewed |-> NoSurvey, whole |-> TRUE]]
  /\ UNCHANGED <<engineOn, shown, busy, window, writer>>

ExportInit ==
  /\ files = [p \in FileNames |-> NoEntry] /\ engineOn \in SavedSurveys /\ shown = engineOn /\ busy = "idle"
  /\ window = NoWindow /\ writer = NoWriter /\ made = 0

ExportNext ==
  \/ OpenWindow \/ SetOptions \/ ChooseName \/ BeginOpen \/ EngineOpens \/ RecordSurvey \/ NextFrame
  \/ BeginExport \/ BeginImage \/ CreateFile \/ WriteRow \/ FailExport \/ SyncFile \/ OtherProgram
ExportSpec == ExportInit /\ [][ExportNext]_xvars
-----------------------------------------------------------------------------
Complete(p) == files[p] # NoEntry /\ files[p].whole

\* An export never alters or removes a file it did not create, nor a finished
\* one, whatever other programs put under its name (O_EXCL, PrivateFile::discard).
FinishedFilesKept ==
  [][\A p \in FileNames : Complete(p) /\ files'[p] # files[p] => OtherProgram]_xvars

\* A file in the application's name is of the survey reviewed in the window, and,
\* unless an archive failed, appears whole or not at all.
ExportAsReviewed ==
  \A p \in FileNames :
    files[p] # NoEntry /\ files[p].by = "app" =>
      /\ files[p].survey = files[p].reviewed
      /\ files[p].whole \/ files[p].kind = "archive" \/ files[p].id = writer.id
=============================================================================
