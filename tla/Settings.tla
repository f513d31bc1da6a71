------------------------------ MODULE Settings ------------------------------
(***************************************************************************)
(* The saved desktop setup: receiver controls and their source switch      *)
(* (ui.cpp, ui_workflow.hpp), the rules a setup must meet to be saved and  *)
(* the private file it is kept in (preferences.cpp).                       *)
(*                                                                         *)
(* diskNow is the settings file as any process reads it, diskAfter the set of     *)
(* contents a crash of the machine may leave in its place.  A content is   *)
(* a setup written by this version, one written by an older version,       *)
(* "foreign" (not recognized) or "torn".  Frequencies are in kHz.          *)
(***************************************************************************)
EXTENDS Integers, FiniteSets

CONSTANTS Centers, Spans, Offsets,   \* values the user enters
          MaxEdits                   \* bound: changes made by the user

ASSUME SettingsAssumption == Centers \subseteq Nat /\ Spans \subseteq Nat /\ MaxEdits \in Nat

VARIABLES cfg,     \* DesktopState::config and source
          prefsReady,   \* preferences_ready
          diskNow, diskAfter, save, edits,
          tried   \* the last acknowledged setup and those tried since

svars == <<cfg, prefsReady, diskNow, diskAfter, save, edits, tried>>

Synthetic == 0
HackRf == 1
RtlSdr == 2
Rak == 3

\* DesktopPreferences and the values its file does not carry.
Defaults ==
  [source |-> HackRf, center |-> 907500, rate |-> 16000, span |-> 10000, offset |-> 0, amp |-> FALSE]

Lower(a, b) == IF a <= b THEN a ELSE b
Higher(a, b) == IF a >= b THEN a ELSE b
Clamp(x, lo, hi) == Lower(Higher(x, lo), hi)

\* validate_concentrator_config, the part that depends on the survey range.
RakRangeOk(c) ==
  /\ c.center \in 902000..928000 /\ c.span \in 500..26000
  /\ \A o \in {0, c.offset} :
       2 * (c.center + o) - c.span >= 2 * 902000 /\ 2 * (c.center + o) + c.span <= 2 * 928000

\* validate_preferences
Valid(c) ==
  /\ c.offset \in -100..100
  /\ c.center \in 1000..6000000 /\ c.center + c.offset \in 1000..6000000
  /\ c.source = RtlSdr =>
       /\ c.center \in 24000..1766000 /\ c.center + c.offset \in 24000..1766000
       /\ c.rate \in {1000, 2000} /\ ~c.amp
  /\ c.source \in {Synthetic, HackRf} => c.rate \in {8000, 10000, 12000, 16000, 20000}
  /\ c.source # Rak => c.span >= 500 /\ 5 * c.span <= 4 * c.rate
  /\ 2 * c.center >= c.span /\ 2 * c.center + c.span <= 2 * 6000000
  /\ c.source = Rak => RakRangeOk(c)

\* select_receiver
Switched(c, s) ==
  LET hardware == [c EXCEPT !.source = s, !.offset = IF s # Synthetic THEN 0 ELSE @]
  IN  CASE s = RtlSdr -> [hardware EXCEPT !.rate = 2000, !.span = 1500, !.amp = FALSE,
                            !.center = IF @ \in 24000..1766000 THEN @ ELSE 906875]
        [] s = Rak -> [hardware EXCEPT !.center = 915000, !.span = 26000, !.amp = FALSE]
        [] OTHER -> IF c.rate < 8000 \/ 5 * c.span > 4 * c.rate
                    THEN [hardware EXCEPT !.rate = 16000, !.span = 10000] ELSE hardware

\* receiver_controls: the other controls, with the limits they impose.
Edited(c) ==
  LET lo == CASE c.source = Rak -> 902000 [] c.source = RtlSdr -> 24000 [] OTHER -> 1000
      hi == CASE c.source = Rak -> 928000 [] c.source = RtlSdr -> 1766000 [] OTHER -> 6000000
      widest == IF c.source = Rak THEN 26000 ELSE Lower(16000, (4 * c.rate) \div 5)
      rates == CASE c.source = Rak -> {} [] c.source = RtlSdr -> {1000, 2000} [] OTHER -> {8000, 20000}
  IN  {[c EXCEPT !.center = Clamp(x, lo, hi)] : x \in Centers}
        \cup {[c EXCEPT !.offset = Clamp(x, -100, 100)] : x \in Offsets}
        \cup {[c EXCEPT !.span = Clamp(x, 500, widest)] : x \in Spans}
        \cup {[c EXCEPT !.rate = r,
                        !.span = IF r = 2000 THEN @ ELSE Lower(@, (4 * r) \div 5)] : r \in rates}
        \cup {[c EXCEPT !.amp = ~@] : x \in {1} \ (IF c.source \in {RtlSdr, Rak} THEN {1} ELSE {})}

\* parse: what a file gives.  Version 1 to 4 files carry no receiver setup.
Recognized(f) == f.kind \in {"none", "old", "new"}
Loaded(f) == IF f.kind = "none" THEN Defaults
             ELSE IF f.kind = "old" THEN [Defaults EXCEPT !.offset = f.cfg.offset] ELSE f.cfg

NoFile == [kind |-> "none", cfg |-> Defaults]
File(kind, c) == [kind |-> kind, cfg |-> c]
Foreign == File("foreign", Defaults)
Torn == File("torn", Defaults)

NoSave == [step |-> "idle", synced |-> FALSE, clean |-> TRUE]

-----------------------------------------------------------------------------
\* initialize_preferences: load, then write the setup back; a file that is
\* not recognized leaves saving off.
Launch ==
  /\ ~prefsReady.up
  /\ LET ok == Recognized(diskNow) IN
       /\ prefsReady' = [up |-> TRUE, saves |-> ok]
       /\ cfg' = IF ok THEN Loaded(diskNow) ELSE Defaults
       /\ save' = IF ok THEN [NoSave EXCEPT !.step = "check"] ELSE NoSave
  /\ UNCHANGED <<diskNow, diskAfter, edits, tried>>

\* A control is changed: persist_preferences follows, on the same thread.
Change(c) ==
  /\ prefsReady.up /\ save.step = "idle" /\ edits < MaxEdits
  /\ edits' = edits + 1 /\ cfg' = c
  /\ save' = IF prefsReady.saves THEN [NoSave EXCEPT !.step = "check"] ELSE save
  /\ UNCHANGED <<prefsReady, diskNow, diskAfter, tried>>

Edit == \E c \in Edited(cfg) : Change(c)
SwitchReceiver == \E s \in {Synthetic, HackRf, RtlSdr, Rak} \ {cfg.source} : Change(Switched(cfg, s))

-----------------------------------------------------------------------------
(* save_preferences and atomic_write, call by call.                        *)

At(step) == save.step = step
GoTo(step) == save' = [save EXCEPT !.step = step]
Give == save' = NoSave            \* an exception: the temporary file is removed

\* serialize refuses an invalid setup, parse an unrecognized file.
Check ==
  /\ At("check")
  /\ IF Valid(cfg) /\ Recognized(diskNow) THEN GoTo("write") ELSE Give
  /\ tried' = IF Valid(cfg) /\ Recognized(diskNow) THEN tried \cup {File("new", cfg)} ELSE tried
  /\ UNCHANGED <<cfg, prefsReady, diskNow, diskAfter, edits>>

Sync_Skipped ==
  /\ At("write")
  /\ GoTo("recheck")
  /\ UNCHANGED <<cfg, prefsReady, diskNow, diskAfter, edits, tried>>

\* The temporary file is written and flushed.
Sync ==
  /\ At("write")
  /\ \/ save' = [save EXCEPT !.step = "recheck", !.synced = TRUE]
     \/ Give
  /\ UNCHANGED <<cfg, prefsReady, diskNow, diskAfter, edits, tried>>

\* "A broken or unrecognized configuration is left intact"
Recheck ==
  /\ At("recheck")
  /\ IF Recognized(diskNow) THEN GoTo("rename") ELSE Give
  /\ UNCHANGED <<cfg, prefsReady, diskNow, diskAfter, edits, tried>>

Rename ==
  /\ At("rename")
  /\ \/ /\ diskNow' = File("new", cfg)
        /\ diskAfter' = diskAfter \cup {IF save.synced THEN diskNow' ELSE Torn}
        /\ GoTo("flush")
     \/ Give /\ UNCHANGED <<diskNow, diskAfter>>
  /\ UNCHANGED <<cfg, prefsReady, edits, tried>>

\* The directory is flushed and the save reports success; or it reports that
\* the settings were saved but not flushed.
Flush ==
  /\ At("flush")
  /\ \/ diskAfter' = {IF save.synced THEN diskNow ELSE Torn} /\ tried' = {diskNow}
     \/ UNCHANGED <<diskAfter, tried>>
  /\ Give
  /\ UNCHANGED <<cfg, prefsReady, diskNow, edits>>

\* Another version or program leaves a file this one does not recognize.
OtherProgramWrites ==
  /\ Recognized(diskNow) /\ diskNow.kind # "none"
  /\ diskNow' = Foreign /\ diskAfter' = {Foreign} /\ tried' = tried \cup {Foreign}
  /\ save' = [save EXCEPT !.clean = save.step # "rename"]
  /\ UNCHANGED <<cfg, prefsReady, edits>>

\* The machine stops: the directory entry is one of the possible ones.
Crash ==
  /\ prefsReady.up
  /\ \E f \in diskAfter : diskNow' = f /\ diskAfter' = {f}
  /\ prefsReady' = [up |-> FALSE, saves |-> FALSE] /\ save' = NoSave /\ cfg' = Defaults
  /\ UNCHANGED <<edits, tried>>

SettingsInit ==
  /\ cfg = Defaults /\ prefsReady = [up |-> FALSE, saves |-> FALSE]
  /\ \E f \in {NoFile, File("old", [Defaults EXCEPT !.offset = -100])} :
       diskNow = f /\ diskAfter = {f} /\ tried = {f}
  /\ save = NoSave /\ edits = 0

SettingsNext ==
  \/ Launch \/ Edit \/ SwitchReceiver
  \/ Check \/ Sync \/ Recheck \/ Rename \/ Flush
  \/ OtherProgramWrites \/ Crash
SettingsSpec == SettingsInit /\ [][SettingsNext]_svars

-----------------------------------------------------------------------------
\* Wherever a save is interrupted, the file is a whole setup: the last
\* acknowledged one or one whose save had begun since; and a file that was not
\* recognized when the save rechecked it is never replaced
\* (preferences.cpp atomic_write).
SettingsSurvive ==
  /\ diskAfter \subseteq tried
  /\ (save.step = "rename" /\ save.clean) => Recognized(diskNow)
=============================================================================
