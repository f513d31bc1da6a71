---------------------------- MODULE SessionDisk ----------------------------
(***************************************************************************)
(* SessionDiskMonitor (src/src/session_disk.hpp): the size of the session  *)
(* file is read by a background task every five seconds and shown in the   *)
(* footer, while New and Open change the session under it.                 *)
(***************************************************************************)
EXTENDS Naturals

CONSTANTS Paths,      \* session paths; NoPath means no session or memory only
          NoPath,
          Period,     \* seconds between two readings (5 in the code)
          MaxClock    \* bound

VARIABLES
  session,   \* path of the session the engine shows
  display,   \* display_path
  pending,   \* [path, done, read] of the task under way, NoPath without one
  value,     \* path whose sizes are shown, NoPath when unavailable
  last,      \* last_started, -1 written as NoPath
  now

dvars == <<session, display, pending, value, last, now>>

DiskInit ==
  /\ session = NoPath /\ display = NoPath /\ pending = NoPath
  /\ value = NoPath /\ last = NoPath /\ now = 0

\* read_session_disk_usage: the sizes of the path the task was given, or
\* unavailable when the file is missing, irregular or unreadable.
TaskReads ==
  /\ pending # NoPath /\ ~pending.done
  /\ \E ok \in BOOLEAN : pending' = [pending EXCEPT !.done = TRUE,
       !.read = IF ok THEN pending.path ELSE NoPath]
  /\ UNCHANGED <<session, display, value, last, now>>

SwitchSession ==
  /\ \E p \in Paths \cup {NoPath} : session' = p
  /\ UNCHANGED <<display, pending, value, last, now>>

Tick ==
  /\ now < MaxClock /\ now' = now + 1
  /\ UNCHANGED <<session, display, pending, value, last>>

\* poll(path, now), called for every frame.
Accepts_Always(path) == TRUE
Accepts(path) == pending.path = path
DiskPoll ==
  LET moved == session # display
      shown == IF moved THEN NoPath ELSE value
      since == IF moved THEN NoPath ELSE last
      ready == pending # NoPath /\ pending.done
      free == pending = NoPath \/ ready
      begins == /\ session # NoPath /\ free
                /\ since = NoPath \/ now - since >= Period
  IN /\ display' = session
     /\ value' = IF ready /\ Accepts(session) THEN pending.read ELSE shown
     /\ last' = IF begins THEN now ELSE since
     /\ pending' = IF begins THEN [path |-> session, done |-> FALSE, read |-> NoPath]
                   ELSE IF ready THEN NoPath ELSE pending
     /\ UNCHANGED <<session, now>>

DiskNext == TaskReads \/ SwitchSession \/ Tick \/ DiskPoll
DiskSpec == DiskInit /\ [][DiskNext]_dvars
----------------------------------------------------------------------------
\* The size shown belongs to the file named: a task started for an earlier
\* session may finish after New or Open, and its answer is dropped
\* (session_disk.hpp 49-53).
SizeIsOfItsSession == value \in {NoPath, display}
=============================================================================
