---------------------------- MODULE RakReceiver ----------------------------
(***************************************************************************)
(* RAK5146 concentrators: the isolated worker process of each board        *)
(* (rak_worker.c), its owner in the application (rak_process.cpp) and the  *)
(* engine's loop over the boards (engine_rak.inc).                         *)
(*                                                                         *)
(* A pipe holds lines, by kind: "ready", "error", "end", a "scan" with its *)
(* sweep point and number, or "torn", the first part of a line whose rest  *)
(* was never written.                                                      *)
(* Heartbeats carry no measurement: they show as the absence of a timeout. *)
(* Sweep points are numbered from 0; scans of a board are numbered from 1. *)
(***************************************************************************)
EXTENDS Integers, Sequences, FiniteSets, SequencesExt

CONSTANTS Boards,      \* number of concentrators, one or two
          Points,      \* centers of the whole sweep
          Faulty,      \* the boards whose worker or whose records may fail
          MaxScans,    \* bound: scans of all boards
          PipeSize,    \* lines the socket buffer holds
          MaxTries     \* rounds of stop() before the kill (150 in the code)

ASSUME RakAssumption ==
  /\ Boards \in {1, 2} /\ Faulty \subseteq 1..Boards
  /\ Points \in Nat \ {0} /\ PipeSize \in Nat \ {0} /\ MaxTries \in Nat \ {0}

VARIABLES child, pipe, proc, eng, handled

vars == <<child, pipe, proc, eng, handled>>

Board == 1..Boards

\* The sweep of board i: centers begin .. end - 1.
SweepBegin(i) == (Points * (i - 1)) \div Boards
SweepEnd(i) == (Points * i) \div Boards

\* The worker's next center, back to the first after the last.
NextCenter(i, at) == IF at + 1 = SweepEnd(i) THEN SweepBegin(i) ELSE at + 1

NoChild == [phase |-> "none", told |-> FALSE, error |-> FALSE,
            status |-> 1, scans |-> 0, at |-> 0]

FreshProc == [pid |-> "none", failed |-> FALSE, sawEnd |-> FALSE, eof |-> FALSE,
              torn |-> FALSE, delivered |-> TRUE, tries |-> 0]

Exited(i) == child[i].phase = "exited"

Child(i, c) == child' = [child EXCEPT ![i] = c]

-----------------------------------------------------------------------------
(* The worker process.                                                     *)

Line(kind) == [kind |-> kind, point |-> 0, number |-> 0]
Scan(point, number) == [kind |-> "scan", point |-> point, number |-> number]

HasRoom(i) == Len(pipe[i]) < PipeSize

\* send_line: the line, or nothing or a part of it when the parent does not
\* read for a second or STOP arrives meanwhile.
Sent(i, line) == HasRoom(i) /\ pipe' = [pipe EXCEPT ![i] = Append(@, line)]
NotSent(i) == pipe' \in {pipe, [pipe EXCEPT ![i] = Append(@, Line("torn"))]}

\* main: receivers configured, READY, or an initialization failure.
WorkerReady(i) ==
  /\ child[i].phase = "init"
  /\ \/ Sent(i, Line("ready")) /\ Child(i, [child[i] EXCEPT !.phase = "loop"])
     \/ /\ i \in Faulty /\ UNCHANGED pipe
        /\ Child(i, [child[i] EXCEPT !.phase = "finish", !.error = TRUE])
  /\ UNCHANGED <<proc, eng, handled>>

ScansLeft == MapThenSumSet(LAMBDA i : child[i].scans, Board) < MaxScans

\* A completed scan of the current center.
WorkerScan(i) ==
  /\ child[i].phase = "loop" /\ ScansLeft
  /\ LET c == [child[i] EXCEPT !.scans = @ + 1]
     IN  \/ /\ Sent(i, Scan(c.at, c.scans))
            /\ Child(i, [c EXCEPT !.at = NextCenter(i, @)])
         \/ /\ ~HasRoom(i) /\ NotSent(i)
            /\ Child(i, [c EXCEPT !.phase = "finish"])
  /\ UNCHANGED <<proc, eng, handled>>

\* A receiver call fails.
WorkerFails(i) ==
  /\ i \in Faulty /\ child[i].phase = "loop"
  /\ Child(i, [child[i] EXCEPT !.phase = "finish", !.error = TRUE])
  /\ UNCHANGED <<pipe, proc, eng, handled>>

\* poll_parent: STOP or the end of its input, in the loop or before any
\* receiver was opened.
WorkerStops(i) ==
  /\ child[i].phase \in {"init", "loop"} /\ child[i].told
  /\ Child(i, [child[i] EXCEPT !.phase = IF @ = "init" THEN "end" ELSE "finish", !.status = 0])
  /\ UNCHANGED <<pipe, proc, eng, handled>>

\* The cleanup (which may fail), the ERROR line if any, END, exit.
WorkerCloses(i) ==
  /\ child[i].phase = "finish"
  /\ \E broken \in BOOLEAN :
       LET c == [child[i] EXCEPT !.phase = "end", !.error = @ \/ broken,
                                 !.status = IF broken THEN 1 ELSE @]
       IN  /\ broken => i \in Faulty
           /\ Child(i, c)
           /\ IF c.error THEN Sent(i, Line("error")) \/ (~HasRoom(i) /\ NotSent(i)) ELSE UNCHANGED pipe
  /\ UNCHANGED <<proc, eng, handled>>

WorkerExits(i) ==
  /\ child[i].phase = "end"
  /\ Sent(i, Line("end")) \/ (~HasRoom(i) /\ NotSent(i))
  /\ Child(i, [child[i] EXCEPT !.phase = "exited"])
  /\ UNCHANGED <<proc, eng, handled>>

\* The alarm of a stuck receiver call writes its two lines and exits with 70;
\* a killed or crashed worker writes nothing.
WorkerDies(i) ==
  /\ i \in Faulty /\ child[i].phase \in {"init", "loop", "finish"}
  /\ pipe' \in {pipe, [pipe EXCEPT ![i] = @ \o <<Line("error"), Line("end")>>]}
  /\ Child(i, [child[i] EXCEPT !.phase = "exited", !.status = 70])
  /\ UNCHANGED <<proc, eng, handled>>

-----------------------------------------------------------------------------
(* The owner: one read and its records.                                    *)

\* poll: a line of the read. Nothing is taken after a failure, and a record
\* after END, a torn or an ERROR line is the failure.
Parsed(acc, line) ==
  IF acc.p.failed THEN acc
  ELSE IF acc.p.sawEnd \/ acc.p.torn \/ line.kind = "error"
  THEN [p |-> [acc.p EXCEPT !.failed = TRUE, !.torn = FALSE], out |-> Append(acc.out, Line("error"))]
  ELSE IF line.kind = "torn" THEN [p |-> [acc.p EXCEPT !.torn = TRUE], out |-> acc.out]
  ELSE [p |-> [acc.p EXCEPT !.sawEnd = (line.kind = "end")], out |-> Append(acc.out, line)]

\* poll: at most k lines, or the end of the stream.
Poll(i, k) ==
  LET p == proc[i]
  IN  IF pipe[i] = <<>> /\ Exited(i) /\ ~p.eof
      THEN LET bad == ~p.failed /\ (~p.sawEnd \/ p.torn)
           IN  [p |-> [p EXCEPT !.eof = TRUE, !.failed = @ \/ bad, !.torn = FALSE],
                out |-> IF bad THEN <<Line("error")>> ELSE <<>>]
      ELSE LET acc[n \in 0..k] ==
                 IF n = 0 THEN [p |-> p, out |-> <<>>] ELSE Parsed(acc[n - 1], pipe[i][n])
           IN  acc[k]

Unread(i, k) == [pipe EXCEPT ![i] = SubSeq(@, k + 1, Len(@))]

\* How much one read may return.
Readable(i) == IF pipe[i] = <<>> THEN {0} ELSE {1, Len(pipe[i])}

-----------------------------------------------------------------------------
(* The engine: handle() of one message. e.ready are the boards ready, e.bad*)
(* whether anything failed, s.threw whether handle threw.                  *)

Throw(s) == [s EXCEPT !.threw = TRUE, !.bad = TRUE]

HandleMessage(s, m, i, stopping) ==
  CASE m.kind = "error" -> Throw(s)
    [] m.kind = "end" -> IF stopping THEN s ELSE Throw(s)
    [] m.kind = "ready" -> IF i \in s.ready THEN Throw(s) ELSE [s EXCEPT !.ready = @ \cup {i}]
    [] OTHER -> IF /\ i \in s.ready
                   /\ m.point \in SweepBegin(i)..(SweepEnd(i) - 1)
                   /\ ~(s.storeFails /\ i \in Faulty)
                THEN [s EXCEPT !.done = Append(@, m.number)]
                ELSE Throw(s)

\* The loop leaves a read at its first exception, the final drain goes on.
Handle(i, out, stopping, fails) ==
  LET s[n \in 0..Len(out)] ==
        IF n = 0
        THEN [ready |-> eng.ready, bad |-> eng.bad, threw |-> FALSE, storeFails |-> fails,
              done |-> handled[i]]
        ELSE IF s[n - 1].threw /\ ~stopping THEN s[n - 1]
        ELSE HandleMessage(s[n - 1], out[n], i, stopping)
  IN  s[Len(out)]

\* process_concentrators: the boards are started in turn.
StartBoard ==
  /\ eng.phase = "start" /\ eng.run
  /\ LET i == eng.board IN
     \/ /\ child' = [child EXCEPT ![i] = [NoChild EXCEPT !.phase = "init", !.at = SweepBegin(i)]]
        /\ proc' = [proc EXCEPT ![i] = [FreshProc EXCEPT !.pid = "owned"]]
        /\ eng' = IF i = Boards THEN [eng EXCEPT !.phase = "loop", !.board = 1, !.started = i]
                  ELSE [eng EXCEPT !.board = i + 1, !.started = i]
     \/ /\ eng' = [eng EXCEPT !.phase = "drain", !.board = 1, !.run = FALSE, !.bad = TRUE]
        /\ UNCHANGED <<child, proc>>
  /\ UNCHANGED <<pipe, handled>>

\* One board's turn in the loop: a read and its records, or the timeout of
\* a board that has sent nothing for too long.
LoopPoll ==
  /\ eng.phase = "loop" /\ eng.run
  /\ LET i == eng.board IN
     \E k \in Readable(i), fails \in BOOLEAN, late \in BOOLEAN :
       LET r == Poll(i, k)
           s == Handle(i, r.out, FALSE, fails)
           threw == s.threw \/ (late /\ r.out = <<>>)
       IN  /\ proc' = [proc EXCEPT ![i] = r.p]
           /\ pipe' = Unread(i, k)
           /\ handled' = [handled EXCEPT ![i] = s.done]
           /\ eng' = [eng EXCEPT !.ready = s.ready,
                        !.bad = s.bad \/ threw,
                        !.run = ~threw,
                        !.phase = IF threw THEN "drain" ELSE @,
                        !.board = IF threw THEN 1 ELSE (i % Boards) + 1]
  /\ UNCHANGED child

\* Engine::stop().
StopRequested ==
  /\ eng.run
  /\ eng' = [eng EXCEPT !.run = FALSE]
  /\ UNCHANGED <<child, pipe, proc, handled>>

LoopEnds ==
  /\ eng.phase \in {"start", "loop"} /\ ~eng.run
  /\ eng' = [eng EXCEPT !.phase = "drain", !.board = 1]
  /\ UNCHANGED <<child, pipe, proc, handled>>

\* stop(): STOP unless END was seen (a lost STOP spoils the clean stop), then
\* the input of the worker is closed.
StopTells ==
  /\ eng.phase = "drain" /\ eng.board <= eng.started
  /\ LET i == eng.board IN
     /\ Child(i, [child[i] EXCEPT !.told = TRUE])
     /\ proc' = [proc EXCEPT ![i] = [proc[i] EXCEPT !.delivered = proc[i].sawEnd \/ ~Exited(i)]]
  /\ eng' = [eng EXCEPT !.phase = "read"]
  /\ UNCHANGED <<pipe, handled>>

\* stop(): reads through the engine's consumer until nothing is there.
StopReads ==
  /\ eng.phase = "read"
  /\ LET i == eng.board IN
     \E k \in Readable(i), fails \in BOOLEAN :
       LET r == Poll(i, k)
           s == Handle(i, r.out, TRUE, fails)
       IN  /\ proc' = [proc EXCEPT ![i] = [r.p EXCEPT !.delivered = @ /\ ~s.threw]]
           /\ pipe' = Unread(i, k)
           /\ handled' = [handled EXCEPT ![i] = s.done]
           /\ eng' = [eng EXCEPT !.ready = s.ready, !.bad = s.bad,
                        !.phase = IF r.out = <<>> \/ r.p.eof THEN "wait" ELSE @]
  /\ UNCHANGED child

\* A clean stop judged by the exit status alone.
CleanStop_Status(i) == Exited(i) /\ child[i].status = 0

CleanStop(i) ==
  LET p == proc[i]
  IN  p.delivered /\ ~p.failed /\ p.sawEnd /\ p.eof /\ Exited(i) /\ child[i].status = 0

\* A stop that waits for the worker however long it takes.
LastTry_Never(i) == FALSE
LastTry(i) == proc[i].tries + 1 >= MaxTries

StopDone(i) == Exited(i) /\ proc[i].eof

\* stop(): waitpid without blocking; another round after 20 ms, or the end,
\* with SIGKILL and a blocking waitpid if the worker is still there. The engine
\* judges the stop.
StopWaits ==
  /\ eng.phase = "wait"
  /\ LET i == eng.board IN
     \/ /\ ~StopDone(i) /\ ~LastTry(i)
        /\ proc' = [proc EXCEPT ![i] = [proc[i] EXCEPT !.tries = (@ + 1) % MaxTries]]
        /\ eng' = [eng EXCEPT !.phase = "read"]
        /\ UNCHANGED child
     \/ /\ StopDone(i) \/ LastTry(i)
        /\ child' = IF StopDone(i) \/ Exited(i) THEN child
                    ELSE [child EXCEPT ![i] = [child[i] EXCEPT !.phase = "exited", !.status = 9]]
        /\ proc' = [proc EXCEPT ![i] = [FreshProc EXCEPT !.pid = "reaped"]]
        /\ eng' = [eng EXCEPT !.phase = "drain", !.board = i + 1,
                     !.bad = @ \/ ~CleanStop(i)]
  /\ UNCHANGED <<pipe, handled>>

\* checkpoint(true): the last save, which may fail.
FinalSave ==
  /\ eng.phase = "drain" /\ eng.board > eng.started
  /\ eng' \in {[eng EXCEPT !.phase = "idle"],
               [eng EXCEPT !.phase = "idle", !.bad = TRUE]}
  /\ UNCHANGED <<child, pipe, proc, handled>>

Init ==
  /\ child = [i \in Board |-> NoChild]
  /\ pipe = [i \in Board |-> <<>>]
  /\ proc = [i \in Board |-> FreshProc]
  /\ eng = [phase |-> "start", run |-> TRUE, board |-> 1, started |-> 0, ready |-> {}, bad |-> FALSE]
  /\ handled = [i \in Board |-> <<>>]

Owner == StartBoard \/ LoopPoll \/ LoopEnds \/ StopTells \/ StopReads \/ StopWaits \/ FinalSave

Next ==
  \/ Owner \/ StopRequested
  \/ \E i \in Board :
       WorkerReady(i) \/ WorkerScan(i) \/ WorkerFails(i) \/ WorkerStops(i)
       \/ WorkerCloses(i) \/ WorkerExits(i) \/ WorkerDies(i)

\* The engine's thread is scheduled; nothing is assumed of the workers.
Spec == Init /\ [][Next]_vars /\ WF_vars(Owner)

-----------------------------------------------------------------------------
(* Properties.                                                             *)

\* "A clean stop requires END, exit status zero and no rejected or discarded
\* data": a survey that ends without an error has handled every scan of every
\* worker, once and in order, whatever was in the pipes when it stopped.
CompleteMeansAll ==
  (eng.phase = "idle" /\ ~eng.bad) =>
     \A i \in Board : handled[i] = [n \in 1..child[i].scans |-> n]

\* stop() returns, also when a worker hangs in a receiver call for ever.
StopReturns == ~eng.run ~> eng.phase = "idle"
=============================================================================
