---------------------------- MODULE GpsPositions ----------------------------
(***************************************************************************)
(* Receiver positions: the serial GPS reader (SerialGps, src/src/gps.cpp), *)
(* the fix history the engine keeps (src/src/engine.cpp) and the question  *)
(* every recorded measurement asks of it, position_at.                     *)
(*                                                                         *)
(* Two threads run here.  The client (the desktop's UI thread, or the CLI) *)
(* makes one engine call at a time; the reader thread polls the port,      *)
(* parses sentences, and hands each result to the engine through a         *)
(* callback that takes the engine's data mutex.  A result is stamped with  *)
(* the monotonic clock when it is parsed and enters the history later,     *)
(* when the callback gets the mutex: the clock and the client move in      *)
(* between.                                                                *)
(*                                                                         *)
(* Data: time is a small number of ticks.  A sentence is what parse_nmea   *)
(* makes of it, an epoch (the fix's UTC) and whether the fix is usable;    *)
(* sentences it refuses change nothing.  Coordinates, altitude, HDOP and   *)
(* the wording of a source are left out, and so are the displayed copies   *)
(* in the view (track, gps_status).                                        *)
(***************************************************************************)
EXTENDS Integers, SequencesExt, FiniteSetsExt

CONSTANTS
    Freshness,      \* seconds a serial fix may be carried forward (2.0)
    HistoryLimit,   \* entries after which position() trims (24000)
    TrimCount,      \* oldest entries removed by one trim (2000)
    MaxEpoch,       \* bound: epochs a receiver reports
    MaxTime,        \* bound: ticks of the monotonic clock
    MaxSentences,   \* bound: sentences parsed
    MaxCalls        \* bound: engine calls made by the client

ASSUME GpsAssumption ==
    /\ {Freshness, HistoryLimit, MaxEpoch, MaxTime, MaxSentences, MaxCalls} \subseteq Nat
    /\ TrimCount \in 1 .. HistoryLimit

VARIABLES
    clock,      \* steady_clock
    history,    \* Engine::Impl::fix_history
    currentFix, \* Engine::Impl::current_fix
    running,    \* SerialGps::Impl::running
    reader,     \* where the reader thread is; "none": no joinable thread
    inflight,   \* the fix deliver() is working on
    lastUtc,    \* last_utc, 0 for the code's -1
    lastMono,   \* last_monotonic
    hasFix,     \* last_fix.has_value()
    connection, \* connection.state
    freshMono,  \* fresh_fix_monotonic
    client,     \* the engine call in progress
    connects,   \* successful connections so far; labels a connection's fixes
    sentences,  \* sentences parsed (bounded)
    calls       \* engine calls made (bounded)

deviceVars == <<lastUtc, lastMono, hasFix>>
statusVars == <<connection, freshMono>>
engineVars == <<history, currentFix>>
vars == <<clock, engineVars, running, reader, inflight, deviceVars, statusVars,
          client, connects, sentences, calls>>

Readers == {"none", "loop", "chunk", "deliver", "callback", "lost", "lostCallback", "exited"}
Clients == {"idle", "connecting", "disconnecting", "fixing"}
States == {"Disconnected", "WaitingForFix", "ValidFix", "StaleFix", "ReadError"}

\* PositionFix, reduced to what association looks at.  conn says which
\* connection produced the fix; 0 is the engine itself.
Fix(mono, valid, manual, epoch, conn) ==
    [mono |-> mono, valid |-> valid, manual |-> manual, epoch |-> epoch, conn |-> conn]
Fixes == [mono : 0 .. MaxTime, valid : BOOLEAN, manual : BOOLEAN,
          epoch : 0 .. MaxEpoch, conn : 0 .. MaxCalls]
NoFix == [none |-> TRUE]

\* A default PositionFix stamped now: what an invalidation looks like.
Marker == Fix(clock, FALSE, FALSE, 0, 0)

-----------------------------------------------------------------------------
(* Association of a position with a time.                                  *)

\* The entries position_at does not skip, newest entry last.
SkipNone(h, target) == DOMAIN h                                      \* mutant
NotAfter(h, target) == {i \in DOMAIN h : h[i].mono <= target}

\* position_at: the newest entry that is not later than the target decides;
\* an invalid one ends the search and a serial fix must still be fresh.
position_at(h, target) ==
    LET upTo == NotAfter(h, target)
    IN  IF upTo = {} THEN NoFix
        ELSE LET fix == h[Max(upTo)]
             IN  IF fix.valid /\ (fix.manual \/ target - fix.mono <= Freshness)
                 THEN fix ELSE NoFix

\* The end of position(): a history that grew past its limit loses its oldest
\* entries.
Pushed(h, fix) ==
    LET longer == Append(h, fix)
    IN  IF Len(longer) > HistoryLimit
        THEN SubSeq(longer, TrimCount + 1, Len(longer)) ELSE longer

\* Engine position(): the fix becomes current and enters the history.
position(fix) ==
    /\ currentFix' = fix
    /\ history' = Pushed(history, fix)

\* clear_live_position_locked(): no trim here.
clear_live_position ==
    /\ currentFix' = NoFix
    /\ history' = Append(history, Marker)

-----------------------------------------------------------------------------
(* The reader thread.                                                      *)

\* read_loop() tests running only between two reads.
IgnoreStop == TRUE                                                   \* mutant
KeepReading == running

Poll ==
    /\ reader = "loop"
    /\ reader' = IF KeepReading THEN "chunk" ELSE "exited"
    /\ UNCHANGED <<clock, engineVars, running, inflight, deviceVars, statusVars,
                   client, connects, sentences, calls>>

\* bytes(): the end of the bytes one read returned.
EndChunk ==
    /\ reader = "chunk"
    /\ reader' = "loop"
    /\ UNCHANGED <<clock, engineVars, running, inflight, deviceVars, statusVars,
                   client, connects, sentences, calls>>

\* bytes(): a line is complete and parse_nmea accepts it.  One read may hold
\* several lines, and running is not looked at between them.
Sentence(epoch, valid) ==
    /\ reader = "chunk"
    /\ sentences < MaxSentences
    /\ sentences' = sentences + 1
    /\ inflight' = Fix(clock, valid, FALSE, epoch, connects)
    /\ reader' = "deliver"
    /\ UNCHANGED <<clock, engineVars, running, deviceVars, statusVars,
                   client, connects, calls>>

\* disconnected(): poll or read failed.  A stop() that cleared running first
\* keeps the failure silent.
ReadFails ==
    /\ reader = "loop"
    /\ IF running
       THEN /\ running' = FALSE
            /\ connection' = "ReadError"
            /\ inflight' = Marker
            /\ reader' = "lost"
       ELSE /\ reader' = "exited"
            /\ UNCHANGED <<running, connection, inflight>>
    /\ UNCHANGED <<clock, engineVars, deviceVars, freshMono, client, connects,
                   sentences, calls>>

\* deliver(), the reader's own state: an epoch older than the last one is
\* turned into an invalid fix, the same epoch keeps its first reception time.
OutOfOrder(fix) == fix.valid /\ fix.epoch < lastUtc
NoEpochMemory(fix) == FALSE                                          \* mutant
SameEpoch(fix) == fix.valid /\ fix.epoch = lastUtc
Delivered(fix) ==
    CASE OutOfOrder(fix) -> [fix EXCEPT !.valid = FALSE]
      [] SameEpoch(fix)  -> [fix EXCEPT !.mono = lastMono]
      [] OTHER           -> fix

\* deliver(), the connection status: a read error is never overwritten.
OverwriteReadError == FALSE                                          \* mutant
KeepsReadError == connection = "ReadError"

\* deliver(): the time the status counts the fix's age from.
FreshFrom(fix) == fix.mono

deliver ==
    /\ reader \in {"deliver", "lost"}
    /\ LET fix == Delivered(inflight)
       IN  /\ inflight' = fix
           /\ lastUtc' = IF fix.valid THEN fix.epoch ELSE lastUtc
           /\ lastMono' = IF fix.valid THEN fix.mono ELSE lastMono
           /\ hasFix' = (hasFix \/ fix.valid)
           /\ IF KeepsReadError THEN UNCHANGED statusVars
              ELSE /\ connection' = CASE fix.valid -> "ValidFix"
                                      [] ~fix.valid /\ hasFix -> "StaleFix"
                                      [] OTHER -> "WaitingForFix"
                   /\ freshMono' = IF fix.valid THEN FreshFrom(fix) ELSE freshMono
    /\ reader' = IF reader = "lost" THEN "lostCallback" ELSE "callback"
    /\ UNCHANGED <<clock, engineVars, running, client, connects, sentences, calls>>

\* connect_gps() holds the engine's data mutex until its marker is added.
MutexFree == client # "connecting"

AfterCallback == IF reader = "lostCallback" THEN "exited" ELSE "chunk"

\* The callback: Engine::Impl::position under the data mutex.
Callback ==
    /\ reader \in {"callback", "lostCallback"}
    /\ MutexFree
    /\ position(inflight)
    /\ inflight' = NoFix
    /\ reader' = AfterCallback
    /\ UNCHANGED <<clock, running, deviceVars, statusVars, client,
                   connects, sentences, calls>>

\* The callback throws (the history cannot grow): deliver() catches it.
CallbackFails ==
    /\ reader \in {"callback", "lostCallback"}
    /\ MutexFree
    /\ currentFix' \in {currentFix, inflight}
    /\ running' = FALSE
    /\ connection' = "ReadError"
    /\ inflight' = NoFix
    /\ reader' = AfterCallback
    /\ UNCHANGED <<clock, history, deviceVars, freshMono, client,
                   connects, sentences, calls>>

\* SerialGps::status(): a valid fix that has aged is reported as stale.
status ==
    IF connection = "ValidFix" /\ clock - freshMono > Freshness THEN "StaleFix" ELSE connection

ReaderStep ==
    \/ Poll \/ EndChunk \/ ReadFails \/ deliver \/ Callback \/ CallbackFails
    \/ \E epoch \in 1 .. MaxEpoch, valid \in BOOLEAN : Sentence(epoch, valid)

-----------------------------------------------------------------------------
(* The client's engine calls.                                              *)

Call ==
    /\ client = "idle"
    /\ calls < MaxCalls
    /\ calls' = calls + 1

\* connect_gps() with the port opened: SerialGps::start() resets the reader's
\* memory and starts the thread.  A joinable thread refuses the call.
ConnectGps ==
    /\ Call
    /\ reader = "none"
    /\ lastUtc' = 0
    /\ hasFix' = FALSE
    /\ running' = TRUE
    /\ connection' = "WaitingForFix"
    /\ freshMono' = 0
    /\ reader' = "loop"
    /\ connects' = connects + 1
    /\ client' = "connecting"
    /\ UNCHANGED <<clock, engineVars, inflight, lastMono, sentences>>

\* connect_gps() once start() has returned: the marker of the new source.
ConnectMarker ==
    /\ client = "connecting"
    /\ clear_live_position
    /\ client' = "idle"
    /\ UNCHANGED <<clock, running, reader, inflight, deviceVars, statusVars,
                   connects, sentences, calls>>

\* connect_gps() when the port or the thread cannot be opened: failed().
ConnectFails ==
    /\ Call
    /\ reader = "none"
    /\ connection' = "ReadError"
    /\ UNCHANGED <<clock, engineVars, running, reader, inflight, deviceVars,
                   freshMono, client, connects, sentences>>

\* disconnect_gps() and set_fixed_position() begin with SerialGps::stop():
\* running is cleared and the thread is joined.
Stop(next) ==
    /\ Call
    /\ running' = FALSE
    /\ client' = next
    /\ UNCHANGED <<clock, engineVars, reader, inflight, deviceVars, statusVars,
                   connects, sentences>>

Ended == reader \in {"none", "exited"}
NoJoin == TRUE                                                       \* mutant
Joined == Ended

\* The rest of stop() after the join: the thread object is empty again.
Stopped ==
    /\ Joined
    /\ reader' = IF Ended THEN "none" ELSE reader
    /\ hasFix' = FALSE
    /\ connection' = "Disconnected"
    /\ freshMono' = 0
    /\ client' = "idle"
    /\ UNCHANGED <<clock, running, inflight, lastUtc, lastMono, connects,
                   sentences, calls>>

\* disconnect_gps() after stop(): a manual position survives.
DisconnectGps ==
    /\ client = "disconnecting"
    /\ Stopped
    /\ IF currentFix # NoFix /\ currentFix.manual
       THEN UNCHANGED engineVars ELSE clear_live_position

\* set_fixed_position() after stop().
SetFixedPosition ==
    /\ client = "fixing"
    /\ Stopped
    /\ position(Fix(clock, TRUE, TRUE, 0, 0))

\* clear_position(): the reader, if there is one, keeps running.
ClearPosition ==
    /\ Call
    /\ clear_live_position
    /\ UNCHANGED <<clock, running, reader, inflight, deviceVars, statusVars,
                   client, connects, sentences>>

\* start() of a new survey and new_session(): the history restarts from the
\* current fix.
FromCurrent == IF currentFix = NoFix THEN <<>> ELSE <<currentFix>>
NewSession ==
    /\ Call
    /\ history' = FromCurrent
    /\ UNCHANGED <<clock, currentFix, running, reader, inflight, deviceVars,
                   statusVars, client, connects, sentences>>

ClientReturns == ConnectMarker \/ DisconnectGps \/ SetFixedPosition
ClientStep ==
    \/ ConnectGps \/ ConnectFails \/ ClearPosition \/ NewSession
    \/ Stop("disconnecting") \/ Stop("fixing")
    \/ ClientReturns

Tick ==
    /\ clock < MaxTime
    /\ clock' = clock + 1
    /\ UNCHANGED <<engineVars, running, reader, inflight, deviceVars, statusVars,
                   client, connects, sentences, calls>>

Init ==
    /\ clock = 0
    /\ history = <<>>
    /\ currentFix = NoFix
    /\ running = FALSE
    /\ reader = "none"
    /\ inflight = NoFix
    /\ lastUtc = 0 /\ lastMono = 0 /\ hasFix = FALSE
    /\ connection = "Disconnected"
    /\ freshMono = 0
    /\ client = "idle"
    /\ connects = 0 /\ sentences = 0 /\ calls = 0

Next == ReaderStep \/ ClientStep \/ Tick
Spec == Init /\ [][Next]_vars

\* The operating system runs both threads.  A read returns at most 512 bytes,
\* so the reader leaves its chunk; poll waits at most 100 ms, so it returns to
\* the test of running.
FairSpec ==
    /\ Spec
    /\ WF_vars(Poll) /\ WF_vars(EndChunk) /\ WF_vars(deliver) /\ WF_vars(Callback)
    /\ WF_vars(ClientReturns)

-----------------------------------------------------------------------------
(* What the positions promise.                                             *)

\* Every variable stays in its domain; nothing is stamped in the future.
TypeOK ==
    /\ clock \in 0 .. MaxTime
    /\ \A i \in DOMAIN history : history[i] \in Fixes /\ history[i].mono <= clock
    /\ Len(history) <= HistoryLimit + calls
    /\ currentFix \in Fixes \cup {NoFix} /\ inflight \in Fixes \cup {NoFix}
    /\ running \in BOOLEAN /\ hasFix \in BOOLEAN
    /\ reader \in Readers /\ client \in Clients /\ connection \in States
    /\ lastUtc \in 0 .. MaxEpoch /\ lastMono \in 0 .. clock /\ freshMono \in 0 .. clock
    /\ connects \in 0 .. calls /\ calls \in 0 .. MaxCalls
    /\ sentences \in 0 .. MaxSentences

\* Once disconnect_gps() or set_fixed_position() has returned, nothing the
\* serial receiver said is associated with the present: a fix that was being
\* parsed or waited for the mutex when stop() began has been overtaken by the
\* marker or by the manual position (the join precedes both).
QuietAfterStop ==
    client = "idle" /\ (reader = "none" \/ connection = "Disconnected") =>
        \A fix \in {currentFix, position_at(history, clock)} :
            fix # NoFix => fix.manual

\* Replaying an epoch does not make it fresher (the comment in deliver()): all
\* valid fixes one connection reported for an epoch carry the time the epoch
\* was first received, whatever arrived between them.
EpochKeepsItsTime ==
    \A i, j \in DOMAIN history :
        /\ history[i].valid /\ history[j].valid
        /\ history[i].conn > 0 /\ history[i].conn = history[j].conn
        /\ history[i].epoch = history[j].epoch
        => history[i].mono = history[j].mono

\* The status tells the truth.  It calls a fix valid only while a new epoch was
\* received within Freshness: a receiver stuck on one epoch, re-sent in every
\* sentence, turns stale.  And a reader that ended on its own (read failure,
\* failed callback) is reported as a read error until the operator's next call,
\* although its last act is to deliver an invalid fix.
StatusIsHonest ==
    /\ status = "ValidFix" => clock - lastMono <= Freshness
    /\ reader = "exited" /\ client = "idle" => connection = "ReadError"

\* "A later loss of GPS must not erase a valid association for earlier sample
\* time" (gps.hpp): when the history grows, a time that had a serial fix keeps
\* one, unless the new entry is an invalidation at or before that time.  A
\* replayed epoch enters the history behind newer entries and still hides no
\* position.  (For a manual position this needs connect_gps() to add its marker
\* within Freshness of the first sentence: the new source's first fix, stamped
\* before the marker, otherwise hides the manual position before it.)
AssociationKept ==
    [][LET new == Last(history')
       IN  Len(history') = Len(history) + 1 =>
             \A t \in 0 .. clock :
                position_at(history, t) # NoFix /\ ~position_at(history, t).manual =>
                    \/ position_at(history', t) # NoFix
                    \/ ~new.valid /\ new.mono <= t]_vars

\* disconnect_gps(), set_fixed_position() and connect_gps() return: the reader
\* notices that running was cleared and neither thread waits for the other.
CallsReturn == client # "idle" ~> client = "idle"

\* "No fix crosses a marker" (gps.hpp): the fix associated with a time is no
\* older than a loss of the fix that the same receiver reported up to that
\* time.  (Losses and fixes of one connection are delivered by one thread, in
\* the order they were parsed.)
NoFixCrossesMarker ==
    \A t \in 0 .. clock :
        LET fix == position_at(history, t)
        IN  fix # NoFix =>
              \A i \in NotAfter(history, t) :
                  ~history[i].valid /\ history[i].conn = fix.conn
                      => history[i].mono <= fix.mono
=============================================================================
