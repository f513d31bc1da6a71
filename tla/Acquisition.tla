----------------------------- MODULE Acquisition -----------------------------
(***************************************************************************)
(* One survey of the engine (src/src/engine.cpp): the input callback that  *)
(* fills the single-producer single-consumer ring, the worker thread that  *)
(* measures blocks, records coverage gaps and checkpoints the session, and *)
(* the control thread that starts, saves, stops and resumes under the      *)
(* lifecycle mutex.  The survey is recorded; a store operation may fail.   *)
(*                                                                         *)
(* Sample coordinates are absolute over the survey (sample_base plus the   *)
(* coordinate in the run).  "tiles" and "gaps" are what the store was      *)
(* given, by the samples they cover.                                       *)
(***************************************************************************)
EXTENDS Integers, FiniteSets

CONSTANTS
    Receivers,    \* subset of {"synthetic", "paced", "hackrf", "rtl"}
    PoolBlocks,   \* pool_blocks
    MaximumBlock, \* samples that fit into a ring block (block_bytes / 2)
    FrameSize,    \* fft_size
    TileFrames,   \* frames_per_tile
    MaxSamples,   \* bound: sample coordinates of the survey
    MaxSaves,     \* bound: save requests in a run
    MaxRuns       \* bound: acquisition segments (2048 in the code)

ASSUME AcquisitionAssumption ==
    /\ Receivers \subseteq {"synthetic", "paced", "hackrf", "rtl"}
    /\ PoolBlocks \in Nat \ {0} /\ MaximumBlock \in Nat \ {0}
    /\ FrameSize \in Nat \ {0} /\ TileFrames \in Nat \ {0}
    /\ MaxSamples \in Nat /\ MaxSaves \in Nat /\ MaxRuns \in Nat

VARIABLES
    run, inputFinished,                        \* the atomic flags
    viewRunning, failed, finalSaveConfirmed, saveRequested, saveCompleted,
    upc, request, asked,                       \* control thread
    receiver, ipc, dpc, incoming, nextSample, dropped, fresh,     \* input
    pool, head, tail,                          \* the ring
    wpc, samples, expected, pending, openFrames, anchored, stalled,   \* worker
    delivered, viewDropped, dropBase, checkpoint, durable,  \* view counters, saved copies
    sampleBase, runs, tiles, gaps

inputVars   == <<ipc, dpc, incoming, nextSample, dropped, fresh>>
ringVars    == <<pool, head, tail>>
workVars    == <<samples, expected, pending, openFrames, anchored, stalled>>
storeVars   == <<delivered, viewDropped, dropBase, checkpoint, durable, tiles, gaps>>
statusVars  == <<viewRunning, failed, finalSaveConfirmed, saveRequested, saveCompleted>>
controlVars == <<upc, request, asked>>
surveyVars  == <<receiver, sampleBase, runs>>
vars == <<run, inputFinished, inputVars, ringVars, wpc, workVars, storeVars, statusVars,
          controlVars, surveyVars>>

EmptyBlock == [first |-> 0, count |-> 0]
Slot(i) == i % PoolBlocks
Interval(first, end) == first .. end - 1
\* fail(): also wakes a control thread that waits for a save.
Fail == run' = FALSE /\ failed' = TRUE /\ viewRunning' = FALSE

-----------------------------------------------------------------------------
(* The input side.                                                         *)

InputOnly == UNCHANGED <<wpc, workVars, storeVars, finalSaveConfirmed, saveRequested,
                         saveCompleted, controlVars, surveyVars>>
OffByOne == head - tail > PoolBlocks                                 \* mutant
RingFull == head - tail >= PoolBlocks

\* deliver() of n samples: it reads run, takes the coordinates and only then finds
\* out whether the block fits.  The paced synthetic source waits for room first.
DeliverEnter(n) ==
    /\ ipc = "streaming" /\ dpc = "idle" /\ run
    /\ sampleBase + nextSample + n <= MaxSamples
    /\ receiver = "paced" => ~RingFull
    /\ incoming' = [first |-> 0, count |-> n] /\ dpc' = "enter"
    /\ UNCHANGED <<run, inputFinished, ipc, nextSample, dropped, fresh, ringVars,
                   viewRunning, failed>>
    /\ InputOnly

DeliverNumber ==
    /\ dpc = "enter" /\ dpc' = "claim" /\ fresh' = TRUE
    /\ incoming' = [incoming EXCEPT !.first = nextSample]
    /\ nextSample' = nextSample + incoming.count
    /\ UNCHANGED <<run, inputFinished, ipc, dropped, ringVars, viewRunning, failed>>
    /\ InputOnly

DeliverClaim ==
    /\ dpc = "claim"
    /\ IF incoming.count > MaximumBlock \/ RingFull
       THEN dropped' = dropped + incoming.count /\ dpc' = "idle" /\ incoming' = EmptyBlock
       ELSE dpc' = "write" /\ UNCHANGED <<dropped, incoming>>
    /\ UNCHANGED <<run, inputFinished, ipc, nextSample, fresh, ringVars, viewRunning,
                   failed>>
    /\ InputOnly

DeliverWrite ==
    /\ dpc = "write" /\ dpc' = "idle" /\ incoming' = EmptyBlock
    /\ pool' = [pool EXCEPT ![Slot(head)] = incoming] /\ head' = head + 1
    /\ UNCHANGED <<run, inputFinished, ipc, nextSample, dropped, fresh, tail,
                   viewRunning, failed>>
    /\ InputOnly

\* Two seconds pass without a call of deliver(): not between the arrival of a
\* block and the end of the worker's wait of 30 ms for one.
Silence ==
    /\ ipc = "streaming" /\ dpc = "idle" /\ fresh /\ fresh' = FALSE
    /\ wpc = "watch" => head = tail
    /\ UNCHANGED <<run, inputFinished, ipc, dpc, incoming, nextSample, dropped, ringVars,
                   viewRunning, failed>>
    /\ InputOnly

\* The synthetic source ends when run is false; the RTL-SDR stream also ends by
\* itself, which is a failure of a running survey.  A HackRF stream ends only when
\* the control thread stops it.
SourceEnds ==
    /\ ipc = "streaming" /\ dpc = "idle"
    /\ (receiver \in {"synthetic", "paced"} /\ ~run) \/ receiver = "rtl"
    /\ ipc' = "ended"
    /\ IF run THEN Fail ELSE UNCHANGED <<run, failed, viewRunning>>
    /\ inputFinished' = TRUE
    /\ UNCHANGED <<dpc, incoming, nextSample, dropped, fresh, ringVars>>
    /\ InputOnly

-----------------------------------------------------------------------------
(* The worker thread, process().                                           *)

WorkerOnly == UNCHANGED <<inputFinished, inputVars, controlVars, surveyVars>>
StatusUnchanged == UNCHANGED <<run, statusVars>>

\* The loop condition, then the save request.
LoopHead ==
    /\ wpc = "loop"
    /\ wpc' = IF ~run /\ inputFinished /\ tail = head THEN "final"
              ELSE IF saveRequested > saveCompleted THEN "checkpoint" ELSE "pick"
    /\ UNCHANGED <<ringVars, workVars, storeVars>>
    /\ StatusUnchanged /\ WorkerOnly

NoCopy == [request |-> 0, delivered |-> 0]
\* checkpoint(), called for a request at the head of the loop or periodically at
\* its end: the view and the request number are copied under the mutex, the copy
\* is committed, and that request is confirmed.
StartCopy == \/ wpc = "checkpoint" /\ wpc' = "commit"
             \/ wpc = "periodic" /\ wpc' = "periodic_commit"
ConfirmBeforeCommit ==                                               \* mutant
    /\ StartCopy
    /\ checkpoint' = [request |-> saveRequested, delivered |-> delivered]
    /\ saveCompleted' = saveRequested
    /\ UNCHANGED <<run, viewRunning, failed, finalSaveConfirmed, saveRequested, ringVars,
                   workVars, delivered, viewDropped, dropBase, durable, tiles, gaps>>
    /\ WorkerOnly
CheckpointCopy ==
    /\ StartCopy
    /\ checkpoint' = [request |-> saveRequested, delivered |-> delivered]
    /\ UNCHANGED <<ringVars, workVars, delivered, viewDropped, dropBase, durable, tiles, gaps>>
    /\ StatusUnchanged /\ WorkerOnly

CheckpointCommit ==
    /\ \/ wpc = "commit" /\ wpc' = "pick"
       \/ wpc = "periodic_commit" /\ wpc' = "loop"
    /\ checkpoint' = NoCopy
    /\ durable' = checkpoint.delivered /\ saveCompleted' = checkpoint.request
    /\ UNCHANGED <<run, viewRunning, failed, finalSaveConfirmed, saveRequested, ringVars,
                   workVars, delivered, viewDropped, dropBase, tiles, gaps>>
    /\ WorkerOnly

\* An empty ring is waited on for 30 ms; a silent receiver then stops the run.
Pick ==
    /\ wpc = "pick"
    /\ IF tail # head THEN wpc' = "read" ELSE wpc' = "watch"
    /\ UNCHANGED <<ringVars, workVars, storeVars>>
    /\ StatusUnchanged /\ WorkerOnly

Watch ==
    /\ wpc = "watch"
    /\ wpc' = IF run /\ receiver \in {"hackrf", "rtl"} /\ ~fresh THEN "stall" ELSE "loop"
    /\ UNCHANGED <<ringVars, workVars, storeVars>>
    /\ StatusUnchanged /\ WorkerOnly

\* source_stall is a gap in time without a sample count.
Stall ==
    /\ wpc = "stall" /\ wpc' = "final"
    /\ gaps' = IF anchored THEN gaps \cup {[first |-> sampleBase + expected,
                      end |-> sampleBase + expected, reason |-> "source_stall"]}
               ELSE gaps
    /\ stalled' = TRUE /\ Fail
    /\ UNCHANGED <<finalSaveConfirmed, saveRequested, saveCompleted, ringVars, samples,
                   expected, pending, openFrames, anchored, delivered, viewDropped,
                   dropBase, checkpoint, durable, tiles>>
    /\ WorkerOnly

\* The complete frames of the open tile, and the samples of the open frame.
TileEnd   == sampleBase + expected - pending
TileStart == TileEnd - openFrames * FrameSize
\* record_gap ignores an empty interval.
GapRecord(first, end, reason) ==
    IF end <= first THEN {}
    ELSE {[first |-> sampleBase + first, end |-> sampleBase + end, reason |-> reason]}
PartialGap == GapRecord(expected - pending, expected, "partial_fft")

\* A block from the ring is copied to the worker's own buffer.  A hole before it
\* flushes the spectrum, which emits the open tile and drops the open frame, and
\* records both losses.
ReadBlock ==
    LET block == pool[Slot(tail)]
    IN  /\ wpc = "read" /\ wpc' = "release"
        /\ samples' = block.count /\ anchored' = TRUE
        /\ IF block.first # expected
           THEN /\ tiles' = tiles \cup Interval(TileStart, TileEnd)
                /\ gaps' = gaps \cup PartialGap
                                \cup GapRecord(expected, block.first, "application_drop")
                /\ pending' = 0 /\ openFrames' = 0
           ELSE UNCHANGED <<tiles, gaps, pending, openFrames>>
        /\ expected' = block.first
        /\ UNCHANGED <<ringVars, stalled, delivered, viewDropped, dropBase, checkpoint, durable>>
        /\ StatusUnchanged /\ WorkerOnly

\* The slot is erased and given back, the samples are counted.
ReleaseBlock ==
    /\ wpc = "release" /\ wpc' = "feed"
    /\ pool' = [pool EXCEPT ![Slot(tail)] = EmptyBlock] /\ tail' = tail + 1
    /\ delivered' = delivered + samples
    /\ UNCHANGED <<head, workVars, viewDropped, dropBase, checkpoint, durable, tiles,
                   gaps>>
    /\ StatusUnchanged /\ WorkerOnly

\* The frames of complete tiles.
CompleteFrames(frames) == (frames \div TileFrames) * TileFrames
\* spectrum.feed: complete frames join the open tile, complete tiles are stored.
\* The counters are published, and once a second the session is checkpointed.
FeedBlock ==
    LET all    == pending + samples
        frames == openFrames + all \div FrameSize
        stored == CompleteFrames(frames)
    IN  /\ wpc = "feed" /\ wpc' \in {"loop", "periodic"}
        /\ tiles' = tiles \cup Interval(TileStart, TileStart + stored * FrameSize)
        /\ pending' = all % FrameSize /\ openFrames' = frames - stored
        /\ expected' = expected + samples /\ samples' = 0
        /\ viewDropped' = dropBase + dropped
        /\ viewRunning' = IF failed THEN viewRunning ELSE run
        /\ UNCHANGED <<run, failed, finalSaveConfirmed, saveRequested, saveCompleted, ringVars,
                       anchored, stalled, delivered, dropBase, checkpoint, durable, gaps>>
        /\ WorkerOnly

\* Finalization: the spectrum is flushed, the last losses are recorded, the view
\* is committed as final.
Finalize ==
    /\ wpc = "final" /\ wpc' = "final_commit"
    /\ tiles' = tiles \cup Interval(TileStart, TileEnd)
    /\ gaps' = gaps \cup PartialGap \cup GapRecord(expected, nextSample, "application_drop")
    /\ pending' = 0 /\ openFrames' = 0
    /\ viewDropped' = dropBase + dropped
    /\ checkpoint' = [request |-> 0, delivered |-> delivered]
    /\ UNCHANGED <<ringVars, samples, expected, anchored, stalled, delivered, dropBase,
                   durable>>
    /\ StatusUnchanged /\ WorkerOnly

FinalCommit ==
    /\ wpc = "final_commit" /\ wpc' = "end" /\ checkpoint' = NoCopy
    /\ durable' = checkpoint.delivered
    /\ finalSaveConfirmed' = TRUE /\ saveCompleted' = saveRequested
    /\ UNCHANGED <<run, viewRunning, failed, saveRequested, ringVars, workVars, delivered,
                   viewDropped, dropBase, tiles, gaps>>
    /\ WorkerOnly

\* The store throws: fail(), nothing more is measured or confirmed.
StoreThrows ==
    /\ wpc \in {"commit", "periodic_commit", "stall", "read", "feed", "final", "final_commit"}
    /\ wpc' = "end"
    /\ Fail
    /\ UNCHANGED <<finalSaveConfirmed, saveRequested, saveCompleted, ringVars, workVars,
                   storeVars>>
    /\ WorkerOnly

WorkerEnds ==
    /\ wpc = "end" /\ wpc' = "exited" /\ viewRunning' = FALSE
    /\ UNCHANGED <<run, failed, finalSaveConfirmed, saveRequested, saveCompleted, ringVars,
                   workVars, storeVars>>
    /\ WorkerOnly

-----------------------------------------------------------------------------
(* The control thread.                                                     *)

ControlOnly == UNCHANGED <<wpc, workVars, storeVars>>

\* save_locked() while receiving: ask the worker and wait up to five seconds.
SaveRequest ==
    /\ upc = "idle" /\ viewRunning /\ run /\ saveRequested < MaxSaves
    /\ saveRequested' = saveRequested + 1
    /\ upc' = "saving" /\ request' = saveRequested + 1 /\ asked' = delivered
    /\ UNCHANGED <<run, inputFinished, inputVars, ringVars, viewRunning, failed,
                   finalSaveConfirmed, saveCompleted, surveyVars>>
    /\ ControlOnly

KeepWaiting == FALSE                                                 \* mutant
NoAnswerComing == ~viewRunning
SaveReturns ==
    /\ upc = "saving"
    /\ \/ saveCompleted >= request /\ upc' = "saved"
       \/ saveCompleted < request /\ NoAnswerComing /\ upc' = "unsaved"
    /\ UNCHANGED <<run, inputFinished, inputVars, ringVars, statusVars, request, asked,
                   surveyVars>>
    /\ ControlOnly

SaveTimeout ==
    /\ upc = "saving" /\ saveCompleted < request /\ viewRunning /\ upc' = "unsaved"
    /\ UNCHANGED <<run, inputFinished, inputVars, ringVars, statusVars, request, asked,
                   surveyVars>>
    /\ ControlOnly

SaveShown ==
    /\ upc \in {"saved", "unsaved"} /\ upc' = "idle" /\ request' = 0 /\ asked' = 0
    /\ UNCHANGED <<run, inputFinished, inputVars, ringVars, statusVars, surveyVars>>
    /\ ControlOnly

\* stop_locked(): clear run, stop the input and wait for it, let the worker drain,
\* join it, free the ring.
StopRun ==
    /\ upc = "idle" /\ upc' = "stop_input" /\ run' = FALSE
    /\ UNCHANGED <<inputFinished, inputVars, ringVars, statusVars, request, asked,
                   surveyVars>>
    /\ ControlOnly

\* hackrf_stop_rx and the RTL pump return after the last callback has.
EarlyFinish == TRUE                                                  \* mutant
InputStopped == dpc = "idle" /\ (receiver = "hackrf" \/ ipc = "ended")
OnlySourceFlags == inputFinished                                     \* mutant
InputFlag == TRUE
StopInput ==
    /\ upc = "stop_input" /\ InputStopped /\ upc' = "join"
    /\ ipc' = "ended" /\ inputFinished' = InputFlag
    /\ UNCHANGED <<run, dpc, incoming, nextSample, dropped, fresh, ringVars, statusVars,
                   request, asked, surveyVars>>
    /\ ControlOnly

StopJoin ==
    /\ upc = "join" /\ wpc = "exited" /\ upc' = "stopped" /\ viewRunning' = FALSE
    /\ UNCHANGED <<run, inputFinished, inputVars, ringVars, failed, finalSaveConfirmed,
                   saveRequested, saveCompleted, request, asked, surveyVars>>
    /\ ControlOnly

\* start() of a stopped survey: refused unless the last run was finalized and its
\* saved copy verified; the sample base moves past the coordinates of that run.
KeepBase == sampleBase                                               \* mutant
NextBase == sampleBase + nextSample
Resume ==
    /\ upc = "stopped" /\ finalSaveConfirmed /\ durable = delivered /\ runs < MaxRuns
    /\ upc' = "idle" /\ runs' = runs + 1 /\ sampleBase' = NextBase
    /\ run' = TRUE /\ inputFinished' = FALSE /\ viewRunning' = TRUE /\ failed' = FALSE
    /\ finalSaveConfirmed' = FALSE /\ saveRequested' = 0 /\ saveCompleted' = 0
    /\ ipc' = "streaming" /\ nextSample' = 0 /\ dropped' = 0 /\ fresh' = TRUE
    /\ pool' = [i \in 0 .. PoolBlocks - 1 |-> EmptyBlock] /\ head' = 0 /\ tail' = 0
    /\ wpc' = "loop" /\ samples' = 0 /\ expected' = 0 /\ pending' = 0 /\ openFrames' = 0
    /\ anchored' = (receiver \in {"synthetic", "paced"})
    /\ dropBase' = viewDropped
    /\ UNCHANGED <<dpc, incoming, request, asked, stalled, delivered, viewDropped, checkpoint,
                   durable, tiles, gaps, receiver>>

\* The store refuses the new segment, or the receiver does not start: the begun
\* segment is finalized at once, if the store allows.
ResumeFails ==
    /\ upc = "stopped" /\ finalSaveConfirmed /\ durable = delivered /\ runs < MaxRuns
    /\ runs' = runs + 1 /\ sampleBase' = NextBase /\ nextSample' = 0 /\ dropped' = 0
    /\ saveRequested' = 0 /\ saveCompleted' = 0 /\ failed' = FALSE
    /\ finalSaveConfirmed' \in BOOLEAN
    /\ pool' = [i \in 0 .. PoolBlocks - 1 |-> EmptyBlock] /\ head' = 0 /\ tail' = 0
    /\ expected' = 0 /\ dropBase' = viewDropped
    /\ UNCHANGED <<run, inputFinished, viewRunning, upc, request, asked, receiver, ipc, dpc,
                   incoming, fresh, wpc, samples, pending, openFrames, anchored, stalled,
                   delivered, viewDropped, checkpoint, durable, tiles, gaps>>

-----------------------------------------------------------------------------
Init ==
    /\ receiver \in Receivers
    /\ run = TRUE /\ inputFinished = FALSE
    /\ viewRunning = TRUE /\ failed = FALSE /\ finalSaveConfirmed = FALSE
    /\ saveRequested = 0 /\ saveCompleted = 0
    /\ upc = "idle" /\ request = 0 /\ asked = 0
    /\ ipc = "streaming" /\ dpc = "idle" /\ incoming = EmptyBlock
    /\ nextSample = 0 /\ dropped = 0 /\ fresh = TRUE
    /\ pool = [i \in 0 .. PoolBlocks - 1 |-> EmptyBlock] /\ head = 0 /\ tail = 0
    /\ wpc = "loop" /\ samples = 0 /\ expected = 0 /\ pending = 0 /\ openFrames = 0
    /\ anchored = (receiver \in {"synthetic", "paced"}) /\ stalled = FALSE
    /\ delivered = 0 /\ viewDropped = 0 /\ dropBase = 0
    /\ checkpoint = NoCopy /\ durable = 0
    /\ sampleBase = 0 /\ runs = 1 /\ tiles = {} /\ gaps = {}

Deliver == DeliverNumber \/ DeliverClaim \/ DeliverWrite
Worker == \/ LoopHead \/ CheckpointCopy \/ CheckpointCommit \/ Pick \/ Watch \/ Stall
          \/ ReadBlock \/ ReleaseBlock \/ FeedBlock \/ Finalize \/ FinalCommit \/ WorkerEnds
Stopping == StopInput \/ StopJoin
Next ==
    \/ (\E n \in 1 .. MaximumBlock + 1 : DeliverEnter(n)) \/ Deliver \/ Silence \/ SourceEnds
    \/ Worker \/ StoreThrows
    \/ SaveRequest \/ SaveReturns \/ SaveTimeout \/ SaveShown
    \/ StopRun \/ Stopping \/ Resume \/ ResumeFails
    \/ (upc = "stopped" /\ UNCHANGED vars)
Spec == Init /\ [][Next]_vars

\* A callback that has begun returns, the worker thread runs, a synthetic or
\* cancelled stream ends, and the control thread goes on with a call it has begun.
\* No block has to arrive, no save has to be asked for or to time out.
Fairness ==
    /\ WF_vars(Deliver) /\ WF_vars(Worker) /\ WF_vars(~run /\ SourceEnds)
    /\ WF_vars(SaveReturns) /\ WF_vars(Stopping)
FairSpec == Spec /\ Fairness

-----------------------------------------------------------------------------
(* Properties.                                                             *)

BlockType == [first : Nat, count : Nat]

StatusTypes ==
    /\ run \in BOOLEAN /\ inputFinished \in BOOLEAN /\ viewRunning \in BOOLEAN
    /\ failed \in BOOLEAN /\ finalSaveConfirmed \in BOOLEAN
    /\ saveRequested \in Nat /\ saveCompleted \in Nat
ControlTypes ==
    /\ upc \in {"idle", "saving", "saved", "unsaved", "stop_input", "join", "stopped"}
    /\ request \in Nat /\ asked \in Nat /\ receiver \in Receivers
    /\ sampleBase \in Nat /\ runs \in Nat
InputTypes ==
    /\ ipc \in {"streaming", "ended"} /\ dpc \in {"idle", "enter", "claim", "write"}
    /\ incoming \in BlockType /\ nextSample \in Nat /\ dropped \in Nat /\ fresh \in BOOLEAN
RingTypes ==
    /\ pool \in [0 .. PoolBlocks - 1 -> BlockType] /\ head \in Nat /\ tail \in Nat
    /\ tail <= head /\ head - tail <= PoolBlocks
WorkTypes ==
    /\ wpc \in {"loop", "checkpoint", "commit", "periodic", "periodic_commit", "pick", "watch",
                "stall", "read", "release", "feed", "final", "final_commit", "end", "exited"}
    /\ samples \in Nat /\ expected \in Nat
    /\ pending \in 0 .. FrameSize - 1 /\ openFrames \in 0 .. TileFrames - 1
    /\ anchored \in BOOLEAN /\ stalled \in BOOLEAN
CounterTypes ==
    /\ delivered \in Nat /\ viewDropped \in Nat /\ dropBase \in Nat
    /\ checkpoint \in [request : Nat, delivered : Nat] /\ durable \in Nat
GapType == [first : Nat, end : Nat, reason : {"partial_fft", "application_drop", "source_stall"}]
StoreTypes == tiles \in SUBSET Nat /\ gaps \in SUBSET GapType

\* The type invariant; the ring never holds more than its capacity.
TypeOK ==
    /\ StatusTypes /\ ControlTypes /\ InputTypes /\ RingTypes
    /\ WorkTypes /\ CounterTypes /\ StoreTypes

\* The callback never writes the ring block that the worker is reading.
NoSlotRace == dpc = "write" /\ wpc \in {"read", "release"} => Slot(head) # Slot(tail)

\* What the store holds is exact: the coordinates of the survey up to the next
\* expected one are measured, in the open tile or frame, or in one recorded gap,
\* and no two of these overlap, over all runs of the survey.  (A stall may finalize
\* a run while the callback is still numbering a block.)
GapSamples(g) == Interval(g.first, g.end)
Unmeasured == UNION {GapSamples(g) : g \in gaps}
CoverageExact ==
    /\ \A g, h \in gaps : g # h => GapSamples(g) \cap GapSamples(h) = {}
    /\ tiles \cap Unmeasured = {}
    /\ wpc \notin {"release", "feed", "final_commit", "end", "exited"} /\ ~stalled =>
         tiles \cup Unmeasured = Interval(0, TileStart)

\* Unless a stall cut a run short, a finalized run accounts for every sample that
\* its source produced, in the store and in the counters of the view.
FinalCoverage ==
    finalSaveConfirmed /\ ~stalled /\ wpc \in {"end", "exited"} =>
        /\ tiles \cup Unmeasured = Interval(0, sampleBase + nextSample)
        /\ delivered + viewDropped = sampleBase + nextSample

\* A save that reports success has made durable at least what had been delivered
\* when it was asked for.
SavedIsDurable == upc = "saved" => durable >= asked

\* stop() returns: the callback, the worker and the control thread never wait for
\* each other in a circle.
StopReturns == upc = "stop_input" ~> upc = "stopped"

\* A save is answered by the worker without the help of the five-second timeout.
SaveAnswered == upc = "saving" ~> upc # "saving"

\* "The worker then drains every accepted block before finalizing the session and
\* freeing the pool" (src/src/engine.cpp:135).
DrainedBeforeFinalizing == wpc \in {"final", "final_commit"} => head = tail
=============================================================================
