--------------------------- MODULE DiscoverySource ---------------------------
(***************************************************************************)
(* The source side of the discovery worker (src/src/discovery_worker.cpp): *)
(* the caller of submit(), the bounded source queue, the producer thread   *)
(* that channelizes its blocks, the gap ledger, and finish().  The detector*)
(* side (DetectorPool) shows here only as a failure that may be raised at  *)
(* any time and as the per-band gaps it records afterwards.                *)
(*                                                                         *)
(* A step is a critical section, or the code between two of them.  The     *)
(* producer dozes, holding source_mutex, between a false wait predicate    *)
(* and sleep.                                                              *)
(***************************************************************************)
EXTENDS Integers, Sequences, SequencesExt, Totals

CONSTANTS
    SourceCapacity,     \* source_capacity
    MaximumInputBlock,  \* maximum_input_block
    GapCapacity,        \* gap_capacity
    MaximumCoordinate,  \* maximum_coordinate (here also the bound on time)
    MaxSubmits,         \* bound: calls of submit()
    MaxBandGaps         \* bound: gaps recorded by the detector side

ASSUME SourceAssumption ==
    /\ SourceCapacity \in Nat \ {0} /\ MaximumInputBlock \in Nat \ {0}
    /\ GapCapacity \in Nat \ {0} /\ MaximumCoordinate \in Nat
    /\ MaxSubmits \in Nat /\ MaxBandGaps \in Nat

VARIABLES
    cpc, call, submittedBefore, expectedSubmission, submits,  \* the caller
    sources, closed, failed, producerDone,                    \* queue and flags
    ppc, sourceInitialized, expectedSource,                   \* the producer
    npc, fpc,                     \* the failing detector's notify_all; finish()
    view, gaps, bandGaps,         \* under state_mutex: counters, ledger
    origin, heard, bank, taken    \* history: first coordinate submitted, accepted
                                  \* coordinates, those fed to the channelizer since
                                  \* its reset, gaps handed to the caller

callerVars   == <<cpc, call, submittedBefore, expectedSubmission, submits>>
flags        == <<closed, failed, producerDone>>
producerVars == <<ppc, sourceInitialized, expectedSource, bank>>
ledgerVars   == <<view, gaps, bandGaps, taken>>
vars == <<callerVars, sources, flags, producerVars, npc, fpc, ledgerVars, origin, heard>>

Reasons == {"source_queue_full", "input_discontinuity", "input_too_large",
            "invalid_input_order", "invalid_sample_coordinate", "processing_failure"}
Counters == {"accepted", "channelized", "abandoned", "rejected", "queueDrops",
             "invalid", "afterClose", "sourceGap", "gapOverflows", "streamResets"}

-----------------------------------------------------------------------------
(* The gap ledger.                                                         *)

\* gap_locked: an interval of lost source time is counted; the newest gap is
\* extended when the interval continues it, else a gap is appended, else only
\* the overflow is counted.  The result is a pair of counters and gaps.
SameKind(queue, first, reason, subband) ==                           \* mutant
    queue # <<>> /\ Last(queue).reason = reason /\ Last(queue).subband = subband
Continues(queue, first, reason, subband) ==
    /\ queue # <<>>
    /\ LET g == Last(queue)
       IN  g.reason = reason /\ g.subband = subband /\ g.end = first
GapLocked(v, queue, first, end, reason, subband, sourceLoss) ==
    LET lost == IF sourceLoss /\ subband = "all" THEN end - first ELSE 0
        counted == [v EXCEPT !.sourceGap = @ + lost]
    IN  CASE end <= first -> <<v, queue>>
          [] end > first /\ Continues(queue, first, reason, subband) ->
                <<counted, [queue EXCEPT ![Len(queue)].end = end]>>
          [] end > first /\ ~Continues(queue, first, reason, subband)
             /\ Len(queue) >= GapCapacity ->
                <<[counted EXCEPT !.gapOverflows = @ + 1], queue>>
          [] OTHER ->
                <<counted, Append(queue, [first |-> first, end |-> end,
                                          subband |-> subband, reason |-> reason])>>

\* reject: counters by reason, and a gap that is elapsed time unless the
\* coordinates themselves are invalid.
Elapsed(reason) == reason \notin {"invalid_input_order", "invalid_sample_coordinate"}
Rejected(v, queue, first, end, reason) ==
    GapLocked([v EXCEPT !.rejected = @ + (end - first),
                        !.queueDrops = @ + (IF reason = "source_queue_full" THEN 1 ELSE 0),
                        !.invalid = @ + (IF reason \in {"source_queue_full",
                                             "processing_failure"} THEN 0 ELSE 1)],
              queue, first, end, reason, "all", Elapsed(reason))
Record(ledger) == view' = ledger[1] /\ gaps' = ledger[2]
Bump(counter, n) == view' = [view EXCEPT ![counter] = @ + n] /\ UNCHANGED gaps

-----------------------------------------------------------------------------
(* source_mutex, state_mutex and source_available.  Between two steps the   *)
(* producer holds the first while it dozes and both while it discards.     *)

SourceMutexFree == ppc \notin {"doze", "discarding"}
StateMutexFree  == ppc # "discarding"
Woken == IF ppc = "asleep" THEN "check" ELSE ppc
\* notify_all() takes the mutex before it notifies.
NotifyWithoutMutex == TRUE                                           \* mutant
NotifyAllReady == SourceMutexFree

-----------------------------------------------------------------------------
(* The caller.                                                             *)

NewCall == /\ cpc = "idle" /\ submits < MaxSubmits /\ StateMutexFree
           /\ submits' = submits + 1
QueueUnchanged == UNCHANGED <<sources, flags, producerVars, npc, fpc, bandGaps, taken>>

SubmitClosed ==
    /\ NewCall /\ closed /\ Bump("afterClose", 1)
    /\ UNCHANGED <<cpc, call, submittedBefore, expectedSubmission, origin, heard>>
    /\ QueueUnchanged

\* Coordinates past the maximum, or before the expected one.
SubmitInvalid(first, n) ==
    /\ NewCall /\ ~closed
    /\ \/ /\ first + n > MaximumCoordinate
          /\ Record(Rejected(view, gaps, first, first, "invalid_sample_coordinate"))
       \/ /\ first + n <= MaximumCoordinate /\ n > 0
          /\ submittedBefore /\ first < expectedSubmission
          /\ Record(Rejected(view, gaps, first, first + n, "invalid_input_order"))
    /\ UNCHANGED <<cpc, call, submittedBefore, expectedSubmission, origin, heard>>
    /\ QueueUnchanged

\* A block in order: the hole before it is a gap.  It is refused at once when it
\* is too large or the worker has failed; else the caller goes for the queue.
SubmitForward(first, n) ==
    LET end  == first + n
        hole == IF submittedBefore
                THEN GapLocked(view, gaps, expectedSubmission, first,
                               "input_discontinuity", "all", TRUE)
                ELSE <<view, gaps>>
    IN  /\ NewCall /\ ~closed
        /\ end <= MaximumCoordinate /\ n > 0
        /\ submittedBefore => first >= expectedSubmission
        /\ submittedBefore' = TRUE /\ expectedSubmission' = end
        /\ origin' = IF submittedBefore THEN origin ELSE first
        /\ \/ /\ n > MaximumInputBlock
              /\ Record(Rejected(hole[1], hole[2], first, end, "input_too_large"))
              /\ UNCHANGED <<cpc, call>>
           \/ /\ n <= MaximumInputBlock /\ failed
              /\ Record(Rejected(hole[1], hole[2], first, end, "processing_failure"))
              /\ UNCHANGED <<cpc, call>>
           \/ /\ n <= MaximumInputBlock /\ ~failed /\ Record(hole)
              /\ cpc' = "lock" /\ call' = [first |-> first, count |-> n]
        /\ UNCHANGED heard
        /\ QueueUnchanged

\* Under source_mutex the flags are read again, since the worker may have been
\* closed or have failed in between.
ClosedMeanwhile == closed
FailedMeanwhile == failed
QueueFull == Len(sources) = SourceCapacity
SubmitLocked ==
    LET end == call.first + call.count
    IN  /\ cpc = "lock" /\ SourceMutexFree
        /\ \/ /\ ClosedMeanwhile /\ Bump("afterClose", 1)
              /\ cpc' = "idle" /\ UNCHANGED <<sources, heard>>
           \/ /\ ~ClosedMeanwhile /\ FailedMeanwhile
              /\ Record(Rejected(view, gaps, call.first, end, "processing_failure"))
              /\ cpc' = "idle" /\ UNCHANGED <<sources, heard>>
           \/ /\ ~ClosedMeanwhile /\ ~FailedMeanwhile /\ QueueFull
              /\ Record(Rejected(view, gaps, call.first, end, "source_queue_full"))
              /\ cpc' = "idle" /\ UNCHANGED <<sources, heard>>
           \/ /\ ~ClosedMeanwhile /\ ~FailedMeanwhile /\ ~QueueFull
              /\ sources' = Append(sources, call) /\ Bump("accepted", call.count)
              /\ heard' = heard \cup (call.first .. end - 1)
              /\ cpc' = "notify"
        /\ UNCHANGED <<call, submittedBefore, expectedSubmission, submits, flags,
                       producerVars, npc, fpc, bandGaps, taken, origin>>

SubmitNotify ==
    /\ cpc = "notify" /\ cpc' = "idle" /\ ppc' = Woken
    /\ UNCHANGED <<call, submittedBefore, expectedSubmission, submits, sources, flags,
                   sourceInitialized, expectedSource, bank, npc, fpc, ledgerVars,
                   origin, heard>>

TakeGaps ==
    /\ gaps # <<>> /\ StateMutexFree
    /\ taken' = taken \cup ToSet(gaps) /\ gaps' = <<>>
    /\ UNCHANGED <<callerVars, sources, flags, producerVars, npc, fpc, view, bandGaps,
                   origin, heard>>

-----------------------------------------------------------------------------
(* The producer thread.                                                    *)

OthersUnchanged == UNCHANGED <<callerVars, closed, npc, fpc, bandGaps, taken, origin, heard>>

\* The loop head: leave on failure, take the oldest block, leave when the input
\* is closed and the queue is empty, or doze.
InputOver == closed /\ sources = <<>>
ProducerCheck ==
    /\ ppc = "check" /\ SourceMutexFree
    /\ ppc' = CASE failed -> "discard"
                [] ~failed /\ InputOver -> "last_flush"
                [] ~failed /\ ~InputOver /\ sources # <<>> -> "block"
                [] OTHER -> "doze"
    /\ UNCHANGED <<sources, failed, producerDone, sourceInitialized, expectedSource, bank,
                   view, gaps>>
    /\ OthersUnchanged

ProducerSleep ==
    /\ ppc = "doze" /\ ppc' = "asleep"
    /\ UNCHANGED <<sources, failed, producerDone, sourceInitialized, expectedSource, bank,
                   view, gaps>>
    /\ OthersUnchanged

\* A block that does not continue the previous one starts a new segment: the
\* channelizer is reset before the block is fed.
FirstBlockOnly == ~sourceInitialized                                 \* mutant
StartsSegment == ~sourceInitialized \/ Head(sources).first # expectedSource
NewSegment ==
    /\ ppc = "block" /\ StartsSegment
    /\ sourceInitialized' = TRUE /\ expectedSource' = Head(sources).first /\ bank' = {}
    /\ Bump("streamResets", IF sourceInitialized THEN 1 ELSE 0)
    /\ UNCHANGED <<ppc, sources, failed, producerDone>>
    /\ OthersUnchanged

FeedBlock ==
    LET block == Head(sources)
        end   == block.first + block.count
    IN  /\ ppc = "block" /\ ~StartsSegment
        /\ bank' = bank \cup (block.first .. end - 1)
        /\ expectedSource' = end
        /\ Bump("channelized", block.count)
        /\ ppc' = "pop"
        /\ UNCHANGED <<sources, failed, producerDone, sourceInitialized>>
        /\ OthersUnchanged

StillQueued == sources                                               \* mutant
Popped == Tail(sources)
PopBlock ==
    /\ ppc = "pop" /\ SourceMutexFree /\ ppc' = "check"
    /\ sources' = Popped
    /\ UNCHANGED <<failed, producerDone, sourceInitialized, expectedSource, bank, view, gaps>>
    /\ OthersUnchanged

\* The channelizer, the staging or a job queue throws, in the last flush too.
ProducerThrows ==
    /\ ppc \in {"block", "last_flush"} /\ ppc' = "fail_notify" /\ failed' = TRUE
    /\ UNCHANGED <<sources, producerDone, sourceInitialized, expectedSource, bank, view, gaps>>
    /\ OthersUnchanged

LastFlush ==
    /\ ppc = "last_flush" /\ ppc' = IF failed THEN "discard" ELSE "done"
    /\ UNCHANGED <<sources, failed, producerDone, sourceInitialized, expectedSource, bank,
                   view, gaps>>
    /\ OthersUnchanged

\* discard_pending_sources, under both mutexes: the queued blocks are abandoned
\* one by one (their time is accepted input, so it is no source loss); the staged
\* samples of the bands follow (BandGap).
DiscardStart ==
    /\ ppc = "discard" /\ ppc' = "discarding"
    /\ UNCHANGED <<sources, failed, producerDone, sourceInitialized, expectedSource, bank,
                   view, gaps>>
    /\ OthersUnchanged

DiscardBlock ==
    LET block == Head(sources)
    IN  /\ ppc = "discarding" /\ sources # <<>>
        /\ Record(GapLocked([view EXCEPT !.abandoned = @ + block.count], gaps, block.first,
                            block.first + block.count, "processing_failure", "all", FALSE))
        /\ sources' = Tail(sources)
        /\ UNCHANGED <<ppc, failed, producerDone, sourceInitialized, expectedSource, bank>>
        /\ OthersUnchanged

DiscardDone ==
    /\ ppc = "discarding" /\ sources = <<>> /\ ppc' = "done"
    /\ UNCHANGED <<sources, failed, producerDone, sourceInitialized, expectedSource, bank,
                   view, gaps>>
    /\ OthersUnchanged

ProducerDone ==
    /\ ppc = "done" /\ producerDone' = TRUE /\ ppc' = "done_notify"
    /\ UNCHANGED <<sources, failed, sourceInitialized, expectedSource, bank, view, gaps>>
    /\ OthersUnchanged

\* notify_all() of the producer: it waits for nobody on source_available itself.
ProducerNotify ==
    /\ ppc \in {"fail_notify", "done_notify"} /\ NotifyAllReady
    /\ ppc' = IF ppc = "fail_notify" THEN "discard" ELSE "exited"
    /\ UNCHANGED <<sources, failed, producerDone, sourceInitialized, expectedSource, bank,
                   view, gaps>>
    /\ OthersUnchanged

-----------------------------------------------------------------------------
(* The detector side, and finish().                                        *)

\* A detector thread fails, and then notifies.  Later failures change nothing.
DetectorFails ==
    /\ npc = "run" /\ fpc # "finished"
    /\ failed' = TRUE /\ npc' = "notify"
    /\ UNCHANGED <<callerVars, sources, closed, producerDone, producerVars, fpc,
                   ledgerVars, origin, heard>>

DetectorNotify ==
    /\ npc = "notify" /\ NotifyAllReady
    /\ npc' = "notified" /\ ppc' = Woken
    /\ UNCHANGED <<callerVars, sources, flags, sourceInitialized, expectedSource, bank,
                   fpc, ledgerVars, origin, heard>>

\* Abandoned jobs and staged samples: gaps of one band, not of the source.
BandGap(first, end) ==
    /\ failed /\ fpc # "finished" /\ bandGaps < MaxBandGaps
    /\ StateMutexFree \/ sources = <<>>
    /\ bandGaps' = bandGaps + 1
    /\ Record(GapLocked(view, gaps, first, end, "processing_failure", "band", FALSE))
    /\ UNCHANGED <<callerVars, sources, flags, producerVars, npc, fpc, taken, origin, heard>>

\* finish(): close under source_mutex, notify, join the producer and then the
\* detectors, which have left their notify_all() by then.
Close ==
    /\ fpc = "open" /\ SourceMutexFree
    /\ closed' = TRUE /\ fpc' = "notify"
    /\ UNCHANGED <<callerVars, sources, failed, producerDone, producerVars, npc,
                   ledgerVars, origin, heard>>
CloseNotify ==
    /\ fpc = "notify" /\ fpc' = "join" /\ ppc' = Woken
    /\ UNCHANGED <<callerVars, sources, flags, sourceInitialized, expectedSource, bank, npc,
                   ledgerVars, origin, heard>>
Join ==
    /\ fpc = "join" /\ ppc = "exited" /\ npc # "notify" /\ StateMutexFree
    /\ fpc' = "finished"
    /\ UNCHANGED <<callerVars, sources, flags, producerVars, npc, ledgerVars, origin, heard>>

-----------------------------------------------------------------------------
Init ==
    /\ cpc = "idle" /\ call = [first |-> 0, count |-> 0]
    /\ submittedBefore = FALSE /\ expectedSubmission = 0 /\ submits = 0
    /\ sources = <<>> /\ closed = FALSE /\ failed = FALSE /\ producerDone = FALSE
    /\ ppc = "check" /\ sourceInitialized = FALSE /\ expectedSource = 0
    /\ npc = "run" /\ fpc = "open"
    /\ view = [c \in Counters |-> 0] /\ gaps = <<>> /\ bandGaps = 0
    /\ origin = 0 /\ heard = {} /\ bank = {} /\ taken = {}

\* A block at, before or after the expected coordinate, or one too large.
Submit ==
    \/ SubmitClosed
    \/ \E first \in 0 .. MaximumCoordinate, n \in 0 .. MaximumInputBlock + 1 :
          /\ first - expectedSubmission \in -1 .. 1
          /\ SubmitInvalid(first, n) \/ SubmitForward(first, n)
Producer ==
    \/ ProducerCheck \/ ProducerSleep \/ NewSegment \/ FeedBlock \/ PopBlock
    \/ ProducerThrows \/ LastFlush \/ DiscardStart \/ DiscardBlock \/ DiscardDone
    \/ ProducerDone \/ ProducerNotify
BandGaps == \E first \in heard : BandGap(first, first + 1)

\* The worker is finished and the caller is not inside submit().
Terminated == fpc = "finished" /\ cpc = "idle" /\ UNCHANGED vars

Next == \/ Submit \/ SubmitLocked \/ SubmitNotify \/ TakeGaps \/ Producer
        \/ DetectorFails \/ DetectorNotify \/ BandGaps
        \/ Close \/ CloseNotify \/ Join \/ Terminated
Spec == Init /\ [][Next]_vars

\* Threads that have started a call or a loop go on with it.  Nobody has to
\* submit, to fail, to take gaps or to close.
Fairness ==
    /\ WF_vars(SubmitLocked \/ SubmitNotify) /\ WF_vars(Producer)
    /\ WF_vars(DetectorNotify) /\ WF_vars(CloseNotify \/ Join)
FairSpec == Spec /\ Fairness

-----------------------------------------------------------------------------
(* Properties.                                                             *)

Blocks == [first : Nat, count : Nat]
Gaps == [first : Nat, end : Nat, subband : {"all", "band"}, reason : Reasons]

CallerTypes ==
    /\ cpc \in {"idle", "lock", "notify"} /\ call \in Blocks
    /\ submittedBefore \in BOOLEAN /\ expectedSubmission \in Nat /\ submits \in Nat
ThreadTypes ==
    /\ closed \in BOOLEAN /\ failed \in BOOLEAN /\ producerDone \in BOOLEAN
    /\ ppc \in {"check", "doze", "asleep", "block", "pop", "last_flush", "fail_notify",
                "discard", "discarding", "done", "done_notify", "exited"}
    /\ npc \in {"run", "notify", "notified"}
    /\ fpc \in {"open", "notify", "join", "finished"}
SourceTypes ==
    /\ sources \in Seq(Blocks) /\ Len(sources) <= SourceCapacity
    /\ sourceInitialized \in BOOLEAN /\ expectedSource \in Nat
    /\ origin \in Nat /\ heard \in SUBSET Nat /\ bank \in SUBSET Nat
LedgerTypes ==
    /\ view \in [Counters -> Nat] /\ bandGaps \in Nat
    /\ gaps \in Seq(Gaps) /\ Len(gaps) <= GapCapacity /\ taken \in SUBSET Gaps

\* The type invariant; both queues keep to their capacity.
TypeOK == CallerTypes /\ ThreadTypes /\ SourceTypes /\ LedgerTypes

\* Every accepted input sample is queued, channelized or abandoned, once (the
\* block at the head is already counted as channelized while it is popped); and
\* until a call is refused because the worker is closed, the time submitted so
\* far is accepted input plus source gaps, without overlap or remainder.
Queued == Total([i \in DOMAIN sources |-> sources[i].count])
InputConserved ==
    /\ view.accepted + (IF ppc = "pop" THEN Head(sources).count ELSE 0)
         = view.channelized + view.abandoned + Queued
    /\ submittedBefore /\ view.afterClose = 0 =>
         expectedSubmission - origin
           = view.accepted + view.sourceGap + (IF cpc = "lock" THEN call.count ELSE 0)

\* Without an overflow of the ledger, each submitted sample that was not accepted
\* lies in a gap that counts, and an accepted one in none but that of a failure.
Covering(x) == {g \in ToSet(gaps) \cup taken :
                  g.subband = "all" /\ g.first <= x /\ x < g.end /\ Elapsed(g.reason)}
LossReported ==
    submittedBefore /\ view.afterClose = 0 /\ view.gapOverflows = 0 =>
        \A x \in origin .. expectedSubmission - 1 :
            IF x \in heard THEN \A g \in Covering(x) : g.reason = "processing_failure"
            ELSE Covering(x) # {} \/ (cpc = "lock" /\ x >= call.first)

\* The channelizer never filters across a hole: what it was fed since its last
\* reset is an unbroken run of accepted samples ending where it expects the next.
SegmentsAreGapless ==
    bank # {} => \E first \in bank : /\ bank = first .. expectedSource - 1
                                     /\ bank \subseteq heard

\* finish() has returned with an empty queue, and without a failure all
\* accepted input was channelized.
Drained ==
    /\ fpc = "finished" /\ sources = <<>> /\ producerDone
    /\ view.accepted = view.channelized + view.abandoned
    /\ ~failed => view.abandoned = 0

\* finish() returns with everything drained once it has closed the input, and a
\* failure is noticed even by a producer with nothing to do, which then stops.
CloseFinishes == (closed ~> Drained) /\ (failed ~> ppc = "exited")
=============================================================================
