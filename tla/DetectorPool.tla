---------------------------- MODULE DetectorPool ----------------------------
(***************************************************************************)
(* The detector side of the discovery worker (src/src/discovery_worker.cpp)*)
(*: the producer thread that stages channelizer output per band and        *)
(* enqueues it as jobs, the bounded job queues, and the detector threads   *)
(* that claim, process and release them.  DiscoverySource models the side  *)
(* the blocks come from; here the producer is handed blocks in any order   *)
(* of continuations and discontinuities, and may find the input closed.    *)
(*                                                                         *)
(* A step is a critical section, or the code between two of them.  A       *)
(* thread whose wait predicate is false dozes (it still holds              *)
(* detector_mutex) before it is asleep, so a notification can fall into    *)
(* that window exactly when the notifier does not take the mutex.          *)
(***************************************************************************)
EXTENDS Integers, Sequences, FiniteSets, SequencesExt, Totals

CONSTANTS
    Detectors,      \* the threads that run consume()
    BandCount,      \* subbands of the channelizer
    QueueCount,     \* detector_workers: number of job queues
    QueueCapacity,  \* detector_queue_capacity: job slots per queue
    Batch,          \* detector_batch: samples of a full job
    MaxOutputs,     \* bound: outputs per band of one channelizer flush
    MaxFeeds        \* bound: channelizer flushes in a behaviour

ASSUME SizesAssumption ==
    /\ BandCount \in Nat \ {0} /\ QueueCount \in Nat \ {0}
    /\ QueueCapacity \in Nat \ {0} /\ Batch \in Nat \ {0}
    /\ MaxOutputs \in Nat /\ MaxFeeds \in Nat

Bands  == 0 .. BandCount - 1
Queues == 0 .. QueueCount - 1
Slots  == 1 .. QueueCapacity
QueueOf(b) == b % QueueCount

VARIABLES
    failed, producerDone,         \* the atomic flags
    ppc, stage, band, left, outs, \* producer: counter, loop it is in, loop state
    staging, segment, feeds,
    jobs, occupied, occupiedCount, ready, pendingJobs, busy, nextQueue,
    wpc, held, detector,          \* detector threads; the detectors' positions
    processed, abandoned,         \* per-band counters of the snapshot
    emitted                       \* history: channelizer outputs per band

prodVars  == <<ppc, stage, band, left, outs, staging, segment, feeds>>
queueVars == <<jobs, occupied, occupiedCount, ready, pendingJobs, busy, nextQueue>>
threadVars == <<wpc, held>>
tally     == <<processed, abandoned, emitted>>
vars == <<failed, producerDone, prodVars, queueVars, threadVars, detector, tally>>

EmptyStaging == [count |-> 0, next |-> 0]
EmptyJob == [reset |-> FALSE, subband |-> 0, segment |-> 0, first |-> 0, count |-> 0]
SmallerOf(m, n) == IF m < n THEN m ELSE n

-----------------------------------------------------------------------------
(* detector_mutex and its two condition variables.  A thread holds the     *)
(* mutex between two steps only while it dozes or discards.                *)

MutexFree == /\ ppc # "space_doze"
             /\ \A w \in Detectors : wpc[w] \notin {"doze", "discarding"}
\* notify_all() takes the mutex before it notifies.
NotifyWithoutMutex == TRUE                                          \* mutant
NotifyAllReady == MutexFree
\* What notify_all on detector_available does to the detector threads.
Woken == [w \in Detectors |-> IF wpc[w] = "asleep" THEN "check" ELSE wpc[w]]
NotifyAvailable == wpc' = Woken
\* Only the producer waits on detector_space.
NotifySpace == ppc' = IF ppc = "space_asleep" THEN "enqueue" ELSE ppc

-----------------------------------------------------------------------------
(* The producer thread.                                                    *)

PoolUnchanged == UNCHANGED <<queueVars, threadVars, detector>>
Loop(s) == stage' = s /\ band' = 0

\* The next block continues the segment, or is the first of a new one
\* (new_segment starts with flush_staging), or there is none left.  A failure is
\* noticed between two blocks.
TakeBlock ==
    /\ ppc = "idle" /\ ~failed /\ feeds < MaxFeeds
    /\ feeds' = feeds + 1
    /\ Loop("segment_flush") \/ (segment > 0 /\ Loop("feed"))
    /\ ppc' = "run"
    /\ UNCHANGED <<failed, producerDone, left, outs, staging, segment, tally>>
    /\ PoolUnchanged

EndOfInput ==
    /\ ppc = "idle" /\ ~failed
    /\ ppc' = "run" /\ Loop("end_flush")
    /\ UNCHANGED <<failed, producerDone, left, outs, staging, segment, feeds, tally>>
    /\ PoolUnchanged

SeeFailure ==
    /\ ppc = "idle" /\ failed /\ ppc' = "discard"
    /\ UNCHANGED <<failed, producerDone, stage, band, left, outs, staging, segment,
                   feeds, tally>>
    /\ PoolUnchanged

\* flush_staging: every band with staged samples is enqueued.
OnlyFullBatches == {b \in Bands : b >= band /\ staging[b].count = Batch}   \* mutant
Staged == {b \in Bands : b >= band /\ staging[b].count > 0}
FlushStaging ==
    /\ ppc = "run" /\ stage \in {"segment_flush", "end_flush"} /\ Staged # {}
    /\ band' = CHOOSE b \in Staged : \A c \in Staged : b <= c
    /\ ppc' = "enqueue"
    /\ UNCHANGED <<failed, producerDone, stage, left, outs, staging, segment, feeds, tally>>
    /\ PoolUnchanged

\* The rest of new_segment: a reset job for every band, its staging cleared.
NewSegment ==
    /\ ppc = "run" /\ stage = "segment_flush" /\ Staged = {}
    /\ segment' = segment + 1
    /\ Loop("segment_reset")
    /\ UNCHANGED <<failed, producerDone, ppc, left, outs, staging, feeds, tally>>
    /\ PoolUnchanged

ResetBand ==
    /\ ppc = "run" /\ stage = "segment_reset" /\ band < BandCount
    /\ staging' = [staging EXCEPT ![band] = EmptyStaging]
    /\ ppc' = "enqueue"
    /\ UNCHANGED <<failed, producerDone, stage, band, left, outs, segment, feeds, tally>>
    /\ PoolUnchanged

\* bank.feed: a flush hands every band the same number of outputs, and none when
\* the filter has not filled; a non-finite sample throws instead.
Feeding == ppc = "run" /\ (stage = "feed" \/ (stage = "segment_reset" /\ band = BandCount))
Feed(n) ==
    /\ Feeding
    /\ outs' = n /\ left' = n
    /\ stage' = "append" /\ band' = IF n = 0 THEN BandCount ELSE 0
    /\ UNCHANGED <<failed, producerDone, ppc, staging, segment, feeds, tally>>
    /\ PoolUnchanged

FeedThrows ==
    /\ Feeding /\ ppc' = "fail"
    /\ UNCHANGED <<failed, producerDone, stage, band, left, outs, staging, segment,
                   feeds, tally>>
    /\ PoolUnchanged

\* append: the band's staging takes what fits and is enqueued when full.
AppendBand ==
    LET n == SmallerOf(left, Batch - staging[band].count)
    IN  /\ ppc = "run" /\ stage = "append" /\ band < BandCount
        /\ staging' = [staging EXCEPT ![band].count = @ + n]
        /\ emitted' = [emitted EXCEPT ![band] = @ + n]
        /\ IF staging[band].count + n = Batch
           THEN ppc' = "enqueue" /\ left' = left - n /\ UNCHANGED band
           ELSE left' = outs /\ band' = band + 1 /\ UNCHANGED ppc
        /\ UNCHANGED <<failed, producerDone, stage, outs, segment, feeds,
                       processed, abandoned>>
        /\ PoolUnchanged

\* The flush is over: the block has another chunk, or it is channelized.
AppendDone ==
    /\ ppc = "run" /\ stage = "append" /\ band = BandCount
    /\ \/ ppc' = "idle" /\ UNCHANGED <<stage, feeds>>
       \/ /\ feeds < MaxFeeds /\ feeds' = feeds + 1
          /\ stage' = "feed" /\ UNCHANGED ppc
    /\ UNCHANGED <<failed, producerDone, band, left, outs, staging, segment, tally>>
    /\ PoolUnchanged

\* enqueue: throw after a failure, doze while every slot of the queue is
\* occupied, or move the staged batch (or a reset) into the first free slot.
NotPending(q) == Slots \ ToSet(ready[q])                             \* mutant
Free(q) == Slots \ occupied[q]
Insert(q, slot, reset) ==
    /\ jobs' = [jobs EXCEPT ![q][slot] =
                  [reset |-> reset, subband |-> band, segment |-> segment,
                   first |-> staging[band].next,
                   count |-> IF reset THEN 0 ELSE staging[band].count]]
    /\ staging' = IF reset THEN staging
                  ELSE [staging EXCEPT ![band] =
                          [count |-> 0, next |-> @.next + @.count]]
    /\ occupied' = [occupied EXCEPT ![q] = @ \cup {slot}]
    /\ occupiedCount' = [occupiedCount EXCEPT ![q] = @ + 1]
    /\ ready' = [ready EXCEPT ![q] = Append(@, slot)]
    /\ pendingJobs' = pendingJobs + 1
    /\ UNCHANGED <<busy, nextQueue>>
Enqueue ==
    LET q == QueueOf(band)
    IN  /\ ppc = "enqueue" /\ MutexFree
        /\ \/ /\ failed
              /\ ppc' = "fail" /\ UNCHANGED <<staging, queueVars>>
           \/ /\ ~failed /\ occupiedCount[q] >= QueueCapacity
              /\ ppc' = "space_doze" /\ UNCHANGED <<staging, queueVars>>
           \/ /\ ~failed /\ occupiedCount[q] < QueueCapacity
              /\ IF Free(q) = {}
                 THEN ppc' = "fail" /\ UNCHANGED <<staging, queueVars>>
                 ELSE /\ Insert(q, CHOOSE s \in Free(q) : \A t \in Free(q) : s <= t,
                                stage = "segment_reset")
                      /\ ppc' = "announce"
        /\ UNCHANGED <<failed, producerDone, stage, band, left, outs, segment, feeds,
                       threadVars, detector, tally>>

SpaceSleep ==
    /\ ppc = "space_doze" /\ ppc' = "space_asleep"
    /\ UNCHANGED <<failed, producerDone, stage, band, left, outs, staging, segment,
                   feeds, tally>>
    /\ PoolUnchanged

\* The notification after unlocking; then the loop that called enqueue goes on.
Announce ==
    /\ ppc = "announce" /\ ppc' = "run"
    /\ NotifyAvailable
    /\ IF stage = "append" /\ left > 0
       THEN UNCHANGED <<band, left>>
       ELSE band' = band + 1 /\ left' = outs
    /\ UNCHANGED <<failed, producerDone, stage, outs, staging, segment, feeds,
                   queueVars, held, detector, tally>>

\* The end of produce(): the exception handler's fail(), the discarding of what
\* is still staged after a failure, and producer_done, each with its notify_all().
ProducerFail ==
    /\ ppc = "fail" /\ ppc' = "fail_notify" /\ failed' = TRUE
    /\ UNCHANGED <<producerDone, stage, band, left, outs, staging, segment, feeds, tally>>
    /\ PoolUnchanged

EndFlushDone ==
    /\ ppc = "run" /\ stage = "end_flush" /\ Staged = {}
    /\ ppc' = IF failed THEN "discard" ELSE "done"
    /\ UNCHANGED <<failed, producerDone, stage, band, left, outs, staging, segment,
                   feeds, tally>>
    /\ PoolUnchanged

DiscardStaging ==
    /\ ppc = "discard" /\ ppc' = "done"
    /\ abandoned' = [b \in Bands |-> abandoned[b] + staging[b].count]
    /\ staging' = [b \in Bands |-> [staging[b] EXCEPT !.count = 0]]
    /\ UNCHANGED <<failed, producerDone, stage, band, left, outs, segment, feeds,
                   processed, emitted>>
    /\ PoolUnchanged

ProducerDone ==
    /\ ppc = "done" /\ ppc' = "done_notify" /\ producerDone' = TRUE
    /\ UNCHANGED <<failed, stage, band, left, outs, staging, segment, feeds, tally>>
    /\ PoolUnchanged

ProducerNotify ==
    /\ ppc \in {"fail_notify", "done_notify"} /\ NotifyAllReady
    /\ ppc' = IF ppc = "fail_notify" THEN "discard" ELSE "exited"
    /\ NotifyAvailable
    /\ UNCHANGED <<failed, producerDone, stage, band, left, outs, staging, segment,
                   feeds, queueVars, held, detector, tally>>

-----------------------------------------------------------------------------
(* The detector threads.                                                   *)

ProducerUnchanged == UNCHANGED <<producerDone, stage, band, left, outs, staging,
                                 segment, feeds, emitted>>
Job(w) == jobs[held[w].queue][held[w].slot]
Goto(w, pc) == wpc' = [wpc EXCEPT ![w] = pc]

\* eligible_detector_job: the queues in turn from nextQueue on, and in a queue
\* the oldest job whose band has no active job.
AnyPending(q) == DOMAIN ready[q]                                    \* mutant
EligibleAt(q) == {i \in DOMAIN ready[q] : jobs[q][ready[q][i]].subband \notin busy}
Scan(k) == (nextQueue + k) % QueueCount
Turns == {k \in Queues : EligibleAt(Scan(k)) # {}}
SelectedQueue == Scan(CHOOSE k \in Turns : \A j \in Turns : k <= j)
NewestOffset(q) == CHOOSE i \in EligibleAt(q) : \A j \in EligibleAt(q) : i >= j  \* mutant
SelectedOffset(q) == CHOOSE i \in EligibleAt(q) : \A j \in EligibleAt(q) : i <= j
PastLastQueue(q) == q + 1                                           \* mutant
TurnAfter(q) == (q + 1) % QueueCount

Claim(w) ==
    LET q    == SelectedQueue
        at   == SelectedOffset(q)
        slot == ready[q][at]
    IN  /\ wpc[w] = "check" /\ MutexFree /\ ~failed /\ Turns # {}
        /\ held' = [held EXCEPT ![w] = [queue |-> q, slot |-> slot]]
        /\ busy' = busy \cup {jobs[q][slot].subband}
        /\ ready' = [ready EXCEPT ![q] = RemoveAt(@, at)]
        /\ pendingJobs' = pendingJobs - 1
        /\ nextQueue' = TurnAfter(q)
        /\ Goto(w, "process")
        /\ UNCHANGED <<failed, ppc, jobs, occupied, occupiedCount, detector,
                       processed, abandoned>>
        /\ ProducerUnchanged

\* The other outcomes of the wait: leave on failure, leave when the producer is
\* done and nothing is pending, or doze and sleep.
Exhausted == producerDone /\ pendingJobs = 0
Wait(w) ==
    /\ \/ /\ wpc[w] = "check" /\ MutexFree
          /\ \/ failed /\ Goto(w, "leave")
             \/ ~failed /\ Turns = {} /\ Exhausted /\ Goto(w, "leave")
             \/ ~failed /\ Turns = {} /\ ~Exhausted /\ Goto(w, "doze")
       \/ wpc[w] = "doze" /\ Goto(w, "asleep")
    /\ UNCHANGED <<failed, ppc, queueVars, held, detector, processed, abandoned>>
    /\ ProducerUnchanged

\* process_job: a reset restarts the band's detector, a batch is fed to it.
Process(w) ==
    LET job == Job(w)
        b   == job.subband
    IN  /\ wpc[w] = "process" /\ Goto(w, "release")
        /\ detector' = [detector EXCEPT ![b] =
                          IF job.reset THEN [segment |-> job.segment, next |-> 0]
                          ELSE [@ EXCEPT !.next = job.first + job.count]]
        /\ processed' = [processed EXCEPT ![b] = @ + job.count]
        /\ UNCHANGED <<failed, ppc, queueVars, held, abandoned>>
        /\ ProducerUnchanged

\* An exception: fail(), its notify_all(), and the job is abandoned by its owner.
ProcessThrows(w) ==
    /\ \/ /\ wpc[w] = "process" /\ failed' = TRUE
          /\ Goto(w, "fail_notify") /\ UNCHANGED <<ppc, abandoned>>
       \/ /\ wpc[w] = "fail_notify" /\ NotifyAllReady
          /\ wpc' = [Woken EXCEPT ![w] = "abandon"] /\ NotifySpace
          /\ UNCHANGED <<failed, abandoned>>
       \/ /\ wpc[w] = "abandon" /\ Goto(w, "release")
          /\ abandoned' = [abandoned EXCEPT ![Job(w).subband] = @ + Job(w).count]
          /\ UNCHANGED <<failed, ppc>>
    /\ UNCHANGED <<queueVars, held, detector, processed>>
    /\ ProducerUnchanged

\* The slot and the band are freed under the mutex; both conditions are then
\* notified without it.  (Nothing reads a free slot, so the fields that the code
\* leaves in it besides the erased samples are not kept.)
Release(w) ==
    LET q == held[w].queue
        slot == held[w].slot
    IN  /\ wpc[w] = "release" /\ MutexFree /\ Goto(w, "notify")
        /\ jobs' = [jobs EXCEPT ![q][slot] = EmptyJob]
        /\ busy' = busy \ {Job(w).subband}
        /\ occupied' = [occupied EXCEPT ![q] = @ \ {slot}]
        /\ occupiedCount' = [occupiedCount EXCEPT ![q] = @ - 1]
        /\ UNCHANGED <<failed, ppc, ready, pendingJobs, nextQueue, held, detector,
                       processed, abandoned>>
        /\ ProducerUnchanged

ReleaseNotify(w) ==
    /\ wpc[w] = "notify" /\ wpc' = [Woken EXCEPT ![w] = "check"] /\ NotifySpace
    /\ UNCHANGED <<failed, queueVars, held, detector, processed, abandoned>>
    /\ ProducerUnchanged

\* After the loop: only a failure leaves pending jobs, which discard_detector_jobs
\* abandons one by one, oldest first, without letting go of the mutex.
Leave(w) ==
    /\ wpc[w] = "leave"
    /\ IF failed THEN MutexFree /\ Goto(w, "discarding") ELSE Goto(w, "exited")
    /\ UNCHANGED <<failed, ppc, queueVars, held, detector, processed, abandoned>>
    /\ ProducerUnchanged

DiscardJob(w, q) ==
    LET slot == Head(ready[q])
        job  == jobs[q][slot]
    IN  /\ wpc[w] = "discarding"
        /\ ready[q] # <<>> /\ \A p \in Queues : p < q => ready[p] = <<>>
        /\ abandoned' = [abandoned EXCEPT ![job.subband] = @ + job.count]
        /\ jobs' = [jobs EXCEPT ![q][slot] = EmptyJob]
        /\ occupied' = [occupied EXCEPT ![q] = @ \ {slot}]
        /\ occupiedCount' = [occupiedCount EXCEPT ![q] = @ - 1]
        /\ ready' = [ready EXCEPT ![q] = Tail(@)]
        /\ pendingJobs' = pendingJobs - 1
        /\ UNCHANGED <<failed, ppc, busy, nextQueue, threadVars, detector, processed>>
        /\ ProducerUnchanged

DiscardDone(w) ==
    /\ wpc[w] = "discarding" /\ \A q \in Queues : ready[q] = <<>>
    /\ Goto(w, "exited") /\ NotifySpace
    /\ UNCHANGED <<failed, queueVars, held, detector, processed, abandoned>>
    /\ ProducerUnchanged

-----------------------------------------------------------------------------
Init ==
    /\ failed = FALSE /\ producerDone = FALSE
    /\ ppc = "idle" /\ stage = "feed" /\ band = 0 /\ left = 0 /\ outs = 0
    /\ staging = [b \in Bands |-> EmptyStaging] /\ segment = 0 /\ feeds = 0
    /\ jobs = [q \in Queues |-> [s \in Slots |-> EmptyJob]]
    /\ occupied = [q \in Queues |-> {}] /\ occupiedCount = [q \in Queues |-> 0]
    /\ ready = [q \in Queues |-> <<>>] /\ pendingJobs = 0
    /\ busy = {} /\ nextQueue = 0
    /\ wpc = [w \in Detectors |-> "check"]
    /\ held = [w \in Detectors |-> [queue |-> 0, slot |-> 1]]
    /\ detector = [b \in Bands |-> [segment |-> 0, next |-> 0]]
    /\ processed = [b \in Bands |-> 0] /\ abandoned = [b \in Bands |-> 0]
    /\ emitted = [b \in Bands |-> 0]

Input == TakeBlock \/ EndOfInput
Producer ==
    \/ SeeFailure \/ FlushStaging \/ NewSegment \/ ResetBand
    \/ (\E n \in 0 .. MaxOutputs : Feed(n)) \/ FeedThrows
    \/ AppendBand \/ AppendDone \/ Enqueue \/ SpaceSleep \/ Announce
    \/ ProducerFail \/ EndFlushDone \/ DiscardStaging \/ ProducerDone \/ ProducerNotify
Detector(w) ==
    \/ Claim(w) \/ Wait(w) \/ Process(w) \/ ProcessThrows(w) \/ Release(w)
    \/ ReleaseNotify(w) \/ Leave(w) \/ (\E q \in Queues : DiscardJob(w, q))
    \/ DiscardDone(w)

\* finish() has joined every thread.
Joined == ppc = "exited" /\ \A w \in Detectors : wpc[w] = "exited"
Terminated == Joined /\ UNCHANGED vars

Next == Input \/ Producer \/ (\E w \in Detectors : Detector(w)) \/ Terminated
Spec == Init /\ [][Next]_vars

\* Every thread that can run does so in the end.  Nobody is obliged to submit
\* input or to close it.
Fairness == WF_vars(Producer) /\ \A w \in Detectors : WF_vars(Detector(w))
FairSpec == Spec /\ Fairness

-----------------------------------------------------------------------------
(* Properties.                                                             *)

Jobs == [reset : BOOLEAN, subband : Bands, segment : Nat, first : Nat, count : Nat]
ProducerStates == {"idle", "run", "enqueue", "space_doze", "space_asleep", "announce",
    "fail", "fail_notify", "discard", "done", "done_notify", "exited"}
Stages == {"segment_flush", "segment_reset", "feed", "append", "end_flush"}
DetectorStates == {"check", "doze", "asleep", "process", "fail_notify", "abandon",
    "release", "notify", "leave", "discarding", "exited"}

\* The type invariant, by owner: flags, producer, queues, threads, counters.
FlagTypes == failed \in BOOLEAN /\ producerDone \in BOOLEAN
ProducerTypes ==
    /\ ppc \in ProducerStates /\ stage \in Stages
    /\ band \in 0 .. BandCount /\ left \in Nat /\ outs \in Nat
    /\ staging \in [Bands -> [count : Nat, next : Nat]]
    /\ segment \in Nat /\ feeds \in 0 .. MaxFeeds
QueueTypes ==
    /\ jobs \in [Queues -> [Slots -> Jobs]]
    /\ occupied \in [Queues -> SUBSET Slots] /\ occupiedCount \in [Queues -> Int]
    /\ ready \in [Queues -> Seq(Slots)] /\ pendingJobs \in Int
    /\ busy \in SUBSET Bands /\ nextQueue \in Queues
ThreadTypes ==
    /\ wpc \in [Detectors -> DetectorStates]
    /\ held \in [Detectors -> [queue : Queues, slot : Slots]]
    /\ detector \in [Bands -> [segment : Nat, next : Nat]]
TallyTypes ==
    /\ processed \in [Bands -> Nat] /\ abandoned \in [Bands -> Nat]
    /\ emitted \in [Bands -> Nat]
TypeOK == FlagTypes /\ ProducerTypes /\ QueueTypes /\ ThreadTypes /\ TallyTypes

\* A detector thread holds a claimed job from Claim to Release; the job's samples
\* are settled once they are processed or abandoned.
Unsettled == {"process", "fail_notify", "abandon"}
Holding   == Unsettled \cup {"release"}
Active    == {w \in Detectors : wpc[w] \in Holding}
HeldIn(q) == {held[w].slot : w \in {v \in Active : held[v].queue = q}}
PendingSlots == {x \in Queues \X Slots : x[2] \in ToSet(ready[x[1]])}

\* A job slot has one owner: it is free, pending once, or held by one thread; and
\* the two counters that the waits rely on (occupied_count, pending_detector_jobs)
\* agree with the slots, so that an enqueue below capacity finds a free slot and a
\* detector thread that counts no pending work is right.
SlotAccounting ==
    /\ \A q \in Queues :
         /\ \A i, j \in DOMAIN ready[q] : ready[q][i] = ready[q][j] => i = j
         /\ occupied[q] = ToSet(ready[q]) \cup HeldIn(q)
         /\ ToSet(ready[q]) \cap HeldIn(q) = {}
         /\ occupiedCount[q] = Cardinality(occupied[q])
    /\ \A v, w \in Active : held[v] = held[w] => v = w
    /\ pendingJobs = Cardinality(PendingSlots)

\* No two threads use the same band's detector, and a band is marked busy exactly
\* while some thread holds one of its jobs.
OneJobPerBand ==
    /\ \A v, w \in Active : Job(v).subband = Job(w).subband => v = w
    /\ busy = {Job(w).subband : w \in Active}

\* A detector is fed its band's samples in order and without a hole: a batch
\* continues the segment exactly where the detector stands, and the next segment
\* starts with its reset.
DetectorContinuity ==
    \A w \in Detectors : wpc[w] = "process" =>
        LET job == Job(w)
            at  == detector[job.subband]
        IN  IF job.reset THEN job.segment = at.segment + 1
            ELSE job.segment = at.segment /\ job.first = at.next

\* Every channelizer output of a band is staged, pending, held, processed or
\* abandoned, and is counted once.  (At most one thread holds a job of the band.)
PendingCount(q, b) ==
    [i \in DOMAIN ready[q] |->
        LET job == jobs[q][ready[q][i]] IN IF job.subband = b THEN job.count ELSE 0]
PendingOf(b) == Total(PendingCount(QueueOf(b), b))
Holders(b) == {w \in Detectors : wpc[w] \in Unsettled /\ Job(w).subband = b}
HeldOf(b) == IF Holders(b) = {} THEN 0 ELSE Job(CHOOSE w \in Holders(b) : TRUE).count
OutputConserved ==
    \A b \in Bands : emitted[b] = staging[b].count + PendingOf(b) + HeldOf(b)
                                  + processed[b] + abandoned[b]

\* Nothing is left: no staged sample, job, slot or busy band, and without a
\* failure every output was processed.
Drained ==
    /\ busy = {} /\ pendingJobs = 0
    /\ \A q \in Queues : occupied[q] = {} /\ ready[q] = <<>>
    /\ \A b \in Bands : staging[b].count = 0 /\ (~failed => abandoned[b] = 0)

\* The pool always shuts down, drained, once the input ends or a job fails: no
\* wakeup is lost and no thread leaves while work it should do is pending.
EndJoins == (stage = "end_flush" \/ failed) ~> (Joined /\ Drained)
=============================================================================
