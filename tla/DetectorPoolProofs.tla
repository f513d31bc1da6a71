------------------------- MODULE DetectorPoolProofs -------------------------
(* Proofs about DetectorPool for every number of bands, queues, slots and   *)
(* detector threads.                                                       *)
EXTENDS DetectorPool, FiniteSetTheorems, FifoLemmas

USE SizesAssumption

-----------------------------------------------------------------------------
(* Type correctness.  The producer's loop index is a band whenever a batch  *)
(* is on its way into a queue, and staging never exceeds a batch.          *)

BandInRange ==
    ppc \in {"enqueue", "space_doze", "space_asleep", "announce"} => band \in Bands
StagingBound == \A b \in Bands : staging[b].count <= Batch
ProducerInv == ProducerTypes /\ BandInRange /\ StagingBound
TypeInv == FlagTypes /\ ProducerInv /\ QueueTypes /\ ThreadTypes /\ TallyTypes

LEMMA BandFacts == /\ \A b \in Bands : QueueOf(b) \in Queues
                   /\ \A q \in Queues : TurnAfter(q) \in Queues
                   /\ 0 \in Bands /\ 0 \in Queues /\ 1 \in Slots
                   /\ \A n \in 0 .. BandCount : n < BandCount => n \in Bands
  BY DEF Bands, Queues, Slots, QueueOf, TurnAfter

LEMMA InitTypeInv == Init => TypeInv
  <1> SUFFICES ASSUME Init PROVE TypeInv
    OBVIOUS
  <1>1. FlagTypes
    BY DEF Init, FlagTypes
  <1>2. ProducerInv
    BY BandFacts DEF Init, ProducerInv, ProducerTypes, BandInRange, StagingBound,
       EmptyStaging, ProducerStates, Stages
  <1>3. QueueTypes
    <2>1. EmptyJob \in Jobs
      BY BandFacts DEF EmptyJob, Jobs
    <2>2. [q \in Queues |-> <<>>] \in [Queues -> Seq(Slots)]
      BY EmptySeq
    <2> QED BY BandFacts, <2>1, <2>2 DEF Init, QueueTypes
  <1>4. ThreadTypes
    BY BandFacts DEF Init, ThreadTypes, DetectorStates
  <1>5. TallyTypes
    BY DEF Init, TallyTypes
  <1> QED BY <1>1, <1>2, <1>3, <1>4, <1>5 DEF TypeInv

\* Parts of the type invariant that no variable of has changed.
LEMMA FlagFrame == FlagTypes /\ UNCHANGED <<failed, producerDone>> => FlagTypes'
  BY DEF FlagTypes
LEMMA QueueFrame == QueueTypes /\ UNCHANGED queueVars => QueueTypes'
  BY DEF QueueTypes, queueVars
LEMMA ThreadFrame == ThreadTypes /\ UNCHANGED <<threadVars, detector>> => ThreadTypes'
  BY DEF ThreadTypes, threadVars
LEMMA TallyFrame == TallyTypes /\ UNCHANGED tally => TallyTypes'
  BY DEF TallyTypes, tally
LEMMA ProducerFrame ==
    ProducerInv /\ UNCHANGED <<stage, band, left, outs, staging, segment, feeds>>
      /\ (UNCHANGED ppc \/ NotifySpace) => ProducerInv'
  BY DEF ProducerInv, ProducerTypes, BandInRange, StagingBound, NotifySpace,
         ProducerStates

\* The steps of the producer, as far as its own variables go.
LEMMA ProducerStep ==
    ASSUME ProducerInv, Input \/ Producer PROVE ProducerInv'
  <1> USE DEF ProducerInv, ProducerTypes, BandInRange, StagingBound, Loop,
              ProducerStates, Stages
  <1>1. CASE TakeBlock
    BY <1>1 DEF TakeBlock
  <1>2. CASE EndOfInput
    BY <1>2 DEF EndOfInput
  <1>3. CASE SeeFailure
    BY <1>3 DEF SeeFailure
  <1>4. CASE FlushStaging
    <2>1. band' \in Staged
      <3>1. \E b \in Staged : \A c \in Staged : b <= c
        <4>1. Staged \subseteq Nat
          BY DEF Staged, Bands
        <4>2. Staged # {}
          BY <1>4 DEF FlushStaging
        <4> QED BY <4>1, <4>2, LeastElement
      <3> QED BY <1>4, <3>1 DEF FlushStaging
    <2>2. band' \in Bands
      BY <2>1 DEF Staged
    <2> QED BY <1>4, <2>2 DEF FlushStaging, Bands
  <1>5. CASE NewSegment
    BY <1>5 DEF NewSegment
  <1>6. CASE ResetBand
    BY <1>6, BandFacts DEF ResetBand, EmptyStaging
  <1>7. CASE \E n \in 0 .. MaxOutputs : Feed(n)
    BY <1>7 DEF Feed, Feeding
  <1>8. CASE FeedThrows
    BY <1>8 DEF FeedThrows
  <1>9. CASE AppendBand
    <2> DEFINE n == SmallerOf(left, Batch - staging[band].count)
    <2>1. /\ band \in Bands /\ ppc = "run" /\ UNCHANGED <<stage, outs, segment, feeds>>
          /\ staging' = [staging EXCEPT ![band].count = @ + n]
          /\ \/ ppc' = "enqueue" /\ left' = left - n /\ band' = band
             \/ left' = outs /\ band' = band + 1 /\ ppc' = ppc
      BY <1>9, BandFacts DEF AppendBand
    <2>2. staging[band].count \in Nat /\ staging[band].count <= Batch
      BY <2>1
    <2>3. n \in Nat /\ n <= left /\ staging[band].count + n <= Batch
      BY <2>2 DEF SmallerOf
    <2> HIDE DEF n
    <2>4. /\ staging' \in [Bands -> [count : Nat, next : Nat]]
          /\ \A b \in Bands : staging'[b].count <= Batch
      BY <2>1, <2>2, <2>3
    <2>5. left' \in Nat
      <3>1. left \in Nat /\ outs \in Nat
        OBVIOUS
      <3>2. left - n \in Nat
        BY <3>1, <2>3
      <3> QED BY <2>1, <3>1, <3>2
    <2>6. band' \in 0 .. BandCount
      <3>1. band \in 0 .. BandCount /\ band + 1 \in 0 .. BandCount
        BY <2>1 DEF Bands
      <3> QED BY <2>1, <3>1
    <2>7. ppc' = "enqueue" => band' \in Bands
      BY <2>1
    <2> QED BY <2>1, <2>4, <2>5, <2>6, <2>7
  <1>10. CASE AppendDone
    BY <1>10 DEF AppendDone
  <1>11. CASE Enqueue
    <2>1. /\ band \in Bands /\ ppc' \in {"fail", "space_doze", "announce"}
          /\ UNCHANGED <<stage, band, left, outs, segment, feeds>>
          /\ \/ staging' = staging
             \/ staging' = [staging EXCEPT ![band] = [count |-> 0, next |-> @.next + @.count]]
      BY <1>11 DEF Enqueue, Insert
    <2>2. staging' \in [Bands -> [count : Nat, next : Nat]]
      BY <2>1
    <2>3. \A b \in Bands : staging'[b].count <= Batch
      BY <2>1
    <2> QED BY <2>1, <2>2, <2>3
  <1>12. CASE SpaceSleep
    BY <1>12 DEF SpaceSleep
  <1>13. CASE Announce
    BY <1>13 DEF Announce, Bands
  <1>14. CASE ProducerFail
    BY <1>14 DEF ProducerFail
  <1>15. CASE EndFlushDone
    BY <1>15 DEF EndFlushDone
  <1>16. CASE DiscardStaging
    BY <1>16 DEF DiscardStaging
  <1>17. CASE ProducerDone
    BY <1>17 DEF ProducerDone
  <1>18. CASE ProducerNotify
    BY <1>18 DEF ProducerNotify
  <1> QED BY <1>1, <1>2, <1>3, <1>4, <1>5, <1>6, <1>7, <1>8, <1>9, <1>10, <1>11,
             <1>12, <1>13, <1>14, <1>15, <1>16, <1>17, <1>18 DEF Input, Producer

-----------------------------------------------------------------------------
(* What the selections return.                                             *)

LEMMA SelectionFacts ==
    ASSUME QueueTypes, Turns # {}
    PROVE  /\ SelectedQueue \in Queues
           /\ SelectedOffset(SelectedQueue) \in DOMAIN ready[SelectedQueue]
           /\ SelectedOffset(SelectedQueue) \in EligibleAt(SelectedQueue)
           /\ \A j \in EligibleAt(SelectedQueue) : SelectedOffset(SelectedQueue) <= j
  <1>0. Turns \subseteq Nat
    BY DEF Turns, Queues
  <1>1. \E k \in Turns : \A j \in Turns : k <= j
    BY <1>0, LeastElement
  <1> DEFINE k == CHOOSE k \in Turns : \A j \in Turns : k <= j
             q == SelectedQueue
  <1>2. k \in Turns
    BY <1>1
  <1>3. q = Scan(k) /\ q \in Queues /\ EligibleAt(q) # {}
    <2>1. q = Scan(k)
      BY DEF SelectedQueue
    <2> HIDE DEF k, q
    <2>2. k \in Queues /\ EligibleAt(Scan(k)) # {}
      BY <1>2 DEF Turns
    <2>3. Scan(k) \in Queues
      BY <2>2 DEF Scan, Queues, QueueTypes
    <2> QED BY <2>1, <2>2, <2>3
  <1> HIDE DEF q
  <1>4. EligibleAt(q) \subseteq DOMAIN ready[q] /\ EligibleAt(q) \subseteq Nat
    <2>1. ready[q] \in Seq(Slots)
      BY <1>3 DEF QueueTypes
    <2>2. DOMAIN ready[q] \subseteq Nat
      BY <2>1
    <2> QED BY <2>2 DEF EligibleAt
  <1>5. \E i \in EligibleAt(q) : \A j \in EligibleAt(q) : i <= j
    BY <1>3, <1>4, LeastElement
  <1>6. /\ SelectedOffset(q) \in EligibleAt(q)
        /\ \A j \in EligibleAt(q) : SelectedOffset(q) <= j
    BY <1>5 DEF SelectedOffset
  <1> QED BY <1>3, <1>4, <1>6 DEF q

LeastFree(q) == CHOOSE s \in Free(q) : \A t \in Free(q) : s <= t
LEMMA FreeFacts ==
    ASSUME NEW q, Free(q) # {} PROVE LeastFree(q) \in Slots \ occupied[q]
  <1>0. Free(q) \subseteq Nat
    BY DEF Free, Slots
  <1>1. \E s \in Free(q) : \A t \in Free(q) : s <= t
    BY <1>0, LeastElement
  <1> QED BY <1>1 DEF LeastFree, Free

-----------------------------------------------------------------------------
(* Types of queues, threads and counters.                                  *)

\* The five ways in which the queues change: not at all, by Insert, Claim,
\* Release or DiscardJob.
LEMMA InsertTypes ==
    ASSUME ProducerInv, QueueTypes, band \in Bands, NEW slot \in Slots, NEW r \in BOOLEAN,
           Insert(QueueOf(band), slot, r)
    PROVE  QueueTypes'
  <1> DEFINE q == QueueOf(band)
             job == [reset |-> r, subband |-> band, segment |-> segment,
                     first |-> staging[band].next,
                     count |-> IF r THEN 0 ELSE staging[band].count]
  <1>1. q \in Queues
    BY BandFacts
  <1>2. job \in Jobs
    BY DEF Jobs, ProducerInv, ProducerTypes
  <1>3. Append(ready[q], slot) \in Seq(Slots)
    BY <1>1 DEF QueueTypes
  <1>4. jobs' = [jobs EXCEPT ![q][slot] = job]
    BY DEF Insert
  <1> HIDE DEF q, job
  <1>5. jobs' \in [Queues -> [Slots -> Jobs]]
    BY <1>1, <1>2, <1>4 DEF QueueTypes
  <1>6. ready' \in [Queues -> Seq(Slots)]
    BY <1>1, <1>3 DEF Insert, QueueTypes, q
  <1>7. /\ occupied' \in [Queues -> SUBSET Slots] /\ occupiedCount' \in [Queues -> Int]
        /\ pendingJobs' \in Int /\ busy' = busy /\ nextQueue' = nextQueue
    BY <1>1 DEF Insert, QueueTypes, q
  <1> QED BY <1>5, <1>6, <1>7 DEF QueueTypes

LEMMA ClaimTypes ==
    ASSUME QueueTypes, ThreadTypes, NEW w \in Detectors, Claim(w)
    PROVE  QueueTypes' /\ ThreadTypes'
  <1> DEFINE q    == SelectedQueue
             at   == SelectedOffset(q)
             slot == ready[q][at]
  <1>1. q \in Queues /\ at \in DOMAIN ready[q]
    BY SelectionFacts DEF Claim
  <1>2. slot \in Slots /\ RemoveAt(ready[q], at) \in Seq(Slots)
    <2>1. ready[q] \in Seq(Slots)
      BY <1>1 DEF QueueTypes
    <2> HIDE DEF q, at
    <2> QED BY <2>1, <1>1, RemoveAtElements, ElementOfSeq
  <1>3. jobs[q][slot].subband \in Bands
    BY <1>1, <1>2 DEF QueueTypes, Jobs
  <1>4. /\ held' = [held EXCEPT ![w] = [queue |-> q, slot |-> slot]]
        /\ busy' = busy \cup {jobs[q][slot].subband}
        /\ ready' = [ready EXCEPT ![q] = RemoveAt(ready[q], at)]
        /\ pendingJobs' = pendingJobs - 1
        /\ nextQueue' = TurnAfter(q)
        /\ wpc' = [wpc EXCEPT ![w] = "process"]
        /\ UNCHANGED <<jobs, occupied, occupiedCount, detector>>
    BY DEF Claim, Goto
  <1>5. TurnAfter(q) \in Queues
    BY <1>1, BandFacts
  <1> HIDE DEF q, at, slot
  <1>6. QueueTypes'
    BY <1>1, <1>2, <1>3, <1>4, <1>5 DEF QueueTypes
  <1>7. ThreadTypes'
    BY <1>1, <1>2, <1>4 DEF ThreadTypes, DetectorStates
  <1> QED BY <1>6, <1>7

LEMMA FreeSlotTypes ==
    ASSUME QueueTypes, NEW q \in Queues, NEW slot \in Slots,
           jobs' = [jobs EXCEPT ![q][slot] = EmptyJob],
           occupied' = [occupied EXCEPT ![q] = @ \ {slot}],
           occupiedCount' = [occupiedCount EXCEPT ![q] = @ - 1]
    PROVE  /\ jobs' \in [Queues -> [Slots -> Jobs]]
           /\ occupied' \in [Queues -> SUBSET Slots] /\ occupiedCount' \in [Queues -> Int]
  <1>1. EmptyJob \in Jobs
    BY BandFacts DEF EmptyJob, Jobs
  <1> QED BY <1>1 DEF QueueTypes

LEMMA JobType ==
    ASSUME QueueTypes, ThreadTypes, NEW w \in Detectors
    PROVE  /\ held[w].queue \in Queues /\ held[w].slot \in Slots
           /\ Job(w) \in Jobs /\ Job(w).subband \in Bands /\ Job(w).count \in Nat
           /\ Job(w).segment \in Nat /\ Job(w).first \in Nat
  <1>1. held[w].queue \in Queues /\ held[w].slot \in Slots
    BY DEF ThreadTypes
  <1>2. Job(w) \in Jobs
    BY <1>1 DEF Job, QueueTypes
  <1> QED BY <1>1, <1>2 DEF Jobs

LEMMA DetectorStep ==
    ASSUME TypeInv, NEW w \in Detectors, Detector(w) PROVE TypeInv'
  <1> USE DEF TypeInv, ProducerUnchanged
  <1>1. CASE Claim(w)
    <2>1. QueueTypes' /\ ThreadTypes'
      BY <1>1, ClaimTypes
    <2> QED BY <1>1, <2>1, FlagFrame, ProducerFrame, TallyFrame DEF Claim, tally
  <1>2. CASE Wait(w)
    <2>1. ThreadTypes'
      BY <1>2 DEF Wait, Goto, ThreadTypes, DetectorStates
    <2> QED BY <1>2, <2>1, FlagFrame, ProducerFrame, QueueFrame, TallyFrame
            DEF Wait, tally
  <1>3. CASE Process(w)
    <2>1. Job(w).subband \in Bands /\ Job(w).segment \in Nat
          /\ Job(w).first + Job(w).count \in Nat /\ Job(w).count \in Nat
      BY JobType
    <2>2. ThreadTypes'
      BY <1>3, <2>1 DEF Process, Goto, ThreadTypes, DetectorStates
    <2>3. TallyTypes'
      BY <1>3, <2>1 DEF Process, TallyTypes
    <2> QED BY <1>3, <2>2, <2>3, FlagFrame, ProducerFrame, QueueFrame DEF Process
  <1>4. CASE ProcessThrows(w)
    <2>1. Job(w).subband \in Bands /\ Job(w).count \in Nat
      BY JobType
    <2>2. ThreadTypes'
      BY <1>4 DEF ProcessThrows, Goto, Woken, ThreadTypes, DetectorStates
    <2>3. TallyTypes'
      BY <1>4, <2>1 DEF ProcessThrows, TallyTypes
    <2>4. FlagTypes'
      BY <1>4 DEF ProcessThrows, FlagTypes
    <2>5. ProducerInv'
      BY <1>4, ProducerFrame DEF ProcessThrows
    <2>6. QueueTypes'
      BY <1>4, QueueFrame DEF ProcessThrows
    <2> QED BY <2>2, <2>3, <2>4, <2>5, <2>6
  <1>5. CASE Release(w)
    <2>1. held[w].queue \in Queues /\ held[w].slot \in Slots
      BY JobType
    <2>2. /\ jobs' \in [Queues -> [Slots -> Jobs]]
          /\ occupied' \in [Queues -> SUBSET Slots] /\ occupiedCount' \in [Queues -> Int]
      BY <1>5, <2>1, FreeSlotTypes DEF Release
    <2>3. QueueTypes'
      BY <1>5, <2>2 DEF Release, QueueTypes
    <2>4. ThreadTypes'
      BY <1>5 DEF Release, Goto, ThreadTypes, DetectorStates
    <2> QED BY <1>5, <2>3, <2>4, FlagFrame, ProducerFrame, TallyFrame DEF Release, tally
  <1>6. CASE ReleaseNotify(w)
    <2>1. ThreadTypes'
      BY <1>6 DEF ReleaseNotify, Woken, ThreadTypes, DetectorStates
    <2> QED BY <1>6, <2>1, FlagFrame, ProducerFrame, QueueFrame, TallyFrame
            DEF ReleaseNotify, tally
  <1>7. CASE Leave(w)
    <2>1. ThreadTypes'
      BY <1>7 DEF Leave, Goto, ThreadTypes, DetectorStates
    <2> QED BY <1>7, <2>1, FlagFrame, ProducerFrame, QueueFrame, TallyFrame
            DEF Leave, tally
  <1>8. CASE \E q \in Queues : DiscardJob(w, q)
    <2>1. PICK q \in Queues : DiscardJob(w, q)
      BY <1>8
    <2> DEFINE slot == Head(ready[q])
    <2>2. slot \in Slots /\ Tail(ready[q]) \in Seq(Slots)
      <3>1. ready[q] \in Seq(Slots) /\ ready[q] # <<>>
        BY <2>1 DEF QueueTypes, DiscardJob
      <3> QED BY <3>1, HeadTailProperties
    <2>3. jobs[q][slot].subband \in Bands /\ jobs[q][slot].count \in Nat
      BY <2>2 DEF QueueTypes, Jobs
    <2>4. /\ jobs' = [jobs EXCEPT ![q][slot] = EmptyJob]
          /\ occupied' = [occupied EXCEPT ![q] = @ \ {slot}]
          /\ occupiedCount' = [occupiedCount EXCEPT ![q] = @ - 1]
          /\ ready' = [ready EXCEPT ![q] = Tail(@)]
          /\ abandoned' = [abandoned EXCEPT ![jobs[q][slot].subband] = @ + jobs[q][slot].count]
      BY <2>1 DEF DiscardJob
    <2> HIDE DEF slot
    <2>5. /\ jobs' \in [Queues -> [Slots -> Jobs]]
          /\ occupied' \in [Queues -> SUBSET Slots] /\ occupiedCount' \in [Queues -> Int]
      BY <2>2, <2>4, FreeSlotTypes
    <2>6. QueueTypes'
      <3>1. UNCHANGED <<busy, nextQueue>> /\ pendingJobs' = pendingJobs - 1
        BY <2>1 DEF DiscardJob
      <3> QED BY <3>1, <2>2, <2>4, <2>5 DEF QueueTypes
    <2>7. TallyTypes'
      <3>1. UNCHANGED <<processed, emitted>>
        BY <2>1 DEF DiscardJob
      <3> QED BY <3>1, <2>3, <2>4 DEF TallyTypes
    <2> QED BY <2>1, <2>6, <2>7, FlagFrame, ProducerFrame, ThreadFrame DEF DiscardJob
  <1>9. CASE DiscardDone(w)
    <2>1. ThreadTypes'
      BY <1>9 DEF DiscardDone, Goto, ThreadTypes, DetectorStates
    <2> QED BY <1>9, <2>1, FlagFrame, ProducerFrame, QueueFrame, TallyFrame
            DEF DiscardDone, tally
  <1> QED BY <1>1, <1>2, <1>3, <1>4, <1>5, <1>6, <1>7, <1>8, <1>9 DEF Detector

\* The steps of the producer leave the queues alone, except Insert.
LEMMA ProducerQueueStep ==
    ASSUME TypeInv, Input \/ Producer
    PROVE  \/ UNCHANGED queueVars
           \/ /\ ppc = "enqueue" /\ ~failed /\ ~(Free(QueueOf(band)) = {})
              /\ Insert(QueueOf(band), LeastFree(QueueOf(band)), stage = "segment_reset")
  BY DEF Input, Producer, TakeBlock, EndOfInput, SeeFailure, FlushStaging, NewSegment,
         ResetBand, Feed, FeedThrows, AppendBand, AppendDone, Enqueue, SpaceSleep,
         Announce, ProducerFail, EndFlushDone, DiscardStaging, ProducerDone,
         ProducerNotify, PoolUnchanged, LeastFree, Free

LEMMA ProducerThreadStep ==
    ASSUME Input \/ Producer
    PROVE  (wpc' = wpc \/ wpc' = Woken) /\ UNCHANGED <<held, detector>>
  BY DEF Input, Producer, TakeBlock, EndOfInput, SeeFailure, FlushStaging, NewSegment,
         ResetBand, Feed, FeedThrows, AppendBand, AppendDone, Enqueue, SpaceSleep,
         Announce, ProducerFail, EndFlushDone, DiscardStaging, ProducerDone,
         ProducerNotify, PoolUnchanged, NotifyAvailable, threadVars

LEMMA ProducerTypeStep ==
    ASSUME TypeInv, Input \/ Producer PROVE TypeInv'
  <1>1. FlagTypes'
    BY DEF TypeInv, FlagTypes, Input, Producer, TakeBlock, EndOfInput, SeeFailure,
           FlushStaging, NewSegment, ResetBand, Feed, FeedThrows, AppendBand, AppendDone,
           Enqueue, SpaceSleep, Announce, ProducerFail, EndFlushDone, DiscardStaging,
           ProducerDone, ProducerNotify
  <1>2. ProducerInv'
    BY ProducerStep DEF TypeInv
  <1>3. QueueTypes'
    <2>1. CASE UNCHANGED queueVars
      BY <2>1, QueueFrame DEF TypeInv
    <2>2. CASE /\ ppc = "enqueue" /\ ~(Free(QueueOf(band)) = {})
               /\ Insert(QueueOf(band), LeastFree(QueueOf(band)), stage = "segment_reset")
      <3>1. LeastFree(QueueOf(band)) \in Slots
        BY <2>2, FreeFacts
      <3>2. band \in Bands /\ (stage = "segment_reset") \in BOOLEAN
        BY <2>2 DEF TypeInv, ProducerInv, BandInRange
      <3> QED BY <2>2, <3>1, <3>2, InsertTypes DEF TypeInv
    <2> QED BY <2>1, <2>2, ProducerQueueStep
  <1>4. ThreadTypes'
    BY ProducerThreadStep DEF TypeInv, ThreadTypes, Woken, DetectorStates
  <1>5. TallyTypes'
    <2>1. CASE AppendBand
      <3> DEFINE n == SmallerOf(left, Batch - staging[band].count)
      <3>1. band \in Bands /\ emitted' = [emitted EXCEPT ![band] = @ + n]
            /\ UNCHANGED <<processed, abandoned>>
        BY <2>1, BandFacts DEF AppendBand, TypeInv, ProducerInv, ProducerTypes
      <3>2. n \in Nat
        BY <3>1 DEF SmallerOf, TypeInv, ProducerInv, ProducerTypes, StagingBound
      <3> QED BY <3>1, <3>2 DEF TypeInv, TallyTypes
    <2>2. CASE DiscardStaging
      BY <2>2 DEF DiscardStaging, TypeInv, ProducerInv, ProducerTypes, TallyTypes
    <2>3. CASE ~AppendBand /\ ~DiscardStaging
      <3>1. UNCHANGED tally
        BY <2>3 DEF Input, Producer, TakeBlock, EndOfInput, SeeFailure, FlushStaging,
             NewSegment, ResetBand, Feed, FeedThrows, AppendDone, Enqueue, SpaceSleep,
             Announce, ProducerFail, EndFlushDone, ProducerDone, ProducerNotify
      <3> QED BY <3>1, TallyFrame DEF TypeInv
    <2> QED BY <2>1, <2>2, <2>3
  <1> QED BY <1>1, <1>2, <1>3, <1>4, <1>5 DEF TypeInv

LEMMA StutterFrame == TypeInv /\ UNCHANGED vars => TypeInv'
  BY DEF TypeInv, vars, prodVars, queueVars, threadVars, tally, FlagTypes, ProducerInv,
         ProducerTypes, BandInRange, StagingBound, QueueTypes, ThreadTypes, TallyTypes

LEMMA TypeStep == TypeInv /\ [Next]_vars => TypeInv'
  BY ProducerTypeStep, DetectorStep, StutterFrame DEF Next, Terminated

\* Every variable of the pool keeps its type: in particular the producer's loop
\* index names a band wherever enqueue() uses it, and staging never overfills.
THEOREM TypeCorrect == Spec => []TypeOK
  <1>1. Init => TypeInv
    BY InitTypeInv
  <1>2. TypeInv => TypeOK
    BY DEF TypeInv, TypeOK, ProducerInv
  <1> QED BY <1>1, <1>2, TypeStep, PTL DEF Spec

-----------------------------------------------------------------------------
(* Slot ownership and mutual exclusion on a band's detector.               *)

PoolInv == TypeInv /\ SlotAccounting /\ OneJobPerBand

LEMMA FiniteSlots ==
    ASSUME QueueTypes
    PROVE  /\ \A q \in Queues : IsFiniteSet(occupied[q])
           /\ IsFiniteSet(PendingSlots)
  <1>1. IsFiniteSet(Slots) /\ IsFiniteSet(Queues)
    BY FS_Interval DEF Slots, Queues
  <1>2. IsFiniteSet(Queues \X Slots)
    BY <1>1, FS_Product
  <1>3. \A q \in Queues : occupied[q] \subseteq Slots
    BY DEF QueueTypes
  <1> QED BY <1>1, <1>2, <1>3, FS_Subset DEF PendingSlots

\* Steps that neither touch the queues nor change who holds a job.
LEMMA SlotFrame ==
    ASSUME UNCHANGED <<queueVars, held>>, Active' = Active
    PROVE  /\ SlotAccounting => SlotAccounting'
           /\ OneJobPerBand => OneJobPerBand'
  <1>1. /\ jobs' = jobs /\ occupied' = occupied /\ occupiedCount' = occupiedCount
        /\ ready' = ready /\ pendingJobs' = pendingJobs /\ busy' = busy /\ held' = held
    BY DEF queueVars
  <1>2. \A q : HeldIn(q)' = HeldIn(q)
    BY <1>1 DEF HeldIn
  <1>3. PendingSlots' = PendingSlots
    BY <1>1 DEF PendingSlots
  <1>4. SlotAccounting => SlotAccounting'
    BY <1>1, <1>2, <1>3 DEF SlotAccounting
  <1>5. \A w : Job(w)' = Job(w)
    BY <1>1 DEF Job
  <1>6. OneJobPerBand => OneJobPerBand'
    BY <1>1, <1>5 DEF OneJobPerBand
  <1> QED BY <1>4, <1>6

LEMMA InitPool == Init => SlotAccounting /\ OneJobPerBand
  <1> SUFFICES ASSUME Init PROVE SlotAccounting /\ OneJobPerBand
    OBVIOUS
  <1>1. Active = {}
    BY DEF Init, Active, Holding, Unsettled
  <1>2. \A q \in Queues : ready[q] = <<>> /\ ToSet(ready[q]) = {} /\ HeldIn(q) = {}
                          /\ occupied[q] = {} /\ occupiedCount[q] = 0
    BY <1>1 DEF Init, HeldIn, ToSet
  <1>3. PendingSlots = {}
    BY <1>2 DEF PendingSlots
  <1> QED BY <1>1, <1>2, <1>3, FS_EmptySet DEF Init, SlotAccounting, OneJobPerBand

\* SlotAccounting with its parts named, for queue q.
Fifo(q) == \A i, j \in DOMAIN ready[q] : ready[q][i] = ready[q][j] => i = j
Owned(q) == /\ occupied[q] = ToSet(ready[q]) \cup HeldIn(q)
            /\ ToSet(ready[q]) \cap HeldIn(q) = {}
Counted(q) == occupiedCount[q] = Cardinality(occupied[q])
OneHolder == \A v, w \in Active : held[v] = held[w] => v = w

LEMMA SlotParts ==
    SlotAccounting <=> /\ \A q \in Queues : Fifo(q) /\ Owned(q) /\ Counted(q)
                       /\ OneHolder
                       /\ pendingJobs = Cardinality(PendingSlots)
  BY DEF SlotAccounting, Fifo, Owned, Counted, OneHolder

LEMMA SlotPartsNext ==
    ASSUME \A q \in Queues : Fifo(q)' /\ Owned(q)' /\ Counted(q)', OneHolder',
           pendingJobs' = Cardinality(PendingSlots)'
    PROVE  SlotAccounting'
  BY DEF SlotAccounting, Fifo, Owned, Counted, OneHolder

\* The slots of a queue that neither enters nor leaves.
LEMMA OtherQueue ==
    ASSUME NEW p \in Queues, Fifo(p), Owned(p), Counted(p),
           ready'[p] = ready[p], occupied'[p] = occupied[p],
           occupiedCount'[p] = occupiedCount[p], HeldIn(p)' = HeldIn(p)
    PROVE  Fifo(p)' /\ Owned(p)' /\ Counted(p)'
  BY DEF Fifo, Owned, Counted

\* The job of a thread stays where it is while its slot is not written.
LEMMA HeldJob ==
    ASSUME QueueTypes, ThreadTypes, NEW w \in Detectors, NEW q \in Queues,
           NEW slot \in Slots, NEW job, jobs' = [jobs EXCEPT ![q][slot] = job],
           held'[w] = held[w], held[w] # [queue |-> q, slot |-> slot]
    PROVE  Job(w)' = Job(w)
  <1>1. held[w].queue \in Queues /\ held[w].slot \in Slots
        /\ held[w] = [queue |-> held[w].queue, slot |-> held[w].slot]
    BY DEF ThreadTypes
  <1>2. held[w].queue # q \/ held[w].slot # slot
    BY <1>1
  <1> QED BY <1>1, <1>2 DEF Job, QueueTypes

LEMMA InsertSlots ==
    ASSUME PoolInv, NEW r \in BOOLEAN, NEW q \in Queues, NEW slot \in Slots,
           slot \notin occupied[q], Insert(q, slot, r), UNCHANGED held, Active' = Active
    PROVE  SlotAccounting' /\ OneJobPerBand'
  <1>0. QueueTypes /\ ThreadTypes /\ SlotAccounting /\ OneJobPerBand
    BY DEF PoolInv, TypeInv
  <1>1. PICK job : jobs' = [jobs EXCEPT ![q][slot] = job]
    BY DEF Insert
  <1>2. /\ occupied' = [occupied EXCEPT ![q] = occupied[q] \cup {slot}]
        /\ occupiedCount' = [occupiedCount EXCEPT ![q] = occupiedCount[q] + 1]
        /\ ready' = [ready EXCEPT ![q] = Append(ready[q], slot)]
        /\ pendingJobs' = pendingJobs + 1 /\ busy' = busy
    BY DEF Insert
  <1>3. /\ \A p \in Queues : Fifo(p) /\ Owned(p) /\ Counted(p)
        /\ OneHolder /\ pendingJobs = Cardinality(PendingSlots)
    BY <1>0, SlotParts
  <1>4. \A p \in Queues : HeldIn(p)' = HeldIn(p)
    BY DEF HeldIn
  <1>5. /\ ready[q] \in Seq(Slots) /\ slot \notin ToSet(ready[q]) /\ slot \notin HeldIn(q)
    BY <1>0, <1>3 DEF Owned, QueueTypes
  <1>6. ready'[q] = Append(ready[q], slot) /\ ToSet(ready'[q]) = ToSet(ready[q]) \cup {slot}
    BY <1>0, <1>2, <1>5, AppendToSet DEF QueueTypes
  <1>7. Fifo(q)'
    <2>1. /\ Len(ready[q]) \in Nat /\ DOMAIN ready[q] = 1 .. Len(ready[q])
          /\ DOMAIN ready'[q] = 1 .. Len(ready[q]) + 1
          /\ \A i \in 1 .. Len(ready[q]) : ready'[q][i] = ready[q][i]
          /\ ready'[q][Len(ready[q]) + 1] = slot
      BY <1>5, <1>6, AppendProperties
    <2>2. \A i \in 1 .. Len(ready[q]) : ready[q][i] # slot
      BY <1>5, <2>1 DEF ToSet
    <2> QED BY <1>0, <1>3, <2>1, <2>2 DEF Fifo
  <1>8. Owned(q)'
    BY <1>0, <1>2, <1>3, <1>4, <1>5, <1>6 DEF Owned, QueueTypes
  <1>9. Counted(q)'
    <2>1. occupied'[q] = occupied[q] \cup {slot} /\ occupiedCount'[q] = occupiedCount[q] + 1
      BY <1>0, <1>2 DEF QueueTypes
    <2>2. Cardinality(occupied[q] \cup {slot}) = Cardinality(occupied[q]) + 1
      BY <1>0, FiniteSlots, FS_AddElement
    <2> QED BY <2>1, <2>2, <1>0, <1>3 DEF Counted
  <1>10. \A p \in Queues \ {q} : Fifo(p)' /\ Owned(p)' /\ Counted(p)'
    BY <1>0, <1>2, <1>3, <1>4, OtherQueue DEF QueueTypes
  <1>11. OneHolder'
    BY <1>3 DEF OneHolder
  <1>12. pendingJobs' = Cardinality(PendingSlots)'
    <2>1. PendingSlots' = PendingSlots \cup {<<q, slot>>} /\ <<q, slot>> \notin PendingSlots
      BY <1>0, <1>2, <1>5, <1>6 DEF PendingSlots, QueueTypes
    <2> QED BY <2>1, <1>0, <1>2, <1>3, FiniteSlots, FS_AddElement
  <1>13. SlotAccounting'
    <2>1. \A p \in Queues : Fifo(p)' /\ Owned(p)' /\ Counted(p)'
      BY <1>7, <1>8, <1>9, <1>10
    <2> QED BY <2>1, <1>11, <1>12, SlotPartsNext
  <1>14. \A w \in Active : Job(w)' = Job(w)
    <2> SUFFICES ASSUME NEW w \in Active PROVE Job(w)' = Job(w)
      OBVIOUS
    <2>1. w \in Detectors
      BY DEF Active
    <2>2. held[w] # [queue |-> q, slot |-> slot]
      BY <1>5 DEF HeldIn
    <2> QED BY <2>1, <2>2, <1>0, <1>1, HeldJob
  <1>15. OneJobPerBand'
    BY <1>0, <1>2, <1>14 DEF OneJobPerBand
  <1> QED BY <1>13, <1>15

\* Claim moves one slot from the pending to the held ones.
LEMMA ClaimSlots ==
    ASSUME PoolInv, NEW w \in Detectors, w \notin Active, NEW q \in Queues,
           NEW at \in DOMAIN ready[q], NEW slot, slot = ready[q][at],
           jobs[q][slot].subband \notin busy,
           held' = [held EXCEPT ![w] = [queue |-> q, slot |-> slot]],
           busy' = busy \cup {jobs[q][slot].subband},
           ready' = [ready EXCEPT ![q] = RemoveAt(ready[q], at)],
           pendingJobs' = pendingJobs - 1,
           UNCHANGED <<jobs, occupied, occupiedCount>>, Active' = Active \cup {w}
    PROVE  SlotAccounting' /\ OneJobPerBand'
  <1>0. QueueTypes /\ ThreadTypes /\ SlotAccounting /\ OneJobPerBand
    BY DEF PoolInv, TypeInv
  <1>1. /\ \A p \in Queues : Fifo(p) /\ Owned(p) /\ Counted(p)
        /\ OneHolder /\ pendingJobs = Cardinality(PendingSlots)
    BY <1>0, SlotParts
  <1>2. ready[q] \in Seq(Slots) /\ slot \in ToSet(ready[q]) /\ slot \in Slots
    BY <1>0 DEF QueueTypes, ToSet
  <1>3. /\ ready'[q] = RemoveAt(ready[q], at)
        /\ ToSet(ready'[q]) = ToSet(ready[q]) \ {slot} /\ Fifo(q)'
    <2>1. ready'[q] = RemoveAt(ready[q], at)
      BY <1>0 DEF QueueTypes
    <2>2. \A j, k \in DOMAIN ready[q] : ready[q][j] = ready[q][k] => j = k
      BY <1>1 DEF Fifo
    <2> QED BY <2>1, <2>2, <1>2, RemoveAtToSet DEF Fifo
  <1>4. held'[w] = [queue |-> q, slot |-> slot] /\ \A v \in Active : held'[v] = held[v]
    BY <1>0 DEF ThreadTypes, Active
  <1>5. HeldIn(q)' = HeldIn(q) \cup {slot} /\ \A p \in Queues \ {q} : HeldIn(p)' = HeldIn(p)
    BY <1>4 DEF HeldIn
  <1>6. slot \notin HeldIn(q)
    BY <1>1, <1>2 DEF Owned
  <1>7. Owned(q)' /\ Counted(q)'
    BY <1>1, <1>2, <1>3, <1>5, <1>6 DEF Owned, Counted
  <1>8. \A p \in Queues \ {q} : Fifo(p)' /\ Owned(p)' /\ Counted(p)'
    BY <1>0, <1>1, <1>5, OtherQueue DEF QueueTypes
  <1>9. \A v \in Active : held[v] # [queue |-> q, slot |-> slot]
    BY <1>6 DEF HeldIn
  <1>10. OneHolder'
    BY <1>1, <1>4, <1>9 DEF OneHolder
  <1>11. pendingJobs' = Cardinality(PendingSlots)'
    <2>1. PendingSlots' = PendingSlots \ {<<q, slot>>} /\ <<q, slot>> \in PendingSlots
      BY <1>0, <1>2, <1>3 DEF PendingSlots, QueueTypes
    <2> QED BY <2>1, <1>0, <1>1, FiniteSlots, FS_RemoveElement
  <1>12. SlotAccounting'
    <2>1. \A p \in Queues : Fifo(p)' /\ Owned(p)' /\ Counted(p)'
      BY <1>3, <1>7, <1>8
    <2> QED BY <2>1, <1>10, <1>11, SlotPartsNext
  <1>13. Job(w)' = jobs[q][slot] /\ \A v \in Active : Job(v)' = Job(v)
    BY <1>4 DEF Job
  <1>14. OneJobPerBand'
    BY <1>0, <1>13 DEF OneJobPerBand
  <1> QED BY <1>12, <1>14

\* Release frees the slot and the band of the thread that held them.
LEMMA ReleaseSlots ==
    ASSUME PoolInv, NEW w \in Active, NEW q, NEW slot,
           q = held[w].queue, slot = held[w].slot,
           jobs' = [jobs EXCEPT ![q][slot] = EmptyJob],
           busy' = busy \ {Job(w).subband},
           occupied' = [occupied EXCEPT ![q] = occupied[q] \ {slot}],
           occupiedCount' = [occupiedCount EXCEPT ![q] = occupiedCount[q] - 1],
           UNCHANGED <<ready, pendingJobs, held>>, Active' = Active \ {w}
    PROVE  SlotAccounting' /\ OneJobPerBand'
  <1>0. QueueTypes /\ ThreadTypes /\ SlotAccounting /\ OneJobPerBand /\ w \in Detectors
    BY DEF PoolInv, TypeInv, Active
  <1>1. /\ \A p \in Queues : Fifo(p) /\ Owned(p) /\ Counted(p)
        /\ OneHolder /\ pendingJobs = Cardinality(PendingSlots)
    BY <1>0, SlotParts
  <1>2. q \in Queues /\ slot \in Slots /\ slot \in HeldIn(q)
    BY <1>0, JobType DEF HeldIn
  <1>3. \A v \in Active : /\ held[v] = [queue |-> held[v].queue, slot |-> held[v].slot]
                          /\ held[v].queue \in Queues /\ held[v].slot \in Slots
    BY <1>0 DEF ThreadTypes, Active
  <1>4. \A v \in Active \ {w} : held[v] # [queue |-> q, slot |-> slot]
    BY <1>1, <1>3 DEF OneHolder
  <1>5. HeldIn(q)' = HeldIn(q) \ {slot} /\ \A p \in Queues \ {q} : HeldIn(p)' = HeldIn(p)
    <2>1. \A p : HeldIn(p)' = {held[v].slot : v \in {u \in Active \ {w} : held[u].queue = p}}
      BY DEF HeldIn
    <2>2. \A v \in Active \ {w} : held[v].queue = q => held[v].slot # slot
      BY <1>3, <1>4
    <2>3. \A p : HeldIn(p) = {held[v].slot : v \in {u \in Active : held[u].queue = p}}
      BY DEF HeldIn
    <2>4. HeldIn(q)' = HeldIn(q) \ {slot}
      BY <2>1, <2>2, <2>3
    <2> QED BY <2>1, <2>3, <2>4
  <1>6. Fifo(q)'
    BY <1>1, <1>2 DEF Fifo
  <1>7. occupied'[q] = occupied[q] \ {slot} /\ occupiedCount'[q] = occupiedCount[q] - 1
    BY <1>0, <1>2 DEF QueueTypes
  <1>8. Owned(q)'
    BY <1>1, <1>2, <1>5, <1>7 DEF Owned
  <1>9. Counted(q)'
    <2>1. slot \in occupied[q]
      BY <1>1, <1>2 DEF Owned
    <2>2. Cardinality(occupied[q] \ {slot}) = Cardinality(occupied[q]) - 1
      BY <2>1, <1>0, <1>2, FiniteSlots, FS_RemoveElement
    <2> QED BY <2>2, <1>1, <1>2, <1>7 DEF Counted
  <1>10. \A p \in Queues \ {q} : Fifo(p)' /\ Owned(p)' /\ Counted(p)'
    BY <1>0, <1>1, <1>2, <1>5, OtherQueue DEF QueueTypes
  <1>11. OneHolder'
    BY <1>1 DEF OneHolder
  <1>12. PendingSlots' = PendingSlots
    BY DEF PendingSlots
  <1>13. SlotAccounting'
    <2>1. \A p \in Queues : Fifo(p)' /\ Owned(p)' /\ Counted(p)'
      BY <1>6, <1>8, <1>9, <1>10
    <2> QED BY <2>1, <1>1, <1>11, <1>12, SlotPartsNext
  <1>14. \A v \in Active \ {w} : Job(v)' = Job(v)
    BY <1>0, <1>2, <1>4, HeldJob DEF Active
  <1>15. OneJobPerBand'
    BY <1>0, <1>14 DEF OneJobPerBand
  <1> QED BY <1>13, <1>15

\* discard_detector_jobs frees the slot of the oldest pending job.
LEMMA DiscardSlots ==
    ASSUME PoolInv, NEW q \in Queues, ready[q] # <<>>, NEW slot, slot = Head(ready[q]),
           jobs' = [jobs EXCEPT ![q][slot] = EmptyJob],
           occupied' = [occupied EXCEPT ![q] = occupied[q] \ {slot}],
           occupiedCount' = [occupiedCount EXCEPT ![q] = occupiedCount[q] - 1],
           ready' = [ready EXCEPT ![q] = Tail(ready[q])], pendingJobs' = pendingJobs - 1,
           UNCHANGED <<busy, held>>, Active' = Active
    PROVE  SlotAccounting' /\ OneJobPerBand'
  <1>0. QueueTypes /\ ThreadTypes /\ SlotAccounting /\ OneJobPerBand
    BY DEF PoolInv, TypeInv
  <1>1. /\ \A p \in Queues : Fifo(p) /\ Owned(p) /\ Counted(p)
        /\ OneHolder /\ pendingJobs = Cardinality(PendingSlots)
    BY <1>0, SlotParts
  <1>2. ready[q] \in Seq(Slots)
    BY <1>0 DEF QueueTypes
  <1>3. /\ slot \in Slots /\ slot \in ToSet(ready[q]) /\ Fifo(q)'
        /\ ToSet(ready'[q]) = ToSet(ready[q]) \ {slot}
    <2>1. ready'[q] = Tail(ready[q])
      BY <1>0 DEF QueueTypes
    <2>2. \A j, k \in DOMAIN ready[q] : ready[q][j] = ready[q][k] => j = k
      BY <1>1 DEF Fifo
    <2>3. /\ Head(ready[q]) \in Slots /\ Head(ready[q]) \in ToSet(ready[q])
          /\ ToSet(Tail(ready[q])) = ToSet(ready[q]) \ {Head(ready[q])}
          /\ \A j, k \in DOMAIN Tail(ready[q]) :
                Tail(ready[q])[j] = Tail(ready[q])[k] => j = k
      BY <2>2, <1>2, TailToSet
    <2>4. Fifo(q)'
      BY <2>1, <2>3 DEF Fifo
    <2>5. ToSet(ready'[q]) = ToSet(ready[q]) \ {slot}
      BY <2>1, <2>3
    <2> QED BY <2>3, <2>4, <2>5
  <1>4. \A p \in Queues : HeldIn(p)' = HeldIn(p)
    BY DEF HeldIn
  <1>5. occupied'[q] = occupied[q] \ {slot} /\ occupiedCount'[q] = occupiedCount[q] - 1
    BY <1>0 DEF QueueTypes
  <1>6. Owned(q)'
    BY <1>1, <1>3, <1>4, <1>5 DEF Owned
  <1>7. Counted(q)'
    <2>1. slot \in occupied[q]
      BY <1>1, <1>3 DEF Owned
    <2>2. Cardinality(occupied[q] \ {slot}) = Cardinality(occupied[q]) - 1
      BY <2>1, <1>0, FiniteSlots, FS_RemoveElement
    <2> QED BY <2>2, <1>1, <1>5 DEF Counted
  <1>8. \A p \in Queues \ {q} : Fifo(p)' /\ Owned(p)' /\ Counted(p)'
    BY <1>0, <1>1, <1>4, OtherQueue DEF QueueTypes
  <1>9. OneHolder'
    BY <1>1 DEF OneHolder
  <1>10. pendingJobs' = Cardinality(PendingSlots)'
    <2>1. PendingSlots' = PendingSlots \ {<<q, slot>>} /\ <<q, slot>> \in PendingSlots
      BY <1>0, <1>3 DEF PendingSlots, QueueTypes
    <2> QED BY <2>1, <1>0, <1>1, FiniteSlots, FS_RemoveElement
  <1>11. SlotAccounting'
    <2>1. \A p \in Queues : Fifo(p)' /\ Owned(p)' /\ Counted(p)'
      BY <1>3, <1>6, <1>7, <1>8
    <2> QED BY <2>1, <1>9, <1>10, SlotPartsNext
  <1>12. \A v \in Active : Job(v)' = Job(v)
    <2>1. slot \notin HeldIn(q)
      BY <1>1, <1>3 DEF Owned
    <2>2. \A v \in Active : held[v] # [queue |-> q, slot |-> slot]
      BY <2>1 DEF HeldIn
    <2> QED BY <2>2, <1>0, <1>3, HeldJob DEF Active
  <1>13. OneJobPerBand'
    BY <1>0, <1>12 DEF OneJobPerBand
  <1> QED BY <1>11, <1>13

\* The producer holds no job; its only step on the queues is Enqueue.
LEMMA ProducerPoolStep ==
    ASSUME PoolInv, Input \/ Producer PROVE SlotAccounting' /\ OneJobPerBand'
  <1>0. TypeInv /\ ThreadTypes /\ SlotAccounting /\ OneJobPerBand
    BY DEF PoolInv, TypeInv
  <1>1. CASE UNCHANGED <<queueVars, held>> /\ wpc' \in {wpc, Woken}
    <2>1. Active' = Active
      BY <1>0, <1>1 DEF Active, Holding, Unsettled, Woken, ThreadTypes
    <2> QED BY <1>0, <1>1, <2>1, SlotFrame
  <1>2. CASE Enqueue
    <2>1. Active' = Active /\ UNCHANGED held
      BY <1>2 DEF Enqueue, threadVars, Active
    <2>2. CASE UNCHANGED queueVars
      BY <1>0, <2>1, <2>2, SlotFrame
    <2>3. CASE ~ UNCHANGED queueVars
      <3>1. /\ band \in Bands /\ Free(QueueOf(band)) # {}
            /\ Insert(QueueOf(band), LeastFree(QueueOf(band)), stage = "segment_reset")
        BY <1>0, <1>2, <2>3 DEF Enqueue, LeastFree, TypeInv, ProducerInv, BandInRange
      <3>2. QueueOf(band) \in Queues /\ (stage = "segment_reset") \in BOOLEAN
        BY <3>1, BandFacts
      <3>3. LeastFree(QueueOf(band)) \in Slots \ occupied[QueueOf(band)]
        BY <3>1, FreeFacts
      <3> QED BY <2>1, <3>1, <3>2, <3>3, InsertSlots
    <2> QED BY <2>2, <2>3
  <1>3. Enqueue \/ (UNCHANGED <<queueVars, held>> /\ wpc' \in {wpc, Woken})
    BY DEF Input, Producer, TakeBlock, EndOfInput, SeeFailure, FlushStaging, NewSegment,
           ResetBand, Feed, FeedThrows, AppendBand, AppendDone, SpaceSleep, Announce,
           ProducerFail, EndFlushDone, DiscardStaging, ProducerDone, ProducerNotify,
           NotifyAvailable, PoolUnchanged, threadVars
  <1> QED BY <1>1, <1>2, <1>3

\* Each detector step claims, releases or discards one job, or leaves the jobs and
\* their holders as they are.
LEMMA DetectorPoolStep ==
    ASSUME PoolInv, NEW w \in Detectors, Detector(w) PROVE SlotAccounting' /\ OneJobPerBand'
  <1>0. TypeInv /\ QueueTypes /\ ThreadTypes /\ SlotAccounting /\ OneJobPerBand
    BY DEF PoolInv, TypeInv
  <1>1. CASE Claim(w)
    <2>1. PICK q \in Queues : q = SelectedQueue
      BY <1>0, <1>1, SelectionFacts DEF Claim
    <2>2. PICK at \in DOMAIN ready[q] : at = SelectedOffset(q) /\ at \in EligibleAt(q)
      BY <1>0, <1>1, <2>1, SelectionFacts DEF Claim
    <2>3. PICK slot : slot = ready[q][at]
      OBVIOUS
    <2>4. jobs[q][slot].subband \notin busy
      BY <2>2, <2>3 DEF EligibleAt
    <2>5. /\ held' = [held EXCEPT ![w] = [queue |-> q, slot |-> slot]]
          /\ busy' = busy \cup {jobs[q][slot].subband}
          /\ ready' = [ready EXCEPT ![q] = RemoveAt(ready[q], at)]
          /\ pendingJobs' = pendingJobs - 1
          /\ UNCHANGED <<jobs, occupied, occupiedCount>>
          /\ wpc[w] = "check" /\ wpc' = [wpc EXCEPT ![w] = "process"]
      BY <1>1, <2>1, <2>2, <2>3 DEF Claim, Goto
    <2>6. w \notin Active /\ Active' = Active \cup {w}
      BY <1>0, <2>5 DEF Active, Holding, Unsettled, ThreadTypes
    <2> QED BY <2>3, <2>4, <2>5, <2>6, ClaimSlots
  <1>2. CASE Release(w)
    <2>1. PICK q, slot : q = held[w].queue /\ slot = held[w].slot
      OBVIOUS
    <2>2. /\ jobs' = [jobs EXCEPT ![q][slot] = EmptyJob]
          /\ busy' = busy \ {Job(w).subband}
          /\ occupied' = [occupied EXCEPT ![q] = occupied[q] \ {slot}]
          /\ occupiedCount' = [occupiedCount EXCEPT ![q] = occupiedCount[q] - 1]
          /\ UNCHANGED <<ready, pendingJobs, held>>
          /\ wpc[w] = "release" /\ wpc' = [wpc EXCEPT ![w] = "notify"]
      BY <1>2, <2>1 DEF Release, Goto
    <2>3. w \in Active /\ Active' = Active \ {w}
      BY <1>0, <2>2 DEF Active, Holding, Unsettled, ThreadTypes
    <2> QED BY <2>1, <2>2, <2>3, ReleaseSlots
  <1>3. CASE \E q \in Queues : DiscardJob(w, q)
    <2>1. PICK q \in Queues : DiscardJob(w, q)
      BY <1>3
    <2>2. PICK slot : slot = Head(ready[q])
      OBVIOUS
    <2>3. /\ ready[q] # <<>>
          /\ jobs' = [jobs EXCEPT ![q][slot] = EmptyJob]
          /\ occupied' = [occupied EXCEPT ![q] = occupied[q] \ {slot}]
          /\ occupiedCount' = [occupiedCount EXCEPT ![q] = occupiedCount[q] - 1]
          /\ ready' = [ready EXCEPT ![q] = Tail(ready[q])]
          /\ pendingJobs' = pendingJobs - 1 /\ UNCHANGED <<busy, threadVars>>
      BY <2>1, <2>2 DEF DiscardJob
    <2>4. Active' = Active /\ UNCHANGED <<busy, held>>
      BY <2>3 DEF Active, threadVars
    <2> QED BY <2>2, <2>3, <2>4, DiscardSlots
  <1>4. CASE Wait(w) \/ Process(w) \/ ProcessThrows(w) \/ ReleaseNotify(w) \/ Leave(w)
             \/ DiscardDone(w)
    <2>1. UNCHANGED <<queueVars, held>>
      BY <1>4 DEF Wait, Process, ProcessThrows, ReleaseNotify, Leave, DiscardDone
    <2>2. Active' = Active
      BY <1>0, <1>4 DEF Wait, Process, ProcessThrows, ReleaseNotify, Leave, DiscardDone,
                        Goto, Woken, Active, Holding, Unsettled, ThreadTypes
    <2> QED BY <1>0, <2>1, <2>2, SlotFrame
  <1> QED BY <1>1, <1>2, <1>3, <1>4 DEF Detector

LEMMA PoolStep == PoolInv /\ [Next]_vars => PoolInv'
  <1> SUFFICES ASSUME PoolInv, [Next]_vars PROVE PoolInv'
    OBVIOUS
  <1>1. TypeInv'
    BY TypeStep DEF PoolInv
  <1>2. SlotAccounting' /\ OneJobPerBand'
    <2>1. CASE Input \/ Producer
      BY <2>1, ProducerPoolStep
    <2>2. CASE \E w \in Detectors : Detector(w)
      BY <2>2, DetectorPoolStep
    <2>3. CASE UNCHANGED vars
      BY <2>3, SlotFrame DEF PoolInv, vars, threadVars, Active
    <2> QED BY <2>1, <2>2, <2>3 DEF Next, Terminated
  <1> QED BY <1>1, <1>2 DEF PoolInv

LEMMA PoolAlways == Spec => []PoolInv
  <1>1. Init => PoolInv
    BY InitTypeInv, InitPool DEF PoolInv
  <1> QED BY <1>1, PoolStep, PTL DEF Spec

\* A job slot is free, pending once or held by one thread, and the counters the
\* waits rely on agree with the slots: enqueue() below capacity finds a free slot.
THEOREM SlotsAccounted == Spec => []SlotAccounting
  BY PoolAlways, PTL DEF PoolInv

\* No two threads use one band's detector at a time.
THEOREM BandsExclusive == Spec => []OneJobPerBand
  BY PoolAlways, PTL DEF PoolInv
-----------------------------------------------------------------------------
(* Order.  What is pending for a band, read from the position of its        *)
(* detector to the producer's staging, is one gapless chain.               *)

\* Where a detector stands after a job, and whether a job continues a position.
After(job) ==
    [segment |-> job.segment, next |-> IF job.reset THEN 0 ELSE job.first + job.count]
Follows(at, job) ==
    IF job.reset THEN job.segment = at.segment + 1
    ELSE job.segment = at.segment /\ job.first = at.next
Positions == [segment : Nat, next : Nat]

\* The jobs of band b in s lead from position start, each where the one before it
\* ended, to a position of the set E.
Of(s, b) == {i \in DOMAIN s : s[i].subband = b}
Chain(s, b, start, E) ==
    /\ Of(s, b) = {} => start \in E
    /\ \A i \in Of(s, b) : (\A k \in Of(s, b) : i <= k) => Follows(start, s[i])
    /\ \A i \in Of(s, b) : (\A k \in Of(s, b) : k <= i) => After(s[i]) \in E
    /\ \A i, j \in Of(s, b) : i < j /\ (\A k \in Of(s, b) : k <= i \/ k >= j)
                              => Follows(After(s[i]), s[j])

\* The pending jobs of a queue, oldest first; the threads at work on a band.
Queued(q) == [i \in DOMAIN ready[q] |-> jobs[q][ready[q][i]]]
Processing(b) == {w \in Detectors : wpc[w] = "process" /\ Job(w).subband = b}

\* Where the chain of band b has to end: at the producer's staging, or in the
\* segment before while the band's reset of the new segment is not enqueued yet.
\* A producer that has given up or is done adds nothing to the chain.
Inserting == {"enqueue", "space_doze", "space_asleep"}
Producing == ppc \in {"idle", "run", "announce"} \cup Inserting
Behind(b) == stage = "segment_reset"
             /\ (b > band \/ (b = band /\ ppc \in {"run"} \cup Inserting))
EndsAt(b, p) ==
    IF Behind(b) THEN p.segment = segment - 1
    ELSE p.segment = segment /\ p.next = staging[b].next
Ends(b) == {p \in Positions : Producing => EndsAt(b, p)}

BandChain(b) ==
    /\ \A w \in Processing(b) : Chain(Queued(QueueOf(b)), b, After(Job(w)), Ends(b))
    /\ Processing(b) = {} => Chain(Queued(QueueOf(b)), b, detector[b], Ends(b))
Chains == ~failed => \A b \in Bands : BandChain(b)

\* A job is in its band's queue; only a failure lets a thread discard jobs; the
\* producer takes a block outside new_segment; a reset job finds an empty staging.
QueuedRight == \A q \in Queues : \A i \in DOMAIN Queued(q) : QueueOf(Queued(q)[i].subband) = q
DiscardsFailed == \A w \in Detectors : wpc[w] = "discarding" => failed
ProducerPlace ==
    /\ ppc = "idle" => stage \in {"feed", "append"}
    /\ ppc \in Inserting /\ stage = "segment_reset" => staging[band] = EmptyStaging
OrderInv == Chains /\ DetectorContinuity /\ QueuedRight /\ DiscardsFailed /\ ProducerPlace

LEMMA ChainWiden ==
    ASSUME NEW s, NEW b, NEW start, NEW E, NEW F, Chain(s, b, start, E),
           start \in E => start \in F,
           \A i \in Of(s, b) : After(s[i]) \in E => After(s[i]) \in F
    PROVE  Chain(s, b, start, F)
  BY DEF Chain

\* A job that continues the chain's end extends it; a job of another band does not
\* concern it.
LEMMA ChainAppend ==
    ASSUME NEW s \in Seq(Jobs), NEW job \in Jobs, NEW b, NEW start, NEW E, NEW F,
           Chain(s, b, start, E), job.subband = b,
           \A p \in E : Follows(p, job), After(job) \in F
    PROVE  Chain(Append(s, job), b, start, F)
  <1> DEFINE r == Append(s, job)
             n == Len(s) + 1
  <1>1. /\ Len(s) \in Nat /\ DOMAIN s = 1 .. Len(s) /\ DOMAIN r = 1 .. n
        /\ \A i \in 1 .. Len(s) : r[i] = s[i]
        /\ r[n] = job
    BY AppendProperties, LenProperties
  <1> HIDE DEF r
  <1>2. /\ Of(r, b) = Of(s, b) \cup {n} /\ n \notin Of(s, b)
        /\ \A i \in Of(s, b) : i < n /\ ~ (n < i) /\ ~ (n <= i) /\ i <= n /\ r[i] = s[i] /\ i \in Nat
        /\ n <= n /\ ~ (n < n)
    BY <1>1 DEF Of
  <1>3. \A i \in Of(r, b) : (\A k \in Of(r, b) : i <= k) => Follows(start, r[i])
    <2> SUFFICES ASSUME NEW i \in Of(r, b), \A k \in Of(r, b) : i <= k
                 PROVE  Follows(start, r[i])
      OBVIOUS
    <2>1. CASE i = n
      <3>1. Of(s, b) = {}
        BY <2>1, <1>2
      <3> QED BY <3>1, <2>1, <1>1 DEF Chain
    <2>2. CASE i \in Of(s, b)
      BY <2>2, <1>2 DEF Chain
    <2> QED BY <2>1, <2>2, <1>2
  <1>4. \A i \in Of(r, b) : (\A k \in Of(r, b) : k <= i) => After(r[i]) \in F
    BY <1>1, <1>2
  <1>5. \A i, j \in Of(r, b) : i < j /\ (\A k \in Of(r, b) : k <= i \/ k >= j)
                               => Follows(After(r[i]), r[j])
    <2> SUFFICES ASSUME NEW i \in Of(r, b), NEW j \in Of(r, b), i < j,
                        \A k \in Of(r, b) : k <= i \/ k >= j
                 PROVE  Follows(After(r[i]), r[j])
      OBVIOUS
    <2>1. i \in Of(s, b)
      BY <1>2
    <2>2. CASE j = n
      <3>1. \A k \in Of(s, b) : k <= i
        BY <2>1, <2>2, <1>2
      <3>2. After(s[i]) \in E
        BY <2>1, <3>1 DEF Chain
      <3> QED BY <3>2, <2>1, <2>2, <1>1, <1>2
    <2>3. CASE j \in Of(s, b)
      BY <2>1, <2>3, <1>2 DEF Chain
    <2> QED BY <2>2, <2>3, <1>2
  <1>6. Of(r, b) # {}
    BY <1>2
  <1>7. Chain(r, b, start, F)
    BY <1>3, <1>4, <1>5, <1>6 DEF Chain
  <1> QED BY <1>7 DEF r

LEMMA ChainAppendOther ==
    ASSUME NEW s \in Seq(Jobs), NEW job \in Jobs, NEW b, NEW start, NEW E,
           Chain(s, b, start, E), job.subband # b
    PROVE  Chain(Append(s, job), b, start, E)
  <1> DEFINE r == Append(s, job)
  <1>1. /\ Len(s) \in Nat /\ DOMAIN s = 1 .. Len(s) /\ DOMAIN r = 1 .. Len(s) + 1
        /\ \A i \in 1 .. Len(s) : r[i] = s[i]
        /\ r[Len(s) + 1] = job
    BY AppendProperties, LenProperties
  <1> HIDE DEF r
  <1>2. Of(r, b) = Of(s, b) /\ \A i \in Of(s, b) : r[i] = s[i]
    BY <1>1 DEF Of
  <1>3. Chain(r, b, start, E)
    BY <1>2 DEF Chain
  <1> QED BY <1>3 DEF r

\* Removing one element: where the others go, and that they keep their order.
LEMMA RemovedOf ==
    ASSUME NEW s \in Seq(Jobs), NEW at \in DOMAIN s, NEW b
    PROVE  LET r == RemoveAt(s, at)
               up == [j \in 1 .. Len(s) - 1 |-> IF j < at THEN j ELSE j + 1]
           IN  /\ \A j \in Of(r, b) : j \in 1 .. Len(s) - 1 /\ up[j] \in Of(s, b) \ {at}
                                      /\ r[j] = s[up[j]]
               /\ \A i \in Of(s, b) \ {at} : \E j \in Of(r, b) : i = up[j]
               /\ \A j, k \in 1 .. Len(s) - 1 : (j <= k <=> up[j] <= up[k])
                                                /\ (j < k <=> up[j] < up[k])
  <1> DEFINE r == RemoveAt(s, at)
             up == [j \in 1 .. Len(s) - 1 |-> IF j < at THEN j ELSE j + 1]
  <1>1. /\ r \in Seq(Jobs) /\ Len(r) = Len(s) - 1 /\ Len(s) \in Nat
        /\ DOMAIN s = 1 .. Len(s)
        /\ \A j \in 1 .. Len(s) - 1 : r[j] = IF j < at THEN s[j] ELSE s[j + 1]
    BY RemoveAtElements, LenProperties
  <1>2. DOMAIN r = 1 .. Len(s) - 1 /\ at \in 1 .. Len(s)
    BY <1>1
  <1> HIDE DEF r
  <1>3. \A j \in 1 .. Len(s) - 1 : up[j] = IF j < at THEN j ELSE j + 1
    OBVIOUS
  <1> HIDE DEF up
  <1>4. \A j \in 1 .. Len(s) - 1 : up[j] \in 1 .. Len(s) /\ up[j] # at /\ r[j] = s[up[j]]
    BY <1>1, <1>2, <1>3
  <1>5. \A j \in Of(r, b) : j \in 1 .. Len(s) - 1 /\ up[j] \in Of(s, b) \ {at}
                            /\ r[j] = s[up[j]]
    BY <1>1, <1>2, <1>4 DEF Of
  <1>6. ASSUME NEW i \in Of(s, b) \ {at} PROVE \E j \in Of(r, b) : i = up[j]
    <2>1. i \in 1 .. Len(s) /\ i # at /\ s[i].subband = b
      BY <1>1 DEF Of
    <2>2. CASE i < at
      <3>1. i \in 1 .. Len(s) - 1 /\ up[i] = i
        BY <2>1, <2>2, <1>1, <1>2, <1>3
      <3>2. i \in Of(r, b)
        BY <3>1, <2>1, <1>2, <1>4 DEF Of
      <3> QED BY <3>1, <3>2
    <2>3. CASE i > at
      <3>1. i - 1 \in 1 .. Len(s) - 1 /\ up[i - 1] = i
        BY <2>1, <2>3, <1>1, <1>2, <1>3
      <3>2. i - 1 \in Of(r, b)
        BY <3>1, <2>1, <1>2, <1>4 DEF Of
      <3> QED BY <3>1, <3>2
    <2>4. i < at \/ i > at
      BY <2>1, <1>2
    <2> QED BY <2>2, <2>3, <2>4
  <1>7. \A j, k \in 1 .. Len(s) - 1 : (j <= k <=> up[j] <= up[k])
                                      /\ (j < k <=> up[j] < up[k])
    BY <1>1, <1>2, <1>3
  <1> QED BY <1>5, <1>6, <1>7 DEF r, up

LEMMA ChainRemoveOther ==
    ASSUME NEW s \in Seq(Jobs), NEW at \in DOMAIN s, NEW b, NEW start, NEW E,
           Chain(s, b, start, E), s[at].subband # b
    PROVE  Chain(RemoveAt(s, at), b, start, E)
  <1> DEFINE r == RemoveAt(s, at)
             up == [j \in 1 .. Len(s) - 1 |-> IF j < at THEN j ELSE j + 1]
             N == 1 .. Len(s) - 1
  <1>1. /\ \A j \in Of(r, b) : j \in N /\ up[j] \in Of(s, b) \ {at}
                               /\ r[j] = s[up[j]]
        /\ \A i \in Of(s, b) \ {at} : \E j \in Of(r, b) : i = up[j]
        /\ \A j, k \in N : (j <= k <=> up[j] <= up[k]) /\ (j < k <=> up[j] < up[k])
    BY RemovedOf
  <1>2. at \notin Of(s, b)
    BY DEF Of
  <1> HIDE DEF r, up, N
  <1>3. Of(r, b) = {} => start \in E
    BY <1>1, <1>2 DEF Chain
  <1>4. \A i \in Of(r, b) : (\A k \in Of(r, b) : i <= k) => Follows(start, r[i])
    <2> SUFFICES ASSUME NEW i \in Of(r, b), \A k \in Of(r, b) : i <= k
                 PROVE  Follows(start, r[i])
      OBVIOUS
    <2>1. \A k \in Of(s, b) : up[i] <= k
      BY <1>1, <1>2
    <2> QED BY <2>1, <1>1 DEF Chain
  <1>5. \A i \in Of(r, b) : (\A k \in Of(r, b) : k <= i) => After(r[i]) \in E
    <2> SUFFICES ASSUME NEW i \in Of(r, b), \A k \in Of(r, b) : k <= i
                 PROVE  After(r[i]) \in E
      OBVIOUS
    <2>1. \A k \in Of(s, b) : k <= up[i]
      BY <1>1, <1>2
    <2> QED BY <2>1, <1>1 DEF Chain
  <1>6. \A i, j \in Of(r, b) : i < j /\ (\A k \in Of(r, b) : k <= i \/ k >= j)
                               => Follows(After(r[i]), r[j])
    <2> SUFFICES ASSUME NEW i \in Of(r, b), NEW j \in Of(r, b), i < j,
                        \A k \in Of(r, b) : k <= i \/ k >= j
                 PROVE  Follows(After(r[i]), r[j])
      OBVIOUS
    <2>1. \A k \in Of(r, b) : k <= i \/ j <= k
      <3>1. i \in Int /\ j \in Int /\ \A k \in Of(r, b) : k \in Int
        BY <1>1 DEF N
      <3> QED BY <3>1
    <2>2. up[i] < up[j] /\ \A k \in Of(s, b) : k <= up[i] \/ up[j] <= k
      BY <2>1, <1>1, <1>2
    <2>3. \A k \in Of(s, b) : k <= up[i] \/ k >= up[j]
      <3>1. up[i] \in Of(s, b) /\ up[j] \in Of(s, b) /\ \A k \in Of(s, b) : k \in Int
        BY <1>1, LenProperties DEF Of
      <3> QED BY <3>1, <2>2
    <2> QED BY <2>2, <2>3, <1>1 DEF Chain
  <1>7. Chain(r, b, start, E)
    BY <1>3, <1>4, <1>5, <1>6 DEF Chain
  <1> QED BY <1>7 DEF r

\* Taking the first job of the band: it continues the start, and the rest of the
\* chain starts where it ends.
LEMMA ChainRemoveFirst ==
    ASSUME NEW s \in Seq(Jobs), NEW at \in DOMAIN s, NEW b, NEW start, NEW E,
           Chain(s, b, start, E), at \in Of(s, b), \A k \in Of(s, b) : at <= k
    PROVE  /\ Follows(start, s[at])
           /\ Chain(RemoveAt(s, at), b, After(s[at]), E)
  <1> DEFINE r == RemoveAt(s, at)
             up == [j \in 1 .. Len(s) - 1 |-> IF j < at THEN j ELSE j + 1]
             N == 1 .. Len(s) - 1
  <1>1. /\ \A j \in Of(r, b) : j \in N /\ up[j] \in Of(s, b) \ {at}
                               /\ r[j] = s[up[j]]
        /\ \A i \in Of(s, b) \ {at} : \E j \in Of(r, b) : i = up[j]
        /\ \A j, k \in N : (j <= k <=> up[j] <= up[k]) /\ (j < k <=> up[j] < up[k])
    BY RemovedOf
  <1>2. \A k \in Of(s, b) : k \in Int
    BY LenProperties DEF Of
  <1> HIDE DEF r, up, N
  <1>0. \A k \in Of(r, b) : k \in Int
    BY <1>1 DEF N
  <1>3. Of(r, b) = {} => After(s[at]) \in E
    <2> SUFFICES ASSUME Of(r, b) = {} PROVE After(s[at]) \in E
      OBVIOUS
    <2>1. \A k \in Of(s, b) : k = at
      BY <1>1
    <2>2. \A k \in Of(s, b) : k <= at
      BY <2>1, <1>2
    <2> QED BY <2>2 DEF Chain
  <1>4. \A i \in Of(r, b) : (\A k \in Of(r, b) : i <= k) => Follows(After(s[at]), r[i])
    <2> SUFFICES ASSUME NEW i \in Of(r, b), \A k \in Of(r, b) : i <= k
                 PROVE  Follows(After(s[at]), r[i])
      OBVIOUS
    <2>1. \A k \in Of(s, b) : k = at \/ up[i] <= k
      BY <1>1
    <2>2. up[i] \in Of(s, b) /\ at < up[i] /\ r[i] = s[up[i]]
      BY <1>1, <1>2
    <2>3. \A k \in Of(s, b) : k <= at \/ k >= up[i]
      BY <2>1, <2>2, <1>2
    <2> QED BY <2>2, <2>3 DEF Chain
  <1>5. \A i \in Of(r, b) : (\A k \in Of(r, b) : k <= i) => After(r[i]) \in E
    <2> SUFFICES ASSUME NEW i \in Of(r, b), \A k \in Of(r, b) : k <= i
                 PROVE  After(r[i]) \in E
      OBVIOUS
    <2>1. up[i] \in Of(s, b) /\ r[i] = s[up[i]] /\ at <= up[i]
      BY <1>1
    <2>2. \A k \in Of(s, b) : k <= up[i]
      BY <1>1, <2>1
    <2> QED BY <2>1, <2>2 DEF Chain
  <1>6. \A i, j \in Of(r, b) : i < j /\ (\A k \in Of(r, b) : k <= i \/ k >= j)
                               => Follows(After(r[i]), r[j])
    <2> SUFFICES ASSUME NEW i \in Of(r, b), NEW j \in Of(r, b), i < j,
                        \A k \in Of(r, b) : k <= i \/ k >= j
                 PROVE  Follows(After(r[i]), r[j])
      OBVIOUS
    <2>1. \A k \in Of(r, b) : k <= i \/ j <= k
      BY <1>0
    <2>2. /\ up[i] \in Of(s, b) /\ up[j] \in Of(s, b) /\ r[i] = s[up[i]] /\ r[j] = s[up[j]]
          /\ up[i] < up[j] /\ at <= up[i]
      BY <1>1
    <2>3. \A k \in Of(s, b) : k <= up[i] \/ up[j] <= k
      BY <2>1, <2>2, <1>1
    <2>4. \A k \in Of(s, b) : k <= up[i] \/ k >= up[j]
      BY <2>2, <2>3, <1>2
    <2> QED BY <2>2, <2>4 DEF Chain
  <1>7. Chain(r, b, After(s[at]), E)
    BY <1>3, <1>4, <1>5, <1>6 DEF Chain
  <1>8. Follows(start, s[at])
    BY DEF Chain
  <1> QED BY <1>7, <1>8 DEF r

-----------------------------------------------------------------------------
(* The jobs in a queue under the three updates of the queues.              *)

LEMMA QueuedType ==
    ASSUME QueueTypes, NEW q \in Queues
    PROVE  /\ Queued(q) \in Seq(Jobs) /\ DOMAIN Queued(q) = DOMAIN ready[q]
           /\ Len(Queued(q)) = Len(ready[q])
           /\ \A i \in DOMAIN ready[q] : ready[q][i] \in Slots
                                         /\ Queued(q)[i] = jobs[q][ready[q][i]]
  <1>1. ready[q] \in Seq(Slots) /\ jobs[q] \in [Slots -> Jobs]
    BY DEF QueueTypes
  <1>2. DOMAIN ready[q] = 1 .. Len(ready[q]) /\ Len(ready[q]) \in Nat
        /\ \A i \in DOMAIN ready[q] : ready[q][i] \in Slots
    BY <1>1, LenProperties, ElementOfSeq
  <1>3. Queued(q) = [i \in 1 .. Len(ready[q]) |-> jobs[q][ready[q][i]]]
    BY <1>2 DEF Queued
  <1>4. \A i \in 1 .. Len(ready[q]) : jobs[q][ready[q][i]] \in Jobs
    BY <1>1, <1>2
  <1>5. Queued(q) \in [1 .. Len(ready[q]) -> Jobs]
    BY <1>3, <1>4
  <1>6. Queued(q) \in Seq(Jobs) /\ Len(Queued(q)) = Len(ready[q])
    BY <1>2, <1>5, IsASeq, LenProperties
  <1> QED BY <1>2, <1>3, <1>6

\* The queues are as they were.
LEMMA QueuedFrame ==
    ASSUME NEW q \in Queues, ready'[q] = ready[q],
           \A i \in DOMAIN ready[q] : jobs'[q][ready[q][i]] = jobs[q][ready[q][i]]
    PROVE  Queued(q)' = Queued(q)
  BY DEF Queued

LEMMA QueuedInsert ==
    ASSUME QueueTypes, NEW q \in Queues, NEW slot \in Slots, NEW job \in Jobs,
           slot \notin ToSet(ready[q]), jobs' = [jobs EXCEPT ![q][slot] = job],
           ready' = [ready EXCEPT ![q] = Append(ready[q], slot)]
    PROVE  /\ Queued(q)' = Append(Queued(q), job)
           /\ \A p \in Queues \ {q} : Queued(p)' = Queued(p)
  <1> DEFINE n == Len(ready[q])
  <1>1. ready[q] \in Seq(Slots) /\ jobs \in [Queues -> [Slots -> Jobs]]
        /\ DOMAIN ready = Queues
    BY DEF QueueTypes
  <1>2. /\ n \in Nat /\ DOMAIN ready[q] = 1 .. n
        /\ \A i \in 1 .. n : ready[q][i] \in Slots /\ ready[q][i] # slot
    BY <1>1, LenProperties, ElementOfSeq DEF ToSet
  <1>3. /\ ready'[q] = Append(ready[q], slot) /\ DOMAIN ready'[q] = 1 .. n + 1
        /\ \A i \in 1 .. n : ready'[q][i] = ready[q][i]
        /\ ready'[q][n + 1] = slot
    BY <1>1, <1>2, AppendProperties
  <1>4. /\ jobs'[q][slot] = job
        /\ \A s \in Slots \ {slot} : jobs'[q][s] = jobs[q][s]
        /\ \A p \in Queues \ {q} : jobs'[p] = jobs[p]
    BY <1>1
  <1>5. \A p \in Queues \ {q} : Queued(p)' = Queued(p)
    <2>1. \A p \in Queues \ {q} : ready'[p] = ready[p]
      BY <1>1
    <2> QED BY <2>1, <1>4 DEF Queued
  <1>6. Queued(q)' = [i \in 1 .. n + 1 |-> jobs'[q][ready'[q][i]]]
    BY <1>3 DEF Queued
  <1>7. /\ Queued(q) \in Seq(Jobs) /\ Len(Queued(q)) = n
        /\ \A i \in 1 .. n : Queued(q)[i] = jobs[q][ready[q][i]]
    BY <1>2, QueuedType
  <1>8. \A i \in 1 .. n : Queued(q)'[i] = Queued(q)[i]
    BY <1>2, <1>3, <1>4, <1>6, <1>7
  <1>9. Queued(q)'[n + 1] = job
    BY <1>2, <1>3, <1>4, <1>6
  <1> HIDE DEF n
  <1>10. /\ Append(Queued(q), job) \in Seq(Jobs) /\ Len(Append(Queued(q), job)) = n + 1
         /\ \A i \in 1 .. n : Append(Queued(q), job)[i] = Queued(q)[i]
         /\ Append(Queued(q), job)[n + 1] = job
    BY <1>7, AppendProperties
  <1>11. \A i \in 1 .. n + 1 : Queued(q)'[i] = Append(Queued(q), job)[i]
    <2> SUFFICES ASSUME NEW i \in 1 .. n + 1
                 PROVE  Queued(q)'[i] = Append(Queued(q), job)[i]
      OBVIOUS
    <2>1. i \in 1 .. n \/ i = n + 1
      BY <1>2
    <2> QED BY <2>1, <1>8, <1>9, <1>10
  <1>12. Queued(q)' \in Seq(Jobs) /\ Len(Queued(q)') = n + 1
    <2>1. \A i \in 1 .. n + 1 : Queued(q)'[i] \in Jobs
      BY <1>10, <1>11, <1>2, ElementOfSeq
    <2>2. Queued(q)' \in [1 .. n + 1 -> Jobs]
      BY <2>1, <1>6
    <2>3. n + 1 \in Nat
      BY <1>2
    <2> QED BY <2>2, <2>3, IsASeq, LenProperties
  <1> QED BY <1>5, <1>10, <1>11, <1>12, SeqEqual

LEMMA QueuedClaim ==
    ASSUME QueueTypes, NEW q \in Queues, NEW at \in DOMAIN ready[q], UNCHANGED jobs,
           ready' = [ready EXCEPT ![q] = RemoveAt(ready[q], at)]
    PROVE  /\ Queued(q)' = RemoveAt(Queued(q), at)
           /\ \A p \in Queues \ {q} : Queued(p)' = Queued(p)
  <1> DEFINE n == Len(ready[q])
  <1>1. ready[q] \in Seq(Slots) /\ jobs \in [Queues -> [Slots -> Jobs]]
        /\ DOMAIN ready = Queues
    BY DEF QueueTypes
  <1>2. /\ n \in Nat /\ DOMAIN ready[q] = 1 .. n /\ at \in 1 .. n
        /\ \A i \in 1 .. n : ready[q][i] \in Slots
    BY <1>1, LenProperties, ElementOfSeq
  <1>3. /\ ready'[q] = RemoveAt(ready[q], at) /\ RemoveAt(ready[q], at) \in Seq(Slots)
        /\ Len(RemoveAt(ready[q], at)) = n - 1
        /\ \A j \in 1 .. n - 1 :
              RemoveAt(ready[q], at)[j] = IF j < at THEN ready[q][j] ELSE ready[q][j + 1]
    BY <1>1, RemoveAtElements
  <1>4. DOMAIN ready'[q] = 1 .. n - 1
    BY <1>3, LenProperties
  <1>5. \A p \in Queues \ {q} : Queued(p)' = Queued(p)
    <2>1. \A p \in Queues \ {q} : ready'[p] = ready[p]
      BY <1>1
    <2> QED BY <2>1 DEF Queued
  <1>6. Queued(q)' = [i \in 1 .. n - 1 |-> jobs[q][ready'[q][i]]]
    BY <1>4 DEF Queued
  <1>7. /\ Queued(q) \in Seq(Jobs) /\ Len(Queued(q)) = n /\ DOMAIN Queued(q) = 1 .. n
        /\ \A i \in 1 .. n : Queued(q)[i] = jobs[q][ready[q][i]]
    BY <1>2, QueuedType
  <1> HIDE DEF n
  <1>8. /\ RemoveAt(Queued(q), at) \in Seq(Jobs) /\ Len(RemoveAt(Queued(q), at)) = n - 1
        /\ \A j \in 1 .. n - 1 :
              RemoveAt(Queued(q), at)[j] = IF j < at THEN Queued(q)[j] ELSE Queued(q)[j + 1]
    <2>1. PICK s \in Seq(Jobs) : s = Queued(q)
      BY <1>7
    <2>2. at \in DOMAIN s /\ Len(s) = n
      BY <2>1, <1>2, <1>7
    <2>3. /\ RemoveAt(s, at) \in Seq(Jobs) /\ Len(RemoveAt(s, at)) = Len(s) - 1
          /\ \A j \in 1 .. Len(s) - 1 :
                RemoveAt(s, at)[j] = IF j < at THEN s[j] ELSE s[j + 1]
      BY <2>2, RemoveAtElements
    <2> QED BY <2>1, <2>2, <2>3
  <1>9. \A j \in 1 .. n - 1 : Queued(q)'[j] = RemoveAt(Queued(q), at)[j]
    <2> SUFFICES ASSUME NEW j \in 1 .. n - 1
                 PROVE  Queued(q)'[j] = RemoveAt(Queued(q), at)[j]
      OBVIOUS
    <2>1. j \in 1 .. n /\ j + 1 \in 1 .. n
      BY <1>2
    <2>2. Queued(q)'[j] = jobs[q][ready'[q][j]]
      BY <1>6
    <2> QED BY <2>1, <2>2, <1>3, <1>7, <1>8
  <1>10. Queued(q)' \in Seq(Jobs) /\ Len(Queued(q)') = n - 1
    <2>1. \A i \in 1 .. n - 1 : Queued(q)'[i] \in Jobs
      BY <1>8, <1>9, <1>2, ElementOfSeq
    <2>2. Queued(q)' \in [1 .. n - 1 -> Jobs]
      BY <2>1, <1>6
    <2>3. n - 1 \in Nat
      BY <1>2
    <2> QED BY <2>2, <2>3, IsASeq, LenProperties
  <1> QED BY <1>5, <1>8, <1>9, <1>10, SeqEqual

-----------------------------------------------------------------------------
(* The order is an invariant.                                              *)

Continuous(w) == wpc[w] = "process" => Follows(detector[Job(w).subband], Job(w))
LEMMA ContinuityParts == DetectorContinuity <=> \A w \in Detectors : Continuous(w)
  BY DEF DetectorContinuity, Continuous, Follows
LEMMA ContinuityPartsNext == (\A w \in Detectors : Continuous(w)') => DetectorContinuity'
  BY DEF DetectorContinuity, Continuous, Follows

LEMMA ChainPositions ==
    ASSUME TypeInv
    PROVE  /\ \A b \in Bands : detector[b] \in Positions
           /\ \A job \in Jobs : After(job) \in Positions
  BY DEF TypeInv, ThreadTypes, Positions, After, Jobs

\* A band whose jobs, detector and threads stay, and whose end still counts as one.
LEMMA BandFrame ==
    ASSUME NEW b, BandChain(b), Queued(QueueOf(b))' = Queued(QueueOf(b)),
           Processing(b)' = Processing(b), \A w \in Processing(b) : Job(w)' = Job(w),
           detector'[b] = detector[b], Ends(b) \subseteq Ends(b)'
    PROVE  BandChain(b)'
  <1>1. ASSUME NEW s, NEW start, Chain(s, b, start, Ends(b))
        PROVE  Chain(s, b, start, Ends(b)')
    BY <1>1, ChainWiden
  <1>2. \A w \in Processing(b) : Chain(Queued(QueueOf(b)), b, After(Job(w)), Ends(b)')
    BY <1>1 DEF BandChain
  <1>3. Processing(b) = {} => Chain(Queued(QueueOf(b)), b, detector[b], Ends(b)')
    BY <1>1 DEF BandChain
  <1> QED BY <1>2, <1>3 DEF BandChain

\* Steps that leave queues, detectors and claimed jobs alone; a thread may throw.
LEMMA OrderFrame ==
    ASSUME TypeInv, OrderInv, UNCHANGED detector,
           \A q \in Queues : Queued(q)' = Queued(q),
           \A w \in Detectors : wpc'[w] = "process" => wpc[w] = "process" /\ Job(w)' = Job(w),
           failed' \/ \A w \in Detectors : wpc[w] = "process" => wpc'[w] = "process",
           failed => failed', ~failed' => \A b \in Bands : Ends(b) \subseteq Ends(b)',
           \A w \in Detectors : wpc'[w] = "discarding" => wpc[w] = "discarding" \/ failed',
           ProducerPlace'
    PROVE  OrderInv'
  <1>1. Chains'
    <2> SUFFICES ASSUME ~failed', NEW b \in Bands PROVE BandChain(b)'
      BY DEF Chains
    <2>1. BandChain(b)
      BY DEF OrderInv, Chains
    <2>2. Processing(b)' = Processing(b) /\ \A w \in Processing(b) : Job(w)' = Job(w)
      BY DEF Processing
    <2>3. Queued(QueueOf(b))' = Queued(QueueOf(b))
      BY BandFacts
    <2> QED BY <2>1, <2>2, <2>3, BandFrame
  <1>2. DetectorContinuity'
    <2>1. \A w \in Detectors : Continuous(w)
      BY ContinuityParts DEF OrderInv
    <2>2. \A w \in Detectors : Continuous(w)'
      BY <2>1 DEF Continuous
    <2> QED BY <2>2, ContinuityPartsNext
  <1>3. QueuedRight'
    BY DEF OrderInv, QueuedRight
  <1>4. DiscardsFailed'
    BY DEF OrderInv, DiscardsFailed
  <1> QED BY <1>1, <1>2, <1>3, <1>4 DEF OrderInv

LEMMA OrderInit == Init => OrderInv
  <1> SUFFICES ASSUME Init PROVE OrderInv
    OBVIOUS
  <1>1. \A q \in Queues : Queued(q) = <<>> /\ DOMAIN Queued(q) = {}
    <2>1. \A q \in Queues : ready[q] = <<>>
      BY DEF Init
    <2>2. DOMAIN <<>> = {}
      OBVIOUS
    <2>3. \A q \in Queues : DOMAIN Queued(q) = {}
      BY <2>1, <2>2 DEF Queued
    <2> QED BY <2>1, <2>2, <2>3 DEF Queued
  <1>2. \A b \in Bands : BandChain(b)
    <2> SUFFICES ASSUME NEW b \in Bands PROVE BandChain(b)
      OBVIOUS
    <2>1. Processing(b) = {} /\ Of(Queued(QueueOf(b)), b) = {}
      BY <1>1, BandFacts DEF Init, Processing, Of
    <2>2. detector[b] \in Ends(b)
      BY DEF Init, Ends, EndsAt, Behind, Positions, EmptyStaging
    <2> QED BY <2>1, <2>2 DEF BandChain, Chain
  <1>3. DetectorContinuity /\ DiscardsFailed /\ ProducerPlace
    BY DEF Init, DetectorContinuity, DiscardsFailed, ProducerPlace, Inserting
  <1>4. QueuedRight
    BY <1>1 DEF QueuedRight
  <1> QED BY <1>2, <1>3, <1>4 DEF OrderInv, Chains

\* The producer's own moves keep the ends of all chains.
LEMMA ProducerEnds ==
    ASSUME TypeInv, ProducerPlace, Input \/ Producer, ~Enqueue
    PROVE  /\ \A b \in Bands : Ends(b) \subseteq Ends(b)'
           /\ ProducerPlace'
  <1> USE DEF ProducerPlace, Ends, EndsAt, Behind, Producing, Inserting
  <1>0. /\ ppc \in ProducerStates /\ stage \in Stages /\ band \in 0 .. BandCount
        /\ segment \in Nat /\ staging \in [Bands -> [count : Nat, next : Nat]]
        /\ \A b \in Bands : b \in Int /\ 0 <= b /\ b < BandCount
        /\ (ppc \in {"enqueue", "space_doze", "space_asleep", "announce"} => band \in Bands)
    BY DEF TypeInv, ProducerInv, ProducerTypes, BandInRange, Bands
  <1>1. CASE TakeBlock
    BY <1>0, <1>1 DEF TakeBlock, Loop
  <1>2. CASE EndOfInput
    BY <1>0, <1>2 DEF EndOfInput, Loop
  <1>3. CASE SeeFailure
    BY <1>0, <1>3 DEF SeeFailure
  <1>4. CASE FlushStaging
    BY <1>0, <1>4 DEF FlushStaging
  <1>5. CASE NewSegment
    BY <1>0, <1>5 DEF NewSegment, Loop
  <1>6. CASE ResetBand
    BY <1>0, <1>6, BandFacts DEF ResetBand
  <1>7. CASE \E n \in 0 .. MaxOutputs : Feed(n)
    BY <1>0, <1>7 DEF Feed, Feeding
  <1>8. CASE FeedThrows
    BY <1>0, <1>8 DEF FeedThrows
  <1>9. CASE AppendBand
    <2> DEFINE n == SmallerOf(left, Batch - staging[band].count)
    <2>1. /\ band \in Bands /\ ppc = "run" /\ stage = "append"
          /\ UNCHANGED <<stage, segment>>
          /\ staging' = [staging EXCEPT ![band].count = @ + n]
          /\ ppc' \in {"run", "enqueue"}
      BY <1>9, <1>0, BandFacts DEF AppendBand
    <2> HIDE DEF n
    <2>2. \A b \in Bands : staging'[b].next = staging[b].next
      BY <2>1, <1>0
    <2> QED BY <1>0, <2>1, <2>2
  <1>10. CASE AppendDone
    BY <1>0, <1>10 DEF AppendDone
  <1>11. CASE SpaceSleep
    BY <1>0, <1>11 DEF SpaceSleep
  <1>12. CASE Announce
    BY <1>0, <1>12 DEF Announce
  <1>13. CASE ProducerFail
    BY <1>0, <1>13 DEF ProducerFail
  <1>14. CASE EndFlushDone
    BY <1>0, <1>14 DEF EndFlushDone
  <1>15. CASE DiscardStaging
    BY <1>0, <1>15 DEF DiscardStaging
  <1>16. CASE ProducerDone
    BY <1>0, <1>16 DEF ProducerDone
  <1>17. CASE ProducerNotify
    BY <1>0, <1>17 DEF ProducerNotify
  <1> QED BY <1>1, <1>2, <1>3, <1>4, <1>5, <1>6, <1>7, <1>8, <1>9, <1>10, <1>11, <1>12,
             <1>13, <1>14, <1>15, <1>16, <1>17 DEF Input, Producer

LEMMA ProducerOrder ==
    ASSUME PoolInv, OrderInv, Input \/ Producer, ~Enqueue
    PROVE  OrderInv'
  <1>1. /\ UNCHANGED <<queueVars, held, detector>> /\ wpc' \in {wpc, Woken}
        /\ (failed => failed')
    BY DEF Input, Producer, TakeBlock, EndOfInput, SeeFailure, FlushStaging, NewSegment,
           ResetBand, Feed, FeedThrows, AppendBand, AppendDone, SpaceSleep, Announce,
           ProducerFail, EndFlushDone, DiscardStaging, ProducerDone, ProducerNotify,
           NotifyAvailable, PoolUnchanged, threadVars
  <1>2. /\ \A w \in Detectors : wpc'[w] = "process" <=> wpc[w] = "process"
        /\ \A w \in Detectors : wpc'[w] = "discarding" => wpc[w] = "discarding"
    BY <1>1 DEF Woken
  <1>3. \A w \in Detectors : Job(w)' = Job(w)
    BY <1>1 DEF Job, queueVars
  <1>4. \A q \in Queues : Queued(q)' = Queued(q)
    BY <1>1 DEF Queued, queueVars
  <1>5. TypeInv /\ ProducerPlace
    BY DEF PoolInv, OrderInv
  <1>6. (\A b \in Bands : Ends(b) \subseteq Ends(b)') /\ ProducerPlace'
    BY <1>5, ProducerEnds
  <1> QED BY <1>1, <1>2, <1>3, <1>4, <1>5, <1>6, OrderFrame

\* enqueue: the job continues the end of its band's chain and becomes its last.
LEMMA InsertOrder ==
    ASSUME PoolInv, OrderInv, ~failed, ppc = "enqueue",
           NEW c \in Bands, c = band, NEW q \in Queues, q = QueueOf(c),
           NEW r \in BOOLEAN, r = (stage = "segment_reset"),
           NEW slot \in Slots, slot \notin occupied[q], Insert(q, slot, r),
           ppc' = "announce", UNCHANGED <<failed, stage, band, segment, wpc, held, detector>>
    PROVE  OrderInv'
  <1>b. PICK job : job = [reset |-> r, subband |-> c, segment |-> segment,
                          first |-> staging[c].next,
                          count |-> IF r THEN 0 ELSE staging[c].count]
    OBVIOUS
  <1>0. TypeInv /\ QueueTypes /\ ThreadTypes /\ SlotAccounting /\ OneJobPerBand
    BY DEF PoolInv, TypeInv
  <1>a. /\ segment \in Nat /\ staging \in [Bands -> [count : Nat, next : Nat]]
        /\ \A b \in Bands : b \in Int
    BY <1>0 DEF TypeInv, ProducerInv, ProducerTypes, Bands
  <1>1. q \in Queues /\ \A b \in Bands : QueueOf(b) \in Queues
    BY BandFacts
  <1>2. job \in Jobs /\ job.subband = c /\ job.segment = segment
        /\ job.first = staging[c].next /\ job.reset = r
        /\ (~r => job.count = staging[c].count)
    BY <1>a, <1>b DEF Jobs
  <1>3. /\ jobs' = [jobs EXCEPT ![q][slot] = job]
        /\ ready' = [ready EXCEPT ![q] = Append(ready[q], slot)]
        /\ r => staging' = staging
        /\ ~r => staging' = [staging EXCEPT ![c] =
                       [count |-> 0, next |-> staging[c].next + staging[c].count]]
    BY <1>b DEF Insert
  <1>4. /\ \A b \in Bands \ {c} : staging'[b] = staging[b]
        /\ (r => staging'[c] = staging[c])
        /\ (~r => staging'[c].next = staging[c].next + staging[c].count)
    BY <1>3, <1>a
  <1>5. slot \notin ToSet(ready[q]) /\ slot \notin HeldIn(q)
    BY <1>0, <1>1 DEF SlotAccounting
  <1>6. Queued(q)' = Append(Queued(q), job) /\ \A p \in Queues \ {q} : Queued(p)' = Queued(p)
    <2>1. job \in Jobs /\ slot \notin ToSet(ready[q])
      BY <1>2, <1>5
    <2> QED BY <2>1, <1>0, <1>3, QueuedInsert, Zenon
  <1>7. \A w \in Active : Job(w)' = Job(w)
    <2> SUFFICES ASSUME NEW w \in Active PROVE Job(w)' = Job(w)
      OBVIOUS
    <2>1. w \in Detectors /\ held[w] # [queue |-> q, slot |-> slot]
      BY <1>5 DEF HeldIn, Active
    <2> QED BY <2>1, <1>0, <1>1, <1>3, HeldJob
  <1>8. \A w \in Detectors : wpc[w] = "process" => Job(w)' = Job(w)
    BY <1>7 DEF Active, Holding, Unsettled
  <1>9. \A b : Processing(b)' = Processing(b)
    BY <1>8 DEF Processing
  <1>10. \A b \in Bands \ {c} : Ends(b) \subseteq Ends(b)'
    BY <1>4, <1>a DEF Ends, EndsAt, Behind, Producing, Inserting
  <1>11. \A p \in Ends(c) : Follows(p, job)
    <2> SUFFICES ASSUME NEW p \in Ends(c) PROVE Follows(p, job)
      OBVIOUS
    <2>1. p.segment \in Nat /\ EndsAt(c, p)
      BY DEF Ends, Producing, Inserting, Positions
    <2>2. CASE r
      <3>1. p.segment = segment - 1
        BY <2>1, <2>2 DEF EndsAt, Behind, Inserting
      <3> QED BY <2>1, <2>2, <3>1, <1>2, <1>a DEF Follows
    <2>3. CASE ~r
      <3>1. p.segment = segment /\ p.next = staging[c].next
        BY <2>1, <2>3 DEF EndsAt, Behind
      <3> QED BY <2>3, <3>1, <1>2 DEF Follows
    <2> QED BY <2>2, <2>3
  <1>12. After(job) \in Ends(c)'
    <2>1. After(job) \in Positions
      BY <1>0, <1>2, ChainPositions
    <2>2. Positions' = Positions
      BY DEF Positions
    <2>3. ~Behind(c)'
      BY <1>a DEF Behind, Inserting
    <2>4. After(job).segment = segment
          /\ After(job).next = IF r THEN 0 ELSE staging[c].next + staging[c].count
      BY <1>2 DEF After
    <2>5. r => staging[c].next = 0
      <3>1. r => staging[c] = EmptyStaging
        BY DEF OrderInv, ProducerPlace, Inserting
      <3> QED BY <3>1 DEF EmptyStaging
    <2>6. After(job).next = staging'[c].next
      BY <2>4, <2>5, <1>4
    <2> QED BY <2>1, <2>2, <2>3, <2>4, <2>6 DEF Ends, EndsAt
  <1>13. Chains'
    <2> SUFFICES ASSUME NEW b \in Bands PROVE BandChain(b)'
      BY DEF Chains
    <2>0. BandChain(b) /\ Queued(q) \in Seq(Jobs)
      BY <1>0, <1>1, QueuedType DEF OrderInv, Chains
    <2>1. CASE b = c
      <3>0. QueueOf(b) = q
        BY <2>1
      <3>1. ASSUME NEW start, Chain(Queued(q), c, start, Ends(c))
            PROVE  Chain(Queued(q)', c, start, Ends(c)')
        <4>1. job \in Jobs /\ job.subband = c
          BY <1>2
        <4>2. Chain(Append(Queued(q), job), c, start, Ends(c)')
          BY <4>1, <3>1, <2>0, <1>11, <1>12, ChainAppend
        <4> QED BY <4>2, <1>6
      <3>2. \A w \in Processing(b)' : Chain(Queued(q)', b, After(Job(w)'), Ends(b)')
        <4>1. \A w \in Processing(b) : Job(w)' = Job(w)
          BY <1>8 DEF Processing
        <4> QED BY <4>1, <3>0, <3>1, <2>0, <2>1, <1>9 DEF BandChain
      <3>3. Processing(b)' = {} => Chain(Queued(q)', b, detector'[b], Ends(b)')
        BY <3>0, <3>1, <2>0, <2>1, <1>9 DEF BandChain
      <3> QED BY <3>0, <3>2, <3>3 DEF BandChain
    <2>2. CASE b # c /\ QueueOf(b) # q
      <3>1. Queued(QueueOf(b))' = Queued(QueueOf(b))
        BY <2>2, <1>1, <1>6
      <3>2. \A w \in Processing(b) : Job(w)' = Job(w)
        BY <1>8 DEF Processing
      <3> QED BY <2>0, <2>2, <3>1, <3>2, <1>9, <1>10, BandFrame
    <2>3. CASE b # c /\ QueueOf(b) = q
      <3>1. ASSUME NEW start, Chain(Queued(q), b, start, Ends(b))
            PROVE  Chain(Queued(q)', b, start, Ends(b)')
        <4>1. Chain(Append(Queued(q), job), b, start, Ends(b))
          BY <3>1, <2>0, <2>3, <1>2, ChainAppendOther
        <4>2. Ends(b) \subseteq Ends(b)'
          BY <2>3, <1>10
        <4> QED BY <4>1, <4>2, <1>6, ChainWiden
      <3>2. \A w \in Processing(b) : Job(w)' = Job(w)
        BY <1>8 DEF Processing
      <3> QED BY <3>1, <3>2, <2>0, <2>3, <1>9 DEF BandChain
    <2> QED BY <2>1, <2>2, <2>3
  <1>14. DetectorContinuity'
    <2>1. \A w \in Detectors : Continuous(w)
      BY ContinuityParts DEF OrderInv
    <2>2. \A w \in Detectors : Continuous(w)'
      BY <2>1, <1>8 DEF Continuous
    <2> QED BY <2>2, ContinuityPartsNext
  <1>15. QueuedRight'
    <2>1. \A i \in DOMAIN Queued(q)' : QueueOf(Queued(q)'[i].subband) = q
      <3>1. /\ Queued(q) \in Seq(Jobs) /\ Len(Queued(q)) \in Nat
            /\ DOMAIN Queued(q) = 1 .. Len(Queued(q))
        BY <1>0, <1>1, QueuedType, LenProperties
      <3>2. /\ DOMAIN Append(Queued(q), job) = 1 .. Len(Queued(q)) + 1
            /\ \A i \in 1 .. Len(Queued(q)) : Append(Queued(q), job)[i] = Queued(q)[i]
            /\ Append(Queued(q), job)[Len(Queued(q)) + 1] = job
        BY <3>1, <1>2, AppendProperties
      <3>3. \A i \in DOMAIN Queued(q) : QueueOf(Queued(q)[i].subband) = q
        BY <1>1 DEF OrderInv, QueuedRight
      <3>4. QueueOf(job.subband) = q
        BY <1>2
      <3>5. \A i \in 1 .. Len(Queued(q)) + 1 :
                i \in 1 .. Len(Queued(q)) \/ i = Len(Queued(q)) + 1
        BY <3>1
      <3> QED BY <3>1, <3>2, <3>3, <3>4, <3>5, <1>6
    <2>2. \A p \in Queues \ {q} : \A i \in DOMAIN Queued(p)' : QueueOf(Queued(p)'[i].subband) = p
      BY <1>6 DEF OrderInv, QueuedRight
    <2> QED BY <2>1, <2>2 DEF QueuedRight, QueueOf
  <1>16. DiscardsFailed' /\ ProducerPlace'
    BY DEF OrderInv, DiscardsFailed, ProducerPlace, Inserting
  <1> QED BY <1>13, <1>14, <1>15, <1>16 DEF OrderInv

LEMMA EnqueueOrder ==
    ASSUME PoolInv, OrderInv, Enqueue PROVE OrderInv'
  <1>0. TypeInv /\ band \in Bands
    BY DEF PoolInv, TypeInv, ProducerInv, BandInRange, Enqueue
  <1>1. CASE UNCHANGED <<staging, queueVars>> /\ ppc' \in {"fail", "space_doze"}
    <2>1. UNCHANGED <<failed, stage, band, segment, wpc, held, detector, staging, jobs, ready>>
          /\ ppc = "enqueue"
      BY <1>1 DEF Enqueue, threadVars, queueVars
    <2>2. \A q \in Queues : Queued(q)' = Queued(q)
      BY <2>1 DEF Queued
    <2>3. \A w \in Detectors : Job(w)' = Job(w)
      BY <2>1 DEF Job
    <2>4. \A b \in Bands : Ends(b) \subseteq Ends(b)'
      BY <1>1, <2>1 DEF Ends, EndsAt, Behind, Producing, Inserting
    <2>5. ProducerPlace'
      BY <1>1, <2>1 DEF OrderInv, ProducerPlace, Inserting
    <2> QED BY <1>0, <2>1, <2>2, <2>3, <2>4, <2>5, OrderFrame
  <1>2. CASE /\ ~failed /\ Free(QueueOf(band)) # {} /\ ppc' = "announce"
             /\ Insert(QueueOf(band), LeastFree(QueueOf(band)), stage = "segment_reset")
    <2>1. LeastFree(QueueOf(band)) \in Slots \ occupied[QueueOf(band)]
      BY <1>2, FreeFacts
    <2>2. ppc = "enqueue" /\ UNCHANGED <<failed, stage, band, segment, wpc, held, detector>>
      BY DEF Enqueue, threadVars
    <2>3. QueueOf(band) \in Queues /\ (stage = "segment_reset") \in BOOLEAN
      BY <1>0, BandFacts
    <2> QED BY <1>0, <1>2, <2>1, <2>2, <2>3, InsertOrder
  <1> QED BY <1>1, <1>2 DEF Enqueue, LeastFree

\* A claim takes the oldest job of its band: the chain's first, which continues the
\* position of a detector that nobody is using.
LEMMA ClaimOrder ==
    ASSUME PoolInv, OrderInv, NEW w \in Detectors, Claim(w) PROVE OrderInv'
  <1>0. TypeInv /\ QueueTypes /\ ThreadTypes /\ SlotAccounting /\ OneJobPerBand
    BY DEF PoolInv, TypeInv
  <1>1. PICK q \in Queues : q = SelectedQueue
    BY <1>0, SelectionFacts DEF Claim
  <1>2. PICK at \in DOMAIN ready[q] : /\ at = SelectedOffset(q) /\ at \in EligibleAt(q)
                                      /\ \A j \in EligibleAt(q) : at <= j
    BY <1>0, <1>1, SelectionFacts DEF Claim
  <1>3. PICK slot : slot = ready[q][at]
    OBVIOUS
  <1>4. PICK job : job = jobs[q][slot]
    OBVIOUS
  <1>5. /\ held' = [held EXCEPT ![w] = [queue |-> q, slot |-> slot]]
        /\ ready' = [ready EXCEPT ![q] = RemoveAt(ready[q], at)]
        /\ wpc[w] = "check" /\ wpc' = [wpc EXCEPT ![w] = "process"]
        /\ ~failed /\ UNCHANGED <<failed, ppc, jobs, detector, stage, band, staging, segment>>
    BY <1>1, <1>2, <1>3 DEF Claim, Goto, ProducerUnchanged
  <1>6. /\ Queued(q) \in Seq(Jobs) /\ DOMAIN Queued(q) = DOMAIN ready[q]
        /\ \A i \in DOMAIN ready[q] : ready[q][i] \in Slots
                                      /\ Queued(q)[i] = jobs[q][ready[q][i]]
    BY <1>0, QueuedType
  <1>7. Queued(q)' = RemoveAt(Queued(q), at) /\ \A p \in Queues \ {q} : Queued(p)' = Queued(p)
    <2>1. UNCHANGED jobs
      BY <1>5
    <2> QED BY <2>1, <1>0, <1>5, QueuedClaim, Zenon
  <1>8. at \in DOMAIN Queued(q) /\ Queued(q)[at] = job /\ job \in Jobs /\ job.subband \in Bands
    <2>1. at \in DOMAIN Queued(q) /\ Queued(q)[at] = job
      BY <1>3, <1>4, <1>6
    <2>2. job \in Jobs
      BY <2>1, <1>6, ElementOfSeq, LenProperties
    <2> QED BY <2>1, <2>2 DEF Jobs
  <1>9. Job(w)' = job /\ \A v \in Detectors \ {w} : Job(v)' = Job(v) /\ wpc'[v] = wpc[v]
    BY <1>0, <1>4, <1>5 DEF Job, ThreadTypes
  <1>10. wpc'[w] = "process"
    BY <1>0, <1>5 DEF ThreadTypes
  <1>11. \A i \in Of(Queued(q), job.subband) : at <= i
    <2>1. job.subband \notin busy
      BY <1>2, <1>3, <1>4 DEF EligibleAt
    <2> QED BY <2>1, <1>2, <1>6 DEF Of, EligibleAt
  <1>12. Processing(job.subband) = {}
    <2>1. job.subband \notin busy
      BY <1>2, <1>3, <1>4 DEF EligibleAt
    <2>2. \A v \in Processing(job.subband) : Job(v).subband \in busy
      BY <1>0 DEF Processing, OneJobPerBand, Active, Holding, Unsettled
    <2> QED BY <2>1, <2>2 DEF Processing
  <1>13. \A b \in Bands : Processing(b)' = IF b = job.subband THEN {w} ELSE Processing(b)
    <2>1. \A b \in Bands : b # job.subband => Processing(b)' = Processing(b)
      BY <1>5, <1>9, <1>10 DEF Processing
    <2>2. Processing(job.subband)' = {w}
      <3>1. w \in Processing(job.subband)'
        BY <1>9, <1>10 DEF Processing
      <3>2. \A v \in Detectors \ {w} : v \notin Processing(job.subband)'
        BY <1>9, <1>12 DEF Processing
      <3>3. Processing(job.subband)' \subseteq Detectors
        BY DEF Processing
      <3> QED BY <3>1, <3>2, <3>3
    <2> QED BY <2>1, <2>2
  <1>14. \A b \in Bands : Ends(b)' = Ends(b)
    BY <1>5 DEF Ends, EndsAt, Behind, Producing, Inserting, Positions
  <1>15. QueueOf(job.subband) = q /\ job.subband \in Bands
    BY <1>8 DEF OrderInv, QueuedRight
  <1>16. PICK c \in Bands : c = job.subband
    BY <1>8
  <1>17. /\ Follows(detector[c], job)
         /\ Chain(Queued(q)', c, After(job), Ends(c))
    <2>1. Chain(Queued(q), c, detector[c], Ends(c))
      BY <1>5, <1>12, <1>15, <1>16 DEF OrderInv, Chains, BandChain
    <2>2. at \in Of(Queued(q), c) /\ \A i \in Of(Queued(q), c) : at <= i
      BY <1>8, <1>11, <1>16 DEF Of
    <2>3. /\ Follows(detector[c], Queued(q)[at])
          /\ Chain(RemoveAt(Queued(q), at), c, After(Queued(q)[at]), Ends(c))
      BY <2>1, <2>2, <1>6, <1>8, ChainRemoveFirst
    <2> QED BY <2>3, <1>7, <1>8
  <1>18. Chains'
    <2> SUFFICES ASSUME NEW b \in Bands PROVE BandChain(b)'
      BY DEF Chains
    <2>0. BandChain(b) /\ QueueOf(b) \in Queues
      BY <1>5, BandFacts DEF OrderInv, Chains
    <2>1. CASE b = c
      <3>1. QueueOf(b) = q /\ Processing(b)' = {w}
        BY <2>1, <1>13, <1>15, <1>16
      <3>2. \A v \in Processing(b)' : Chain(Queued(q)', b, After(Job(v)'), Ends(b)')
        BY <2>1, <3>1, <1>9, <1>14, <1>17
      <3> QED BY <3>1, <3>2 DEF BandChain
    <2>2. CASE b # c
      <3>1. Processing(b)' = Processing(b) /\ \A v \in Processing(b) : Job(v)' = Job(v)
        <4>1. w \notin Processing(b)
          BY <1>5 DEF Processing
        <4> QED BY <4>1, <2>2, <1>9, <1>13, <1>16 DEF Processing
      <3>2. ASSUME NEW start, Chain(Queued(QueueOf(b)), b, start, Ends(b))
            PROVE  Chain(Queued(QueueOf(b))', b, start, Ends(b)')
        <4>1. CASE QueueOf(b) = q
          <5>1. Queued(q)[at].subband # b
            BY <2>2, <1>8, <1>16
          <5>2. Chain(Queued(q), b, start, Ends(b))
            BY <4>1, <3>2
          <5>3. Chain(RemoveAt(Queued(q), at), b, start, Ends(b))
            BY <5>1, <5>2, <1>6, <1>8, ChainRemoveOther
          <5> QED BY <4>1, <5>3, <1>7, <1>14
        <4>2. CASE QueueOf(b) # q
          <5>1. Queued(QueueOf(b))' = Queued(QueueOf(b))
            BY <4>2, <2>0, <1>7
          <5> QED BY <5>1, <3>2, <1>14
        <4> QED BY <4>1, <4>2
      <3> QED BY <3>1, <3>2, <2>0, <1>5 DEF BandChain
    <2> QED BY <2>1, <2>2
  <1>19. DetectorContinuity'
    <2>1. \A v \in Detectors : Continuous(v)
      BY ContinuityParts DEF OrderInv
    <2>2. \A v \in Detectors \ {w} : Continuous(v)'
      BY <2>1, <1>5, <1>9 DEF Continuous
    <2>3. Continuous(w)'
      BY <1>5, <1>9, <1>16, <1>17 DEF Continuous
    <2>4. \A v \in Detectors : Continuous(v)'
      BY <2>2, <2>3
    <2> QED BY <2>4, ContinuityPartsNext
  <1>20. QueuedRight'
    <2>1. \A i \in DOMAIN Queued(q)' : QueueOf(Queued(q)'[i].subband) = q
      <3>1. /\ RemoveAt(Queued(q), at) \in Seq(Jobs)
            /\ Len(RemoveAt(Queued(q), at)) = Len(Queued(q)) - 1
            /\ \A j \in 1 .. Len(Queued(q)) - 1 : RemoveAt(Queued(q), at)[j] =
                  IF j < at THEN Queued(q)[j] ELSE Queued(q)[j + 1]
        <4>1. PICK s \in Seq(Jobs) : s = Queued(q)
          BY <1>6
        <4>2. at \in DOMAIN s
          BY <4>1, <1>8
        <4> QED BY <4>1, <4>2, RemoveAtElements
      <3>2. Len(Queued(q)) \in Nat /\ DOMAIN Queued(q) = 1 .. Len(Queued(q))
            /\ DOMAIN Queued(q)' = 1 .. Len(Queued(q)) - 1
        BY <3>1, <1>6, <1>7, LenProperties
      <3>3. \A i \in DOMAIN Queued(q) : QueueOf(Queued(q)[i].subband) = q
        BY DEF OrderInv, QueuedRight
      <3>4. \A j \in 1 .. Len(Queued(q)) - 1 : j \in DOMAIN Queued(q) /\ j + 1 \in DOMAIN Queued(q)
        BY <3>2
      <3> QED BY <3>1, <3>2, <3>3, <3>4, <1>7
    <2>2. \A p \in Queues \ {q} : \A i \in DOMAIN Queued(p)' : QueueOf(Queued(p)'[i].subband) = p
      BY <1>7 DEF OrderInv, QueuedRight
    <2> QED BY <2>1, <2>2 DEF QueuedRight, QueueOf
  <1>21. DiscardsFailed' /\ ProducerPlace'
    BY <1>0, <1>5 DEF OrderInv, DiscardsFailed, ProducerPlace, Inserting, ThreadTypes
  <1> QED BY <1>18, <1>19, <1>20, <1>21 DEF OrderInv

\* process_job moves the band's detector to the end of the job it was given.
LEMMA ProcessOrder ==
    ASSUME PoolInv, OrderInv, NEW w \in Detectors, Process(w) PROVE OrderInv'
  <1>0. TypeInv /\ QueueTypes /\ ThreadTypes /\ OneJobPerBand
    BY DEF PoolInv, TypeInv
  <1>1. PICK job \in Jobs : job = Job(w)
    BY <1>0, JobType
  <1>2. PICK c \in Bands : c = job.subband
    BY DEF Jobs
  <1>3. /\ wpc[w] = "process" /\ wpc' = [wpc EXCEPT ![w] = "release"]
        /\ UNCHANGED <<failed, ppc, queueVars, held, stage, band, staging, segment>>
        /\ detector' = [detector EXCEPT ![c] =
             IF job.reset THEN [segment |-> job.segment, next |-> 0]
             ELSE [detector[c] EXCEPT !.next = job.first + job.count]]
    BY <1>1, <1>2 DEF Process, Goto, ProducerUnchanged
  <1>4. Follows(detector[c], job)
    BY <1>1, <1>2, <1>3, ContinuityParts DEF OrderInv, Continuous
  <1>5. detector'[c] = After(job) /\ \A b \in Bands \ {c} : detector'[b] = detector[b]
    <2>1. detector \in [Bands -> [segment : Nat, next : Nat]]
      BY <1>0 DEF ThreadTypes
    <2>2. CASE job.reset
      BY <2>1, <2>2, <1>3 DEF After
    <2>3. CASE ~job.reset
      <3>1. job.segment = detector[c].segment
        BY <2>3, <1>4 DEF Follows
      <3>2. detector[c] \in [segment : Nat, next : Nat] /\ job.first + job.count \in Nat
        BY <2>1 DEF Jobs
      <3>3. [detector[c] EXCEPT !.next = job.first + job.count]
              = [segment |-> job.segment, next |-> job.first + job.count]
        BY <3>1, <3>2
      <3> QED BY <2>1, <2>3, <3>3, <1>3 DEF After
    <2> QED BY <2>2, <2>3
  <1>6. \A v \in Detectors : Job(v)' = Job(v)
    BY <1>3 DEF Job, queueVars
  <1>7. \A q \in Queues : Queued(q)' = Queued(q)
    BY <1>3 DEF Queued, queueVars
  <1>8. wpc'[w] = "release" /\ \A v \in Detectors \ {w} : wpc'[v] = wpc[v]
    BY <1>0, <1>3 DEF ThreadTypes
  <1>9. \A v \in Detectors : wpc[v] = "process" /\ Job(v).subband = c => v = w
    BY <1>0, <1>1, <1>2, <1>3 DEF OneJobPerBand, Active, Holding, Unsettled
  <1>10. Processing(c)' = {} /\ w \in Processing(c)
         /\ \A b \in Bands \ {c} : Processing(b)' = Processing(b)
    <2>1. Processing(c)' = {}
      BY <1>6, <1>8, <1>9 DEF Processing
    <2>2. w \in Processing(c)
      BY <1>1, <1>2, <1>3 DEF Processing
    <2>3. \A b \in Bands \ {c} : Processing(b)' = Processing(b)
      BY <1>1, <1>2, <1>6, <1>8 DEF Processing
    <2> QED BY <2>1, <2>2, <2>3
  <1>11. \A b \in Bands : Ends(b)' = Ends(b)
    BY <1>3 DEF Ends, EndsAt, Behind, Producing, Inserting, Positions
  <1>12. Chains'
    <2> SUFFICES ASSUME ~failed', NEW b \in Bands PROVE BandChain(b)'
      BY DEF Chains
    <2>0. BandChain(b) /\ Queued(QueueOf(b))' = Queued(QueueOf(b))
      BY <1>3, <1>7, BandFacts DEF OrderInv, Chains
    <2>1. CASE b = c
      <3>1. Chain(Queued(QueueOf(b)), b, After(job), Ends(b))
        BY <2>0, <2>1, <1>1, <1>10 DEF BandChain
      <3> QED BY <2>0, <2>1, <3>1, <1>5, <1>10, <1>11 DEF BandChain
    <2>2. CASE b # c
      BY <2>0, <2>2, <1>5, <1>6, <1>10, <1>11, BandFrame DEF Processing
    <2> QED BY <2>1, <2>2
  <1>13. DetectorContinuity'
    <2>1. \A v \in Detectors : Continuous(v)
      BY ContinuityParts DEF OrderInv
    <2> SUFFICES ASSUME NEW v \in Detectors PROVE Continuous(v)'
      BY ContinuityPartsNext
    <2>2. CASE v = w
      BY <2>2, <1>8 DEF Continuous
    <2>3. CASE v # w
      <3> SUFFICES ASSUME wpc[v] = "process"
                   PROVE  Follows(detector'[Job(v).subband], Job(v))
        BY <2>3, <1>6, <1>8 DEF Continuous
      <3>1. Job(v).subband \in Bands \ {c}
        BY <2>3, <1>0, <1>9, JobType
      <3>2. Follows(detector[Job(v).subband], Job(v))
        BY <2>1 DEF Continuous
      <3> QED BY <3>1, <3>2, <1>5
    <2> QED BY <2>2, <2>3
  <1>14. QueuedRight' /\ DiscardsFailed' /\ ProducerPlace'
    BY <1>0, <1>3, <1>7, <1>8 DEF OrderInv, QueuedRight, DiscardsFailed, ProducerPlace,
                                  Inserting
  <1> QED BY <1>12, <1>13, <1>14 DEF OrderInv

LEMMA ReleaseOrder ==
    ASSUME PoolInv, OrderInv, NEW w \in Detectors, Release(w) PROVE OrderInv'
  <1>0. TypeInv /\ QueueTypes /\ ThreadTypes /\ SlotAccounting
    BY DEF PoolInv, TypeInv
  <1>1. PICK q \in Queues, slot \in Slots : q = held[w].queue /\ slot = held[w].slot
    BY <1>0, JobType
  <1>2. /\ wpc[w] = "release" /\ wpc' = [wpc EXCEPT ![w] = "notify"]
        /\ jobs' = [jobs EXCEPT ![q][slot] = EmptyJob]
        /\ UNCHANGED <<failed, ppc, ready, held, detector, stage, band, staging, segment>>
    BY <1>1 DEF Release, Goto, ProducerUnchanged
  <1>3. w \in Active /\ slot \in HeldIn(q) /\ slot \notin ToSet(ready[q])
    <2>1. w \in Active
      BY <1>2 DEF Active, Holding, Unsettled
    <2>2. slot \in HeldIn(q)
      BY <2>1, <1>1 DEF HeldIn
    <2> QED BY <2>1, <2>2, <1>0 DEF SlotAccounting
  <1>4. \A p \in Queues : Queued(p)' = Queued(p)
    <2>1. \A p \in Queues : \A i \in DOMAIN ready[p] :
             jobs'[p][ready[p][i]] = jobs[p][ready[p][i]]
      <3>1. jobs \in [Queues -> [Slots -> Jobs]]
        BY <1>0 DEF QueueTypes
      <3>2. \A i \in DOMAIN ready[q] : ready[q][i] # slot /\ ready[q][i] \in Slots
        BY <1>0, <1>3, QueuedType DEF ToSet
      <3> QED BY <3>1, <3>2, <1>2
    <2> QED BY <2>1, <1>2, QueuedFrame
  <1>5. \A v \in Detectors \ {w} : wpc'[v] = wpc[v]
    BY <1>0, <1>2 DEF ThreadTypes
  <1>6. wpc'[w] = "notify"
    BY <1>0, <1>2 DEF ThreadTypes
  <1>7. \A v \in Detectors : wpc[v] = "process" => Job(v)' = Job(v)
    <2> SUFFICES ASSUME NEW v \in Detectors, wpc[v] = "process" PROVE Job(v)' = Job(v)
      OBVIOUS
    <2>1. v \in Active /\ v # w
      BY <1>2 DEF Active, Holding, Unsettled
    <2>2. held[w] = [queue |-> q, slot |-> slot]
      BY <1>0, <1>1 DEF ThreadTypes
    <2>3. held[v] # [queue |-> q, slot |-> slot]
      BY <2>1, <2>2, <1>0, <1>3 DEF SlotAccounting
    <2> QED BY <2>3, <1>0, <1>2, HeldJob
  <1>8. \A b \in Bands : Ends(b)' = Ends(b)
    BY <1>2 DEF Ends, EndsAt, Behind, Producing, Inserting, Positions
  <1>9. ProducerPlace'
    BY <1>2 DEF OrderInv, ProducerPlace, Inserting
  <1>10. \A v \in Detectors : (wpc'[v] = "process" <=> wpc[v] = "process")
                              /\ (wpc'[v] = "discarding" => wpc[v] = "discarding")
    BY <1>2, <1>5, <1>6
  <1> QED BY <1>0, <1>2, <1>4, <1>7, <1>8, <1>9, <1>10, OrderFrame

\* Steps that change no job: waiting, throwing, notifying and leaving.
LEMMA IdleOrder ==
    ASSUME PoolInv, OrderInv, NEW w \in Detectors,
           Wait(w) \/ ProcessThrows(w) \/ ReleaseNotify(w) \/ Leave(w) \/ DiscardDone(w)
    PROVE  OrderInv'
  <1>0. TypeInv /\ ThreadTypes
    BY DEF PoolInv, TypeInv
  <1>1. /\ UNCHANGED <<queueVars, held, detector, stage, band, staging, segment>>
        /\ (ppc' = ppc \/ NotifySpace) /\ (failed => failed')
    BY DEF Wait, ProcessThrows, ReleaseNotify, Leave, DiscardDone, ProducerUnchanged
  <1>2. \A v \in Detectors : /\ wpc'[v] = "process" => wpc[v] = "process"
                             /\ wpc'[v] = "discarding" => wpc[v] = "discarding" \/ failed'
                             /\ failed' \/ (wpc[v] = "process" => wpc'[v] = "process")
    <2> USE <1>0 DEF Goto, Woken, ThreadTypes
    <2>1. CASE Wait(w)
      BY <2>1 DEF Wait
    <2>2. CASE ProcessThrows(w)
      BY <2>2 DEF ProcessThrows
    <2>3. CASE ReleaseNotify(w)
      BY <2>3 DEF ReleaseNotify
    <2>4. CASE Leave(w)
      BY <2>4 DEF Leave
    <2>5. CASE DiscardDone(w)
      BY <2>5 DEF DiscardDone
    <2> QED BY <2>1, <2>2, <2>3, <2>4, <2>5
  <1>3. \A v \in Detectors : Job(v)' = Job(v)
    BY <1>1 DEF Job, queueVars
  <1>4. \A q \in Queues : Queued(q)' = Queued(q)
    BY <1>1 DEF Queued, queueVars
  <1>5. (\A b \in Bands : Ends(b)' = Ends(b)) /\ ProducerPlace'
    BY <1>1 DEF Ends, EndsAt, Behind, Producing, Inserting, Positions, NotifySpace,
                OrderInv, ProducerPlace
  <1> QED BY <1>0, <1>1, <1>2, <1>3, <1>4, <1>5, OrderFrame

\* After a failure the pending jobs are given up; the claimed ones keep their order.
LEMMA DiscardOrder ==
    ASSUME PoolInv, OrderInv, NEW w \in Detectors, NEW q \in Queues, DiscardJob(w, q)
    PROVE  OrderInv'
  <1>0. TypeInv /\ QueueTypes /\ ThreadTypes /\ SlotAccounting
    BY DEF PoolInv, TypeInv
  <1>1. PICK slot : slot = Head(ready[q])
    OBVIOUS
  <1>2. /\ wpc[w] = "discarding" /\ ready[q] # <<>>
        /\ jobs' = [jobs EXCEPT ![q][slot] = EmptyJob]
        /\ ready' = [ready EXCEPT ![q] = Tail(ready[q])]
        /\ UNCHANGED <<failed, ppc, wpc, held, detector, stage, band, staging, segment>>
    BY <1>1 DEF DiscardJob, ProducerUnchanged, threadVars
  <1>3. failed'
    BY <1>2 DEF OrderInv, DiscardsFailed
  <1>4. /\ ready[q] \in Seq(Slots) /\ jobs \in [Queues -> [Slots -> Jobs]]
        /\ DOMAIN ready = Queues
        /\ \A i, j \in DOMAIN ready[q] : ready[q][i] = ready[q][j] => i = j
        /\ ToSet(ready[q]) \cap HeldIn(q) = {}
    BY <1>0 DEF QueueTypes, SlotAccounting
  <1>5. /\ slot \in Slots /\ slot = ready[q][1] /\ Len(ready[q]) \in Nat \ {0}
        /\ DOMAIN ready[q] = 1 .. Len(ready[q])
        /\ ready'[q] = Tail(ready[q]) /\ DOMAIN ready'[q] = 1 .. Len(ready[q]) - 1
        /\ \A i \in 1 .. Len(ready[q]) - 1 : ready'[q][i] = ready[q][i + 1]
    <2>1. /\ Head(ready[q]) \in Slots /\ Head(ready[q]) = ready[q][1]
          /\ Len(ready[q]) \in Nat \ {0} /\ DOMAIN ready[q] = 1 .. Len(ready[q])
      BY <1>2, <1>4, HeadTailProperties, LenProperties
    <2>2. /\ Tail(ready[q]) \in Seq(Slots) /\ Len(Tail(ready[q])) = Len(ready[q]) - 1
          /\ \A i \in 1 .. Len(Tail(ready[q])) : Tail(ready[q])[i] = ready[q][i + 1]
      BY <1>2, <1>4, HeadTailProperties
    <2>3. DOMAIN Tail(ready[q]) = 1 .. Len(ready[q]) - 1
      BY <2>2, LenProperties
    <2>4. ready'[q] = Tail(ready[q])
      BY <1>2, <1>4
    <2> QED BY <2>1, <2>2, <2>3, <2>4, <1>1
  <1>6. \A v \in Detectors : wpc[v] = "process" => Job(v)' = Job(v)
    <2> SUFFICES ASSUME NEW v \in Detectors, wpc[v] = "process" PROVE Job(v)' = Job(v)
      OBVIOUS
    <2>1. v \in Active
      BY DEF Active, Holding, Unsettled
    <2>2. slot \in ToSet(ready[q])
      BY <1>5 DEF ToSet
    <2>3. held[v] # [queue |-> q, slot |-> slot]
      BY <2>1, <2>2, <1>4 DEF HeldIn
    <2> QED BY <2>3, <1>0, <1>2, <1>5, HeldJob
  <1>7. DetectorContinuity'
    <2>1. \A v \in Detectors : Continuous(v)
      BY ContinuityParts DEF OrderInv
    <2>2. \A v \in Detectors : Continuous(v)'
      BY <2>1, <1>2, <1>6 DEF Continuous
    <2> QED BY <2>2, ContinuityPartsNext
  <1>8. QueuedRight'
    <2>1. \A p \in Queues \ {q} : Queued(p)' = Queued(p)
      BY <1>2, <1>4 DEF Queued
    <2>2. DOMAIN Queued(q) = 1 .. Len(ready[q]) /\ DOMAIN Queued(q)' = 1 .. Len(ready[q]) - 1
      BY <1>5 DEF Queued
    <2>3. ASSUME NEW i \in 1 .. Len(ready[q]) - 1
          PROVE  i + 1 \in 1 .. Len(ready[q]) /\ Queued(q)'[i] = Queued(q)[i + 1]
      <3>1. i + 1 \in 1 .. Len(ready[q]) /\ i + 1 # 1 /\ 1 \in 1 .. Len(ready[q])
        BY <1>5
      <3>2. ready[q][i + 1] # slot /\ ready[q][i + 1] \in Slots
        BY <3>1, <1>4, <1>5, ElementOfSeq
      <3>3. jobs'[q][ready[q][i + 1]] = jobs[q][ready[q][i + 1]]
        BY <3>2, <1>2, <1>4
      <3> QED BY <3>1, <3>3, <1>5 DEF Queued
    <2>4. \A i \in DOMAIN Queued(q)' : QueueOf(Queued(q)'[i].subband) = q
      BY <2>2, <2>3 DEF OrderInv, QueuedRight
    <2>5. \A p \in Queues \ {q} : \A i \in DOMAIN Queued(p)' : QueueOf(Queued(p)'[i].subband) = p
      BY <2>1 DEF OrderInv, QueuedRight
    <2> QED BY <2>4, <2>5 DEF QueuedRight, QueueOf
  <1>9. DiscardsFailed' /\ ProducerPlace'
    BY <1>2 DEF OrderInv, DiscardsFailed, ProducerPlace, Inserting
  <1> QED BY <1>3, <1>7, <1>8, <1>9 DEF OrderInv, Chains

LEMMA OrderStep == PoolInv /\ OrderInv /\ [Next]_vars => OrderInv'
  <1> SUFFICES ASSUME PoolInv, OrderInv, [Next]_vars PROVE OrderInv'
    OBVIOUS
  <1>1. CASE Enqueue
    BY <1>1, EnqueueOrder
  <1>2. CASE (Input \/ Producer) /\ ~Enqueue
    BY <1>2, ProducerOrder
  <1>3. CASE \E w \in Detectors : Detector(w)
    BY <1>3, ClaimOrder, ProcessOrder, ReleaseOrder, IdleOrder, DiscardOrder DEF Detector
  <1>4. CASE UNCHANGED vars
    <2>1. TypeInv
      BY DEF PoolInv
    <2>2. UNCHANGED <<failed, ppc, stage, band, staging, segment, jobs, ready, held, wpc,
                      detector>>
      BY <1>4 DEF vars, prodVars, queueVars, threadVars
    <2>3. \A q \in Queues : Queued(q)' = Queued(q)
      BY <2>2 DEF Queued
    <2>4. \A v \in Detectors : Job(v)' = Job(v)
      BY <2>2 DEF Job
    <2>5. (\A b \in Bands : Ends(b)' = Ends(b)) /\ ProducerPlace'
      BY <2>2 DEF Ends, EndsAt, Behind, Producing, Inserting, Positions, OrderInv,
                  ProducerPlace
    <2> QED BY <2>1, <2>2, <2>3, <2>4, <2>5, OrderFrame
  <1> QED BY <1>1, <1>2, <1>3, <1>4 DEF Next, Terminated

\* A band's detector gets its batches in order and without a hole, and a reset at
\* every start of a segment, although jobs of several bands share a queue, are
\* claimed out of FIFO order and are processed by several threads at a time.
THEOREM DetectorsFedInOrder == Spec => []DetectorContinuity
  <1>1. Init => OrderInv
    BY OrderInit
  <1>2. OrderInv => DetectorContinuity
    BY DEF OrderInv
  <1> QED BY <1>1, <1>2, OrderStep, PoolAlways, PTL DEF Spec

-----------------------------------------------------------------------------
(* Conservation.  Samples are lost where staging is cleared, so it has to   *)
(* be empty there: a flush leaves nothing behind its loop index, and a      *)
(* segment's resets find everything flushed.                               *)

Flushed ==
    /\ stage \in {"segment_flush", "end_flush"} =>
         \A b \in Bands : b < band \/ (b = band /\ ppc = "announce") => staging[b].count = 0
    /\ stage = "segment_reset" => \A b \in Bands : staging[b].count = 0

\* What the end of the pool rests on: who is done has nothing left, and gives up
\* samples only after a failure.
ProducerEnd ==
    /\ ppc \in {"done", "done_notify", "exited"} => \A b \in Bands : staging[b].count = 0
    /\ producerDone => ppc \in {"done_notify", "exited"}
    /\ ppc \in {"fail_notify", "discard"} => failed
NonePending == \A q \in Queues : ready[q] = <<>>
ThreadEnd(w) ==
    /\ wpc[w] \in {"fail_notify", "abandon", "discarding"} => failed
    /\ wpc[w] = "leave" => failed \/ (producerDone /\ NonePending)
    /\ wpc[w] = "exited" => (failed \/ producerDone) /\ NonePending
EndInv ==
    /\ ProducerEnd /\ Flushed
    /\ \A w \in Detectors : ThreadEnd(w)
    /\ ~failed => \A b \in Bands : abandoned[b] = 0

Balance(b) ==
    emitted[b] = staging[b].count + PendingOf(b) + HeldOf(b) + processed[b] + abandoned[b]
LEMMA BalanceAll ==
    /\ OutputConserved <=> \A b \in Bands : Balance(b)
    /\ (\A b \in Bands : Balance(b)') => OutputConserved'
  BY DEF OutputConserved, Balance

\* What the jobs of a sequence hold for band b.
Share(job, b) == IF job.subband = b THEN job.count ELSE 0
Shares(s, b) == [i \in DOMAIN s |-> Share(s[i], b)]
LEMMA SharesType ==
    ASSUME NEW s \in Seq(Jobs), NEW b
    PROVE  /\ Shares(s, b) \in Seq(Nat) /\ Len(Shares(s, b)) = Len(s)
           /\ \A i \in 1 .. Len(s) : Shares(s, b)[i] = Share(s[i], b)
           /\ Total(Shares(s, b)) \in Nat
  <1>1. DOMAIN s = 1 .. Len(s) /\ Len(s) \in Nat
    BY LenProperties
  <1>2. \A i \in 1 .. Len(s) : Share(s[i], b) \in Nat
    <2>1. \A i \in 1 .. Len(s) : s[i] \in Jobs
      BY ElementOfSeq
    <2> QED BY <2>1 DEF Share, Jobs
  <1>3. Shares(s, b) \in [1 .. Len(s) -> Nat]
    BY <1>1, <1>2 DEF Shares
  <1>4. Shares(s, b) \in Seq(Nat) /\ Len(Shares(s, b)) = Len(s)
    BY <1>1, <1>3, IsASeq, LenProperties
  <1> QED BY <1>1, <1>4, TotalType DEF Shares

LEMMA SharesAppend ==
    ASSUME NEW s \in Seq(Jobs), NEW job \in Jobs, NEW b
    PROVE  Total(Shares(Append(s, job), b)) = Total(Shares(s, b)) + Share(job, b)
  <1> DEFINE r == Append(s, job)
  <1>1. /\ r \in Seq(Jobs) /\ Len(r) = Len(s) + 1 /\ Len(s) \in Nat
        /\ \A i \in 1 .. Len(s) : r[i] = s[i]
        /\ r[Len(s) + 1] = job
    BY AppendProperties, LenProperties
  <1> HIDE DEF r
  <1>2. /\ Shares(r, b) \in Seq(Nat) /\ Len(Shares(r, b)) = Len(s) + 1
        /\ \A i \in 1 .. Len(s) + 1 : Shares(r, b)[i] = Share(r[i], b)
    BY <1>1, SharesType
  <1>3. /\ Shares(s, b) \in Seq(Nat) /\ Len(Shares(s, b)) = Len(s)
        /\ \A i \in 1 .. Len(s) : Shares(s, b)[i] = Share(s[i], b)
    BY SharesType
  <1>4. \A i \in 1 .. Len(s) : i \in 1 .. Len(s) + 1 /\ Shares(r, b)[i] = Shares(s, b)[i]
    BY <1>1, <1>2, <1>3
  <1>5. Len(s) + 1 \in 1 .. Len(s) + 1
    BY <1>1
  <1>6. Shares(r, b)[Len(Shares(r, b))] = Share(job, b)
    BY <1>1, <1>2, <1>5
  <1>7. Total(Shares(r, b)) = Total(Shares(s, b)) + Shares(r, b)[Len(Shares(r, b))]
    BY <1>2, <1>3, <1>4, TotalExtended
  <1> QED BY <1>6, <1>7 DEF r

LEMMA SharesRemove ==
    ASSUME NEW s \in Seq(Jobs), NEW at \in DOMAIN s, NEW t \in Seq(Jobs),
           Len(s) = Len(t) + 1, NEW b,
           \A i \in 1 .. Len(t) : t[i] = IF i < at THEN s[i] ELSE s[i + 1]
    PROVE  Total(Shares(s, b)) = Share(s[at], b) + Total(Shares(t, b))
  <1>1. Len(t) \in Nat /\ at \in 1 .. Len(s)
    BY LenProperties
  <1>2. /\ Shares(s, b) \in Seq(Nat) /\ Len(Shares(s, b)) = Len(s)
        /\ \A i \in 1 .. Len(s) : Shares(s, b)[i] = Share(s[i], b)
    BY SharesType
  <1>3. /\ Shares(t, b) \in Seq(Nat) /\ Len(Shares(t, b)) = Len(t)
        /\ \A i \in 1 .. Len(t) : Shares(t, b)[i] = Share(t[i], b)
    BY SharesType
  <1>4. \A i \in 1 .. Len(t) :
           Shares(t, b)[i] = IF i < at THEN Shares(s, b)[i] ELSE Shares(s, b)[i + 1]
    <2>1. \A i \in 1 .. Len(t) : i \in 1 .. Len(s) /\ i + 1 \in 1 .. Len(s)
      BY <1>1
    <2> QED BY <2>1, <1>2, <1>3
  <1>5. Total(Shares(s, b)) = Shares(s, b)[at] + Total(Shares(t, b))
    <2>1. PICK u \in Seq(Nat), v \in Seq(Nat) : u = Shares(s, b) /\ v = Shares(t, b)
      BY <1>2, <1>3
    <2>2. /\ at \in 1 .. Len(u) /\ Len(u) = Len(v) + 1
          /\ \A i \in 1 .. Len(v) : v[i] = IF i < at THEN u[i] ELSE u[i + 1]
      BY <2>1, <1>1, <1>2, <1>3, <1>4
    <2>3. Total(u) = u[at] + Total(v)
      BY <2>2, TotalRemoved
    <2> QED BY <2>1, <2>3
  <1> QED BY <1>1, <1>2, <1>5

LEMMA PendingIs ==
    ASSUME NEW b \in Bands
    PROVE  /\ PendingOf(b) = Total(Shares(Queued(QueueOf(b)), b))
           /\ PendingOf(b)' = Total(Shares(Queued(QueueOf(b))', b))
  <1>1. PendingCount(QueueOf(b), b) = Shares(Queued(QueueOf(b)), b)
    BY DEF PendingCount, Shares, Share, Queued
  <1>2. PendingCount(QueueOf(b), b)' = Shares(Queued(QueueOf(b))', b)
    BY DEF PendingCount, Shares, Share, Queued
  <1> QED BY <1>1, <1>2 DEF PendingOf

LEMMA PendingType ==
    ASSUME QueueTypes, NEW b \in Bands PROVE PendingOf(b) \in Nat
  BY BandFacts, QueuedType, SharesType, PendingIs

\* The job held for a band.
LEMMA HeldIs ==
    ASSUME NEW b
    PROVE  /\ Holders(b) = {} => HeldOf(b) = 0
           /\ Holders(b)' = {} => HeldOf(b)' = 0
           /\ \A w : Holders(b) = {w} => HeldOf(b) = Job(w).count
           /\ \A w : Holders(b)' = {w} => HeldOf(b)' = Job(w)'.count
  <1>1. \A w : (CHOOSE x \in {w} : TRUE) = w
    OBVIOUS
  <1>2. Holders(b) = {} => HeldOf(b) = 0
    BY DEF HeldOf
  <1>3. Holders(b)' = {} => HeldOf(b)' = 0
    BY DEF HeldOf
  <1>4. \A w : Holders(b) = {w} => HeldOf(b) = Job(w).count
    BY <1>1 DEF HeldOf
  <1>5. ASSUME NEW w, Holders(b)' = {w} PROVE HeldOf(b)' = Job(w)'.count
    BY <1>1, <1>5 DEF HeldOf, Job
  <1> QED BY <1>2, <1>3, <1>4, <1>5

LEMMA HoldersOne ==
    ASSUME OneJobPerBand, NEW b, NEW w \in Holders(b) PROVE Holders(b) = {w}
  <1>1. \A v \in Holders(b) : v \in Active /\ Job(v).subband = b
    BY DEF Holders, Active, Holding
  <1> QED BY <1>1 DEF OneJobPerBand

LEMMA HeldType ==
    ASSUME QueueTypes, ThreadTypes, OneJobPerBand, NEW b \in Bands PROVE HeldOf(b) \in Nat
  <1>1. CASE Holders(b) = {}
    BY <1>1, HeldIs
  <1>2. ASSUME NEW w \in Holders(b) PROVE HeldOf(b) \in Nat
    <2>1. w \in Detectors /\ HeldOf(b) = Job(w).count
      BY <1>2, HoldersOne, HeldIs DEF Holders
    <2> QED BY <2>1, JobType
  <1> QED BY <1>1, <1>2

\* Nothing that is pending or held for the band changes.
LEMMA HeldSame ==
    ASSUME NEW b, OneJobPerBand, Holders(b)' = Holders(b),
           \A w \in Holders(b) : Job(w)' = Job(w)
    PROVE  HeldOf(b)' = HeldOf(b)
  <1>1. CASE Holders(b) = {}
    BY <1>1, HeldIs
  <1>2. ASSUME NEW w \in Holders(b) PROVE HeldOf(b)' = HeldOf(b)
    <2>1. Holders(b) = {w} /\ Holders(b)' = {w}
      BY <1>2, HoldersOne
    <2> QED BY <1>2, <2>1, HeldIs
  <1> QED BY <1>1, <1>2

LEMMA PendingSame ==
    ASSUME NEW b \in Bands, Queued(QueueOf(b))' = Queued(QueueOf(b))
    PROVE  PendingOf(b)' = PendingOf(b)
  BY PendingIs

-----------------------------------------------------------------------------
(* The end of the pool.                                                    *)

LEMMA ThreadEndFrame ==
    ASSUME NEW w \in Detectors, ThreadEnd(w), failed => failed',
           producerDone => producerDone', ready' = ready,
           wpc'[w] = wpc[w] \/ wpc'[w] \in {"check", "process", "release", "notify"}
    PROVE  ThreadEnd(w)'
  BY DEF ThreadEnd, NonePending

LEMMA EndInit == Init => EndInv
  BY DEF Init, EndInv, ProducerEnd, Flushed, ThreadEnd

\* The producer's own part.
LEMMA ProducerEndStep ==
    ASSUME TypeInv, ProducerEnd, Flushed, Input \/ Producer
    PROVE  ProducerEnd' /\ Flushed'
  <1> USE DEF ProducerEnd, Flushed
  <1>0. /\ ppc \in ProducerStates /\ stage \in Stages /\ band \in 0 .. BandCount
        /\ staging \in [Bands -> [count : Nat, next : Nat]]
        /\ \A b \in Bands : b \in Int /\ 0 <= b /\ b < BandCount
        /\ (ppc \in {"enqueue", "space_doze", "space_asleep", "announce"} => band \in Bands)
    BY DEF TypeInv, ProducerInv, ProducerTypes, BandInRange, Bands
  <1>1. CASE TakeBlock
    BY <1>0, <1>1 DEF TakeBlock, Loop
  <1>2. CASE EndOfInput
    BY <1>0, <1>2 DEF EndOfInput, Loop
  <1>3. CASE SeeFailure
    BY <1>0, <1>3 DEF SeeFailure
  <1>4. CASE FlushStaging
    <2>1. /\ ppc = "run" /\ ppc' = "enqueue" /\ stage' = stage /\ staging' = staging
          /\ producerDone' = producerDone /\ failed' = failed
          /\ stage \in {"segment_flush", "end_flush"} /\ Staged # {}
          /\ band' = CHOOSE b \in Staged : \A c \in Staged : b <= c
      BY <1>4 DEF FlushStaging
    <2>2. Staged \subseteq Nat
      BY DEF Staged, Bands
    <2>3. \E b \in Staged : \A c \in Staged : b <= c
      BY <2>1, <2>2, LeastElement
    <2>4. band' \in Staged /\ \A c \in Staged : band' <= c
      BY <2>1, <2>3
    <2>5. \A b \in Bands : b < band' => staging[b].count = 0
      <3> SUFFICES ASSUME NEW b \in Bands, b < band', staging[b].count # 0 PROVE FALSE
        OBVIOUS
      <3>1. staging[b].count > 0
        BY <1>0
      <3>2. b >= band
        BY <2>1, <1>0
      <3>3. b \in Staged
        BY <3>1, <3>2 DEF Staged
      <3>4. band' <= b /\ band' \in Nat /\ b \in Nat
        BY <3>3, <2>2, <2>4
      <3> QED BY <3>4
    <2>6. ~ (producerDone /\ ppc = "run")
      OBVIOUS
    <2> QED BY <2>1, <2>5, <2>6
  <1>5. CASE NewSegment
    <2>1. /\ ppc = "run" /\ stage = "segment_flush" /\ Staged = {} /\ stage' = "segment_reset"
          /\ UNCHANGED <<ppc, staging, producerDone, failed>>
      BY <1>5 DEF NewSegment, Loop
    <2>2. \A b \in Bands : staging[b].count = 0
      <3> SUFFICES ASSUME NEW b \in Bands PROVE staging[b].count = 0
        OBVIOUS
      <3>1. CASE b < band
        BY <2>1, <3>1
      <3>2. CASE b >= band
        BY <2>1, <3>2, <1>0 DEF Staged
      <3> QED BY <3>1, <3>2, <1>0
    <2> QED BY <2>1, <2>2
  <1>6. CASE ResetBand
    BY <1>0, <1>6, BandFacts DEF ResetBand, EmptyStaging
  <1>7. CASE \E n \in 0 .. MaxOutputs : Feed(n)
    BY <1>0, <1>7 DEF Feed, Feeding
  <1>8. CASE FeedThrows
    BY <1>0, <1>8 DEF FeedThrows, Feeding
  <1>9. CASE AppendBand
    <2>1. /\ ppc = "run" /\ stage = "append" /\ stage' = stage /\ ppc' \in {"run", "enqueue"}
          /\ UNCHANGED <<producerDone, failed>>
      BY <1>9 DEF AppendBand
    <2> QED BY <2>1
  <1>10. CASE AppendDone
    BY <1>0, <1>10 DEF AppendDone
  <1>11. CASE Enqueue
    <2>1. /\ ppc = "enqueue" /\ band \in Bands /\ UNCHANGED <<stage, band, producerDone, failed>>
          /\ \/ ppc' \in {"fail", "space_doze"} /\ staging' = staging
             \/ ppc' = "announce" /\ stage = "segment_reset" /\ staging' = staging
             \/ /\ ppc' = "announce" /\ stage # "segment_reset"
                /\ staging' = [staging EXCEPT ![band] =
                                 [count |-> 0, next |-> @.next + @.count]]
      BY <1>0, <1>11 DEF Enqueue, Insert
    <2>2. \A b \in Bands : staging'[b].count = staging[b].count \/ staging'[b].count = 0
      BY <2>1, <1>0
    <2>3. ppc' = "announce" /\ stage # "segment_reset" => staging'[band].count = 0
      BY <2>1, <1>0
    <2> QED BY <2>1, <2>2, <2>3
  <1>12. CASE SpaceSleep
    BY <1>0, <1>12 DEF SpaceSleep
  <1>13. CASE Announce
    <2>1. /\ ppc = "announce" /\ ppc' = "run" /\ band \in Bands
          /\ UNCHANGED <<stage, staging, producerDone, failed>>
          /\ (stage # "append" => band' = band + 1)
      BY <1>0, <1>13 DEF Announce
    <2>2. \A b \in Bands : b < band + 1 => b < band \/ b = band
      BY <1>0
    <2> QED BY <2>1, <2>2
  <1>14. CASE ProducerFail
    BY <1>0, <1>14 DEF ProducerFail
  <1>15. CASE EndFlushDone
    <2>1. /\ ppc = "run" /\ stage = "end_flush" /\ Staged = {} /\ band' = band
          /\ UNCHANGED <<stage, staging, producerDone, failed>>
          /\ ppc' = IF failed THEN "discard" ELSE "done"
      BY <1>15 DEF EndFlushDone
    <2>2. \A b \in Bands : staging[b].count = 0
      <3> SUFFICES ASSUME NEW b \in Bands PROVE staging[b].count = 0
        OBVIOUS
      <3>1. CASE b < band
        BY <2>1, <3>1
      <3>2. CASE b >= band
        BY <2>1, <3>2, <1>0 DEF Staged
      <3> QED BY <3>1, <3>2, <1>0
    <2> QED BY <2>1, <2>2
  <1>16. CASE DiscardStaging
    BY <1>0, <1>16 DEF DiscardStaging
  <1>17. CASE ProducerDone
    BY <1>0, <1>17 DEF ProducerDone
  <1>18. CASE ProducerNotify
    BY <1>0, <1>18 DEF ProducerNotify
  <1> QED BY <1>1, <1>2, <1>3, <1>4, <1>5, <1>6, <1>7, <1>8, <1>9, <1>10, <1>11, <1>12,
             <1>13, <1>14, <1>15, <1>16, <1>17, <1>18 DEF Input, Producer

LEMMA ProducerKeepsEnd ==
    ASSUME PoolInv, EndInv, Input \/ Producer PROVE EndInv'
  <1>0. TypeInv /\ ThreadTypes /\ ProducerEnd /\ Flushed
    BY DEF PoolInv, TypeInv, EndInv
  <1>1. ProducerEnd' /\ Flushed'
    BY <1>0, ProducerEndStep
  <1>2. (failed => failed') /\ (producerDone => producerDone')
    BY DEF Input, Producer, TakeBlock, EndOfInput, SeeFailure, FlushStaging, NewSegment,
           ResetBand, Feed, FeedThrows, AppendBand, AppendDone, Enqueue, SpaceSleep, Announce,
           ProducerFail, EndFlushDone, DiscardStaging, ProducerDone, ProducerNotify
  <1>3. \A w \in Detectors : wpc'[w] = wpc[w] \/ wpc'[w] = "check"
    BY ProducerThreadStep DEF Woken
  <1>4. \A w \in Detectors : ThreadEnd(w)'
    <2> SUFFICES ASSUME NEW w \in Detectors PROVE ThreadEnd(w)'
      OBVIOUS
    <2>0. ThreadEnd(w)
      BY DEF EndInv
    <2>1. CASE ready' = ready
      BY <2>0, <2>1, <1>2, <1>3, ThreadEndFrame
    <2>2. CASE ready' # ready
      <3>1. ppc = "enqueue" /\ ~failed
        BY <2>2, ProducerQueueStep DEF Enqueue, queueVars, Input, Producer, TakeBlock,
           EndOfInput, SeeFailure, FlushStaging, NewSegment, ResetBand, Feed, FeedThrows,
           AppendBand, AppendDone, SpaceSleep, Announce, ProducerFail, EndFlushDone,
           DiscardStaging, ProducerDone, ProducerNotify, PoolUnchanged
      <3>2. ~producerDone
        BY <3>1, <1>0 DEF ProducerEnd
      <3>3. wpc[w] \notin {"fail_notify", "abandon", "discarding", "leave", "exited"}
        BY <2>0, <3>1, <3>2 DEF ThreadEnd
      <3> QED BY <3>3, <1>3 DEF ThreadEnd
    <2> QED BY <2>1, <2>2
  <1>5. ~failed' => \A b \in Bands : abandoned'[b] = 0
    <2>1. CASE DiscardStaging
      BY <2>1, <1>0, <1>2 DEF DiscardStaging, ProducerEnd
    <2>2. CASE ~DiscardStaging
      <3>1. abandoned' = abandoned
        BY <2>2 DEF Input, Producer, TakeBlock, EndOfInput, SeeFailure, FlushStaging,
           NewSegment, ResetBand, Feed, FeedThrows, AppendBand, AppendDone, Enqueue,
           SpaceSleep, Announce, ProducerFail, EndFlushDone, ProducerDone, ProducerNotify, tally
      <3> QED BY <3>1, <1>2 DEF EndInv
    <2> QED BY <2>1, <2>2
  <1> QED BY <1>1, <1>4, <1>5 DEF EndInv

LEMMA NoneWhenCounted ==
    ASSUME QueueTypes, SlotAccounting, pendingJobs = 0 PROVE NonePending
  <1>1. PendingSlots = {}
    BY FiniteSlots, FS_EmptySet DEF SlotAccounting
  <1> SUFFICES ASSUME NEW q \in Queues PROVE ready[q] = <<>>
    BY DEF NonePending
  <1>2. ready[q] \in Seq(Slots)
    BY DEF QueueTypes
  <1>3. ASSUME NEW i \in DOMAIN ready[q] PROVE FALSE
    <2>1. ready[q][i] \in Slots /\ ready[q][i] \in ToSet(ready[q])
      BY <1>2, ElementOfSeq, LenProperties DEF ToSet
    <2>2. <<q, ready[q][i]>> \in PendingSlots
      BY <2>1 DEF PendingSlots
    <2> QED BY <2>2, <1>1
  <1>4. Len(ready[q]) \in Nat /\ DOMAIN ready[q] = 1 .. Len(ready[q])
    BY <1>2, LenProperties
  <1>5. Len(ready[q]) = 0
    <2>1. Len(ready[q]) # 0 => 1 \in DOMAIN ready[q]
      BY <1>4
    <2> QED BY <2>1, <1>3
  <1> QED BY <1>2, <1>5, EmptySeq

LEMMA DetectorKeepsEnd ==
    ASSUME PoolInv, EndInv, NEW w \in Detectors, Detector(w) PROVE EndInv'
  <1>0. TypeInv /\ QueueTypes /\ ThreadTypes /\ SlotAccounting /\ ProducerEnd /\ Flushed
        /\ \A v \in Detectors : ThreadEnd(v)
    BY DEF PoolInv, TypeInv, EndInv
  <1>1. /\ UNCHANGED <<producerDone, stage, band, staging>> /\ (failed => failed')
        /\ (ppc' = ppc \/ NotifySpace)
    <2> USE DEF ProducerUnchanged
    <2>1. CASE Claim(w)
      BY <2>1 DEF Claim
    <2>2. CASE Wait(w)
      BY <2>2 DEF Wait
    <2>3. CASE Process(w)
      BY <2>3 DEF Process
    <2>4. CASE ProcessThrows(w)
      BY <2>4 DEF ProcessThrows
    <2>5. CASE Release(w)
      BY <2>5 DEF Release
    <2>6. CASE ReleaseNotify(w) \/ Leave(w) \/ DiscardDone(w)
      BY <2>6 DEF ReleaseNotify, Leave, DiscardDone
    <2>7. CASE \E q \in Queues : DiscardJob(w, q)
      BY <2>7 DEF DiscardJob
    <2> QED BY <2>1, <2>2, <2>3, <2>4, <2>5, <2>6, <2>7 DEF Detector
  <1>2. ProducerEnd' /\ Flushed'
    BY <1>0, <1>1 DEF ProducerEnd, Flushed, NotifySpace
  <1>3. \A v \in Detectors : ThreadEnd(v)'
    <2>1. CASE Claim(w)
      <3>1. ~NonePending
        <4>1. SelectedQueue \in Queues /\
              SelectedOffset(SelectedQueue) \in DOMAIN ready[SelectedQueue]
          BY <1>0, <2>1, SelectionFacts DEF Claim
        <4> QED BY <4>1 DEF NonePending
      <3>2. ~failed /\ wpc' = [wpc EXCEPT ![w] = "process"]
        BY <2>1 DEF Claim, Goto
      <3>3. \A v \in Detectors :
               wpc[v] \notin {"fail_notify", "abandon", "discarding", "leave", "exited"}
        BY <1>0, <3>1, <3>2 DEF ThreadEnd
      <3> QED BY <1>0, <3>2, <3>3 DEF ThreadEnd, ThreadTypes
    <2>2. CASE Wait(w)
      <3>1. ready' = ready /\ failed' = failed
        BY <2>2 DEF Wait, queueVars
      <3>2. \A v \in Detectors \ {w} : wpc'[v] = wpc[v]
        BY <1>0, <2>2 DEF Wait, Goto, ThreadTypes
      <3>3. wpc'[w] \in {"doze", "asleep"} \/ (wpc'[w] = "leave" /\ (failed \/ Exhausted))
        BY <1>0, <2>2 DEF Wait, Goto, ThreadTypes
      <3>4. Exhausted => producerDone /\ NonePending
        BY <1>0, NoneWhenCounted DEF Exhausted
      <3>5. ThreadEnd(w)'
        BY <1>1, <3>1, <3>3, <3>4 DEF ThreadEnd, NonePending
      <3> QED BY <1>0, <1>1, <3>1, <3>2, <3>5, ThreadEndFrame
    <2>3. CASE Process(w) \/ Release(w) \/ ReleaseNotify(w)
      <3>1. ready' = ready
        BY <2>3 DEF Process, Release, ReleaseNotify, queueVars
      <3>2. \A v \in Detectors : wpc'[v] = wpc[v] \/ wpc'[v] \in {"check", "release", "notify"}
        BY <1>0, <2>3 DEF Process, Release, ReleaseNotify, Goto, Woken, ThreadTypes
      <3> QED BY <1>0, <1>1, <3>1, <3>2, ThreadEndFrame
    <2>4. CASE ProcessThrows(w)
      <3>1. ready' = ready
        BY <2>4 DEF ProcessThrows, queueVars
      <3>2. \A v \in Detectors \ {w} : wpc'[v] = wpc[v] \/ wpc'[v] = "check"
        BY <1>0, <2>4 DEF ProcessThrows, Goto, Woken, ThreadTypes
      <3>3. wpc'[w] = "release" \/ (wpc'[w] \in {"fail_notify", "abandon"} /\ failed')
        BY <1>0, <2>4 DEF ProcessThrows, Goto, Woken, ThreadTypes, ThreadEnd
      <3>4. ThreadEnd(w)'
        BY <3>3 DEF ThreadEnd
      <3> QED BY <1>0, <1>1, <3>1, <3>2, <3>4, ThreadEndFrame
    <2>5. CASE Leave(w)
      <3>1. ready' = ready /\ failed' = failed /\ wpc[w] = "leave"
        BY <2>5 DEF Leave, queueVars
      <3>2. \A v \in Detectors \ {w} : wpc'[v] = wpc[v]
        BY <1>0, <2>5 DEF Leave, Goto, ThreadTypes
      <3>3. wpc'[w] = (IF failed THEN "discarding" ELSE "exited")
        BY <1>0, <2>5 DEF Leave, Goto, ThreadTypes
      <3>4. ThreadEnd(w)'
        BY <1>0, <1>1, <3>1, <3>3 DEF ThreadEnd, NonePending
      <3> QED BY <1>0, <1>1, <3>1, <3>2, <3>4, ThreadEndFrame
    <2>6. CASE \E q \in Queues : DiscardJob(w, q)
      <3>1. PICK q \in Queues : DiscardJob(w, q)
        BY <2>6
      <3>2. wpc' = wpc /\ ready[q] # <<>> /\ wpc[w] = "discarding" /\ failed' = failed
        BY <3>1 DEF DiscardJob, threadVars
      <3>3. failed /\ \A v \in Detectors : wpc[v] # "exited"
        BY <1>0, <3>2 DEF ThreadEnd, NonePending
      <3> QED BY <1>0, <3>2, <3>3 DEF ThreadEnd
    <2>7. CASE DiscardDone(w)
      <3>1. /\ ready' = ready /\ failed' = failed /\ wpc[w] = "discarding" /\ NonePending
            /\ wpc' = [wpc EXCEPT ![w] = "exited"]
        BY <2>7 DEF DiscardDone, queueVars, NonePending, Goto
      <3>2. failed
        BY <1>0, <3>1 DEF ThreadEnd
      <3>3. ThreadEnd(w)'
        BY <1>0, <3>1, <3>2 DEF ThreadEnd, NonePending, ThreadTypes
      <3>4. \A v \in Detectors \ {w} : wpc'[v] = wpc[v]
        BY <1>0, <3>1 DEF ThreadTypes
      <3> QED BY <1>0, <1>1, <3>1, <3>3, <3>4, ThreadEndFrame
    <2> QED BY <2>1, <2>2, <2>3, <2>4, <2>5, <2>6, <2>7 DEF Detector
  <1>4. ~failed' => \A b \in Bands : abandoned'[b] = 0
    <2>1. failed' \/ abandoned' = abandoned
      BY <1>0, <1>1 DEF Detector, Claim, Wait, Process, ProcessThrows, Release, ReleaseNotify,
         Leave, DiscardJob, DiscardDone, ThreadEnd
    <2> QED BY <2>1, <1>1 DEF EndInv
  <1> QED BY <1>2, <1>3, <1>4 DEF EndInv

LEMMA EndStep == PoolInv /\ EndInv /\ [Next]_vars => EndInv'
  <1> SUFFICES ASSUME PoolInv, EndInv, [Next]_vars PROVE EndInv'
    OBVIOUS
  <1>1. CASE UNCHANGED vars
    BY <1>1 DEF vars, prodVars, queueVars, threadVars, tally, EndInv, ProducerEnd, Flushed,
                ThreadEnd, NonePending
  <1> QED BY <1>1, ProducerKeepsEnd, DetectorKeepsEnd DEF Next, Terminated

\* finish() returns from a pool in which nothing is left: with every thread joined,
\* no sample is staged, no job is pending, no slot is occupied and no band is busy,
\* and unless the worker failed none was given up.
JoinedDrained == Detectors # {} /\ Joined => Drained

\* The threads finish() joins leave nothing in the pool (JoinedDrained).
THEOREM JoinLeavesNothing == Spec => []JoinedDrained
  <1>1. PoolInv /\ EndInv => JoinedDrained
    <2> SUFFICES ASSUME PoolInv, EndInv, Detectors # {}, Joined PROVE Drained
      BY DEF JoinedDrained
    <2>0. QueueTypes /\ SlotAccounting /\ OneJobPerBand /\ ProducerEnd
          /\ \A w \in Detectors : ThreadEnd(w)
      BY DEF PoolInv, TypeInv, EndInv
    <2>1. NonePending
      BY <2>0 DEF Joined, ThreadEnd
    <2>2. Active = {}
      BY DEF Joined, Active, Holding, Unsettled
    <2>3. \A q \in Queues : ready[q] = <<>> /\ ToSet(ready[q]) = {} /\ HeldIn(q) = {}
      <3>1. ToSet(<<>>) = {}
        BY DEF ToSet
      <3> QED BY <3>1, <2>1, <2>2 DEF NonePending, HeldIn
    <2>4. busy = {}
      BY <2>0, <2>2 DEF OneJobPerBand
    <2>5. \A q \in Queues : occupied[q] = {}
      BY <2>0, <2>3 DEF SlotAccounting
    <2>6. pendingJobs = 0
      <3>1. PendingSlots = {}
        BY <2>3 DEF PendingSlots
      <3> QED BY <3>1, <2>0, FS_EmptySet DEF SlotAccounting
    <2>7. \A b \in Bands : staging[b].count = 0 /\ (~failed => abandoned[b] = 0)
      BY <2>0 DEF Joined, ProducerEnd, EndInv
    <2> QED BY <2>3, <2>4, <2>5, <2>6, <2>7 DEF Drained
  <1>2. Init => EndInv
    BY EndInit
  <1> QED BY <1>1, <1>2, EndStep, PoolAlways, PTL DEF Spec

-----------------------------------------------------------------------------
(* Conservation is an invariant.                                           *)

LEMMA CountTypes ==
    ASSUME PoolInv, NEW b \in Bands
    PROVE  /\ staging[b].count \in Nat /\ processed[b] \in Nat /\ abandoned[b] \in Nat
           /\ emitted[b] \in Nat /\ PendingOf(b) \in Nat /\ HeldOf(b) \in Nat
  <1>1. QueueTypes /\ ThreadTypes /\ OneJobPerBand
    BY DEF PoolInv, TypeInv
  <1>2. staging[b].count \in Nat /\ processed[b] \in Nat /\ abandoned[b] \in Nat
        /\ emitted[b] \in Nat
    BY DEF PoolInv, TypeInv, TallyTypes, ProducerInv, ProducerTypes
  <1> QED BY <1>1, <1>2, PendingType, HeldType

LEMMA BalanceFrame ==
    ASSUME NEW b \in Bands, Balance(b), emitted'[b] = emitted[b],
           staging'[b].count = staging[b].count, PendingOf(b)' = PendingOf(b),
           HeldOf(b)' = HeldOf(b), processed'[b] = processed[b],
           abandoned'[b] = abandoned[b]
    PROVE  Balance(b)'
  BY DEF Balance

\* No thread takes or settles a job, and no pending or held job changes.
LEMMA HoldingSame ==
    ASSUME OneJobPerBand, UNCHANGED <<jobs, ready, held>>,
           \A w \in Detectors : wpc'[w] \in Unsettled <=> wpc[w] \in Unsettled,
           NEW b \in Bands
    PROVE  PendingOf(b)' = PendingOf(b) /\ HeldOf(b)' = HeldOf(b)
  <1>1. \A w : Job(w)' = Job(w)
    BY DEF Job
  <1>2. Holders(b)' = Holders(b)
    BY <1>1 DEF Holders, Unsettled
  <1>3. HeldOf(b)' = HeldOf(b)
    BY <1>1, <1>2, HeldSame
  <1>4. Queued(QueueOf(b))' = Queued(QueueOf(b))
    BY DEF Queued, QueueOf
  <1> QED BY <1>3, <1>4, PendingSame

\* The producer stages what the channelizer emits, and gives up what is staged.
LEMMA ProducerBalance ==
    ASSUME PoolInv, EndInv, Input \/ Producer, ~Enqueue, NEW b \in Bands, Balance(b)
    PROVE  Balance(b)'
  <1>0. OneJobPerBand /\ Flushed
    BY DEF PoolInv, EndInv
  <1>1. UNCHANGED <<queueVars, held>> /\ wpc' \in {wpc, Woken}
    BY DEF Input, Producer, TakeBlock, EndOfInput, SeeFailure, FlushStaging, NewSegment,
           ResetBand, Feed, FeedThrows, AppendBand, AppendDone, SpaceSleep, Announce,
           ProducerFail, EndFlushDone, DiscardStaging, ProducerDone, ProducerNotify,
           NotifyAvailable, PoolUnchanged, threadVars
  <1>2. \A w \in Detectors : wpc'[w] \in Unsettled <=> wpc[w] \in Unsettled
    BY <1>1 DEF Woken, Unsettled
  <1>3. UNCHANGED <<jobs, ready, held>>
    BY <1>1 DEF queueVars
  <1>4. PendingOf(b)' = PendingOf(b) /\ HeldOf(b)' = HeldOf(b)
    BY <1>0, <1>2, <1>3, HoldingSame
  <1>5. /\ staging[b].count \in Nat /\ processed[b] \in Nat /\ abandoned[b] \in Nat
        /\ emitted[b] \in Nat /\ PendingOf(b) \in Nat /\ HeldOf(b) \in Nat
    BY CountTypes
  <1>6. /\ staging \in [Bands -> [count : Nat, next : Nat]] /\ emitted \in [Bands -> Nat]
        /\ abandoned \in [Bands -> Nat] /\ left \in Nat /\ band \in 0 .. BandCount
        /\ StagingBound
    BY DEF PoolInv, TypeInv, TallyTypes, ProducerInv, ProducerTypes
  <1>7. CASE AppendBand
    <2>1. PICK n : n = SmallerOf(left, Batch - staging[band].count)
      OBVIOUS
    <2>2. /\ staging' = [staging EXCEPT ![band].count = @ + n] /\ band \in Bands
          /\ emitted' = [emitted EXCEPT ![band] = @ + n]
          /\ UNCHANGED <<processed, abandoned>>
      BY <1>6, <1>7, <2>1, BandFacts DEF AppendBand
    <2>3. n \in Nat
      BY <1>6, <2>1, <2>2 DEF SmallerOf, StagingBound
    <2>4. CASE b = band
      <3>1. staging'[b].count = staging[b].count + n /\ emitted'[b] = emitted[b] + n
        BY <1>6, <2>2, <2>4
      <3> QED BY <1>4, <1>5, <2>2, <2>3, <3>1 DEF Balance
    <2>5. CASE b # band
      <3>1. staging'[b] = staging[b] /\ emitted'[b] = emitted[b]
        BY <1>6, <2>2, <2>5
      <3> QED BY <1>4, <2>2, <3>1, BalanceFrame
    <2> QED BY <2>4, <2>5
  <1>8. CASE ResetBand
    <2>1. /\ staging' = [staging EXCEPT ![band] = EmptyStaging] /\ UNCHANGED tally
          /\ stage = "segment_reset"
      BY <1>8 DEF ResetBand
    <2>2. staging[b].count = 0
      BY <1>0, <2>1 DEF Flushed
    <2>3. staging'[b].count = 0
      BY <1>6, <2>1, <2>2 DEF EmptyStaging
    <2> QED BY <1>4, <2>1, <2>2, <2>3, BalanceFrame DEF tally
  <1>9. CASE DiscardStaging
    <2>1. staging'[b].count = 0 /\ abandoned'[b] = abandoned[b] + staging[b].count
          /\ UNCHANGED <<processed, emitted>>
      BY <1>6, <1>9 DEF DiscardStaging
    <2> QED BY <1>4, <1>5, <2>1 DEF Balance
  <1>10. CASE ~AppendBand /\ ~ResetBand /\ ~DiscardStaging
    <2>1. UNCHANGED <<staging, tally>>
      BY <1>10 DEF Input, Producer, TakeBlock, EndOfInput, SeeFailure, FlushStaging,
           NewSegment, Feed, FeedThrows, AppendDone, SpaceSleep, Announce,
           ProducerFail, EndFlushDone, ProducerDone, ProducerNotify
    <2>2. staging' = staging /\ processed' = processed /\ abandoned' = abandoned
          /\ emitted' = emitted
      BY <2>1 DEF tally
    <2> QED BY <1>4, <2>2, BalanceFrame
  <1> QED BY <1>7, <1>8, <1>9, <1>10

\* enqueue moves the staged samples of a band to its queue; a reset carries none.
LEMMA InsertBalance ==
    ASSUME PoolInv, NEW c \in Bands, c = band, NEW q \in Queues, q = QueueOf(c),
           NEW r \in BOOLEAN, NEW slot \in Slots, slot \notin occupied[q], Insert(q, slot, r),
           UNCHANGED <<wpc, held, tally>>, NEW b \in Bands, Balance(b)
    PROVE  Balance(b)'
  <1>1. PICK job : job = [reset |-> r, subband |-> c, segment |-> segment,
                          first |-> staging[c].next,
                          count |-> IF r THEN 0 ELSE staging[c].count]
    OBVIOUS
  <1>0. QueueTypes /\ ThreadTypes /\ SlotAccounting /\ OneJobPerBand
        /\ segment \in Nat /\ staging \in [Bands -> [count : Nat, next : Nat]]
    BY DEF PoolInv, TypeInv, ProducerInv, ProducerTypes
  <1>2. job \in Jobs /\ job.subband = c /\ job.count = IF r THEN 0 ELSE staging[c].count
    BY <1>0, <1>1 DEF Jobs
  <1>3. /\ jobs' = [jobs EXCEPT ![q][slot] = job]
        /\ ready' = [ready EXCEPT ![q] = Append(ready[q], slot)]
        /\ r => staging' = staging
        /\ ~r => staging' = [staging EXCEPT ![c] =
                       [count |-> 0, next |-> staging[c].next + staging[c].count]]
    BY <1>1 DEF Insert
  <1>4. slot \notin ToSet(ready[q]) /\ slot \notin HeldIn(q)
    BY <1>0 DEF SlotAccounting
  <1>5. Queued(q)' = Append(Queued(q), job) /\ \A p \in Queues \ {q} : Queued(p)' = Queued(p)
    <2>1. job \in Jobs /\ slot \notin ToSet(ready[q])
      BY <1>2, <1>4
    <2> QED BY <2>1, <1>0, <1>3, QueuedInsert, Zenon
  <1>6. \A w \in Detectors : wpc[w] \in Unsettled => Job(w)' = Job(w)
    <2> SUFFICES ASSUME NEW w \in Detectors, wpc[w] \in Unsettled PROVE Job(w)' = Job(w)
      OBVIOUS
    <2>1. held[w] # [queue |-> q, slot |-> slot]
      BY <1>4 DEF HeldIn, Active, Holding
    <2> QED BY <2>1, <1>0, <1>3, HeldJob
  <1>7. HeldOf(b)' = HeldOf(b)
    <2>1. Holders(b)' = Holders(b) /\ \A w \in Holders(b) : Job(w)' = Job(w)
      BY <1>6 DEF Holders, Unsettled
    <2> QED BY <2>1, <1>0, HeldSame
  <1>8. PendingOf(b)' = PendingOf(b) + IF b = c THEN job.count ELSE 0
    <2>0. QueueOf(b) \in Queues /\ PendingOf(b) \in Nat
      BY BandFacts, CountTypes
    <2>1. CASE QueueOf(b) # q
      <3>1. PendingOf(b)' = PendingOf(b)
        BY <2>0, <2>1, <1>5, PendingSame
      <3> QED BY <2>0, <2>1, <3>1
    <2>2. CASE QueueOf(b) = q
      <3>1. PICK s \in Seq(Jobs) : s = Queued(q)
        BY <1>0, QueuedType
      <3>2. Total(Shares(Append(s, job), b)) = Total(Shares(s, b)) + Share(job, b)
        BY <1>2, SharesAppend
      <3>3. PendingOf(b)' = PendingOf(b) + Share(job, b)
        BY <2>2, <3>1, <3>2, <1>5, PendingIs
      <3> QED BY <3>3, <1>2 DEF Share
    <2> QED BY <2>1, <2>2
  <1>9. staging'[b].count = staging[b].count - IF b = c THEN job.count ELSE 0
    BY <1>0, <1>2, <1>3
  <1>10. (IF b = c THEN job.count ELSE 0) \in Nat
    BY <1>2 DEF Jobs
  <1>11. /\ staging[b].count \in Nat /\ processed[b] \in Nat /\ abandoned[b] \in Nat
         /\ PendingOf(b) \in Nat /\ HeldOf(b) \in Nat
    BY CountTypes
  <1> QED BY <1>7, <1>8, <1>9, <1>10, <1>11 DEF Balance, tally

LEMMA EnqueueBalance ==
    ASSUME PoolInv, Enqueue, NEW b \in Bands, Balance(b) PROVE Balance(b)'
  <1>0. band \in Bands /\ OneJobPerBand
    BY DEF PoolInv, TypeInv, ProducerInv, BandInRange, Enqueue
  <1>1. UNCHANGED <<wpc, held, tally>>
    BY DEF Enqueue, threadVars
  <1>2. CASE UNCHANGED <<staging, queueVars>>
    <2>1. PendingOf(b)' = PendingOf(b) /\ HeldOf(b)' = HeldOf(b)
      BY <1>0, <1>1, <1>2, HoldingSame DEF queueVars
    <2> QED BY <1>1, <1>2, <2>1, BalanceFrame DEF tally
  <1>3. CASE /\ Free(QueueOf(band)) # {}
             /\ Insert(QueueOf(band), LeastFree(QueueOf(band)), stage = "segment_reset")
    <2>1. LeastFree(QueueOf(band)) \in Slots \ occupied[QueueOf(band)]
      BY <1>3, FreeFacts
    <2>2. QueueOf(band) \in Queues /\ (stage = "segment_reset") \in BOOLEAN
      BY <1>0, BandFacts
    <2> QED BY <1>0, <1>1, <1>3, <2>1, <2>2, InsertBalance
  <1> QED BY <1>2, <1>3 DEF Enqueue, LeastFree

\* A claim takes a pending job of its band, of which no other was held.
LEMMA ClaimBalance ==
    ASSUME PoolInv, OrderInv, NEW w \in Detectors, Claim(w), NEW b \in Bands, Balance(b)
    PROVE  Balance(b)'
  <1>0. QueueTypes /\ ThreadTypes /\ SlotAccounting /\ OneJobPerBand
    BY DEF PoolInv, TypeInv
  <1>1. PICK q \in Queues : q = SelectedQueue
    BY <1>0, SelectionFacts DEF Claim
  <1>2. PICK at \in DOMAIN ready[q] : at = SelectedOffset(q) /\ at \in EligibleAt(q)
    BY <1>0, <1>1, SelectionFacts DEF Claim
  <1>3. PICK slot : slot = ready[q][at]
    OBVIOUS
  <1>4. PICK job : job = jobs[q][slot]
    OBVIOUS
  <1>5. /\ held' = [held EXCEPT ![w] = [queue |-> q, slot |-> slot]]
        /\ ready' = [ready EXCEPT ![q] = RemoveAt(ready[q], at)]
        /\ wpc[w] = "check" /\ wpc' = [wpc EXCEPT ![w] = "process"]
        /\ UNCHANGED <<jobs, staging, processed, abandoned, emitted>>
    BY <1>1, <1>2, <1>3 DEF Claim, Goto, ProducerUnchanged
  <1>6. PICK s \in Seq(Jobs) : s = Queued(q)
    BY <1>0, QueuedType
  <1>7. at \in DOMAIN s /\ s[at] = job
    BY <1>0, <1>3, <1>4, <1>6, QueuedType
  <1>8. job \in Jobs
    BY <1>7, ElementOfSeq, LenProperties
  <1>9. job.subband \in Bands /\ job.count \in Nat
    BY <1>8 DEF Jobs
  <1>10. QueueOf(job.subband) = q
    BY <1>6, <1>7 DEF OrderInv, QueuedRight
  <1>11. Queued(q)' = RemoveAt(s, at) /\ \A p \in Queues \ {q} : Queued(p)' = Queued(p)
    <2>1. UNCHANGED jobs
      BY <1>5
    <2>2. Queued(q)' = RemoveAt(Queued(q), at) /\ \A p \in Queues \ {q} : Queued(p)' = Queued(p)
      BY <2>1, <1>0, <1>5, QueuedClaim, Zenon
    <2> QED BY <2>2, <1>6
  <1>12. PICK t \in Seq(Jobs) : /\ t = RemoveAt(s, at) /\ Len(s) = Len(t) + 1
                                /\ \A i \in 1 .. Len(t) : t[i] = IF i < at THEN s[i] ELSE s[i + 1]
    <2>1. /\ RemoveAt(s, at) \in Seq(Jobs) /\ Len(RemoveAt(s, at)) = Len(s) - 1
          /\ \A j \in 1 .. Len(s) - 1 : RemoveAt(s, at)[j] = IF j < at THEN s[j] ELSE s[j + 1]
      BY <1>7, RemoveAtElements
    <2>2. Len(s) \in Nat
      BY LenProperties
    <2> QED BY <2>1, <2>2
  <1>13. QueueOf(b) \in Queues
    BY BandFacts
  <1>14. /\ staging[b].count \in Nat /\ processed[b] \in Nat /\ abandoned[b] \in Nat
         /\ PendingOf(b) \in Nat /\ HeldOf(b) \in Nat
    BY CountTypes
  <1>15. Job(w)' = job /\ wpc'[w] = "process"
         /\ \A v \in Detectors \ {w} : Job(v)' = Job(v) /\ wpc'[v] = wpc[v]
    BY <1>0, <1>4, <1>5 DEF Job, ThreadTypes
  <1>16. CASE b = job.subband
    <2>1. PendingOf(b) = job.count + PendingOf(b)'
      <3>1. Total(Shares(s, b)) = Share(s[at], b) + Total(Shares(t, b))
        BY <1>7, <1>12, SharesRemove
      <3>2. Share(s[at], b) = job.count
        BY <1>7, <1>16 DEF Share
      <3>3. PendingOf(b) = Total(Shares(s, b)) /\ PendingOf(b)' = Total(Shares(t, b))
        BY <1>6, <1>10, <1>11, <1>12, <1>16, PendingIs
      <3> QED BY <3>1, <3>2, <3>3
    <2>2. PendingOf(b)' \in Nat
      <3>1. Total(Shares(t, b)) \in Nat
        BY SharesType
      <3>2. PendingOf(b)' = Total(Shares(t, b))
        BY <1>10, <1>11, <1>12, <1>16, PendingIs
      <3> QED BY <3>1, <3>2
    <2>3. Holders(b) = {}
      <3>1. b \notin busy
        BY <1>2, <1>3, <1>4, <1>16 DEF EligibleAt
      <3>2. \A v \in Holders(b) : v \in Active /\ Job(v).subband = b
        BY DEF Holders, Active, Holding
      <3> QED BY <3>1, <3>2, <1>0 DEF OneJobPerBand
    <2>4. Holders(b)' = {w}
      <3>1. w \in Holders(b)'
        BY <1>15, <1>16 DEF Holders, Unsettled
      <3>2. \A v \in Detectors \ {w} : v \notin Holders(b)'
        BY <2>3, <1>15 DEF Holders
      <3>3. Holders(b)' \subseteq Detectors
        BY DEF Holders
      <3> QED BY <3>1, <3>2, <3>3
    <2>5. HeldOf(b) = 0 /\ HeldOf(b)' = job.count
      BY <2>3, <2>4, <1>15, HeldIs
    <2> QED BY <1>5, <1>9, <1>14, <2>1, <2>2, <2>5 DEF Balance
  <1>17. CASE b # job.subband
    <2>1. PendingOf(b)' = PendingOf(b)
      <3>1. CASE QueueOf(b) # q
        BY <3>1, <1>11, <1>13, PendingSame
      <3>2. CASE QueueOf(b) = q
        <4>1. Total(Shares(s, b)) = Share(s[at], b) + Total(Shares(t, b))
          BY <1>7, <1>12, SharesRemove
        <4>2. Share(s[at], b) = 0
          BY <1>7, <1>17 DEF Share
        <4>3. PendingOf(b) = Total(Shares(s, b)) /\ PendingOf(b)' = Total(Shares(t, b))
          BY <1>6, <1>11, <1>12, <3>2, PendingIs
        <4>4. Total(Shares(t, b)) \in Nat
          BY SharesType
        <4> QED BY <4>1, <4>2, <4>3, <4>4
      <3> QED BY <3>1, <3>2
    <2>2. Holders(b)' = Holders(b) /\ \A v \in Holders(b) : Job(v)' = Job(v)
      BY <1>5, <1>15, <1>17 DEF Holders, Unsettled
    <2>3. HeldOf(b)' = HeldOf(b)
      BY <2>2, <1>0, HeldSame
    <2> QED BY <1>5, <2>1, <2>3, BalanceFrame
  <1> QED BY <1>16, <1>17

\* A held job is settled once: processed, or abandoned by its owner.
LEMMA SettleBalance ==
    ASSUME PoolInv, NEW w \in Detectors, wpc[w] \in Unsettled,
           wpc' = [wpc EXCEPT ![w] = "release"], UNCHANGED <<jobs, ready, held, staging, emitted>>,
           NEW b \in Bands, Balance(b),
           \/ /\ processed' = [processed EXCEPT ![Job(w).subband] = @ + Job(w).count]
              /\ UNCHANGED abandoned
           \/ /\ abandoned' = [abandoned EXCEPT ![Job(w).subband] = @ + Job(w).count]
              /\ UNCHANGED processed
    PROVE  Balance(b)'
  <1>0. QueueTypes /\ ThreadTypes /\ OneJobPerBand
        /\ processed \in [Bands -> Nat] /\ abandoned \in [Bands -> Nat]
    BY DEF PoolInv, TypeInv, TallyTypes
  <1>1. PICK job \in Jobs : job = Job(w)
    BY <1>0, JobType
  <1>2. job.subband \in Bands /\ job.count \in Nat
    BY DEF Jobs
  <1>3. wpc'[w] = "release" /\ \A v \in Detectors \ {w} : wpc'[v] = wpc[v]
    BY <1>0 DEF ThreadTypes
  <1>4. \A v \in Detectors : Job(v)' = Job(v)
    BY DEF Job
  <1>5. PendingOf(b)' = PendingOf(b)
    <2>1. Queued(QueueOf(b))' = Queued(QueueOf(b))
      BY DEF Queued, QueueOf
    <2> QED BY <2>1, PendingSame
  <1>6. /\ staging[b].count \in Nat /\ processed[b] \in Nat /\ abandoned[b] \in Nat
        /\ PendingOf(b) \in Nat /\ HeldOf(b) \in Nat
    BY CountTypes
  <1>7. CASE b = job.subband
    <2>1. w \in Holders(b)
      BY <1>1, <1>7 DEF Holders
    <2>2. Holders(b) = {w}
      BY <2>1, <1>0, HoldersOne
    <2>3. HeldOf(b) = job.count
      BY <2>2, <1>1, HeldIs
    <2>4. Holders(b)' = {}
      <3>1. w \notin Holders(b)'
        BY <1>3 DEF Holders, Unsettled
      <3>2. \A v \in Detectors \ {w} : v \notin Holders(b)'
        BY <2>2, <1>3, <1>4 DEF Holders
      <3>3. Holders(b)' \subseteq Detectors
        BY DEF Holders
      <3> QED BY <3>1, <3>2, <3>3
    <2>5. HeldOf(b)' = 0
      BY <2>4, HeldIs
    <2>6. \/ processed'[b] = processed[b] + job.count /\ abandoned'[b] = abandoned[b]
          \/ abandoned'[b] = abandoned[b] + job.count /\ processed'[b] = processed[b]
      BY <1>0, <1>1, <1>7
    <2> QED BY <1>2, <1>5, <1>6, <2>3, <2>5, <2>6 DEF Balance
  <1>8. CASE b # job.subband
    <2>1. Holders(b)' = Holders(b)
      BY <1>1, <1>3, <1>4, <1>8 DEF Holders
    <2>2. HeldOf(b)' = HeldOf(b)
      BY <2>1, <1>0, <1>4, HeldSame DEF Holders
    <2>3. processed'[b] = processed[b] /\ abandoned'[b] = abandoned[b]
      BY <1>0, <1>1, <1>8
    <2> QED BY <1>5, <2>2, <2>3, BalanceFrame
  <1> QED BY <1>7, <1>8

\* A slot that is released is neither pending nor held any more.
LEMMA ReleaseBalance ==
    ASSUME PoolInv, NEW w \in Detectors, Release(w), NEW b \in Bands, Balance(b)
    PROVE  Balance(b)'
  <1>0. QueueTypes /\ ThreadTypes /\ SlotAccounting /\ OneJobPerBand
    BY DEF PoolInv, TypeInv
  <1>1. PICK q \in Queues, slot \in Slots : q = held[w].queue /\ slot = held[w].slot
    BY <1>0, JobType
  <1>2. /\ wpc[w] = "release" /\ wpc' = [wpc EXCEPT ![w] = "notify"]
        /\ jobs' = [jobs EXCEPT ![q][slot] = EmptyJob]
        /\ UNCHANGED <<ready, held, staging, processed, abandoned, emitted>>
    BY <1>1 DEF Release, Goto, ProducerUnchanged
  <1>3. w \in Active /\ slot \notin ToSet(ready[q])
    <2>1. w \in Active
      BY <1>2 DEF Active, Holding, Unsettled
    <2>2. slot \in HeldIn(q)
      BY <2>1, <1>1 DEF HeldIn
    <2> QED BY <2>1, <2>2, <1>0 DEF SlotAccounting
  <1>4. \A p \in Queues : Queued(p)' = Queued(p)
    <2>1. \A p \in Queues : \A i \in DOMAIN ready[p] :
             jobs'[p][ready[p][i]] = jobs[p][ready[p][i]]
      <3>1. jobs \in [Queues -> [Slots -> Jobs]]
        BY <1>0 DEF QueueTypes
      <3>2. \A i \in DOMAIN ready[q] : ready[q][i] # slot /\ ready[q][i] \in Slots
        BY <1>0, <1>3, QueuedType DEF ToSet
      <3> QED BY <3>1, <3>2, <1>2
    <2> QED BY <2>1, <1>2, QueuedFrame
  <1>5. \A v \in Detectors : wpc[v] \in Unsettled => Job(v)' = Job(v)
    <2> SUFFICES ASSUME NEW v \in Detectors, wpc[v] \in Unsettled PROVE Job(v)' = Job(v)
      OBVIOUS
    <2>1. v \in Active /\ v # w
      BY <1>2 DEF Active, Holding, Unsettled
    <2>2. held[w] = [queue |-> q, slot |-> slot]
      BY <1>0, <1>1 DEF ThreadTypes
    <2>3. held[v] # [queue |-> q, slot |-> slot]
      BY <2>1, <2>2, <1>0, <1>3 DEF SlotAccounting
    <2> QED BY <2>3, <1>0, <1>2, HeldJob
  <1>6. \A v \in Detectors : wpc'[v] \in Unsettled <=> wpc[v] \in Unsettled
    BY <1>0, <1>2 DEF ThreadTypes, Unsettled
  <1>7. HeldOf(b)' = HeldOf(b)
    <2>1. Holders(b)' = Holders(b)
      BY <1>5, <1>6 DEF Holders, Unsettled
    <2> QED BY <2>1, <1>0, <1>5, HeldSame DEF Holders
  <1>8. PendingOf(b)' = PendingOf(b)
    BY <1>4, BandFacts, PendingSame
  <1> QED BY <1>2, <1>7, <1>8, BalanceFrame

\* After a failure a pending job's samples are given up with it.
LEMMA DiscardBalance ==
    ASSUME PoolInv, OrderInv, NEW w \in Detectors, NEW q \in Queues, DiscardJob(w, q),
           NEW b \in Bands, Balance(b)
    PROVE  Balance(b)'
  <1>0. QueueTypes /\ ThreadTypes /\ SlotAccounting /\ OneJobPerBand
        /\ abandoned \in [Bands -> Nat]
    BY DEF PoolInv, TypeInv, TallyTypes
  <1>1. PICK slot : slot = Head(ready[q])
    OBVIOUS
  <1>2. PICK job : job = jobs[q][slot]
    OBVIOUS
  <1>3. /\ ready[q] # <<>>
        /\ jobs' = [jobs EXCEPT ![q][slot] = EmptyJob]
        /\ ready' = [ready EXCEPT ![q] = Tail(ready[q])]
        /\ abandoned' = [abandoned EXCEPT ![job.subband] = @ + job.count]
        /\ UNCHANGED <<wpc, held, staging, processed, emitted>>
    BY <1>1, <1>2 DEF DiscardJob, ProducerUnchanged, threadVars
  <1>4. /\ ready[q] \in Seq(Slots) /\ jobs \in [Queues -> [Slots -> Jobs]]
        /\ DOMAIN ready = Queues
        /\ \A i, j \in DOMAIN ready[q] : ready[q][i] = ready[q][j] => i = j
        /\ ToSet(ready[q]) \cap HeldIn(q) = {}
    BY <1>0 DEF QueueTypes, SlotAccounting
  <1>5. /\ slot \in Slots /\ slot = ready[q][1] /\ Len(ready[q]) \in Nat \ {0}
        /\ DOMAIN ready[q] = 1 .. Len(ready[q])
        /\ ready'[q] = Tail(ready[q]) /\ DOMAIN ready'[q] = 1 .. Len(ready[q]) - 1
        /\ \A i \in 1 .. Len(ready[q]) - 1 : ready'[q][i] = ready[q][i + 1]
    <2>1. /\ Head(ready[q]) \in Slots /\ Head(ready[q]) = ready[q][1]
          /\ Len(ready[q]) \in Nat \ {0} /\ DOMAIN ready[q] = 1 .. Len(ready[q])
      BY <1>3, <1>4, HeadTailProperties, LenProperties
    <2>2. /\ Tail(ready[q]) \in Seq(Slots) /\ Len(Tail(ready[q])) = Len(ready[q]) - 1
          /\ \A i \in 1 .. Len(Tail(ready[q])) : Tail(ready[q])[i] = ready[q][i + 1]
      BY <1>3, <1>4, HeadTailProperties
    <2>3. DOMAIN Tail(ready[q]) = 1 .. Len(ready[q]) - 1
      BY <2>2, LenProperties
    <2>4. ready'[q] = Tail(ready[q])
      BY <1>3, <1>4
    <2> QED BY <2>1, <2>2, <2>3, <2>4, <1>1
  <1>6. \A v \in Detectors : wpc[v] \in Unsettled => Job(v)' = Job(v)
    <2> SUFFICES ASSUME NEW v \in Detectors, wpc[v] \in Unsettled PROVE Job(v)' = Job(v)
      OBVIOUS
    <2>1. v \in Active
      BY DEF Active, Holding
    <2>2. slot \in ToSet(ready[q])
      BY <1>5 DEF ToSet
    <2>3. held[v] # [queue |-> q, slot |-> slot]
      BY <2>1, <2>2, <1>4 DEF HeldIn
    <2> QED BY <2>3, <1>0, <1>3, <1>5, HeldJob
  <1>7. HeldOf(b)' = HeldOf(b)
    <2>1. Holders(b)' = Holders(b)
      BY <1>3, <1>6 DEF Holders, Unsettled
    <2> QED BY <2>1, <1>0, <1>6, HeldSame DEF Holders
  <1>8. PICK s \in Seq(Jobs) : s = Queued(q) /\ Len(s) = Len(ready[q])
    BY <1>0, QueuedType
  <1>9. 1 \in DOMAIN s /\ s[1] = job /\ DOMAIN s = 1 .. Len(ready[q])
    <2>1. DOMAIN s = 1 .. Len(ready[q])
      BY <1>8, LenProperties
    <2>2. 1 \in DOMAIN s
      BY <1>5, <2>1
    <2>3. Queued(q)[1] = jobs[q][ready[q][1]]
      BY <2>2, <1>0, <1>8, QueuedType
    <2> QED BY <2>1, <2>2, <2>3, <1>2, <1>5, <1>8
  <1>10. job \in Jobs
    BY <1>9, ElementOfSeq, LenProperties
  <1>11. job.subband \in Bands /\ job.count \in Nat /\ QueueOf(job.subband) = q
    <2>1. job.subband \in Bands /\ job.count \in Nat
      BY <1>10 DEF Jobs
    <2>2. QueueOf(job.subband) = q
      BY <1>8, <1>9 DEF OrderInv, QueuedRight
    <2> QED BY <2>1, <2>2
  <1>12. ASSUME NEW i \in 1 .. Len(ready[q]) - 1
         PROVE  i + 1 \in 1 .. Len(ready[q]) /\ Queued(q)'[i] = s[i + 1]
    <2>1. i + 1 \in 1 .. Len(ready[q]) /\ i + 1 # 1 /\ 1 \in 1 .. Len(ready[q])
      BY <1>5
    <2>2. ready[q][i + 1] # slot /\ ready[q][i + 1] \in Slots
      BY <2>1, <1>4, <1>5, ElementOfSeq
    <2>3. jobs'[q][ready[q][i + 1]] = jobs[q][ready[q][i + 1]]
      BY <2>2, <1>3, <1>4
    <2> QED BY <2>1, <2>3, <1>5, <1>8 DEF Queued
  <1>13. PICK t \in Seq(Jobs) : /\ t = Queued(q)' /\ Len(s) = Len(t) + 1
                                /\ \A i \in 1 .. Len(t) : t[i] = s[i + 1]
    <2>0. Len(ready[q]) - 1 \in Nat
      BY <1>5
    <2>1. PICK n \in Nat : n = Len(ready[q]) - 1
      BY <2>0
    <2>2. DOMAIN Queued(q)' = 1 .. n /\ Queued(q)' = [i \in 1 .. n |-> Queued(q)'[i]]
      BY <1>5, <2>1 DEF Queued
    <2>3. \A i \in 1 .. n : s[i + 1] \in Jobs
      BY <1>8, <1>12, <2>1, ElementOfSeq
    <2>4. \A i \in 1 .. n : Queued(q)'[i] \in Jobs
      BY <1>12, <2>1, <2>3
    <2>5. Queued(q)' \in [1 .. n -> Jobs]
      BY <2>2, <2>4
    <2>6. Queued(q)' \in Seq(Jobs) /\ Len(Queued(q)') = n
      BY <2>5, IsASeq, LenProperties
    <2>7. n + 1 = Len(s)
      BY <1>5, <1>8, <2>1
    <2> QED BY <1>12, <2>1, <2>6, <2>7
  <1>14. Total(Shares(s, b)) = Share(job, b) + Total(Shares(t, b)) /\ Total(Shares(t, b)) \in Nat
    <2>1. \A i \in 1 .. Len(t) : ~ (i < 1)
      BY LenProperties
    <2>2. \A i \in 1 .. Len(t) : t[i] = IF i < 1 THEN s[i] ELSE s[i + 1]
      BY <1>13, <2>1
    <2>3. Total(Shares(s, b)) = Share(s[1], b) + Total(Shares(t, b))
      BY <1>9, <1>13, <2>2, SharesRemove
    <2>4. Total(Shares(t, b)) \in Nat
      BY SharesType
    <2> QED BY <1>9, <2>3, <2>4
  <1>15. \A p \in Queues \ {q} : Queued(p)' = Queued(p)
    BY <1>3, <1>4 DEF Queued
  <1>16. QueueOf(b) \in Queues
    BY BandFacts
  <1>17. /\ staging[b].count \in Nat /\ processed[b] \in Nat /\ abandoned[b] \in Nat
         /\ PendingOf(b) \in Nat /\ HeldOf(b) \in Nat
    BY CountTypes
  <1>18. CASE b = job.subband
    <2>1. PendingOf(b) = Total(Shares(s, b)) /\ PendingOf(b)' = Total(Shares(t, b))
      BY <1>8, <1>11, <1>13, <1>18, PendingIs
    <2>2. PendingOf(b) = job.count + PendingOf(b)' /\ PendingOf(b)' \in Nat
      BY <1>14, <1>18, <2>1 DEF Share
    <2>3. abandoned'[b] = abandoned[b] + job.count
      BY <1>0, <1>3, <1>18
    <2>4. emitted'[b] = emitted[b] /\ staging'[b].count = staging[b].count
          /\ processed'[b] = processed[b]
      BY <1>3
    <2>5. \A u, p, n, h, d, a \in Nat :
             u + (n + p) + h + d + a = u + p + h + d + (a + n)
      OBVIOUS
    <2>6. emitted[b] = staging[b].count + PendingOf(b) + HeldOf(b) + processed[b] + abandoned[b]
      BY DEF Balance
    <2>7. emitted[b] = staging[b].count + PendingOf(b)' + HeldOf(b) + processed[b]
                         + (abandoned[b] + job.count)
      <3>1. PICK n \in Nat, p \in Nat : n = job.count /\ p = PendingOf(b)'
        BY <1>11, <2>2
      <3>2. PICK u \in Nat, h \in Nat, d \in Nat, a \in Nat :
               u = staging[b].count /\ h = HeldOf(b) /\ d = processed[b] /\ a = abandoned[b]
        BY <1>17
      <3>3. emitted[b] = u + (n + p) + h + d + a
        BY <2>2, <2>6, <3>1, <3>2
      <3>4. u + (n + p) + h + d + a = u + p + h + d + (a + n)
        BY <2>5
      <3> QED BY <3>1, <3>2, <3>3, <3>4
    <2> QED BY <1>7, <2>3, <2>4, <2>7 DEF Balance
  <1>19. CASE b # job.subband
    <2>1. PendingOf(b)' = PendingOf(b)
      <3>1. CASE QueueOf(b) # q
        BY <3>1, <1>15, <1>16, PendingSame
      <3>2. CASE QueueOf(b) = q
        <4>1. PendingOf(b) = Total(Shares(s, b)) /\ PendingOf(b)' = Total(Shares(t, b))
          BY <1>8, <1>13, <3>2, PendingIs
        <4>2. Share(job, b) = 0
          BY <1>19 DEF Share
        <4> QED BY <1>14, <4>1, <4>2
      <3> QED BY <3>1, <3>2
    <2>2. abandoned'[b] = abandoned[b]
      BY <1>0, <1>3, <1>11, <1>19
    <2> QED BY <1>3, <1>7, <2>1, <2>2, BalanceFrame
  <1> QED BY <1>18, <1>19

LEMMA DetectorBalance ==
    ASSUME PoolInv, OrderInv, NEW w \in Detectors, Detector(w), NEW b \in Bands, Balance(b)
    PROVE  Balance(b)'
  <1>0. OneJobPerBand /\ ThreadTypes
    BY DEF PoolInv, TypeInv
  <1>1. CASE Claim(w)
    BY <1>1, ClaimBalance
  <1>2. CASE Process(w)
    <2>1. /\ wpc[w] \in Unsettled /\ wpc' = [wpc EXCEPT ![w] = "release"]
          /\ UNCHANGED <<jobs, ready, held, staging, emitted, abandoned>>
          /\ processed' = [processed EXCEPT ![Job(w).subband] = @ + Job(w).count]
      BY <1>2 DEF Process, Goto, Unsettled, queueVars, ProducerUnchanged
    <2> QED BY <2>1, SettleBalance
  <1>3. CASE ProcessThrows(w) /\ wpc[w] = "abandon"
    <2>1. /\ wpc[w] \in Unsettled /\ wpc' = [wpc EXCEPT ![w] = "release"]
          /\ UNCHANGED <<jobs, ready, held, staging, emitted, processed>>
          /\ abandoned' = [abandoned EXCEPT ![Job(w).subband] = @ + Job(w).count]
      BY <1>3 DEF ProcessThrows, Goto, Unsettled, queueVars, ProducerUnchanged
    <2> QED BY <2>1, SettleBalance
  <1>4. CASE Release(w)
    BY <1>4, ReleaseBalance
  <1>5. ASSUME NEW q \in Queues, DiscardJob(w, q) PROVE Balance(b)'
    BY <1>5, DiscardBalance
  <1>6. CASE \/ Wait(w) \/ ReleaseNotify(w) \/ Leave(w) \/ DiscardDone(w)
             \/ (ProcessThrows(w) /\ wpc[w] # "abandon")
    <2>1. UNCHANGED <<jobs, ready, held, staging, emitted, processed, abandoned>>
      BY <1>6 DEF Wait, ReleaseNotify, Leave, DiscardDone, ProcessThrows, queueVars,
                  ProducerUnchanged
    <2>2. \A v \in Detectors : wpc'[v] \in Unsettled <=> wpc[v] \in Unsettled
      <3> USE <1>0 DEF Goto, Woken, ThreadTypes, Unsettled
      <3>1. CASE Wait(w)
        BY <3>1 DEF Wait
      <3>2. CASE ReleaseNotify(w)
        BY <3>2 DEF ReleaseNotify
      <3>3. CASE Leave(w)
        BY <3>3 DEF Leave
      <3>4. CASE DiscardDone(w)
        BY <3>4 DEF DiscardDone
      <3>5. CASE ProcessThrows(w) /\ wpc[w] # "abandon"
        BY <3>5 DEF ProcessThrows
      <3> QED BY <1>6, <3>1, <3>2, <3>3, <3>4, <3>5
    <2>3. PendingOf(b)' = PendingOf(b) /\ HeldOf(b)' = HeldOf(b)
      BY <1>0, <2>1, <2>2, HoldingSame
    <2> QED BY <2>1, <2>3, BalanceFrame
  <1> QED BY <1>1, <1>2, <1>3, <1>4, <1>5, <1>6 DEF Detector

LEMMA ConservationStep ==
    PoolInv /\ OrderInv /\ EndInv /\ OutputConserved /\ [Next]_vars => OutputConserved'
  <1> SUFFICES ASSUME PoolInv, OrderInv, EndInv, OutputConserved, [Next]_vars
               PROVE  OutputConserved'
    OBVIOUS
  <1> SUFFICES ASSUME NEW b \in Bands PROVE Balance(b)'
    BY BalanceAll
  <1>0. Balance(b)
    BY BalanceAll
  <1>1. CASE Enqueue
    BY <1>0, <1>1, EnqueueBalance
  <1>2. CASE (Input \/ Producer) /\ ~Enqueue
    BY <1>0, <1>2, ProducerBalance
  <1>3. CASE \E w \in Detectors : Detector(w)
    BY <1>0, <1>3, DetectorBalance
  <1>4. CASE UNCHANGED vars
    <2>1. UNCHANGED <<jobs, ready, held, wpc, staging, emitted, processed, abandoned>>
      BY <1>4 DEF vars, prodVars, queueVars, threadVars, tally
    <2>2. OneJobPerBand
      BY DEF PoolInv
    <2>3. PendingOf(b)' = PendingOf(b) /\ HeldOf(b)' = HeldOf(b)
      BY <2>1, <2>2, HoldingSame
    <2> QED BY <1>0, <2>1, <2>3, BalanceFrame
  <1> QED BY <1>1, <1>2, <1>3, <1>4 DEF Next, Terminated

LEMMA ConservationInit == Init => OutputConserved
  <1> SUFFICES ASSUME Init, NEW b \in Bands PROVE Balance(b)
    BY BalanceAll
  <1>1. staging[b].count = 0 /\ processed[b] = 0 /\ abandoned[b] = 0 /\ emitted[b] = 0
    BY DEF Init, EmptyStaging
  <1>2. PendingOf(b) = 0
    <2>1. Queued(QueueOf(b)) \in Seq(Jobs) /\ Len(Queued(QueueOf(b))) = 0
      <3>1. TypeInv /\ QueueOf(b) \in Queues
        BY InitTypeInv, BandFacts
      <3>2. ready[QueueOf(b)] = <<>>
        BY <3>1 DEF Init
      <3>3. Len(ready[QueueOf(b)]) = 0
        BY <3>2, EmptySeq
      <3> QED BY <3>1, <3>3, QueuedType DEF TypeInv
    <2>2. PICK s \in Seq(Jobs) : s = Queued(QueueOf(b))
      BY <2>1
    <2>3. Shares(s, b) \in Seq(Nat) /\ Len(Shares(s, b)) = 0
      BY <2>1, <2>2, SharesType
    <2>4. Total(Shares(s, b)) = 0
      BY <2>3, TotalOfNothing
    <2> QED BY <2>2, <2>4, PendingIs
  <1>3. HeldOf(b) = 0
    <2>1. Holders(b) = {}
      BY DEF Init, Holders, Unsettled
    <2> QED BY <2>1, HeldIs
  <1> QED BY <1>1, <1>2, <1>3 DEF Balance

\* No sample is lost or counted twice on its way through the pool: what the
\* channelizer emitted for a band is staged, pending, held by one thread, processed
\* or abandoned.
THEOREM OutputsAccounted == Spec => []OutputConserved
  <1>1. Init => OrderInv /\ EndInv /\ OutputConserved
    BY OrderInit, EndInit, ConservationInit
  <1> QED BY <1>1, OrderStep, EndStep, ConservationStep, PoolAlways, PTL DEF Spec

\* The processed counters of a worker that did not fail are right when finish()
\* has joined its threads: every output of the channelizer was processed.
JoinedProcessed ==
    Detectors # {} /\ Joined /\ ~failed => \A b \in Bands : processed[b] = emitted[b]

\* A worker that did not fail has processed what it emitted (JoinedProcessed).
THEOREM JoinProcessedAll == Spec => []JoinedProcessed
  <1>1. PoolInv /\ JoinedDrained /\ OutputConserved => JoinedProcessed
    <2> SUFFICES ASSUME PoolInv, JoinedDrained, OutputConserved, Detectors # {}, Joined, ~failed,
                        NEW b \in Bands
                 PROVE  processed[b] = emitted[b]
      BY DEF JoinedProcessed
    <2>1. Drained
      BY DEF JoinedDrained
    <2>2. staging[b].count = 0 /\ abandoned[b] = 0
      BY <2>1 DEF Drained
    <2>3. PendingOf(b) = 0
      <3>1. QueueTypes /\ QueueOf(b) \in Queues
        BY BandFacts DEF PoolInv, TypeInv
      <3>2. Len(ready[QueueOf(b)]) = 0
        BY <2>1, <3>1, EmptySeq DEF Drained
      <3>3. PICK s \in Seq(Jobs) : s = Queued(QueueOf(b)) /\ Len(s) = 0
        BY <3>1, <3>2, QueuedType
      <3>4. Shares(s, b) \in Seq(Nat) /\ Len(Shares(s, b)) = 0
        BY <3>3, SharesType
      <3>5. Total(Shares(s, b)) = 0
        BY <3>4, TotalOfNothing
      <3> QED BY <3>3, <3>5, PendingIs
    <2>4. HeldOf(b) = 0
      <3>1. Holders(b) = {}
        BY DEF Joined, Holders, Unsettled
      <3> QED BY <3>1, HeldIs
    <2>5. Balance(b) /\ processed[b] \in Nat
      BY BalanceAll, CountTypes
    <2> QED BY <2>2, <2>3, <2>4, <2>5 DEF Balance
  <1> QED BY <1>1, PoolAlways, JoinLeavesNothing, OutputsAccounted, PTL
=============================================================================
