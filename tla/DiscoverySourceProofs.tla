------------------------ MODULE DiscoverySourceProofs ------------------------
(***************************************************************************)
(* Proofs about DiscoverySource for every capacity and block size: nothing *)
(* accepted is lost between submit() and the channelizer, everything not   *)
(* accepted is in the gap ledger, and the channelizer never filters across *)
(* a hole.                                                                 *)
(***************************************************************************)
EXTENDS DiscoverySource, FifoLemmas

-----------------------------------------------------------------------------
(* The inductive invariant.                                                *)

Span(b) == b.first .. b.first + b.count - 1

\* A block on its way holds at least one sample and ends where the next submission
\* is expected; queued blocks were heard; the producer's block is the head.
BlockInv ==
    /\ cpc = "lock" => /\ submittedBefore /\ call.count # 0
                       /\ call.first + call.count = expectedSubmission
    /\ \A i \in DOMAIN sources : sources[i].count # 0 /\ Span(sources[i]) \subseteq heard
    /\ ppc \in {"block", "pop"} => sources # <<>>

\* Before the first submission nothing has been counted.
FreshInv == ~submittedBefore => /\ view.accepted = 0 /\ view.sourceGap = 0
                                /\ expectedSubmission = 0

\* The coordinate up to which every submission has been settled.
Settled == IF cpc = "lock" THEN call.first ELSE expectedSubmission

\* Source time x is reported lost for this reason, in the ledger or by a gap the
\* caller has taken.
Reports(gs, x, reason) ==
    \E g \in gs : /\ g.subband = "all" /\ g.reason = reason
                  /\ g.first <= x /\ x < g.end
Reported(x, reason) == Reports(ToSet(gaps) \cup taken, x, reason)
LossReasons == {"source_queue_full", "input_discontinuity", "input_too_large"}
Complete == submittedBefore /\ view.afterClose = 0 /\ view.gapOverflows = 0

LossInv ==
    /\ \A g \in ToSet(gaps) : g.first < g.end
    /\ \A x \in heard : x < Settled
    /\ \A x \in Nat, r \in LossReasons : Reported(x, r) => x < Settled /\ x \notin heard
    /\ Complete => \A x \in Nat : origin <= x /\ x < Settled /\ x \notin heard =>
                     \E r \in LossReasons \cup {"processing_failure"} : Reported(x, r)

SourceInv == /\ TypeOK /\ BlockInv /\ SegmentsAreGapless
             /\ FreshInv /\ InputConserved /\ LossInv

USE SourceAssumption

-----------------------------------------------------------------------------
(* The samples in the queue.                                               *)

LEMMA CountsOf ==
    ASSUME NEW s \in Seq(Blocks)
    PROVE  /\ [i \in DOMAIN s |-> s[i].count] \in Seq(Nat)
           /\ Len([i \in DOMAIN s |-> s[i].count]) = Len(s)
           /\ \A i \in 1 .. Len(s) : [j \in DOMAIN s |-> s[j].count][i] = s[i].count
  <1>1. Len(s) \in Nat /\ DOMAIN s = 1 .. Len(s) /\ \A i \in 1 .. Len(s) : s[i] \in Blocks
    BY ElementOfSeq
  <1>2. \A i \in 1 .. Len(s) : s[i].count \in Nat
    BY <1>1 DEF Blocks
  <1> DEFINE c == [i \in 1 .. Len(s) |-> s[i].count]
  <1>3. c \in Seq(Nat) /\ Len(c) = Len(s)
    BY <1>1, <1>2
  <1> QED BY <1>1, <1>3

\* What a block brings to the queue and takes from it.
LEMMA QueuedGrows ==
    ASSUME sources \in Seq(Blocks), NEW b \in Blocks, sources' = Append(sources, b)
    PROVE  Queued' = Queued + b.count /\ Queued \in Nat
  <1>1. sources' \in Seq(Blocks) /\ Len(sources') = Len(sources) + 1 /\ Len(sources) \in Nat
        /\ (\A i \in 1 .. Len(sources) : sources'[i] = sources[i])
        /\ sources'[Len(sources')] = b
    BY AppendProperties
  <1> DEFINE c == [i \in DOMAIN sources |-> sources[i].count]
             d == [i \in DOMAIN sources' |-> sources'[i].count]
  <1>2. /\ c \in Seq(Nat) /\ Len(c) = Len(sources)
        /\ \A i \in 1 .. Len(sources) : c[i] = sources[i].count
    BY CountsOf
  <1>3. /\ d \in Seq(Nat) /\ Len(d) = Len(sources')
        /\ \A i \in 1 .. Len(sources') : d[i] = sources'[i].count
    BY <1>1, CountsOf
  <1>4. Queued = Total(c) /\ Queued' = Total(d)
    BY DEF Queued
  <1> HIDE DEF c, d
  <1>5. Len(d) = Len(c) + 1 /\ (\A i \in 1 .. Len(c) : d[i] = c[i]) /\ d[Len(d)] = b.count
    <2>1. Len(sources') \in 1 .. Len(sources')
      BY <1>1
    <2>2. ASSUME NEW i \in 1 .. Len(c) PROVE d[i] = c[i]
      <3>1. i \in 1 .. Len(sources) /\ i \in 1 .. Len(sources')
        BY <1>1, <1>2
      <3>2. d[i] = sources'[i].count /\ c[i] = sources[i].count /\ sources'[i] = sources[i]
        BY <1>1, <1>2, <1>3, <3>1
      <3> QED BY <3>2
    <2>3. d[Len(d)] = sources'[Len(sources')].count
      BY <1>3, <2>1
    <2> QED BY <1>1, <1>2, <1>3, <2>2, <2>3
  <1>6. Total(d) = Total(c) + d[Len(d)] /\ Total(c) \in Nat
    BY <1>2, <1>3, <1>5, TotalExtended
  <1> QED BY <1>4, <1>5, <1>6

LEMMA QueuedShrinks ==
    ASSUME sources \in Seq(Blocks), sources # <<>>, sources' = Tail(sources)
    PROVE  /\ Queued = Head(sources).count + Queued' /\ Head(sources) \in Blocks
           /\ Head(sources) = sources[1] /\ 1 \in DOMAIN sources /\ Len(sources') < Len(sources)
           /\ sources' \in Seq(Blocks)
           /\ \A i \in DOMAIN sources' : i + 1 \in DOMAIN sources /\ sources'[i] = sources[i + 1]
  <1>1. /\ sources' \in Seq(Blocks) /\ Len(sources) = Len(sources') + 1 /\ Len(sources') \in Nat
        /\ \A i \in 1 .. Len(sources') : sources'[i] = sources[i + 1]
        /\ Head(sources) = sources[1] /\ Head(sources) \in Blocks
    BY HeadTailProperties
  <1> DEFINE c == [i \in DOMAIN sources |-> sources[i].count]
             d == [i \in DOMAIN sources' |-> sources'[i].count]
  <1>2. /\ c \in Seq(Nat) /\ Len(c) = Len(sources)
        /\ \A i \in 1 .. Len(sources) : c[i] = sources[i].count
    BY CountsOf
  <1>3. /\ d \in Seq(Nat) /\ Len(d) = Len(sources')
        /\ \A i \in 1 .. Len(sources') : d[i] = sources'[i].count
    BY <1>1, CountsOf
  <1>4. Queued = Total(c) /\ Queued' = Total(d)
    BY DEF Queued
  <1> HIDE DEF c, d
  <1>5. Len(c) = Len(d) + 1 /\ c[1] = Head(sources).count
    BY <1>1, <1>2, <1>3
  <1>6. ASSUME NEW i \in 1 .. Len(d) PROVE d[i] = c[i + 1]
    <2>1. i \in 1 .. Len(sources') /\ i + 1 \in 1 .. Len(sources)
      BY <1>1, <1>3
    <2>2. d[i] = sources'[i].count /\ c[i + 1] = sources[i + 1].count /\ sources'[i] = sources[i + 1]
      BY <1>1, <1>2, <1>3, <2>1
    <2> QED BY <2>2
  <1>7. Total(c) = c[1] + Total(d)
    BY <1>2, <1>3, <1>5, <1>6, TotalShortened
  <1> QED BY <1>1, <1>4, <1>5, <1>7

-----------------------------------------------------------------------------
(* The ledger.                                                             *)

\* gap_locked counts an interval of source time once and makes exactly that
\* interval reported, whether it appends a gap or extends the newest; only an
\* overflow, which is counted, leaves it out.
LedgerOf(v, queue) ==
    /\ v \in [Counters -> Nat] /\ queue \in Seq(Gaps) /\ Len(queue) <= GapCapacity
    /\ \A g \in ToSet(queue) : g.first < g.end
Flow == {"accepted", "channelized", "abandoned", "afterClose"}
Adds(v, queue, first, end, reason, lost, w, longer) ==
    /\ LedgerOf(w, longer)
    /\ w.sourceGap = v.sourceGap + lost
    /\ \A c \in Flow : w[c] = v[c]
    /\ w.gapOverflows >= v.gapOverflows
    /\ \A x \in Nat, r \in Reasons :
         /\ Reports(ToSet(queue), x, r) => Reports(ToSet(longer), x, r)
         /\ Reports(ToSet(longer), x, r) =>
              Reports(ToSet(queue), x, r) \/ (r = reason /\ first <= x /\ x < end)
    /\ w.gapOverflows = v.gapOverflows =>
         \A x \in Nat : first <= x /\ x < end => Reports(ToSet(longer), x, reason)

LEMMA CountersNamed ==
    /\ "accepted" \in Counters /\ "channelized" \in Counters /\ "abandoned" \in Counters
    /\ "rejected" \in Counters /\ "queueDrops" \in Counters /\ "invalid" \in Counters
    /\ "afterClose" \in Counters /\ "sourceGap" \in Counters /\ "gapOverflows" \in Counters
    /\ "streamResets" \in Counters
    /\ Flow \subseteq Counters \ {"sourceGap", "gapOverflows"}
  BY DEF Counters, Flow

LEMMA NoGapAdded ==
    ASSUME NEW v, NEW queue, LedgerOf(v, queue), NEW first \in Nat, NEW end \in Nat,
           end <= first, NEW reason \in Reasons
    PROVE  Adds(v, queue, first, end, reason, 0, v, queue)
  BY CountersNamed DEF Adds, LedgerOf

\* The queue also reports this interval, if it is one of the source.
Lengthened(queue, first, end, reason, subband, longer) ==
    /\ longer \in Seq(Gaps) /\ Len(longer) <= GapCapacity
    /\ \A g \in ToSet(longer) : g.first < g.end
    /\ \A x \in Nat, r \in Reasons :
         Reports(ToSet(longer), x, r) <=>
           \/ Reports(ToSet(queue), x, r)
           \/ subband = "all" /\ r = reason /\ first <= x /\ x < end

\* The new interval as a gap of its own.
LEMMA GapAppended ==
    ASSUME NEW v, NEW queue, LedgerOf(v, queue), NEW first \in Nat, NEW end \in Nat,
           first < end, NEW reason \in Reasons, NEW subband \in {"all", "band"},
           Len(queue) < GapCapacity
    PROVE  Lengthened(queue, first, end, reason, subband,
                      Append(queue, [first |-> first, end |-> end,
                                     subband |-> subband, reason |-> reason]))
  <1> DEFINE g == [first |-> first, end |-> end, subband |-> subband, reason |-> reason]
  <1>1. /\ g \in Gaps /\ g.first = first /\ g.end = end /\ g.subband = subband
        /\ g.reason = reason
    BY DEF Gaps
  <1> HIDE DEF g
  <1>2. /\ queue \in Seq(Gaps) /\ ToSet(Append(queue, g)) = ToSet(queue) \cup {g}
        /\ Append(queue, g) \in Seq(Gaps) /\ Len(Append(queue, g)) = Len(queue) + 1
        /\ Len(queue) \in Nat
    BY <1>1, AppendToSet, AppendProperties DEF LedgerOf
  <1>3. Len(Append(queue, g)) <= GapCapacity
    BY <1>2
  <1>4. \A h \in ToSet(Append(queue, g)) : h.first < h.end
    BY <1>1, <1>2 DEF LedgerOf
  <1>5. \A x \in Nat, r \in Reasons :
          Reports(ToSet(Append(queue, g)), x, r) <=>
            \/ Reports(ToSet(queue), x, r)
            \/ subband = "all" /\ r = reason /\ first <= x /\ x < end
    BY <1>1, <1>2 DEF Reports
  <1> QED BY <1>2, <1>3, <1>4, <1>5 DEF g, Lengthened

\* The new interval at the end of the newest gap.
LEMMA GapExtended ==
    ASSUME NEW v, NEW queue, LedgerOf(v, queue), NEW first \in Nat, NEW end \in Nat,
           first < end, NEW reason \in Reasons, NEW subband \in {"all", "band"},
           Continues(queue, first, reason, subband),
           NEW longer, longer = [queue EXCEPT ![Len(queue)].end = end]
    PROVE  Lengthened(queue, first, end, reason, subband, longer)
  <1> DEFINE n == Len(queue)
             h == [queue[n] EXCEPT !.end = end]
  <1>1. /\ n \in Nat /\ queue \in Seq(Gaps) /\ DOMAIN queue = 1 .. n /\ n <= GapCapacity
        /\ \A i \in 1 .. n : queue[i] \in Gaps
    BY ElementOfSeq DEF LedgerOf
  <1>2. n \in 1 .. n
    BY <1>1, EmptySeq DEF Continues
  <1>3. queue[n].reason = reason /\ queue[n].subband = subband /\ queue[n].end = first
    BY DEF Continues, Last
  <1>4. /\ h \in Gaps /\ h.first = queue[n].first /\ h.end = end
        /\ h.subband = subband /\ h.reason = reason
    BY <1>1, <1>2, <1>3 DEF Gaps
  <1>5. queue[n].first < queue[n].end
    BY <1>1, <1>2 DEF LedgerOf, ToSet
  <1>6. longer = [queue EXCEPT ![n] = h]
    BY <1>1
  <1> HIDE DEF h
  <1>7. /\ longer = [i \in 1 .. n |-> IF i = n THEN h ELSE queue[i]]
        /\ longer \in [1 .. n -> Gaps]
    BY <1>1, <1>2, <1>4, <1>6
  <1>8. longer \in Seq(Gaps) /\ Len(longer) = n
    BY <1>1, <1>2, <1>4, <1>6, ExceptSeq
  <1>9. /\ \A g \in ToSet(longer) : g = h \/ \E i \in 1 .. n : i # n /\ g = queue[i]
        /\ h \in ToSet(longer)
        /\ \A i \in 1 .. n : i # n => queue[i] \in ToSet(longer)
    <2>1. DOMAIN longer = 1 .. n /\ \A i \in 1 .. n : longer[i] = IF i = n THEN h ELSE queue[i]
      BY <1>7
    <2>2. ToSet(longer) = {longer[i] : i \in 1 .. n}
      BY <2>1 DEF ToSet
    <2> QED BY <1>2, <2>1, <2>2
  <1>10. ToSet(queue) = {queue[i] : i \in 1 .. n}
    BY <1>1 DEF ToSet
  <1>11. ASSUME NEW g \in ToSet(longer) PROVE g.first < g.end
    <2>1. h.first < h.end
      <3>1. queue[n].first \in Nat
        BY <1>1, <1>2 DEF Gaps
      <3> QED BY <1>3, <1>4, <1>5, <3>1
    <2> QED BY <1>9, <1>10, <2>1 DEF LedgerOf
  <1>12. ASSUME NEW x \in Nat, NEW r \in Reasons
         PROVE  Reports(ToSet(longer), x, r) <=>
                  \/ Reports(ToSet(queue), x, r)
                  \/ subband = "all" /\ r = reason /\ first <= x /\ x < end
    <2> DEFINE Hits(g) == g.subband = "all" /\ g.reason = r /\ g.first <= x /\ x < g.end
    <2>1. Hits(h) <=> \/ Hits(queue[n])
                      \/ subband = "all" /\ r = reason /\ first <= x /\ x < end
      <3>1. queue[n].first \in Nat
        BY <1>1, <1>2 DEF Gaps
      <3>2. queue[n].first < first
        BY <1>3, <1>5
      <3> QED BY <1>3, <1>4, <3>1, <3>2
    <2>2. Reports(ToSet(longer), x, r) <=> \E g \in ToSet(longer) : Hits(g)
      BY DEF Reports
    <2>3. Reports(ToSet(queue), x, r) <=> \E i \in 1 .. n : Hits(queue[i])
      BY <1>10 DEF Reports
    <2> HIDE DEF Hits
    <2> QED BY <1>2, <1>9, <2>1, <2>2, <2>3
  <1> QED BY <1>1, <1>8, <1>11, <1>12 DEF Lengthened

LEMMA GapLockedAdds ==
    ASSUME NEW v, NEW queue, LedgerOf(v, queue), NEW first \in Nat, NEW end \in Nat,
           NEW reason \in Reasons, NEW subband \in {"all", "band"}, NEW sourceLoss \in BOOLEAN,
           NEW r, r = GapLocked(v, queue, first, end, reason, subband, sourceLoss)
    PROVE  Adds(v, queue, IF subband = "all" THEN first ELSE 0, IF subband = "all" THEN end ELSE 0,
                reason, IF sourceLoss /\ subband = "all" /\ first < end THEN end - first ELSE 0,
                r[1], r[2])
  <1> DEFINE lost == IF sourceLoss /\ subband = "all" THEN end - first ELSE 0
             total == v.sourceGap + lost
             counted == [v EXCEPT !.sourceGap = total]
             full == [counted EXCEPT !.gapOverflows = counted.gapOverflows + 1]
             from == IF subband = "all" THEN first ELSE 0
             upto == IF subband = "all" THEN end ELSE 0
  <1>0. /\ v \in [Counters -> Nat] /\ queue \in Seq(Gaps) /\ Len(queue) <= GapCapacity
        /\ Len(queue) \in Nat
        /\ v.sourceGap \in Nat /\ v.gapOverflows \in Nat
    BY CountersNamed DEF LedgerOf
  <1>1. CASE end <= first
    <2>1. r = <<v, queue>>
      BY <1>1 DEF GapLocked
    <2>2. (IF sourceLoss /\ subband = "all" /\ first < end THEN end - first ELSE 0) = 0
          /\ from \in Nat /\ upto \in Nat /\ upto <= from
      BY <1>1
    <2> HIDE DEF from, upto
    <2>3. Adds(v, queue, from, upto, reason, 0, r[1], r[2])
      BY <2>1, <2>2, NoGapAdded
    <2> QED BY <2>2, <2>3 DEF from, upto
  <1>2. CASE first < end
    <2>1. ~ (end <= first) /\ end > first
      BY <1>2
    <2>2. lost \in Nat /\ lost = IF sourceLoss /\ subband = "all" /\ first < end THEN end - first ELSE 0
      BY <1>2
    <2>a. r = IF Continues(queue, first, reason, subband)
              THEN <<counted, [queue EXCEPT ![Len(queue)].end = end]>>
              ELSE IF Len(queue) >= GapCapacity THEN <<full, queue>>
              ELSE <<counted, Append(queue, [first |-> first, end |-> end,
                                             subband |-> subband, reason |-> reason])>>
      BY <1>0, <2>1 DEF GapLocked
    <2> HIDE DEF lost
    <2>3. total \in Nat
      BY <1>0, <2>2
    <2> HIDE DEF total
    <2>4. /\ counted \in [Counters -> Nat] /\ counted.sourceGap = total
          /\ counted.gapOverflows = v.gapOverflows
          /\ \A c \in Counters \ {"sourceGap"} : counted[c] = v[c]
      BY <1>0, <2>3, CountersNamed
    <2> HIDE DEF counted
    <2>5. /\ full \in [Counters -> Nat] /\ full.sourceGap = total
          /\ full.gapOverflows = v.gapOverflows + 1
          /\ \A c \in Counters \ {"sourceGap", "gapOverflows"} : full[c] = v[c]
      <3>1. counted.gapOverflows + 1 \in Nat
        BY <1>0, <2>4
      <3> QED BY <1>0, <2>4, <3>1, CountersNamed
    <2> HIDE DEF full
    <2>6. ASSUME NEW longer, Lengthened(queue, first, end, reason, subband, longer)
          PROVE  Adds(v, queue, from, upto, reason, lost, counted, longer)
      <3>1. LedgerOf(counted, longer)
        BY <2>4, <2>6 DEF LedgerOf, Lengthened
      <3>2. counted.gapOverflows >= v.gapOverflows
        BY <1>0, <2>4
      <3>3. \A c \in Flow : counted[c] = v[c]
        BY <2>4, CountersNamed
      <3>4. ASSUME NEW x \in Nat, NEW q \in Reasons
            PROVE  Reports(ToSet(longer), x, q) <=>
                     Reports(ToSet(queue), x, q) \/ (q = reason /\ from <= x /\ x < upto)
        <4>1. from <= x /\ x < upto <=> subband = "all" /\ first <= x /\ x < end
          OBVIOUS
        <4> QED BY <2>6, <4>1 DEF Lengthened
      <3>5. counted.sourceGap = v.sourceGap + lost
        BY <2>4 DEF total
      <3> HIDE DEF from, upto
      <3> QED BY <3>1, <3>2, <3>3, <3>4, <3>5 DEF Adds
    <2>7. CASE Continues(queue, first, reason, subband)
      <3>1. r[1] = counted /\ r[2] = [queue EXCEPT ![Len(queue)].end = end]
        BY <2>a, <2>7
      <3>2. Lengthened(queue, first, end, reason, subband, r[2])
        BY <1>2, <2>7, <3>1, GapExtended
      <3> QED BY <2>2, <2>6, <3>1, <3>2
    <2>8. CASE ~Continues(queue, first, reason, subband) /\ Len(queue) >= GapCapacity
      <3>1. r[1] = full /\ r[2] = queue
        BY <2>a, <2>8
      <3>2. LedgerOf(full, queue) /\ full.gapOverflows > v.gapOverflows
        BY <1>0, <2>5 DEF LedgerOf
      <3>3. full.sourceGap = v.sourceGap + lost
        BY <2>5 DEF total
      <3>4. full.gapOverflows >= v.gapOverflows /\ full.gapOverflows # v.gapOverflows
        BY <1>0, <2>5
      <3> HIDE DEF from, upto
      <3>5. Adds(v, queue, from, upto, reason, lost, full, queue)
        BY <2>5, <3>2, <3>3, <3>4, CountersNamed DEF Adds
      <3> QED BY <2>2, <3>1, <3>5 DEF from, upto
    <2>9. CASE ~Continues(queue, first, reason, subband) /\ ~ (Len(queue) >= GapCapacity)
      <3>1. r[1] = counted /\ r[2] = Append(queue, [first |-> first, end |-> end,
                                             subband |-> subband, reason |-> reason])
        BY <2>a, <2>9
      <3>2. Len(queue) < GapCapacity
        BY <1>0, <2>9
      <3>3. Lengthened(queue, first, end, reason, subband, r[2])
        BY <1>2, <3>1, <3>2, GapAppended
      <3> QED BY <2>2, <2>6, <3>1, <3>3
    <2> QED BY <2>7, <2>8, <2>9
  <1>3. first < end \/ end <= first
    OBVIOUS
  <1> QED BY <1>1, <1>2, <1>3

\* reject: the interval is counted as lost time exactly when it is elapsed time.
LEMMA RejectedAdds ==
    ASSUME NEW v, NEW queue, LedgerOf(v, queue), NEW first \in Nat, NEW end \in Nat,
           first <= end, NEW reason \in Reasons,
           NEW r, r = Rejected(v, queue, first, end, reason)
    PROVE  Adds(v, queue, first, end, reason,
                IF Elapsed(reason) THEN end - first ELSE 0, r[1], r[2])
  <1> DEFINE a == v.rejected + (end - first)
             b == v.queueDrops + (IF reason = "source_queue_full" THEN 1 ELSE 0)
             c == v.invalid + (IF reason \in {"source_queue_full", "processing_failure"} THEN 0 ELSE 1)
             w == [v EXCEPT !.rejected = a, !.queueDrops = b, !.invalid = c]
  <1>1. v \in [Counters -> Nat] /\ v.rejected \in Nat /\ v.queueDrops \in Nat /\ v.invalid \in Nat
    BY CountersNamed DEF LedgerOf
  <1>2. a \in Nat /\ b \in Nat /\ c \in Nat
    BY <1>1
  <1>3. r = GapLocked(w, queue, first, end, reason, "all", Elapsed(reason))
    BY DEF Rejected
  <1> HIDE DEF a, b, c
  <1>4. /\ w \in [Counters -> Nat] /\ w.sourceGap = v.sourceGap
        /\ w.gapOverflows = v.gapOverflows /\ \A k \in Flow : w[k] = v[k]
    BY <1>1, <1>2, CountersNamed DEF Flow
  <1> HIDE DEF w
  <1>5. LedgerOf(w, queue) /\ Elapsed(reason) \in BOOLEAN
    BY <1>4 DEF LedgerOf, Elapsed
  <1>6. Adds(w, queue, first, end, reason,
             IF Elapsed(reason) /\ first < end THEN end - first ELSE 0, r[1], r[2])
    BY <1>3, <1>5, GapLockedAdds
  <1>7. (IF Elapsed(reason) /\ first < end THEN end - first ELSE 0)
          = (IF Elapsed(reason) THEN end - first ELSE 0)
    OBVIOUS
  <1> QED BY <1>4, <1>6, <1>7 DEF Adds

\* Source time reported after a step that adds an interval to the ledger.
LEMMA ReportedAfter ==
    ASSUME NEW v, NEW first, NEW end, NEW reason, NEW lost, taken' = taken,
           Adds(v, gaps, first, end, reason, lost, view', gaps'),
           NEW x \in Nat, NEW r \in Reasons
    PROVE  /\ Reported(x, r) => Reported(x, r)'
           /\ Reported(x, r)' => Reported(x, r) \/ (r = reason /\ first <= x /\ x < end)
           /\ view'.gapOverflows = v.gapOverflows /\ first <= x /\ x < end
                => Reported(x, reason)'
  <1>1. /\ Reports(ToSet(gaps), x, r) => Reports(ToSet(gaps'), x, r)
        /\ Reports(ToSet(gaps'), x, r) =>
             Reports(ToSet(gaps), x, r) \/ (r = reason /\ first <= x /\ x < end)
        /\ view'.gapOverflows = v.gapOverflows /\ first <= x /\ x < end
             => Reports(ToSet(gaps'), x, reason)
    BY DEF Adds
  <1>2. \A gs, hs, y, q : Reports(gs \cup hs, y, q) <=> Reports(gs, y, q) \/ Reports(hs, y, q)
    BY DEF Reports
  <1>3. \A y, q : Reported(y, q) <=> Reports(ToSet(gaps), y, q) \/ Reports(taken, y, q)
    BY <1>2 DEF Reported
  <1>4. \A y, q : Reported(y, q)' <=> Reports(ToSet(gaps'), y, q) \/ Reports(taken, y, q)
    BY <1>2 DEF Reported
  <1> QED BY <1>1, <1>3, <1>4

LEMMA Bumped ==
    ASSUME view \in [Counters -> Nat], NEW c \in Counters, NEW n \in Nat, Bump(c, n)
    PROVE  /\ view' \in [Counters -> Nat] /\ view'[c] = view[c] + n /\ view[c] \in Nat
           /\ \A k \in Counters \ {c} : view'[k] = view[k]
           /\ gaps' = gaps
  <1>1. view[c] \in Nat /\ view[c] + n \in Nat
    OBVIOUS
  <1> QED BY <1>1 DEF Bump

-----------------------------------------------------------------------------
(* Init, and the steps that leave the samples and the ledger alone.        *)

Sizes == /\ view.accepted \in Nat /\ view.channelized \in Nat /\ view.abandoned \in Nat
         /\ view.afterClose \in Nat /\ view.sourceGap \in Nat /\ view.gapOverflows \in Nat
LEMMA SizesHold == ASSUME SourceInv PROVE Sizes /\ LedgerOf(view, gaps) /\ TypeOK
  BY CountersNamed DEF SourceInv, TypeOK, LedgerTypes, Sizes, LossInv, LedgerOf

LEMMA InitInv == Init => SourceInv
  <1> SUFFICES ASSUME Init PROVE SourceInv
    OBVIOUS
  <1> USE DEF Init
  <1>1. TypeOK
    <2>1. CallerTypes /\ ThreadTypes
      BY DEF CallerTypes, ThreadTypes, Blocks
    <2>2. SourceTypes
      <3>1. sources \in Seq(Blocks) /\ Len(sources) = 0
        BY EmptySeq
      <3>2. sourceInitialized \in BOOLEAN
        OBVIOUS
      <3> QED BY <3>1, <3>2 DEF SourceTypes
    <2>3. LedgerTypes
      BY EmptySeq DEF LedgerTypes
    <2> QED BY <2>1, <2>2, <2>3 DEF TypeOK
  <1>2. ToSet(gaps) = {} /\ DOMAIN sources = {}
    BY DEF ToSet
  <1>3. BlockInv /\ SegmentsAreGapless
    BY <1>2 DEF BlockInv, SegmentsAreGapless
  <1>4. FreshInv
    BY CountersNamed DEF FreshInv
  <1>5. InputConserved
    <2>1. Queued = 0
      <3>1. sources \in Seq(Blocks) /\ Len(sources) = 0
        BY EmptySeq
      <3>2. [i \in DOMAIN sources |-> sources[i].count] \in Seq(Nat)
            /\ Len([i \in DOMAIN sources |-> sources[i].count]) = 0
        BY <3>1, CountsOf
      <3> QED BY <3>2, TotalOfNothing DEF Queued
    <2> QED BY <2>1, CountersNamed DEF InputConserved
  <1>6. LossInv
    <2>1. \A x, r : ~Reported(x, r)
      BY <1>2 DEF Reported, Reports
    <2> QED BY <1>2, <2>1 DEF LossInv, Complete
  <1> QED BY <1>1, <1>3, <1>4, <1>5, <1>6 DEF SourceInv

samples == <<call, submittedBefore, expectedSubmission, sources, sourceInitialized, expectedSource,
             bank, view, gaps, taken, origin, heard>>

\* The threads move, the flags are set, and nothing else changes.
LEMMA QuietStep ==
    ASSUME SourceInv, UNCHANGED samples, CallerTypes', ThreadTypes', bandGaps' \in Nat,
           cpc' = "lock" <=> cpc = "lock", ppc' = "pop" <=> ppc = "pop",
           ppc' = "block" => sources # <<>>
    PROVE  SourceInv'
  <1> USE DEF samples
  <1>1. TypeOK'
    BY DEF SourceInv, TypeOK, SourceTypes, LedgerTypes
  <1>2. BlockInv'
    BY DEF SourceInv, BlockInv
  <1>3. SegmentsAreGapless' /\ FreshInv'
    BY DEF SourceInv, SegmentsAreGapless, FreshInv
  <1>4. InputConserved'
    <2>1. Queued' = Queued
      BY DEF Queued
    <2>2. InputConserved
      BY DEF SourceInv
    <2> QED BY <2>1, <2>2 DEF InputConserved
  <1>5. LossInv'
    <2>1. \A x, r : Reported(x, r)' <=> Reported(x, r)
      BY DEF Reported
    <2>2. LossInv /\ Settled' = Settled /\ (Complete' <=> Complete)
      BY DEF SourceInv, Settled, Complete
    <2> QED BY <2>1, <2>2 DEF LossInv
  <1> QED BY <1>1, <1>2, <1>3, <1>4, <1>5 DEF SourceInv

ThreadStep ==
    \/ SubmitNotify \/ ProducerCheck \/ ProducerSleep \/ ProducerThrows \/ LastFlush
    \/ DiscardStart \/ DiscardDone \/ ProducerDone \/ ProducerNotify
    \/ DetectorFails \/ DetectorNotify \/ Close \/ CloseNotify \/ Join
LEMMA ThreadSteps == ASSUME SourceInv, ThreadStep PROVE SourceInv'
  <1>1. CallerTypes /\ ThreadTypes /\ bandGaps \in Nat
    BY DEF SourceInv, TypeOK, LedgerTypes
  <1>2. UNCHANGED <<samples, bandGaps, submits>>
    BY DEF ThreadStep, SubmitNotify, ProducerCheck, ProducerSleep, ProducerThrows, LastFlush,
           DiscardStart, DiscardDone, ProducerDone, ProducerNotify, DetectorFails,
           DetectorNotify, Close, CloseNotify, Join, OthersUnchanged, samples,
           callerVars, flags, producerVars, ledgerVars
  <1>3. CASE SubmitNotify \/ DetectorNotify \/ CloseNotify
    <2>1. /\ cpc' \in {cpc, "idle"} /\ (cpc' = "lock" <=> cpc = "lock")
          /\ ppc' = Woken /\ npc' \in {npc, "notified"} /\ fpc' \in {fpc, "join"}
          /\ UNCHANGED flags
      BY <1>3 DEF SubmitNotify, DetectorNotify, CloseNotify, callerVars
    <2>2. ppc' = "pop" <=> ppc = "pop"
      BY <2>1 DEF Woken
    <2>3. ppc' = "block" => sources # <<>>
      BY <2>1 DEF Woken, SourceInv, BlockInv
    <2>4. CallerTypes'
      BY <1>1, <1>2, <2>1 DEF CallerTypes, samples
    <2>5. ThreadTypes'
      BY <1>1, <2>1 DEF ThreadTypes, Woken, flags
    <2> QED BY <1>1, <1>2, <2>1, <2>2, <2>3, <2>4, <2>5, QuietStep
  <1>4. CASE ProducerCheck
    <2>1. /\ ppc = "check" /\ ppc' \in {"discard", "last_flush", "block", "doze"}
          /\ ppc' = "block" => sources # <<>>
          /\ UNCHANGED <<callerVars, flags, npc, fpc>>
      BY <1>4 DEF ProducerCheck, OthersUnchanged, flags
    <2>2. CallerTypes' /\ ThreadTypes' /\ cpc' = cpc
      BY <1>1, <1>2, <2>1 DEF CallerTypes, ThreadTypes, callerVars, flags
    <2> QED BY <1>1, <1>2, <2>1, <2>2, QuietStep
  <1>5. CASE \/ ProducerSleep \/ LastFlush \/ DiscardStart \/ DiscardDone \/ ProducerDone
             \/ ProducerNotify \/ ProducerThrows
    <2>1. /\ ppc # "pop" /\ ppc' \in {"asleep", "discard", "done", "discarding", "done_notify",
                                      "exited", "fail_notify"}
          /\ closed' = closed /\ failed' \in {failed, TRUE} /\ producerDone' \in {producerDone, TRUE}
          /\ UNCHANGED <<callerVars, npc, fpc>>
      BY <1>5 DEF ProducerSleep, LastFlush, DiscardStart, DiscardDone, ProducerDone,
                  ProducerNotify, ProducerThrows, OthersUnchanged
    <2>a. closed' \in BOOLEAN /\ failed' \in BOOLEAN /\ producerDone' \in BOOLEAN
      BY <1>1, <2>1 DEF ThreadTypes
    <2>b. CallerTypes' /\ cpc' = cpc
      BY <1>1, <2>1 DEF CallerTypes, callerVars
    <2>2. CallerTypes' /\ ThreadTypes' /\ cpc' = cpc
      BY <1>1, <2>1, <2>a, <2>b DEF ThreadTypes
    <2> QED BY <1>1, <1>2, <2>1, <2>2, QuietStep
  <1>6. CASE DetectorFails \/ Close \/ Join
    <2>1. /\ closed' \in {closed, TRUE} /\ failed' \in {failed, TRUE}
          /\ npc' \in {npc, "notify"} /\ fpc' \in {fpc, "notify", "finished"}
          /\ UNCHANGED <<callerVars, producerDone, ppc>>
      BY <1>6 DEF DetectorFails, Close, Join, flags, producerVars
    <2>a. closed' \in BOOLEAN /\ failed' \in BOOLEAN /\ producerDone' \in BOOLEAN
      BY <1>1, <2>1 DEF ThreadTypes
    <2>b. CallerTypes' /\ cpc' = cpc
      BY <1>1, <2>1 DEF CallerTypes, callerVars
    <2>2. CallerTypes' /\ ThreadTypes' /\ cpc' = cpc
      BY <1>1, <2>1, <2>a, <2>b DEF ThreadTypes
    <2>3. ppc' = "block" => sources # <<>>
      BY <2>1 DEF SourceInv, BlockInv
    <2> QED BY <1>1, <1>2, <2>1, <2>2, <2>3, QuietStep
  <1> QED BY <1>3, <1>4, <1>5, <1>6 DEF ThreadStep

-----------------------------------------------------------------------------
(* The producer and the samples.                                           *)

\* The loss accounting depends on nothing the producer changes by itself.
LEMMA LossFrame ==
    ASSUME LossInv, UNCHANGED <<cpc, call, submittedBefore, expectedSubmission, gaps, taken,
                                origin, heard>>,
           view'.afterClose = view.afterClose, view'.gapOverflows = view.gapOverflows
    PROVE  LossInv'
  <1>1. \A x, r : Reported(x, r)' <=> Reported(x, r)
    BY DEF Reported
  <1>2. Settled' = Settled /\ (Complete' <=> Complete)
    BY DEF Settled, Complete
  <1> QED BY <1>1, <1>2 DEF LossInv

LEMMA NewSegmentStep == ASSUME SourceInv, NewSegment PROVE SourceInv'
  <1>1. /\ ppc = "block" /\ sourceInitialized' = TRUE /\ bank' = {}
        /\ expectedSource' = Head(sources).first
        /\ Bump("streamResets", IF sourceInitialized THEN 1 ELSE 0)
        /\ UNCHANGED <<ppc, sources, failed, producerDone, callerVars, closed, npc, fpc, bandGaps,
                       taken, origin, heard>>
    BY DEF NewSegment, OthersUnchanged
  <1>2. TypeOK /\ view \in [Counters -> Nat] /\ sources \in Seq(Blocks) /\ sources # <<>>
    BY <1>1 DEF SourceInv, TypeOK, LedgerTypes, SourceTypes, BlockInv
  <1>3. /\ view' \in [Counters -> Nat] /\ gaps' = gaps
        /\ \A k \in Counters \ {"streamResets"} : view'[k] = view[k]
    <2>1. (IF sourceInitialized THEN 1 ELSE 0) \in Nat
      OBVIOUS
    <2> QED BY <1>1, <1>2, <2>1, Bumped, CountersNamed
  <1>4. view'.accepted = view.accepted /\ view'.channelized = view.channelized
        /\ view'.abandoned = view.abandoned /\ view'.afterClose = view.afterClose
        /\ view'.sourceGap = view.sourceGap /\ view'.gapOverflows = view.gapOverflows
    BY <1>3, CountersNamed
  <1>5. TypeOK'
    <2>1. Head(sources) \in Blocks
      BY <1>2, HeadTailProperties
    <2>2. expectedSource' \in Nat /\ sourceInitialized' \in BOOLEAN
      BY <1>1, <2>1 DEF Blocks
    <2>3. CallerTypes' /\ ThreadTypes'
      BY <1>1, <1>2 DEF TypeOK, CallerTypes, ThreadTypes, callerVars
    <2> QED BY <1>1, <1>2, <1>3, <2>2, <2>3 DEF TypeOK, SourceTypes, LedgerTypes
  <1>6. BlockInv' /\ SegmentsAreGapless' /\ FreshInv'
    BY <1>1, <1>4 DEF SourceInv, BlockInv, SegmentsAreGapless, FreshInv, callerVars
  <1>7. InputConserved'
    <2>1. Queued' = Queued /\ InputConserved
      BY <1>1 DEF Queued, SourceInv
    <2> QED BY <1>1, <1>4, <2>1 DEF InputConserved, callerVars
  <1>8. LossInv'
    BY <1>1, <1>3, <1>4, LossFrame DEF SourceInv, callerVars
  <1> QED BY <1>5, <1>6, <1>7, <1>8 DEF SourceInv

\* The block fed continues the segment where the channelizer stands.
LEMMA FeedBlockStep == ASSUME SourceInv, FeedBlock PROVE SourceInv'
  <1> DEFINE block == Head(sources)
             end == block.first + block.count
  <1>1. /\ ppc = "block" /\ ~StartsSegment /\ bank' = bank \cup (block.first .. end - 1)
        /\ expectedSource' = end /\ Bump("channelized", block.count) /\ ppc' = "pop"
        /\ UNCHANGED <<sources, failed, producerDone, sourceInitialized, callerVars, closed, npc,
                       fpc, bandGaps, taken, origin, heard>>
    BY DEF FeedBlock, OthersUnchanged
  <1>2. /\ TypeOK /\ view \in [Counters -> Nat] /\ sources \in Seq(Blocks) /\ sources # <<>>
        /\ Sizes
    BY <1>1, SizesHold DEF SourceInv, TypeOK, LedgerTypes, SourceTypes, BlockInv
  <1>3. block \in Blocks /\ block = sources[1] /\ 1 \in DOMAIN sources
    BY <1>2, HeadTailProperties, LenProperties, EmptySeq
  <1>4. /\ block.first \in Nat /\ block.count \in Nat /\ block.count # 0 /\ end \in Nat
        /\ block.first .. end - 1 \subseteq heard /\ block.first = expectedSource
    <2>1. block.first \in Nat /\ block.count \in Nat
      BY <1>3 DEF Blocks
    <2>2. block.count # 0 /\ Span(block) \subseteq heard
      BY <1>3 DEF SourceInv, BlockInv
    <2>3. block.first = expectedSource
      BY <1>1 DEF StartsSegment
    <2> QED BY <2>1, <2>2, <2>3 DEF Span
  <1> HIDE DEF block, end
  <1>5. /\ view' \in [Counters -> Nat] /\ gaps' = gaps
        /\ view'.channelized = view.channelized + block.count
        /\ \A k \in Counters \ {"channelized"} : view'[k] = view[k]
    BY <1>1, <1>2, <1>4, Bumped, CountersNamed
  <1>6. view'.accepted = view.accepted
        /\ view'.abandoned = view.abandoned /\ view'.afterClose = view.afterClose
        /\ view'.sourceGap = view.sourceGap /\ view'.gapOverflows = view.gapOverflows
    BY <1>5, CountersNamed
  <1>7. TypeOK'
    <2>1. bank' \in SUBSET Nat
      BY <1>1, <1>2, <1>4 DEF TypeOK, SourceTypes
    <2>2. CallerTypes' /\ ThreadTypes'
      BY <1>1, <1>2 DEF TypeOK, CallerTypes, ThreadTypes, callerVars
    <2> QED BY <1>1, <1>2, <1>4, <1>5, <2>1, <2>2 DEF TypeOK, SourceTypes, LedgerTypes
  <1>8. BlockInv' /\ FreshInv'
    BY <1>1, <1>2, <1>6 DEF SourceInv, BlockInv, FreshInv, callerVars
  <1>9. SegmentsAreGapless'
    <2>0. block.first \in block.first .. end - 1
      BY <1>4 DEF end
    <2>1. CASE bank = {}
      <3>1. bank' = block.first .. end - 1 /\ block.first \in bank'
        BY <1>1, <2>0, <2>1
      <3> QED BY <1>1, <1>4, <3>1 DEF SegmentsAreGapless
    <2>2. CASE bank # {}
      <3>1. PICK first \in bank : bank = first .. expectedSource - 1 /\ bank \subseteq heard
        BY <2>2 DEF SourceInv, SegmentsAreGapless
      <3>2. first \in Nat /\ first <= expectedSource - 1 /\ expectedSource \in Nat
        BY <1>2, <3>1 DEF TypeOK, SourceTypes
      <3>3. bank' = first .. end - 1
        <4>1. expectedSource <= end
          BY <1>4, <3>2 DEF end
        <4> QED BY <1>1, <1>4, <3>1, <3>2, <4>1
      <3> QED BY <1>1, <1>4, <3>1, <3>3 DEF SegmentsAreGapless
    <2> QED BY <2>1, <2>2
  <1>10. InputConserved'
    <2>1. Queued' = Queued /\ InputConserved
      BY <1>1 DEF Queued, SourceInv
    <2>2. Queued \in Nat
      <3>1. [i \in DOMAIN sources |-> sources[i].count] \in Seq(Nat)
        BY <1>2, CountsOf
      <3> QED BY <3>1, SumExists, TotalIs, LenProperties DEF Queued
    <2>3. view'.accepted + block.count = view'.channelized + view'.abandoned + Queued'
      <3>1. view.accepted + 0 = view.channelized + view.abandoned + Queued
        BY <1>1, <2>1 DEF InputConserved
      <3>2. \A a, c, d, q, n \in Nat : a + 0 = c + d + q => a + n = (c + n) + d + q
        OBVIOUS
      <3>3. view.accepted + block.count
              = (view.channelized + block.count) + view.abandoned + Queued
        BY <1>2, <1>4, <2>2, <3>1, <3>2 DEF Sizes
      <3> QED BY <1>5, <1>6, <2>1, <3>3
    <2>4. Head(sources').count = block.count
      BY <1>1 DEF block
    <2> QED BY <1>1, <1>6, <2>1, <2>3, <2>4 DEF InputConserved, callerVars
  <1>11. LossInv'
    BY <1>1, <1>5, <1>6, LossFrame DEF SourceInv, callerVars
  <1> QED BY <1>7, <1>8, <1>9, <1>10, <1>11 DEF SourceInv

LEMMA PopBlockStep == ASSUME SourceInv, PopBlock PROVE SourceInv'
  <1>1. /\ ppc = "pop" /\ ppc' = "check" /\ sources' = Tail(sources)
        /\ UNCHANGED <<failed, producerDone, sourceInitialized, expectedSource, bank, view, gaps,
                       callerVars, closed, npc, fpc, bandGaps, taken, origin, heard>>
    BY DEF PopBlock, Popped, OthersUnchanged
  <1>2. TypeOK /\ sources \in Seq(Blocks) /\ sources # <<>> /\ Sizes
    BY <1>1, SizesHold DEF SourceInv, TypeOK, SourceTypes, BlockInv
  <1>3. /\ Queued = Head(sources).count + Queued' /\ Head(sources) \in Blocks
        /\ Len(sources') < Len(sources) /\ sources' \in Seq(Blocks)
        /\ \A i \in DOMAIN sources' : i + 1 \in DOMAIN sources /\ sources'[i] = sources[i + 1]
    BY <1>1, <1>2, QueuedShrinks
  <1>4. TypeOK'
    <2>1. CallerTypes' /\ ThreadTypes' /\ LedgerTypes'
      BY <1>1, <1>2 DEF TypeOK, CallerTypes, ThreadTypes, LedgerTypes, callerVars
    <2>2. Len(sources') <= SourceCapacity
      BY <1>2, <1>3, LenProperties DEF TypeOK, SourceTypes
    <2> QED BY <1>1, <1>2, <1>3, <2>1, <2>2 DEF TypeOK, SourceTypes
  <1>5. BlockInv'
    BY <1>1, <1>3 DEF SourceInv, BlockInv, callerVars
  <1>6. SegmentsAreGapless' /\ FreshInv'
    BY <1>1 DEF SourceInv, SegmentsAreGapless, FreshInv, callerVars
  <1>7. InputConserved'
    <2>1. /\ view.accepted + Head(sources).count = view.channelized + view.abandoned + Queued
          /\ InputConserved
      BY <1>1 DEF SourceInv, InputConserved
    <2>2. Queued' \in Nat
      <3>1. [i \in DOMAIN sources' |-> sources'[i].count] \in Seq(Nat)
        BY <1>3, CountsOf
      <3> QED BY <3>1, SumExists, TotalIs, LenProperties DEF Queued
    <2>3. Head(sources).count \in Nat
      BY <1>3 DEF Blocks
    <2>4. \A a, c, d, q, n \in Nat : a + n = c + d + (n + q) => a + 0 = c + d + q
      OBVIOUS
    <2> DEFINE popped == Head(sources).count
    <2>5. popped \in Nat /\ view.accepted + popped
            = view.channelized + view.abandoned + (popped + Queued')
      BY <1>3, <2>1, <2>3
    <2> HIDE DEF popped
    <2>6. view.accepted + 0 = view.channelized + view.abandoned + Queued'
      <3>1. /\ view.accepted \in Nat /\ view.channelized \in Nat /\ view.abandoned \in Nat
            /\ Queued' \in Nat /\ popped \in Nat
        BY <1>2, <2>2, <2>5 DEF Sizes
      <3> QED BY <2>4, <2>5, <3>1
    <2> QED BY <1>1, <2>1, <2>6 DEF InputConserved, callerVars
  <1>8. LossInv'
    BY <1>1, LossFrame DEF SourceInv, callerVars
  <1> QED BY <1>4, <1>5, <1>6, <1>7, <1>8 DEF SourceInv

\* A gap that is no loss of source time leaves the loss accounting as it is.
LEMMA LossUnmoved ==
    ASSUME SourceInv,
           UNCHANGED <<cpc, call, submittedBefore, expectedSubmission, taken, origin, heard>>,
           NEW v, NEW first, NEW end, NEW lost,
           NEW reason \in Reasons \ LossReasons,
           Adds(v, gaps, first, end, reason, lost, view', gaps'), v \in [Counters -> Nat],
           v.afterClose = view.afterClose, v.gapOverflows = view.gapOverflows
    PROVE  LossInv'
  <1>1. \A x \in Nat, r \in Reasons : Reported(x, r) => Reported(x, r)'
    BY ReportedAfter
  <1>2. ASSUME NEW x \in Nat, NEW r \in LossReasons, Reported(x, r)' PROVE Reported(x, r)
    <2>1. r \in Reasons /\ r # reason
      BY DEF Reasons, LossReasons
    <2> QED BY <1>2, <2>1, ReportedAfter
  <1>3. Complete' => Complete
    <2>1. view'.afterClose = view.afterClose
      BY DEF Adds, Flow
    <2>2. view'.gapOverflows = 0 => view.gapOverflows = 0
      <3>1. v.gapOverflows \in Nat /\ view'.gapOverflows \in Nat /\ view'.gapOverflows >= v.gapOverflows
        BY CountersNamed DEF Adds, LedgerOf
      <3> QED BY <3>1
    <2> QED BY <2>1, <2>2 DEF Complete
  <1>4. Settled' = Settled /\ LossInv
    BY DEF Settled, SourceInv
  <1>5. \A g \in ToSet(gaps') : g.first < g.end
    BY DEF Adds, LedgerOf
  <1>6. LossReasons \cup {"processing_failure"} \subseteq Reasons
    BY DEF Reasons, LossReasons
  <1> QED BY <1>1, <1>2, <1>3, <1>4, <1>5, <1>6 DEF LossInv

\* A block abandoned by discard_pending_sources is accepted input: its gap reports a
\* failure and counts no lost source time.
LEMMA DiscardBlockStep == ASSUME SourceInv, DiscardBlock PROVE SourceInv'
  <1> DEFINE block == Head(sources)
             end == block.first + block.count
             n == view.abandoned + block.count
             v == [view EXCEPT !.abandoned = n]
  <1>1. /\ ppc = "discarding" /\ sources # <<>> /\ sources' = Tail(sources)
        /\ Record(GapLocked(v, gaps, block.first, end, "processing_failure", "all", FALSE))
        /\ UNCHANGED <<ppc, failed, producerDone, sourceInitialized, expectedSource, bank,
                       callerVars, closed, npc, fpc, bandGaps, taken, origin, heard>>
    BY DEF DiscardBlock, OthersUnchanged
  <1>2. TypeOK /\ sources \in Seq(Blocks) /\ Sizes /\ LedgerOf(view, gaps)
    BY SizesHold DEF SourceInv, TypeOK, SourceTypes
  <1>3. /\ Queued = block.count + Queued' /\ block \in Blocks
        /\ Len(sources') < Len(sources) /\ sources' \in Seq(Blocks)
        /\ \A i \in DOMAIN sources' : i + 1 \in DOMAIN sources /\ sources'[i] = sources[i + 1]
    BY <1>1, <1>2, QueuedShrinks
  <1>4. block.first \in Nat /\ block.count \in Nat /\ end \in Nat /\ n \in Nat
    <2>1. block.first \in Nat /\ block.count \in Nat
      BY <1>3 DEF Blocks
    <2> HIDE DEF block
    <2> QED BY <1>2, <2>1 DEF Sizes
  <1> HIDE DEF block, end, n
  <1>5. /\ LedgerOf(v, gaps) /\ v.abandoned = n
        /\ \A c \in Counters \ {"abandoned"} : v[c] = view[c]
    BY <1>2, <1>4, CountersNamed DEF LedgerOf
  <1> HIDE DEF v
  <1>6. /\ Adds(v, gaps, block.first, end, "processing_failure", 0, view', gaps')
        /\ "processing_failure" \in Reasons
    <2>1. "processing_failure" \in Reasons
      BY DEF Reasons
    <2> DEFINE r == GapLocked(v, gaps, block.first, end, "processing_failure", "all", FALSE)
    <2>2. view' = r[1] /\ gaps' = r[2]
      BY <1>1 DEF Record
    <2> HIDE DEF r
    <2>3. Adds(v, gaps, block.first, end, "processing_failure", 0, r[1], r[2])
      BY <1>4, <1>5, <2>1, GapLockedAdds DEF r
    <2> QED BY <2>1, <2>2, <2>3
  <1>7. /\ view' \in [Counters -> Nat] /\ LedgerOf(view', gaps')
        /\ view'.accepted = view.accepted /\ view'.channelized = view.channelized
        /\ view'.afterClose = view.afterClose /\ view'.abandoned = n
        /\ view'.sourceGap = view.sourceGap
    <2>1. v.accepted = view.accepted /\ v.channelized = view.channelized
          /\ v.afterClose = view.afterClose /\ v.sourceGap = view.sourceGap
      BY <1>5, CountersNamed
    <2>2. view'.sourceGap = v.sourceGap + 0
      BY <1>6 DEF Adds
    <2>3. LedgerOf(view', gaps') /\ \A c \in Flow : view'[c] = v[c]
      BY <1>6 DEF Adds
    <2>4. /\ view'.accepted = v.accepted /\ view'.channelized = v.channelized
          /\ view'.afterClose = v.afterClose /\ view'.abandoned = v.abandoned
      BY <2>3 DEF Flow
    <2>5. view' \in [Counters -> Nat]
      BY <2>3 DEF LedgerOf
    <2>6. view'.sourceGap = view.sourceGap
      BY <1>2, <2>1, <2>2 DEF Sizes
    <2> QED BY <1>5, <2>1, <2>3, <2>4, <2>5, <2>6
  <1>8. TypeOK'
    <2>1. CallerTypes' /\ ThreadTypes'
      BY <1>1, <1>2 DEF TypeOK, CallerTypes, ThreadTypes, callerVars
    <2>2. Len(sources') <= SourceCapacity
      BY <1>2, <1>3, LenProperties DEF TypeOK, SourceTypes
    <2>3. SourceTypes'
      BY <1>1, <1>2, <1>3, <2>2 DEF TypeOK, SourceTypes
    <2>4. LedgerTypes'
      BY <1>1, <1>2, <1>7 DEF TypeOK, LedgerTypes, LedgerOf
    <2> QED BY <2>1, <2>3, <2>4 DEF TypeOK
  <1>9. BlockInv'
    BY <1>1, <1>3 DEF SourceInv, BlockInv, callerVars
  <1>10. SegmentsAreGapless' /\ FreshInv'
    BY <1>1, <1>7 DEF SourceInv, SegmentsAreGapless, FreshInv, callerVars
  <1>11. InputConserved'
    <2>1. view.accepted + 0 = view.channelized + view.abandoned + Queued /\ InputConserved
      BY <1>1 DEF SourceInv, InputConserved
    <2>2. Queued' \in Nat
      <3>1. [i \in DOMAIN sources' |-> sources'[i].count] \in Seq(Nat)
        BY <1>3, CountsOf
      <3> QED BY <3>1, SumExists, TotalIs, LenProperties DEF Queued
    <2>3. \A a, c, d, q, k \in Nat : a + 0 = c + d + (k + q) => a + 0 = c + (d + k) + q
      OBVIOUS
    <2>4. view.accepted + 0 = view.channelized + view.abandoned + (block.count + Queued')
      BY <1>3, <2>1
    <2>5. view.accepted + 0 = view.channelized + (view.abandoned + block.count) + Queued'
      BY <1>2, <1>4, <2>2, <2>3, <2>4 DEF Sizes
    <2> QED BY <1>1, <1>7, <2>1, <2>5 DEF InputConserved, callerVars, n
  <1>12. LossInv'
    <2>1. v.afterClose = view.afterClose /\ v.gapOverflows = view.gapOverflows
          /\ v \in [Counters -> Nat]
      BY <1>5, CountersNamed DEF LedgerOf
    <2>2. "processing_failure" \in Reasons \ LossReasons
      BY DEF Reasons, LossReasons
    <2> QED BY <1>1, <1>6, <2>1, <2>2, LossUnmoved DEF callerVars
  <1> QED BY <1>8, <1>9, <1>10, <1>11, <1>12 DEF SourceInv

LEMMA TakeGapsStep == ASSUME SourceInv, TakeGaps PROVE SourceInv'
  <1>1. /\ taken' = taken \cup ToSet(gaps) /\ gaps' = <<>>
        /\ UNCHANGED <<callerVars, sources, flags, producerVars, npc, fpc, view, bandGaps,
                       origin, heard>>
    BY DEF TakeGaps
  <1>2. TypeOK
    BY DEF SourceInv
  <1>3. TypeOK'
    <2>1. ToSet(gaps) \subseteq Gaps
      <3>1. gaps \in Seq(Gaps) /\ DOMAIN gaps = 1 .. Len(gaps)
        BY <1>2 DEF TypeOK, LedgerTypes
      <3> QED BY <3>1, ElementOfSeq DEF ToSet
    <2>2. gaps' \in Seq(Gaps) /\ Len(gaps') = 0
      BY <1>1, EmptySeq
    <2>3. CallerTypes' /\ ThreadTypes' /\ SourceTypes'
      BY <1>1, <1>2 DEF TypeOK, CallerTypes, ThreadTypes, SourceTypes, callerVars, flags, producerVars
    <2>4. LedgerTypes'
      BY <1>1, <1>2, <2>1, <2>2 DEF TypeOK, LedgerTypes
    <2> QED BY <2>3, <2>4 DEF TypeOK
  <1>4. BlockInv' /\ SegmentsAreGapless' /\ FreshInv'
    BY <1>1 DEF SourceInv, BlockInv, SegmentsAreGapless, FreshInv, callerVars, producerVars
  <1>5. InputConserved'
    <2>1. Queued' = Queued /\ InputConserved
      BY <1>1 DEF Queued, SourceInv
    <2> QED BY <1>1, <2>1 DEF InputConserved, callerVars, producerVars
  <1>6. LossInv'
    <2>1. ToSet(gaps') = {}
      BY <1>1 DEF ToSet
    <2>2. ToSet(gaps') \cup taken' = ToSet(gaps) \cup taken
      BY <1>1, <2>1
    <2>3. \A x, r : Reported(x, r)' <=> Reported(x, r)
      BY <2>2 DEF Reported
    <2>4. LossInv /\ Settled' = Settled /\ (Complete' <=> Complete)
      BY <1>1 DEF SourceInv, Settled, Complete, callerVars
    <2> QED BY <1>1, <2>1, <2>3, <2>4 DEF LossInv, callerVars
  <1> QED BY <1>3, <1>4, <1>5, <1>6 DEF SourceInv

\* A gap that a failing detector leaves in one band.
LEMMA BandGapStep ==
    ASSUME SourceInv, NEW first \in Nat, NEW end \in Nat, BandGap(first, end)
    PROVE  SourceInv'
  <1> DEFINE r == GapLocked(view, gaps, first, end, "processing_failure", "band", FALSE)
  <1>1. /\ view' = r[1] /\ gaps' = r[2] /\ bandGaps' = bandGaps + 1
        /\ UNCHANGED <<callerVars, sources, flags, producerVars, npc, fpc, taken, origin, heard>>
    BY DEF BandGap, Record
  <1>2. TypeOK /\ Sizes /\ LedgerOf(view, gaps)
    BY SizesHold
  <1>3. "processing_failure" \in Reasons \ LossReasons
    BY DEF Reasons, LossReasons
  <1>4. Adds(view, gaps, 0, 0, "processing_failure", 0, view', gaps')
    <2> HIDE DEF r
    <2>1. Adds(view, gaps, 0, 0, "processing_failure", 0, r[1], r[2])
      BY <1>2, <1>3, GapLockedAdds DEF r
    <2> QED BY <1>1, <2>1
  <1>5. /\ LedgerOf(view', gaps') /\ view'.sourceGap = view.sourceGap
        /\ view'.accepted = view.accepted /\ view'.channelized = view.channelized
        /\ view'.abandoned = view.abandoned /\ view'.afterClose = view.afterClose
    BY <1>2, <1>4 DEF Adds, Flow, Sizes
  <1>6. TypeOK'
    <2>1. CallerTypes' /\ ThreadTypes' /\ SourceTypes'
      BY <1>1, <1>2 DEF TypeOK, CallerTypes, ThreadTypes, SourceTypes, callerVars, flags, producerVars
    <2>2. bandGaps' \in Nat /\ taken' \in SUBSET Gaps
      BY <1>1, <1>2 DEF TypeOK, LedgerTypes
    <2>3. LedgerTypes'
      BY <1>5, <2>2 DEF LedgerTypes, LedgerOf
    <2> QED BY <2>1, <2>3 DEF TypeOK
  <1>7. BlockInv' /\ SegmentsAreGapless' /\ FreshInv'
    BY <1>1, <1>5 DEF SourceInv, BlockInv, SegmentsAreGapless, FreshInv, callerVars, producerVars
  <1>8. InputConserved'
    <2>1. Queued' = Queued /\ InputConserved
      BY <1>1 DEF Queued, SourceInv
    <2> QED BY <1>1, <1>5, <2>1 DEF InputConserved, callerVars, producerVars
  <1>9. LossInv'
    <2>1. view \in [Counters -> Nat]
      BY <1>2 DEF LedgerOf
    <2> QED BY <1>1, <1>3, <1>4, <2>1, LossUnmoved DEF callerVars
  <1> QED BY <1>6, <1>7, <1>8, <1>9 DEF SourceInv

-----------------------------------------------------------------------------
(* submit().                                                               *)

\* The samples and the producer, when only the caller and the ledger change.
LEMMA CallerFrame ==
    ASSUME SourceInv, QueueUnchanged, UNCHANGED heard, view' \in [Counters -> Nat],
           view'.accepted = view.accepted, view'.channelized = view.channelized,
           view'.abandoned = view.abandoned
    PROVE  /\ ThreadTypes' /\ SegmentsAreGapless' /\ Queued' = Queued
           /\ view'.accepted + (IF ppc' = "pop" THEN Head(sources').count ELSE 0)
                = view'.channelized + view'.abandoned + Queued'
           /\ (origin' \in Nat => SourceTypes')
  <1>1. UNCHANGED <<sources, flags, producerVars, npc, fpc, bandGaps, taken, heard>>
    BY DEF QueueUnchanged
  <1>2. ThreadTypes'
    BY <1>1 DEF SourceInv, TypeOK, ThreadTypes, flags, producerVars
  <1>3. origin' \in Nat => SourceTypes'
    BY <1>1 DEF SourceInv, TypeOK, SourceTypes, producerVars
  <1>4. SegmentsAreGapless'
    BY <1>1 DEF SourceInv, SegmentsAreGapless, producerVars
  <1>5. Queued' = Queued
    BY <1>1 DEF Queued
  <1>6. view.accepted + (IF ppc = "pop" THEN Head(sources).count ELSE 0)
          = view.channelized + view.abandoned + Queued
    BY DEF SourceInv, InputConserved
  <1>7. UNCHANGED <<ppc, sources>>
    BY <1>1 DEF producerVars
  <1> QED BY <1>2, <1>3, <1>4, <1>5, <1>6, <1>7

LEMMA SubmitClosedStep == ASSUME SourceInv, SubmitClosed PROVE SourceInv'
  <1>1. /\ cpc = "idle" /\ submits' = submits + 1 /\ Bump("afterClose", 1)
        /\ UNCHANGED <<cpc, call, submittedBefore, expectedSubmission, origin, heard>>
        /\ QueueUnchanged
        /\ UNCHANGED <<sources, ppc, bandGaps, taken>>
    BY DEF SubmitClosed, NewCall, QueueUnchanged, producerVars
  <1>2. TypeOK /\ Sizes /\ view \in [Counters -> Nat]
    BY SizesHold DEF TypeOK, LedgerTypes
  <1>3. /\ view' \in [Counters -> Nat] /\ gaps' = gaps /\ view'.afterClose = view.afterClose + 1
        /\ \A k \in Counters \ {"afterClose"} : view'[k] = view[k]
    BY <1>1, <1>2, Bumped, CountersNamed
  <1>4. /\ view'.accepted = view.accepted /\ view'.channelized = view.channelized
        /\ view'.abandoned = view.abandoned /\ view'.sourceGap = view.sourceGap
        /\ view'.afterClose # 0
    <2>1. view.afterClose \in Nat
      BY <1>2 DEF Sizes
    <2> QED BY <1>3, <2>1, CountersNamed
  <1>5. /\ ThreadTypes' /\ SegmentsAreGapless'
        /\ view'.accepted + (IF ppc' = "pop" THEN Head(sources').count ELSE 0)
             = view'.channelized + view'.abandoned + Queued'
        /\ SourceTypes'
    <2>1. origin' \in Nat
      BY <1>1, <1>2 DEF TypeOK, SourceTypes
    <2> QED BY <1>1, <1>3, <1>4, <2>1, CallerFrame
  <1>6. TypeOK'
    BY <1>1, <1>2, <1>3, <1>5 DEF TypeOK, CallerTypes, LedgerTypes
  <1>7. BlockInv' /\ FreshInv'
    BY <1>1, <1>4 DEF SourceInv, BlockInv, FreshInv
  <1>8. InputConserved'
    BY <1>4, <1>5 DEF InputConserved
  <1>9. LossInv'
    <2>1. \A x, r : Reported(x, r)' <=> Reported(x, r)
      BY <1>1, <1>3 DEF Reported
    <2>2. LossInv /\ Settled' = Settled /\ ~Complete'
      BY <1>1, <1>4 DEF SourceInv, Settled, Complete
    <2> QED BY <1>1, <1>3, <2>1, <2>2 DEF LossInv
  <1> QED BY <1>5, <1>6, <1>7, <1>8, <1>9 DEF SourceInv

LEMMA SubmitInvalidStep ==
    ASSUME SourceInv, NEW first \in Nat, NEW n \in Nat, SubmitInvalid(first, n)
    PROVE  SourceInv'
  <1>1. /\ cpc = "idle" /\ submits' = submits + 1
        /\ UNCHANGED <<cpc, call, submittedBefore, expectedSubmission, origin, heard>>
        /\ QueueUnchanged
        /\ UNCHANGED <<sources, ppc, bandGaps, taken>>
    BY DEF SubmitInvalid, NewCall, QueueUnchanged, producerVars
  <1>2. TypeOK /\ Sizes /\ LedgerOf(view, gaps) /\ view \in [Counters -> Nat]
    BY SizesHold DEF TypeOK, LedgerTypes
  <1>3. PICK end \in Nat, reason \in {"invalid_sample_coordinate", "invalid_input_order"} :
          first <= end /\ Record(Rejected(view, gaps, first, end, reason))
    <2>1. first + n \in Nat /\ first <= first + n /\ first <= first
      OBVIOUS
    <2> QED BY <2>1 DEF SubmitInvalid
  <1>4. reason \in Reasons \ LossReasons /\ reason \in Reasons /\ ~Elapsed(reason)
    BY DEF Reasons, LossReasons, Elapsed
  <1>5. Adds(view, gaps, first, end, reason, 0, view', gaps')
    <2> DEFINE r == Rejected(view, gaps, first, end, reason)
    <2>1. view' = r[1] /\ gaps' = r[2]
      BY <1>3 DEF Record
    <2> HIDE DEF r
    <2>2. Adds(view, gaps, first, end, reason, IF Elapsed(reason) THEN end - first ELSE 0, r[1], r[2])
      BY <1>2, <1>3, <1>4, RejectedAdds DEF r
    <2> QED BY <1>4, <2>1, <2>2
  <1>6. /\ LedgerOf(view', gaps') /\ view' \in [Counters -> Nat] /\ view'.sourceGap = view.sourceGap
        /\ view'.accepted = view.accepted /\ view'.channelized = view.channelized
        /\ view'.abandoned = view.abandoned /\ view'.afterClose = view.afterClose
    BY <1>2, <1>5 DEF Adds, Flow, Sizes, LedgerOf
  <1>7. /\ ThreadTypes' /\ SegmentsAreGapless'
        /\ view'.accepted + (IF ppc' = "pop" THEN Head(sources').count ELSE 0)
             = view'.channelized + view'.abandoned + Queued'
        /\ SourceTypes'
    <2>1. origin' \in Nat
      BY <1>1, <1>2 DEF TypeOK, SourceTypes
    <2> QED BY <1>1, <1>6, <2>1, CallerFrame
  <1>8. TypeOK'
    BY <1>1, <1>2, <1>6, <1>7 DEF TypeOK, CallerTypes, LedgerTypes, LedgerOf
  <1>9. BlockInv' /\ FreshInv'
    BY <1>1, <1>6 DEF SourceInv, BlockInv, FreshInv
  <1>10. InputConserved'
    BY <1>1, <1>6, <1>7 DEF SourceInv, InputConserved
  <1>11. LossInv'
    BY <1>1, <1>2, <1>4, <1>5, LossUnmoved
  <1> QED BY <1>7, <1>8, <1>9, <1>10, <1>11 DEF SourceInv

\* A step that settles the submissions from lo on, reporting them.
LEMMA LossSettles ==
    ASSUME LossInv, heard' = heard, heard \subseteq Nat, NEW lo \in Nat,
           Settled \in Nat, Settled' \in Nat, Settled <= lo, lo <= Settled',
           \A g \in ToSet(gaps') : g.first < g.end,
           \A x \in Nat, r \in Reasons : Reported(x, r) => Reported(x, r)',
           \A x \in Nat, r \in LossReasons :
              Reported(x, r)' => Reported(x, r) \/ (lo <= x /\ x < Settled'),
           Complete' => \A x \in Nat : lo <= x /\ x < Settled' =>
              \E r \in LossReasons \cup {"processing_failure"} : Reported(x, r)',
           Complete' => lo <= origin' \/ (Complete /\ origin' = origin /\ lo = Settled),
           origin' \in Nat
    PROVE  LossInv'
  <1>1. \A x \in heard : x < lo /\ x < Settled'
    <2> SUFFICES ASSUME NEW x \in heard PROVE x < lo /\ x < Settled'
      OBVIOUS
    <2>1. x < Settled /\ x \in Nat
      BY DEF LossInv
    <2> QED BY <2>1
  <1>2. ASSUME NEW x \in Nat, NEW r \in LossReasons, Reported(x, r)'
        PROVE  x < Settled' /\ x \notin heard
    <2>1. CASE Reported(x, r)
      <3>1. x < Settled /\ x \notin heard
        BY <2>1 DEF LossInv
      <3> QED BY <3>1
    <2>2. CASE lo <= x /\ x < Settled'
      <3>1. ~ (x < lo)
        BY <2>2
      <3> QED BY <1>1, <2>2, <3>1
    <2> QED BY <1>2, <2>1, <2>2
  <1>3. ASSUME Complete', NEW x \in Nat, origin' <= x, x < Settled', x \notin heard
        PROVE  \E r \in LossReasons \cup {"processing_failure"} : Reported(x, r)'
    <2>1. CASE lo <= x
      BY <1>3, <2>1
    <2>2. CASE ~ (lo <= x)
      <3>1. Complete /\ origin' = origin /\ lo = Settled
        BY <1>3, <2>2
      <3>2. x < Settled
        BY <2>2, <3>1
      <3>3. \E r \in LossReasons \cup {"processing_failure"} : Reported(x, r)
        BY <1>3, <3>1, <3>2 DEF LossInv
      <3>4. LossReasons \cup {"processing_failure"} \subseteq Reasons
        BY DEF Reasons, LossReasons
      <3> QED BY <3>3, <3>4
    <2> QED BY <2>1, <2>2
  <1> QED BY <1>1, <1>2, <1>3 DEF LossInv

\* What the hole before a block and the refusal of the block add together.
Settles(lo, hi, lost) ==
    /\ LedgerOf(view', gaps') /\ view'.sourceGap = view.sourceGap + lost
    /\ \A c \in Flow : view'[c] = view[c]
    /\ view'.gapOverflows = 0 => view.gapOverflows = 0
    /\ \A x \in Nat, r \in Reasons :
         /\ Reported(x, r) => Reported(x, r)'
         /\ Reported(x, r)' => Reported(x, r) \/ (lo <= x /\ x < hi)
    /\ view'.gapOverflows = 0 => \A x \in Nat : lo <= x /\ x < hi =>
         \E r \in LossReasons \cup {"processing_failure"} : Reported(x, r)'

LEMMA OneGapSettles ==
    ASSUME LedgerOf(view, gaps), taken' = taken, NEW lo \in Nat, NEW hi \in Nat, NEW lost \in Nat,
           NEW reason \in LossReasons \cup {"processing_failure"},
           Adds(view, gaps, lo, hi, reason, lost, view', gaps')
    PROVE  Settles(lo, hi, lost)
  <1>1. reason \in Reasons
    BY DEF Reasons, LossReasons
  <1>2. /\ view.gapOverflows \in Nat /\ view'.gapOverflows \in Nat
        /\ view'.gapOverflows >= view.gapOverflows
    BY CountersNamed DEF Adds, LedgerOf
  <1>3. view'.gapOverflows = 0 => view.gapOverflows = 0 /\ view'.gapOverflows = view.gapOverflows
    BY <1>2
  <1>4. \A x \in Nat, r \in Reasons :
         /\ Reported(x, r) => Reported(x, r)'
         /\ Reported(x, r)' => Reported(x, r) \/ (lo <= x /\ x < hi)
    BY ReportedAfter
  <1>5. view'.gapOverflows = 0 => \A x \in Nat : lo <= x /\ x < hi => Reported(x, reason)'
    BY <1>1, <1>3, ReportedAfter
  <1> QED BY <1>3, <1>4, <1>5 DEF Settles, Adds

LEMMA TwoGapsSettle ==
    ASSUME LedgerOf(view, gaps), taken' = taken, NEW lo \in Nat, NEW mid \in Nat, NEW hi \in Nat,
           NEW a \in Nat, NEW b \in Nat, NEW v, NEW q,
           NEW reason \in LossReasons \cup {"processing_failure"},
           Adds(view, gaps, lo, mid, "input_discontinuity", a, v, q),
           Adds(v, q, mid, hi, reason, b, view', gaps'), lo <= mid, mid <= hi
    PROVE  Settles(lo, hi, a + b)
  <1>1. reason \in Reasons /\ "input_discontinuity" \in Reasons \cap LossReasons
    BY DEF Reasons, LossReasons
  <1>2. /\ view.gapOverflows \in Nat /\ view'.gapOverflows \in Nat /\ v.gapOverflows \in Nat
        /\ view'.gapOverflows >= v.gapOverflows /\ v.gapOverflows >= view.gapOverflows
    BY CountersNamed DEF Adds, LedgerOf
  <1>3. view'.gapOverflows = 0 =>
          /\ view.gapOverflows = 0 /\ v.gapOverflows = view.gapOverflows
          /\ view'.gapOverflows = v.gapOverflows
    BY <1>2
  <1>4. \A x \in Nat, r \in Reasons :
          /\ Reports(ToSet(gaps), x, r) => Reports(ToSet(gaps'), x, r)
          /\ Reports(ToSet(gaps'), x, r) =>
               \/ Reports(ToSet(gaps), x, r)
               \/ lo <= x /\ x < mid
               \/ mid <= x /\ x < hi
    BY DEF Adds
  <1>5. view'.gapOverflows = 0 => \A x \in Nat :
          /\ lo <= x /\ x < mid => Reports(ToSet(gaps'), x, "input_discontinuity")
          /\ mid <= x /\ x < hi => Reports(ToSet(gaps'), x, reason)
    BY <1>1, <1>3 DEF Adds
  <1>6. \A gs, hs, y, r : Reports(gs \cup hs, y, r) <=> Reports(gs, y, r) \/ Reports(hs, y, r)
    BY DEF Reports
  <1>7. \A y, r : /\ Reported(y, r) <=> Reports(ToSet(gaps), y, r) \/ Reports(taken, y, r)
                  /\ Reported(y, r)' <=> Reports(ToSet(gaps'), y, r) \/ Reports(taken, y, r)
    BY <1>6 DEF Reported
  <1>8. ASSUME NEW x \in Nat PROVE /\ lo <= x /\ x < mid => lo <= x /\ x < hi
                                   /\ mid <= x /\ x < hi => lo <= x /\ x < hi
                                   /\ lo <= x /\ x < hi => (lo <= x /\ x < mid) \/ (mid <= x /\ x < hi)
    OBVIOUS
  <1>9. \A x \in Nat, r \in Reasons :
         /\ Reported(x, r) => Reported(x, r)'
         /\ Reported(x, r)' => Reported(x, r) \/ (lo <= x /\ x < hi)
    BY <1>4, <1>7, <1>8
  <1>10. view'.gapOverflows = 0 => \A x \in Nat : lo <= x /\ x < hi =>
           Reported(x, "input_discontinuity")' \/ Reported(x, reason)'
    BY <1>5, <1>7, <1>8
  <1>11. view'.sourceGap = view.sourceGap + (a + b)
    <2>1. view.sourceGap \in Nat
      BY CountersNamed DEF LedgerOf
    <2>2. view'.sourceGap = v.sourceGap + b /\ v.sourceGap = view.sourceGap + a
      BY DEF Adds
    <2> QED BY <2>1, <2>2
  <1>12. \A c \in Flow : view'[c] = view[c]
    BY DEF Adds
  <1>13. LedgerOf(view', gaps')
    BY DEF Adds
  <1> QED BY <1>1, <1>3, <1>9, <1>10, <1>11, <1>12, <1>13 DEF Settles

LEMMA SubmitForwardStep ==
    ASSUME SourceInv, NEW first \in Nat, NEW n \in Nat, SubmitForward(first, n)
    PROVE  SourceInv'
  <1> DEFINE end == first + n
             hole == IF submittedBefore
                     THEN GapLocked(view, gaps, expectedSubmission, first,
                                    "input_discontinuity", "all", TRUE)
                     ELSE <<view, gaps>>
             lo == IF submittedBefore THEN expectedSubmission ELSE first
  <1>1. /\ cpc = "idle" /\ submits' = submits + 1 /\ n # 0
        /\ submittedBefore => first >= expectedSubmission
        /\ submittedBefore' = TRUE /\ expectedSubmission' = end
        /\ origin' = IF submittedBefore THEN origin ELSE first
        /\ UNCHANGED heard /\ QueueUnchanged
        /\ UNCHANGED <<sources, ppc, bandGaps, taken>>
    BY DEF SubmitForward, NewCall, QueueUnchanged, producerVars
  <1>2. /\ TypeOK /\ Sizes /\ LedgerOf(view, gaps) /\ view \in [Counters -> Nat]
        /\ expectedSubmission \in Nat /\ origin \in Nat /\ submits \in Nat /\ heard \subseteq Nat
    BY SizesHold DEF TypeOK, LedgerTypes, CallerTypes, SourceTypes
  <1>3. /\ lo \in Nat /\ lo <= first /\ end \in Nat /\ first <= end
        /\ submittedBefore => lo = expectedSubmission
        /\ ~submittedBefore => lo = first /\ expectedSubmission = 0
    BY <1>1, <1>2 DEF SourceInv, FreshInv
  <1>4. Adds(view, gaps, lo, first, "input_discontinuity", first - lo, hole[1], hole[2])
    <2>0. "input_discontinuity" \in Reasons
      BY DEF Reasons
    <2>1. CASE submittedBefore
      <3>1. (IF expectedSubmission < first THEN first - expectedSubmission ELSE 0) = first - lo
        BY <1>2, <1>3, <2>1
      <3>2. Adds(view, gaps, expectedSubmission, first, "input_discontinuity",
                 IF expectedSubmission < first THEN first - expectedSubmission ELSE 0,
                 hole[1], hole[2])
        <4>1. hole = GapLocked(view, gaps, expectedSubmission, first,
                               "input_discontinuity", "all", TRUE)
          BY <2>1
        <4> HIDE DEF hole
        <4> QED BY <1>2, <2>0, <4>1, GapLockedAdds
      <3> QED BY <1>3, <2>1, <3>1, <3>2
    <2>2. CASE ~submittedBefore
      <3>1. hole[1] = view /\ hole[2] = gaps /\ lo = first /\ first - lo = 0 /\ first <= first
        BY <2>2
      <3>2. Adds(view, gaps, first, first, "input_discontinuity", 0, view, gaps)
        BY <1>2, <2>0, <3>1, NoGapAdded
      <3> QED BY <3>1, <3>2
    <2> QED BY <2>1, <2>2
  <1>5. \/ /\ view' = hole[1] /\ gaps' = hole[2]
           /\ cpc' = "lock" /\ call' = [first |-> first, count |-> n]
        \/ /\ UNCHANGED <<cpc, call>>
           /\ \E reason \in {"input_too_large", "processing_failure"} :
                LET r == Rejected(hole[1], hole[2], first, end, reason)
                IN  view' = r[1] /\ gaps' = r[2]
    BY DEF SubmitForward, Record
  <1> HIDE DEF hole, lo, end
  <1>6. LedgerOf(hole[1], hole[2]) /\ n = end - first /\ first - lo \in Nat
    BY <1>3, <1>4 DEF Adds, end
  <1> DEFINE hi == IF cpc' = "lock" THEN first ELSE end
  <1>7. /\ Settles(lo, hi, (first - lo) + (hi - first))
        /\ hi \in Nat /\ first <= hi /\ lo <= hi /\ hi <= end
        /\ \/ cpc' = "lock" /\ call' = [first |-> first, count |-> n]
           \/ UNCHANGED <<cpc, call>>
    <2>1. CASE /\ view' = hole[1] /\ gaps' = hole[2]
               /\ cpc' = "lock" /\ call' = [first |-> first, count |-> n]
      <3>1. Adds(view, gaps, lo, first, "input_discontinuity", first - lo, view', gaps')
        BY <1>4, <2>1
      <3>2. Settles(lo, first, first - lo)
        BY <1>1, <1>2, <1>3, <1>6, <3>1, OneGapSettles DEF LossReasons
      <3>3. hi = first /\ (first - lo) + (hi - first) = first - lo
        BY <1>6, <2>1
      <3> QED BY <1>3, <2>1, <3>2, <3>3
    <2>2. CASE /\ UNCHANGED <<cpc, call>>
               /\ \E reason \in {"input_too_large", "processing_failure"} :
                    LET r == Rejected(hole[1], hole[2], first, end, reason)
                    IN  view' = r[1] /\ gaps' = r[2]
      <3>1. PICK reason \in {"input_too_large", "processing_failure"} :
              /\ view' = Rejected(hole[1], hole[2], first, end, reason)[1]
              /\ gaps' = Rejected(hole[1], hole[2], first, end, reason)[2]
        BY <2>2
      <3>2. /\ reason \in Reasons /\ Elapsed(reason)
            /\ reason \in LossReasons \cup {"processing_failure"}
        BY DEF Reasons, Elapsed, LossReasons
      <3> DEFINE r == Rejected(hole[1], hole[2], first, end, reason)
      <3>3. view' = r[1] /\ gaps' = r[2]
        BY <3>1
      <3> HIDE DEF r
      <3>4. Adds(hole[1], hole[2], first, end, reason,
                 IF Elapsed(reason) THEN end - first ELSE 0, r[1], r[2])
        BY <1>3, <1>6, <3>2, RejectedAdds DEF r
      <3>5. Adds(hole[1], hole[2], first, end, reason, end - first, view', gaps')
        BY <3>2, <3>3, <3>4
      <3>6. end - first \in Nat
        BY <1>6
      <3>7. Settles(lo, end, (first - lo) + (end - first))
        BY <1>1, <1>2, <1>3, <1>4, <1>6, <3>2, <3>5, <3>6, TwoGapsSettle
      <3>8. hi = end
        BY <1>1, <2>2
      <3> QED BY <1>3, <2>2, <3>7, <3>8
    <2> QED BY <1>5, <2>1, <2>2
  <1>8. Settled' = hi /\ Settled = expectedSubmission /\ (cpc' = "lock" \/ cpc' = "idle")
        /\ (cpc' = "lock" => call'.first = first /\ call'.count = n)
    BY <1>1, <1>7 DEF Settled
  <1>9. /\ view' \in [Counters -> Nat]
        /\ view'.accepted = view.accepted /\ view'.channelized = view.channelized
        /\ view'.abandoned = view.abandoned /\ view'.afterClose = view.afterClose
        /\ view'.sourceGap = view.sourceGap + ((first - lo) + (hi - first))
    BY <1>7 DEF Settles, Flow, LedgerOf
  <1> HIDE DEF hi
  <1>10. /\ ThreadTypes' /\ SegmentsAreGapless'
         /\ view'.accepted + (IF ppc' = "pop" THEN Head(sources').count ELSE 0)
              = view'.channelized + view'.abandoned + Queued'
         /\ SourceTypes'
    <2>1. origin' \in Nat
      BY <1>1, <1>2
    <2> QED BY <1>1, <1>9, <2>1, CallerFrame
  <1>11. TypeOK'
    <2>1. call' \in Blocks
      BY <1>2, <1>7 DEF Blocks, TypeOK, CallerTypes
    <2>2. CallerTypes'
      BY <1>1, <1>2, <1>3, <1>8, <2>1 DEF CallerTypes
    <2>3. LedgerTypes'
      BY <1>1, <1>2, <1>7 DEF TypeOK, LedgerTypes, Settles, LedgerOf
    <2> QED BY <1>10, <2>2, <2>3 DEF TypeOK
  <1>12. BlockInv' /\ FreshInv'
    <2>1. cpc' = "lock" => call'.count # 0 /\ call'.first + call'.count = expectedSubmission'
      BY <1>1, <1>8 DEF end
    <2> QED BY <1>1, <2>1 DEF SourceInv, BlockInv, FreshInv
  <1>13. InputConserved'
    <2> SUFFICES ASSUME view'.afterClose = 0
                 PROVE  expectedSubmission' - origin'
                          = view'.accepted + view'.sourceGap + (IF cpc' = "lock" THEN call'.count ELSE 0)
      BY <1>10 DEF InputConserved
    <2>1. end - origin' = view.accepted + (view.sourceGap + ((first - lo) + (hi - first)))
                            + (IF cpc' = "lock" THEN n ELSE 0)
      <3>1. (hi - first) + (IF cpc' = "lock" THEN n ELSE 0) = n
        BY <1>6 DEF hi, end
      <3>2. view.accepted \in Nat /\ view.sourceGap \in Nat
        BY <1>2 DEF Sizes
      <3>3. CASE submittedBefore
        <4>1. expectedSubmission - origin = view.accepted + view.sourceGap + 0
          BY <1>1, <1>9, <3>3 DEF SourceInv, InputConserved
        <4>2. origin' = origin /\ lo = expectedSubmission
          BY <1>1, <1>3, <3>3
        <4> QED BY <1>2, <1>3, <1>6, <1>7, <3>1, <3>2, <4>1, <4>2
      <3>4. CASE ~submittedBefore
        <4>1. view.accepted = 0 /\ view.sourceGap = 0 /\ origin' = first /\ lo = first
          BY <1>1, <1>3, <3>4 DEF SourceInv, FreshInv
        <4> QED BY <1>3, <1>6, <1>7, <3>1, <4>1
      <3> QED BY <3>3, <3>4
    <2> QED BY <1>1, <1>8, <1>9, <2>1
  <1>14. LossInv'
    <2>1. Complete' => lo <= origin' \/ (Complete /\ origin' = origin /\ lo = Settled)
      <3>1. CASE submittedBefore
        BY <1>1, <1>3, <1>7, <1>8, <1>9, <3>1 DEF Complete, Settles
      <3>2. CASE ~submittedBefore
        BY <1>1, <1>3, <3>2
      <3> QED BY <3>1, <3>2
    <2>2. LossReasons \subseteq Reasons
      BY DEF LossReasons, Reasons
    <2>3. Settled <= lo /\ Settled \in Nat /\ origin' \in Nat /\ lo <= Settled' /\ Settled' \in Nat
      BY <1>1, <1>2, <1>3, <1>7, <1>8
    <2>4. \A g \in ToSet(gaps') : g.first < g.end
      BY <1>7 DEF Settles, LedgerOf
    <2>5. /\ \A x \in Nat, r \in Reasons : Reported(x, r) => Reported(x, r)'
          /\ \A x \in Nat, r \in LossReasons :
                Reported(x, r)' => Reported(x, r) \/ (lo <= x /\ x < Settled')
          /\ Complete' => \A x \in Nat : lo <= x /\ x < Settled' =>
                \E r \in LossReasons \cup {"processing_failure"} : Reported(x, r)'
      BY <1>7, <1>8, <2>2 DEF Settles, Complete
    <2>6. LossInv /\ heard' = heard
      BY <1>1 DEF SourceInv
    <2> QED BY <1>2, <1>3, <2>1, <2>3, <2>4, <2>5, <2>6, LossSettles
  <1> QED BY <1>10, <1>11, <1>12, <1>13, <1>14 DEF SourceInv

\* What SubmitLocked leaves alone, and the block it is about.
LEMMA LockedCall ==
    ASSUME SourceInv, SubmitLocked
    PROVE  /\ cpc = "lock" /\ UNCHANGED <<call, submittedBefore, expectedSubmission, submits, flags,
                                          producerVars, npc, fpc, bandGaps, taken, origin>>
           /\ call \in Blocks /\ call.first \in Nat /\ call.count \in Nat /\ call.count # 0
           /\ call.first + call.count = expectedSubmission /\ expectedSubmission \in Nat
           /\ Settled = call.first /\ call.first < expectedSubmission
           /\ submittedBefore /\ TypeOK /\ Sizes /\ LedgerOf(view, gaps) /\ view \in [Counters -> Nat]
  <1>1. cpc = "lock" /\ UNCHANGED <<call, submittedBefore, expectedSubmission, submits, flags,
                                    producerVars, npc, fpc, bandGaps, taken, origin>>
    BY DEF SubmitLocked
  <1>2. /\ submittedBefore /\ TypeOK /\ Sizes /\ LedgerOf(view, gaps) /\ view \in [Counters -> Nat]
        /\ call \in Blocks
    BY <1>1, SizesHold DEF SourceInv, BlockInv, TypeOK, CallerTypes, LedgerTypes
  <1>3. call.first \in Nat /\ call.count \in Nat
    BY <1>2 DEF Blocks
  <1>4. call.count # 0 /\ call.first + call.count = expectedSubmission /\ Settled = call.first
    BY <1>1 DEF SourceInv, BlockInv, Settled
  <1>5. expectedSubmission \in Nat /\ call.first < expectedSubmission
    BY <1>3, <1>4
  <1> QED BY <1>1, <1>2, <1>3, <1>4, <1>5

\* A block refused under source_mutex is settled with its gap, unless the worker was
\* closed meanwhile.
LEMMA RefusedStep ==
    ASSUME SourceInv, SubmitLocked, cpc' = "idle", UNCHANGED <<sources, heard>>,
           \/ Bump("afterClose", 1)
           \/ \E reason \in {"processing_failure", "source_queue_full"} :
                Record(Rejected(view, gaps, call.first, call.first + call.count, reason))
    PROVE  SourceInv'
  <1>1. /\ cpc = "lock" /\ UNCHANGED <<call, submittedBefore, expectedSubmission, submits, flags,
                                       producerVars, npc, fpc, bandGaps, taken, origin>>
        /\ call \in Blocks /\ call.first \in Nat /\ call.count \in Nat /\ call.count # 0
        /\ call.first + call.count = expectedSubmission /\ expectedSubmission \in Nat
        /\ Settled = call.first /\ call.first < expectedSubmission
        /\ submittedBefore /\ TypeOK /\ Sizes /\ LedgerOf(view, gaps) /\ view \in [Counters -> Nat]
    BY LockedCall
  <1>2. QueueUnchanged /\ UNCHANGED <<ppc, sources>> /\ Settled' = expectedSubmission
        /\ LossInv /\ heard \subseteq Nat /\ origin \in Nat
    BY <1>1 DEF QueueUnchanged, producerVars, Settled, SourceInv, TypeOK, SourceTypes
  <1>3. /\ LedgerOf(view', gaps') /\ view'.accepted = view.accepted
        /\ view'.channelized = view.channelized /\ view'.abandoned = view.abandoned
        /\ view'.afterClose = 0 =>
             view.afterClose = 0 /\ view'.sourceGap = view.sourceGap + call.count
        /\ LossInv'
    <2>1. CASE Bump("afterClose", 1)
      <3>1. /\ view' \in [Counters -> Nat] /\ gaps' = gaps /\ view'.afterClose = view.afterClose + 1
            /\ \A k \in Counters \ {"afterClose"} : view'[k] = view[k]
        BY <1>1, <2>1, Bumped, CountersNamed
      <3>2. /\ view'.accepted = view.accepted /\ view'.channelized = view.channelized
            /\ view'.abandoned = view.abandoned
        BY <3>1, CountersNamed
      <3>3. view'.afterClose # 0
        <4>1. view.afterClose \in Nat
          BY <1>1 DEF Sizes
        <4> QED BY <3>1, <4>1
      <3>4. \A x, r : Reported(x, r)' <=> Reported(x, r)
        BY <1>1, <3>1 DEF Reported
      <3>5. ASSUME NEW x \in Nat, x < Settled PROVE x < Settled'
        BY <1>1, <1>2, <3>5
      <3>6. ~Complete'
        BY <3>3 DEF Complete
      <3>7. LossInv'
        BY <1>2, <3>1, <3>4, <3>5, <3>6 DEF LossInv
      <3> QED BY <1>1, <3>1, <3>2, <3>3, <3>7 DEF LedgerOf
    <2>2. ASSUME NEW reason \in {"processing_failure", "source_queue_full"},
                 Record(Rejected(view, gaps, call.first, call.first + call.count, reason))
          PROVE  /\ LedgerOf(view', gaps') /\ view'.accepted = view.accepted
                 /\ view'.channelized = view.channelized /\ view'.abandoned = view.abandoned
                 /\ view'.afterClose = 0 =>
                      view.afterClose = 0 /\ view'.sourceGap = view.sourceGap + call.count
                 /\ LossInv'
      <3>1. /\ reason \in Reasons /\ Elapsed(reason)
            /\ reason \in LossReasons \cup {"processing_failure"}
        BY DEF Reasons, Elapsed, LossReasons
      <3> DEFINE r == Rejected(view, gaps, call.first, expectedSubmission, reason)
      <3>2. view' = r[1] /\ gaps' = r[2]
        BY <1>1, <2>2 DEF Record
      <3> HIDE DEF r
      <3>3. Adds(view, gaps, call.first, expectedSubmission, reason,
                 IF Elapsed(reason) THEN expectedSubmission - call.first ELSE 0, r[1], r[2])
        <4>1. call.first <= expectedSubmission
          BY <1>1
        <4> QED BY <1>1, <3>1, <4>1, RejectedAdds DEF r
      <3>4. expectedSubmission - call.first = call.count
        BY <1>1
      <3>5. Adds(view, gaps, call.first, expectedSubmission, reason, call.count, view', gaps')
        BY <3>1, <3>2, <3>3, <3>4
      <3>6. Settles(call.first, expectedSubmission, call.count)
        BY <1>1, <3>1, <3>5, OneGapSettles
      <3>7. LossInv'
        <4>1. Complete' => Complete
          BY <1>1, <3>6 DEF Complete, Settles, Flow
        <4>2. LossReasons \subseteq Reasons
          BY DEF LossReasons, Reasons
        <4>3. \A g \in ToSet(gaps') : g.first < g.end
          BY <3>6 DEF Settles, LedgerOf
        <4>4. /\ \A x \in Nat, q \in Reasons : Reported(x, q) => Reported(x, q)'
              /\ \A x \in Nat, q \in LossReasons :
                    Reported(x, q)' => Reported(x, q) \/ (call.first <= x /\ x < Settled')
              /\ Complete' => \A x \in Nat : call.first <= x /\ x < Settled' =>
                    \E q \in LossReasons \cup {"processing_failure"} : Reported(x, q)'
          BY <1>2, <3>6, <4>2 DEF Settles, Complete
        <4>5. /\ Settled \in Nat /\ Settled' \in Nat /\ Settled <= call.first
              /\ call.first <= Settled' /\ origin' \in Nat /\ origin' = origin
          BY <1>1, <1>2
        <4> QED BY <1>1, <1>2, <4>1, <4>3, <4>4, <4>5, LossSettles
      <3> QED BY <3>6, <3>7 DEF Settles, Flow
    <2> QED BY <2>1, <2>2
  <1>4. /\ ThreadTypes' /\ SegmentsAreGapless'
        /\ view'.accepted + (IF ppc' = "pop" THEN Head(sources').count ELSE 0)
             = view'.channelized + view'.abandoned + Queued'
        /\ SourceTypes'
    <2>1. origin' \in Nat /\ view' \in [Counters -> Nat]
      BY <1>1, <1>2, <1>3 DEF LedgerOf
    <2> QED BY <1>2, <1>3, <2>1, CallerFrame
  <1>5. TypeOK'
    <2>1. CallerTypes'
      BY <1>1 DEF TypeOK, CallerTypes
    <2>2. LedgerTypes'
      BY <1>1, <1>3 DEF TypeOK, LedgerTypes, LedgerOf
    <2> QED BY <1>4, <2>1, <2>2 DEF TypeOK
  <1>6. BlockInv' /\ FreshInv'
    BY <1>1, <1>2 DEF SourceInv, BlockInv, FreshInv
  <1>7. InputConserved'
    <2> SUFFICES ASSUME view'.afterClose = 0
                 PROVE  expectedSubmission' - origin' = view'.accepted + view'.sourceGap + 0
      BY <1>4 DEF InputConserved
    <2>1. expectedSubmission - origin = view.accepted + view.sourceGap + call.count
      BY <1>1, <1>3 DEF SourceInv, InputConserved
    <2>2. view.accepted + view.sourceGap + call.count
            = view.accepted + (view.sourceGap + call.count) + 0
      BY <1>1 DEF Sizes
    <2> QED BY <1>1, <1>3, <2>1, <2>2
  <1> QED BY <1>3, <1>4, <1>5, <1>6, <1>7 DEF SourceInv

\* A block accepted is heard, and settled as such.
Accepts ==
    /\ ~QueueFull /\ sources' = Append(sources, call) /\ Bump("accepted", call.count)
    /\ heard' = heard \cup (call.first .. (call.first + call.count) - 1)
    /\ cpc' = "notify"
LEMMA AcceptedStep ==
    ASSUME SourceInv, SubmitLocked, Accepts
    PROVE  SourceInv'
  <1>0. heard' = heard \cup (call.first .. (call.first + call.count) - 1) /\ cpc' = "notify"
    BY DEF Accepts
  <1>1. /\ cpc = "lock" /\ UNCHANGED <<call, submittedBefore, expectedSubmission, submits, flags,
                                       producerVars, npc, fpc, bandGaps, taken, origin>>
        /\ call \in Blocks /\ call.first \in Nat /\ call.count \in Nat /\ call.count # 0
        /\ call.first + call.count = expectedSubmission /\ expectedSubmission \in Nat
        /\ Settled = call.first /\ call.first < expectedSubmission
        /\ submittedBefore /\ TypeOK /\ Sizes /\ LedgerOf(view, gaps) /\ view \in [Counters -> Nat]
    BY LockedCall
  <1>2. /\ view' \in [Counters -> Nat] /\ view'.accepted = view.accepted + call.count /\ gaps' = gaps
        /\ \A k \in Counters \ {"accepted"} : view'[k] = view[k]
    BY <1>1, Bumped, CountersNamed DEF Accepts
  <1>3. /\ view'.channelized = view.channelized /\ view'.abandoned = view.abandoned
        /\ view'.afterClose = view.afterClose /\ view'.sourceGap = view.sourceGap
        /\ view'.gapOverflows = view.gapOverflows
    BY <1>2, CountersNamed
  <1>4. /\ sources \in Seq(Blocks) /\ sources' \in Seq(Blocks) /\ Len(sources') = Len(sources) + 1
        /\ \A i \in 1 .. Len(sources) : sources'[i] = sources[i]
        /\ sources'[Len(sources) + 1] = call /\ Len(sources) \in Nat
        /\ DOMAIN sources' = 1 .. Len(sources) + 1 /\ DOMAIN sources = 1 .. Len(sources)
        /\ Len(sources) <= SourceCapacity
    <2>1. sources \in Seq(Blocks) /\ Len(sources) <= SourceCapacity
      BY <1>1 DEF TypeOK, SourceTypes
    <2>2. Len(sources') = Len(sources) + 1 /\ sources' \in Seq(Blocks)
      BY <1>1, <2>1, AppendProperties DEF Accepts
    <2> QED BY <1>1, <2>1, <2>2, AppendProperties, LenProperties DEF Accepts
  <1>5. Queued' = Queued + call.count /\ Queued \in Nat
    BY <1>1, <1>4, QueuedGrows DEF Accepts
  <1>6. Span(call) \subseteq heard' /\ heard \subseteq heard' /\ heard' \subseteq Nat
    <2>1. heard \subseteq Nat /\ call.first .. (call.first + call.count) - 1 \subseteq Nat
      BY <1>1 DEF TypeOK, SourceTypes
    <2>2. Span(call) = call.first .. (call.first + call.count) - 1
      BY <1>1 DEF Span
    <2> QED BY <1>0, <2>1, <2>2
  <1>7. TypeOK'
    <2>1. Len(sources') <= SourceCapacity
      <3>1. Len(sources) # SourceCapacity
        BY DEF QueueFull, Accepts
      <3>2. SourceCapacity \in Nat /\ Len(sources) \in Nat /\ Len(sources) <= SourceCapacity
        BY <1>4
      <3>a. \A a, b \in Nat : a <= b /\ a # b => a + 1 <= b
        OBVIOUS
      <3>3. Len(sources) + 1 <= SourceCapacity
        BY <3>1, <3>2, <3>a
      <3> QED BY <1>4, <3>3
    <2>2. CallerTypes' /\ ThreadTypes'
      BY <1>0, <1>1 DEF TypeOK, CallerTypes, ThreadTypes, flags, producerVars
    <2>3. SourceTypes'
      BY <1>1, <1>4, <1>6, <2>1 DEF TypeOK, SourceTypes, producerVars
    <2>4. LedgerTypes'
      BY <1>1, <1>2 DEF TypeOK, LedgerTypes
    <2> QED BY <2>2, <2>3, <2>4 DEF TypeOK
  <1>8. BlockInv'
    <2>1. ASSUME NEW i \in DOMAIN sources'
          PROVE  sources'[i].count # 0 /\ Span(sources'[i]) \subseteq heard'
      <3>1. CASE i \in DOMAIN sources
        <4>1. sources[i].count # 0 /\ Span(sources[i]) \subseteq heard /\ sources'[i] = sources[i]
          BY <1>4, <3>1 DEF SourceInv, BlockInv
        <4> QED BY <1>6, <4>1
      <3>2. CASE i = Len(sources) + 1
        BY <1>1, <1>4, <1>6, <3>2
      <3> QED BY <1>4, <3>1, <3>2
    <2>2. sources' # <<>>
      BY <1>4, EmptySeq
    <2> QED BY <1>0, <2>1, <2>2 DEF BlockInv
  <1>9. SegmentsAreGapless' /\ FreshInv'
    BY <1>1, <1>6 DEF SourceInv, SegmentsAreGapless, FreshInv, producerVars
  <1>10. InputConserved'
    <2> DEFINE h == IF ppc = "pop" THEN Head(sources).count ELSE 0
    <2>1. /\ view.accepted + h = view.channelized + view.abandoned + Queued
          /\ view.afterClose = 0 => expectedSubmission - origin
                                      = view.accepted + view.sourceGap + call.count
      BY <1>1 DEF SourceInv, InputConserved
    <2>2. h \in Nat /\ h = IF ppc' = "pop" THEN Head(sources').count ELSE 0
      <3>1. ppc' = ppc
        BY <1>1 DEF producerVars
      <3>2. CASE ppc = "pop"
        <4>1. sources # <<>>
          BY <3>2 DEF SourceInv, BlockInv
        <4>2. Head(sources) \in Blocks /\ Head(sources) = sources[1] /\ 1 \in 1 .. Len(sources)
          BY <1>4, <4>1, HeadTailProperties, EmptySeq
        <4>3. sources' # <<>> /\ Head(sources') = sources'[1]
          <5>1. sources' # <<>>
            BY <1>4, EmptySeq
          <5> QED BY <1>4, <5>1, HeadTailProperties
        <4> QED BY <1>4, <3>1, <3>2, <4>2, <4>3 DEF Blocks
      <3>3. CASE ppc # "pop"
        BY <3>1, <3>3
      <3> QED BY <3>2, <3>3
    <2> HIDE DEF h
    <2>3. \A a, k, c, d, q, m \in Nat : a + k = c + d + q => (a + m) + k = c + d + (q + m)
      OBVIOUS
    <2>4. view'.accepted + h = view'.channelized + view'.abandoned + Queued'
      <3>1. (view.accepted + call.count) + h = view.channelized + view.abandoned + (Queued + call.count)
        <4>1. /\ view.accepted \in Nat /\ view.channelized \in Nat /\ view.abandoned \in Nat
              /\ h \in Nat /\ Queued \in Nat /\ call.count \in Nat
          BY <1>1, <1>5, <2>2 DEF Sizes
        <4>2. view.accepted + h = view.channelized + view.abandoned + Queued
          BY <2>1
        <4> QED BY <2>3, <4>1, <4>2
      <3> QED BY <1>2, <1>3, <1>5, <3>1
    <2>5. view'.afterClose = 0 => expectedSubmission' - origin' = view'.accepted + view'.sourceGap + 0
      <3>1. view.accepted + view.sourceGap + call.count
              = (view.accepted + call.count) + view.sourceGap + 0
        BY <1>1 DEF Sizes
      <3> QED BY <1>1, <1>2, <1>3, <2>1, <3>1
    <2> QED BY <1>0, <1>1, <2>2, <2>4, <2>5 DEF InputConserved
  <1>11. LossInv'
    <2>1. \A x, r : Reported(x, r)' <=> Reported(x, r)
      BY <1>1, <1>2 DEF Reported
    <2>2. Settled' = expectedSubmission /\ (Complete' <=> Complete) /\ LossInv
      BY <1>0, <1>1, <1>3 DEF SourceInv, Settled, Complete
    <2>3. \A x \in Nat : x \in heard' <=> x \in heard \/ (call.first <= x /\ x < expectedSubmission)
      BY <1>0, <1>1
    <2>4. ASSUME NEW x \in heard' PROVE x < Settled'
      <3>1. x \in Nat
        BY <1>6
      <3>2. CASE x \in heard
        <4>1. x < call.first
          BY <1>1, <2>2, <3>2 DEF LossInv
        <4> QED BY <1>1, <2>2, <3>1, <4>1
      <3> QED BY <2>2, <2>3, <3>1, <3>2
    <2>5. ASSUME NEW x \in Nat, NEW r \in LossReasons, Reported(x, r)'
          PROVE  x < Settled' /\ x \notin heard'
      <3>1. x < call.first /\ x \notin heard
        BY <1>1, <2>1, <2>2, <2>5 DEF LossInv
      <3> QED BY <1>1, <2>2, <2>3, <3>1
    <2>6. ASSUME Complete', NEW x \in Nat, origin' <= x, x < Settled', x \notin heard'
          PROVE  \E r \in LossReasons \cup {"processing_failure"} : Reported(x, r)'
      <3>1. x < call.first /\ x \notin heard /\ origin <= x /\ Complete
        BY <1>1, <2>2, <2>3, <2>6
      <3> QED BY <1>1, <2>1, <2>2, <3>1 DEF LossInv
    <2>7. \A g \in ToSet(gaps') : g.first < g.end
      BY <1>1, <1>2 DEF LedgerOf
    <2> QED BY <2>4, <2>5, <2>6, <2>7 DEF LossInv
  <1> QED BY <1>7, <1>8, <1>9, <1>10, <1>11 DEF SourceInv

LEMMA SubmitLockedStep == ASSUME SourceInv, SubmitLocked PROVE SourceInv'
  <1>1. \/ /\ Bump("afterClose", 1) /\ cpc' = "idle" /\ UNCHANGED <<sources, heard>>
        \/ /\ Record(Rejected(view, gaps, call.first, call.first + call.count, "processing_failure"))
           /\ cpc' = "idle" /\ UNCHANGED <<sources, heard>>
        \/ /\ Record(Rejected(view, gaps, call.first, call.first + call.count, "source_queue_full"))
           /\ cpc' = "idle" /\ UNCHANGED <<sources, heard>>
        \/ Accepts
    BY Zenon DEF SubmitLocked, Accepts
  <1> QED BY <1>1, RefusedStep, AcceptedStep

-----------------------------------------------------------------------------
(* The theorems.                                                           *)

LEMMA SourceStep == SourceInv /\ [Next]_vars => SourceInv'
  <1> SUFFICES ASSUME SourceInv, [Next]_vars PROVE SourceInv'
    OBVIOUS
  <1>1. CASE Submit
    <2>1. CASE SubmitClosed
      BY <2>1, SubmitClosedStep
    <2>2. ASSUME NEW first \in 0 .. MaximumCoordinate, NEW n \in 0 .. MaximumInputBlock + 1,
                 SubmitInvalid(first, n) \/ SubmitForward(first, n)
          PROVE  SourceInv'
      <3>1. first \in Nat /\ n \in Nat
        OBVIOUS
      <3> QED BY <2>2, <3>1, SubmitInvalidStep, SubmitForwardStep
    <2> QED BY <1>1, <2>1, <2>2 DEF Submit
  <1>2. CASE SubmitLocked
    BY <1>2, SubmitLockedStep
  <1>3. CASE TakeGaps
    BY <1>3, TakeGapsStep
  <1>4. CASE NewSegment
    BY <1>4, NewSegmentStep
  <1>5. CASE FeedBlock
    BY <1>5, FeedBlockStep
  <1>6. CASE PopBlock
    BY <1>6, PopBlockStep
  <1>7. CASE DiscardBlock
    BY <1>7, DiscardBlockStep
  <1>8. CASE BandGaps
    <2>1. PICK first \in heard : BandGap(first, first + 1)
      BY <1>8 DEF BandGaps
    <2>2. first \in Nat /\ first + 1 \in Nat
      BY SizesHold DEF TypeOK, SourceTypes
    <2> QED BY <2>1, <2>2, BandGapStep
  <1>9. CASE ThreadStep
    BY <1>9, ThreadSteps
  <1>10. CASE UNCHANGED vars
    <2>1. UNCHANGED <<samples, cpc, submits, ppc, bandGaps, closed, failed, producerDone, npc, fpc>>
      BY <1>10 DEF vars, samples, callerVars, flags, producerVars, ledgerVars
    <2>2. CallerTypes' /\ ThreadTypes' /\ bandGaps' \in Nat
      BY <2>1 DEF SourceInv, TypeOK, CallerTypes, ThreadTypes, LedgerTypes, samples
    <2>3. ppc' = "block" => sources # <<>>
      BY <2>1 DEF SourceInv, BlockInv
    <2> QED BY <2>1, <2>2, <2>3, QuietStep
  <1> QED BY <1>1, <1>2, <1>3, <1>4, <1>5, <1>6, <1>7, <1>8, <1>9, <1>10
          DEF Next, Producer, ThreadStep, Terminated

\* The inductive invariant holds throughout.
THEOREM SourceInvHolds == Spec => []SourceInv
  BY InitInv, SourceStep, PTL DEF Spec

\* Type correctness: in particular the source queue and the gap ledger keep to their
\* capacity, whoever submits, fails or closes in between.
THEOREM SourceTypeCorrect == Spec => []TypeOK
  <1>1. SourceInv => TypeOK
    BY DEF SourceInv
  <1> QED BY <1>1, SourceInvHolds, PTL

\* The channelizer is never fed across a hole: what it got since its reset is one
\* unbroken run of accepted samples (the producer's new-segment test).
THEOREM SegmentsGapless == Spec => []SegmentsAreGapless
  <1>1. SourceInv => SegmentsAreGapless
    BY DEF SourceInv
  <1> QED BY <1>1, SourceInvHolds, PTL

\* Accepted input is queued, channelized or abandoned, once, and the time submitted is
\* accepted input plus source gaps until a call comes after close().
THEOREM InputAccounted == Spec => []InputConserved
  <1>1. SourceInv => InputConserved
    BY DEF SourceInv
  <1> QED BY <1>1, SourceInvHolds, PTL

\* Every submitted sample that was not accepted is inside a reported gap, and no
\* accepted one is inside a gap other than a failure's (gap_locked, reject).
THEOREM LossesReported == Spec => []LossReported
  <1>1. ASSUME SourceInv PROVE LossReported
    <2> SUFFICES ASSUME Complete, NEW x \in origin .. expectedSubmission - 1
                 PROVE  IF x \in heard THEN \A g \in Covering(x) : g.reason = "processing_failure"
                        ELSE Covering(x) # {} \/ (cpc = "lock" /\ x >= call.first)
      BY DEF LossReported, Complete
    <2>1. /\ origin \in Nat /\ expectedSubmission \in Nat /\ x \in Nat /\ origin <= x
          /\ x < expectedSubmission /\ call.first \in Nat /\ LossInv
          /\ ToSet(gaps) \cup taken \subseteq Gaps
      <3>1. TypeOK /\ LossInv
        BY <1>1 DEF SourceInv
      <3>2. origin \in Nat /\ expectedSubmission \in Nat /\ call.first \in Nat
        BY <3>1 DEF TypeOK, SourceTypes, CallerTypes, Blocks
      <3>3. ToSet(gaps) \subseteq Gaps
        <4>1. gaps \in Seq(Gaps) /\ DOMAIN gaps = 1 .. Len(gaps)
          BY <3>1 DEF TypeOK, LedgerTypes
        <4> QED BY <4>1, ElementOfSeq DEF ToSet
      <3> QED BY <3>1, <3>2, <3>3 DEF TypeOK, LedgerTypes
    <2>2. CASE x \in heard
      <3>1. ASSUME NEW g \in Covering(x), g.reason # "processing_failure" PROVE FALSE
        <4>1. /\ g \in ToSet(gaps) \cup taken /\ g.subband = "all" /\ g.first <= x /\ x < g.end
              /\ Elapsed(g.reason)
          BY DEF Covering
        <4>2. g.reason \in Reasons
          BY <2>1, <4>1 DEF Gaps
        <4>3. g.reason \in LossReasons
          BY <3>1, <4>1, <4>2 DEF LossReasons, Reasons, Elapsed
        <4>4. Reported(x, g.reason)
          BY <4>1 DEF Reported, Reports
        <4> QED BY <2>1, <2>2, <4>3, <4>4 DEF LossInv
      <3> QED BY <2>2, <3>1
    <2>3. CASE x \notin heard /\ x < Settled
      <3>1. PICK r \in LossReasons \cup {"processing_failure"} : Reported(x, r)
        BY <2>1, <2>3 DEF LossInv
      <3>2. Elapsed(r)
        BY DEF LossReasons, Elapsed
      <3>3. Covering(x) # {}
        BY <3>1, <3>2 DEF Reported, Reports, Covering
      <3> QED BY <2>3, <3>3
    <2>4. CASE x \notin heard /\ ~ (x < Settled)
      <3>1. cpc = "lock" /\ x >= call.first
        BY <2>1, <2>4 DEF Settled
      <3> QED BY <2>4, <3>1
    <2> QED BY <2>2, <2>3, <2>4
  <1>2. SourceInv => LossReported
    BY <1>1
  <1> QED BY <1>2, SourceInvHolds, PTL
=============================================================================
