-------------------------- MODULE AcquisitionProofs --------------------------
(***************************************************************************)
(* Proofs about Acquisition.tla, for every ring size, frame and tile size, *)
(* number of samples, saves and runs:                                      *)
(*   TypeCorrect       the type invariant (with the bounds of the ring);   *)
(*   SlotsExclusive    the callback never writes the block being read;     *)
(*   SaveIsDurable     a save that reports success is durable;             *)
(*   CoverageIsExact   tiles, open tile and gaps cover every coordinate    *)
(*                     once;                                               *)
(*   FinalIsComplete   a finalized run accounts for every sample.          *)
(***************************************************************************)
EXTENDS Acquisition, TLAPS

\* The i-th block the callback has put into the ring.
Ring(i) == pool[Slot(i)]

\* A claimed slot is free, a slot being read is filled.
RingInv ==
    /\ dpc = "write" => head - tail < PoolBlocks
    /\ wpc \in {"read", "release"} => tail < head

\* The coordinates given to blocks that are in the ring or were dropped.
Numbered == IF dpc \in {"claim", "write"} THEN incoming.first ELSE nextSample
\* The next coordinate the worker has not got yet.
Taken == IF wpc = "feed" THEN expected + samples ELSE expected

\* The blocks of the ring are in the order of their coordinates, after what the
\* worker has taken and before what the callback will number.
QueueInv ==
    /\ dpc \in {"claim", "write"} => incoming.first + incoming.count = nextSample
    /\ \A i \in tail .. head - 1 : Taken <= Ring(i).first
                                   /\ Ring(i).first + Ring(i).count <= Numbered
    /\ \A i, j \in tail .. head - 1 : i < j => Ring(i).first + Ring(i).count <= Ring(j).first
    /\ Taken <= Numbered
    /\ wpc = "release" => Ring(tail).first = expected /\ Ring(tail).count = samples

\* What the flags say about the callback and the worker.
FlagInv ==
    /\ inputFinished => ipc = "ended" /\ dpc = "idle"
    /\ upc \in {"join", "stopped"} => inputFinished
    /\ upc = "stopped" => wpc = "exited"
    /\ finalSaveConfirmed => wpc \in {"end", "exited"}
    /\ wpc \in {"final", "final_commit"} => ~run
    /\ wpc \in {"final", "final_commit"} /\ ~stalled => inputFinished /\ head = tail
    /\ finalSaveConfirmed /\ ~stalled => inputFinished

\* A request being waited for, the copy being committed and what is durable.
SaveInv ==
    /\ saveCompleted <= saveRequested
    /\ durable <= delivered
    /\ wpc \in {"commit", "periodic_commit", "final_commit"} =>
         /\ checkpoint.request <= saveRequested
         /\ durable <= checkpoint.delivered /\ checkpoint.delivered <= delivered
    /\ upc = "saving" =>
         /\ request <= saveRequested /\ asked <= delivered
         /\ saveCompleted >= request => durable >= asked
         /\ wpc \in {"commit", "periodic_commit"} /\ checkpoint.request >= request =>
              checkpoint.delivered >= asked
         /\ wpc = "final_commit" => checkpoint.delivered >= asked
    /\ upc = "saved" => durable >= asked

\* The open tile and the open frame lie in the run; a finalized run has none.
TileInv ==
    /\ pending + openFrames * FrameSize <= expected
    /\ wpc = "final_commit" \/ finalSaveConfirmed => pending = 0 /\ openFrames = 0

UncoveredBy(g) == UNION {GapSamples(x) : x \in g}
\* The tiles t and the gaps g do not overlap and stay below the coordinate n.
Below(t, g, n) ==
    /\ \A x, y \in g : x # y => GapSamples(x) \cap GapSamples(y) = {}
    /\ t \cap UncoveredBy(g) = {}
    /\ t \cup UncoveredBy(g) \subseteq Interval(0, n)
\* ... and cover every coordinate below n.
Covers(t, g, n) == Interval(0, n) \subseteq t \cup UncoveredBy(g)

Finalized == wpc \in {"final_commit", "end", "exited"}
CoverInv ==
    /\ ~Finalized => Below(tiles, gaps, TileStart)
    /\ Finalized => Below(tiles, gaps, sampleBase + nextSample)
    /\ ~Finalized /\ ~stalled => Covers(tiles, gaps, TileStart)
    /\ (wpc = "final_commit" \/ finalSaveConfirmed) /\ ~stalled =>
         Covers(tiles, gaps, sampleBase + nextSample)

\* The samples of a block between its numbering and its place in the ring.
Flying == IF dpc \in {"claim", "write"} THEN incoming.count ELSE 0
\* acc[i] samples were delivered when the first i blocks of the ring had been:
\* what is delivered, in the ring, in flight and dropped is what was numbered.
\* (The function stands for the sum over the ring.)
Accounts(acc) ==
    /\ acc[tail] = delivered
    /\ \A i \in tail .. head - 1 : acc[i + 1] = acc[i] + Ring(i).count
    /\ acc[head] + Flying + dropped + dropBase = sampleBase + nextSample
CountInv ==
    ~stalled =>
        /\ \E acc \in [Nat -> Nat] : Accounts(acc)
        /\ wpc = "final_commit" \/ finalSaveConfirmed =>
             delivered + viewDropped = sampleBase + nextSample

Inv == TypeOK /\ RingInv /\ QueueInv /\ FlagInv /\ SaveInv /\ TileInv /\ CoverInv /\ CountInv

-----------------------------------------------------------------------------
(* Arithmetic.                                                             *)

LEMMA DivMod ==
    ASSUME NEW a \in Nat, NEW n \in Nat \ {0}
    PROVE  a \div n \in Nat /\ a % n \in 0 .. n - 1 /\ a = (a \div n) * n + (a % n)
  OBVIOUS

LEMMA Rearrange ==
    ASSUME NEW s \in Nat, NEW e \in Nat, NEW q \in Nat, NEW p \in Nat,
           s <= (s + (e - q)) - p
    PROVE  q + p <= e
  OBVIOUS

LEMMA Product ==
    ASSUME NEW a \in Nat, NEW n \in Nat
    PROVE  a * n \in Nat
  OBVIOUS

\* Indices less than one turn apart use different slots.
LEMMA SlotDiffers ==
    ASSUME NEW i \in Nat, NEW j \in Nat, j < i, i - j < PoolBlocks
    PROVE  Slot(i) # Slot(j)
  <1> DEFINE P == PoolBlocks
             p == i \div P
             q == j \div P
  <1>1. P \in Nat \ {0}
    BY AcquisitionAssumption
  <1> HIDE DEF P
  <1>2. /\ p \in Nat /\ q \in Nat /\ i % P \in Nat /\ j % P \in Nat
        /\ i = p * P + (i % P) /\ j = q * P + (j % P)
    <2>1. p \in Nat /\ i % P \in 0 .. P - 1 /\ i = p * P + (i % P)
      BY <1>1, DivMod
    <2>2. q \in Nat /\ j % P \in 0 .. P - 1 /\ j = q * P + (j % P)
      BY <1>1, DivMod
    <2> QED BY <2>1, <2>2
  <1>3. SUFFICES ASSUME i % P = j % P PROVE FALSE
    BY DEF Slot, P
  <1> HIDE DEF p, q
  <1>4. (p - q) * P = i - j
    BY <1>1, <1>2, <1>3
  <1>5. p - q >= 1
    BY <1>1, <1>2, <1>4
  <1>6. (p - q) * P >= P
    BY <1>1, <1>2, <1>5
  <1> QED BY <1>1, <1>4, <1>6 DEF P

\* Feeding: the complete tiles leave less than a tile and less than a frame, and
\* the open tile now begins after them.
LEMMA FeedArithmetic ==
    ASSUME NEW a \in Nat, NEW o \in Nat
    PROVE  LET frames == o + a \div FrameSize
               stored == CompleteFrames(frames)
           IN  /\ a % FrameSize \in 0 .. FrameSize - 1
               /\ frames \in Nat /\ stored \in Nat /\ stored * FrameSize \in Nat
               /\ frames - stored \in 0 .. TileFrames - 1
               /\ a + o * FrameSize =
                    (a % FrameSize) + (frames - stored) * FrameSize + stored * FrameSize
  <1> DEFINE F == FrameSize
             T == TileFrames
             w == a \div F
             r == a % F
             frames == o + w
             k == frames \div T
             stored == k * T
             rest == frames - stored
  <1>1. F \in Nat \ {0} /\ T \in Nat \ {0}
    BY AcquisitionAssumption
  <1> HIDE DEF F, T
  <1>2. w \in Nat /\ r \in 0 .. F - 1 /\ a = w * F + r
    BY <1>1, DivMod
  <1> HIDE DEF w, r
  <1>3. frames \in Nat
    BY <1>2
  <1> HIDE DEF frames
  <1>4. k \in Nat /\ frames % T \in 0 .. T - 1 /\ frames = k * T + (frames % T)
    BY <1>1, <1>3, DivMod
  <1> HIDE DEF k
  <1>5. stored \in Nat
    BY <1>1, <1>4, Product
  <1>6. rest = frames % T
    BY <1>3, <1>4, <1>5
  <1> HIDE DEF stored
  <1>7. rest \in 0 .. T - 1
    BY <1>4, <1>6
  <1>8. stored * F \in Nat
    BY <1>1, <1>5, Product
  <1>9. o * F + w * F = rest * F + stored * F
    <2>1. (o + w) * F = o * F + w * F
      BY <1>1, <1>2
    <2>2. (rest + stored) * F = rest * F + stored * F
      BY <1>1, <1>3, <1>5
    <2>3. rest + stored = o + w
      BY <1>2, <1>3, <1>5 DEF frames
    <2> QED BY <2>1, <2>2, <2>3
  <1> HIDE DEF rest
  <1>10. a + o * F = r + rest * F + stored * F
    BY <1>1, <1>2, <1>7, <1>8, <1>9
  <1> QED BY <1>2, <1>3, <1>5, <1>7, <1>8, <1>10
         DEF F, T, w, r, frames, k, stored, rest, CompleteFrames

-----------------------------------------------------------------------------
(* Intervals: a tile or a gap that begins where the coverage ends.         *)

LEMMA AddTile ==
    ASSUME NEW t, NEW g, NEW a \in Nat, NEW b \in Nat, a <= b, Below(t, g, a)
    PROVE  /\ Below(t \cup Interval(a, b), g, b)
           /\ Covers(t, g, a) => Covers(t \cup Interval(a, b), g, b)
  <1> DEFINE u == UncoveredBy(g)
  <1> HIDE DEF u
  <1>1. t \cap u = {} /\ t \cup u \subseteq Interval(0, a)
    BY DEF Below, u
  <1>2. (t \cup Interval(a, b)) \cap u = {}
    BY <1>1 DEF Interval
  <1>3. (t \cup Interval(a, b)) \cup u \subseteq Interval(0, b)
    BY <1>1 DEF Interval
  <1>4. Interval(0, a) \subseteq t \cup u => Interval(0, b) \subseteq (t \cup Interval(a, b)) \cup u
    BY DEF Interval
  <1> QED BY <1>2, <1>3, <1>4 DEF Below, Covers, u

LEMMA AddGap ==
    ASSUME NEW t, NEW g, NEW a \in Nat, NEW b \in Nat, a <= b, Below(t, g, a), NEW x,
           x.first = a, x.end = b
    PROVE  /\ Below(t, g \cup {x}, b)
           /\ Covers(t, g, a) => Covers(t, g \cup {x}, b)
  <1> DEFINE u == UncoveredBy(g)
             v == UncoveredBy(g \cup {x})
  <1>1. GapSamples(x) = Interval(a, b)
    BY DEF GapSamples
  <1>2. v = u \cup Interval(a, b)
    BY <1>1 DEF UncoveredBy
  <1>3. ASSUME NEW y \in g PROVE GapSamples(y) \subseteq u
    BY DEF UncoveredBy
  <1> HIDE DEF u, v
  <1>4. t \cap u = {} /\ t \cup u \subseteq Interval(0, a)
    BY DEF Below, u
  <1>5. t \cap v = {} /\ t \cup v \subseteq Interval(0, b)
    BY <1>2, <1>4 DEF Interval
  <1>6. u \cap Interval(a, b) = {}
    BY <1>4 DEF Interval
  <1>7. \A y, z \in g \cup {x} : y # z => GapSamples(y) \cap GapSamples(z) = {}
    <2>1. \A y, z \in g : y # z => GapSamples(y) \cap GapSamples(z) = {}
      BY DEF Below
    <2>2. \A y \in g : GapSamples(y) \cap GapSamples(x) = {}
      BY <1>1, <1>3, <1>6
    <2> QED BY <2>1, <2>2
  <1>8. Interval(0, a) \subseteq t \cup u => Interval(0, b) \subseteq t \cup v
    BY <1>2 DEF Interval
  <1> QED BY <1>5, <1>7, <1>8 DEF Below, Covers, u, v

\* record_gap, with the empty gap left out.
LEMMA AddGapRecord ==
    ASSUME NEW t, NEW g, NEW a \in Nat, NEW b \in Nat, a <= b, NEW reason,
           sampleBase \in Nat, Below(t, g, sampleBase + a)
    PROVE  /\ Below(t, g \cup GapRecord(a, b, reason), sampleBase + b)
           /\ Covers(t, g, sampleBase + a) =>
                Covers(t, g \cup GapRecord(a, b, reason), sampleBase + b)
  <1>1. CASE b <= a
    <2>1. b = a /\ GapRecord(a, b, reason) = {}
      BY <1>1 DEF GapRecord
    <2>2. g \cup GapRecord(a, b, reason) = g
      BY <2>1
    <2> QED BY <2>1, <2>2
  <1>2. CASE ~ (b <= a)
    <2> DEFINE x == [first |-> sampleBase + a, end |-> sampleBase + b, reason |-> reason]
    <2>1. GapRecord(a, b, reason) = {x}
      BY <1>2 DEF GapRecord
    <2>2. x.first = sampleBase + a /\ x.end = sampleBase + b
      OBVIOUS
    <2> HIDE DEF x
    <2>3. sampleBase + a \in Nat /\ sampleBase + b \in Nat /\ sampleBase + a <= sampleBase + b
      OBVIOUS
    <2> QED BY <2>1, <2>2, <2>3, AddGap
  <1> QED BY <1>1, <1>2

\* The gap of a stall has no samples.
LEMMA AddEmptyGap ==
    ASSUME NEW t, NEW g, NEW n, Below(t, g, n), NEW x, GapSamples(x) = {}
    PROVE  Below(t, g \cup {x}, n)
  <1>1. UncoveredBy(g \cup {x}) = UncoveredBy(g)
    BY DEF UncoveredBy
  <1> QED BY <1>1 DEF Below

LEMMA BelowMonotonic ==
    ASSUME NEW t, NEW g, NEW a \in Int, NEW b \in Int, a <= b, Below(t, g, a)
    PROVE  Below(t, g, b)
  <1>1. Interval(0, a) \subseteq Interval(0, b)
    BY DEF Interval
  <1> QED BY <1>1 DEF Below

-----------------------------------------------------------------------------
(* Consequences of the types.                                              *)

LEMMA Numbers ==
    ASSUME TypeOK
    PROVE  /\ saveRequested \in Nat /\ saveCompleted \in Nat /\ request \in Nat /\ asked \in Nat
           /\ sampleBase \in Nat /\ nextSample \in Nat /\ dropped \in Nat
           /\ incoming.first \in Nat /\ incoming.count \in Nat
           /\ head \in Nat /\ tail \in Nat /\ tail <= head /\ head - tail <= PoolBlocks
           /\ samples \in Nat /\ expected \in Nat /\ pending \in Nat /\ openFrames \in Nat
           /\ delivered \in Nat /\ viewDropped \in Nat /\ dropBase \in Nat /\ durable \in Nat
           /\ checkpoint.request \in Nat /\ checkpoint.delivered \in Nat
  <1>1. saveRequested \in Nat /\ saveCompleted \in Nat /\ request \in Nat /\ asked \in Nat
        /\ sampleBase \in Nat
    BY DEF TypeOK, StatusTypes, ControlTypes
  <1>2. /\ nextSample \in Nat /\ dropped \in Nat
        /\ incoming.first \in Nat /\ incoming.count \in Nat
    BY DEF TypeOK, InputTypes, BlockType
  <1>3. /\ head \in Nat /\ tail \in Nat /\ tail <= head /\ head - tail <= PoolBlocks
        /\ samples \in Nat /\ expected \in Nat
    BY DEF TypeOK, RingTypes, WorkTypes
  <1>4. pending \in Nat /\ openFrames \in Nat
    BY AcquisitionAssumption DEF TypeOK, WorkTypes
  <1>5. /\ delivered \in Nat /\ viewDropped \in Nat /\ dropBase \in Nat /\ durable \in Nat
        /\ checkpoint.request \in Nat /\ checkpoint.delivered \in Nat
    BY DEF TypeOK, CounterTypes
  <1> QED BY <1>1, <1>2, <1>3, <1>4, <1>5

LEMMA SlotType == ASSUME NEW i \in Nat PROVE Slot(i) \in 0 .. PoolBlocks - 1
  BY AcquisitionAssumption, DivMod DEF Slot

LEMMA RingType ==
    ASSUME TypeOK, NEW i \in Nat
    PROVE  Ring(i) \in BlockType /\ Ring(i).first \in Nat /\ Ring(i).count \in Nat
  <1>1. Ring(i) \in BlockType
    BY SlotType DEF TypeOK, RingTypes, Ring
  <1> QED BY <1>1 DEF BlockType

\* Writing a claimed slot leaves the filled ones alone.
LEMMA RingWritten ==
    ASSUME TypeOK, head - tail < PoolBlocks, NEW b,
           pool' = [pool EXCEPT ![Slot(head)] = b]
    PROVE  /\ pool'[Slot(head)] = b
           /\ \A i \in tail .. head - 1 : pool'[Slot(i)] = Ring(i)
  <1>1. head \in Nat /\ tail \in Nat
    BY Numbers
  <1>2. pool \in [0 .. PoolBlocks - 1 -> BlockType] /\ Slot(head) \in 0 .. PoolBlocks - 1
    BY <1>1, SlotType DEF TypeOK, RingTypes
  <1>3. ASSUME NEW i \in tail .. head - 1 PROVE pool'[Slot(i)] = Ring(i)
    <2>1. i \in Nat /\ i < head /\ head - i < PoolBlocks
      BY <1>1, AcquisitionAssumption
    <2>2. Slot(i) # Slot(head) /\ Slot(i) \in 0 .. PoolBlocks - 1
      BY <1>1, <2>1, SlotDiffers, SlotType
    <2> QED BY <1>2, <2>2 DEF Ring
  <1> QED BY <1>2, <1>3

\* Erasing the slot at the tail leaves the others alone.
LEMMA RingReleased ==
    ASSUME TypeOK, NEW b, pool' = [pool EXCEPT ![Slot(tail)] = b]
    PROVE  \A i \in tail + 1 .. head - 1 : pool'[Slot(i)] = Ring(i)
  <1>1. head \in Nat /\ tail \in Nat /\ head - tail <= PoolBlocks
    BY Numbers
  <1>2. pool \in [0 .. PoolBlocks - 1 -> BlockType] /\ Slot(tail) \in 0 .. PoolBlocks - 1
    BY <1>1, SlotType DEF TypeOK, RingTypes
  <1>3. ASSUME NEW i \in tail + 1 .. head - 1 PROVE pool'[Slot(i)] = Ring(i)
    <2>1. i \in Nat /\ tail < i /\ i - tail < PoolBlocks
      BY <1>1, AcquisitionAssumption
    <2>2. Slot(i) # Slot(tail) /\ Slot(i) \in 0 .. PoolBlocks - 1
      BY <1>1, <2>1, SlotDiffers, SlotType
    <2> QED BY <1>2, <2>2 DEF Ring
  <1> QED BY <1>3

LEMMA EmptyRing ==
    ASSUME pool' = [i \in 0 .. PoolBlocks - 1 |-> EmptyBlock], head' = 0, tail' = 0
    PROVE  RingTypes'
  <1>1. EmptyBlock \in BlockType
    BY DEF EmptyBlock, BlockType
  <1> QED BY <1>1, AcquisitionAssumption DEF RingTypes

\* The ends of the open tile.
LEMMA TileBounds ==
    ASSUME TypeOK, TileInv
    PROVE  /\ TileStart \in Nat /\ TileEnd \in Nat /\ TileStart <= TileEnd
           /\ sampleBase <= TileStart
           /\ TileEnd = sampleBase + (expected - pending) /\ expected - pending \in Nat
  <1> DEFINE f == openFrames * FrameSize
  <1>1. sampleBase \in Nat /\ expected \in Nat /\ pending \in Nat /\ openFrames \in Nat
    BY Numbers
  <1>2. f \in Nat
    BY <1>1, Product, AcquisitionAssumption
  <1>3. pending + f <= expected
    BY DEF TileInv
  <1>4. TileStart = (sampleBase + (expected - pending)) - f
    BY DEF TileStart, TileEnd
  <1> HIDE DEF f
  <1> QED BY <1>1, <1>2, <1>3, <1>4 DEF TileEnd

LEMMA IntervalType ==
    ASSUME NEW a \in Nat, NEW b \in Int
    PROVE  Interval(a, b) \subseteq Nat
  BY DEF Interval

LEMMA GapRecordType ==
    ASSUME sampleBase \in Nat, NEW a \in Nat, NEW b \in Nat,
           NEW reason \in {"partial_fft", "application_drop", "source_stall"}
    PROVE  GapRecord(a, b, reason) \subseteq GapType
  BY DEF GapRecord, GapType

LEMMA PartialGapType ==
    ASSUME TypeOK, TileInv PROVE PartialGap \subseteq GapType
  <1>1. expected - pending \in Nat /\ expected \in Nat /\ sampleBase \in Nat
    BY TileBounds, Numbers
  <1> QED BY <1>1, GapRecordType DEF PartialGap

\* A flushed spectrum and its gaps reach the coordinate n of the run.
LEMMA FlushCovers ==
    ASSUME TypeOK, TileInv, NEW n \in Nat, expected <= n, Below(tiles, gaps, TileStart)
    PROVE  LET t == tiles \cup Interval(TileStart, TileEnd)
               g == gaps \cup PartialGap \cup GapRecord(expected, n, "application_drop")
           IN  /\ Below(t, g, sampleBase + n)
               /\ Covers(tiles, gaps, TileStart) => Covers(t, g, sampleBase + n)
  <1> DEFINE t == tiles \cup Interval(TileStart, TileEnd)
             h == gaps \cup PartialGap
             g == h \cup GapRecord(expected, n, "application_drop")
             p == expected - pending
  <1>1. /\ TileStart \in Nat /\ TileEnd \in Nat /\ TileStart <= TileEnd
        /\ TileEnd = sampleBase + p /\ p \in Nat
    BY TileBounds
  <1>2. sampleBase \in Nat /\ expected \in Nat /\ p <= expected
    BY Numbers
  <1> HIDE DEF p
  <1>3. /\ Below(t, gaps, TileEnd)
        /\ Covers(tiles, gaps, TileStart) => Covers(t, gaps, TileEnd)
    BY <1>1, AddTile
  <1> HIDE DEF t
  <1>4. PartialGap = GapRecord(p, expected, "partial_fft")
    BY DEF PartialGap, p
  <1>5. /\ Below(t, h, sampleBase + expected)
        /\ Covers(t, gaps, TileEnd) => Covers(t, h, sampleBase + expected)
    BY <1>1, <1>2, <1>3, <1>4, AddGapRecord
  <1> HIDE DEF h
  <1>6. /\ Below(t, g, sampleBase + n)
        /\ Covers(t, h, sampleBase + expected) => Covers(t, g, sampleBase + n)
    BY <1>2, <1>5, AddGapRecord
  <1> QED BY <1>3, <1>5, <1>6 DEF t, h

-----------------------------------------------------------------------------
(* Every step keeps the invariant.                                         *)

LEMMA DeliverEnterStep ==
    ASSUME Inv, NEW n \in 1 .. MaximumBlock + 1, DeliverEnter(n) PROVE Inv'
  <1> USE AcquisitionAssumption DEF InputOnly, WorkerOnly, StatusUnchanged, ControlOnly, inputVars, ringVars, workVars,
          storeVars, statusVars, controlVars, surveyVars
  <1>1. StatusTypes' /\ ControlTypes' /\ InputTypes'
    BY DEF Inv, TypeOK, StatusTypes, ControlTypes, InputTypes, BlockType, DeliverEnter
  <1>2. RingTypes' /\ WorkTypes'
    BY DEF Inv, TypeOK, RingTypes, WorkTypes, DeliverEnter
  <1>3. CounterTypes' /\ StoreTypes'
    BY DEF Inv, TypeOK, CounterTypes, StoreTypes, DeliverEnter
  <1>4. TypeOK'
    BY <1>1, <1>2, <1>3 DEF TypeOK
  <1>5. RingInv' /\ QueueInv' /\ FlagInv' /\ TileInv'
    BY DEF Inv, RingInv, QueueInv, FlagInv, TileInv, Ring, Taken, Numbered, DeliverEnter
  <1>6. SaveInv'
    BY DEF Inv, SaveInv, DeliverEnter
  <1>7. CoverInv'
    BY DEF Inv, CoverInv, TileStart, TileEnd, Finalized, DeliverEnter
  <1>8. CountInv'
    BY DEF Inv, CountInv, Accounts, Flying, Ring, DeliverEnter
  <1> QED BY <1>4, <1>5, <1>6, <1>7, <1>8 DEF Inv

LEMMA DeliverNumberStep ==
    ASSUME Inv, DeliverNumber PROVE Inv'
  <1> USE AcquisitionAssumption DEF InputOnly, WorkerOnly, StatusUnchanged, ControlOnly, inputVars, ringVars, workVars,
          storeVars, statusVars, controlVars, surveyVars
  <1>1. StatusTypes' /\ ControlTypes' /\ InputTypes'
    BY DEF Inv, TypeOK, StatusTypes, ControlTypes, InputTypes, BlockType, DeliverNumber
  <1>2. RingTypes' /\ WorkTypes'
    BY DEF Inv, TypeOK, RingTypes, WorkTypes, DeliverNumber
  <1>3. CounterTypes' /\ StoreTypes'
    BY DEF Inv, TypeOK, CounterTypes, StoreTypes, DeliverNumber
  <1>4. TypeOK'
    BY <1>1, <1>2, <1>3 DEF TypeOK
  <1>5. RingInv' /\ QueueInv' /\ FlagInv' /\ TileInv'
    BY DEF Inv, RingInv, QueueInv, FlagInv, TileInv, Ring, Taken, Numbered, DeliverNumber
  <1>6. SaveInv'
    BY DEF Inv, SaveInv, DeliverNumber
  <1>7. CoverInv'
    <2>1. ~inputFinished
      BY DEF Inv, FlagInv, DeliverNumber
    <2>2. sampleBase + nextSample <= sampleBase + nextSample' /\ sampleBase + nextSample \in Int
          /\ sampleBase + nextSample' \in Int
      BY Numbers DEF Inv, DeliverNumber
    <2>3. Finalized => Below(tiles, gaps, sampleBase + nextSample')
      BY <2>2, BelowMonotonic DEF Inv, CoverInv
    <2> QED BY <2>1, <2>3 DEF Inv, FlagInv, CoverInv, TileStart, TileEnd, Finalized, DeliverNumber
  <1>8. CountInv'
    <2>1. ~inputFinished
      BY DEF Inv, FlagInv, DeliverNumber
    <2>2. incoming'.count = incoming.count /\ nextSample' = nextSample + incoming.count
      BY DEF Inv, TypeOK, InputTypes, BlockType, DeliverNumber
    <2>3. Flying = 0 /\ Flying' = incoming.count
      BY <2>2 DEF Flying, DeliverNumber
    <2>4. ASSUME NEW acc \in [Nat -> Nat], Accounts(acc) PROVE Accounts(acc)'
      <3>1. acc[head] \in Nat
        BY Numbers DEF Inv
      <3> QED BY <2>2, <2>3, <2>4, <3>1, Numbers DEF Inv, Accounts, Ring, DeliverNumber
    <2> QED BY <2>1, <2>4 DEF Inv, FlagInv, CountInv, DeliverNumber
  <1> QED BY <1>4, <1>5, <1>6, <1>7, <1>8 DEF Inv

LEMMA DeliverClaimStep ==
    ASSUME Inv, DeliverClaim PROVE Inv'
  <1> USE AcquisitionAssumption DEF InputOnly, WorkerOnly, StatusUnchanged, ControlOnly, inputVars, ringVars, workVars,
          storeVars, statusVars, controlVars, surveyVars
  <1>1. StatusTypes' /\ ControlTypes' /\ InputTypes'
    BY DEF Inv, TypeOK, StatusTypes, ControlTypes, InputTypes, BlockType, DeliverClaim, RingFull, EmptyBlock
  <1>2. RingTypes' /\ WorkTypes'
    BY DEF Inv, TypeOK, RingTypes, WorkTypes, DeliverClaim, RingFull, EmptyBlock
  <1>3. CounterTypes' /\ StoreTypes'
    BY DEF Inv, TypeOK, CounterTypes, StoreTypes, DeliverClaim, RingFull, EmptyBlock
  <1>4. TypeOK'
    BY <1>1, <1>2, <1>3 DEF TypeOK
  <1>5. RingInv' /\ QueueInv' /\ FlagInv' /\ TileInv'
    <2>1. RingInv' /\ FlagInv'
      BY Numbers DEF Inv, RingInv, FlagInv, DeliverClaim, RingFull, EmptyBlock
    <2>2. TileInv'
      BY DEF Inv, TileInv, FlagInv, DeliverClaim, RingFull, EmptyBlock
    <2>3. QueueInv'
      <3>1. Taken' <= Taken /\ Numbered <= Numbered' /\ Taken \in Nat /\ Taken' \in Nat
            /\ Numbered \in Nat /\ Numbered' \in Nat
        BY Numbers DEF Inv, QueueInv, Taken, Numbered, DeliverClaim, RingFull, EmptyBlock
      <3>2. UNCHANGED <<pool, head, tail>>
        BY DEF DeliverClaim
      <3>3. \A i \in tail .. head - 1 : Ring(i).first \in Nat /\ Ring(i).count \in Nat /\ Ring(i)' = Ring(i)
        BY <3>2, RingType, Numbers DEF Inv, Ring
      <3>4. \A i \in tail' .. head' - 1 :
              Taken' <= Ring(i)'.first /\ Ring(i)'.first + Ring(i)'.count <= Numbered'
        BY <3>1, <3>2, <3>3 DEF Inv, QueueInv
      <3>5. \A i, j \in tail' .. head' - 1 : i < j => Ring(i)'.first + Ring(i)'.count <= Ring(j)'.first
        BY <3>2, <3>3 DEF Inv, QueueInv
      <3>6. Taken' <= Numbered'
        BY <3>1 DEF Inv, QueueInv
      <3>7. dpc' \in {"claim", "write"} => incoming'.first + incoming'.count = nextSample'
        BY DEF Inv, QueueInv, DeliverClaim
      <3>8. wpc' = "release" => Ring(tail)'.first = expected' /\ Ring(tail)'.count = samples'
        BY DEF Inv, QueueInv, Ring, DeliverClaim
      <3> QED BY <3>4, <3>5, <3>6, <3>7, <3>8 DEF QueueInv
    <2> QED BY <2>1, <2>2, <2>3
  <1>6. SaveInv'
    BY DEF Inv, SaveInv, DeliverClaim, RingFull, EmptyBlock
  <1>7. CoverInv'
    BY DEF Inv, CoverInv, TileStart, TileEnd, Finalized, DeliverClaim, RingFull, EmptyBlock
  <1>8. CountInv'
    <2>1. dropped' + Flying' = dropped + Flying
      BY Numbers DEF Inv, Flying, DeliverClaim, EmptyBlock
    <2>2. ASSUME NEW acc \in [Nat -> Nat], Accounts(acc) PROVE Accounts(acc)'
      <3>1. acc[head] \in Nat /\ Flying \in Nat /\ Flying' \in Nat /\ dropped' \in Nat
        BY Numbers DEF Inv, Flying, DeliverClaim, EmptyBlock
      <3> QED BY <2>1, <2>2, <3>1, Numbers DEF Inv, Accounts, Ring, DeliverClaim
    <2> QED BY <2>2 DEF Inv, CountInv, DeliverClaim
  <1> QED BY <1>4, <1>5, <1>6, <1>7, <1>8 DEF Inv

LEMMA DeliverWriteStep ==
    ASSUME Inv, DeliverWrite PROVE Inv'
  <1> USE AcquisitionAssumption DEF InputOnly, WorkerOnly, StatusUnchanged, ControlOnly, inputVars, ringVars, workVars,
          storeVars, statusVars, controlVars, surveyVars
  <1>1. StatusTypes' /\ ControlTypes' /\ InputTypes'
    BY DEF Inv, TypeOK, StatusTypes, ControlTypes, InputTypes, BlockType, DeliverWrite, EmptyBlock
  <1>2. RingTypes' /\ WorkTypes'
    <2>1. RingTypes'
      <3>1. pool' \in [0 .. PoolBlocks - 1 -> BlockType]
        BY DEF Inv, TypeOK, RingTypes, InputTypes, DeliverWrite
      <3>2. tail' = tail /\ head' = head + 1 /\ head - tail < PoolBlocks
        BY DEF Inv, RingInv, DeliverWrite
      <3>3. head' \in Nat /\ tail' <= head' /\ head' - tail' <= PoolBlocks
        BY <3>2, Numbers DEF Inv
      <3> QED BY <3>1, <3>2, <3>3, Numbers DEF Inv, RingTypes
    <2> QED BY <2>1 DEF Inv, TypeOK, WorkTypes, DeliverWrite
  <1>3. CounterTypes' /\ StoreTypes'
    BY DEF Inv, TypeOK, CounterTypes, StoreTypes, DeliverWrite, EmptyBlock
  <1>4. TypeOK'
    BY <1>1, <1>2, <1>3 DEF TypeOK
  <1>5. RingInv' /\ QueueInv' /\ FlagInv' /\ TileInv'
    <2>1. /\ pool'[Slot(head)] = incoming
          /\ \A i \in tail .. head - 1 : pool'[Slot(i)] = Ring(i)
      BY RingWritten DEF Inv, RingInv, DeliverWrite
    <2>2. \A i \in tail .. head - 1 : Ring(i).first \in Nat /\ Ring(i).count \in Nat
      BY RingType, Numbers DEF Inv
    <2>3. Numbered = incoming.first /\ Numbered' = nextSample /\ Taken' = Taken /\ Taken \in Nat
          /\ incoming.first + incoming.count = nextSample
      BY Numbers DEF Inv, QueueInv, Numbered, Taken, DeliverWrite
    <2>4. head' = head + 1 /\ tail' = tail
      BY DEF DeliverWrite
    <2>5. QueueInv'
      <3>1. ASSUME NEW i \in tail .. head
            PROVE  /\ Taken <= pool'[Slot(i)].first
                   /\ pool'[Slot(i)].first + pool'[Slot(i)].count <= nextSample
        <4>1. CASE i = head
          BY <2>1, <2>3, <4>1, Numbers DEF Inv, QueueInv
        <4>2. CASE i \in tail .. head - 1
          BY <2>1, <2>2, <2>3, <4>2, Numbers DEF Inv, QueueInv
        <4> QED BY <4>1, <4>2, Numbers DEF Inv
      <3>2. ASSUME NEW i \in tail .. head, NEW j \in tail .. head, i < j
            PROVE  pool'[Slot(i)].first + pool'[Slot(i)].count <= pool'[Slot(j)].first
        <4>1. i \in tail .. head - 1
          BY <3>2, Numbers DEF Inv
        <4>2. CASE j = head
          BY <2>1, <2>3, <4>1, <4>2 DEF Inv, QueueInv
        <4>3. CASE j \in tail .. head - 1
          BY <2>1, <3>2, <4>1, <4>3 DEF Inv, QueueInv
        <4> QED BY <4>2, <4>3, Numbers DEF Inv
      <3>3. tail' .. head' - 1 = tail .. head
        <4>1. head' - 1 = head
          BY <2>4, Numbers DEF Inv
        <4> QED BY <2>4, <4>1
      <3>4. wpc = "release" => pool'[Slot(tail)] = Ring(tail)
        BY <2>1, Numbers DEF Inv, RingInv
      <3>5. \A i \in tail' .. head' - 1 :
              Taken' <= Ring(i)'.first /\ Ring(i)'.first + Ring(i)'.count <= Numbered'
        BY <2>3, <3>1, <3>3 DEF Ring
      <3>6. \A i, j \in tail' .. head' - 1 : i < j => Ring(i)'.first + Ring(i)'.count <= Ring(j)'.first
        BY <3>2, <3>3 DEF Ring
      <3>7. Taken' <= Numbered'
        BY <2>3, Numbers DEF Inv, QueueInv
      <3>8. wpc' = "release" => Ring(tail)'.first = expected' /\ Ring(tail)'.count = samples'
        BY <2>4, <3>4 DEF Inv, QueueInv, Ring, DeliverWrite
      <3> QED BY <3>5, <3>6, <3>7, <3>8 DEF QueueInv, DeliverWrite
    <2> QED BY <2>5, Numbers DEF Inv, RingInv, FlagInv, TileInv, DeliverWrite
  <1>6. SaveInv'
    BY DEF Inv, SaveInv, DeliverWrite, EmptyBlock
  <1>7. CoverInv'
    BY DEF Inv, CoverInv, TileStart, TileEnd, Finalized, DeliverWrite, EmptyBlock
  <1>8. CountInv'
    <2>1. /\ pool'[Slot(head)] = incoming
          /\ \A i \in tail .. head - 1 : pool'[Slot(i)] = Ring(i)
      BY RingWritten DEF Inv, RingInv, DeliverWrite
    <2>2. Flying = incoming.count /\ Flying' = 0 /\ head' = head + 1 /\ tail' = tail
      BY DEF Flying, DeliverWrite
    <2>3. ASSUME NEW acc \in [Nat -> Nat], Accounts(acc)
          PROVE  \E a \in [Nat -> Nat] : Accounts(a)'
      <3> DEFINE sum == acc[head] + incoming.count
                 a == [acc EXCEPT ![head + 1] = sum]
      <3>1. head \in Nat /\ tail \in Nat /\ tail <= head /\ acc[head] \in Nat /\ sum \in Nat
        BY Numbers DEF Inv
      <3> HIDE DEF sum
      <3>2. a \in [Nat -> Nat] /\ a[head + 1] = sum /\ \A i \in Nat : i # head + 1 => a[i] = acc[i]
        BY <3>1
      <3> HIDE DEF a
      <3>3. a[tail'] = delivered'
        BY <2>2, <2>3, <3>1, <3>2 DEF Accounts, DeliverWrite
      <3>4. a[head'] + Flying' + dropped' + dropBase' = sampleBase' + nextSample'
        BY <2>2, <2>3, <3>1, <3>2, Numbers DEF Inv, Accounts, DeliverWrite, sum
      <3>5. ASSUME NEW i \in tail' .. head' - 1 PROVE a[i + 1] = a[i] + Ring(i)'.count
        <4>1. CASE i = head
          <5>1. a[i] = acc[head] /\ a[i + 1] = sum
            BY <3>1, <3>2, <4>1
          <5>2. Ring(i)' = incoming
            BY <2>1, <4>1 DEF Ring
          <5> QED BY <5>1, <5>2 DEF sum
        <4>2. CASE i \in tail .. head - 1
          <5>1. a[i] = acc[i] /\ a[i + 1] = acc[i + 1]
            BY <3>1, <3>2, <4>2
          <5>2. Ring(i)' = Ring(i)
            BY <2>1, <4>2 DEF Ring
          <5> QED BY <2>3, <4>2, <5>1, <5>2 DEF Accounts
        <4> QED BY <2>2, <3>1, <4>1, <4>2
      <3> QED BY <3>2, <3>3, <3>4, <3>5 DEF Accounts
    <2> QED BY <2>3 DEF Inv, FlagInv, CountInv, DeliverWrite
  <1> QED BY <1>4, <1>5, <1>6, <1>7, <1>8 DEF Inv

LEMMA SilenceStep ==
    ASSUME Inv, Silence PROVE Inv'
  <1> USE AcquisitionAssumption DEF InputOnly, WorkerOnly, StatusUnchanged, ControlOnly, inputVars, ringVars, workVars,
          storeVars, statusVars, controlVars, surveyVars
  <1>1. StatusTypes' /\ ControlTypes' /\ InputTypes'
    BY DEF Inv, TypeOK, StatusTypes, ControlTypes, InputTypes, BlockType, Silence
  <1>2. RingTypes' /\ WorkTypes'
    BY DEF Inv, TypeOK, RingTypes, WorkTypes, Silence
  <1>3. CounterTypes' /\ StoreTypes'
    BY DEF Inv, TypeOK, CounterTypes, StoreTypes, Silence
  <1>4. TypeOK'
    BY <1>1, <1>2, <1>3 DEF TypeOK
  <1>5. RingInv' /\ QueueInv' /\ FlagInv' /\ TileInv'
    BY DEF Inv, RingInv, QueueInv, FlagInv, TileInv, Ring, Taken, Numbered, Silence
  <1>6. SaveInv'
    BY DEF Inv, SaveInv, Silence
  <1>7. CoverInv'
    BY DEF Inv, CoverInv, TileStart, TileEnd, Finalized, Silence
  <1>8. CountInv'
    BY DEF Inv, CountInv, Accounts, Flying, Ring, Silence
  <1> QED BY <1>4, <1>5, <1>6, <1>7, <1>8 DEF Inv

LEMMA SourceEndsStep ==
    ASSUME Inv, SourceEnds PROVE Inv'
  <1> USE AcquisitionAssumption DEF InputOnly, WorkerOnly, StatusUnchanged, ControlOnly, inputVars, ringVars, workVars,
          storeVars, statusVars, controlVars, surveyVars
  <1>1. StatusTypes' /\ ControlTypes' /\ InputTypes'
    BY DEF Inv, TypeOK, StatusTypes, ControlTypes, InputTypes, BlockType, SourceEnds, Fail
  <1>2. RingTypes' /\ WorkTypes'
    BY DEF Inv, TypeOK, RingTypes, WorkTypes, SourceEnds, Fail
  <1>3. CounterTypes' /\ StoreTypes'
    BY DEF Inv, TypeOK, CounterTypes, StoreTypes, SourceEnds, Fail
  <1>4. TypeOK'
    BY <1>1, <1>2, <1>3 DEF TypeOK
  <1>5. RingInv' /\ QueueInv' /\ FlagInv' /\ TileInv'
    BY DEF Inv, RingInv, QueueInv, FlagInv, TileInv, Ring, Taken, Numbered, SourceEnds, Fail
  <1>6. SaveInv'
    BY DEF Inv, SaveInv, SourceEnds, Fail
  <1>7. CoverInv'
    BY DEF Inv, CoverInv, TileStart, TileEnd, Finalized, SourceEnds, Fail
  <1>8. CountInv'
    BY DEF Inv, CountInv, Accounts, Flying, Ring, SourceEnds, Fail
  <1> QED BY <1>4, <1>5, <1>6, <1>7, <1>8 DEF Inv

LEMMA LoopHeadStep ==
    ASSUME Inv, LoopHead PROVE Inv'
  <1> USE AcquisitionAssumption DEF InputOnly, WorkerOnly, StatusUnchanged, ControlOnly, inputVars, ringVars, workVars,
          storeVars, statusVars, controlVars, surveyVars
  <1>1. StatusTypes' /\ ControlTypes' /\ InputTypes'
    BY DEF Inv, TypeOK, StatusTypes, ControlTypes, InputTypes, BlockType, LoopHead
  <1>2. RingTypes' /\ WorkTypes'
    BY DEF Inv, TypeOK, RingTypes, WorkTypes, LoopHead
  <1>3. CounterTypes' /\ StoreTypes'
    BY DEF Inv, TypeOK, CounterTypes, StoreTypes, LoopHead
  <1>4. TypeOK'
    BY <1>1, <1>2, <1>3 DEF TypeOK
  <1>5. RingInv' /\ QueueInv' /\ FlagInv' /\ TileInv'
    BY DEF Inv, RingInv, QueueInv, FlagInv, TileInv, Ring, Taken, Numbered, LoopHead
  <1>6. SaveInv'
    BY DEF Inv, SaveInv, LoopHead
  <1>7. CoverInv'
    BY DEF Inv, CoverInv, TileStart, TileEnd, Finalized, LoopHead
  <1>8. CountInv'
    BY DEF Inv, CountInv, Accounts, Flying, Ring, LoopHead
  <1> QED BY <1>4, <1>5, <1>6, <1>7, <1>8 DEF Inv

LEMMA CheckpointCopyStep ==
    ASSUME Inv, CheckpointCopy PROVE Inv'
  <1> USE AcquisitionAssumption DEF InputOnly, WorkerOnly, StatusUnchanged, ControlOnly, inputVars, ringVars, workVars,
          storeVars, statusVars, controlVars, surveyVars
  <1>1. StatusTypes' /\ ControlTypes' /\ InputTypes'
    BY DEF Inv, TypeOK, StatusTypes, ControlTypes, InputTypes, BlockType, CheckpointCopy, StartCopy
  <1>2. RingTypes' /\ WorkTypes'
    BY DEF Inv, TypeOK, RingTypes, WorkTypes, CheckpointCopy, StartCopy
  <1>3. CounterTypes' /\ StoreTypes'
    BY Numbers DEF Inv, TypeOK, CounterTypes, StoreTypes, CheckpointCopy, StartCopy
  <1>4. TypeOK'
    BY <1>1, <1>2, <1>3 DEF TypeOK
  <1>5. RingInv' /\ QueueInv' /\ FlagInv' /\ TileInv'
    BY DEF Inv, RingInv, QueueInv, FlagInv, TileInv, Ring, Taken, Numbered, CheckpointCopy, StartCopy
  <1>6. SaveInv'
    BY Numbers DEF Inv, SaveInv, CheckpointCopy, StartCopy
  <1>7. CoverInv'
    BY DEF Inv, CoverInv, TileStart, TileEnd, Finalized, CheckpointCopy, StartCopy
  <1>8. CountInv'
    BY DEF Inv, CountInv, Accounts, Flying, Ring, CheckpointCopy, StartCopy
  <1> QED BY <1>4, <1>5, <1>6, <1>7, <1>8 DEF Inv

LEMMA CheckpointCommitStep ==
    ASSUME Inv, CheckpointCommit PROVE Inv'
  <1> USE AcquisitionAssumption DEF InputOnly, WorkerOnly, StatusUnchanged, ControlOnly, inputVars, ringVars, workVars,
          storeVars, statusVars, controlVars, surveyVars
  <1>1. StatusTypes' /\ ControlTypes' /\ InputTypes'
    BY Numbers DEF Inv, TypeOK, StatusTypes, ControlTypes, InputTypes, CheckpointCommit
  <1>2. RingTypes' /\ WorkTypes'
    BY DEF Inv, TypeOK, RingTypes, WorkTypes, CheckpointCommit, NoCopy
  <1>3. CounterTypes' /\ StoreTypes'
    BY DEF Inv, TypeOK, CounterTypes, StoreTypes, CheckpointCommit, NoCopy
  <1>4. TypeOK'
    BY <1>1, <1>2, <1>3 DEF TypeOK
  <1>5. RingInv' /\ QueueInv' /\ FlagInv' /\ TileInv'
    BY DEF Inv, RingInv, QueueInv, FlagInv, TileInv, Ring, Taken, Numbered, CheckpointCommit, NoCopy
  <1>6. SaveInv'
    BY Numbers DEF Inv, SaveInv, CheckpointCommit, NoCopy
  <1>7. CoverInv'
    BY DEF Inv, CoverInv, TileStart, TileEnd, Finalized, CheckpointCommit, NoCopy
  <1>8. CountInv'
    BY DEF Inv, CountInv, Accounts, Flying, Ring, CheckpointCommit, NoCopy
  <1> QED BY <1>4, <1>5, <1>6, <1>7, <1>8 DEF Inv

LEMMA PickStep ==
    ASSUME Inv, Pick PROVE Inv'
  <1> USE AcquisitionAssumption DEF InputOnly, WorkerOnly, StatusUnchanged, ControlOnly, inputVars, ringVars, workVars,
          storeVars, statusVars, controlVars, surveyVars
  <1>1. StatusTypes' /\ ControlTypes' /\ InputTypes'
    BY DEF Inv, TypeOK, StatusTypes, ControlTypes, InputTypes, BlockType, Pick
  <1>2. RingTypes' /\ WorkTypes'
    BY DEF Inv, TypeOK, RingTypes, WorkTypes, Pick
  <1>3. CounterTypes' /\ StoreTypes'
    BY DEF Inv, TypeOK, CounterTypes, StoreTypes, Pick
  <1>4. TypeOK'
    BY <1>1, <1>2, <1>3 DEF TypeOK
  <1>5. RingInv' /\ QueueInv' /\ FlagInv' /\ TileInv'
    BY Numbers DEF Inv, RingInv, QueueInv, FlagInv, TileInv, Ring, Taken, Numbered, Pick
  <1>6. SaveInv'
    BY DEF Inv, SaveInv, Pick
  <1>7. CoverInv'
    BY DEF Inv, CoverInv, TileStart, TileEnd, Finalized, Pick
  <1>8. CountInv'
    BY DEF Inv, CountInv, Accounts, Flying, Ring, Pick
  <1> QED BY <1>4, <1>5, <1>6, <1>7, <1>8 DEF Inv

LEMMA WatchStep ==
    ASSUME Inv, Watch PROVE Inv'
  <1> USE AcquisitionAssumption DEF InputOnly, WorkerOnly, StatusUnchanged, ControlOnly, inputVars, ringVars, workVars,
          storeVars, statusVars, controlVars, surveyVars
  <1>1. StatusTypes' /\ ControlTypes' /\ InputTypes'
    BY DEF Inv, TypeOK, StatusTypes, ControlTypes, InputTypes, BlockType, Watch
  <1>2. RingTypes' /\ WorkTypes'
    BY DEF Inv, TypeOK, RingTypes, WorkTypes, Watch
  <1>3. CounterTypes' /\ StoreTypes'
    BY DEF Inv, TypeOK, CounterTypes, StoreTypes, Watch
  <1>4. TypeOK'
    BY <1>1, <1>2, <1>3 DEF TypeOK
  <1>5. RingInv' /\ QueueInv' /\ FlagInv' /\ TileInv'
    BY DEF Inv, RingInv, QueueInv, FlagInv, TileInv, Ring, Taken, Numbered, Watch
  <1>6. SaveInv'
    BY DEF Inv, SaveInv, Watch
  <1>7. CoverInv'
    BY DEF Inv, CoverInv, TileStart, TileEnd, Finalized, Watch
  <1>8. CountInv'
    BY DEF Inv, CountInv, Accounts, Flying, Ring, Watch
  <1> QED BY <1>4, <1>5, <1>6, <1>7, <1>8 DEF Inv

LEMMA StallStep ==
    ASSUME Inv, Stall PROVE Inv'
  <1> USE AcquisitionAssumption DEF InputOnly, WorkerOnly, StatusUnchanged, ControlOnly, inputVars, ringVars, workVars,
          storeVars, statusVars, controlVars, surveyVars
  <1>1. StatusTypes' /\ ControlTypes' /\ InputTypes'
    BY DEF Inv, TypeOK, StatusTypes, ControlTypes, InputTypes, BlockType, Stall, Fail
  <1>2. RingTypes' /\ WorkTypes'
    BY DEF Inv, TypeOK, RingTypes, WorkTypes, Stall, Fail
  <1>3. CounterTypes' /\ StoreTypes'
    <2> DEFINE x == [first |-> sampleBase + expected, end |-> sampleBase + expected,
                     reason |-> "source_stall"]
    <2>1. x \in GapType
      BY Numbers DEF Inv, GapType
    <2>2. gaps' = IF anchored THEN gaps \cup {x} ELSE gaps
      BY DEF Stall
    <2> HIDE DEF x
    <2> QED BY <2>1, <2>2 DEF Inv, TypeOK, CounterTypes, StoreTypes, Stall
  <1>4. TypeOK'
    BY <1>1, <1>2, <1>3 DEF TypeOK
  <1>5. RingInv' /\ QueueInv' /\ FlagInv' /\ TileInv'
    BY DEF Inv, RingInv, QueueInv, FlagInv, TileInv, Ring, Taken, Numbered, Stall, Fail
  <1>6. SaveInv'
    BY DEF Inv, SaveInv, Stall, Fail
  <1>7. CoverInv'
    <2> DEFINE x == [first |-> sampleBase + expected, end |-> sampleBase + expected,
                     reason |-> "source_stall"]
    <2>1. GapSamples(x) = {}
      BY Numbers DEF Inv, GapSamples, Interval
    <2>2. gaps' = IF anchored THEN gaps \cup {x} ELSE gaps
      BY DEF Stall
    <2> HIDE DEF x
    <2>3. Below(tiles, gaps', TileStart)
      BY <2>1, <2>2, AddEmptyGap DEF Inv, CoverInv, Finalized, Stall
    <2> QED BY <2>3 DEF Inv, CoverInv, FlagInv, TileStart, TileEnd, Finalized, Stall
  <1>8. CountInv'
    BY DEF Inv, CountInv, Accounts, Flying, Ring, Stall, Fail
  <1> QED BY <1>4, <1>5, <1>6, <1>7, <1>8 DEF Inv

LEMMA ReadBlockStep ==
    ASSUME Inv, ReadBlock PROVE Inv'
  <1> USE AcquisitionAssumption DEF InputOnly, WorkerOnly, StatusUnchanged, ControlOnly, inputVars, ringVars, workVars,
          storeVars, statusVars, controlVars, surveyVars
  <1>1. StatusTypes' /\ ControlTypes' /\ InputTypes'
    BY DEF Inv, TypeOK, StatusTypes, ControlTypes, InputTypes, BlockType, ReadBlock
  <1>2. RingTypes' /\ WorkTypes'
    <2>1. pool[Slot(tail)].first \in Nat /\ pool[Slot(tail)].count \in Nat
      BY RingType, Numbers DEF Inv, Ring
    <2>2. samples' \in Nat /\ expected' \in Nat
      BY <2>1 DEF ReadBlock
    <2>3. pending' \in 0 .. FrameSize - 1 /\ openFrames' \in 0 .. TileFrames - 1
      BY DEF Inv, TypeOK, WorkTypes, ReadBlock
    <2> QED BY <2>2, <2>3 DEF Inv, TypeOK, RingTypes, WorkTypes, ReadBlock
  <1>3. CounterTypes' /\ StoreTypes'
    <2> DEFINE drop == GapRecord(expected, pool[Slot(tail)].first, "application_drop")
               tile == Interval(TileStart, TileEnd)
    <2>1. drop \subseteq GapType
      BY RingType, GapRecordType, Numbers DEF Inv, Ring
    <2>2. tile \subseteq Nat /\ PartialGap \subseteq GapType
      BY TileBounds, IntervalType, PartialGapType DEF Inv
    <2>3. tiles' \in {tiles, tiles \cup tile} /\ gaps' \in {gaps, gaps \cup PartialGap \cup drop}
      BY DEF ReadBlock
    <2> HIDE DEF drop, tile
    <2> QED BY <2>1, <2>2, <2>3 DEF Inv, TypeOK, CounterTypes, StoreTypes, ReadBlock
  <1>4. TypeOK'
    BY <1>1, <1>2, <1>3 DEF TypeOK
  <1>5. RingInv' /\ QueueInv' /\ FlagInv' /\ TileInv'
    <2> DEFINE block == Ring(tail)
    <2>1. tail \in tail .. head - 1
      BY Numbers DEF Inv, RingInv, ReadBlock
    <2>2. block.first \in Nat /\ block.count \in Nat /\ expected <= block.first
          /\ block.first + block.count <= Numbered /\ Numbered \in Nat
      BY <2>1, RingType, Numbers DEF Inv, QueueInv, Taken, Numbered, ReadBlock
    <2>3. samples' = block.count /\ expected' = block.first
      BY DEF Ring, ReadBlock
    <2>4. \A i \in tail .. head - 1 : block.first <= Ring(i).first
      <3>1. ASSUME NEW i \in tail .. head - 1 PROVE block.first <= Ring(i).first
        <4>1. CASE i = tail
          BY <2>2, <4>1
        <4>2. CASE tail < i
          <5>1. block.first + block.count <= Ring(i).first /\ Ring(i).first \in Nat
            BY <2>1, <4>2, RingType, Numbers DEF Inv, QueueInv
          <5> QED BY <2>2, <5>1
        <4> QED BY <4>1, <4>2, Numbers DEF Inv
      <3> QED BY <3>1
    <2>5. QueueInv'
      <3>1. Taken' = block.first /\ Numbered' = Numbered /\ \A i \in Nat : Ring(i)' = Ring(i)
        BY <2>3 DEF Taken, Numbered, Ring, ReadBlock
      <3>2. Taken' <= Numbered'
        BY <2>2, <3>1
      <3>3. \A i \in tail' .. head' - 1 :
              Taken' <= Ring(i)'.first /\ Ring(i)'.first + Ring(i)'.count <= Numbered'
        BY <2>4, <3>1, Numbers DEF Inv, QueueInv, ReadBlock
      <3>4. \A i, j \in tail' .. head' - 1 : i < j => Ring(i)'.first + Ring(i)'.count <= Ring(j)'.first
        BY <3>1, Numbers DEF Inv, QueueInv, ReadBlock
      <3>5. Ring(tail)'.first = expected' /\ Ring(tail)'.count = samples'
        BY <2>3 DEF Ring, ReadBlock
      <3>6. dpc' \in {"claim", "write"} => incoming'.first + incoming'.count = nextSample'
        BY DEF Inv, QueueInv, ReadBlock
      <3> QED BY <3>2, <3>3, <3>4, <3>5, <3>6 DEF QueueInv
    <2>6. TileInv'
      <3>1. CASE block.first # expected
        <4>1. pending' = 0 /\ openFrames' = 0
          BY <3>1 DEF Ring, ReadBlock
        <4> QED BY <2>2, <2>3, <4>1 DEF TileInv
      <3>2. CASE block.first = expected
        BY <2>3, <3>2 DEF Inv, TileInv, FlagInv, Ring, ReadBlock
      <3> QED BY <3>1, <3>2
    <2> QED BY <2>5, <2>6 DEF Inv, RingInv, FlagInv, ReadBlock
  <1>6. SaveInv'
    BY DEF Inv, SaveInv, ReadBlock
  <1>7. CoverInv'
    <2> DEFINE block == Ring(tail)
    <2>1. block.first \in Nat /\ expected <= block.first
      <3>1. tail \in tail .. head - 1
        BY Numbers DEF Inv, RingInv, ReadBlock
      <3> QED BY <3>1, RingType, Numbers DEF Inv, QueueInv, Taken, ReadBlock
    <2>2. Below(tiles, gaps, TileStart) /\ (~stalled => Covers(tiles, gaps, TileStart))
      BY DEF Inv, CoverInv, Finalized, ReadBlock
    <2>3. Below(tiles', gaps', TileStart') /\ (~stalled => Covers(tiles', gaps', TileStart'))
      <3>1. CASE block.first # expected
        <4> DEFINE t == tiles \cup Interval(TileStart, TileEnd)
                   g == gaps \cup PartialGap \cup GapRecord(expected, block.first, "application_drop")
        <4>1. /\ Below(t, g, sampleBase + block.first)
              /\ Covers(tiles, gaps, TileStart) => Covers(t, g, sampleBase + block.first)
          BY <2>1, <2>2, FlushCovers DEF Inv
        <4>2. tiles' = t /\ gaps' = g
          BY <3>1 DEF Ring, ReadBlock
        <4>3. /\ pending' = 0 /\ openFrames' = 0 /\ expected' = block.first
              /\ sampleBase' = sampleBase
          BY <3>1 DEF Ring, ReadBlock
        <4>4. TileStart' = sampleBase + block.first
          BY <2>1, <4>3, Numbers DEF Inv, TileStart, TileEnd
        <4> HIDE DEF t, g, block
        <4> QED BY <2>2, <4>1, <4>2, <4>4
      <3>2. CASE block.first = expected
        <4>1. UNCHANGED <<tiles, gaps, TileStart>>
          BY <3>2 DEF Ring, ReadBlock, TileStart, TileEnd
        <4> QED BY <2>2, <4>1
      <3> QED BY <3>1, <3>2
    <2> QED BY <2>3 DEF Inv, FlagInv, CoverInv, Finalized, ReadBlock
  <1>8. CountInv'
    BY DEF Inv, CountInv, Accounts, Flying, Ring, ReadBlock
  <1> QED BY <1>4, <1>5, <1>6, <1>7, <1>8 DEF Inv

LEMMA ReleaseBlockStep ==
    ASSUME Inv, ReleaseBlock PROVE Inv'
  <1> USE AcquisitionAssumption DEF InputOnly, WorkerOnly, StatusUnchanged, ControlOnly, inputVars, ringVars, workVars,
          storeVars, statusVars, controlVars, surveyVars
  <1>1. StatusTypes' /\ ControlTypes' /\ InputTypes'
    BY DEF Inv, TypeOK, StatusTypes, ControlTypes, InputTypes, BlockType, ReleaseBlock, EmptyBlock
  <1>2. RingTypes' /\ WorkTypes'
    <2>1. pool' \in [0 .. PoolBlocks - 1 -> BlockType]
      <3>1. EmptyBlock \in BlockType
        BY DEF EmptyBlock, BlockType
      <3> QED BY <3>1 DEF Inv, TypeOK, RingTypes, ReleaseBlock
    <2>2. RingTypes'
      <3>1. tail' = tail + 1 /\ head' = head /\ tail < head
        BY DEF Inv, RingInv, ReleaseBlock
      <3>2. tail' \in Nat /\ tail' <= head' /\ head' - tail' <= PoolBlocks
        BY <3>1, Numbers DEF Inv
      <3> QED BY <2>1, <3>1, <3>2, Numbers DEF Inv, RingTypes
    <2> QED BY <2>2 DEF Inv, TypeOK, WorkTypes, ReleaseBlock
  <1>3. CounterTypes' /\ StoreTypes'
    BY Numbers DEF Inv, TypeOK, CounterTypes, StoreTypes, ReleaseBlock
  <1>4. TypeOK'
    BY <1>1, <1>2, <1>3 DEF TypeOK
  <1>5. RingInv' /\ QueueInv' /\ FlagInv' /\ TileInv'
    <2>1. \A i \in tail + 1 .. head - 1 : pool'[Slot(i)] = Ring(i)
      BY RingReleased DEF Inv, ReleaseBlock
    <2>2. tail' = tail + 1 /\ head' = head /\ tail < head
      BY DEF Inv, RingInv, ReleaseBlock
    <2>3. Ring(tail).first = expected /\ Ring(tail).count = samples
      BY DEF Inv, QueueInv, ReleaseBlock
    <2>4. Taken' = expected + samples /\ Numbered' = Numbered
      BY DEF Taken, Numbered, ReleaseBlock
    <2>5. tail \in tail .. head - 1
      BY <2>2, Numbers DEF Inv
    <2>6. QueueInv'
      <3>1. \A i \in tail' .. head' - 1 : i \in tail .. head - 1 /\ tail < i /\ Ring(i)' = Ring(i)
        BY <2>1, <2>2, Numbers DEF Inv, Ring
      <3>2. \A i \in tail' .. head' - 1 :
              Taken' <= Ring(i)'.first /\ Ring(i)'.first + Ring(i)'.count <= Numbered'
        BY <2>3, <2>4, <2>5, <3>1 DEF Inv, QueueInv
      <3>3. \A i, j \in tail' .. head' - 1 : i < j => Ring(i)'.first + Ring(i)'.count <= Ring(j)'.first
        BY <3>1 DEF Inv, QueueInv
      <3>4. Taken' <= Numbered'
        BY <2>3, <2>4, <2>5 DEF Inv, QueueInv
      <3> QED BY <3>2, <3>3, <3>4 DEF Inv, QueueInv, ReleaseBlock
    <2> QED BY <2>2, <2>6, Numbers DEF Inv, RingInv, FlagInv, TileInv, ReleaseBlock
  <1>6. SaveInv'
    BY Numbers DEF Inv, SaveInv, ReleaseBlock
  <1>7. CoverInv'
    BY DEF Inv, CoverInv, TileStart, TileEnd, Finalized, ReleaseBlock, EmptyBlock
  <1>8. CountInv'
    <2>1. \A i \in tail + 1 .. head - 1 : pool'[Slot(i)] = Ring(i)
      BY RingReleased DEF Inv, ReleaseBlock
    <2>2. tail' = tail + 1 /\ head' = head /\ tail < head /\ Ring(tail).count = samples
      BY DEF Inv, RingInv, QueueInv, ReleaseBlock
    <2>3. ASSUME NEW acc \in [Nat -> Nat], Accounts(acc) PROVE Accounts(acc)'
      <3>1. tail \in tail .. head - 1
        BY <2>2, Numbers DEF Inv
      <3>2. acc[tail'] = delivered'
        BY <2>2, <2>3, <3>1 DEF Accounts, ReleaseBlock
      <3>3. \A i \in tail' .. head' - 1 : i \in tail .. head - 1 /\ Ring(i)' = Ring(i)
        BY <2>1, <2>2, Numbers DEF Inv, Ring
      <3> QED BY <2>2, <2>3, <3>2, <3>3 DEF Accounts, Flying, ReleaseBlock
    <2> QED BY <2>3 DEF Inv, FlagInv, CountInv, ReleaseBlock
  <1> QED BY <1>4, <1>5, <1>6, <1>7, <1>8 DEF Inv

\* Feeding leaves less than a frame and less than a tile open, and the open tile
\* now begins after the tiles it has stored.
LEMMA FeedTypes ==
    ASSUME TypeOK, FeedBlock
    PROVE  /\ pending' \in 0 .. FrameSize - 1 /\ openFrames' \in 0 .. TileFrames - 1
           /\ pending' \in Nat /\ openFrames' \in Nat
  <1> DEFINE all == pending + samples
  <1>1. all \in Nat /\ openFrames \in Nat
    BY Numbers
  <1>2. pending' = all % FrameSize
        /\ openFrames' = (openFrames + all \div FrameSize)
                          - CompleteFrames(openFrames + all \div FrameSize)
    BY DEF FeedBlock
  <1> HIDE DEF all
  <1>3. pending' \in 0 .. FrameSize - 1 /\ openFrames' \in 0 .. TileFrames - 1
    BY <1>1, <1>2, FeedArithmetic
  <1> QED BY <1>3, AcquisitionAssumption

LEMMA FeedMoves ==
    ASSUME TypeOK, TileInv, FeedBlock
    PROVE  \E n \in Nat : /\ TileStart' = TileStart + n
                          /\ tiles' = tiles \cup Interval(TileStart, TileStart + n)
  <1> DEFINE all    == pending + samples
             frames == openFrames + all \div FrameSize
             stored == CompleteFrames(frames)
             n      == stored * FrameSize
             o      == openFrames * FrameSize
             p      == openFrames' * FrameSize
  <1>1. all \in Nat /\ openFrames \in Nat
    BY Numbers
  <1>2. /\ pending' = all % FrameSize /\ openFrames' = frames - stored
        /\ tiles' = tiles \cup Interval(TileStart, TileStart + n)
    BY DEF FeedBlock
  <1>3. /\ TileStart = (sampleBase + (expected - pending)) - o
        /\ TileStart' = (sampleBase + ((expected + samples) - pending')) - p
    BY DEF TileStart, TileEnd, FeedBlock, WorkerOnly, surveyVars
  <1> HIDE DEF all
  <1>4. /\ n \in Nat
        /\ all + o = (all % FrameSize) + (frames - stored) * FrameSize + n
    BY <1>1, FeedArithmetic
  <1> HIDE DEF frames, stored, n
  <1>5. all + o = pending' + p + n
    BY <1>2, <1>4
  <1>6. o \in Nat /\ p \in Nat /\ pending' \in Nat
    BY <1>1, FeedTypes, Product, AcquisitionAssumption
  <1> HIDE DEF o, p
  <1>7. TileStart' = TileStart + n
    BY <1>3, <1>4, <1>5, <1>6, Numbers DEF all
  <1> QED BY <1>2, <1>4, <1>7

LEMMA FeedBlockStep ==
    ASSUME Inv, FeedBlock PROVE Inv'
  <1> USE AcquisitionAssumption DEF InputOnly, WorkerOnly, StatusUnchanged, ControlOnly, inputVars, ringVars, workVars,
          storeVars, statusVars, controlVars, surveyVars
  <1>1. StatusTypes' /\ ControlTypes' /\ InputTypes'
    BY DEF Inv, TypeOK, StatusTypes, ControlTypes, InputTypes, BlockType, FeedBlock
  <1>2. RingTypes' /\ WorkTypes'
    <2>1. expected' \in Nat /\ samples' \in Nat /\ wpc' \in {"loop", "periodic"}
      BY Numbers DEF Inv, FeedBlock
    <2> QED BY <2>1, FeedTypes DEF Inv, TypeOK, RingTypes, WorkTypes, FeedBlock
  <1>3. CounterTypes' /\ StoreTypes'
    <2>1. PICK n \in Nat : tiles' = tiles \cup Interval(TileStart, TileStart + n)
      BY FeedMoves DEF Inv
    <2>2. TileStart \in Nat /\ TileStart + n \in Int
      BY <2>1, TileBounds DEF Inv
    <2>3. tiles' \in SUBSET Nat
      BY <2>1, <2>2, IntervalType DEF Inv, TypeOK, StoreTypes
    <2> QED BY <2>3, Numbers DEF Inv, TypeOK, CounterTypes, StoreTypes, FeedBlock
  <1>4. TypeOK'
    BY <1>1, <1>2, <1>3 DEF TypeOK
  <1>5. RingInv' /\ QueueInv' /\ FlagInv' /\ TileInv'
    <2>1. TileInv'
      <3> DEFINE p == openFrames' * FrameSize
      <3>1. PICK n \in Nat : TileStart' = TileStart + n
        BY FeedMoves DEF Inv
      <3>2. sampleBase <= TileStart' /\ sampleBase \in Nat
        BY <3>1, TileBounds, Numbers DEF Inv
      <3>3. TileStart' = (sampleBase + (expected' - pending')) - p
        BY DEF TileStart, TileEnd, FeedBlock
      <3>4. p \in Nat /\ pending' \in Nat /\ expected' \in Nat
        <4>1. openFrames' \in Nat /\ pending' \in Nat
          BY FeedTypes DEF Inv
        <4> QED BY <4>1, Product, Numbers DEF Inv, FeedBlock
      <3> HIDE DEF p
      <3>5. sampleBase <= (sampleBase + (expected' - pending')) - p
        BY <3>2, <3>3
      <3>6. pending' + p <= expected'
        BY <3>2, <3>4, <3>5, Rearrange
      <3>7. wpc' # "final_commit" /\ ~finalSaveConfirmed'
        BY DEF Inv, FlagInv, FeedBlock
      <3> QED BY <3>6, <3>7 DEF TileInv, p
    <2>2. QueueInv'
      <3>1. Taken' = Taken
        BY DEF Taken, FeedBlock
      <3> QED BY <3>1 DEF Inv, QueueInv, Ring, Numbered, FeedBlock
    <2> QED BY <2>1, <2>2 DEF Inv, RingInv, FlagInv, FeedBlock
  <1>6. SaveInv'
    BY DEF Inv, SaveInv, FeedBlock
  <1>7. CoverInv'
    <2>1. PICK n \in Nat : /\ TileStart' = TileStart + n
                           /\ tiles' = tiles \cup Interval(TileStart, TileStart + n)
      BY FeedMoves DEF Inv
    <2>2. TileStart \in Nat /\ TileStart' \in Nat /\ TileStart <= TileStart'
      BY <2>1, TileBounds DEF Inv
    <2>3. Below(tiles, gaps, TileStart) /\ (~stalled => Covers(tiles, gaps, TileStart))
      BY DEF Inv, CoverInv, Finalized, FeedBlock
    <2>4. Below(tiles', gaps, TileStart') /\ (~stalled => Covers(tiles', gaps, TileStart'))
      BY <2>1, <2>2, <2>3, AddTile
    <2> QED BY <2>4 DEF Inv, FlagInv, CoverInv, Finalized, FeedBlock
  <1>8. CountInv'
    <2>1. ~finalSaveConfirmed /\ ~finalSaveConfirmed'
      BY DEF Inv, FlagInv, FeedBlock
    <2>2. ASSUME NEW acc \in [Nat -> Nat], Accounts(acc) PROVE Accounts(acc)'
      BY <2>2 DEF Accounts, Flying, Ring, FeedBlock
    <2> QED BY <2>1, <2>2 DEF Inv, CountInv, FeedBlock
  <1> QED BY <1>4, <1>5, <1>6, <1>7, <1>8 DEF Inv

LEMMA FinalizeStep ==
    ASSUME Inv, Finalize PROVE Inv'
  <1> USE AcquisitionAssumption DEF InputOnly, WorkerOnly, StatusUnchanged, ControlOnly, inputVars, ringVars, workVars,
          storeVars, statusVars, controlVars, surveyVars
  <1>1. StatusTypes' /\ ControlTypes' /\ InputTypes'
    BY DEF Inv, TypeOK, StatusTypes, ControlTypes, InputTypes, BlockType, Finalize
  <1>2. RingTypes' /\ WorkTypes'
    BY DEF Inv, TypeOK, RingTypes, WorkTypes, Finalize
  <1>3. CounterTypes' /\ StoreTypes'
    <2> DEFINE drop == GapRecord(expected, nextSample, "application_drop")
               tile == Interval(TileStart, TileEnd)
    <2>1. drop \subseteq GapType
      BY GapRecordType, Numbers DEF Inv
    <2>2. tile \subseteq Nat /\ PartialGap \subseteq GapType
      BY TileBounds, IntervalType, PartialGapType DEF Inv
    <2>3. tiles' = tiles \cup tile /\ gaps' = gaps \cup PartialGap \cup drop
      BY DEF Finalize
    <2> HIDE DEF drop, tile
    <2>4. StoreTypes'
      BY <2>1, <2>2, <2>3 DEF Inv, TypeOK, StoreTypes
    <2>5. CounterTypes'
      BY Numbers DEF Inv, TypeOK, CounterTypes, Finalize
    <2> QED BY <2>4, <2>5
  <1>4. TypeOK'
    BY <1>1, <1>2, <1>3 DEF TypeOK
  <1>5. RingInv' /\ QueueInv' /\ FlagInv' /\ TileInv'
    BY Numbers DEF Inv, RingInv, QueueInv, FlagInv, TileInv, Ring, Taken, Numbered, Finalize
  <1>6. SaveInv'
    BY Numbers DEF Inv, SaveInv, Finalize
  <1>7. CoverInv'
    <2> DEFINE t == tiles \cup Interval(TileStart, TileEnd)
               g == gaps \cup PartialGap \cup GapRecord(expected, nextSample, "application_drop")
    <2>1. nextSample \in Nat /\ expected <= nextSample
      BY Numbers DEF Inv, QueueInv, Taken, Numbered, Finalize
    <2>2. Below(tiles, gaps, TileStart) /\ (~stalled => Covers(tiles, gaps, TileStart))
      BY DEF Inv, CoverInv, Finalized, Finalize
    <2>3. /\ Below(t, g, sampleBase + nextSample)
          /\ Covers(tiles, gaps, TileStart) => Covers(t, g, sampleBase + nextSample)
      BY <2>1, <2>2, FlushCovers DEF Inv
    <2>4. tiles' = t /\ gaps' = g
      BY DEF Finalize
    <2> HIDE DEF t, g
    <2> QED BY <2>2, <2>3, <2>4 DEF CoverInv, Finalized, Finalize
  <1>8. CountInv'
    <2>1. ASSUME NEW acc \in [Nat -> Nat], Accounts(acc) PROVE Accounts(acc)'
      BY <2>1 DEF Accounts, Flying, Ring, Finalize
    <2>2. ASSUME ~stalled PROVE delivered' + viewDropped' = sampleBase' + nextSample'
      <3>1. PICK acc \in [Nat -> Nat] : Accounts(acc)
        BY <2>2 DEF Inv, CountInv
      <3>2. head = tail /\ Flying = 0
        BY <2>2 DEF Inv, FlagInv, Flying, Finalize
      <3> QED BY <3>1, <3>2, Numbers DEF Inv, Accounts, Finalize
    <2> QED BY <2>1, <2>2 DEF Inv, CountInv, Finalize
  <1> QED BY <1>4, <1>5, <1>6, <1>7, <1>8 DEF Inv

LEMMA FinalCommitStep ==
    ASSUME Inv, FinalCommit PROVE Inv'
  <1> USE AcquisitionAssumption DEF InputOnly, WorkerOnly, StatusUnchanged, ControlOnly, inputVars, ringVars, workVars,
          storeVars, statusVars, controlVars, surveyVars
  <1>1. StatusTypes' /\ ControlTypes' /\ InputTypes'
    BY DEF Inv, TypeOK, StatusTypes, ControlTypes, InputTypes, BlockType, FinalCommit, NoCopy
  <1>2. RingTypes' /\ WorkTypes'
    BY DEF Inv, TypeOK, RingTypes, WorkTypes, FinalCommit, NoCopy
  <1>3. CounterTypes' /\ StoreTypes'
    BY DEF Inv, TypeOK, CounterTypes, StoreTypes, FinalCommit, NoCopy
  <1>4. TypeOK'
    BY <1>1, <1>2, <1>3 DEF TypeOK
  <1>5. RingInv' /\ QueueInv' /\ FlagInv' /\ TileInv'
    BY DEF Inv, RingInv, QueueInv, FlagInv, TileInv, Ring, Taken, Numbered, FinalCommit, NoCopy
  <1>6. SaveInv'
    BY Numbers DEF Inv, SaveInv, FinalCommit, NoCopy
  <1>7. CoverInv'
    BY DEF Inv, CoverInv, TileStart, TileEnd, Finalized, FinalCommit, NoCopy
  <1>8. CountInv'
    BY DEF Inv, CountInv, Accounts, Flying, Ring, FinalCommit, NoCopy
  <1> QED BY <1>4, <1>5, <1>6, <1>7, <1>8 DEF Inv

LEMMA StoreThrowsStep ==
    ASSUME Inv, StoreThrows PROVE Inv'
  <1> USE AcquisitionAssumption DEF InputOnly, WorkerOnly, StatusUnchanged, ControlOnly, inputVars, ringVars, workVars,
          storeVars, statusVars, controlVars, surveyVars
  <1>1. StatusTypes' /\ ControlTypes' /\ InputTypes'
    BY DEF Inv, TypeOK, StatusTypes, ControlTypes, InputTypes, BlockType, StoreThrows, Fail
  <1>2. RingTypes' /\ WorkTypes'
    BY DEF Inv, TypeOK, RingTypes, WorkTypes, StoreThrows, Fail
  <1>3. CounterTypes' /\ StoreTypes'
    BY DEF Inv, TypeOK, CounterTypes, StoreTypes, StoreThrows, Fail
  <1>4. TypeOK'
    BY <1>1, <1>2, <1>3 DEF TypeOK
  <1>5. RingInv' /\ QueueInv' /\ FlagInv' /\ TileInv'
    <2>1. RingInv' /\ FlagInv'
      BY Numbers DEF Inv, RingInv, FlagInv, StoreThrows, Fail
    <2>2. TileInv'
      BY DEF Inv, TileInv, FlagInv, StoreThrows, Fail
    <2>3. QueueInv'
      <3>1. Taken' <= Taken /\ Numbered <= Numbered' /\ Taken \in Nat /\ Taken' \in Nat
            /\ Numbered \in Nat /\ Numbered' \in Nat
        BY Numbers DEF Inv, QueueInv, Taken, Numbered, StoreThrows, Fail
      <3>2. UNCHANGED <<pool, head, tail>>
        BY DEF StoreThrows
      <3>3. \A i \in tail .. head - 1 : Ring(i).first \in Nat /\ Ring(i).count \in Nat /\ Ring(i)' = Ring(i)
        BY <3>2, RingType, Numbers DEF Inv, Ring
      <3>4. \A i \in tail' .. head' - 1 :
              Taken' <= Ring(i)'.first /\ Ring(i)'.first + Ring(i)'.count <= Numbered'
        BY <3>1, <3>2, <3>3 DEF Inv, QueueInv
      <3>5. \A i, j \in tail' .. head' - 1 : i < j => Ring(i)'.first + Ring(i)'.count <= Ring(j)'.first
        BY <3>2, <3>3 DEF Inv, QueueInv
      <3>6. Taken' <= Numbered'
        BY <3>1 DEF Inv, QueueInv
      <3>7. dpc' \in {"claim", "write"} => incoming'.first + incoming'.count = nextSample'
        BY DEF Inv, QueueInv, StoreThrows
      <3>8. wpc' = "release" => Ring(tail)'.first = expected' /\ Ring(tail)'.count = samples'
        BY DEF Inv, QueueInv, Ring, StoreThrows
      <3> QED BY <3>4, <3>5, <3>6, <3>7, <3>8 DEF QueueInv
    <2> QED BY <2>1, <2>2, <2>3
  <1>6. SaveInv'
    BY DEF Inv, SaveInv, StoreThrows, Fail
  <1>7. CoverInv'
    <2>1. Below(tiles, gaps, sampleBase + nextSample)
      <3>1. CASE Finalized
        BY <3>1 DEF Inv, CoverInv
      <3>2. CASE ~Finalized
        <4>1. TileStart \in Nat /\ TileStart <= sampleBase + expected
          BY TileBounds, Numbers DEF Inv
        <4>2. expected <= nextSample
          BY Numbers DEF Inv, QueueInv, Taken, Numbered
        <4>3. TileStart <= sampleBase + nextSample /\ sampleBase + nextSample \in Int
          BY <4>1, <4>2, Numbers DEF Inv
        <4> QED BY <3>2, <4>1, <4>3, BelowMonotonic DEF Inv, CoverInv
      <3> QED BY <3>1, <3>2
    <2>2. ~finalSaveConfirmed /\ ~finalSaveConfirmed'
      BY DEF Inv, FlagInv, StoreThrows
    <2> QED BY <2>1, <2>2 DEF CoverInv, Finalized, StoreThrows, Fail
  <1>8. CountInv'
    BY DEF Inv, CountInv, Accounts, Flying, Ring, StoreThrows, Fail
  <1> QED BY <1>4, <1>5, <1>6, <1>7, <1>8 DEF Inv

LEMMA WorkerEndsStep ==
    ASSUME Inv, WorkerEnds PROVE Inv'
  <1> USE AcquisitionAssumption DEF InputOnly, WorkerOnly, StatusUnchanged, ControlOnly, inputVars, ringVars, workVars,
          storeVars, statusVars, controlVars, surveyVars
  <1>1. StatusTypes' /\ ControlTypes' /\ InputTypes'
    BY DEF Inv, TypeOK, StatusTypes, ControlTypes, InputTypes, BlockType, WorkerEnds
  <1>2. RingTypes' /\ WorkTypes'
    BY DEF Inv, TypeOK, RingTypes, WorkTypes, WorkerEnds
  <1>3. CounterTypes' /\ StoreTypes'
    BY DEF Inv, TypeOK, CounterTypes, StoreTypes, WorkerEnds
  <1>4. TypeOK'
    BY <1>1, <1>2, <1>3 DEF TypeOK
  <1>5. RingInv' /\ QueueInv' /\ FlagInv' /\ TileInv'
    BY DEF Inv, RingInv, QueueInv, FlagInv, TileInv, Ring, Taken, Numbered, WorkerEnds
  <1>6. SaveInv'
    BY DEF Inv, SaveInv, WorkerEnds
  <1>7. CoverInv'
    BY DEF Inv, CoverInv, TileStart, TileEnd, Finalized, WorkerEnds
  <1>8. CountInv'
    BY DEF Inv, CountInv, Accounts, Flying, Ring, WorkerEnds
  <1> QED BY <1>4, <1>5, <1>6, <1>7, <1>8 DEF Inv

LEMMA SaveRequestStep ==
    ASSUME Inv, SaveRequest PROVE Inv'
  <1> USE AcquisitionAssumption DEF InputOnly, WorkerOnly, StatusUnchanged, ControlOnly, inputVars, ringVars, workVars,
          storeVars, statusVars, controlVars, surveyVars
  <1>1. StatusTypes' /\ ControlTypes' /\ InputTypes'
    BY Numbers DEF Inv, TypeOK, StatusTypes, ControlTypes, InputTypes, SaveRequest
  <1>2. RingTypes' /\ WorkTypes'
    BY DEF Inv, TypeOK, RingTypes, WorkTypes, SaveRequest
  <1>3. CounterTypes' /\ StoreTypes'
    BY DEF Inv, TypeOK, CounterTypes, StoreTypes, SaveRequest
  <1>4. TypeOK'
    BY <1>1, <1>2, <1>3 DEF TypeOK
  <1>5. RingInv' /\ QueueInv' /\ FlagInv' /\ TileInv'
    BY DEF Inv, RingInv, QueueInv, FlagInv, TileInv, Ring, Taken, Numbered, SaveRequest
  <1>6. SaveInv'
    <2>1. saveRequested' = saveRequested + 1 /\ request' = saveRequested + 1 /\ asked' = delivered
          /\ upc' = "saving" /\ UNCHANGED <<delivered, durable, checkpoint, saveCompleted, wpc>>
      BY DEF SaveRequest
    <2>2. wpc # "final_commit"
      BY DEF Inv, FlagInv, SaveRequest
    <2>3. saveCompleted' < request' /\ saveCompleted' <= saveRequested'
      BY <2>1, Numbers DEF Inv, SaveInv
    <2>4. wpc \in {"commit", "periodic_commit"} => checkpoint'.request < request'
      BY <2>1, Numbers DEF Inv, SaveInv
    <2> QED BY <2>1, <2>2, <2>3, <2>4, Numbers DEF Inv, SaveInv
  <1>7. CoverInv'
    BY DEF Inv, CoverInv, TileStart, TileEnd, Finalized, SaveRequest
  <1>8. CountInv'
    BY DEF Inv, CountInv, Accounts, Flying, Ring, SaveRequest
  <1> QED BY <1>4, <1>5, <1>6, <1>7, <1>8 DEF Inv

LEMMA SaveReturnsStep ==
    ASSUME Inv, SaveReturns PROVE Inv'
  <1> USE AcquisitionAssumption DEF InputOnly, WorkerOnly, StatusUnchanged, ControlOnly, inputVars, ringVars, workVars,
          storeVars, statusVars, controlVars, surveyVars
  <1>1. StatusTypes' /\ ControlTypes' /\ InputTypes'
    BY DEF Inv, TypeOK, StatusTypes, ControlTypes, InputTypes, BlockType, SaveReturns
  <1>2. RingTypes' /\ WorkTypes'
    BY DEF Inv, TypeOK, RingTypes, WorkTypes, SaveReturns
  <1>3. CounterTypes' /\ StoreTypes'
    BY DEF Inv, TypeOK, CounterTypes, StoreTypes, SaveReturns
  <1>4. TypeOK'
    BY <1>1, <1>2, <1>3 DEF TypeOK
  <1>5. RingInv' /\ QueueInv' /\ FlagInv' /\ TileInv'
    BY DEF Inv, RingInv, QueueInv, FlagInv, TileInv, Ring, Taken, Numbered, SaveReturns
  <1>6. SaveInv'
    BY DEF Inv, SaveInv, SaveReturns
  <1>7. CoverInv'
    BY DEF Inv, CoverInv, TileStart, TileEnd, Finalized, SaveReturns
  <1>8. CountInv'
    BY DEF Inv, CountInv, Accounts, Flying, Ring, SaveReturns
  <1> QED BY <1>4, <1>5, <1>6, <1>7, <1>8 DEF Inv

LEMMA SaveTimeoutStep ==
    ASSUME Inv, SaveTimeout PROVE Inv'
  <1> USE AcquisitionAssumption DEF InputOnly, WorkerOnly, StatusUnchanged, ControlOnly, inputVars, ringVars, workVars,
          storeVars, statusVars, controlVars, surveyVars
  <1>1. StatusTypes' /\ ControlTypes' /\ InputTypes'
    BY DEF Inv, TypeOK, StatusTypes, ControlTypes, InputTypes, BlockType, SaveTimeout
  <1>2. RingTypes' /\ WorkTypes'
    BY DEF Inv, TypeOK, RingTypes, WorkTypes, SaveTimeout
  <1>3. CounterTypes' /\ StoreTypes'
    BY DEF Inv, TypeOK, CounterTypes, StoreTypes, SaveTimeout
  <1>4. TypeOK'
    BY <1>1, <1>2, <1>3 DEF TypeOK
  <1>5. RingInv' /\ QueueInv' /\ FlagInv' /\ TileInv'
    BY DEF Inv, RingInv, QueueInv, FlagInv, TileInv, Ring, Taken, Numbered, SaveTimeout
  <1>6. SaveInv'
    BY DEF Inv, SaveInv, SaveTimeout
  <1>7. CoverInv'
    BY DEF Inv, CoverInv, TileStart, TileEnd, Finalized, SaveTimeout
  <1>8. CountInv'
    BY DEF Inv, CountInv, Accounts, Flying, Ring, SaveTimeout
  <1> QED BY <1>4, <1>5, <1>6, <1>7, <1>8 DEF Inv

LEMMA SaveShownStep ==
    ASSUME Inv, SaveShown PROVE Inv'
  <1> USE AcquisitionAssumption DEF InputOnly, WorkerOnly, StatusUnchanged, ControlOnly, inputVars, ringVars, workVars,
          storeVars, statusVars, controlVars, surveyVars
  <1>1. StatusTypes' /\ ControlTypes' /\ InputTypes'
    BY DEF Inv, TypeOK, StatusTypes, ControlTypes, InputTypes, BlockType, SaveShown
  <1>2. RingTypes' /\ WorkTypes'
    BY DEF Inv, TypeOK, RingTypes, WorkTypes, SaveShown
  <1>3. CounterTypes' /\ StoreTypes'
    BY DEF Inv, TypeOK, CounterTypes, StoreTypes, SaveShown
  <1>4. TypeOK'
    BY <1>1, <1>2, <1>3 DEF TypeOK
  <1>5. RingInv' /\ QueueInv' /\ FlagInv' /\ TileInv'
    BY DEF Inv, RingInv, QueueInv, FlagInv, TileInv, Ring, Taken, Numbered, SaveShown
  <1>6. SaveInv'
    BY DEF Inv, SaveInv, SaveShown
  <1>7. CoverInv'
    BY DEF Inv, CoverInv, TileStart, TileEnd, Finalized, SaveShown
  <1>8. CountInv'
    BY DEF Inv, CountInv, Accounts, Flying, Ring, SaveShown
  <1> QED BY <1>4, <1>5, <1>6, <1>7, <1>8 DEF Inv

LEMMA StopRunStep ==
    ASSUME Inv, StopRun PROVE Inv'
  <1> USE AcquisitionAssumption DEF InputOnly, WorkerOnly, StatusUnchanged, ControlOnly, inputVars, ringVars, workVars,
          storeVars, statusVars, controlVars, surveyVars
  <1>1. StatusTypes' /\ ControlTypes' /\ InputTypes'
    BY DEF Inv, TypeOK, StatusTypes, ControlTypes, InputTypes, BlockType, StopRun
  <1>2. RingTypes' /\ WorkTypes'
    BY DEF Inv, TypeOK, RingTypes, WorkTypes, StopRun
  <1>3. CounterTypes' /\ StoreTypes'
    BY DEF Inv, TypeOK, CounterTypes, StoreTypes, StopRun
  <1>4. TypeOK'
    BY <1>1, <1>2, <1>3 DEF TypeOK
  <1>5. RingInv' /\ QueueInv' /\ FlagInv' /\ TileInv'
    BY DEF Inv, RingInv, QueueInv, FlagInv, TileInv, Ring, Taken, Numbered, StopRun
  <1>6. SaveInv'
    BY DEF Inv, SaveInv, StopRun
  <1>7. CoverInv'
    BY DEF Inv, CoverInv, TileStart, TileEnd, Finalized, StopRun
  <1>8. CountInv'
    BY DEF Inv, CountInv, Accounts, Flying, Ring, StopRun
  <1> QED BY <1>4, <1>5, <1>6, <1>7, <1>8 DEF Inv

LEMMA StopInputStep ==
    ASSUME Inv, StopInput PROVE Inv'
  <1> USE AcquisitionAssumption DEF InputOnly, WorkerOnly, StatusUnchanged, ControlOnly, inputVars, ringVars, workVars,
          storeVars, statusVars, controlVars, surveyVars
  <1>1. StatusTypes' /\ ControlTypes' /\ InputTypes'
    BY DEF Inv, TypeOK, StatusTypes, ControlTypes, InputTypes, BlockType, StopInput, InputStopped, InputFlag
  <1>2. RingTypes' /\ WorkTypes'
    BY DEF Inv, TypeOK, RingTypes, WorkTypes, StopInput, InputStopped, InputFlag
  <1>3. CounterTypes' /\ StoreTypes'
    BY DEF Inv, TypeOK, CounterTypes, StoreTypes, StopInput, InputStopped, InputFlag
  <1>4. TypeOK'
    BY <1>1, <1>2, <1>3 DEF TypeOK
  <1>5. RingInv' /\ QueueInv' /\ FlagInv' /\ TileInv'
    BY DEF Inv, RingInv, QueueInv, FlagInv, TileInv, Ring, Taken, Numbered, StopInput, InputStopped, InputFlag
  <1>6. SaveInv'
    BY DEF Inv, SaveInv, StopInput, InputStopped, InputFlag
  <1>7. CoverInv'
    BY DEF Inv, CoverInv, TileStart, TileEnd, Finalized, StopInput, InputStopped, InputFlag
  <1>8. CountInv'
    BY DEF Inv, CountInv, Accounts, Flying, Ring, StopInput, InputStopped, InputFlag
  <1> QED BY <1>4, <1>5, <1>6, <1>7, <1>8 DEF Inv

LEMMA StopJoinStep ==
    ASSUME Inv, StopJoin PROVE Inv'
  <1> USE AcquisitionAssumption DEF InputOnly, WorkerOnly, StatusUnchanged, ControlOnly, inputVars, ringVars, workVars,
          storeVars, statusVars, controlVars, surveyVars
  <1>1. StatusTypes' /\ ControlTypes' /\ InputTypes'
    BY DEF Inv, TypeOK, StatusTypes, ControlTypes, InputTypes, BlockType, StopJoin
  <1>2. RingTypes' /\ WorkTypes'
    BY DEF Inv, TypeOK, RingTypes, WorkTypes, StopJoin
  <1>3. CounterTypes' /\ StoreTypes'
    BY DEF Inv, TypeOK, CounterTypes, StoreTypes, StopJoin
  <1>4. TypeOK'
    BY <1>1, <1>2, <1>3 DEF TypeOK
  <1>5. RingInv' /\ QueueInv' /\ FlagInv' /\ TileInv'
    BY DEF Inv, RingInv, QueueInv, FlagInv, TileInv, Ring, Taken, Numbered, StopJoin
  <1>6. SaveInv'
    BY DEF Inv, SaveInv, StopJoin
  <1>7. CoverInv'
    BY DEF Inv, CoverInv, TileStart, TileEnd, Finalized, StopJoin
  <1>8. CountInv'
    BY DEF Inv, CountInv, Accounts, Flying, Ring, StopJoin
  <1> QED BY <1>4, <1>5, <1>6, <1>7, <1>8 DEF Inv

LEMMA ResumeStep ==
    ASSUME Inv, Resume PROVE Inv'
  <1> USE AcquisitionAssumption DEF InputOnly, WorkerOnly, StatusUnchanged, ControlOnly, inputVars, ringVars, workVars,
          storeVars, statusVars, controlVars, surveyVars
  <1>1. StatusTypes' /\ ControlTypes' /\ InputTypes'
    <2>1. StatusTypes'
      BY DEF Inv, TypeOK, StatusTypes, Resume
    <2>2. runs' \in Nat /\ sampleBase' \in Nat
      <3>1. runs' = runs + 1 /\ sampleBase' = sampleBase + nextSample
        BY DEF NextBase, Resume
      <3>2. runs \in Nat /\ sampleBase \in Nat /\ nextSample \in Nat
        BY DEF Inv, TypeOK, ControlTypes, InputTypes
      <3> QED BY <3>1, <3>2
    <2>3. ControlTypes'
      BY <2>2 DEF Inv, TypeOK, ControlTypes, Resume
    <2>4. InputTypes'
      BY DEF Inv, TypeOK, InputTypes, Resume
    <2> QED BY <2>1, <2>3, <2>4
  <1>2. RingTypes' /\ WorkTypes'
    <2>1. RingTypes'
      BY EmptyRing DEF Resume
    <2> QED BY <2>1 DEF Inv, TypeOK, WorkTypes, Resume
  <1>3. CounterTypes' /\ StoreTypes'
    BY DEF Inv, TypeOK, CounterTypes, StoreTypes, Resume, NextBase, EmptyBlock
  <1>4. TypeOK'
    BY <1>1, <1>2, <1>3 DEF TypeOK
  <1>5. RingInv' /\ QueueInv' /\ FlagInv' /\ TileInv'
    BY DEF Inv, RingInv, QueueInv, FlagInv, TileInv, Ring, Taken, Numbered, Resume, NextBase, EmptyBlock
  <1>6. SaveInv'
    BY DEF Inv, SaveInv, Resume, NextBase, EmptyBlock
  <1>7. CoverInv'
    <2>1. wpc = "exited" /\ finalSaveConfirmed /\ pending = 0 /\ openFrames = 0
      BY DEF Inv, FlagInv, TileInv, Resume
    <2>2. /\ Below(tiles, gaps, sampleBase + nextSample)
          /\ ~stalled => Covers(tiles, gaps, sampleBase + nextSample)
      BY <2>1 DEF Inv, CoverInv, Finalized
    <2>3. /\ sampleBase' = sampleBase + nextSample /\ expected' = 0 /\ nextSample' = 0
          /\ pending' = 0 /\ openFrames' = 0
      BY <2>1 DEF Resume, NextBase
    <2>4. TileStart' = sampleBase + nextSample /\ sampleBase' + nextSample' = sampleBase + nextSample
      BY <2>3, Numbers DEF Inv, TileStart, TileEnd
    <2> QED BY <2>2, <2>4 DEF CoverInv, Finalized, Resume
  <1>8. CountInv'
    <2>1. ~stalled => delivered + viewDropped = sampleBase + nextSample
      BY DEF Inv, CountInv, Resume
    <2>2. PICK acc \in [Nat -> Nat] : acc[0] = delivered
      <3> DEFINE a == [i \in Nat |-> delivered]
      <3>1. a \in [Nat -> Nat] /\ a[0] = delivered
        BY Numbers DEF Inv
      <3> QED BY <3>1
    <2>3. /\ sampleBase' = sampleBase + nextSample /\ nextSample' = 0 /\ dropped' = 0
          /\ dropBase' = viewDropped /\ head' = 0 /\ tail' = 0
          /\ UNCHANGED <<delivered, viewDropped, stalled>>
      BY DEF Resume, NextBase
    <2>4. dpc' = "idle"
      BY DEF Inv, FlagInv, Resume
    <2>5. ~stalled => Accounts(acc)'
      <3>1. tail' .. head' - 1 = {} /\ acc[tail'] = delivered' /\ acc[head'] = delivered
        BY <2>2, <2>3
      <3>2. Flying' = 0
        BY <2>4 DEF Flying
      <3>3. ~stalled => acc[head'] + Flying' + dropped' + dropBase' = sampleBase' + nextSample'
        BY <2>1, <2>3, <3>1, <3>2, Numbers DEF Inv
      <3> QED BY <3>1, <3>3 DEF Accounts
    <2>6. ~stalled => delivered' + viewDropped' = sampleBase' + nextSample'
      BY <2>1, <2>3, Numbers DEF Inv
    <2> QED BY <2>2, <2>3, <2>5, <2>6 DEF CountInv
  <1> QED BY <1>4, <1>5, <1>6, <1>7, <1>8 DEF Inv

LEMMA ResumeFailsStep ==
    ASSUME Inv, ResumeFails PROVE Inv'
  <1> USE AcquisitionAssumption DEF InputOnly, WorkerOnly, StatusUnchanged, ControlOnly, inputVars, ringVars, workVars,
          storeVars, statusVars, controlVars, surveyVars
  <1>1. StatusTypes' /\ ControlTypes' /\ InputTypes'
    <2>1. StatusTypes'
      BY DEF Inv, TypeOK, StatusTypes, ResumeFails
    <2>2. runs' \in Nat /\ sampleBase' \in Nat
      <3>1. runs' = runs + 1 /\ sampleBase' = sampleBase + nextSample
        BY DEF NextBase, ResumeFails
      <3>2. runs \in Nat /\ sampleBase \in Nat /\ nextSample \in Nat
        BY DEF Inv, TypeOK, ControlTypes, InputTypes
      <3> QED BY <3>1, <3>2
    <2>3. ControlTypes'
      BY <2>2 DEF Inv, TypeOK, ControlTypes, ResumeFails
    <2>4. InputTypes'
      BY DEF Inv, TypeOK, InputTypes, ResumeFails
    <2> QED BY <2>1, <2>3, <2>4
  <1>2. RingTypes' /\ WorkTypes'
    <2>1. RingTypes'
      BY EmptyRing DEF ResumeFails
    <2> QED BY <2>1 DEF Inv, TypeOK, WorkTypes, ResumeFails
  <1>3. CounterTypes' /\ StoreTypes'
    BY DEF Inv, TypeOK, CounterTypes, StoreTypes, ResumeFails, NextBase, EmptyBlock
  <1>4. TypeOK'
    BY <1>1, <1>2, <1>3 DEF TypeOK
  <1>5. RingInv' /\ QueueInv' /\ FlagInv' /\ TileInv'
    BY DEF Inv, RingInv, QueueInv, FlagInv, TileInv, Ring, Taken, Numbered, ResumeFails, NextBase, EmptyBlock
  <1>6. SaveInv'
    BY Numbers DEF Inv, SaveInv, FlagInv, ResumeFails
  <1>7. CoverInv'
    <2>1. wpc = "exited" /\ finalSaveConfirmed /\ pending = 0 /\ openFrames = 0
      BY DEF Inv, FlagInv, TileInv, ResumeFails
    <2>2. /\ Below(tiles, gaps, sampleBase + nextSample)
          /\ ~stalled => Covers(tiles, gaps, sampleBase + nextSample)
      BY <2>1 DEF Inv, CoverInv, Finalized
    <2>3. /\ sampleBase' = sampleBase + nextSample /\ expected' = 0 /\ nextSample' = 0
          /\ pending' = 0 /\ openFrames' = 0
      BY <2>1 DEF ResumeFails, NextBase
    <2>4. TileStart' = sampleBase + nextSample /\ sampleBase' + nextSample' = sampleBase + nextSample
      BY <2>3, Numbers DEF Inv, TileStart, TileEnd
    <2> QED BY <2>2, <2>4 DEF CoverInv, Finalized, ResumeFails
  <1>8. CountInv'
    <2>1. ~stalled => delivered + viewDropped = sampleBase + nextSample
      BY DEF Inv, CountInv, ResumeFails
    <2>2. PICK acc \in [Nat -> Nat] : acc[0] = delivered
      <3> DEFINE a == [i \in Nat |-> delivered]
      <3>1. a \in [Nat -> Nat] /\ a[0] = delivered
        BY Numbers DEF Inv
      <3> QED BY <3>1
    <2>3. /\ sampleBase' = sampleBase + nextSample /\ nextSample' = 0 /\ dropped' = 0
          /\ dropBase' = viewDropped /\ head' = 0 /\ tail' = 0
          /\ UNCHANGED <<delivered, viewDropped, stalled>>
      BY DEF ResumeFails, NextBase
    <2>4. dpc' = "idle"
      BY DEF Inv, FlagInv, ResumeFails
    <2>5. ~stalled => Accounts(acc)'
      <3>1. tail' .. head' - 1 = {} /\ acc[tail'] = delivered' /\ acc[head'] = delivered
        BY <2>2, <2>3
      <3>2. Flying' = 0
        BY <2>4 DEF Flying
      <3>3. ~stalled => acc[head'] + Flying' + dropped' + dropBase' = sampleBase' + nextSample'
        BY <2>1, <2>3, <3>1, <3>2, Numbers DEF Inv
      <3> QED BY <3>1, <3>3 DEF Accounts
    <2>6. ~stalled => delivered' + viewDropped' = sampleBase' + nextSample'
      BY <2>1, <2>3, Numbers DEF Inv
    <2> QED BY <2>2, <2>3, <2>5, <2>6 DEF CountInv
  <1> QED BY <1>4, <1>5, <1>6, <1>7, <1>8 DEF Inv

LEMMA InvInit == Init => Inv
  <1> SUFFICES ASSUME Init PROVE Inv
    OBVIOUS
  <1> USE AcquisitionAssumption DEF Init, EmptyBlock, NoCopy
  <1>1. StatusTypes /\ ControlTypes /\ InputTypes
    BY DEF StatusTypes, ControlTypes, InputTypes, BlockType
  <1>2. RingTypes
    <2>1. EmptyBlock \in BlockType
      BY DEF BlockType
    <2> QED BY <2>1 DEF RingTypes
  <1>3. WorkTypes
    <2>1. anchored \in BOOLEAN /\ stalled \in BOOLEAN
      <3>1. (receiver \in {"synthetic", "paced"}) \in BOOLEAN
        OBVIOUS
      <3>2. anchored = (receiver \in {"synthetic", "paced"}) /\ stalled = FALSE
        BY Zenon
      <3> QED BY <3>1, <3>2, Zenon
    <2>2. pending \in 0 .. FrameSize - 1 /\ openFrames \in 0 .. TileFrames - 1
      OBVIOUS
    <2> QED BY <2>1, <2>2 DEF WorkTypes
  <1>4. CounterTypes /\ StoreTypes
    BY DEF CounterTypes, StoreTypes
  <1>5. RingInv /\ QueueInv /\ FlagInv /\ SaveInv /\ TileInv
    BY DEF RingInv, QueueInv, FlagInv, SaveInv, TileInv, Taken, Numbered
  <1>6. CoverInv
    <2>1. TileStart = 0
      BY DEF TileStart, TileEnd
    <2>2. Below({}, {}, 0) /\ Covers({}, {}, 0)
      BY DEF Below, Covers, UncoveredBy, Interval
    <2> QED BY <2>1, <2>2 DEF CoverInv, Finalized
  <1>7. CountInv
    <2> DEFINE acc == [i \in Nat |-> 0]
    <2>1. acc \in [Nat -> Nat] /\ acc[0] = 0
      OBVIOUS
    <2> HIDE DEF acc
    <2>2. Accounts(acc)
      BY <2>1 DEF Accounts, Flying
    <2> QED BY <2>1, <2>2 DEF CountInv
  <1> QED BY <1>1, <1>2, <1>3, <1>4, <1>5, <1>6, <1>7 DEF Inv, TypeOK

LEMMA InvStutter ==
    ASSUME Inv, UNCHANGED vars PROVE Inv'
  <1> USE DEF vars, inputVars, ringVars, workVars, storeVars, statusVars, controlVars, surveyVars
  <1>1. StatusTypes' /\ ControlTypes' /\ InputTypes'
    BY DEF Inv, TypeOK, StatusTypes, ControlTypes, InputTypes
  <1>2. RingTypes' /\ WorkTypes'
    BY DEF Inv, TypeOK, RingTypes, WorkTypes
  <1>3. CounterTypes' /\ StoreTypes'
    BY DEF Inv, TypeOK, CounterTypes, StoreTypes
  <1>4. RingInv' /\ QueueInv' /\ FlagInv' /\ TileInv' /\ SaveInv'
    BY DEF Inv, RingInv, QueueInv, FlagInv, TileInv, SaveInv, Ring, Taken, Numbered
  <1>5. CoverInv' /\ CountInv'
    BY DEF Inv, CoverInv, CountInv, TileStart, TileEnd, Finalized, Accounts, Flying, Ring
  <1> QED BY <1>1, <1>2, <1>3, <1>4, <1>5 DEF Inv, TypeOK

LEMMA InvStep == Inv /\ [Next]_vars => Inv'
  <1> SUFFICES ASSUME Inv, [Next]_vars PROVE Inv'
    OBVIOUS
  <1>1. CASE \E n \in 1 .. MaximumBlock + 1 : DeliverEnter(n)
    BY <1>1, DeliverEnterStep
  <1>2. CASE Deliver
    BY <1>2, DeliverNumberStep, DeliverClaimStep, DeliverWriteStep DEF Deliver
  <1>3. CASE Silence \/ SourceEnds
    BY <1>3, SilenceStep, SourceEndsStep
  <1>4. CASE Worker \/ StoreThrows
    BY <1>4, LoopHeadStep, CheckpointCopyStep, CheckpointCommitStep, PickStep, WatchStep,
       StallStep, ReadBlockStep, ReleaseBlockStep, FeedBlockStep, FinalizeStep,
       FinalCommitStep, WorkerEndsStep, StoreThrowsStep DEF Worker
  <1>5. CASE SaveRequest \/ SaveReturns \/ SaveTimeout \/ SaveShown
    BY <1>5, SaveRequestStep, SaveReturnsStep, SaveTimeoutStep, SaveShownStep
  <1>6. CASE StopRun \/ Stopping
    BY <1>6, StopRunStep, StopInputStep, StopJoinStep DEF Stopping
  <1>7. CASE Resume \/ ResumeFails
    BY <1>7, ResumeStep, ResumeFailsStep
  <1>8. CASE UNCHANGED vars
    BY <1>8, InvStutter
  <1> QED BY <1>1, <1>2, <1>3, <1>4, <1>5, <1>6, <1>7, <1>8 DEF Next

\* The inductive invariant holds in every state of a survey.
THEOREM InvHolds == Spec => []Inv
  BY InvInit, InvStep, PTL DEF Spec

-----------------------------------------------------------------------------
(* The properties.                                                         *)

\* Every variable keeps its type, and the ring never holds more blocks than it
\* has slots: the callback, the worker and the control thread need no lock for it.
THEOREM TypeCorrect == Spec => []TypeOK
  <1>1. Inv => TypeOK
    BY DEF Inv
  <1> QED BY <1>1, InvHolds, PTL

\* The callback never writes the ring block the worker is reading, for every size
\* of the ring: a claimed slot is less than one turn ahead of the one being read.
THEOREM SlotsExclusive == Spec => []NoSlotRace
  <1>1. Inv => NoSlotRace
    <2> SUFFICES ASSUME Inv, dpc = "write", wpc \in {"read", "release"}
                 PROVE  Slot(head) # Slot(tail)
      BY DEF NoSlotRace
    <2>1. head \in Nat /\ tail \in Nat /\ tail < head /\ head - tail < PoolBlocks
      BY Numbers DEF Inv, RingInv
    <2> QED BY <2>1, SlotDiffers
  <1> QED BY <1>1, InvHolds, PTL

\* A save that reports success has made durable at least what had been delivered
\* when it was asked for, however the request, periodic checkpoints, the final
\* save and the five-second timeout interleave.
THEOREM SaveIsDurable == Spec => []SavedIsDurable
  <1>1. Inv => SavedIsDurable
    BY DEF Inv, SaveInv, SavedIsDurable
  <1> QED BY <1>1, InvHolds, PTL

\* Measured tiles, the open tile and frame and the recorded gaps cover every
\* coordinate exactly once, over all runs of the survey.
THEOREM CoverageIsExact == Spec => []CoverageExact
  <1>1. Inv => CoverageExact
    <2> SUFFICES ASSUME Inv PROVE CoverageExact
      OBVIOUS
    <2>1. UncoveredBy(gaps) = Unmeasured
      BY DEF UncoveredBy, Unmeasured
    <2>2. /\ \A g, h \in gaps : g # h => GapSamples(g) \cap GapSamples(h) = {}
          /\ tiles \cap Unmeasured = {}
      BY <2>1 DEF Inv, CoverInv, Below
    <2>3. ASSUME ~Finalized, ~stalled PROVE tiles \cup Unmeasured = Interval(0, TileStart)
      BY <2>1, <2>3 DEF Inv, CoverInv, Below, Covers
    <2> QED BY <2>2, <2>3 DEF CoverageExact, Finalized
  <1> QED BY <1>1, InvHolds, PTL

\* Unless a stall cut a run short, a finalized run accounts for every sample its
\* source produced: in the store, and in the counters of the view.
THEOREM FinalIsComplete == Spec => []FinalCoverage
  <1>1. Inv => FinalCoverage
    <2> SUFFICES ASSUME Inv, finalSaveConfirmed, ~stalled, wpc \in {"end", "exited"}
                 PROVE  /\ tiles \cup Unmeasured = Interval(0, sampleBase + nextSample)
                        /\ delivered + viewDropped = sampleBase + nextSample
      BY DEF FinalCoverage
    <2>1. UncoveredBy(gaps) = Unmeasured
      BY DEF UncoveredBy, Unmeasured
    <2>2. Below(tiles, gaps, sampleBase + nextSample) /\ Covers(tiles, gaps, sampleBase + nextSample)
      BY DEF Inv, CoverInv, Finalized
    <2>3. delivered + viewDropped = sampleBase + nextSample
      BY DEF Inv, CountInv
    <2> QED BY <2>1, <2>2, <2>3 DEF Below, Covers
  <1> QED BY <1>1, InvHolds, PTL
=============================================================================
