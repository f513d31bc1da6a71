---------------------------- MODULE BurstGrouper ----------------------------
(***************************************************************************)
(* Grouping of activity into bursts across tiles (bursts.cpp).             *)
(*                                                                         *)
(* A tile maps every bin to the frames in which it is active. Time counts  *)
(* frames, frequency counts bins, so the half-bin edges and the padding of *)
(* two bins become integer comparisons. Levels and quality flags follow the*)
(* cells a burst covers and are left out; tiles are taken whole.           *)
(***************************************************************************)
EXTENDS Integers, FiniteSets

CONSTANTS BinSet,       \* bins of a tile
          Frames,       \* frames of a tile
          Tiles,        \* the activity patterns tried
          CenterBins,   \* the bins at the receiver's center
          Hold,         \* longest silence inside a burst (40 ms in the code)
          LongBurst,    \* length at which a burst is closed (10 s in the code)
          MaxBursts,    \* open tracks kept (128 in the code)
          MaxTiles      \* bound: tiles of a stream

ASSUME BurstAssumption ==
  /\ IsFiniteSet(BinSet) /\ BinSet = 0..(Cardinality(BinSet) - 1)
  /\ Frames \in Nat \ {0} /\ Hold \in Nat /\ LongBurst \in Nat /\ MaxBursts \in Nat
  /\ Tiles \subseteq [BinSet -> SUBSET (0..(Frames - 1))] /\ CenterBins \subseteq BinSet

VARIABLES clock, open, bursts, nextBurst, tiles, strong, holes

bvars == <<clock, open, bursts, nextBurst, tiles, strong, holes>>

MinOf(S) == CHOOSE x \in S : \A y \in S : x <= y
MaxOf(S) == CHOOSE x \in S : \A y \in S : y <= x

-----------------------------------------------------------------------------
(* The components of a tile.                                               *)

\* Bins active in at least two frames; a single crossing gives no band.
StrongBins(tile) == {b \in BinSet : Cardinality(tile[b]) >= 2}

\* Strong bins a < b with none between them belong together when at most two
\* weak bins separate them and the center region does not begin or end there.
Chained(tile, a, b) ==
  /\ a < b /\ b - a <= 3
  /\ \A x \in a..b : (x \in CenterBins) <=> (a \in CenterBins)
  /\ (a + 1)..(b - 1) \cap StrongBins(tile) = {}

Starts(tile) == {b \in StrongBins(tile) : ~\E a \in StrongBins(tile) : Chained(tile, a, b)}
Ends(tile) == {b \in StrongBins(tile) : ~\E c \in StrongBins(tile) : Chained(tile, b, c)}

\* The strong bins of the component that starts at bin b.
BinsFrom(tile, b) == StrongBins(tile) \cap b..MinOf({e \in Ends(tile) : e >= b})

FramesIn(tile, bins) == UNION {tile[b] : b \in bins}
CellsIn(tile, bins) == UNION {{<<clock + f, b>> : f \in tile[b]} : b \in bins}

\* Strong bins as a burst of their own.
TileBurst(tile, bins) ==
  LET frames == FramesIn(tile, bins)
      low == MinOf(bins)
      high == MaxOf(bins)
  IN  [low |-> low, high |-> high, lastLow |-> low, lastHigh |-> high,
       start |-> clock + MinOf(frames), end |-> clock + MaxOf(frames) + 1,
       active |-> Cardinality(frames), center |-> low \in CenterBins,
       ambiguous |-> bins # low..high, limited |-> FALSE, id |-> 0,
       cells |-> CellsIn(tile, bins)]

\* Tracks silent for too long when the tile begins end before it is looked at.
Live == {t \in open : clock - t.end <= Hold}

\* A component is near a track: in time, region and frequency.
Matches(b, t) ==
  /\ b.start - t.end <= Hold /\ b.center = t.center
  /\ b.low <= t.lastHigh + 3 /\ b.high >= t.lastLow - 3

Piece(tile, bins) ==
  LET burst == TileBurst(tile, bins)
  IN  [burst |-> burst, frames |-> FramesIn(tile, bins),
       matches |-> {t \in Live : Matches(burst, t)}]

Pieces(tile) == {Piece(tile, BinsFrom(tile, b)) : b \in Starts(tile)}

-----------------------------------------------------------------------------
(* Sweeps: several components that continue one track.                     *)

UsersOf(t, pieces) == {c \in pieces : t \in c.matches}

FramesOf(pieces) == UNION {c.frames : c \in pieces}

\* The pieces of one frequency sweep: claimed by no other track, inside its
\* band, and active at different times.
OneSweep(t, pieces) ==
  LET twice == {f \in FramesOf(pieces) : \E c, d \in pieces : c # d /\ f \in c.frames /\ f \in d.frames}
  IN  /\ \E c, d \in pieces : c # d
      /\ \A c \in pieces :
           c.matches = {t} /\ c.burst.low >= t.low - 2 /\ c.burst.high <= t.high + 2
      /\ Cardinality(twice) * 4 <= Cardinality(FramesOf(pieces))

Lowest(pieces) == CHOOSE c \in pieces : \A x \in pieces : c.burst.low <= x.burst.low

\* Several components as one, their time counted once; the first component
\* gives the matches.
CombinedBurst(pieces) ==
  LET frames == FramesOf(pieces)
  IN  [Lowest(pieces).burst EXCEPT
         !.high = MaxOf({c.burst.high : c \in pieces}),
         !.start = clock + MinOf(frames), !.end = clock + MaxOf(frames) + 1,
         !.active = Cardinality(frames), !.ambiguous = TRUE,
         !.cells = UNION {c.burst.cells : c \in pieces}]

Combined(pieces) ==
  [burst |-> CombinedBurst(pieces), frames |-> FramesOf(pieces),
   matches |-> Lowest(pieces).matches]

SweptTracks(pieces) == {t \in Live : OneSweep(t, UsersOf(t, pieces))}

\* The components after the sweeps of established tracks were put together.
AfterSweeps(pieces) ==
  LET sweeps == {UsersOf(t, pieces) : t \in SweptTracks(pieces)}
  IN  (pieces \ UNION sweeps) \cup {Combined(s) : s \in sweeps}

-----------------------------------------------------------------------------
(* Tracks and bursts.                                                      *)

\* A component that continues a track also when another one does.
Continues_Shared(c, t, pieces) == t \in c.matches

\* A component continues the only track it matches if it is its only component.
Continues(c, t, pieces) == c.matches = {t} /\ UsersOf(t, pieces) = {c}

Extended(t, b) ==
  [t EXCEPT !.end = b.end, !.low = MinOf({t.low, b.low}), !.high = MaxOf({t.high, b.high}),
            !.active = @ + b.active, !.ambiguous = @ \/ b.ambiguous,
            !.lastLow = b.low, !.lastHigh = b.high, !.cells = @ \cup b.cells]

\* The components that begin a track, in frequency order.
New(pieces) == {c \in pieces : ~\E t \in Live : Continues(c, t, pieces)}
Rank(c, new) == Cardinality({x \in new : x.burst.low < c.burst.low})

NewBurst(c, new) ==
  [c.burst EXCEPT !.ambiguous = @ \/ c.matches # {},
                  !.limited = Rank(c, new) >= MaxBursts - Cardinality(Live),
                  !.id = nextBurst + Rank(c, new)]

\* Every track and every burst that is known after the tile: what continued,
\* what began, and what ended because components contended for it.
Grown(pieces) == {Extended(p[1], p[2].burst) :
                    p \in {p \in Live \X pieces : Continues(p[2], p[1], pieces)}}
Retired(pieces) == UNION {c.matches : c \in New(pieces)}
Quiet(pieces) == {t \in Live : UsersOf(t, pieces) = {}}

Ambiguous(t) == [t EXCEPT !.ambiguous = TRUE]
Limited(t) == [t EXCEPT !.limited = TRUE]

\* consume: tracks silent for too long end; sweeps are combined; components
\* continue their track or begin a new one, ending every track they contend
\* for; bursts beyond the table and too long ones end at once.
Consume(tile) ==
  /\ tiles < MaxTiles
  /\ LET pieces == AfterSweeps(Pieces(tile))
         begun == {NewBurst(c, New(pieces)) : c \in New(pieces)}
         kept == Quiet(pieces) \cup Grown(pieces) \cup {b \in begun : ~b.limited}
         long == {t \in kept : t.end - t.start >= LongBurst}
     IN  /\ open' = kept \ long
         /\ bursts' = bursts \cup (open \ Live) \cup {Ambiguous(t) : t \in Retired(pieces)}
                        \cup {b \in begun : b.limited} \cup {Limited(t) : t \in long}
         /\ nextBurst' = nextBurst + Cardinality(New(pieces))
  /\ strong' = strong \cup CellsIn(tile, StrongBins(tile))
  /\ clock' = clock + Frames
  /\ tiles' = tiles + 1
  /\ UNCHANGED holes

\* consume of a tile after unobserved time or on another grid, and finish():
\* every track ends.
Discontinuity ==
  /\ tiles < MaxTiles
  /\ bursts' = bursts \cup {Limited(t) : t \in open}
  /\ open' = {}
  /\ clock' = clock + 1 /\ holes' = holes \cup {clock}
  /\ tiles' = tiles + 1
  /\ UNCHANGED <<nextBurst, strong>>

BurstsInit ==
  clock = 0 /\ open = {} /\ bursts = {} /\ nextBurst = 1 /\ tiles = 0 /\ strong = {} /\ holes = {}

BurstsNext == (\E tile \in Tiles : Consume(tile)) \/ Discontinuity

BurstsSpec == BurstsInit /\ [][BurstsNext]_bvars

-----------------------------------------------------------------------------
\* Activity is counted once: every strong cell is in exactly one burst, a
\* burst's active time is the number of its distinct frames, inside its span,
\* and no burst reaches across unobserved time.
BurstsAccountable ==
  LET all == bursts \cup open
  IN  /\ UNION {b.cells : b \in all} = strong
      /\ \A a, b \in all : a # b => a.cells \cap b.cells = {}
      /\ \A b \in all :
           /\ b.active = Cardinality({c[1] : c \in b.cells})
           /\ b.cells \subseteq (b.start..(b.end - 1)) \X (b.low..b.high)
           /\ \A h \in holes : b.end <= h \/ b.start > h
=============================================================================
