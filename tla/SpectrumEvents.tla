--------------------------- MODULE SpectrumEvents ---------------------------
(***************************************************************************)
(* The event tracks of the spectrum processor (spectrum.cpp): every frame, *)
(* the bins at or above the threshold form runs, runs that touch the last  *)
(* frame of a track continue it, and splits and merges are kept as one     *)
(* marked envelope.                                                        *)
(*                                                                         *)
(* Powers are reduced to active bins; cells are the <<frame, bin>> pairs a *)
(* track has summed (its sum, peak and count in the code).                 *)
(***************************************************************************)
EXTENDS Integers, FiniteSets

CONSTANTS Bins,         \* FFT bins of the span
          MaxTracks,    \* tracks kept (max_tracks in the code)
          Segment,      \* frames after which a track is split (2 s in the code)
          MaxFrames     \* bound: frames of a stream

ASSUME EventsAssumption ==
  Bins \in Nat \ {0} /\ MaxTracks \in Nat \ {0} /\ Segment \in Nat \ {0} /\ MaxFrames \in Nat

VARIABLES frame, tracks, splits, events, heard, ended

evars == <<frame, tracks, splits, events, heard, ended>>

Least(S) == CHOOSE x \in S : \A y \in S : x <= y
Greatest(S) == CHOOSE x \in S : \A y \in S : y <= x

Touches(a, b) == a.low <= b.high + 1 /\ b.low <= a.high + 1

\* A run of this frame.
Run(l, h) == [low |-> l, high |-> h, cells |-> {<<frame, b>> : b \in l..h},
              q |-> IF l = 0 \/ h = Bins - 1 THEN {"boundary"} ELSE {}]

\* The maximal runs of active bins.
RunsOf(active) ==
  {r \in {Run(l, h) : l \in active, h \in active} :
     /\ r.low <= r.high /\ r.low..r.high \subseteq active
     /\ r.low - 1 \notin active /\ r.high + 1 \notin active}

\* Which group a run is in: groups are size neighbours in frequency order.
GroupOf(r, runs) ==
  LET size == (Cardinality(runs) + MaxTracks - 1) \div MaxTracks
  IN  Cardinality({s \in runs : s.low < r.low}) \div size

MergedRun(G) ==
  [low |-> Least({r.low : r \in G}), high |-> Greatest({r.high : r \in G}),
   cells |-> UNION {r.cells : r \in G},
   q |-> (UNION {r.q : r \in G}) \cup {"merged", "truncated"}]

\* More runs than tracks: neighbours are merged into equal groups.
Grouped(runs) ==
  IF Cardinality(runs) <= MaxTracks THEN runs
  ELSE {MergedRun({r \in runs : GroupOf(r, runs) = g}) : g \in {GroupOf(r, runs) : r \in runs}}

\* The last frame of a track.
LastRun(t) == [low |-> t.lastLow, high |-> t.lastHigh]

\* A run continues the tracks it touches itself, whatever other runs do.
Component_Direct(r, runs) == {r}

\* Two runs touch the last frame of the same track.
Linked(r, s) ==
  \E t \in tracks : Touches(LastRun(t), r) /\ Touches(LastRun(t), s)

\* The runs connected with run r through tracks of the last frame: the least
\* set with r that no link leaves.
Component(r, runs) ==
  LET closed(C) == \A x \in C, s \in runs : Linked(x, s) => s \in C
  IN  {s \in runs : \A C \in SUBSET runs : r \in C /\ closed(C) => s \in C}

OldOf(R) == {t \in tracks : \E r \in R : Touches(LastRun(t), r)}

SplitMark(R) ==
  IF \E i \in splits, r \in R : Touches(i, r) THEN {"truncated"} ELSE {}

MergeMark(R) == IF Cardinality(OldOf(R)) > 1 \/ Cardinality(R) > 1 THEN {"merged"} ELSE {}

\* The track of a component: its old tracks and its runs of this frame.
Joined(R) ==
  LET parts == OldOf(R) \cup R
  IN  [first |-> Least({t.first : t \in OldOf(R)} \cup {frame}), end |-> frame + 1,
       low |-> Least({p.low : p \in parts}), high |-> Greatest({p.high : p \in parts}),
       lastLow |-> Least({r.low : r \in R}), lastHigh |-> Greatest({r.high : r \in R}),
       cells |-> UNION {p.cells : p \in parts},
       q |-> (UNION {p.q : p \in parts}) \cup SplitMark(R) \cup MergeMark(R)]

Marked(t, q) == [t EXCEPT !.q = @ \cup q]

\* events(): the tracks after a frame, and the events that ended with it.
Frame(active) ==
  /\ ~ended /\ frame < MaxFrames
  /\ LET runs == Grouped(RunsOf(active))
         next == {Joined(Component(r, runs)) : r \in runs}
         over == {t \in next : t.end - t.first >= Segment}
         used == OldOf(runs)
     IN  /\ tracks' = next \ over
         /\ splits' = {LastRun(t) : t \in over}
         /\ events' = events \cup (tracks \ used) \cup {Marked(t, {"truncated"}) : t \in over}
  /\ heard' = heard \cup {<<frame, b>> : b \in active}
  /\ frame' = frame + 1
  /\ UNCHANGED ended

\* flush() of a gap: the open tracks end, nothing continues across it.
Gap ==
  /\ ~ended /\ frame < MaxFrames
  /\ events' = events \cup {Marked(t, {"truncated"}) : t \in tracks}
  /\ tracks' = {} /\ splits' = {}
  /\ frame' = frame + 1
  /\ UNCHANGED <<heard, ended>>

Finish ==
  /\ ~ended
  /\ events' = events \cup {Marked(t, {"truncated"}) : t \in tracks}
  /\ tracks' = {} /\ splits' = {}
  /\ ended' = TRUE
  /\ UNCHANGED <<frame, heard>>

EventsInit ==
  frame = 0 /\ tracks = {} /\ splits = {} /\ events = {} /\ heard = {} /\ ended = FALSE

EventsNext == (\E active \in SUBSET (0..(Bins - 1)) : Frame(active)) \/ Gap \/ Finish

EventsSpec == EventsInit /\ [][EventsNext]_evars

-----------------------------------------------------------------------------
\* Every active cell is in exactly one event or open track, inside its
\* envelope, however tracks split, merge, exceed the table or are cut.
EventsPartitionActivity ==
  LET all == events \cup tracks
  IN  /\ UNION {t.cells : t \in all} = heard
      /\ \A s, t \in all : s # t => s.cells \cap t.cells = {}
      /\ \A t \in all : t.cells \subseteq (t.first..(t.end - 1)) \X (t.low..t.high)
      /\ Cardinality(tracks) <= MaxTracks
=============================================================================
