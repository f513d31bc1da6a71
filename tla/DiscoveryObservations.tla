----------------------- MODULE DiscoveryObservations -----------------------
(***************************************************************************)
(* The association of waveform fits from overlapping subbands              *)
(* (src/src/discovery_observations.hpp).  Detectors of neighbouring        *)
(* subbands report the same transmission in any order; a fit joins the one *)
(* recent observation it agrees with and otherwise becomes a new one.  All *)
(* fits here have one bandwidth and spreading factor: others never match.  *)
(***************************************************************************)
EXTENDS Integers, Sequences, FiniteSets

CONSTANTS Subbands, Places, Times, Scores,   \* small integer sets
          PlaceTolerance, TimeTolerance,
          Capacity,                          \* observations kept
          MaxFits                            \* bound

ASSUME ObservationsAssumption ==
  /\ Places \subseteq Int /\ Times \subseteq Int /\ Scores \subseteq Int
  /\ PlaceTolerance \in Nat /\ TimeTolerance \in Nat
  /\ Capacity \in Nat \ {0} /\ MaxFits \in Nat

VARIABLES
  observed,   \* recent_: sequence of observations, oldest first
  fits,       \* every fit reported so far with the id it was given
  nextId

ovars == <<observed, fits, nextId>>

Smallest(S) == CHOOSE x \in S : \A y \in S : x <= y
Largest(S) == CHOOSE x \in S : \A y \in S : y <= x
Spread(a, b, x) == Largest({a, b, x}) - Smallest({a, b, x})

ObservationsInit == observed = <<>> /\ fits = <<>> /\ nextId = 1

\* A candidate agrees with an observation its subband has not contributed to
\* when the joint bounds stay within both tolerances.
Agrees_Pairwise(o, f) ==
  /\ f.subband \notin o.subbands
  /\ Spread(o.place, o.place, f.place) <= PlaceTolerance
  /\ Spread(o.time, o.time, f.time) <= TimeTolerance
Agrees(o, f) ==
  /\ f.subband \notin o.subbands
  /\ Spread(o.low, o.high, f.place) <= PlaceTolerance
  /\ Spread(o.early, o.late, f.time) <= TimeTolerance

NewObservation(f, ambiguous) ==
  [id |-> nextId, place |-> f.place, time |-> f.time, score |-> f.score,
   best |-> f.subband, subbands |-> {f.subband}, low |-> f.place, high |-> f.place,
   early |-> f.time, late |-> f.time, ambiguous |-> ambiguous]

\* The better of the two measured fits is kept whole; the bounds grow.
Merged(o, f) ==
  LET better == f.score > o.score
  IN [o EXCEPT !.place = IF better THEN f.place ELSE @,
               !.time = IF better THEN f.time ELSE @,
               !.score = IF better THEN f.score ELSE @,
               !.best = IF better THEN f.subband ELSE @,
               !.subbands = @ \cup {f.subband},
               !.low = Smallest({@, f.place}), !.high = Largest({@, f.place}),
               !.early = Smallest({@, f.time}), !.late = Largest({@, f.time})]

Associate(f) ==
  LET matches == {i \in DOMAIN observed : Agrees(observed[i], f)}
  IN \/ \E i \in matches :
          /\ Cardinality(matches) = 1
          /\ observed' = [observed EXCEPT ![i] = Merged(@, f)]
          /\ fits' = Append(fits, [fit |-> f, id |-> observed[i].id])
          /\ UNCHANGED nextId
     \/ /\ Cardinality(matches) # 1
        /\ observed' = Append(IF Len(observed) = Capacity THEN Tail(observed) ELSE observed,
                              NewObservation(f, Cardinality(matches) > 1))
        /\ fits' = Append(fits, [fit |-> f, id |-> nextId])
        /\ nextId' = nextId + 1

Fits == [subband : Subbands, place : Places, time : Times, score : Scores]
ObservationsNext == Len(fits) < MaxFits /\ \E f \in Fits : Associate(f)
ObservationsSpec == ObservationsInit /\ [][ObservationsNext]_ovars
----------------------------------------------------------------------------
\* Each recent observation describes exactly the fits that were given its id:
\* one per subband, its bounds theirs and within tolerance of each other in
\* every pair, and its values those of one best fit rather than a mixture
\* (discovery_observations.hpp 84-123).  Successive pairwise matches never
\* drift into a wider association.
ObservationsFaithful ==
  \A i \in DOMAIN observed :
    LET o == observed[i]
        mine == {fits[k].fit : k \in {j \in DOMAIN fits : fits[j].id = o.id}}
    IN /\ o.subbands = {f.subband : f \in mine}
       /\ Cardinality(o.subbands) = Cardinality({j \in DOMAIN fits : fits[j].id = o.id})
       /\ \E f \in mine : /\ f.place = o.place /\ f.time = o.time
                          /\ f.subband = o.best /\ f.score = o.score
       /\ \A f, g \in mine : /\ f.score <= o.score
                             /\ f.place - g.place <= PlaceTolerance
                             /\ f.time - g.time <= TimeTolerance
       /\ \A j \in DOMAIN observed : j < i => observed[j].id < o.id
=============================================================================
