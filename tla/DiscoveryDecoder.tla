-------------------------- MODULE DiscoveryDecoder --------------------------
(***************************************************************************)
(* The automatic decoder of one subband (src/src/discovery_decoder.cpp).   *)
(* Samples are kept in a ring; a confirmed waveform replays the retained   *)
(* samples from before its preamble into a decoder of its own, which is    *)
(* then fed the live samples until a frame completes or its deadline       *)
(* passes.  A sample is <<segment, coordinate>>, so that a stale ring slot *)
(* or a skipped block is visible.  The PHY receiver is external: it may    *)
(* complete a frame in any block.                                          *)
(***************************************************************************)
EXTENDS Integers, Sequences, FiniteSets, Totals

CONSTANTS History,    \* samples of the ring (history.size())
          Lead,       \* samples replayed before a delimiter
          Airtime,    \* samples from a delimiter to the deadline
          MaxActive, RecentCapacity,
          Waveforms,  \* what may be discovered: [owner, excluded, id]; the owner is
                      \* the subband whose center is nearest, "none" out of range
          Self,       \* this subband
          MaxSample, MaxSegment, MaxCandidates   \* bounds

ASSUME DecoderAssumption ==
  /\ History \in Nat \ {0} /\ Lead \in Nat /\ Airtime \in Nat
  /\ MaxActive \in Nat /\ RecentCapacity \in Nat \ {0}
  /\ MaxSample \in Nat /\ MaxSegment \in Nat /\ MaxCandidates \in Nat

VARIABLES
  ready,      \* initialized
  begin, end, \* coordinates retained: begin .. end - 1
  segment,    \* segment of the retained samples
  history,    \* ring slot -> sample
  active,     \* sequence of [wave, delimiter, from, deadline, input]
  recent,     \* sequence of <<wave, delimiter>>
  count       \* counters

cvars == <<ready, begin, end, segment, history, active, recent, count>>

Counters == {"candidates", "unsupported", "outside", "duplicate", "excluded",
             "limit", "timeouts", "misses", "started", "completed", "abandoned"}
Bump(names) == [k \in Counters |-> count[k] + IF k \in names THEN 1 ELSE 0]
Lesser(a, b) == IF a < b THEN a ELSE b
Greater(a, b) == IF a < b THEN b ELSE a
NoSample == <<0, 0>>

DecoderInit ==
  /\ ready = FALSE /\ begin = 0 /\ end = 0 /\ segment = 0
  /\ history = [i \in 0..(History - 1) |-> NoSample]
  /\ active = <<>> /\ recent = <<>> /\ count = [k \in Counters |-> 0]

Emptied_Uncounted ==
  [begin |-> 0, end |-> 0, active |-> <<>>, recent |-> <<>>,
   history |-> [i \in 0..(History - 1) |-> NoSample], count |-> count]

\* reset(): every active decoder is abandoned and the ring wiped.
Emptied ==
  [begin |-> 0, end |-> 0, active |-> <<>>, recent |-> <<>>,
   history |-> [i \in 0..(History - 1) |-> NoSample],
   count |-> [count EXCEPT !["abandoned"] = @ + Len(active)]]
Kept ==
  [begin |-> begin, end |-> end, active |-> active, recent |-> recent,
   history |-> history, count |-> count]

ResetDecoder ==
  /\ ready /\ ready' = FALSE /\ segment' = 0
  /\ begin' = 0 /\ end' = 0 /\ active' = <<>> /\ recent' = <<>>
  /\ history' = Emptied.history /\ count' = Emptied.count

\* The part of block [first, first + n) that a decoder still takes.
Taken(d, first, n) == IF first >= d.deadline THEN 0 ELSE Lesser(n, d.deadline - first)
Samples(s, from, n) == [k \in 1..n |-> <<s, from + k - 1>>]

\* feed(): n samples of segment s from coordinate first.  A break in the
\* coordinates or the segment resets first.  done: decoders whose receiver
\* completes a frame in this block.
FeedDecoder(s, first, n, done) ==
  LET broken == ready /\ (first # end \/ segment # s)
      old == IF broken THEN Emptied ELSE Kept
      from == IF ready /\ ~broken THEN old.begin ELSE first
      last == first + n
      fed == [i \in DOMAIN old.active |->
               [old.active[i] EXCEPT !.input = @ \o
                  Samples(s, first, Taken(old.active[i], first, n))]]
      finished(i) == i \in done /\ Taken(old.active[i], first, n) > 0
      over(i) == ~finished(i) /\ last >= fed[i].deadline
      live == {i \in DOMAIN fed : ~finished(i) /\ ~over(i)}
  IN /\ last <= MaxSample /\ done \subseteq DOMAIN old.active
     /\ ready' = TRUE /\ segment' = s /\ end' = last
     /\ begin' = Greater(from, last - History)
     /\ history' = [i \in DOMAIN history |->
          LET new == {k \in first..(last - 1) : k % History = i}
          IN IF new = {} THEN old.history[i]
             ELSE <<s, CHOOSE k \in new : \A j \in new : j <= k>>]
     /\ active' = Picked(fed, live)
     /\ recent' = old.recent
     /\ count' = [old.count EXCEPT
          !["completed"] = @ + Cardinality({i \in DOMAIN fed : finished(i)}),
          !["timeouts"] = @ + Cardinality({i \in DOMAIN fed : over(i)})]

\* observe(): the waveform's reasons not to be decoded, in the code's order.
Replay(at, n) == [k \in 1..n |-> history[(at + k - 1) % History]]
Retained_Any(from) == from <= end
Retained(from) == begin <= from /\ from <= end /\ end - from <= History
Seen(w, delimiter) == \E i \in DOMAIN recent : recent[i] = <<w, delimiter>>
Outcome(w, delimiter) ==
  IF ~ready \/ delimiter > end THEN "unsupported"
  ELSE IF w.owner = "none" THEN "outside"
  ELSE IF w.owner # Self THEN "duplicate"
  ELSE IF w.excluded THEN "excluded"
  ELSE IF Seen(w, delimiter) THEN "duplicate"
  ELSE IF Len(active) = MaxActive THEN "limit"
  ELSE IF end >= delimiter + Airtime THEN "timeouts"
  ELSE IF ~Retained(Greater(0, delimiter - Lead)) THEN "misses"
  ELSE "started"

ObserveDeclined(w, delimiter) ==
  /\ Outcome(w, delimiter) # "started"
  /\ count' = Bump({"candidates", Outcome(w, delimiter)})
  /\ UNCHANGED <<ready, begin, end, segment, history, active, recent>>

ObserveStarted(w, delimiter, completes) ==
  LET from == Greater(0, delimiter - Lead)
  IN /\ Outcome(w, delimiter) = "started"
     /\ count' = Bump({"candidates", "started"} \cup
                      IF completes /\ from < end THEN {"completed"} ELSE {})
     /\ recent' = IF Len(recent) = RecentCapacity THEN Append(Tail(recent), <<w, delimiter>>)
                  ELSE Append(recent, <<w, delimiter>>)
     /\ active' = IF completes /\ from < end THEN active
                  ELSE Append(active, [wave |-> w, delimiter |-> delimiter, from |-> from,
                         deadline |-> delimiter + Airtime, input |-> Replay(from, end - from)])
     /\ UNCHANGED <<ready, begin, end, segment, history>>

DecoderNext ==
  \/ ResetDecoder
  \/ \E s \in 1..MaxSegment, first \in {0, end}, n \in 1..2, done \in SUBSET (1..MaxActive) :
       s >= segment /\ FeedDecoder(s, first, n, done)
  \/ /\ count["candidates"] < MaxCandidates
     /\ \E w \in Waveforms, delimiter \in 0..MaxSample, completes \in BOOLEAN :
          \/ ObserveDeclined(w, delimiter)
          \/ ObserveStarted(w, delimiter, completes)

DecoderSpec == DecoderInit /\ [][DecoderNext]_cvars
----------------------------------------------------------------------------
\* Every candidate has exactly one outcome: declined for one reason, decoded,
\* timed out, abandoned by a reset, or still active.  The counters of
\* discovery_decoder.cpp (observe, feed and reset) share the
\* "timeouts" and "duplicate" names between two paths.
CandidatesAccounted ==
  count["candidates"] = count["unsupported"] + count["outside"] + count["duplicate"]
    + count["excluded"] + count["limit"] + count["misses"] + count["timeouts"]
    + count["completed"] + count["abandoned"] + Len(active)

\* A decoder is fed exactly the samples from its replay start to the newest
\* one, once each and in order, none after its deadline and none of another
\* segment, although the first part comes out of a ring that live samples
\* keep overwriting (discovery_decoder.cpp feed and observe).
ReplayIsExact ==
  \A i \in DOMAIN active :
    active[i].input = Samples(segment, active[i].from,
                              Lesser(end, active[i].deadline) - active[i].from)
=============================================================================
