------------------------- MODULE GpsPositionsProofs -------------------------
(***************************************************************************)
(* Proofs about GpsPositions.tla, for every freshness, history limit and   *)
(* trim, and for any number of epochs, ticks, sentences and calls:         *)
(*   TypeCorrect        the type invariant, with the bound on the history; *)
(*   EpochTimeKept      a replayed epoch keeps its first reception time;   *)
(*   QuietWhenStopped   nothing serial is current after a stop;            *)
(*   StatusHonest       the reported connection state is true;             *)
(*   PositionsKept      a new entry hides no earlier position.             *)
(***************************************************************************)
EXTENDS GpsPositions, FifoLemmas

Types ==
    /\ clock \in 0 .. MaxTime
    /\ currentFix \in Fixes \cup {NoFix} /\ inflight \in Fixes \cup {NoFix}
    /\ running \in BOOLEAN /\ hasFix \in BOOLEAN
    /\ reader \in Readers /\ client \in Clients /\ connection \in States
    /\ lastUtc \in 0 .. MaxEpoch /\ lastMono \in 0 .. clock /\ freshMono \in 0 .. clock
    /\ connects \in 0 .. calls /\ calls \in 0 .. MaxCalls
    /\ sentences \in 0 .. MaxSentences

\* What is known of a fix the engine holds: the reader's memory (last_utc,
\* last_monotonic) is at least as new, and the fix of the last epoch of this
\* connection has that memory's time.
Stored(fix) ==
    /\ fix.mono <= clock /\ fix.conn <= connects
    /\ fix.valid /\ ~fix.manual => fix.mono <= lastMono
    /\ fix.valid /\ fix.conn > 0 /\ fix.conn = connects =>
         fix.epoch <= lastUtc /\ (fix.epoch = lastUtc => fix.mono = lastMono)
\* Two valid fixes of one connection and one epoch have one time.
Agree(f, g) ==
    /\ f.valid /\ g.valid /\ f.conn > 0 /\ f.conn = g.conn /\ f.epoch = g.epoch
    => f.mono = g.mono

HistoryInv ==
    /\ history \in Seq(Fixes)
    /\ \A i \in DOMAIN history : Stored(history[i])
    /\ \A i, j \in DOMAIN history : Agree(history[i], history[j])
    /\ currentFix # NoFix => Stored(currentFix)

\* The fix the reader is working on.
InflightInv ==
    reader \in {"deliver", "lost", "callback", "lostCallback"} =>
        /\ inflight \in Fixes /\ ~inflight.manual
        /\ inflight.mono <= clock /\ inflight.conn <= connects
        /\ reader = "deliver" => inflight.conn = connects /\ lastMono <= inflight.mono
        /\ reader = "lost" => ~inflight.valid
        /\ reader \in {"callback", "lostCallback"} /\ inflight.valid =>
             /\ inflight.conn = connects
             /\ inflight.epoch = lastUtc /\ inflight.mono = lastMono

\* What the reader thread, the client and the connection state say of each other.
FlagInv ==
    /\ connection = "Disconnected" => reader = "none"
    /\ client = "connecting" => reader # "none"
    /\ reader # "none" /\ ~running =>
         client \in {"disconnecting", "fixing"} \/ connection = "ReadError"
    /\ reader \in {"lost", "lostCallback"} => connection = "ReadError"
    /\ reader \in {"lost", "lostCallback", "exited"} => ~running
    /\ connection = "ValidFix" => freshMono = lastMono

\* The current fix and the end of the history.
LastInv ==
    /\ client = "idle" /\ reader = "none" => currentFix = NoFix \/ currentFix.manual
    /\ currentFix = NoFix => history = <<>> \/ ~Last(history).valid
    /\ currentFix # NoFix /\ currentFix.manual => history # <<>> /\ Last(history) = currentFix

\* An invalidation is not followed by a trim, but every one belongs to a call.
LengthInv ==
    /\ client # "idle" => calls >= 1
    /\ Len(history) <= HistoryLimit + calls
                       - (IF client \in {"connecting", "disconnecting"} THEN 1 ELSE 0)

Inv == Types /\ HistoryInv /\ InflightInv /\ FlagInv /\ LastInv /\ LengthInv

-----------------------------------------------------------------------------
(* Fixes, the history and the association.                                 *)

LEMMA NoFixIsNoFix == NoFix \notin Fixes
  BY DEF NoFix, Fixes

LEMMA Constants ==
    /\ Freshness \in Nat /\ HistoryLimit \in Nat /\ MaxEpoch \in Nat /\ MaxTime \in Nat
    /\ MaxSentences \in Nat /\ MaxCalls \in Nat
    /\ TrimCount \in Nat /\ 1 <= TrimCount /\ TrimCount <= HistoryLimit
  BY GpsAssumption

LEMMA FixFields ==
    ASSUME NEW f \in Fixes
    PROVE  /\ f.mono \in Nat /\ f.mono \in 0 .. MaxTime
           /\ f.epoch \in Nat /\ f.epoch \in 0 .. MaxEpoch
           /\ f.conn \in Nat /\ f.conn \in 0 .. MaxCalls
           /\ f.valid \in BOOLEAN /\ f.manual \in BOOLEAN
  BY Constants DEF Fixes

\* The greatest element of a non-empty set of positions in a sequence.
LEMMA MaxIsGreatest ==
    ASSUME NEW n \in Nat, NEW S, S \subseteq 1 .. n, S # {}
    PROVE  Max(S) \in S /\ \A y \in S : Max(S) >= y
  <1> DEFINE T == {n - x : x \in S}
  <1>0. \A x \in S : x \in Nat /\ n - x \in Nat
    OBVIOUS
  <1>1. T \subseteq Nat /\ T # {}
    BY <1>0
  <1>2. PICK m \in T : \A k \in T : m <= k
    BY <1>1, LeastElement
  <1>3. PICK x \in S : m = n - x
    BY <1>2
  <1>4. \A y \in S : x >= y
    <2> SUFFICES ASSUME NEW y \in S PROVE x >= y
      OBVIOUS
    <2>1. n - y \in T
      OBVIOUS
    <2>2. n - x <= n - y
      BY <1>2, <1>3, <2>1
    <2>3. x \in Nat /\ y \in Nat
      OBVIOUS
    <2> QED BY <2>2, <2>3
  <1> QED BY <1>4, Zenon DEF Max

\* Appending an entry to the history.
LEMMA AppendFix ==
    ASSUME NEW h \in Seq(Fixes), NEW fix \in Fixes
    PROVE  LET r == Append(h, fix)
           IN  /\ r \in Seq(Fixes) /\ Len(r) = Len(h) + 1 /\ Len(h) \in Nat
               /\ r # <<>> /\ Last(r) = fix
               /\ \A i \in DOMAIN r : r[i] = fix \/ \E j \in DOMAIN h : r[i] = h[j]
               /\ \A i \in DOMAIN h : i \in DOMAIN r /\ r[i] = h[i]
  <1> DEFINE r == Append(h, fix)
  <1>1. /\ r \in Seq(Fixes) /\ Len(r) = Len(h) + 1 /\ Len(h) \in Nat
        /\ \A i \in 1 .. Len(h) : r[i] = h[i]
        /\ r[Len(h) + 1] = fix
    BY AppendProperties, LenProperties
  <1>2. DOMAIN r = 1 .. Len(h) + 1 /\ DOMAIN h = 1 .. Len(h)
    BY <1>1, LenProperties
  <1>3. r # <<>>
    BY <1>1, EmptySeq
  <1> HIDE DEF r
  <1>4. Last(r) = fix
    BY <1>1 DEF Last
  <1>5. \A i \in DOMAIN r : r[i] = fix \/ \E j \in DOMAIN h : r[i] = h[j]
    BY <1>1, <1>2
  <1>6. \A i \in DOMAIN h : i \in DOMAIN r /\ r[i] = h[i]
    BY <1>1, <1>2
  <1> QED BY <1>1, <1>3, <1>4, <1>5, <1>6 DEF r

\* position()'s trim keeps the newest entries, the new one among them.
LEMMA PushedFix ==
    ASSUME NEW h \in Seq(Fixes), NEW fix \in Fixes
    PROVE  LET r == Pushed(h, fix)
           IN  /\ r \in Seq(Fixes) /\ r # <<>> /\ Last(r) = fix
               /\ \A i \in DOMAIN r : r[i] = fix \/ \E j \in DOMAIN h : r[i] = h[j]
               /\ Len(r) <= HistoryLimit \/ Len(r) <= Len(h)
               /\ Len(r) = Len(h) + 1 => r = Append(h, fix)
  <1> DEFINE a == Append(h, fix)
             n == Len(h)
             r == SubSeq(a, TrimCount + 1, n + 1)
  <1>1. /\ a \in Seq(Fixes) /\ Len(a) = n + 1 /\ n \in Nat
        /\ a # <<>> /\ Last(a) = fix
        /\ \A i \in DOMAIN a : a[i] = fix \/ \E j \in DOMAIN h : a[i] = h[j]
    BY AppendFix
  <1>2. DOMAIN a = 1 .. n + 1
    BY <1>1, LenProperties
  <1> HIDE DEF a, n
  <1>3. CASE n + 1 > HistoryLimit
    <2>1. Pushed(h, fix) = r
      BY <1>1, <1>3 DEF Pushed, a
    <2>2. TrimCount + 1 \in 1 .. n + 1 /\ n + 1 \in 1 .. n + 1
      BY <1>1, <1>3, Constants
    <2>3. /\ r \in Seq(Fixes) /\ Len(r) = n + 1 - TrimCount
          /\ \A i \in 1 .. n + 1 - TrimCount : r[i] = a[TrimCount + i]
      <3> DEFINE m == TrimCount + 1
                 k == n + 1 - TrimCount
      <3>1. m \in 1 .. Len(a) + 1 /\ n + 1 \in m - 1 .. Len(a)
        BY <1>1, <2>2, Constants
      <3>2. /\ r \in Seq(Fixes) /\ Len(r) = (IF m <= n + 1 THEN (n + 1) - m + 1 ELSE 0)
            /\ \A i \in 1 .. (n + 1) - m + 1 : r[i] = a[m + i - 1]
        BY <1>1, <3>1, SubSeqProperties
      <3>3. (n + 1) - m + 1 = k /\ k \in Nat /\ m <= n + 1
        BY <1>1, <2>2, Constants
      <3>4. \A i \in 1 .. k : m + i - 1 = TrimCount + i
        BY <3>3, Constants
      <3> HIDE DEF k, m, r
      <3>5. r \in Seq(Fixes) /\ Len(r) = k /\ \A i \in 1 .. k : r[i] = a[TrimCount + i]
        BY <3>2, <3>3, <3>4
      <3> QED BY <3>5 DEF k
    <2>4. DOMAIN r = 1 .. n + 1 - TrimCount
      BY <2>3, LenProperties
    <2>5. n + 1 - TrimCount \in Nat /\ 1 <= n + 1 - TrimCount /\ n + 1 - TrimCount <= n
      BY <1>1, <1>3, Constants
    <2> HIDE DEF r
    <2>6. r # <<>>
      BY <2>3, <2>5, EmptySeq
    <2>7. Last(r) = fix
      <3>1. Last(r) = a[TrimCount + (n + 1 - TrimCount)]
        BY <2>3, <2>5 DEF Last
      <3>2. TrimCount + (n + 1 - TrimCount) = n + 1
        BY <1>1, Constants
      <3> QED BY <1>1, <3>1, <3>2 DEF Last
    <2>8. \A i \in DOMAIN r : r[i] = fix \/ \E j \in DOMAIN h : r[i] = h[j]
      <3> SUFFICES ASSUME NEW i \in 1 .. n + 1 - TrimCount
                   PROVE  r[i] = fix \/ \E j \in DOMAIN h : r[i] = h[j]
        BY <2>4
      <3>1. TrimCount + i \in DOMAIN a
        BY <1>1, <1>2, Constants
      <3> QED BY <1>1, <2>3, <3>1
    <2>9. Len(r) <= n /\ Len(r) # n + 1
      BY <1>1, <2>3, <2>5
    <2> QED BY <2>1, <2>3, <2>6, <2>7, <2>8, <2>9 DEF n
  <1>4. CASE ~ (n + 1 > HistoryLimit)
    <2>1. Pushed(h, fix) = a
      BY <1>1, <1>4 DEF Pushed, a
    <2>2. Len(a) <= HistoryLimit
      BY <1>1, <1>4, Constants
    <2> QED BY <1>1, <2>1, <2>2 DEF a
  <1> QED BY <1>3, <1>4

-----------------------------------------------------------------------------
(* Steps that keep or extend the history.                                  *)

LEMMA Numbers ==
    ASSUME Types
    PROVE  /\ clock \in Nat /\ clock <= MaxTime /\ lastUtc \in Nat /\ lastUtc <= MaxEpoch
           /\ lastMono \in Nat /\ lastMono <= clock /\ freshMono \in Nat /\ freshMono <= clock
           /\ connects \in Nat /\ connects <= calls /\ calls \in Nat /\ calls <= MaxCalls
           /\ sentences \in Nat
  BY Constants DEF Types

LEMMA MarkerType ==
    ASSUME Types
    PROVE  /\ Marker \in Fixes /\ Marker.mono = clock /\ Marker.valid = FALSE
           /\ Marker.manual = FALSE /\ Marker.conn = 0
  <1>1. clock \in 0 .. MaxTime /\ 0 \in 0 .. MaxEpoch /\ 0 \in 0 .. MaxCalls
    BY Constants DEF Types
  <1>2. FALSE \in BOOLEAN
    OBVIOUS
  <1> QED BY <1>1, <1>2 DEF Marker, Fix, Fixes

LEMMA HistoryFrame ==
    ASSUME Inv, UNCHANGED <<history, currentFix, connects, lastUtc, lastMono>>,
           clock' \in Nat, clock <= clock'
    PROVE  HistoryInv'
  <1>1. ASSUME NEW f \in Fixes, Stored(f)
        PROVE  /\ f.mono <= clock' /\ f.conn <= connects'
               /\ f.valid /\ ~f.manual => f.mono <= lastMono'
               /\ f.valid /\ f.conn > 0 /\ f.conn = connects' =>
                    f.epoch <= lastUtc' /\ (f.epoch = lastUtc' => f.mono = lastMono')
    BY <1>1, FixFields, Numbers DEF Inv, Stored
  <1>2. \A i \in DOMAIN history : history[i] \in Fixes /\ Stored(history[i])
    BY ElementOfSeq, LenProperties DEF Inv, HistoryInv
  <1>3. \A i \in DOMAIN history' : Stored(history[i])'
    BY <1>1, <1>2 DEF Stored
  <1>4. currentFix' # NoFix => Stored(currentFix)'
    BY <1>1 DEF Inv, Types, HistoryInv, Stored
  <1> QED BY <1>3, <1>4 DEF Inv, HistoryInv, Agree

\* A new entry, by position() or clear_live_position().
LEMMA NewEntry ==
    ASSUME Inv, NEW fix \in Fixes, Stored(fix),
           \A i \in DOMAIN history : Agree(fix, history[i]) /\ Agree(history[i], fix),
           history' = Pushed(history, fix) \/ history' = Append(history, fix),
           currentFix' \in {NoFix, fix},
           UNCHANGED <<clock, connects, lastUtc, lastMono>>
    PROVE  HistoryInv' /\ history' # <<>> /\ Last(history') = fix
  <1>1. /\ history' \in Seq(Fixes) /\ history' # <<>> /\ Last(history') = fix
        /\ \A i \in DOMAIN history' : \/ history'[i] = fix
                                      \/ \E j \in DOMAIN history : history'[i] = history[j]
    <2>1. history \in Seq(Fixes)
      BY DEF Inv, HistoryInv
    <2>2. CASE history' = Pushed(history, fix)
      BY <2>1, <2>2, PushedFix
    <2>3. CASE history' = Append(history, fix)
      BY <2>1, <2>3, AppendFix
    <2> QED BY <2>2, <2>3
  <1>2. \A i \in DOMAIN history' : Stored(history'[i])
    BY <1>1 DEF Inv, HistoryInv
  <1>3. \A i \in DOMAIN history' : Stored(history[i])'
    BY <1>2 DEF Stored
  <1>4. \A i, j \in DOMAIN history' : Agree(history'[i], history'[j])
    <2> SUFFICES ASSUME NEW i \in DOMAIN history', NEW j \in DOMAIN history'
                 PROVE  Agree(history'[i], history'[j])
      OBVIOUS
    <2>1. Agree(fix, fix)
      BY DEF Agree
    <2>2. CASE history'[i] = fix
      BY <1>1, <2>1, <2>2
    <2>3. CASE \E k \in DOMAIN history : history'[i] = history[k]
      BY <1>1, <2>3 DEF Inv, HistoryInv
    <2> QED BY <1>1, <2>2, <2>3
  <1>5. \A i, j \in DOMAIN history' : Agree(history[i], history[j])'
    BY <1>4 DEF Agree
  <1>6. currentFix' # NoFix => Stored(currentFix)'
    BY DEF Stored
  <1> QED BY <1>1, <1>3, <1>5, <1>6 DEF HistoryInv

\* The marker of an invalidation.
LEMMA MarkerStep ==
    ASSUME Inv, clear_live_position, UNCHANGED <<clock, connects, lastUtc, lastMono>>
    PROVE  /\ HistoryInv' /\ history' # <<>> /\ ~Last(history').valid
           /\ currentFix' = NoFix /\ Len(history') = Len(history) + 1 /\ Len(history) \in Nat
  <1>1. /\ Marker \in Fixes /\ Marker.mono = clock /\ Marker.valid = FALSE
        /\ Marker.conn = 0
    BY MarkerType DEF Inv
  <1>2. history' = Append(history, Marker) /\ currentFix' = NoFix
    BY DEF clear_live_position
  <1>3. Stored(Marker) /\ \A i \in DOMAIN history : Agree(Marker, history[i]) /\ Agree(history[i], Marker)
    BY <1>1, Numbers DEF Inv, Stored, Agree
  <1>4. Len(history') = Len(history) + 1 /\ Len(history) \in Nat
    BY <1>1, <1>2, AppendFix DEF Inv, HistoryInv
  <1> HIDE DEF Marker
  <1> QED BY <1>1, <1>2, <1>3, <1>4, NewEntry

-----------------------------------------------------------------------------
(* The reader's steps.                                                     *)

LEMMA PollStep ==
    ASSUME Inv, Poll \/ EndChunk PROVE Inv'
  <1> USE DEF engineVars, deviceVars, statusVars
  <1>1. UNCHANGED <<clock, history, currentFix, running, inflight, lastUtc, lastMono, hasFix,
                    connection, freshMono, client, connects, sentences, calls>>
    BY DEF Poll, EndChunk
  <1>2. Types'
    BY <1>1 DEF Inv, Types, Readers, Poll, EndChunk
  <1>3. HistoryInv'
    BY <1>1, HistoryFrame, Numbers DEF Inv
  <1>4. InflightInv'
    BY <1>1 DEF InflightInv, Poll, EndChunk
  <1>5. FlagInv'
    BY <1>1 DEF Inv, FlagInv, Poll, EndChunk, KeepReading
  <1>6. LastInv' /\ LengthInv'
    BY <1>1 DEF Inv, LastInv, LengthInv, Poll, EndChunk
  <1> QED BY <1>2, <1>3, <1>4, <1>5, <1>6 DEF Inv

LEMMA SentenceStep ==
    ASSUME Inv, NEW epoch \in 1 .. MaxEpoch, NEW valid \in BOOLEAN, Sentence(epoch, valid)
    PROVE  Inv'
  <1> USE DEF engineVars, deviceVars, statusVars
  <1> DEFINE f == Fix(clock, valid, FALSE, epoch, connects)
  <1>1. UNCHANGED <<clock, history, currentFix, running, lastUtc, lastMono, hasFix,
                    connection, freshMono, client, connects, calls>>
        /\ inflight' = f /\ reader = "chunk" /\ reader' = "deliver"
        /\ sentences' = sentences + 1 /\ sentences < MaxSentences
    BY DEF Sentence
  <1>2. /\ f \in Fixes /\ f.mono = clock /\ f.valid = valid /\ f.manual = FALSE
        /\ f.epoch = epoch /\ f.conn = connects
    <2>1. clock \in 0 .. MaxTime /\ epoch \in 0 .. MaxEpoch /\ connects \in 0 .. MaxCalls
      BY Numbers, Constants DEF Inv
    <2>2. FALSE \in BOOLEAN
      OBVIOUS
    <2> QED BY <2>1, <2>2 DEF Fix, Fixes
  <1> HIDE DEF f
  <1>3. Types'
    <2>1. sentences' \in 0 .. MaxSentences
      BY <1>1, Constants, Numbers DEF Inv
    <2> QED BY <1>1, <1>2, <2>1 DEF Inv, Types, Readers
  <1>4. HistoryInv'
    BY <1>1, HistoryFrame, Numbers DEF Inv
  <1>5. InflightInv'
    BY <1>1, <1>2, Numbers DEF Inv, InflightInv
  <1>6. FlagInv' /\ LastInv' /\ LengthInv'
    BY <1>1 DEF Inv, FlagInv, LastInv, LengthInv
  <1> QED BY <1>3, <1>4, <1>5, <1>6 DEF Inv

LEMMA ReadFailsStep ==
    ASSUME Inv, ReadFails PROVE Inv'
  <1> USE DEF engineVars, deviceVars, statusVars
  <1>1. UNCHANGED <<clock, history, currentFix, lastUtc, lastMono, hasFix,
                    freshMono, client, connects, calls, sentences>>
    BY DEF ReadFails
  <1>2. /\ Marker \in Fixes /\ Marker.mono = clock /\ Marker.valid = FALSE
        /\ Marker.manual = FALSE /\ Marker.conn = 0
    BY MarkerType DEF Inv
  <1> HIDE DEF Marker
  <1>3. Types'
    BY <1>1, <1>2 DEF Inv, Types, Readers, States, ReadFails
  <1>4. HistoryInv'
    BY <1>1, HistoryFrame, Numbers DEF Inv
  <1>5. InflightInv'
    BY <1>1, <1>2, Numbers DEF Inv, InflightInv, ReadFails
  <1>6. FlagInv'
    BY <1>1 DEF Inv, FlagInv, ReadFails
  <1>7. LastInv' /\ LengthInv'
    BY <1>1 DEF Inv, LastInv, LengthInv, ReadFails
  <1> QED BY <1>3, <1>4, <1>5, <1>6, <1>7 DEF Inv

\* What deliver() makes of the fix and of its own memory: the memory's time does
\* not go back, and a valid fix now has the memory's epoch and time.
LEMMA DeliveredFix ==
    ASSUME Inv, deliver
    PROVE  /\ inflight' \in Fixes /\ ~inflight'.manual
           /\ inflight'.mono <= clock /\ inflight'.conn = inflight.conn
           /\ inflight'.valid => reader = "deliver" /\ inflight.conn = connects
           /\ inflight'.valid => /\ lastUtc' = inflight'.epoch /\ lastMono' = inflight'.mono
                                 /\ \/ lastUtc < lastUtc' /\ lastMono <= lastMono'
                                    \/ lastUtc = lastUtc' /\ lastMono = lastMono'
           /\ ~inflight'.valid => lastUtc' = lastUtc /\ lastMono' = lastMono
  <1> DEFINE fix == Delivered(inflight)
  <1>1. /\ inflight \in Fixes /\ ~inflight.manual /\ inflight.mono <= clock
        /\ reader = "deliver" => inflight.conn = connects /\ lastMono <= inflight.mono
        /\ reader \in {"deliver", "lost"}
        /\ reader = "lost" => ~inflight.valid
    BY DEF Inv, InflightInv, deliver
  <1>2. /\ inflight' = fix
        /\ lastUtc' = IF fix.valid THEN fix.epoch ELSE lastUtc
        /\ lastMono' = IF fix.valid THEN fix.mono ELSE lastMono
    BY DEF deliver
  <1>3. /\ inflight.mono \in 0 .. MaxTime /\ inflight.epoch \in 0 .. MaxEpoch
        /\ inflight.valid \in BOOLEAN /\ inflight.mono \in Nat /\ inflight.epoch \in Nat
    BY <1>1, FixFields
  <1>4. lastMono \in Nat /\ lastUtc \in Nat /\ clock \in Nat /\ lastMono <= clock
        /\ lastMono \in 0 .. MaxTime
    BY Numbers, Constants DEF Inv
  <1>5. CASE OutOfOrder(inflight)
    <2>1. ~SameEpoch(inflight)
      BY <1>3, <1>4, <1>5 DEF OutOfOrder, SameEpoch
    <2>2. fix = [inflight EXCEPT !.valid = FALSE]
      BY <1>5, <2>1 DEF Delivered
    <2>3. /\ fix \in Fixes /\ fix.valid = FALSE /\ fix.manual = inflight.manual
          /\ fix.mono = inflight.mono /\ fix.conn = inflight.conn
      BY <1>1, <2>2 DEF Fixes
    <2> HIDE DEF fix
    <2> QED BY <1>1, <1>2, <2>3
  <1>6. CASE ~OutOfOrder(inflight) /\ SameEpoch(inflight)
    <2>1. fix = [inflight EXCEPT !.mono = lastMono]
      BY <1>6 DEF Delivered
    <2>2. /\ fix \in Fixes /\ fix.valid = inflight.valid /\ fix.manual = inflight.manual
          /\ fix.mono = lastMono /\ fix.conn = inflight.conn /\ fix.epoch = inflight.epoch
      BY <1>1, <1>4, <2>1 DEF Fixes
    <2>3. inflight.valid /\ inflight.epoch = lastUtc
      BY <1>6 DEF SameEpoch
    <2> HIDE DEF fix
    <2> QED BY <1>1, <1>2, <1>4, <2>2, <2>3
  <1>7. CASE ~OutOfOrder(inflight) /\ ~SameEpoch(inflight)
    <2>1. fix = inflight
      BY <1>7 DEF Delivered
    <2>2. inflight.valid => lastUtc < inflight.epoch
      BY <1>3, <1>4, <1>7 DEF OutOfOrder, SameEpoch
    <2> HIDE DEF fix
    <2> QED BY <1>1, <1>2, <1>3, <1>4, <2>1, <2>2
  <1> QED BY <1>5, <1>6, <1>7

LEMMA deliverStep ==
    ASSUME Inv, deliver PROVE Inv'
  <1> USE DEF engineVars, deviceVars, statusVars
  <1>1. UNCHANGED <<clock, history, currentFix, running, client, connects, sentences, calls>>
        /\ reader \in {"deliver", "lost"}
        /\ reader' = IF reader = "lost" THEN "lostCallback" ELSE "callback"
    BY DEF deliver
  <1>2. /\ inflight' \in Fixes /\ ~inflight'.manual
        /\ inflight'.mono <= clock /\ inflight'.conn = inflight.conn
        /\ inflight'.valid => reader = "deliver" /\ inflight.conn = connects
        /\ inflight'.valid => /\ lastUtc' = inflight'.epoch /\ lastMono' = inflight'.mono
                              /\ \/ lastUtc < lastUtc' /\ lastMono <= lastMono'
                                 \/ lastUtc = lastUtc' /\ lastMono = lastMono'
        /\ ~inflight'.valid => lastUtc' = lastUtc /\ lastMono' = lastMono
    BY DeliveredFix
  <1>3. /\ inflight'.mono \in Nat /\ inflight'.epoch \in Nat /\ inflight'.epoch <= MaxEpoch
        /\ inflight'.valid \in BOOLEAN
    BY <1>2, FixFields, Constants
  <1>4. /\ lastUtc' \in 0 .. MaxEpoch /\ lastMono' \in 0 .. clock
        /\ lastUtc' \in Nat /\ lastMono' \in Nat
    BY <1>2, <1>3, Numbers, Constants DEF Inv
  <1>5. IF KeepsReadError THEN UNCHANGED <<connection, freshMono>>
        ELSE /\ connection' \in {"ValidFix", "StaleFix", "WaitingForFix"}
             /\ connection' = "ValidFix" => inflight'.valid
             /\ inflight'.valid => freshMono' = inflight'.mono
             /\ ~inflight'.valid => freshMono' = freshMono
    BY DEF deliver, FreshFrom
  <1>6. Types'
    <2>1. hasFix' \in BOOLEAN
      BY DEF deliver
    <2>2. freshMono' \in 0 .. clock
      BY <1>2, <1>3, <1>5, Numbers DEF Inv
    <2>3. connection' \in States
      BY <1>5 DEF Inv, Types, States
    <2> QED BY <1>1, <1>2, <1>4, <2>1, <2>2, <2>3 DEF Inv, Types, Readers
  <1>7. HistoryInv'
    <2>1. ASSUME NEW f \in Fixes, Stored(f)
          PROVE  /\ f.mono <= clock' /\ f.conn <= connects'
                 /\ f.valid /\ ~f.manual => f.mono <= lastMono'
                 /\ f.valid /\ f.conn > 0 /\ f.conn = connects' =>
                      f.epoch <= lastUtc' /\ (f.epoch = lastUtc' => f.mono = lastMono')
      <3>1. \/ lastUtc < lastUtc' /\ lastMono <= lastMono'
            \/ lastUtc = lastUtc' /\ lastMono = lastMono'
        BY <1>2, <1>3
      <3> QED BY <1>1, <1>4, <2>1, <3>1, FixFields, Numbers DEF Inv, Stored
    <2>2. \A i \in DOMAIN history : history[i] \in Fixes /\ Stored(history[i])
      BY ElementOfSeq, LenProperties DEF Inv, HistoryInv
    <2>3. \A i \in DOMAIN history' : Stored(history[i])'
      BY <1>1, <2>1, <2>2 DEF Stored
    <2>4. currentFix' # NoFix => Stored(currentFix)'
      BY <1>1, <2>1 DEF Inv, Types, HistoryInv, Stored
    <2> QED BY <1>1, <2>3, <2>4 DEF Inv, HistoryInv, Agree
  <1>8. InflightInv'
    <2>1. inflight.conn <= connects
      BY <1>1 DEF Inv, InflightInv
    <2> QED BY <1>1, <1>2, <2>1 DEF InflightInv
  <1>9. FlagInv'
    <2>1. connection' = "ValidFix" => freshMono' = lastMono'
      BY <1>2, <1>5 DEF Inv, FlagInv, KeepsReadError
    <2>2. connection' = "ReadError" <=> connection = "ReadError"
      BY <1>5 DEF KeepsReadError
    <2>3. connection' # "Disconnected"
      BY <1>1, <1>5 DEF Inv, FlagInv, KeepsReadError
    <2> QED BY <1>1, <2>1, <2>2, <2>3 DEF Inv, FlagInv
  <1>10. LastInv' /\ LengthInv'
    BY <1>1 DEF Inv, LastInv, LengthInv
  <1> QED BY <1>6, <1>7, <1>8, <1>9, <1>10 DEF Inv

\* A delivered fix may enter the history.
LEMMA InflightStored ==
    ASSUME Inv, reader \in {"callback", "lostCallback"}
    PROVE  /\ inflight \in Fixes /\ ~inflight.manual /\ Stored(inflight)
           /\ \A i \in DOMAIN history : Agree(inflight, history[i]) /\ Agree(history[i], inflight)
           /\ inflight # NoFix
  <1>1. /\ inflight \in Fixes /\ ~inflight.manual /\ inflight.mono <= clock
        /\ inflight.conn <= connects
        /\ inflight.valid => /\ inflight.conn = connects
                             /\ inflight.epoch = lastUtc /\ inflight.mono = lastMono
    BY DEF Inv, InflightInv
  <1>2. Stored(inflight)
    BY <1>1, Numbers DEF Inv, Stored
  <1>3. \A i \in DOMAIN history : Stored(history[i])
    BY DEF Inv, HistoryInv
  <1>4. \A i \in DOMAIN history : Agree(inflight, history[i]) /\ Agree(history[i], inflight)
    BY <1>1, <1>3 DEF Stored, Agree
  <1> QED BY <1>1, <1>2, <1>4, NoFixIsNoFix

LEMMA CallbackStep ==
    ASSUME Inv, Callback PROVE Inv'
  <1> USE DEF engineVars, deviceVars, statusVars
  <1>1. UNCHANGED <<clock, running, lastUtc, lastMono, hasFix, connection, freshMono, client,
                    connects, sentences, calls>>
        /\ reader \in {"callback", "lostCallback"} /\ client # "connecting"
        /\ inflight' = NoFix /\ reader' = (IF reader = "lostCallback" THEN "exited" ELSE "chunk")
        /\ currentFix' = inflight /\ history' = Pushed(history, inflight)
    BY DEF Callback, position, MutexFree, AfterCallback
  <1>2. /\ inflight \in Fixes /\ ~inflight.manual /\ Stored(inflight)
        /\ \A i \in DOMAIN history : Agree(inflight, history[i]) /\ Agree(history[i], inflight)
        /\ inflight # NoFix
    BY <1>1, InflightStored
  <1>3. Types'
    BY <1>1, <1>2 DEF Inv, Types, Readers
  <1>4. HistoryInv'
    BY <1>1, <1>2, NewEntry
  <1>5. InflightInv' /\ FlagInv'
    BY <1>1 DEF Inv, InflightInv, FlagInv
  <1>6. LastInv'
    BY <1>1, <1>2 DEF LastInv
  <1>7. LengthInv'
    <2>1. Len(history') <= HistoryLimit \/ Len(history') <= Len(history)
      BY <1>1, <1>2, PushedFix DEF Inv, HistoryInv
    <2>2. Len(history) \in Nat /\ Len(history') \in Nat
      BY <1>4, LenProperties DEF Inv, HistoryInv
    <2>3. client' = client /\ calls' = calls /\ calls \in Nat /\ HistoryLimit \in Nat
      BY <1>1, Numbers, Constants DEF Inv
    <2>4. LengthInv
      BY DEF Inv
    <2> QED BY <2>1, <2>2, <2>3, <2>4 DEF LengthInv
  <1> QED BY <1>3, <1>4, <1>5, <1>6, <1>7 DEF Inv

LEMMA CallbackFailsStep ==
    ASSUME Inv, CallbackFails PROVE Inv'
  <1> USE DEF engineVars, deviceVars, statusVars
  <1>1. UNCHANGED <<clock, history, lastUtc, lastMono, hasFix, freshMono, client,
                    connects, sentences, calls>>
        /\ reader \in {"callback", "lostCallback"} /\ running' = FALSE
        /\ connection' = "ReadError" /\ currentFix' \in {currentFix, inflight}
        /\ inflight' = NoFix /\ reader' = IF reader = "lostCallback" THEN "exited" ELSE "chunk"
    BY DEF CallbackFails, AfterCallback
  <1>2. inflight \in Fixes /\ ~inflight.manual /\ Stored(inflight) /\ inflight # NoFix
    BY <1>1, InflightStored
  <1>3. Types'
    BY <1>1, <1>2 DEF Inv, Types, Readers, States
  <1>4. HistoryInv'
    <2>1. currentFix' # NoFix => Stored(currentFix')
      BY <1>1, <1>2 DEF Inv, HistoryInv
    <2> QED BY <1>1, <2>1 DEF Inv, HistoryInv, Stored, Agree
  <1>5. InflightInv' /\ FlagInv'
    BY <1>1 DEF Inv, InflightInv, FlagInv
  <1>6. LastInv' /\ LengthInv'
    BY <1>1, <1>2 DEF Inv, LastInv, LengthInv
  <1> QED BY <1>3, <1>4, <1>5, <1>6 DEF Inv

-----------------------------------------------------------------------------
(* The client's steps.                                                     *)

LEMMA ConnectGpsStep ==
    ASSUME Inv, ConnectGps PROVE Inv'
  <1> USE DEF engineVars, deviceVars, statusVars
  <1>1. UNCHANGED <<clock, history, currentFix, inflight, lastMono, sentences>>
        /\ client = "idle" /\ client' = "connecting" /\ calls < MaxCalls
        /\ calls' = calls + 1 /\ connects' = connects + 1
        /\ reader = "none" /\ reader' = "loop" /\ running' = TRUE /\ hasFix' = FALSE
        /\ connection' = "WaitingForFix" /\ lastUtc' = 0 /\ freshMono' = 0
    BY DEF ConnectGps, Call
  <1>2. Types'
    <2>1. /\ calls' \in 0 .. MaxCalls /\ connects' \in 0 .. calls'
          /\ lastUtc' \in 0 .. MaxEpoch /\ freshMono' \in 0 .. clock'
      BY <1>1, Numbers, Constants DEF Inv
    <2> QED BY <1>1, <2>1 DEF Inv, Types, Readers, Clients, States
  <1>3. HistoryInv'
    <2>1. ASSUME NEW f \in Fixes, Stored(f)
          PROVE  /\ f.mono <= clock' /\ f.conn <= connects'
                 /\ f.valid /\ ~f.manual => f.mono <= lastMono'
                 /\ f.conn # connects'
      BY <1>1, <2>1, FixFields, Numbers DEF Inv, Stored
    <2>2. \A i \in DOMAIN history : history[i] \in Fixes /\ Stored(history[i])
      BY ElementOfSeq, LenProperties DEF Inv, HistoryInv
    <2>3. \A i \in DOMAIN history' : Stored(history[i])'
      BY <1>1, <2>1, <2>2 DEF Stored
    <2>4. currentFix' # NoFix => Stored(currentFix)'
      BY <1>1, <2>1 DEF Inv, Types, HistoryInv, Stored
    <2> QED BY <1>1, <2>3, <2>4 DEF Inv, HistoryInv, Agree
  <1>4. InflightInv' /\ FlagInv' /\ LastInv'
    BY <1>1 DEF Inv, InflightInv, FlagInv, LastInv
  <1>5. LengthInv'
    <2>1. Len(history) \in Nat
      BY LenProperties DEF Inv, HistoryInv
    <2>2. /\ client = "idle" /\ client' = "connecting" /\ calls' = calls + 1
          /\ history' = history /\ calls \in Nat /\ HistoryLimit \in Nat
      BY <1>1, Numbers, Constants DEF Inv
    <2>3. LengthInv
      BY DEF Inv
    <2> QED BY <2>1, <2>2, <2>3 DEF LengthInv
  <1> QED BY <1>2, <1>3, <1>4, <1>5 DEF Inv

LEMMA ConnectMarkerStep ==
    ASSUME Inv, ConnectMarker PROVE Inv'
  <1> USE DEF engineVars, deviceVars, statusVars
  <1>1. UNCHANGED <<clock, running, reader, inflight, lastUtc, lastMono, hasFix, connection,
                    freshMono, connects, sentences, calls>>
        /\ client = "connecting" /\ client' = "idle" /\ clear_live_position
    BY DEF ConnectMarker
  <1>2. /\ HistoryInv' /\ history' # <<>> /\ ~Last(history').valid
        /\ currentFix' = NoFix /\ Len(history') = Len(history) + 1 /\ Len(history) \in Nat
    BY <1>1, MarkerStep
  <1>3. Types'
    BY <1>1, <1>2 DEF Inv, Types, Clients
  <1>4. InflightInv' /\ FlagInv'
    BY <1>1 DEF Inv, InflightInv, FlagInv
  <1>5. LastInv'
    BY <1>1, <1>2 DEF LastInv
  <1>6. LengthInv'
    BY <1>1, <1>2, Numbers, Constants DEF Inv, LengthInv
  <1> QED BY <1>2, <1>3, <1>4, <1>5, <1>6 DEF Inv

LEMMA ConnectFailsStep ==
    ASSUME Inv, ConnectFails PROVE Inv'
  <1> USE DEF engineVars, deviceVars, statusVars
  <1>1. UNCHANGED <<clock, history, currentFix, running, reader, inflight, lastUtc, lastMono,
                    hasFix, freshMono, client, connects, sentences>>
        /\ client = "idle" /\ calls < MaxCalls /\ calls' = calls + 1
        /\ reader = "none" /\ connection' = "ReadError"
    BY DEF ConnectFails, Call
  <1>2. Types'
    <2>1. calls' \in 0 .. MaxCalls /\ connects' \in 0 .. calls'
      BY <1>1, Numbers, Constants DEF Inv
    <2> QED BY <1>1, <2>1 DEF Inv, Types, States
  <1>3. HistoryInv'
    BY <1>1, HistoryFrame, Numbers DEF Inv
  <1>4. InflightInv' /\ FlagInv' /\ LastInv'
    BY <1>1 DEF Inv, InflightInv, FlagInv, LastInv
  <1>5. LengthInv'
    <2>1. Len(history) \in Nat
      BY LenProperties DEF Inv, HistoryInv
    <2> QED BY <1>1, <2>1, Numbers, Constants DEF Inv, LengthInv
  <1> QED BY <1>2, <1>3, <1>4, <1>5 DEF Inv

LEMMA StopStep ==
    ASSUME Inv, NEW next \in {"disconnecting", "fixing"}, Stop(next) PROVE Inv'
  <1> USE DEF engineVars, deviceVars, statusVars
  <1>1. UNCHANGED <<clock, history, currentFix, reader, inflight, lastUtc, lastMono,
                    hasFix, connection, freshMono, connects, sentences>>
        /\ client = "idle" /\ calls < MaxCalls /\ calls' = calls + 1
        /\ running' = FALSE /\ client' = next
    BY DEF Stop, Call
  <1>2. Types'
    <2>1. calls' \in 0 .. MaxCalls /\ connects' \in 0 .. calls'
      BY <1>1, Numbers, Constants DEF Inv
    <2> QED BY <1>1, <2>1 DEF Inv, Types, Clients
  <1>3. HistoryInv'
    BY <1>1, HistoryFrame, Numbers DEF Inv
  <1>4. InflightInv' /\ FlagInv' /\ LastInv'
    BY <1>1 DEF Inv, InflightInv, FlagInv, LastInv
  <1>5. LengthInv'
    <2>1. Len(history) \in Nat
      BY LenProperties DEF Inv, HistoryInv
    <2> QED BY <1>1, <2>1, Numbers, Constants DEF Inv, LengthInv
  <1> QED BY <1>2, <1>3, <1>4, <1>5 DEF Inv

LEMMA DisconnectGpsStep ==
    ASSUME Inv, DisconnectGps PROVE Inv'
  <1> USE DEF engineVars, deviceVars, statusVars
  <1>1. UNCHANGED <<clock, running, inflight, lastUtc, lastMono, connects, sentences, calls>>
        /\ client = "disconnecting" /\ client' = "idle" /\ hasFix' = FALSE
        /\ reader \in {"none", "exited"} /\ reader' = "none"
        /\ connection' = "Disconnected" /\ freshMono' = 0
    BY DEF DisconnectGps, Stopped, Joined, Ended
  <1>2. freshMono' \in 0 .. clock
    BY <1>1, Numbers DEF Inv
  <1>3. InflightInv' /\ FlagInv'
    BY <1>1 DEF Inv, InflightInv, FlagInv
  <1>4. CASE currentFix # NoFix /\ currentFix.manual
    <2>1. UNCHANGED <<history, currentFix>>
      BY <1>4 DEF DisconnectGps
    <2>2. Types'
      BY <1>1, <1>2, <2>1 DEF Inv, Types, Readers, Clients, States
    <2>3. HistoryInv'
      BY <1>1, <2>1, HistoryFrame, Numbers DEF Inv
    <2>4. LastInv'
      BY <1>1, <1>4, <2>1 DEF Inv, LastInv
    <2>5. LengthInv'
      <3>1. Len(history) \in Nat
        BY LenProperties DEF Inv, HistoryInv
      <3> QED BY <1>1, <2>1, <3>1, Numbers, Constants DEF Inv, LengthInv
    <2> QED BY <1>3, <2>2, <2>3, <2>4, <2>5 DEF Inv
  <1>5. CASE ~ (currentFix # NoFix /\ currentFix.manual)
    <2>1. clear_live_position
      BY <1>5 DEF DisconnectGps
    <2>2. /\ HistoryInv' /\ history' # <<>> /\ ~Last(history').valid
          /\ currentFix' = NoFix /\ Len(history') = Len(history) + 1 /\ Len(history) \in Nat
      BY <1>1, <2>1, MarkerStep
    <2>3. Types'
      BY <1>1, <1>2, <2>2 DEF Inv, Types, Readers, Clients, States
    <2>4. LastInv'
      BY <1>1, <2>2 DEF LastInv
    <2>5. LengthInv'
      BY <1>1, <2>2, Numbers, Constants DEF Inv, LengthInv
    <2> QED BY <1>3, <2>2, <2>3, <2>4, <2>5 DEF Inv
  <1> QED BY <1>4, <1>5

LEMMA SetFixedPositionStep ==
    ASSUME Inv, SetFixedPosition PROVE Inv'
  <1> USE DEF engineVars, deviceVars, statusVars
  <1> DEFINE f == Fix(clock, TRUE, TRUE, 0, 0)
  <1>1. UNCHANGED <<clock, running, inflight, lastUtc, lastMono, connects, sentences, calls>>
        /\ client = "fixing" /\ client' = "idle" /\ hasFix' = FALSE
        /\ reader \in {"none", "exited"} /\ reader' = "none"
        /\ connection' = "Disconnected" /\ freshMono' = 0
        /\ currentFix' = f /\ history' = Pushed(history, f)
    BY DEF SetFixedPosition, Stopped, Joined, Ended, position
  <1>2. /\ f \in Fixes /\ f.mono = clock /\ f.valid = TRUE /\ f.manual = TRUE /\ f.conn = 0
    <2>1. clock \in 0 .. MaxTime /\ 0 \in 0 .. MaxEpoch /\ 0 \in 0 .. MaxCalls
      BY Constants DEF Inv, Types
    <2>2. TRUE \in BOOLEAN
      OBVIOUS
    <2> QED BY <2>1, <2>2 DEF Fix, Fixes
  <1> HIDE DEF f
  <1>3. Stored(f) /\ f # NoFix
        /\ \A i \in DOMAIN history : Agree(f, history[i]) /\ Agree(history[i], f)
    BY <1>2, Numbers, NoFixIsNoFix DEF Inv, Stored, Agree
  <1>4. HistoryInv' /\ history' # <<>> /\ Last(history') = f
    BY <1>1, <1>2, <1>3, NewEntry
  <1>5. Types'
    <2>1. freshMono' \in 0 .. clock
      BY <1>1, Numbers DEF Inv
    <2> QED BY <1>1, <1>2, <2>1 DEF Inv, Types, Readers, Clients, States
  <1>6. InflightInv' /\ FlagInv'
    BY <1>1 DEF Inv, InflightInv, FlagInv
  <1>7. LastInv'
    BY <1>1, <1>2, <1>3, <1>4 DEF LastInv
  <1>8. LengthInv'
    <2>1. Len(history') <= HistoryLimit \/ Len(history') <= Len(history)
      BY <1>1, <1>2, PushedFix DEF Inv, HistoryInv
    <2>2. Len(history) \in Nat /\ Len(history') \in Nat
      BY <1>4, LenProperties DEF Inv, HistoryInv
    <2> QED BY <1>1, <2>1, <2>2, Numbers, Constants DEF Inv, LengthInv
  <1> QED BY <1>4, <1>5, <1>6, <1>7, <1>8 DEF Inv

LEMMA ClearPositionStep ==
    ASSUME Inv, ClearPosition PROVE Inv'
  <1> USE DEF engineVars, deviceVars, statusVars
  <1>1. UNCHANGED <<clock, running, reader, inflight, lastUtc, lastMono, hasFix, connection,
                    freshMono, client, connects, sentences>>
        /\ client = "idle" /\ calls < MaxCalls /\ calls' = calls + 1 /\ clear_live_position
    BY DEF ClearPosition, Call
  <1>2. /\ HistoryInv' /\ history' # <<>> /\ ~Last(history').valid
        /\ currentFix' = NoFix /\ Len(history') = Len(history) + 1 /\ Len(history) \in Nat
    BY <1>1, MarkerStep
  <1>3. Types'
    <2>1. calls' \in 0 .. MaxCalls /\ connects' \in 0 .. calls'
      BY <1>1, Numbers, Constants DEF Inv
    <2> QED BY <1>1, <1>2, <2>1 DEF Inv, Types
  <1>4. InflightInv' /\ FlagInv'
    BY <1>1 DEF Inv, InflightInv, FlagInv
  <1>5. LastInv'
    BY <1>1, <1>2 DEF LastInv
  <1>6. LengthInv'
    <2>1. Len(history) <= HistoryLimit + calls
      BY <1>1, <1>2, Numbers, Constants DEF Inv, LengthInv
    <2>2. client' = "idle" /\ Len(history') <= HistoryLimit + calls'
      BY <1>1, <1>2, <2>1, Numbers, Constants DEF Inv
    <2>3. HistoryLimit + calls' \in Nat /\ HistoryLimit + calls' - 0 = HistoryLimit + calls'
      BY <1>1, Numbers, Constants DEF Inv
    <2> QED BY <2>2, <2>3 DEF LengthInv
  <1> QED BY <1>2, <1>3, <1>4, <1>5, <1>6 DEF Inv

\* A new session begins with the current fix, if there is one.
LEMMA NewSessionStep ==
    ASSUME Inv, NewSession PROVE Inv'
  <1> USE DEF engineVars, deviceVars, statusVars
  <1>1. UNCHANGED <<clock, currentFix, running, reader, inflight, lastUtc, lastMono, hasFix,
                    connection, freshMono, client, connects, sentences>>
        /\ client = "idle" /\ calls < MaxCalls /\ calls' = calls + 1
        /\ history' = FromCurrent
    BY DEF NewSession, Call
  <1>2. Types'
    <2>1. calls' \in 0 .. MaxCalls /\ connects' \in 0 .. calls'
      BY <1>1, Numbers, Constants DEF Inv
    <2> QED BY <1>1, <2>1 DEF Inv, Types
  <1>3. InflightInv' /\ FlagInv'
    BY <1>1 DEF Inv, InflightInv, FlagInv
  <1>4. CASE currentFix = NoFix
    <2>1. history' = <<>> /\ Len(history') = 0 /\ DOMAIN history' = {} /\ history' \in Seq(Fixes)
      BY <1>1, <1>4 DEF FromCurrent
    <2>2. HistoryInv'
      BY <1>1, <1>4, <2>1 DEF HistoryInv
    <2>3. LastInv'
      BY <1>1, <1>4, <2>1 DEF Inv, LastInv
    <2>4. LengthInv'
      BY <1>1, <2>1, Numbers, Constants DEF Inv, LengthInv
    <2> QED BY <1>2, <1>3, <2>2, <2>3, <2>4 DEF Inv
  <1>5. CASE currentFix # NoFix
    <2>1. currentFix \in Fixes /\ Stored(currentFix)
      BY <1>5 DEF Inv, Types, HistoryInv
    <2>2. /\ history' = <<currentFix>> /\ history' \in Seq(Fixes) /\ Len(history') = 1
          /\ DOMAIN history' = {1} /\ history'[1] = currentFix
      BY <1>1, <1>5, <2>1 DEF FromCurrent
    <2>3. HistoryInv'
      <3>1. \A i \in DOMAIN history' : Stored(history[i])'
        BY <1>1, <2>1, <2>2 DEF Stored
      <3>2. \A i, j \in DOMAIN history' : Agree(history[i], history[j])'
        BY <2>2 DEF Agree
      <3>3. Stored(currentFix)'
        BY <1>1, <2>1 DEF Stored
      <3> QED BY <2>2, <3>1, <3>2, <3>3 DEF HistoryInv
    <2>4. LastInv'
      <3>1. history' # <<>> /\ Last(history') = currentFix
        BY <2>2, EmptySeq DEF Last
      <3> QED BY <1>1, <1>5, <3>1 DEF Inv, LastInv
    <2>5. LengthInv'
      BY <1>1, <2>2, Numbers, Constants DEF Inv, LengthInv
    <2> QED BY <1>2, <1>3, <2>3, <2>4, <2>5 DEF Inv
  <1> QED BY <1>4, <1>5

LEMMA TickStep ==
    ASSUME Inv, Tick PROVE Inv'
  <1> USE DEF engineVars, deviceVars, statusVars
  <1>1. UNCHANGED <<history, currentFix, running, reader, inflight, lastUtc, lastMono, hasFix,
                    connection, freshMono, client, connects, sentences, calls>>
        /\ clock < MaxTime /\ clock' = clock + 1
    BY DEF Tick
  <1>2. Types'
    <2>1. clock' \in 0 .. MaxTime /\ lastMono' \in 0 .. clock' /\ freshMono' \in 0 .. clock'
      BY <1>1, Numbers, Constants DEF Inv
    <2> QED BY <1>1, <2>1 DEF Inv, Types
  <1>3. HistoryInv'
    BY <1>1, HistoryFrame, Numbers DEF Inv
  <1>4. InflightInv'
    <2>1. inflight \in Fixes => inflight.mono \in Nat
      BY FixFields
    <2>2. clock \in Nat
      BY Numbers DEF Inv
    <2> QED BY <1>1, <2>1, <2>2 DEF Inv, InflightInv
  <1>5. FlagInv' /\ LastInv' /\ LengthInv'
    BY <1>1 DEF Inv, FlagInv, LastInv, LengthInv
  <1> QED BY <1>2, <1>3, <1>4, <1>5 DEF Inv

LEMMA InvInit == Init => Inv
  <1> SUFFICES ASSUME Init PROVE Inv
    OBVIOUS
  <1>1. Types
    <2>1. /\ clock \in 0 .. MaxTime /\ lastUtc \in 0 .. MaxEpoch /\ lastMono \in 0 .. clock
          /\ freshMono \in 0 .. clock /\ connects \in 0 .. calls /\ calls \in 0 .. MaxCalls
          /\ sentences \in 0 .. MaxSentences
      BY Constants DEF Init
    <2>2. /\ currentFix \in Fixes \cup {NoFix} /\ inflight \in Fixes \cup {NoFix}
          /\ running \in BOOLEAN /\ hasFix \in BOOLEAN
          /\ reader \in Readers /\ client \in Clients /\ connection \in States
      BY DEF Init, Readers, Clients, States
    <2> QED BY <2>1, <2>2 DEF Types
  <1>2. history = <<>> /\ Len(history) = 0 /\ DOMAIN history = {} /\ history \in Seq(Fixes)
    BY DEF Init
  <1>3. HistoryInv /\ InflightInv /\ FlagInv /\ LastInv
    BY <1>2 DEF Init, HistoryInv, InflightInv, FlagInv, LastInv
  <1>4. LengthInv
    BY <1>2, Constants DEF Init, LengthInv
  <1> QED BY <1>1, <1>3, <1>4 DEF Inv

LEMMA InvStep == Inv /\ [Next]_vars => Inv'
  <1> SUFFICES ASSUME Inv, [Next]_vars PROVE Inv'
    OBVIOUS
  <1>1. CASE ReaderStep
    <2>1. CASE Poll \/ EndChunk
      BY <2>1, PollStep
    <2>2. CASE ReadFails \/ deliver \/ Callback \/ CallbackFails
      BY <2>2, ReadFailsStep, deliverStep, CallbackStep, CallbackFailsStep
    <2>3. CASE \E epoch \in 1 .. MaxEpoch, valid \in BOOLEAN : Sentence(epoch, valid)
      BY <2>3, SentenceStep
    <2> QED BY <1>1, <2>1, <2>2, <2>3 DEF ReaderStep
  <1>2. CASE ClientStep
    <2>1. CASE ConnectGps \/ ConnectFails \/ ClearPosition \/ NewSession
      BY <2>1, ConnectGpsStep, ConnectFailsStep, ClearPositionStep, NewSessionStep
    <2>2. CASE Stop("disconnecting") \/ Stop("fixing")
      BY <2>2, StopStep
    <2>3. CASE ClientReturns
      BY <2>3, ConnectMarkerStep, DisconnectGpsStep, SetFixedPositionStep DEF ClientReturns
    <2> QED BY <1>2, <2>1, <2>2, <2>3 DEF ClientStep
  <1>3. CASE Tick
    BY <1>3, TickStep
  <1>4. CASE UNCHANGED vars
    <2>1. UNCHANGED <<clock, history, currentFix, running, reader, inflight, lastUtc, lastMono,
                      hasFix, connection, freshMono, client, connects, sentences, calls>>
      BY <1>4 DEF vars, engineVars, deviceVars, statusVars
    <2>2. HistoryInv'
      BY <2>1, HistoryFrame, Numbers DEF Inv
    <2> QED BY <2>1, <2>2 DEF Inv, Types, InflightInv, FlagInv, LastInv, LengthInv
  <1> QED BY <1>1, <1>2, <1>3, <1>4 DEF Next

\* The inductive invariant: the reader's memory is at least as new as every fix
\* the engine holds, the delivered fix agrees with it, and the flags of the two
\* threads say where each of them is.
THEOREM InvHolds == Spec => []Inv
  BY InvInit, InvStep, PTL DEF Spec

-----------------------------------------------------------------------------
(* The properties.                                                         *)

\* Every variable stays in its domain, nothing is stamped in the future, and the
\* history outgrows its limit by at most one entry for each call.
THEOREM TypeCorrect == Spec => []TypeOK
  <1>1. Inv => TypeOK
    <2> SUFFICES ASSUME Inv PROVE TypeOK
      OBVIOUS
    <2>1. \A i \in DOMAIN history : history[i] \in Fixes /\ history[i].mono <= clock
      BY ElementOfSeq, LenProperties DEF Inv, HistoryInv, Stored
    <2>2. Len(history) \in Nat
      BY LenProperties DEF Inv, HistoryInv
    <2>3. Len(history) <= HistoryLimit + calls
      BY <2>2, Numbers, Constants DEF Inv, LengthInv
    <2> QED BY <2>1, <2>3 DEF Inv, Types, TypeOK
  <1> QED BY <1>1, InvHolds, PTL

\* All valid fixes of one connection and one epoch carry the time the epoch was
\* first received, however often deliver() sees it again.
THEOREM EpochTimeKept == Spec => []EpochKeepsItsTime
  <1>1. Inv => EpochKeepsItsTime
    BY DEF Inv, HistoryInv, Agree, EpochKeepsItsTime
  <1> QED BY <1>1, InvHolds, PTL

\* The status calls a fix valid only while it is fresh, and a reader that ended on
\* its own is reported as a read error until the next call.
THEOREM StatusHonest == Spec => []StatusIsHonest
  <1>1. Inv => StatusIsHonest
    <2> SUFFICES ASSUME Inv PROVE StatusIsHonest
      OBVIOUS
    <2>1. status = "ValidFix" => connection = "ValidFix" /\ ~ (clock - freshMono > Freshness)
      BY DEF status
    <2>2. status = "ValidFix" => clock - lastMono <= Freshness
      BY <2>1, Numbers, Constants DEF Inv, FlagInv
    <2>3. reader = "exited" /\ client = "idle" => connection = "ReadError"
      BY DEF Inv, FlagInv
    <2> QED BY <2>2, <2>3 DEF StatusIsHonest
  <1> QED BY <1>1, InvHolds, PTL

\* Where no entry is later than the time asked for, the last entry decides.
LEMMA LastDecides ==
    ASSUME NEW h \in Seq(Fixes), NEW t \in Nat, h # <<>>,
           \A i \in DOMAIN h : h[i].mono <= t
    PROVE  position_at(h, t) = IF /\ Last(h).valid
                                  /\ Last(h).manual \/ t - Last(h).mono <= Freshness
                               THEN Last(h) ELSE NoFix
  <1> DEFINE n == Len(h)
             S == NotAfter(h, t)
  <1>1. n \in Nat /\ n >= 1 /\ DOMAIN h = 1 .. n
    BY LenProperties, EmptySeq
  <1>2. S = 1 .. n
    BY <1>1 DEF NotAfter
  <1>3. S # {} /\ S \subseteq 1 .. n /\ n \in S
    BY <1>1, <1>2
  <1> HIDE DEF S, n
  <1>4. Max(S) \in S /\ \A y \in S : Max(S) >= y
    BY <1>1, <1>3, MaxIsGreatest
  <1>5. Max(S) = n
    <2>1. Max(S) \in 1 .. n /\ Max(S) >= n
      BY <1>3, <1>4
    <2> HIDE DEF Max
    <2> QED BY <1>1, <2>1
  <1> QED BY <1>3, <1>5 DEF position_at, Last, S, n

\* Once a stop has returned, nothing the serial receiver said is the current
\* position or is associated with the present.
THEOREM QuietWhenStopped == Spec => []QuietAfterStop
  <1>1. Inv => QuietAfterStop
    <2> SUFFICES ASSUME Inv, client = "idle", reader = "none" \/ connection = "Disconnected"
                 PROVE  /\ currentFix # NoFix => currentFix.manual
                        /\ position_at(history, clock) # NoFix =>
                             position_at(history, clock).manual
      BY DEF QuietAfterStop
    <2>1. reader = "none"
      BY DEF Inv, FlagInv
    <2>2. currentFix = NoFix \/ currentFix.manual
      BY <2>1 DEF Inv, LastInv
    <2>3. CASE history = <<>>
      <3>1. NotAfter(history, clock) = {}
        BY <2>3 DEF NotAfter
      <3> QED BY <2>2, <3>1 DEF position_at
    <2>4. CASE history # <<>>
      <3>1. history \in Seq(Fixes) /\ \A i \in DOMAIN history : history[i].mono <= clock
        BY DEF Inv, HistoryInv, Stored
      <3>2. clock \in Nat
        BY Numbers DEF Inv
      <3>3. position_at(history, clock) # NoFix =>
              Last(history).valid /\ position_at(history, clock) = Last(history)
        BY <2>4, <3>1, <3>2, LastDecides
      <3>4. Last(history).valid => currentFix # NoFix /\ Last(history) = currentFix
        BY <2>2, <2>4 DEF Inv, LastInv
      <3> QED BY <2>2, <3>3, <3>4
    <2> QED BY <2>3, <2>4
  <1> QED BY <1>1, InvHolds, PTL

\* The entry position_at looks at is one of the history.
LEMMA DecidingEntry ==
    ASSUME NEW h \in Seq(Fixes), NEW t \in Nat, position_at(h, t) # NoFix
    PROVE  \E i \in NotAfter(h, t) :
             /\ i \in DOMAIN h /\ h[i] \in Fixes /\ h[i].mono <= t
             /\ position_at(h, t) = h[i] /\ h[i].valid
             /\ h[i].manual \/ t - h[i].mono <= Freshness
  <1> DEFINE S == NotAfter(h, t)
  <1>1. Len(h) \in Nat /\ DOMAIN h = 1 .. Len(h) /\ S \subseteq 1 .. Len(h)
    BY LenProperties DEF NotAfter
  <1>2. S # {}
    BY DEF position_at
  <1>3. Max(S) \in S
    BY <1>1, <1>2, MaxIsGreatest
  <1>4. Max(S) \in DOMAIN h /\ h[Max(S)].mono <= t
    BY <1>3 DEF NotAfter
  <1>5. h[Max(S)] \in Fixes
    BY <1>1, <1>4, ElementOfSeq
  <1>6. /\ position_at(h, t) = h[Max(S)] /\ h[Max(S)].valid
        /\ h[Max(S)].manual \/ t - h[Max(S)].mono <= Freshness
    BY <1>2 DEF position_at
  <1> QED BY <1>3, <1>4, <1>5, <1>6

\* Of an appended entry: it is skipped, or it decides.
LEMMA AppendedDecides ==
    ASSUME NEW h \in Seq(Fixes), NEW fix \in Fixes, NEW t \in Nat
    PROVE  LET r == Append(h, fix)
           IN  /\ fix.mono > t => position_at(r, t) = position_at(h, t)
               /\ fix.mono <= t /\ fix.valid /\ (fix.manual \/ t - fix.mono <= Freshness) =>
                    position_at(r, t) = fix
  <1> DEFINE r == Append(h, fix)
             n == Len(h)
             S == NotAfter(h, t)
             R == NotAfter(r, t)
  <1>1. /\ r \in Seq(Fixes) /\ Len(r) = n + 1 /\ n \in Nat
        /\ \A i \in 1 .. n : r[i] = h[i]
        /\ r[n + 1] = fix
    BY AppendProperties, LenProperties
  <1>2. DOMAIN r = 1 .. n + 1 /\ DOMAIN h = 1 .. n
    BY <1>1, LenProperties
  <1>3. fix.mono \in Nat
    BY FixFields
  <1> HIDE DEF r, n
  <1>4. ASSUME fix.mono > t PROVE position_at(r, t) = position_at(h, t)
    <2>1. R = S
      BY <1>1, <1>2, <1>3, <1>4 DEF NotAfter
    <2>2. S # {} => Max(S) \in S /\ S \subseteq 1 .. n
      <3>1. S \subseteq 1 .. n
        BY <1>2 DEF NotAfter
      <3> QED BY <1>1, <3>1, MaxIsGreatest
    <2>3. S # {} => r[Max(S)] = h[Max(S)]
      BY <1>1, <2>2
    <2> QED BY <2>1, <2>3 DEF position_at
  <1>5. ASSUME fix.mono <= t PROVE R # {} /\ Max(R) = n + 1
    <2>1. n + 1 \in R /\ R \subseteq 1 .. n + 1 /\ n + 1 \in Nat
      BY <1>1, <1>2, <1>5 DEF NotAfter
    <2>2. Max(R) \in R /\ \A y \in R : Max(R) >= y
      BY <2>1, MaxIsGreatest
    <2>3. Max(R) \in 1 .. n + 1 /\ Max(R) >= n + 1
      BY <2>1, <2>2
    <2> QED BY <1>1, <2>1, <2>3
  <1>6. ASSUME fix.mono <= t, fix.valid, fix.manual \/ t - fix.mono <= Freshness
        PROVE  position_at(r, t) = fix
    BY <1>1, <1>5, <1>6 DEF position_at
  <1> QED BY <1>4, <1>6 DEF r

\* A valid entry that joins others in the history is a manual position or the
\* newest fix of the serial reader.
LEMMA GrowthIsNewest ==
    ASSUME Inv, [Next]_vars, Len(history') = Len(history) + 1
    PROVE  \E fix \in Fixes : /\ history' = Append(history, fix)
                              /\ fix.valid /\ history # <<>> =>
                                   fix.manual \/ fix.mono = lastMono
  <1> USE DEF engineVars, deviceVars, statusVars
  <1>1. history \in Seq(Fixes) /\ Len(history) \in Nat
    BY LenProperties DEF Inv, HistoryInv
  <1>2. history' # history
    BY <1>1
  <1>3. CASE Callback
    <2>1. history' = Pushed(history, inflight) /\ reader \in {"callback", "lostCallback"}
      BY <1>3 DEF Callback, position
    <2>2. inflight \in Fixes
      BY <2>1, InflightStored
    <2>3. inflight.valid => inflight.mono = lastMono
      BY <2>1 DEF Inv, InflightInv
    <2>4. history' = Append(history, inflight)
      BY <1>1, <2>1, <2>2, PushedFix
    <2> QED BY <2>2, <2>3, <2>4
  <1>4. CASE SetFixedPosition
    <2> DEFINE f == Fix(clock, TRUE, TRUE, 0, 0)
    <2>1. history' = Pushed(history, f)
      BY <1>4 DEF SetFixedPosition, position
    <2>2. f \in Fixes /\ f.manual
      <3>1. clock \in 0 .. MaxTime /\ 0 \in 0 .. MaxEpoch /\ 0 \in 0 .. MaxCalls
        BY Constants DEF Inv, Types
      <3> QED BY <3>1 DEF Fix, Fixes
    <2> HIDE DEF f
    <2>3. history' = Append(history, f)
      BY <1>1, <2>1, <2>2, PushedFix
    <2> QED BY <2>2, <2>3
  <1>5. CASE clear_live_position
    <2>1. Marker \in Fixes /\ ~Marker.valid /\ history' = Append(history, Marker)
      BY <1>5, MarkerType DEF Inv, clear_live_position
    <2> QED BY <2>1
  <1>6. CASE NewSession
    <2>1. history' = <<>> \/ history' = <<currentFix>>
      BY <1>6 DEF NewSession, FromCurrent
    <2>2. history' = <<currentFix>> /\ currentFix # NoFix /\ Len(history) = 0
      <3>1. Len(<<>>) = 0 /\ Len(<<currentFix>>) = 1
        OBVIOUS
      <3>2. Len(history') \in {0, 1}
        BY <2>1, <3>1
      <3>3. Len(history') = 1 /\ Len(history) = 0
        BY <1>1, <3>2
      <3> QED BY <1>6, <2>1, <3>1, <3>3 DEF NewSession, FromCurrent
    <2>3. history = <<>>
      BY <1>1, <2>2, EmptySeq
    <2>4. history' = Append(history, currentFix)
      BY <2>2, <2>3
    <2>5. currentFix \in Fixes
      BY <2>2 DEF Inv, Types
    <2> QED BY <2>3, <2>4, <2>5
  <1>7. CASE ReaderStep
    <2>1. Callback
      BY <1>2, <1>7 DEF ReaderStep, Poll, EndChunk, ReadFails, deliver, CallbackFails, Sentence
    <2> QED BY <1>3, <2>1
  <1>8. CASE ClientStep
    <2>1. SetFixedPosition \/ clear_live_position \/ NewSession
      BY <1>2, <1>8 DEF ClientStep, ConnectGps, ConnectFails, ClearPosition, Stop,
         ClientReturns, ConnectMarker, DisconnectGps
    <2> QED BY <1>4, <1>5, <1>6, <2>1
  <1> QED BY <1>2, <1>7, <1>8 DEF Next, Tick, vars

LEMMA KeptByGrowth ==
    ASSUME Inv, [Next]_vars, Len(history') = Len(history) + 1, NEW t \in 0 .. clock,
           position_at(history, t) # NoFix, ~position_at(history, t).manual
    PROVE  \/ position_at(history', t) # NoFix
           \/ ~Last(history').valid /\ Last(history').mono <= t
  <1>1. history \in Seq(Fixes) /\ t \in Nat
    BY Numbers DEF Inv, HistoryInv
  <1>2. PICK i \in NotAfter(history, t) :
          /\ i \in DOMAIN history /\ history[i] \in Fixes /\ history[i].mono <= t
          /\ position_at(history, t) = history[i] /\ history[i].valid
          /\ history[i].manual \/ t - history[i].mono <= Freshness
    BY <1>1, DecidingEntry
  <1>3. history # <<>>
    BY <1>2
  <1>4. PICK fix \in Fixes : /\ history' = Append(history, fix)
                             /\ fix.valid => fix.manual \/ fix.mono = lastMono
    BY <1>3, GrowthIsNewest
  <1>5. Last(history') = fix
    BY <1>1, <1>4, AppendFix
  <1>6. /\ history[i].mono \in Nat /\ fix.mono \in Nat
        /\ t - history[i].mono <= Freshness /\ history[i].mono <= lastMono
    BY <1>2, FixFields DEF Inv, HistoryInv, Stored
  <1>7. CASE fix.mono > t
    <2>1. position_at(history', t) = position_at(history, t)
      BY <1>1, <1>4, <1>7, AppendedDecides
    <2> QED BY <2>1
  <1>8. CASE fix.mono <= t /\ ~fix.valid
    BY <1>5, <1>8
  <1>9. CASE fix.mono <= t /\ fix.valid
    <2>1. fix.manual \/ t - fix.mono <= Freshness
      <3>1. fix.manual \/ history[i].mono <= fix.mono
        BY <1>4, <1>6, <1>9
      <3>2. history[i].mono <= fix.mono => t - fix.mono <= Freshness
        BY <1>1, <1>6, Constants
      <3> QED BY <3>1, <3>2
    <2>2. position_at(history', t) = fix
      BY <1>1, <1>4, <1>9, <2>1, AppendedDecides
    <2> QED BY <2>2, NoFixIsNoFix
  <1> QED BY <1>1, <1>6, <1>7, <1>8, <1>9

\* When the history grows, a time that had a serial fix keeps one, unless the new
\* entry is an invalidation at or before it: a fix delivered late, or a replayed
\* epoch stamped behind newer entries, hides no position.
THEOREM PositionsKept == Spec => AssociationKept
  <1>1. Inv /\ [Next]_vars =>
          [LET new == Last(history')
           IN  Len(history') = Len(history) + 1 =>
                 \A t \in 0 .. clock :
                    position_at(history, t) # NoFix /\ ~position_at(history, t).manual =>
                        \/ position_at(history', t) # NoFix
                        \/ ~new.valid /\ new.mono <= t]_vars
    BY KeptByGrowth
  <1> QED BY <1>1, InvHolds, PTL DEF Spec, AssociationKept
=============================================================================
