-------------------------- MODULE SessionStoreProofs --------------------------
(***************************************************************************)
(* Proofs about the store, SessionStore.tla, for every set of formats,     *)
(* positions and failing calls and for every bound:                        *)
(*   LedgerRefined     the store implements SessionLedger: measurements    *)
(*                     become durable in whole batches, in order, and are  *)
(*                     never changed or lost afterwards;                   *)
(*   SaveIsDurable     a save that reports success has everything on disk; *)
(*   RecordingReadable what is on disk, and every copy, can be read; only  *)
(*                     a batch that failed half way can put records after  *)
(*                     the recorded end of their acquisition;              *)
(* and about its readers, SurveyAnalysis.tla, for every recording a reader *)
(* accepts and every selection:                                            *)
(*   SummariesAreExact the panel and the report say what was measured, or  *)
(*                     are refused as a whole beyond one of their bounds.  *)
(***************************************************************************)
EXTENDS SessionStore, SurveyAnalysis, FifoLemmas, SequenceTheorems, FiniteSetTheorems, TLAPS

RowType == [from : Nat, to : Nat, board : Nat, fix : Nat, power : Nat]
SegType == [from : Nat, to : Nat, final : BOOLEAN]
SpanType == [from : Nat, to : Nat]
PowerType == UNION {[S -> SpanType] : S \in SUBSET Nat}
BlockType == [id : Nat, from : Nat, to : Nat]
CacheType == [fix : Fixes, id : Nat]

\* A database with its tables; what the store object and the engine remember.
DbType ==
  [pos : Seq(Fixes), power : PowerType, rows : Seq(RowType), recs : Seq(Nat), pkts : Nat,
   segs : Seq(SegType), dec : SUBSET Nat, status : BOOLEAN, elapsed : Nat,
   complete : BOOLEAN]
MemType ==
  [pending : BOOLEAN, acq : Nat, prevEnd : Nat, block : BlockType,
   cache : Seq(CacheType)]
EngType ==
  [phase : {"new", "starting", "run", "drain", "idle"}, clock : Nat, meas : Nat,
   start : Nat, segs : Nat, rows : Nat, recs : Nat, failed : BOOLEAN, final : BOOLEAN,
   saved : BOOLEAN]

TypeOK ==
  /\ kind \in Kinds
  /\ db \in DbType /\ disk \in DbType
  /\ mem \in MemType /\ eng \in EngType /\ torn \in BOOLEAN

-----------------------------------------------------------------------------
(* The operators of the store keep the types, and what they do to the rows. *)

LEMMA FreshTypes == FreshDb \in DbType /\ FreshMem \in MemType /\ IdleEngine \in EngType
  <1>1. <<>> \in PowerType
    <2>1. <<>> \in [{} -> SpanType] /\ {} \in SUBSET Nat
      OBVIOUS
    <2> QED BY <2>1 DEF PowerType
  <1>2. FreshDb \in DbType
    BY <1>1 DEF FreshDb, DbType
  <1>3. FreshMem \in MemType
    BY DEF FreshMem, MemType, NoBlock, BlockType
  <1>4. IdleEngine \in EngType
    BY DEF IdleEngine, EngType
  <1> QED BY <1>2, <1>3, <1>4

LEMMA EnsureFixType ==
  ASSUME NEW d \in DbType, NEW m \in MemType, NEW f \in Fixes
  PROVE  /\ EnsureFix(d, m, f).db \in DbType
         /\ EnsureFix(d, m, f).mem \in MemType
         /\ EnsureFix(d, m, f).id \in Nat
         /\ EnsureFix(d, m, f).db.rows = d.rows
         /\ EnsureFix(d, m, f).db.segs = d.segs
         /\ EnsureFix(d, m, f).db.recs = d.recs
         /\ EnsureFix(d, m, f).mem.pending = m.pending
         /\ EnsureFix(d, m, f).mem.acq = m.acq
  <1> DEFINE cached == {c \in Range(m.cache) : c.fix = f}
             known  == IndexOfFix(d.pos, f)
             id     == IF cached # {} THEN (CHOOSE c \in cached : TRUE).id
                       ELSE IF known # {} THEN CHOOSE i \in known : TRUE
                       ELSE Len(d.pos) + 1
             cache  == Append(m.cache, [fix |-> f, id |-> id])
             d2     == IF cached = {} /\ known = {} THEN [d EXCEPT !.pos = Append(@, f)] ELSE d
             m2     == IF cached # {} THEN m
                       ELSE [m EXCEPT !.cache = IF Len(cache) > CacheSize THEN Tail(cache) ELSE cache]
  <1>1. d.pos \in Seq(Fixes) /\ Len(d.pos) \in Nat /\ m.cache \in Seq(CacheType)
    BY DEF DbType, MemType
  <1>2. known \subseteq Nat
    BY DEF IndexOfFix
  <1>3. cached \subseteq CacheType
    BY <1>1, ElementOfSeq DEF Range
  <1>4. id \in Nat
    <2>1. CASE cached # {}
      <3>1. (CHOOSE c \in cached : TRUE) \in cached
        BY <2>1
      <3> QED BY <3>1, <1>3, <2>1 DEF CacheType
    <2>2. CASE cached = {} /\ known # {}
      <3>1. (CHOOSE i \in known : TRUE) \in known
        BY <2>2
      <3> QED BY <3>1, <1>2, <2>2
    <2>3. CASE cached = {} /\ known = {}
      BY <2>3, <1>1
    <2> QED BY <2>1, <2>2, <2>3
  <1> HIDE DEF id
  <1>5. cache \in Seq(CacheType) /\ cache # <<>>
    BY <1>1, <1>4 DEF CacheType
  <1>6. Tail(cache) \in Seq(CacheType)
    BY <1>5
  <1> HIDE DEF cached, known, cache
  <1>7. m2 \in MemType /\ m2.pending = m.pending /\ m2.acq = m.acq
    BY <1>5, <1>6 DEF MemType
  <1>8. Append(d.pos, f) \in Seq(Fixes)
    BY <1>1
  <1>9. d2 \in DbType /\ d2.rows = d.rows /\ d2.segs = d.segs /\ d2.recs = d.recs
    BY <1>8 DEF DbType
  <1>10. EnsureFix(d, m, f) = [db |-> d2, mem |-> m2, id |-> id]
    BY DEF EnsureFix, id, cached, known, cache
  <1> HIDE DEF d2, m2
  <1> QED BY <1>4, <1>7, <1>9, <1>10

LEMMA LargerType ==
  ASSUME NEW a \in Nat, NEW b \in Nat
  PROVE  Larger(a, b) \in Nat /\ Larger(a, b) >= a /\ Larger(a, b) >= b
  BY DEF Larger

LEMMA ElapsedType == TypeOK => Elapsed \in Nat
  <1> SUFFICES ASSUME TypeOK PROVE Elapsed \in Nat
    OBVIOUS
  <1>1. eng.clock \in Nat /\ eng.meas \in Nat /\ eng.start \in Nat
    BY DEF TypeOK, EngType
  <1> QED BY <1>1 DEF Elapsed, Larger

LEMMA UpdatedDbType ==
  ASSUME TypeOK, NEW d \in DbType, NEW m \in MemType, NEW final \in BOOLEAN,
         NEW failed \in BOOLEAN
  PROVE  /\ UpdatedDb(d, m, final, failed) \in DbType
         /\ UpdatedDb(d, m, final, failed).rows = d.rows
         /\ UpdatedDb(d, m, final, failed).recs = d.recs
         /\ Len(UpdatedDb(d, m, final, failed).segs) = Len(d.segs)
         /\ m.acq \in 1..Len(d.segs) =>
              UpdatedDb(d, m, final, failed).segs[m.acq].final = final
  <1> DEFINE segs == IF m.acq = 0 THEN d.segs
                     ELSE [d.segs EXCEPT ![m.acq] = [@ EXCEPT !.to = Elapsed, !.final = final]]
  <1>1. d.segs \in Seq(SegType) /\ Len(d.segs) \in Nat /\ m.acq \in Nat /\ Elapsed \in Nat
    BY ElapsedType DEF DbType, MemType
  <1>2. /\ segs \in Seq(SegType) /\ Len(segs) = Len(d.segs)
        /\ m.acq \in 1..Len(d.segs) => segs[m.acq].final = final
    <2>1. CASE m.acq \in 1..Len(d.segs)
      <3>1. d.segs[m.acq] \in SegType
        BY <1>1, <2>1
      <3>2. [d.segs[m.acq] EXCEPT !.to = Elapsed, !.final = final] \in SegType
            /\ [d.segs[m.acq] EXCEPT !.to = Elapsed, !.final = final].final = final
        BY <3>1, <1>1 DEF SegType
      <3> QED BY <3>2, <1>1, <2>1
    <2>2. CASE m.acq \notin 1..Len(d.segs)
      <3>1. segs = d.segs
        BY <1>1, <2>2
      <3> QED BY <3>1, <1>1, <2>2
    <2> QED BY <2>1, <2>2
  <1> DEFINE complete == final /\ ~failed
             d1 == [d EXCEPT !.segs = segs]
             d2 == [d1 EXCEPT !.dec = d.dec \cup {m.acq}]
             d3 == [d2 EXCEPT !.elapsed = Elapsed]
             d4 == [d3 EXCEPT !.complete = complete]
             d5 == [d4 EXCEPT !.status = TRUE]
             same(e) == e \in DbType /\ e.rows = d.rows /\ e.recs = d.recs /\ e.segs = segs
  <1>3. complete \in BOOLEAN
    OBVIOUS
  <1>4. UpdatedDb(d, m, final, failed) = d5
    BY Zenon DEF UpdatedDb
  <1> HIDE DEF segs, complete
  <1>5. same(d1) /\ d1.dec = d.dec
    BY <1>2 DEF DbType
  <1> HIDE DEF d1
  <1>6. same(d2)
    BY <1>1, <1>5 DEF DbType
  <1> HIDE DEF d2
  <1>7. same(d3)
    BY <1>1, <1>6 DEF DbType
  <1> HIDE DEF d3
  <1>8. same(d4)
    BY <1>3, <1>7 DEF DbType
  <1> HIDE DEF d4
  <1>9. same(d5)
    BY <1>8 DEF DbType
  <1> HIDE DEF d5
  <1> QED BY <1>2, <1>4, <1>9

LEMMA BeginDbType ==
  ASSUME NEW d \in DbType, NEW seg \in SegType, NEW n \in 0..6
  PROVE  /\ BeginDb(d, seg, n) \in DbType
         /\ BeginDb(d, seg, n).rows = d.rows
         /\ BeginDb(d, seg, n).recs = d.recs
         /\ n = 6 => Len(BeginDb(d, seg, n).segs) = Len(d.segs) + 1
  <1> DEFINE d1 == IF n >= 1 THEN [d EXCEPT !.segs = Append(@, seg)] ELSE d
             d2 == IF n >= 2 THEN [d1 EXCEPT !.dec = @ \ {0}] ELSE d1
             d3 == IF n >= 3 THEN [d2 EXCEPT !.dec = @ \cup {Len(d1.segs)}] ELSE d2
             d4 == IF n >= 4 THEN [d3 EXCEPT !.complete = FALSE,
                                             !.elapsed = Larger(@, seg.to)] ELSE d3
             d5 == IF n >= 5 THEN [d4 EXCEPT !.status = FALSE] ELSE d4
             d6 == IF n >= 6 THEN [d5 EXCEPT !.status = TRUE] ELSE d5
             same(e) == e \in DbType /\ e.rows = d.rows /\ e.recs = d.recs
  <1>1. same(d1) /\ Len(d1.segs) \in Nat /\ (n = 6 => Len(d1.segs) = Len(d.segs) + 1)
    <2>1. d.segs \in Seq(SegType)
      BY DEF DbType
    <2> DEFINE more == Append(d.segs, seg)
    <2>2. more \in Seq(SegType) /\ Len(more) = Len(d.segs) + 1 /\ Len(d.segs) \in Nat
      BY <2>1
    <2> HIDE DEF more
    <2>3. d1 = IF n >= 1 THEN [d EXCEPT !.segs = more] ELSE d
      BY DEF more
    <2>4. CASE n >= 1
      <3> DEFINE e == [d EXCEPT !.segs = more]
      <3>1. e \in DbType /\ e.rows = d.rows /\ e.recs = d.recs /\ e.segs = more
        BY <2>2 DEF DbType
      <3>2. d1 = e
        BY <2>3, <2>4
      <3> HIDE DEF e, d1
      <3> QED BY <2>2, <3>1, <3>2
    <2>5. CASE n = 0
      BY <2>2, <2>5 DEF DbType
    <2> QED BY <2>4, <2>5
  <1> HIDE DEF d1
  <1>2. same(d2) /\ d2.segs = d1.segs
    BY <1>1 DEF DbType
  <1> HIDE DEF d2
  <1>3. same(d3) /\ d3.segs = d1.segs
    BY <1>1, <1>2 DEF DbType
  <1> HIDE DEF d3
  <1>4. same(d4) /\ d4.segs = d1.segs
    <2>1. Larger(d3.elapsed, seg.to) \in Nat
      BY <1>3, LargerType DEF DbType, SegType
    <2> QED BY <2>1, <1>3 DEF DbType
  <1> HIDE DEF d4
  <1>5. same(d5) /\ d5.segs = d1.segs
    BY <1>4 DEF DbType
  <1> HIDE DEF d5
  <1>6. same(d6) /\ d6.segs = d1.segs
    BY <1>5 DEF DbType
  <1>7. BeginDb(d, seg, n) = d6
    BY DEF BeginDb, d5, d4, d3, d2, d1
  <1> QED BY <1>1, <1>6, <1>7

-----------------------------------------------------------------------------
(* The inductive invariant.                                                *)

\* begin_acquisition() has been committed and the worker has not ended.
Acquiring == eng.phase \in {"starting", "run", "drain"}

\* What is on disk is a prefix of what the writing connection sees.
PrefixInv ==
  /\ Len(disk.rows) <= Len(db.rows)
  /\ \A i \in 1..Len(disk.rows) : db.rows[i] = disk.rows[i]

\* The open acquisition is the last one, on disk as well: a rollback cannot
\* take it back.
AcquisitionInv ==
  Acquiring => /\ mem.acq \in Nat \ {0}
               /\ Len(db.segs) = mem.acq
               /\ Len(disk.segs) = mem.acq

\* A confirmed final save: the worker has ended and the recording is finalized.
FinalInv ==
  eng.final => /\ eng.phase = "idle"
               /\ Len(disk.segs) # 0 /\ disk.segs[Len(disk.segs)].final

\* A tile recording whose worker has not failed has lost no counted tile: a
\* failed call ends the worker without a final save.
CountInv ==
  kind # "rak" =>
    /\ Acquiring => Len(db.rows) = eng.rows
    /\ eng.final => Len(db.rows) = eng.rows /\ Len(disk.rows) = eng.rows

\* What a reported save has verified still holds.
SavedInv ==
  eng.saved => /\ eng.final /\ Len(disk.recs) = eng.recs
               /\ kind = "rak" => Len(disk.rows) = eng.rows

StoreInv == TypeOK /\ PrefixInv /\ AcquisitionInv /\ FinalInv /\ CountInv /\ SavedInv

\* What a step may do to the rows: nothing, one row more, a commit, a rollback,
\* a new recording.
RowsStep ==
  \/ db'.rows = db.rows /\ disk'.rows = disk.rows
  \/ (\E row \in RowType : db'.rows = Append(db.rows, row)) /\ disk'.rows = disk.rows
  \/ db'.rows = db.rows /\ disk'.rows = db.rows
  \/ db'.rows = disk.rows /\ disk'.rows = disk.rows
  \/ db'.rows = <<>> /\ disk'.rows = <<>>

LEMMA RowsTypes ==
  TypeOK => /\ db.rows \in Seq(RowType) /\ disk.rows \in Seq(RowType)
            /\ Len(db.rows) \in Nat /\ Len(disk.rows) \in Nat
  BY DEF TypeOK, DbType

LEMMA RowsPrefix ==
  ASSUME TypeOK, PrefixInv, RowsStep
  PROVE  PrefixInv'
  <1>1. /\ db.rows \in Seq(RowType) /\ disk.rows \in Seq(RowType)
        /\ Len(db.rows) \in Nat /\ Len(disk.rows) \in Nat
    BY RowsTypes
  <1>2. CASE db'.rows = db.rows /\ disk'.rows = disk.rows
    BY <1>2 DEF PrefixInv
  <1>3. CASE (\E row \in RowType : db'.rows = Append(db.rows, row)) /\ disk'.rows = disk.rows
    <2>1. PICK row \in RowType : db'.rows = Append(db.rows, row)
      BY <1>3
    <2>2. /\ Len(db'.rows) = Len(db.rows) + 1
          /\ \A i \in 1..Len(db.rows) : db'.rows[i] = db.rows[i]
      BY <2>1, <1>1, AppendProperties
    <2> QED BY <2>2, <1>1, <1>3 DEF PrefixInv
  <1>4. CASE db'.rows = disk'.rows
    BY <1>1, <1>4 DEF PrefixInv
  <1> QED BY <1>2, <1>3, <1>4 DEF RowsStep

LEMMA PrefixSplit ==
  ASSUME NEW S, NEW s \in Seq(S), NEW t \in Seq(S), Len(t) <= Len(s),
         \A i \in 1..Len(t) : s[i] = t[i]
  PROVE  t \o SubSeq(s, Len(t) + 1, Len(s)) = s
  <1> DEFINE u == SubSeq(s, Len(t) + 1, Len(s))
  <1>1. Len(s) \in Nat /\ Len(t) \in Nat
    OBVIOUS
  <1>2. /\ u \in Seq(S) /\ Len(u) = Len(s) - Len(t)
        /\ \A i \in 1..Len(u) : u[i] = s[Len(t) + i]
    BY <1>1, SubSeqProperties
  <1> HIDE DEF u
  <1>3. /\ t \o u \in Seq(S) /\ Len(t \o u) = Len(t) + Len(u)
        /\ \A i \in 1..Len(t) + Len(u) :
              (t \o u)[i] = IF i <= Len(t) THEN t[i] ELSE u[i - Len(t)]
    BY <1>2, ConcatProperties
  <1>4. ASSUME NEW i \in 1..Len(s) PROVE (t \o u)[i] = s[i]
    <2>0. i \in Int /\ i \in 1..Len(t) + Len(u)
      BY <1>1, <1>2
    <2>1. CASE i <= Len(t)
      BY <2>0, <2>1, <1>1, <1>3
    <2>2. CASE ~ (i <= Len(t))
      <3>1. i - Len(t) \in 1..Len(u) /\ Len(t) + (i - Len(t)) = i
        BY <2>0, <2>2, <1>1, <1>2
      <3>2. (t \o u)[i] = u[i - Len(t)]
        BY <2>0, <2>2, <1>3
      <3> QED BY <3>1, <3>2, <1>2
    <2> QED BY <2>1, <2>2
  <1>5. Len(t \o u) = Len(s)
    BY <1>1, <1>2, <1>3
  <1> QED BY <1>3, <1>4, <1>5, SeqEqual DEF u

LEMMA SuffixAppend ==
  ASSUME NEW S, NEW s \in Seq(S), NEW x \in S, NEW n \in 0..Len(s)
  PROVE  /\ SubSeq(Append(s, x), n + 1, Len(Append(s, x))) = Append(SubSeq(s, n + 1, Len(s)), x)
         /\ x \in ToSet(SubSeq(Append(s, x), n + 1, Len(Append(s, x))))
  <1> DEFINE a == Append(s, x)
             u == SubSeq(s, n + 1, Len(s))
             v == SubSeq(a, n + 1, Len(a))
             w == Append(u, x)
  <1>1. Len(s) \in Nat
    OBVIOUS
  <1>2. /\ a \in Seq(S) /\ Len(a) = Len(s) + 1 /\ a[Len(s) + 1] = x
        /\ \A i \in 1..Len(s) : a[i] = s[i]
    BY AppendProperties
  <1>3. /\ u \in Seq(S) /\ Len(u) = Len(s) - n
        /\ \A i \in 1..Len(s) - n : u[i] = s[n + i]
    BY <1>1, SubSeqProperties
  <1> HIDE DEF a, u
  <1>4. /\ v \in Seq(S) /\ Len(v) = Len(s) + 1 - n
        /\ \A i \in 1..Len(s) + 1 - n : v[i] = a[n + i]
    BY <1>1, <1>2, SubSeqProperties
  <1>5. /\ w \in Seq(S) /\ Len(w) = Len(s) - n + 1 /\ w[Len(s) - n + 1] = x
        /\ \A i \in 1..Len(s) - n : w[i] = u[i]
    <2>1. /\ w \in Seq(S) /\ Len(w) = Len(u) + 1 /\ w[Len(u) + 1] = x
          /\ \A i \in 1..Len(u) : w[i] = u[i]
      BY <1>3, AppendProperties
    <2> QED BY <2>1, <1>3
  <1> HIDE DEF v, w
  <1>6. Len(v) = Len(w)
    BY <1>1, <1>4, <1>5
  <1>7. ASSUME NEW i \in 1..Len(v) PROVE v[i] = w[i]
    <2>1. CASE i = Len(s) - n + 1
      BY <2>1, <1>1, <1>2, <1>4, <1>5
    <2>2. CASE i \in 1..Len(s) - n
      BY <2>2, <1>1, <1>2, <1>3, <1>4, <1>5
    <2> QED BY <2>1, <2>2, <1>1, <1>4
  <1>8. v = w
    BY <1>4, <1>5, <1>6, <1>7, SeqEqual
  <1>9. x \in ToSet(v)
    <2>1. Len(v) \in DOMAIN v /\ v[Len(v)] = x
      BY <1>1, <1>4, <1>5, <1>6, <1>8
    <2> QED BY <2>1 DEF ToSet
  <1> QED BY <1>8, <1>9 DEF a, u, v, w

LEMMA SuffixOfItself ==
  ASSUME NEW S, NEW s \in Seq(S)
  PROVE  SubSeq(s, Len(s) + 1, Len(s)) = <<>>
  BY SubSeqEmpty

\* The steps of the rows are steps of the ledger.
LEMMA RowsLedger ==
  ASSUME TypeOK, TypeOK', PrefixInv, RowsStep
  PROVE  [Ledger!LedgerNext]_(Ledger!lvars)
  <1> DEFINE vol == SubSeq(db.rows, Len(disk.rows) + 1, Len(db.rows))
  <1>1. /\ db.rows \in Seq(RowType) /\ disk.rows \in Seq(RowType)
        /\ Len(db.rows) \in Nat /\ Len(disk.rows) \in Nat
    BY RowsTypes
  <1>2. CASE db'.rows = db.rows /\ disk'.rows = disk.rows
    BY <1>2 DEF Ledger!lvars
  <1>3. CASE (\E row \in RowType : db'.rows = Append(db.rows, row)) /\ disk'.rows = disk.rows
    <2>1. PICK row \in RowType : db'.rows = Append(db.rows, row)
      BY <1>3
    <2>2. Len(disk.rows) \in 0..Len(db.rows)
      BY <1>1 DEF PrefixInv
    <2> DEFINE new == SubSeq(Append(db.rows, row), Len(disk.rows) + 1, Len(Append(db.rows, row)))
    <2>3. vol' = new
      BY Zenon, <2>1, <1>3
    <2>4. new = Append(vol, row) /\ row \in ToSet(new)
      BY <2>2, <1>1, SuffixAppend
    <2>5. /\ \E m \in ToSet(vol') : vol' = Append(vol, m)
          /\ disk'.rows = disk.rows
      BY Zenon, <2>3, <2>4, <1>3
    <2>6. Ledger!Record
      BY Zenon, <2>5 DEF Ledger!Record, ToSet, Ledger!ToSet
    <2> QED BY <2>6 DEF Ledger!LedgerNext
  <1>4. CASE db'.rows = db.rows /\ disk'.rows = db.rows
    <2>1. disk.rows \o vol = db.rows
      BY <1>1, PrefixSplit DEF PrefixInv
    <2>2. vol' = <<>>
      BY <1>1, <1>4, SuffixOfItself
    <2>3. Ledger!Commit
      BY <2>1, <2>2, <1>4 DEF Ledger!Commit
    <2> QED BY <2>3 DEF Ledger!LedgerNext
  <1>5. CASE db'.rows = disk.rows /\ disk'.rows = disk.rows
    <2>1. vol' = <<>>
      BY <1>1, <1>5, SuffixOfItself
    <2>2. Ledger!Lose
      BY <2>1, <1>5 DEF Ledger!Lose
    <2> QED BY <2>2 DEF Ledger!LedgerNext
  <1>6. CASE db'.rows = <<>> /\ disk'.rows = <<>>
    <2>1. <<>> \in Seq(RowType)
      OBVIOUS
    <2>2. vol' = <<>>
      BY <2>1, <1>6, SuffixOfItself
    <2>3. Ledger!Replace
      BY <2>2, <1>6 DEF Ledger!Replace
    <2> QED BY <2>3 DEF Ledger!LedgerNext
  <1> QED BY <1>2, <1>3, <1>4, <1>5, <1>6 DEF RowsStep

-----------------------------------------------------------------------------
(* Every step keeps the invariant.                                         *)

RestInv == AcquisitionInv /\ FinalInv /\ CountInv /\ SavedInv

\* update() commits everything written so far, or gives the batch up.
LEMMA UpdateEffect ==
  ASSUME TypeOK, NEW d \in DbType, NEW m \in MemType, NEW final \in BOOLEAN,
         d.rows = db.rows, Len(d.segs) = Len(db.segs), m.acq = mem.acq,
         NEW ok \in EngType, NEW ko \in EngType, Update(d, m, final, ok, ko)
  PROVE  /\ db' \in DbType /\ disk' \in DbType /\ mem' \in MemType /\ eng' \in EngType
         /\ mem'.acq = mem.acq /\ RowsStep
         /\ \/ /\ db'.rows = db.rows /\ disk' = db' /\ eng' = ok
               /\ Len(db'.segs) = Len(db.segs)
               /\ mem.acq \in 1..Len(db.segs) => db'.segs[mem.acq].final = final
            \/ db' = disk /\ disk' = disk /\ eng' = ko
  <1>1. db \in DbType /\ disk \in DbType /\ eng.failed \in BOOLEAN
    BY DEF TypeOK, EngType
  <1>2. mem' = [m EXCEPT !.pending = FALSE]
    BY DEF Update
  <1>3. mem' \in MemType /\ mem'.acq = mem.acq
    BY <1>2 DEF MemType
  <1>4. CASE db' = UpdatedDb(d, m, final, eng.failed) /\ disk' = db' /\ eng' = ok
    <2> DEFINE u == UpdatedDb(d, m, final, eng.failed)
    <2>1. /\ u \in DbType /\ u.rows = db.rows /\ Len(u.segs) = Len(db.segs)
          /\ mem.acq \in 1..Len(db.segs) => u.segs[mem.acq].final = final
      BY <1>1, UpdatedDbType
    <2> HIDE DEF u
    <2> QED BY <1>3, <1>4, <2>1 DEF RowsStep, u
  <1>5. CASE db' = disk /\ disk' = disk /\ eng' = ko
    BY <1>1, <1>3, <1>5 DEF RowsStep
  <1> QED BY <1>4, <1>5 DEF Update

LEMMA FailedType ==
  ASSUME TypeOK
  PROVE  /\ Failed(eng) \in EngType
         /\ Failed(eng).saved = FALSE /\ Failed(eng).final = eng.final
         /\ Failed(eng).rows = eng.rows /\ Failed(eng).recs = eng.recs
         /\ Failed(eng).phase = IF kind = "rak" THEN "drain" ELSE "idle"
  BY DEF TypeOK, EngType, Failed

LEMMA TickStep ==
  ASSUME StoreInv, Tick PROVE TypeOK' /\ RowsStep /\ RestInv'
  <1>1. /\ eng' \in EngType /\ eng'.phase = eng.phase /\ eng'.saved = FALSE
        /\ eng'.final = eng.final /\ eng'.rows = eng.rows
    <2> DEFINE clock == eng.clock + 1
    <2>1. eng \in EngType
      BY DEF StoreInv, TypeOK
    <2>2. clock \in Nat
      BY <2>1 DEF EngType
    <2>3. eng' = [eng EXCEPT !.clock = clock, !.saved = FALSE]
      BY DEF Tick
    <2> HIDE DEF clock
    <2> QED BY <2>1, <2>2, <2>3 DEF EngType
  <1>2. UNCHANGED <<kind, db, disk, mem, torn>>
    BY DEF Tick
  <1> QED BY <1>1, <1>2 DEF StoreInv, TypeOK, RowsStep, RestInv, AcquisitionInv, FinalInv,
             CountInv, SavedInv, Acquiring

LEMMA BeginEffect ==
  ASSUME NEW d \in DbType, NEW m \in MemType, NEW e \in EngType, disk \in DbType,
         BeginAcquisition(d, m, e)
  PROVE  /\ db' \in DbType /\ disk' \in DbType /\ mem' \in MemType /\ eng' \in EngType
         /\ db'.rows = d.rows /\ torn' \in BOOLEAN
         /\ \/ /\ disk' = db' /\ eng'.phase = "starting" /\ eng'.final = FALSE
               /\ eng'.rows = e.rows /\ eng'.saved = e.saved
               /\ mem'.acq \in Nat \ {0} /\ Len(db'.segs) = mem'.acq
            \/ eng' = e /\ (e.phase # "new" => disk' = disk) /\ (e.phase = "new" => disk' = db')
  <1> DEFINE seg == [from |-> e.start, to |-> e.start, final |-> FALSE]
             m1  == [Batch(m) EXCEPT !.block = CloseBlock(@)]
  <1>1. seg \in SegType
    BY DEF EngType, SegType
  <1>2. m1 \in MemType
    <2>1. Batch(m) \in MemType
      BY DEF Batch, MemType
    <2>2. CloseBlock(Batch(m).block) \in BlockType
      BY <2>1 DEF MemType, BlockType, CloseBlock, NoBlock
    <2> QED BY <2>1, <2>2 DEF MemType
  <1> HIDE DEF seg, m1
  <1>3. CASE /\ db' = BeginDb(d, seg, 6) /\ disk' = db'
             /\ mem' = [m1 EXCEPT !.pending = FALSE, !.acq = Len(db'.segs)]
             /\ eng' = [e EXCEPT !.phase = "starting", !.segs = @ + 1, !.final = FALSE,
                                 !.failed = FALSE]
             /\ torn' = FALSE
    <2>1. db' \in DbType /\ db'.rows = d.rows /\ Len(db'.segs) = Len(d.segs) + 1
      <3>1. 6 \in 0..6
        OBVIOUS
      <3> QED BY <1>1, <1>3, <3>1, BeginDbType
    <2>2. Len(d.segs) \in Nat
      BY DEF DbType
    <2>3. mem' \in MemType /\ mem'.acq = Len(db'.segs)
      <3> DEFINE acq == Len(db'.segs)
      <3>1. acq \in Nat
        BY <2>1, <2>2
      <3>2. mem' = [m1 EXCEPT !.pending = FALSE, !.acq = acq]
        BY <1>3
      <3> HIDE DEF acq
      <3>3. mem' \in MemType /\ mem'.acq = acq
        BY <1>2, <3>1, <3>2 DEF MemType
      <3> QED BY <3>3 DEF acq
    <2>4. /\ eng' \in EngType /\ eng'.phase = "starting" /\ eng'.final = FALSE
          /\ eng'.rows = e.rows /\ eng'.saved = e.saved
      <3> DEFINE segs == e.segs + 1
      <3>1. segs \in Nat
        BY DEF EngType
      <3>2. eng' = [e EXCEPT !.phase = "starting", !.segs = segs, !.final = FALSE,
                             !.failed = FALSE]
        BY <1>3
      <3> HIDE DEF segs
      <3> QED BY <3>1, <3>2 DEF EngType
    <2>5. torn' \in BOOLEAN
      BY <1>3
    <2> QED BY <1>3, <2>1, <2>2, <2>3, <2>4, <2>5
  <1>4. CASE \E n \in 0..6 :
               /\ db' = BeginDb(d, seg, n)
               /\ disk' = IF e.phase = "new" THEN db' ELSE disk
               /\ mem' = IF e.phase = "new" THEN FreshMem
                         ELSE IF n >= 3 THEN [m1 EXCEPT !.acq = Len(db'.segs)] ELSE m1
               /\ eng' = e /\ torn' = (e.phase = "new")
    <2>1. PICK n \in 0..6 :
               /\ db' = BeginDb(d, seg, n)
               /\ disk' = IF e.phase = "new" THEN db' ELSE disk
               /\ mem' = IF e.phase = "new" THEN FreshMem
                         ELSE IF n >= 3 THEN [m1 EXCEPT !.acq = Len(db'.segs)] ELSE m1
               /\ eng' = e /\ torn' = (e.phase = "new")
      BY <1>4
    <2>2. db' \in DbType /\ db'.rows = d.rows
      BY <1>1, <2>1, BeginDbType
    <2>3. Len(db'.segs) \in Nat
      BY <2>2 DEF DbType
    <2>4. [m1 EXCEPT !.acq = Len(db'.segs)] \in MemType
      BY <2>3, <1>2 DEF MemType
    <2>5. mem' \in MemType
      BY <2>1, <2>4, <1>2, FreshTypes
    <2> QED BY <2>1, <2>2, <2>5
  <1> QED BY <1>3, <1>4 DEF BeginAcquisition, seg, m1

LEMMA StartNewStep ==
  ASSUME StoreInv, StartNew PROVE TypeOK' /\ RowsStep /\ RestInv'
  <1>1. disk \in DbType /\ kind' = kind /\ kind \in Kinds
    BY DEF StoreInv, TypeOK, StartNew
  <1>2. IdleEngine.phase = "new" /\ IdleEngine.rows = 0 /\ IdleEngine.saved = FALSE /\ IdleEngine.final = FALSE
        /\ FreshDb.rows = <<>>
    BY DEF IdleEngine, FreshDb
  <1>3. BeginAcquisition(FreshDb, FreshMem, IdleEngine)
    BY DEF StartNew
  <1> DEFINE begun ==
        /\ disk' = db' /\ eng'.phase = "starting" /\ eng'.final = FALSE
        /\ eng'.rows = 0 /\ eng'.saved = FALSE
        /\ mem'.acq \in Nat \ {0} /\ Len(db'.segs) = mem'.acq
  <1>4. /\ db' \in DbType /\ disk' \in DbType /\ mem' \in MemType /\ eng' \in EngType
        /\ db'.rows = <<>> /\ disk' = db' /\ torn' \in BOOLEAN
        /\ begun \/ eng' = IdleEngine
    <2> DEFINE fd == FreshDb
               fm == FreshMem
               fe == IdleEngine
    <2>1. fd \in DbType /\ fm \in MemType /\ fe \in EngType
      BY FreshTypes
    <2> HIDE DEF fd, fm, fe
    <2>2. BeginAcquisition(fd, fm, fe)
      BY <1>3 DEF fd, fm, fe
    <2>3. fe.phase = "new" /\ fe.rows = 0 /\ fe.saved = FALSE /\ fd.rows = <<>>
      BY <1>2 DEF fe, fd
    <2>4. /\ db' \in DbType /\ disk' \in DbType /\ mem' \in MemType /\ eng' \in EngType
          /\ db'.rows = fd.rows /\ torn' \in BOOLEAN
          /\ \/ /\ disk' = db' /\ eng'.phase = "starting" /\ eng'.final = FALSE
                /\ eng'.rows = fe.rows /\ eng'.saved = fe.saved
                /\ mem'.acq \in Nat \ {0} /\ Len(db'.segs) = mem'.acq
             \/ eng' = fe /\ (fe.phase # "new" => disk' = disk) /\ (fe.phase = "new" => disk' = db')
      BY <1>1, <2>1, <2>2, BeginEffect
    <2> QED BY <2>3, <2>4 DEF fe
  <1>5. TypeOK' /\ RowsStep
    BY <1>1, <1>4 DEF TypeOK, RowsStep
  <1>6. ASSUME begun PROVE RestInv'
    BY <1>1, <1>4, <1>6 DEF RestInv, AcquisitionInv, FinalInv, CountInv, SavedInv, Acquiring
  <1>7. ASSUME eng' = IdleEngine PROVE RestInv'
    BY <1>2, <1>7 DEF RestInv, AcquisitionInv, FinalInv, CountInv, SavedInv, Acquiring
  <1> QED BY <1>4, <1>5, <1>6, <1>7

LEMMA ResumeStep ==
  ASSUME StoreInv, Resume PROVE TypeOK' /\ RowsStep /\ RestInv'
  <1> DEFINE start == RunStart(TRUE)
             gap   == kind # "rak" /\ start > db.segs[Len(db.segs)].to
             m     == IF gap THEN [Batch(mem) EXCEPT !.block = CloseBlock(@)] ELSE mem
             e     == [eng EXCEPT !.start = start, !.saved = FALSE]
  <1>1. /\ db \in DbType /\ disk \in DbType /\ mem \in MemType /\ eng \in EngType
        /\ kind' = kind /\ kind \in Kinds /\ eng.final /\ eng.phase = "idle"
    BY DEF StoreInv, TypeOK, Resume, Verified
  <1>2. start \in Nat
    <2>1. Elapsed \in Nat /\ eng.clock \in Nat
      BY <1>1, ElapsedType DEF EngType, StoreInv
    <2> QED BY <2>1, LargerType DEF RunStart
  <1> HIDE DEF start
  <1>3. m \in MemType
    <2>1. Batch(mem) \in MemType
      BY <1>1 DEF Batch, MemType
    <2>2. CloseBlock(Batch(mem).block) \in BlockType
      BY <2>1 DEF MemType, BlockType, CloseBlock, NoBlock
    <2>3. [Batch(mem) EXCEPT !.block = CloseBlock(@)] \in MemType
      BY <2>1, <2>2 DEF MemType
    <2> QED BY <2>3, <1>1
  <1>4. e \in EngType /\ e.saved = FALSE /\ e.rows = eng.rows /\ e.final = eng.final
        /\ e.phase = "idle"
    BY <1>1, <1>2 DEF EngType
  <1>5. BeginAcquisition(db, m, e)
    BY DEF Resume, start
  <1> HIDE DEF m, e
  <1> DEFINE begun ==
        /\ disk' = db' /\ eng'.phase = "starting" /\ eng'.final = FALSE
        /\ eng'.rows = eng.rows /\ eng'.saved = FALSE
        /\ mem'.acq \in Nat \ {0} /\ Len(db'.segs) = mem'.acq
  <1>6. /\ db' \in DbType /\ disk' \in DbType /\ mem' \in MemType /\ eng' \in EngType
        /\ db'.rows = db.rows /\ torn' \in BOOLEAN
        /\ begun \/ (eng' = e /\ disk' = disk)
    BY <1>1, <1>3, <1>4, <1>5, BeginEffect
  <1>7. TypeOK' /\ RowsStep
    BY <1>1, <1>6 DEF TypeOK, RowsStep
  <1>8. ASSUME begun PROVE RestInv'
    BY <1>1, <1>6, <1>8 DEF RestInv, AcquisitionInv, FinalInv, CountInv, SavedInv, Acquiring,
       StoreInv
  <1>9. ASSUME eng' = e, disk' = disk PROVE RestInv'
    BY <1>1, <1>4, <1>6, <1>9 DEF RestInv, AcquisitionInv, FinalInv, CountInv, SavedInv,
       Acquiring, StoreInv
  <1> QED BY <1>6, <1>7, <1>8, <1>9

\* What the invariant needs to know of the engine and the store object.
LEMMA StateTypes ==
  StoreInv => /\ kind \in Kinds /\ db \in DbType /\ disk \in DbType /\ mem \in MemType
              /\ eng \in EngType /\ torn \in BOOLEAN /\ TypeOK
  BY DEF StoreInv, TypeOK

LEMMA WorkerStartsStep ==
  ASSUME StoreInv, WorkerStarts PROVE TypeOK' /\ RowsStep /\ RestInv'
  <1>1. /\ db \in DbType /\ disk \in DbType /\ mem \in MemType /\ eng \in EngType /\ TypeOK
        /\ torn \in BOOLEAN
        /\ kind' = kind /\ torn' = torn /\ kind \in Kinds /\ eng.phase = "starting"
    BY StateTypes DEF WorkerStarts
  <1>2. /\ mem.acq \in Nat \ {0} /\ Len(db.segs) = mem.acq /\ Len(disk.segs) = mem.acq
        /\ ~eng.final /\ ~eng.saved
        /\ kind # "rak" => Len(db.rows) = eng.rows
    BY <1>1 DEF StoreInv, AcquisitionInv, FinalInv, SavedInv, CountInv, Acquiring
  <1>3. CASE eng' = [eng EXCEPT !.phase = "run"] /\ UNCHANGED <<db, disk, mem>>
    <2>1. /\ eng' \in EngType /\ eng'.phase = "run" /\ eng'.final = eng.final
          /\ eng'.saved = eng.saved /\ eng'.rows = eng.rows
      BY <1>1, <1>3 DEF EngType
    <2>2. RestInv'
      BY <1>1, <1>2, <1>3, <2>1 DEF RestInv, AcquisitionInv, FinalInv, SavedInv, CountInv,
         Acquiring
    <2> QED BY <1>1, <1>3, <2>1, <2>2 DEF TypeOK, RowsStep
  <1>4. CASE Update(db, mem, TRUE,
               [[eng EXCEPT !.phase = "idle", !.failed = TRUE] EXCEPT !.final = TRUE],
               [eng EXCEPT !.phase = "idle", !.failed = TRUE])
    <2> DEFINE ko == [eng EXCEPT !.phase = "idle", !.failed = TRUE]
               ok == [ko EXCEPT !.final = TRUE]
    <2>1. /\ ko \in EngType /\ ko.phase = "idle" /\ ko.final = eng.final
          /\ ko.saved = eng.saved /\ ko.rows = eng.rows
      BY <1>1 DEF EngType
    <2> HIDE DEF ko
    <2>2. /\ ok \in EngType /\ ok.phase = "idle" /\ ok.saved = ko.saved /\ ok.rows = ko.rows
      BY <2>1 DEF EngType
    <2> HIDE DEF ok
    <2>3. Update(db, mem, TRUE, ok, ko)
      BY <1>4 DEF ok, ko
    <2>4. /\ db' \in DbType /\ disk' \in DbType /\ mem' \in MemType /\ eng' \in EngType
          /\ mem'.acq = mem.acq /\ RowsStep
          /\ \/ /\ db'.rows = db.rows /\ disk' = db' /\ eng' = ok
                /\ Len(db'.segs) = Len(db.segs)
                /\ mem.acq \in 1..Len(db.segs) => db'.segs[mem.acq].final = TRUE
             \/ db' = disk /\ disk' = disk /\ eng' = ko
      BY <1>1, <2>1, <2>2, <2>3, UpdateEffect
    <2>5. RestInv'
      BY <1>1, <1>2, <2>1, <2>2, <2>4 DEF RestInv, AcquisitionInv, FinalInv, SavedInv,
         CountInv, Acquiring
    <2> QED BY <1>1, <2>4, <2>5 DEF TypeOK
  <1> QED BY <1>3, <1>4 DEF WorkerStarts

LEMMA CheckpointStep ==
  ASSUME StoreInv, Checkpoint PROVE TypeOK' /\ RowsStep /\ RestInv'
  <1>1. /\ db \in DbType /\ disk \in DbType /\ mem \in MemType /\ eng \in EngType /\ TypeOK
        /\ torn \in BOOLEAN
        /\ kind' = kind /\ torn' = torn /\ kind \in Kinds /\ eng.phase = "run"
    BY StateTypes DEF Checkpoint
  <1>2. /\ mem.acq \in Nat \ {0} /\ Len(db.segs) = mem.acq /\ Len(disk.segs) = mem.acq
        /\ ~eng.final /\ ~eng.saved
        /\ kind # "rak" => Len(db.rows) = eng.rows
    BY <1>1 DEF StoreInv, AcquisitionInv, FinalInv, SavedInv, CountInv, Acquiring
  <1>3. PICK f \in NearFixes :
          LET r == IF kind = "detailed" THEN [db |-> db, mem |-> mem, id |-> 0]
                   ELSE EnsureFix(db, mem, f)
          IN  Update(r.db, r.mem, FALSE, eng, Failed(eng))
    BY DEF Checkpoint
  <1> DEFINE r == IF kind = "detailed" THEN [db |-> db, mem |-> mem, id |-> 0]
                  ELSE EnsureFix(db, mem, f)
  <1>4. /\ r.db \in DbType /\ r.mem \in MemType /\ r.db.rows = db.rows
        /\ r.db.segs = db.segs /\ r.mem.acq = mem.acq
    <2>1. CASE kind = "detailed"
      BY <1>1, <2>1
    <2>2. CASE kind # "detailed"
      <3>1. f \in Fixes
        BY <1>3, <2>2 DEF NearFixes
      <3> QED BY <1>1, <2>2, <3>1, EnsureFixType
    <2> QED BY <2>1, <2>2
  <1>5. Update(r.db, r.mem, FALSE, eng, Failed(eng))
    BY <1>3
  <1> HIDE DEF r
  <1>6. /\ Failed(eng) \in EngType
        /\ Failed(eng).saved = FALSE /\ Failed(eng).final = eng.final
        /\ Failed(eng).rows = eng.rows
        /\ Failed(eng).phase = IF kind = "rak" THEN "drain" ELSE "idle"
    BY <1>1, FailedType
  <1>7. /\ db' \in DbType /\ disk' \in DbType /\ mem' \in MemType /\ eng' \in EngType
        /\ mem'.acq = mem.acq /\ RowsStep
        /\ \/ /\ db'.rows = db.rows /\ disk' = db' /\ eng' = eng
              /\ Len(db'.segs) = Len(db.segs)
           \/ db' = disk /\ disk' = disk /\ eng' = Failed(eng)
    BY <1>1, <1>4, <1>5, <1>6, UpdateEffect
  <1>8. RestInv'
    BY <1>1, <1>2, <1>6, <1>7 DEF RestInv, AcquisitionInv, FinalInv, SavedInv, CountInv,
       Acquiring
  <1> QED BY <1>1, <1>7, <1>8 DEF TypeOK

LEMMA FinalSaveStep ==
  ASSUME StoreInv, FinalSave PROVE TypeOK' /\ RowsStep /\ RestInv'
  <1>1. /\ db \in DbType /\ disk \in DbType /\ mem \in MemType /\ eng \in EngType /\ TypeOK
        /\ torn \in BOOLEAN
        /\ kind' = kind /\ torn' = torn /\ kind \in Kinds /\ eng.phase = "drain"
    BY StateTypes DEF FinalSave
  <1>2. /\ mem.acq \in Nat \ {0} /\ Len(db.segs) = mem.acq /\ Len(disk.segs) = mem.acq
        /\ ~eng.final /\ ~eng.saved
        /\ kind # "rak" => Len(db.rows) = eng.rows
    BY <1>1 DEF StoreInv, AcquisitionInv, FinalInv, SavedInv, CountInv, Acquiring
  <1> DEFINE e  == [eng EXCEPT !.phase = "idle"]
             ok == [e EXCEPT !.final = TRUE]
             ko == [e EXCEPT !.failed = TRUE, !.final = FALSE]
  <1>3. e \in EngType /\ e.phase = "idle" /\ e.saved = eng.saved /\ e.rows = eng.rows
    BY <1>1 DEF EngType
  <1> HIDE DEF e
  <1>4. /\ ok \in EngType /\ ok.phase = "idle" /\ ok.saved = eng.saved /\ ok.rows = eng.rows
        /\ ko \in EngType /\ ko.phase = "idle" /\ ko.saved = eng.saved /\ ~ko.final
    BY <1>3 DEF EngType
  <1> HIDE DEF ok, ko
  <1>5. Update(db, mem, TRUE, ok, ko)
    BY DEF FinalSave, e, ok, ko
  <1>6. /\ db' \in DbType /\ disk' \in DbType /\ mem' \in MemType /\ eng' \in EngType
        /\ mem'.acq = mem.acq /\ RowsStep
        /\ \/ /\ db'.rows = db.rows /\ disk' = db' /\ eng' = ok
              /\ Len(db'.segs) = Len(db.segs)
              /\ mem.acq \in 1..Len(db.segs) => db'.segs[mem.acq].final = TRUE
           \/ db' = disk /\ disk' = disk /\ eng' = ko
    BY <1>1, <1>4, <1>5, UpdateEffect
  <1>7. RestInv'
    BY <1>1, <1>2, <1>4, <1>6 DEF RestInv, AcquisitionInv, FinalInv, SavedInv, CountInv,
       Acquiring
  <1> QED BY <1>1, <1>6, <1>7 DEF TypeOK

LEMMA StopRunStep ==
  ASSUME StoreInv, StopRun PROVE TypeOK' /\ RowsStep /\ RestInv'
  <1>1. /\ eng' \in EngType /\ eng.phase = "run" /\ eng'.phase = "drain"
        /\ eng'.final = eng.final /\ eng'.saved = eng.saved /\ eng'.rows = eng.rows
    BY StateTypes DEF StopRun, EngType
  <1>2. UNCHANGED <<kind, db, disk, mem, torn>>
    BY DEF StopRun
  <1> QED BY <1>1, <1>2 DEF StoreInv, TypeOK, RowsStep, RestInv, AcquisitionInv, FinalInv,
             CountInv, SavedInv, Acquiring

LEMMA SaveStep ==
  ASSUME StoreInv, Save PROVE TypeOK' /\ RowsStep /\ RestInv'
  <1> DEFINE v == Verified
  <1>0. v \in BOOLEAN
    BY DEF Verified
  <1>1. eng' = [eng EXCEPT !.saved = v] /\ UNCHANGED <<kind, db, disk, mem, torn>>
    BY DEF Save
  <1>2. v => /\ eng.final /\ Len(disk.recs) = eng.recs
             /\ kind = "rak" => Len(disk.rows) = eng.rows
    BY DEF Verified
  <1> HIDE DEF v
  <1>3. /\ eng' \in EngType /\ eng'.phase = eng.phase /\ eng'.recs = eng.recs
        /\ eng'.final = eng.final /\ eng'.saved = v /\ eng'.rows = eng.rows
    BY <1>0, <1>1, StateTypes DEF EngType
  <1> QED BY <1>1, <1>2, <1>3 DEF StoreInv, TypeOK, RowsStep, RestInv, AcquisitionInv,
             FinalInv, CountInv, SavedInv, Acquiring

\* A finished store or a crash: nothing is being acquired or reported.
LEMMA IdleRest == eng' = IdleEngine => RestInv'
  <1>1. IdleEngine.phase = "new" /\ IdleEngine.saved = FALSE /\ IdleEngine.final = FALSE
    BY DEF IdleEngine
  <1> QED BY <1>1 DEF RestInv, AcquisitionInv, FinalInv, CountInv, SavedInv, Acquiring

LEMMA CloseSessionStep ==
  ASSUME StoreInv, CloseSession PROVE TypeOK' /\ RowsStep /\ RestInv'
  <1>1. disk' \in {db, disk} /\ db' = disk'
    BY DEF CloseSession, DestructorCommit
  <1>2. mem' = FreshMem /\ eng' = IdleEngine /\ kind' = kind /\ torn' \in BOOLEAN
    BY StateTypes DEF CloseSession, MemType
  <1>3. TypeOK'
    BY <1>1, <1>2, FreshTypes, StateTypes DEF TypeOK
  <1> QED BY <1>1, <1>2, <1>3, IdleRest DEF RowsStep

LEMMA CrashStep ==
  ASSUME StoreInv, Crash PROVE TypeOK' /\ RowsStep /\ RestInv'
  <1>1. /\ db' = disk /\ disk' = disk
        /\ mem' = FreshMem /\ eng' = IdleEngine /\ kind' = kind /\ torn' = FALSE
    BY DEF Crash
  <1>2. TypeOK'
    BY <1>1, FreshTypes, StateTypes DEF TypeOK
  <1> QED BY <1>1, <1>2, IdleRest DEF RowsStep

\* A throwing append: the batch stays open, or SQLite gave it up; the engine
\* counts nothing and its worker has failed.
LEMMA AppendFails ==
  ASSUME StoreInv, eng.phase \in {"run", "drain"}, kind' = kind, disk' = disk, torn' = torn,
         db' \in DbType, mem' \in MemType, mem'.acq = mem.acq, eng' = Failed(eng),
         \/ db'.rows = db.rows /\ db'.segs = db.segs
         \/ db' = disk /\ kind # "rak"
  PROVE  TypeOK' /\ RowsStep /\ RestInv'
  <1>1. /\ mem.acq \in Nat \ {0} /\ Len(db.segs) = mem.acq /\ Len(disk.segs) = mem.acq
        /\ ~eng.final
    BY DEF StoreInv, AcquisitionInv, FinalInv, Acquiring
  <1>2. /\ eng' \in EngType /\ eng'.saved = FALSE /\ eng'.final = eng.final
        /\ eng'.phase = IF kind = "rak" THEN "drain" ELSE "idle"
    BY FailedType, StateTypes
  <1>3. TypeOK'
    BY <1>2, StateTypes DEF TypeOK
  <1>4. RowsStep
    BY DEF RowsStep
  <1>5. RestInv'
    BY <1>1, <1>2 DEF RestInv, AcquisitionInv, FinalInv, SavedInv, CountInv, Acquiring
  <1> QED BY <1>3, <1>4, <1>5

\* A row appended and counted.
LEMMA AppendSucceeds ==
  ASSUME StoreInv, eng.phase \in {"run", "drain"}, kind' = kind, disk' = disk, torn' = torn,
         db' \in DbType, mem' \in MemType, mem'.acq = mem.acq, eng' \in EngType,
         NEW row \in RowType, db'.rows = Append(db.rows, row), db'.segs = db.segs,
         eng'.phase = eng.phase, eng'.final = eng.final, eng'.saved = eng.saved,
         eng'.rows = eng.rows + 1
  PROVE  TypeOK' /\ RowsStep /\ RestInv'
  <1>1. /\ mem.acq \in Nat \ {0} /\ Len(db.segs) = mem.acq /\ Len(disk.segs) = mem.acq
        /\ ~eng.final /\ ~eng.saved
        /\ kind # "rak" => Len(db.rows) = eng.rows
    BY DEF StoreInv, AcquisitionInv, FinalInv, SavedInv, CountInv, Acquiring
  <1>2. Len(db'.rows) = Len(db.rows) + 1
    BY RowsTypes, StateTypes, AppendProperties
  <1>3. TypeOK'
    BY StateTypes DEF TypeOK
  <1>4. RowsStep
    BY DEF RowsStep
  <1>5. RestInv'
    BY <1>1, <1>2 DEF RestInv, AcquisitionInv, FinalInv, SavedInv, CountInv, Acquiring
  <1> QED BY <1>3, <1>4, <1>5

LEMMA NextBlockType ==
  ASSUME NEW b \in BlockType, NEW from \in Nat, NEW to \in Nat
  PROVE  NextBlock(b, from, to) \in BlockType
  <1> DEFINE n == b.id + 1
  <1>1. n \in Nat
    BY DEF BlockType
  <1>2. NextBlock(b, from, to) \in {[b EXCEPT !.to = to], [id |-> n, from |-> from, to |-> to]}
    BY DEF NextBlock
  <1> HIDE DEF n
  <1>3. [b EXCEPT !.to = to] \in BlockType /\ [id |-> n, from |-> from, to |-> to] \in BlockType
    BY <1>1 DEF BlockType
  <1> QED BY <1>2, <1>3

LEMMA PutBlockType ==
  ASSUME NEW power \in PowerType, NEW b \in BlockType
  PROVE  PutBlock(power, b) \in PowerType
  <1>1. PICK S \in SUBSET Nat : power \in [S -> SpanType]
    BY DEF PowerType
  <1> DEFINE span == [from |-> b.from, to |-> b.to]
  <1>2. b.id \in Nat /\ span \in SpanType
    BY DEF BlockType, SpanType
  <1> HIDE DEF span
  <1>3. PutBlock(power, b) = [i \in S \cup {b.id} |-> IF i = b.id THEN span ELSE power[i]]
    BY <1>1 DEF PutBlock, span
  <1>4. PutBlock(power, b) \in [S \cup {b.id} -> SpanType]
    BY <1>1, <1>2, <1>3
  <1>5. S \cup {b.id} \in SUBSET Nat
    BY <1>2
  <1> QED BY <1>4, <1>5 DEF PowerType

\* The store object after the row: a batch is open, the power block moves on.
LEMMA BatchType ==
  ASSUME NEW m \in MemType, NEW b \in BlockType, NEW to \in Nat
  PROVE  /\ Batch(m) \in MemType /\ Batch(m).acq = m.acq /\ Batch(m).block = m.block
         /\ [Batch(m) EXCEPT !.block = b] \in MemType
         /\ [Batch(m) EXCEPT !.block = b].acq = m.acq
         /\ [Batch(m) EXCEPT !.prevEnd = to, !.block = b] \in MemType
         /\ [Batch(m) EXCEPT !.prevEnd = to, !.block = b].acq = m.acq
  <1>1. Batch(m) \in MemType /\ Batch(m).acq = m.acq /\ Batch(m).block = m.block
    BY DEF Batch, MemType
  <1> DEFINE n == Batch(m)
  <1> HIDE DEF n
  <1>2. n \in MemType /\ n.acq = m.acq
    BY <1>1 DEF n
  <1>3. /\ [n EXCEPT !.block = b] \in MemType
        /\ [n EXCEPT !.block = b].acq = m.acq
        /\ [n EXCEPT !.prevEnd = to, !.block = b] \in MemType
        /\ [n EXCEPT !.prevEnd = to, !.block = b].acq = m.acq
    BY <1>2 DEF MemType
  <1> QED BY <1>1, <1>3 DEF n

LEMMA AppendTileStep ==
  ASSUME StoreInv, AppendTile PROVE TypeOK' /\ RowsStep /\ RestInv'
  <1>1. /\ db \in DbType /\ disk \in DbType /\ mem \in MemType /\ eng \in EngType
        /\ kind' = kind /\ disk' = disk /\ torn' = torn /\ kind # "rak" /\ eng.phase \in {"run", "drain"}
    BY StateTypes DEF AppendTile, Working
  <1>2. PICK f \in NearFixes, from \in Larger(mem.prevEnd, eng.start)..eng.clock :
       LET to  == from + 1
           r   == IF kind = "compact" THEN EnsureFix(db, mem, f)
                  ELSE [db |-> db, mem |-> mem, id |-> 0]
           b   == NextBlock(mem.block, from, to)
           row == [from |-> from, to |-> to, board |-> 0, fix |-> r.id,
                   power |-> IF kind = "compact" THEN b.id ELSE 0]
           d   == IF kind = "compact" THEN [r.db EXCEPT !.power = PutBlock(@, b)] ELSE r.db
       IN  \/ /\ row.fix \in 0..Len(d.pos)
              /\ db' = [d EXCEPT !.rows = Append(@, row)]
              /\ mem' = [Batch(r.mem) EXCEPT !.prevEnd = to,
                           !.block = IF kind = "compact" THEN b ELSE @]
              /\ eng' = [eng EXCEPT !.meas = Larger(@, to), !.rows = @ + 1]
           \/ /\ Happens("append") \/ row.fix \notin 0..Len(d.pos)
              /\ db' \in {db, d, disk}
              /\ mem' = [Batch(r.mem) EXCEPT !.block = IF kind = "compact" THEN b ELSE @]
              /\ eng' = Failed(eng)
    BY Zenon DEF AppendTile
  <1> DEFINE to  == from + 1
             r   == IF kind = "compact" THEN EnsureFix(db, mem, f)
                    ELSE [db |-> db, mem |-> mem, id |-> 0]
             b   == NextBlock(mem.block, from, to)
             pid == IF kind = "compact" THEN b.id ELSE 0
             row == [from |-> from, to |-> to, board |-> 0, fix |-> r.id, power |-> pid]
             d   == IF kind = "compact" THEN [r.db EXCEPT !.power = PutBlock(@, b)] ELSE r.db
             blk == IF kind = "compact" THEN b ELSE Batch(r.mem).block
             meas == Larger(eng.meas, to)
             rows == eng.rows + 1
             more == Append(d.rows, row)
  <1>3. from \in Nat /\ to \in Nat /\ meas \in Nat /\ rows \in Nat
    <2>1. mem.prevEnd \in Nat /\ eng.start \in Nat /\ eng.clock \in Nat /\ eng.meas \in Nat
          /\ eng.rows \in Nat
      BY <1>1 DEF MemType, EngType
    <2>2. Larger(mem.prevEnd, eng.start) \in Nat
      BY <2>1, LargerType
    <2>3. from \in Nat /\ to \in Nat
      BY <1>2, <2>1, <2>2
    <2>4. rows \in Nat
      BY <2>1
    <2>5. meas \in Nat
      BY <2>1, <2>3, LargerType
    <2> QED BY <2>3, <2>4, <2>5
  <1>4. \/ /\ db' = [d EXCEPT !.rows = more]
           /\ mem' = [Batch(r.mem) EXCEPT !.prevEnd = to, !.block = blk]
           /\ eng' = [eng EXCEPT !.meas = meas, !.rows = rows]
        \/ /\ db' \in {db, d, disk}
           /\ mem' = [Batch(r.mem) EXCEPT !.block = blk]
           /\ eng' = Failed(eng)
    BY Zenon, <1>2
  <1> HIDE DEF to, meas, rows
  <1>5. b \in BlockType
    BY <1>1, <1>3, NextBlockType DEF MemType
  <1> HIDE DEF b
  <1>6. /\ r.db \in DbType /\ r.mem \in MemType /\ r.id \in Nat
        /\ r.db.rows = db.rows /\ r.db.segs = db.segs /\ r.mem.acq = mem.acq
    <2>1. CASE kind = "compact"
      <3>1. f \in Fixes
        BY <1>2, <2>1 DEF NearFixes
      <3> QED BY <1>1, <2>1, <3>1, EnsureFixType
    <2>2. CASE kind # "compact"
      BY <1>1, <2>2
    <2> QED BY <2>1, <2>2
  <1> HIDE DEF r
  <1>7. row \in RowType
    <2>1. pid \in Nat
      BY <1>5 DEF BlockType
    <2> HIDE DEF pid
    <2> QED BY <2>1, <1>3, <1>6 DEF RowType
  <1> HIDE DEF row
  <1>8. d \in DbType /\ d.rows = db.rows /\ d.segs = db.segs
    <2> DEFINE power == PutBlock(r.db.power, b)
    <2>1. power \in PowerType
      BY <1>5, <1>6, PutBlockType DEF DbType
    <2>2. d = IF kind = "compact" THEN [r.db EXCEPT !.power = power] ELSE r.db
      OBVIOUS
    <2> HIDE DEF power, d
    <2> QED BY <2>1, <2>2, <1>6 DEF DbType
  <1> HIDE DEF d
  <1>9. blk \in BlockType
    <2>1. Batch(r.mem).block = r.mem.block
      BY <1>5, <1>6, <1>3, BatchType
    <2> QED BY <2>1, <1>5, <1>6 DEF MemType
  <1> HIDE DEF blk
  <1>10. CASE /\ db' = [d EXCEPT !.rows = more]
              /\ mem' = [Batch(r.mem) EXCEPT !.prevEnd = to, !.block = blk]
              /\ eng' = [eng EXCEPT !.meas = meas, !.rows = rows]
    <2>1. mem' \in MemType /\ mem'.acq = mem.acq
      BY <1>3, <1>6, <1>9, <1>10, BatchType
    <2>2. /\ eng' \in EngType /\ eng'.phase = eng.phase /\ eng'.final = eng.final
          /\ eng'.saved = eng.saved /\ eng'.rows = rows
      BY <1>1, <1>3, <1>10 DEF EngType
    <2>3. more \in Seq(RowType)
      BY <1>7, <1>8 DEF DbType
    <2> HIDE DEF more
    <2>4. db' \in DbType /\ db'.rows = more /\ db'.segs = db.segs
      BY <2>3, <1>8, <1>10 DEF DbType
    <2>5. more = Append(db.rows, row)
      BY <1>8 DEF more
    <2> QED BY <1>1, <1>7, <2>1, <2>2, <2>4, <2>5, AppendSucceeds DEF rows
  <1>11. CASE /\ db' \in {db, d, disk}
              /\ mem' = [Batch(r.mem) EXCEPT !.block = blk]
              /\ eng' = Failed(eng)
    <2>1. mem' \in MemType /\ mem'.acq = mem.acq
      BY <1>3, <1>6, <1>9, <1>11, BatchType
    <2>2. db' \in DbType /\ ((db'.rows = db.rows /\ db'.segs = db.segs) \/ db' = disk)
      BY <1>1, <1>8, <1>11
    <2> QED BY <1>1, <1>11, <2>1, <2>2, AppendFails
  <1> QED BY <1>4, <1>10, <1>11

LEMMA AppendScanStep ==
  ASSUME StoreInv, AppendScan PROVE TypeOK' /\ RowsStep /\ RestInv'
  <1>1. /\ db \in DbType /\ disk \in DbType /\ mem \in MemType /\ eng \in EngType
        /\ kind' = kind /\ disk' = disk /\ torn' = torn /\ eng.phase \in {"run", "drain"}
    BY StateTypes DEF AppendScan, Working
  <1>2. PICK f \in Fixes, i \in {1, 2}, to \in 1..eng.clock :
       LET r    == EnsureFix(db, mem, f)
           from == to - 1
           row  == [from |-> from, to |-> to, board |-> i, fix |-> r.id, power |-> 0]
       IN  /\ from >= Larger(LastOfBoard(db, i), eng.start)
           /\ \/ /\ r.id \in 1..Len(r.db.pos)
                 /\ db' = [r.db EXCEPT !.rows = Append(@, row)]
                 /\ mem' = Batch(r.mem)
                 /\ eng' = [eng EXCEPT !.rows = @ + 1]
              \/ /\ Happens("append") \/ r.id \notin 1..Len(r.db.pos)
                 /\ db' = r.db
                 /\ mem' = Batch(r.mem)
                 /\ eng' = Failed(eng)
    BY Zenon DEF AppendScan
  <1> DEFINE r    == EnsureFix(db, mem, f)
             from == to - 1
             row  == [from |-> from, to |-> to, board |-> i, fix |-> r.id, power |-> 0]
             rows == eng.rows + 1
             more == Append(r.db.rows, row)
  <1>3. from \in Nat /\ to \in Nat /\ rows \in Nat /\ i \in Nat
    BY <1>1 DEF EngType
  <1>4. /\ mem' = Batch(r.mem)
        /\ \/ db' = [r.db EXCEPT !.rows = more] /\ eng' = [eng EXCEPT !.rows = rows]
           \/ db' = r.db /\ eng' = Failed(eng)
    BY Zenon, <1>2
  <1> HIDE DEF from, rows
  <1>5. /\ r.db \in DbType /\ r.mem \in MemType /\ r.id \in Nat
        /\ r.db.rows = db.rows /\ r.db.segs = db.segs /\ r.mem.acq = mem.acq
    BY <1>1, EnsureFixType
  <1> HIDE DEF r
  <1>6. row \in RowType
    BY <1>3, <1>5 DEF RowType
  <1> HIDE DEF row
  <1>7. mem' \in MemType /\ mem'.acq = mem.acq
    BY <1>4, <1>5 DEF Batch, MemType
  <1>8. CASE db' = [r.db EXCEPT !.rows = more] /\ eng' = [eng EXCEPT !.rows = rows]
    <2>2. /\ eng' \in EngType /\ eng'.phase = eng.phase /\ eng'.final = eng.final
          /\ eng'.saved = eng.saved /\ eng'.rows = rows
      BY <1>1, <1>3, <1>8 DEF EngType
    <2>3. more \in Seq(RowType)
      BY <1>5, <1>6 DEF DbType
    <2> HIDE DEF more
    <2>4. db' \in DbType /\ db'.rows = more /\ db'.segs = db.segs
      BY <2>3, <1>5, <1>8 DEF DbType
    <2>5. more = Append(db.rows, row)
      BY <1>5 DEF more
    <2> QED BY <1>1, <1>6, <1>7, <2>2, <2>4, <2>5, AppendSucceeds DEF rows
  <1>9. CASE db' = r.db /\ eng' = Failed(eng)
    BY <1>1, <1>5, <1>7, <1>9, AppendFails
  <1> QED BY <1>4, <1>8, <1>9

\* A reception added: the other tables stay.
LEMMA ReceptionFields ==
  ASSUME NEW d \in DbType, NEW at \in Nat, NEW u, u = ReceptionRows(d, at)
  PROVE  /\ u \in DbType /\ u.rows = d.rows /\ u.segs = d.segs /\ u.pos = d.pos
         /\ u.power = d.power /\ u.dec = d.dec /\ u.status = d.status /\ u.elapsed = d.elapsed
         /\ u.recs = Append(d.recs, at)
         /\ u.pkts = IF kind = "rak" THEN d.pkts + 1 ELSE d.pkts
  <1> DEFINE recs == Append(d.recs, at)
             pkts == IF kind = "rak" THEN d.pkts + 1 ELSE d.pkts
  <1>1. recs \in Seq(Nat) /\ pkts \in Nat
    BY DEF DbType
  <1>2. u = [d EXCEPT !.recs = recs, !.pkts = pkts]
    BY DEF ReceptionRows
  <1> HIDE DEF recs, pkts
  <1>3. /\ u \in DbType /\ u.rows = d.rows /\ u.segs = d.segs /\ u.pos = d.pos
        /\ u.power = d.power /\ u.dec = d.dec /\ u.status = d.status /\ u.elapsed = d.elapsed
        /\ u.recs = recs /\ u.pkts = pkts
    BY <1>1, <1>2 DEF DbType
  <1> QED BY <1>3 DEF recs, pkts

LEMMA AppendReceptionStep ==
  ASSUME StoreInv, AppendReception PROVE TypeOK' /\ RowsStep /\ RestInv'
  <1>1. /\ db \in DbType /\ disk \in DbType /\ mem \in MemType /\ eng \in EngType
        /\ kind' = kind /\ disk' = disk /\ torn' = torn /\ torn \in BOOLEAN
        /\ eng.phase \in {"run", "drain"} /\ kind \in Kinds
    BY StateTypes DEF AppendReception, Working
  <1>2. mem' \in MemType /\ mem'.acq = mem.acq
    BY <1>1 DEF AppendReception, Batch, MemType
  <1>5. CASE /\ \E at \in eng.start..Elapsed : db' = ReceptionRows(db, at)
             /\ eng' = [eng EXCEPT !.recs = @ + 1]
    <2> DEFINE recs == eng.recs + 1
    <2>1. recs \in Nat
      BY <1>1 DEF EngType
    <2>2. eng' = [eng EXCEPT !.recs = recs]
      BY <1>5
    <2> HIDE DEF recs
    <2>3. /\ eng' \in EngType /\ eng'.phase = eng.phase /\ eng'.final = eng.final
          /\ eng'.saved = eng.saved /\ eng'.rows = eng.rows
      BY <1>1, <2>1, <2>2 DEF EngType
    <2>4. db' \in DbType /\ db'.rows = db.rows /\ db'.segs = db.segs
      <3>1. PICK at \in eng.start..Elapsed : db' = ReceptionRows(db, at)
        BY <1>5
      <3>2. at \in Nat
        BY <1>1, <3>1, ElapsedType, StateTypes DEF EngType
      <3> DEFINE u == db'
      <3>3. u = ReceptionRows(db, at)
        BY <3>1
      <3> HIDE DEF u
      <3>4. u \in DbType /\ u.rows = db.rows /\ u.segs = db.segs
        BY <1>1, <3>2, <3>3, ReceptionFields
      <3> QED BY <3>4 DEF u
    <2>5. RestInv'
      BY <1>1, <1>2, <2>3, <2>4 DEF StoreInv, RestInv, AcquisitionInv, FinalInv, SavedInv,
         CountInv, Acquiring
    <2> QED BY <1>1, <1>2, <2>3, <2>4, <2>5 DEF TypeOK, RowsStep
  <1>6. CASE db' = db /\ eng' = Failed(eng)
    BY <1>1, <1>2, <1>6, AppendFails
  <1> QED BY <1>5, <1>6 DEF AppendReception

LEMMA AppendGapStep ==
  ASSUME StoreInv, AppendGap PROVE TypeOK' /\ RowsStep /\ RestInv'
  <1>1. /\ UNCHANGED <<kind, db, disk, eng, torn>>
        /\ mem' = [Batch(mem) EXCEPT !.block = CloseBlock(@)] /\ mem \in MemType
    BY StateTypes DEF AppendGap
  <1> DEFINE b == CloseBlock(Batch(mem).block)
  <1>2. b \in BlockType
    <2>1. Batch(mem).block \in BlockType
      BY <1>1 DEF Batch, MemType
    <2> QED BY <2>1 DEF CloseBlock, BlockType, NoBlock
  <1>3. mem' = [Batch(mem) EXCEPT !.block = b]
    BY <1>1
  <1> HIDE DEF b
  <1>4. 0 \in Nat
    OBVIOUS
  <1>5. mem' \in MemType /\ mem'.acq = mem.acq
    BY <1>1, <1>2, <1>3, <1>4, BatchType
  <1> QED BY <1>1, <1>5 DEF StoreInv, TypeOK, RowsStep, RestInv, AcquisitionInv, FinalInv,
             CountInv, SavedInv, Acquiring

LEMMA StoreInvInit == Init => StoreInv
  <1> SUFFICES ASSUME Init PROVE StoreInv
    OBVIOUS
  <1>1. /\ kind \in Kinds /\ db = FreshDb /\ disk = FreshDb /\ mem = FreshMem
        /\ eng = IdleEngine /\ torn = FALSE
    BY DEF Init
  <1>2. TypeOK
    BY <1>1, FreshTypes DEF TypeOK
  <1>3. IdleEngine.phase = "new" /\ IdleEngine.saved = FALSE /\ IdleEngine.final = FALSE
    BY DEF IdleEngine
  <1>4. PrefixInv
    BY <1>1, <1>2, RowsTypes DEF PrefixInv
  <1> QED BY <1>1, <1>2, <1>3, <1>4 DEF StoreInv, AcquisitionInv, FinalInv, CountInv, SavedInv,
             Acquiring

LEMMA StoreStep ==
  ASSUME StoreInv, [Next]_vars PROVE StoreInv' /\ RowsStep
  <1>1. TypeOK' /\ RowsStep /\ RestInv'
    <2>1. CASE Tick BY <2>1, TickStep
    <2>2. CASE StartNew BY <2>2, StartNewStep
    <2>3. CASE Resume BY <2>3, ResumeStep
    <2>4. CASE WorkerStarts BY <2>4, WorkerStartsStep
    <2>5. CASE Checkpoint BY <2>5, CheckpointStep
    <2>6. CASE AppendTile BY <2>6, AppendTileStep
    <2>7. CASE AppendGap BY <2>7, AppendGapStep
    <2>8. CASE AppendScan BY <2>8, AppendScanStep
    <2>9. CASE AppendReception BY <2>9, AppendReceptionStep
    <2>10. CASE StopRun BY <2>10, StopRunStep
    <2>11. CASE FinalSave BY <2>11, FinalSaveStep
    <2>12. CASE Save BY <2>12, SaveStep
    <2>13. CASE CloseSession BY <2>13, CloseSessionStep
    <2>14. CASE Crash BY <2>14, CrashStep
    <2>15. CASE UNCHANGED <<kind, db, disk, mem, eng, torn>>
      BY <2>15 DEF StoreInv, TypeOK, RowsStep, RestInv, AcquisitionInv, FinalInv, CountInv,
         SavedInv, Acquiring
    <2>16. CASE CopyPin \/ CopyEnds \/ UNCHANGED vars
      BY <2>15, <2>16 DEF CopyPin, CopyEnds, vars
    <2> QED BY <2>1, <2>2, <2>3, <2>4, <2>5, <2>6, <2>7, <2>8, <2>9, <2>10, <2>11, <2>12,
               <2>13, <2>14, <2>16 DEF Next
  <1>2. PrefixInv'
    BY <1>1, RowsPrefix DEF StoreInv
  <1> QED BY <1>1, <1>2 DEF StoreInv, RestInv

\* In every reachable state the committed revision is a prefix of what the
\* writing connection sees, and the store's memory and the engine's counters
\* agree with it (SqliteStore, the session calls of engine.cpp).
THEOREM StoreInvariant == Spec => []StoreInv
  <1>1. StoreInv /\ [Next]_vars => StoreInv'
    BY StoreStep
  <1> QED BY <1>1, StoreInvInit, PTL DEF Spec

-----------------------------------------------------------------------------

\* The recording implements the ledger, whatever fails: each step of the engine,
\* the store and the process leaves the rows alone, adds one to the open batch,
\* makes the whole batch durable, loses the whole batch, or begins another
\* recording.  Nothing durable is changed, reordered or lost.
THEOREM LedgerRefined == Spec => LedgerImplemented
  <1>1. Init => Ledger!LedgerInit
    <2> SUFFICES ASSUME Init PROVE Ledger!LedgerInit
      OBVIOUS
    <2>1. db.rows = <<>> /\ disk.rows = <<>>
      BY DEF Init, FreshDb
    <2>2. SubSeq(db.rows, Len(disk.rows) + 1, Len(db.rows)) = <<>>
      <3>1. <<>> \in Seq(RowType)
        OBVIOUS
      <3> QED BY <2>1, <3>1, SuffixOfItself
    <2> QED BY <2>1, <2>2 DEF Ledger!LedgerInit
  <1>2. StoreInv /\ StoreInv' /\ [Next]_vars => [Ledger!LedgerNext]_(Ledger!lvars)
    BY StoreStep, RowsLedger DEF StoreInv
  <1> QED BY <1>1, <1>2, StoreInvariant, PTL DEF Spec, LedgerImplemented, Ledger!LedgerSpec

\* A save of a stopped session that reports success: every tile or scan and
\* every reception the engine counted is on disk, and the recording is finalized
\* (engine.cpp save_locked; the count of tiles is not compared there).
THEOREM SaveIsDurable == Spec => []SaveMeansDurable
  <1>1. StoreInv => SaveMeansDurable
    BY DEF StoreInv, SavedInv, FinalInv, CountInv, SaveMeansDurable
  <1> QED BY <1>1, StoreInvariant, PTL

-----------------------------------------------------------------------------
(* What is on disk can always be read.                                     *)

\* begin_acquisition never throws.
BeginSucceeds == \A k \in Kinds : <<k, "begin">> \notin Events

\* The acquisition a time belongs to, and the part of InOneSegment that does not
\* look at the end recorded for an acquisition still open.
HolderAt(d, t) ==
  LET begun == {i \in 1..Len(d.segs) : d.segs[i].from <= t}
  IN  IF begun = {} THEN 1 ELSE CHOOSE i \in begun : \A j \in begun : j <= i

Held(d, from, to) ==
  LET s == d.segs[HolderAt(d, from)] IN to >= from /\ (s.final => to <= s.to)

RowHeld(d, r) ==
  /\ RowLinked(d, r) /\ Held(d, r.from, r.to)
  /\ r.power # 0 => Held(d, d.power[r.power].from, d.power[r.power].to)

\* What holds of the writing connection's view as well, where records may lie
\* after the end last recorded for the open acquisition.
Accepted(k, d) ==
  /\ SegmentsAccepted(d) /\ d.status
  /\ \A i \in 1..Len(d.rows) : RowHeld(d, d.rows[i])
  /\ RowsOrdered(d)
  /\ k = "rak" => d.pkts = Len(d.recs)
  /\ d.recs # <<>> => d.segs # <<>>
  /\ \A i \in 1..Len(d.recs) : Held(d, d.recs[i], d.recs[i])
  /\ d.segs # <<>> => d.segs[1].from = 0

\* No record is later than the end recorded for the last acquisition.
Covered(d) ==
  d.segs # <<>> =>
    /\ \A i \in 1..Len(d.rows) : d.rows[i].to <= d.segs[Len(d.segs)].to
    /\ \A p \in DOMAIN d.power : d.power[p].to <= d.segs[Len(d.segs)].to
    /\ \A i \in 1..Len(d.recs) : d.recs[i] <= d.segs[Len(d.segs)].to

\* Rows and power blocks cover some time.
Forward(d) ==
  /\ \A i \in 1..Len(d.rows) : d.rows[i].from < d.rows[i].to
  /\ \A p \in DOMAIN d.power : d.power[p].from < d.power[p].to

\* Nothing in d is later than time t; a power block has a number up to n.
Within(d, t, n) ==
  /\ \A i \in 1..Len(d.segs) : d.segs[i].to <= t
  /\ \A i \in 1..Len(d.rows) : d.rows[i].to <= t
  /\ \A p \in DOMAIN d.power : d.power[p].to <= t /\ p \in 1..n
  /\ \A i \in 1..Len(d.recs) : d.recs[i] <= t

\* The tiles of d end by time t.
TilesBy(d, t) == \A i \in 1..Len(d.rows) : d.rows[i].to <= t

\* The last acquisition of d is number n, is open and began by time t.
OpenSince(d, n, t) ==
  /\ n \in Nat \ {0} /\ Len(d.segs) = n
  /\ ~d.segs[n].final /\ d.segs[n].from <= t

\* The power block b being filled is a row of d that began at time t or later.
BlockOpen(d, b, t) ==
  b.to > b.from => /\ b.id \in DOMAIN d.power
                   /\ d.power[b.id] = [from |-> b.from, to |-> b.to]
                   /\ b.from >= t

\* A recording is torn only between the end of its store and the next start;
\* otherwise what is on disk was committed with the time it reaches.
TornInv ==
  /\ eng.phase # "new" => ~torn
  /\ ~torn => Covered(disk)

\* What the writing connection sees and what is on disk can be read; while an
\* acquisition is under way, or after a final save, neither reaches beyond the
\* engine's time and the store's memory agrees with them.
StoredInv ==
  /\ Accepted(kind, db) /\ Accepted(kind, disk)
  /\ Forward(db) /\ Forward(disk) /\ TornInv
  /\ Acquiring \/ eng.final =>
       /\ Len(db.segs) # 0
       /\ Within(db, Elapsed, mem.block.id) /\ Within(disk, Elapsed, mem.block.id)
       /\ kind = "rak" => eng.start <= eng.clock
       /\ kind # "rak" => TilesBy(db, mem.prevEnd) /\ TilesBy(disk, mem.prevEnd)
  /\ Acquiring => OpenSince(db, mem.acq, eng.start) /\ OpenSince(disk, mem.acq, eng.start)
  /\ Acquiring /\ kind = "compact" => BlockOpen(db, mem.block, eng.start)

-----------------------------------------------------------------------------
(* Which acquisition a time belongs to.                                    *)

LEMMA SegmentAtIs ==
  ASSUME NEW d \in DbType, d.segs # <<>>, NEW t
  PROVE  /\ HolderAt(d, t) \in 1..Len(d.segs)
         /\ \A i \in 1..Len(d.segs) : d.segs[i].from <= t =>
              d.segs[HolderAt(d, t)].from <= t /\ i <= HolderAt(d, t)
  <1> DEFINE begun == {i \in 1..Len(d.segs) : d.segs[i].from <= t}
             g == CHOOSE i \in begun : \A j \in begun : j <= i
  <1>1. Len(d.segs) \in Nat \ {0}
    BY DEF DbType
  <1>2. HolderAt(d, t) = IF begun = {} THEN 1 ELSE g
    BY DEF HolderAt
  <1>3. CASE begun = {}
    BY <1>1, <1>2, <1>3
  <1>4. CASE begun # {}
    <2>1. begun \subseteq 0..Len(d.segs)
      BY <1>1
    <2>2. \E i \in begun : \A j \in begun : j <= i
      <3> HIDE DEF begun
      <3> QED BY <1>1, <1>4, <2>1, GreatestElement
    <2>3. g \in begun /\ \A j \in begun : j <= g
      <3> HIDE DEF begun
      <3> QED BY <2>2
    <2> QED BY <1>2, <1>4, <2>3
  <1> QED BY <1>3, <1>4

LEMMA LastSegmentAt ==
  ASSUME NEW d \in DbType, NEW n, NEW t \in Nat, NEW u, OpenSince(d, n, u), u <= t, u \in Nat
  PROVE  HolderAt(d, t) = n /\ d.segs # <<>>
  <1>1. n \in Nat \ {0} /\ Len(d.segs) = n /\ d.segs \in Seq(SegType) /\ d.segs # <<>>
    BY DEF OpenSince, DbType
  <1>2. n \in 1..Len(d.segs) /\ d.segs[n].from \in Nat /\ d.segs[n].from <= t
    <2>1. n \in 1..Len(d.segs)
      BY <1>1
    <2>2. d.segs[n] \in SegType
      BY <1>1, <2>1
    <2>3. d.segs[n].from \in Nat /\ d.segs[n].from <= u
      BY <2>2 DEF OpenSince, SegType
    <2> QED BY <2>1, <2>3
  <1>3. HolderAt(d, t) \in 1..Len(d.segs) /\ n <= HolderAt(d, t)
    BY <1>1, <1>2, SegmentAtIs
  <1> QED BY <1>1, <1>3

\* A record that begins after the open acquisition began lies in it.
LEMMA InOpenSegment ==
  ASSUME NEW d \in DbType, NEW n, NEW from \in Nat, NEW to \in Nat, NEW u \in Nat,
         OpenSince(d, n, u), u <= from, from <= to
  PROVE  Held(d, from, to) /\ d.segs # <<>>
  <1>1. HolderAt(d, from) = n /\ d.segs # <<>>
    BY LastSegmentAt
  <1>2. ~d.segs[n].final
    BY DEF OpenSince
  <1> QED BY <1>1, <1>2 DEF Held

\* Another acquisition that begins later does not change where a record lies.
LEMMA InOneAfterBegin ==
  ASSUME NEW d \in DbType, NEW e \in DbType, NEW seg \in SegType, d.segs # <<>>,
         e.segs = Append(d.segs, seg), NEW from \in Nat, NEW to \in Nat, from < seg.from,
         Held(d, from, to)
  PROVE  Held(e, from, to)
  <1> DEFINE n == Len(d.segs)
  <1>1. /\ n \in Nat \ {0} /\ Len(e.segs) = n + 1 /\ e.segs[n + 1] = seg
        /\ \A i \in 1..n : e.segs[i] = d.segs[i]
    <2>1. d.segs \in Seq(SegType)
      BY DEF DbType
    <2> QED BY <2>1, AppendProperties
  <1>2. seg.from \in Nat
    BY DEF SegType
  <1> HIDE DEF n
  <1> DEFINE bd == {i \in 1..Len(d.segs) : d.segs[i].from <= from}
             be == {i \in 1..Len(e.segs) : e.segs[i].from <= from}
  <1>3. bd = be
    <2>1. ~(seg.from <= from)
      BY <1>2
    <2>2. Len(d.segs) = n
      BY DEF n
    <2>3. \A i : i \in 1..Len(e.segs) <=> (i \in 1..Len(d.segs) \/ i = n + 1)
      BY <1>1, <2>2
    <2> QED BY <1>1, <2>1, <2>2, <2>3
  <1>4. HolderAt(d, from) = HolderAt(e, from)
    <2>1. HolderAt(d, from) = IF bd = {} THEN 1 ELSE CHOOSE i \in bd : \A j \in bd : j <= i
      BY DEF HolderAt
    <2>2. HolderAt(e, from) = IF be = {} THEN 1 ELSE CHOOSE i \in be : \A j \in be : j <= i
      BY DEF HolderAt
    <2> HIDE DEF bd, be
    <2> QED BY <1>3, <2>1, <2>2
  <1>5. HolderAt(d, from) \in 1..n
    BY SegmentAtIs DEF n
  <1> QED BY <1>1, <1>4, <1>5 DEF Held

\* A save of the last acquisition at time t, closing it or not.
LEMMA InOneAfterUpdate ==
  ASSUME NEW d \in DbType, NEW e \in DbType, NEW n \in 1..Len(d.segs), NEW t \in Nat,
         NEW final \in BOOLEAN,
         e.segs = [d.segs EXCEPT ![n] = [d.segs[n] EXCEPT !.to = t, !.final = final]],
         NEW from \in Nat, NEW to \in Nat, to <= t, d.segs # <<>>,
         Held(d, from, to)
  PROVE  Held(e, from, to)
  <1> DEFINE seg == [d.segs[n] EXCEPT !.to = t, !.final = final]
  <1>1. d.segs \in Seq(SegType) /\ d.segs[n] \in SegType
    BY DEF DbType
  <1>2. seg.from = d.segs[n].from /\ seg.to = t
    BY <1>1 DEF SegType
  <1>3. e.segs = [d.segs EXCEPT ![n] = seg]
    OBVIOUS
  <1> HIDE DEF seg
  <1>4. /\ Len(e.segs) = Len(d.segs)
        /\ \A i \in 1..Len(d.segs) : i # n => e.segs[i] = d.segs[i]
        /\ e.segs[n] = seg
    BY <1>1, <1>3
  <1> DEFINE bd == {i \in 1..Len(d.segs) : d.segs[i].from <= from}
             be == {i \in 1..Len(e.segs) : e.segs[i].from <= from}
  <1>5. bd = be
    BY <1>2, <1>4
  <1>6. HolderAt(d, from) = HolderAt(e, from)
    <2>1. HolderAt(d, from) = IF bd = {} THEN 1 ELSE CHOOSE i \in bd : \A j \in bd : j <= i
      BY DEF HolderAt
    <2>2. HolderAt(e, from) = IF be = {} THEN 1 ELSE CHOOSE i \in be : \A j \in be : j <= i
      BY DEF HolderAt
    <2> HIDE DEF bd, be
    <2> QED BY <1>5, <2>1, <2>2
  <1>7. HolderAt(d, from) \in 1..Len(d.segs)
    BY SegmentAtIs
  <1> QED BY <1>2, <1>4, <1>6, <1>7 DEF Held

-----------------------------------------------------------------------------
(* What each operation on the database keeps.                              *)

\* A row that is accepted is of the database's types.
LEMMA RowTypes ==
  ASSUME NEW d \in DbType, NEW i \in 1..Len(d.rows)
  PROVE  /\ d.rows[i] \in RowType /\ d.rows[i].from \in Nat /\ d.rows[i].to \in Nat
         /\ d.rows[i].fix \in Nat /\ d.rows[i].power \in Nat
  <1>1. d.rows \in Seq(RowType)
    BY DEF DbType
  <1>2. d.rows[i] \in RowType
    BY <1>1
  <1> QED BY <1>2 DEF RowType

LEMMA PowerTypes ==
  ASSUME NEW d \in DbType, NEW p \in DOMAIN d.power
  PROVE  p \in Nat /\ d.power[p] \in SpanType /\ d.power[p].from \in Nat /\ d.power[p].to \in Nat
  <1>1. d.power \in PowerType
    BY DEF DbType
  <1>2. PICK S \in SUBSET Nat : d.power \in [S -> SpanType]
    BY <1>1 DEF PowerType
  <1>3. p \in S /\ d.power[p] \in SpanType
    BY <1>2
  <1> QED BY <1>3 DEF SpanType

LEMMA RecTypes ==
  ASSUME NEW d \in DbType, NEW i \in 1..Len(d.recs)
  PROVE  d.recs[i] \in Nat
  <1>1. d.recs \in Seq(Nat)
    BY DEF DbType
  <1> QED BY <1>1

LEMMA SegTypes ==
  ASSUME NEW d \in DbType, NEW i \in 1..Len(d.segs)
  PROVE  d.segs[i] \in SegType /\ d.segs[i].from \in Nat /\ d.segs[i].to \in Nat
         /\ d.segs[i].final \in BOOLEAN
  <1>1. d.segs \in Seq(SegType)
    BY DEF DbType
  <1>2. d.segs[i] \in SegType
    BY <1>1
  <1> QED BY <1>2 DEF SegType

\* A database with at least the positions, and the same other tables.
MorePositions(d, e) ==
  /\ Len(d.pos) <= Len(e.pos) /\ e.power = d.power /\ e.rows = d.rows /\ e.segs = d.segs
  /\ e.recs = d.recs /\ e.pkts = d.pkts /\ e.dec = d.dec /\ e.status = d.status
  /\ e.elapsed = d.elapsed

LEMMA PositionsAccepted ==
  ASSUME NEW k, NEW d \in DbType, NEW e \in DbType, Accepted(k, d), MorePositions(d, e)
  PROVE  Accepted(k, e)
  <1>1. SegmentsAccepted(e) /\ e.status /\ RowsOrdered(e) /\ (k = "rak" => e.pkts = Len(e.recs))
        /\ (e.recs # <<>> => e.segs # <<>>) /\ (e.segs # <<>> => e.segs[1].from = 0)
    BY DEF Accepted, MorePositions, SegmentsAccepted, RowsOrdered
  <1>2. \A t : HolderAt(e, t) = HolderAt(d, t)
    BY DEF HolderAt, MorePositions
  <1>3. \A from, to : Held(e, from, to) <=> Held(d, from, to)
    BY <1>2 DEF Held, MorePositions
  <1>4. ASSUME NEW i \in 1..Len(e.rows) PROVE RowHeld(e, e.rows[i])
    <2>1. i \in 1..Len(d.rows) /\ e.rows[i] = d.rows[i]
      BY DEF MorePositions
    <2> DEFINE r == d.rows[i]
    <2>2. RowHeld(d, r)
      BY <2>1 DEF Accepted
    <2>3. r.fix \in 0..Len(e.pos)
      <3>1. r.fix \in 0..Len(d.pos) /\ Len(d.pos) \in Nat /\ Len(e.pos) \in Nat
        BY <2>2 DEF RowHeld, RowLinked, DbType
      <3> QED BY <3>1 DEF MorePositions
    <2> HIDE DEF r
    <2>4. RowHeld(e, r)
      BY <1>3, <2>2, <2>3 DEF RowHeld, RowLinked, MorePositions
    <2> QED BY <2>1, <2>4 DEF r
  <1>5. \A i \in 1..Len(e.recs) : Held(e, e.recs[i], e.recs[i])
    BY <1>3 DEF Accepted, MorePositions
  <1> QED BY <1>1, <1>4, <1>5 DEF Accepted

LEMMA EnsureFixPositions ==
  ASSUME NEW d \in DbType, NEW m \in MemType, NEW f \in Fixes
  PROVE  /\ MorePositions(d, EnsureFix(d, m, f).db)
         /\ EnsureFix(d, m, f).mem.block = m.block
         /\ EnsureFix(d, m, f).mem.prevEnd = m.prevEnd
  <1> DEFINE cached == {c \in Range(m.cache) : c.fix = f}
             known  == IndexOfFix(d.pos, f)
             id     == IF cached # {} THEN (CHOOSE c \in cached : TRUE).id
                       ELSE IF known # {} THEN CHOOSE i \in known : TRUE
                       ELSE Len(d.pos) + 1
             cache  == Append(m.cache, [fix |-> f, id |-> id])
             more   == Append(d.pos, f)
             d2     == IF cached = {} /\ known = {} THEN [d EXCEPT !.pos = more] ELSE d
             cut    == IF Len(cache) > CacheSize THEN Tail(cache) ELSE cache
             m2     == IF cached # {} THEN m ELSE [m EXCEPT !.cache = cut]
  <1>1. EnsureFix(d, m, f) = [db |-> d2, mem |-> m2, id |-> id]
    BY DEF EnsureFix
  <1>2. d.pos \in Seq(Fixes) /\ Len(d.pos) \in Nat
    BY DEF DbType
  <1>3. more \in Seq(Fixes) /\ Len(more) = Len(d.pos) + 1
    BY <1>2
  <1> HIDE DEF cached, known, id, cut, more
  <1>4. m2.block = m.block /\ m2.prevEnd = m.prevEnd
    BY DEF MemType
  <1>5. MorePositions(d, d2)
    <2>0. d2 = d \/ d2 = [d EXCEPT !.pos = more]
      OBVIOUS
    <2> HIDE DEF d2
    <2>1. CASE d2 = d
      BY <1>2, <2>1 DEF MorePositions
    <2>2. CASE d2 = [d EXCEPT !.pos = more]
      <3> DEFINE x == [d EXCEPT !.pos = more]
      <3>1. /\ x.pos = more /\ x.power = d.power /\ x.rows = d.rows /\ x.segs = d.segs
            /\ x.recs = d.recs /\ x.pkts = d.pkts /\ x.dec = d.dec /\ x.status = d.status
            /\ x.elapsed = d.elapsed
        BY DEF DbType
      <3> HIDE DEF x
      <3> QED BY <1>2, <1>3, <2>2, <3>1 DEF MorePositions, x
    <2> QED BY <2>0, <2>1, <2>2
  <1> HIDE DEF d2, m2
  <1> QED BY <1>1, <1>4, <1>5

\* The tables that no save or begin of an acquisition touches.
SameRecords(d, e) ==
  /\ e.pos = d.pos /\ e.power = d.power /\ e.rows = d.rows /\ e.recs = d.recs
  /\ e.pkts = d.pkts

\* What update() has written: the acquisition a ends at time t so far, or for good.
SavedAt(d, u, a, t, final) ==
  /\ SameRecords(d, u) /\ u.status = TRUE /\ u.elapsed = t /\ u.dec = d.dec \cup {a}
  /\ u.segs = [d.segs EXCEPT ![a] = [d.segs[a] EXCEPT !.to = t, !.final = final]]

LEMMA UpdatedDbFields ==
  ASSUME TypeOK, NEW d \in DbType, NEW m \in MemType, NEW final \in BOOLEAN,
         NEW failed \in BOOLEAN, m.acq # 0, NEW u, u = UpdatedDb(d, m, final, failed)
  PROVE  SavedAt(d, u, m.acq, Elapsed, final)
  <1> DEFINE seg == [d.segs[m.acq] EXCEPT !.to = Elapsed, !.final = final]
             segs == [d.segs EXCEPT ![m.acq] = seg]
             dec == d.dec \cup {m.acq}
             complete == final /\ ~failed
  <1>1. u = [d EXCEPT !.segs = segs, !.dec = dec, !.elapsed = Elapsed, !.complete = complete,
                      !.status = TRUE]
    BY DEF UpdatedDb
  <1> HIDE DEF segs, dec, complete
  <1>2. SameRecords(d, u) /\ u.status = TRUE /\ u.elapsed = Elapsed /\ u.dec = dec /\ u.segs = segs
    BY <1>1 DEF DbType, SameRecords
  <1> QED BY <1>2 DEF segs, dec, SavedAt

\* What a recording keeps when its acquisitions change: the records stay in one.
LEMMA RowsStayAccepted ==
  ASSUME NEW d \in DbType, NEW e \in DbType, SameRecords(d, e), e.segs # <<>>,
         \A i \in 1..Len(d.rows) : RowHeld(d, d.rows[i]),
         \A i \in 1..Len(d.rows) : Held(e, d.rows[i].from, d.rows[i].to),
         \A p \in DOMAIN d.power : Held(d, d.power[p].from, d.power[p].to)
                                   => Held(e, d.power[p].from, d.power[p].to)
  PROVE  \A i \in 1..Len(e.rows) : RowHeld(e, e.rows[i])
  <1> SUFFICES ASSUME NEW i \in 1..Len(d.rows) PROVE RowHeld(e, d.rows[i])
    BY DEF SameRecords
  <1>1. RowHeld(d, d.rows[i]) /\ Held(e, d.rows[i].from, d.rows[i].to)
    OBVIOUS
  <1> DEFINE r == d.rows[i]
  <1> HIDE DEF r
  <1>2. RowHeld(d, r) /\ Held(e, r.from, r.to)
    BY <1>1 DEF r
  <1>3. RowHeld(e, r)
    <2>1. e.pos = d.pos /\ e.power = d.power
      BY DEF SameRecords
    <2> QED BY <1>2, <2>1 DEF RowHeld, RowLinked
  <1> QED BY <1>3 DEF r

\* update(): whatever it closes, the rows end by the elapsed time it saves.
LEMMA UpdatedAccepted ==
  ASSUME TypeOK, NEW k, NEW n, NEW d \in DbType, NEW m \in MemType, NEW final \in BOOLEAN,
         NEW failed \in BOOLEAN, NEW u, u = UpdatedDb(d, m, final, failed),
         Accepted(k, d), Forward(d), Within(d, Elapsed, n), OpenSince(d, m.acq, eng.start),
         eng.start <= Elapsed
  PROVE  /\ Accepted(k, u) /\ Forward(u) /\ Within(u, Elapsed, n)
         /\ u.rows = d.rows /\ u.power = d.power
         /\ ~final => OpenSince(u, m.acq, eng.start)
         /\ Len(u.segs) # 0 /\ Covered(u)
  <1> DEFINE a == m.acq
             t == Elapsed
             seg == [d.segs[a] EXCEPT !.to = t, !.final = final]
  <1>1. /\ a \in Nat \ {0} /\ Len(d.segs) = a /\ ~d.segs[a].final /\ d.segs[a].from <= eng.start
        /\ a \in 1..Len(d.segs) /\ t \in Nat /\ eng.start \in Nat /\ eng.start <= t
    BY ElapsedType DEF OpenSince, TypeOK, EngType
  <1>2. /\ SameRecords(d, u) /\ u.status = TRUE /\ u.elapsed = t
        /\ u.dec = d.dec \cup {a} /\ u.segs = [d.segs EXCEPT ![a] = seg]
    <2>1. m.acq # 0
      BY <1>1
    <2>2. SavedAt(d, u, m.acq, Elapsed, final)
      <3> HIDE DEF a, t, seg
      <3> QED BY <2>1, UpdatedDbFields
    <2> QED BY <2>2 DEF SavedAt
  <1>3. u \in DbType
    BY UpdatedDbType
  <1>4. d.segs \in Seq(SegType) /\ d.segs # <<>> /\ d.segs[a] \in SegType /\ d.segs[a].from \in Nat
    BY <1>1, SegTypes DEF DbType
  <1>x. \A i \in 1..Len(d.segs) : d.segs[i].to <= t
    BY DEF Within
  <1>y. /\ \A i \in 1..Len(d.rows) : d.rows[i].to <= t
        /\ \A p \in DOMAIN d.power : d.power[p].to <= t
        /\ \A i \in 1..Len(d.recs) : d.recs[i] <= t
    BY DEF Within
  <1>z. final \in BOOLEAN
    OBVIOUS
  <1> HIDE DEF a, t
  <1>5. seg.from = d.segs[a].from /\ seg.to = t /\ seg.final = final
    BY <1>4 DEF SegType
  <1>w. \A from, to \in Nat : to <= t /\ Held(d, from, to) => Held(u, from, to)
    BY <1>1, <1>2, <1>3, <1>4, InOneAfterUpdate
  <1> HIDE DEF seg
  <1>6. /\ Len(u.segs) = a /\ u.segs[a] = seg
        /\ \A i \in 1..a : i # a => u.segs[i] = d.segs[i]
    BY <1>1, <1>2, <1>4
  <1>7. SegmentsAccepted(u)
    <2>1. ASSUME NEW i \in 1..Len(u.segs)
          PROVE  /\ u.segs[i].to >= u.segs[i].from
                 /\ i > 1 => u.segs[i - 1].final /\ u.segs[i].from >= u.segs[i - 1].to
                 /\ i \in u.dec /\ u.segs[i].to <= u.elapsed
      <3>1. /\ i \in 1..Len(d.segs) /\ i \in d.dec
            /\ d.segs[i].to >= d.segs[i].from
            /\ i > 1 => d.segs[i - 1].final /\ d.segs[i].from >= d.segs[i - 1].to
        BY <1>1, <1>6 DEF Accepted, SegmentsAccepted
      <3>2. i > 1 => i - 1 \in 1..a /\ i - 1 # a
        BY <1>1, <3>1
      <3>3. CASE i = a
        BY <1>1, <1>2, <1>4, <1>5, <1>6, <3>1, <3>2, <3>3
      <3>4. CASE i # a
        BY <1>1, <1>2, <1>6, <1>x, <3>1, <3>2, <3>4
      <3> QED BY <3>3, <3>4
    <2>2. u.segs # <<>> /\ u.dec \subseteq 1..Len(u.segs)
      <3>1. d.dec \subseteq 1..a
        BY <1>1, <1>4 DEF Accepted, SegmentsAccepted
      <3>2. u.segs # <<>>
        BY <1>1, <1>6
      <3> QED BY <3>1, <3>2, <1>1, <1>2, <1>6
    <2> QED BY <2>1, <2>2 DEF SegmentsAccepted
  <1>8. \A i \in 1..Len(u.rows) : RowHeld(u, u.rows[i])
    <2>1. \A i \in 1..Len(d.rows) : RowHeld(d, d.rows[i])
      BY DEF Accepted
    <2>2. \A i \in 1..Len(d.rows) : Held(u, d.rows[i].from, d.rows[i].to)
      BY <1>w, <1>y, <2>1, RowTypes DEF RowHeld
    <2>3. \A p \in DOMAIN d.power : Held(d, d.power[p].from, d.power[p].to)
                                    => Held(u, d.power[p].from, d.power[p].to)
      BY <1>w, <1>y, PowerTypes
    <2>4. u.segs # <<>>
      BY <1>1, <1>6
    <2> QED BY <1>2, <1>3, <2>1, <2>2, <2>3, <2>4, RowsStayAccepted
  <1>9. Accepted(k, u)
    <2>1. u.segs # <<>> /\ u.status
      BY <1>1, <1>2, <1>6
    <2>2. RowsOrdered(u) /\ (k = "rak" => u.pkts = Len(u.recs))
      BY <1>2 DEF Accepted, SameRecords, RowsOrdered
    <2>3. \A i \in 1..Len(u.recs) : Held(u, u.recs[i], u.recs[i])
      <3>1. u.recs = d.recs
        BY <1>2 DEF SameRecords
      <3>2. \A i \in 1..Len(d.recs) : d.recs[i] \in Nat /\ Held(d, d.recs[i], d.recs[i])
        BY RecTypes DEF Accepted
      <3> QED BY <1>w, <1>y, <3>1, <3>2
    <2>4. u.segs[1].from = 0
      <3>1. 1 \in 1..a /\ d.segs[1].from = 0
        BY <1>1, <1>4 DEF Accepted
      <3> QED BY <1>5, <1>6, <3>1
    <2> QED BY <1>7, <1>8, <2>1, <2>2, <2>3, <2>4 DEF Accepted
  <1>10. Forward(u) /\ u.rows = d.rows /\ u.power = d.power /\ u.recs = d.recs
    BY <1>2 DEF Forward, SameRecords
  <1>11. Within(u, t, n)
    <2>1. \A i \in 1..Len(u.segs) : u.segs[i].to <= t
      BY <1>1, <1>5, <1>6, <1>x
    <2> QED BY <2>1, <1>10, <1>y DEF Within, t
  <1>12. ~final => OpenSince(u, a, eng.start)
    BY <1>1, <1>5, <1>6 DEF OpenSince
  <1>13. Len(u.segs) # 0 /\ Covered(u)
    BY <1>1, <1>5, <1>6, <1>10, <1>y DEF Covered
  <1> QED BY <1>9, <1>10, <1>11, <1>12, <1>13 DEF a, t

LEMMA BeginDbFields ==
  ASSUME NEW d \in DbType, NEW seg \in SegType, NEW u, u = BeginDb(d, seg, 6)
  PROVE  /\ SameRecords(d, u) /\ u.status = TRUE /\ u.elapsed = Larger(d.elapsed, seg.to)
         /\ u.dec = (d.dec \ {0}) \cup {Len(u.segs)} /\ u.segs = Append(d.segs, seg)
  <1> DEFINE segs == Append(d.segs, seg)
             d1 == [d EXCEPT !.segs = segs]
             d2 == [d1 EXCEPT !.dec = @ \ {0}]
             d3 == [d2 EXCEPT !.dec = @ \cup {Len(d1.segs)}]
             d4 == [d3 EXCEPT !.complete = FALSE, !.elapsed = Larger(@, seg.to)]
             d5 == [d4 EXCEPT !.status = FALSE]
             d6 == [d5 EXCEPT !.status = TRUE]
             F(e, dec, el) == /\ SameRecords(d, e) /\ e.segs = segs /\ e.dec = dec /\ e.elapsed = el
                              /\ DOMAIN e = DOMAIN d
  <1>1. u = d6
    BY DEF BeginDb
  <1>2. DOMAIN d = {"pos", "power", "rows", "recs", "pkts", "segs", "dec", "status", "elapsed",
                    "complete"}
    BY DEF DbType
  <1> HIDE DEF segs
  <1>3. F(d1, d.dec, d.elapsed)
    BY <1>2 DEF SameRecords
  <1> HIDE DEF d1
  <1>4. F(d2, d.dec \ {0}, d.elapsed)
    BY <1>2, <1>3 DEF SameRecords
  <1> HIDE DEF d2
  <1>5. F(d3, (d.dec \ {0}) \cup {Len(segs)}, d.elapsed)
    BY <1>2, <1>3, <1>4 DEF SameRecords
  <1> HIDE DEF d3
  <1>6. F(d4, (d.dec \ {0}) \cup {Len(segs)}, Larger(d.elapsed, seg.to))
    BY <1>2, <1>5 DEF SameRecords
  <1> HIDE DEF d4
  <1>7. F(d5, (d.dec \ {0}) \cup {Len(segs)}, Larger(d.elapsed, seg.to))
    BY <1>2, <1>6 DEF SameRecords
  <1> HIDE DEF d5
  <1>8. F(d6, (d.dec \ {0}) \cup {Len(segs)}, Larger(d.elapsed, seg.to)) /\ d6.status = TRUE
    BY <1>2, <1>7 DEF SameRecords
  <1> HIDE DEF d6
  <1> QED BY <1>1, <1>8 DEF segs

\* u is d with a new acquisition seg that begins at or after time t, by which
\* everything in d has ended.
BegunFrom(k, n, t, d, seg, u) ==
  /\ t \in Nat /\ d \in DbType /\ seg \in SegType /\ u = BeginDb(d, seg, 6)
  /\ seg.to = seg.from /\ ~seg.final /\ t <= seg.from
  /\ Accepted(k, d) /\ Forward(d) /\ Within(d, t, n)
  /\ d.segs # <<>> => d.segs[Len(d.segs)].final
  /\ d.segs = <<>> => seg.from = 0

\* begin_acquisition(): the new acquisition begins after everything recorded.
LEMMA BegunAccepted ==
  ASSUME NEW k, NEW n, NEW t, NEW d, NEW seg, NEW u, BegunFrom(k, n, t, d, seg, u)
  PROVE  /\ Accepted(k, u) /\ Forward(u) /\ Within(u, seg.from, n)
         /\ u.rows = d.rows /\ u.power = d.power
         /\ Len(u.segs) # 0 /\ Covered(u)
         /\ OpenSince(u, Len(u.segs), seg.from)
  <1>0. /\ t \in Nat /\ d \in DbType /\ seg \in SegType /\ u = BeginDb(d, seg, 6)
        /\ seg.to = seg.from /\ ~seg.final /\ t <= seg.from
        /\ Accepted(k, d) /\ Forward(d) /\ Within(d, t, n)
        /\ d.segs # <<>> => d.segs[Len(d.segs)].final
        /\ d.segs = <<>> => seg.from = 0
    BY DEF BegunFrom
  <1> USE <1>0
  <1> DEFINE a == Len(d.segs)
  <1>1. d.segs \in Seq(SegType) /\ a \in Nat /\ seg.from \in Nat /\ d.elapsed \in Nat
    BY DEF DbType, SegType
  <1>2. /\ SameRecords(d, u) /\ u.status = TRUE /\ u.elapsed = Larger(d.elapsed, seg.to)
        /\ u.dec = (d.dec \ {0}) \cup {Len(u.segs)} /\ u.segs = Append(d.segs, seg)
    BY BeginDbFields
  <1>3. u \in DbType
    <2>1. 6 \in 0..6
      OBVIOUS
    <2> QED BY <2>1, BeginDbType
  <1>4. /\ Len(u.segs) = a + 1 /\ u.segs[a + 1] = seg
        /\ \A i \in 1..a : u.segs[i] = d.segs[i]
    BY <1>1, <1>2, AppendProperties
  <1>5. u.elapsed >= d.elapsed /\ u.elapsed >= seg.to
    BY <1>1, <1>2, LargerType
  <1>6. d.segs # <<>> => a \in 1..a
    BY <1>1
  <1>7. SegmentsAccepted(u)
    <2>1. ASSUME NEW i \in 1..Len(u.segs)
          PROVE  /\ u.segs[i].to >= u.segs[i].from
                 /\ i > 1 => u.segs[i - 1].final /\ u.segs[i].from >= u.segs[i - 1].to
                 /\ i \in u.dec /\ u.segs[i].to <= u.elapsed
      <3>1. CASE i = a + 1
        <4>1. u.segs[i] = seg /\ i \in u.dec
          BY <1>2, <1>4, <3>1
        <4>2. i > 1 => u.segs[i - 1].final /\ u.segs[i].from >= u.segs[i - 1].to
          <5> SUFFICES ASSUME i > 1 PROVE u.segs[a].final /\ seg.from >= u.segs[a].to
            BY <1>1, <3>1, <4>1
          <5>1. a \in 1..a /\ d.segs # <<>>
            BY <1>1, <3>1
          <5>2. u.segs[a] = d.segs[a] /\ d.segs[a].final
            BY <1>4, <5>1
          <5>3. d.segs[a].to <= t /\ d.segs[a].to \in Nat
            BY <5>1, SegTypes DEF Within
          <5> QED BY <1>1, <5>2, <5>3
        <4> QED BY <1>1, <1>5, <4>1, <4>2
      <3>2. CASE i # a + 1
        <4>1. i \in 1..a /\ (i > 1 => i - 1 \in 1..a)
          BY <1>1, <1>4, <3>2
        <4>2. /\ d.segs[i].to >= d.segs[i].from /\ i \in d.dec
              /\ i > 1 => d.segs[i - 1].final /\ d.segs[i].from >= d.segs[i - 1].to
              /\ d.segs[i].to <= d.elapsed /\ d.segs[i].to \in Nat
          BY <4>1, SegTypes DEF Accepted, SegmentsAccepted
        <4>3. u.segs[i].to <= u.elapsed
          <5>1. u.elapsed \in Nat
            BY <1>3 DEF DbType
          <5>2. u.segs[i].to = d.segs[i].to
            BY <1>4, <4>1
          <5> QED BY <1>1, <1>5, <4>2, <5>1, <5>2
        <4>4. u.segs[i] = d.segs[i] /\ (i > 1 => u.segs[i - 1] = d.segs[i - 1])
          BY <1>4, <4>1
        <4>5. i \in u.dec
          <5>1. i # 0
            BY <1>1, <4>1
          <5> QED BY <1>2, <4>2, <5>1
        <4> QED BY <4>2, <4>3, <4>4, <4>5
      <3> QED BY <3>1, <3>2
    <2>2. u.segs # <<>> /\ u.dec \subseteq 1..Len(u.segs)
      <3>1. d.dec \ {0} \subseteq 1..a
        <4>1. CASE d.segs = <<>>
          BY <4>1 DEF Accepted, SegmentsAccepted
        <4>2. CASE d.segs # <<>>
          BY <4>2 DEF Accepted, SegmentsAccepted
        <4> QED BY <4>1, <4>2
      <3>2. u.segs # <<>>
        BY <1>1, <1>4
      <3> QED BY <1>1, <1>2, <1>4, <3>1, <3>2
    <2> QED BY <2>1, <2>2 DEF SegmentsAccepted
  <1>8. \A i \in 1..Len(u.rows) : RowHeld(u, u.rows[i])
    <2>1. \A i \in 1..Len(d.rows) : RowHeld(d, d.rows[i])
      BY DEF Accepted
    <2>2. CASE d.segs = <<>>
      <3>1. \A i \in 1..Len(d.rows) : FALSE
        BY <2>1, <2>2 DEF RowHeld, RowLinked
      <3> QED BY <3>1, <1>2 DEF SameRecords
    <2>3. CASE d.segs # <<>>
      <3>1. \A from, to \in Nat : from < seg.from /\ Held(d, from, to)
                                  => Held(u, from, to)
        BY <1>2, <1>3, <2>3, InOneAfterBegin
      <3>2. ASSUME NEW i \in 1..Len(d.rows)
            PROVE  Held(u, d.rows[i].from, d.rows[i].to)
        <4>1. d.rows[i].from \in Nat /\ d.rows[i].to \in Nat
          BY RowTypes
        <4>2. d.rows[i].from < d.rows[i].to /\ d.rows[i].to <= t
          BY DEF Forward, Within
        <4>3. Held(d, d.rows[i].from, d.rows[i].to)
          BY <2>1 DEF RowHeld
        <4> QED BY <1>1, <3>1, <4>1, <4>2, <4>3
      <3>3. ASSUME NEW p \in DOMAIN d.power, Held(d, d.power[p].from, d.power[p].to)
            PROVE  Held(u, d.power[p].from, d.power[p].to)
        <4>1. d.power[p].from \in Nat /\ d.power[p].to \in Nat
          BY PowerTypes
        <4>2. d.power[p].from < d.power[p].to /\ d.power[p].to <= t
          BY DEF Forward, Within
        <4> QED BY <1>1, <3>1, <3>3, <4>1, <4>2
      <3>4. u.segs # <<>>
        BY <1>1, <1>4
      <3> QED BY <1>2, <1>3, <2>1, <3>2, <3>3, <3>4, RowsStayAccepted
    <2> QED BY <2>2, <2>3
  <1>9. Accepted(k, u)
    <2>1. u.segs # <<>> /\ u.status
      BY <1>1, <1>2, <1>4
    <2>2. u.rows = d.rows /\ u.pkts = d.pkts /\ u.recs = d.recs
      BY <1>2 DEF SameRecords
    <2>3. RowsOrdered(u)
      <3>1. RowsOrdered(d)
        BY DEF Accepted
      <3> QED BY <2>2, <3>1 DEF RowsOrdered
    <2>4. k = "rak" => u.pkts = Len(u.recs)
      BY <2>2 DEF Accepted
    <2>5. ASSUME NEW i \in 1..Len(d.recs) PROVE Held(u, d.recs[i], d.recs[i])
      <3>1. d.recs[i] \in Nat /\ d.recs[i] <= t /\ Held(d, d.recs[i], d.recs[i])
        BY RecTypes DEF Accepted, Within
      <3>2. d.segs # <<>>
        <4>1. d.recs # <<>>
          OBVIOUS
        <4> QED BY <4>1 DEF Accepted
      <3>3. CASE d.recs[i] < seg.from
        BY <1>2, <1>3, <3>1, <3>2, <3>3, InOneAfterBegin
      <3>4. CASE d.recs[i] = seg.from
        <4> DEFINE l == Len(u.segs)
                   f == seg.from
        <4>1. OpenSince(u, l, f) /\ f \in Nat /\ f <= f
          BY <1>1, <1>4 DEF OpenSince
        <4> HIDE DEF l, f
        <4>2. Held(u, f, f)
          BY <1>3, <4>1, InOpenSegment
        <4> QED BY <3>4, <4>2 DEF f
      <3> QED BY <1>1, <3>1, <3>3, <3>4
    <2>6. u.segs[1].from = 0
      <3>1. CASE d.segs = <<>>
        BY <1>4, <3>1
      <3>2. CASE d.segs # <<>>
        <4>1. 1 \in 1..a /\ d.segs[1].from = 0
          BY <1>1, <3>2 DEF Accepted
        <4> QED BY <1>4, <4>1
      <3> QED BY <3>1, <3>2
    <2> QED BY <1>7, <1>8, <2>1, <2>2, <2>3, <2>4, <2>5, <2>6 DEF Accepted
  <1>10. Forward(u) /\ u.rows = d.rows /\ u.power = d.power /\ u.recs = d.recs
    BY <1>2 DEF Forward, SameRecords
  <1>11. Within(u, seg.from, n)
    <2>1. ASSUME NEW i \in 1..Len(u.segs) PROVE u.segs[i].to <= seg.from
      <3>1. CASE i = a + 1
        BY <1>1, <1>4, <3>1
      <3>2. CASE i # a + 1
        <4>1. i \in 1..a
          BY <1>1, <1>4, <3>2
        <4>2. d.segs[i].to <= t /\ d.segs[i].to \in Nat
          BY <4>1, SegTypes DEF Within
        <4>3. u.segs[i] = d.segs[i]
          BY <1>4, <4>1
        <4> QED BY <1>1, <4>2, <4>3
      <3> QED BY <3>1, <3>2
    <2>2. ASSUME NEW i \in 1..Len(u.rows) PROVE u.rows[i].to <= seg.from
      <3>1. d.rows[i].to <= t /\ d.rows[i].to \in Nat
        BY <1>10, RowTypes DEF Within
      <3> QED BY <1>1, <1>10, <3>1
    <2>3. ASSUME NEW p \in DOMAIN u.power PROVE u.power[p].to <= seg.from /\ p \in 1..n
      <3>1. d.power[p].to <= t /\ d.power[p].to \in Nat /\ p \in 1..n
        BY <1>10, PowerTypes DEF Within
      <3> QED BY <1>1, <1>10, <3>1
    <2>4. ASSUME NEW i \in 1..Len(u.recs) PROVE u.recs[i] <= seg.from
      <3>1. d.recs[i] <= t /\ d.recs[i] \in Nat
        BY <1>10, RecTypes DEF Within
      <3> QED BY <1>1, <1>10, <3>1
    <2> QED BY <2>1, <2>2, <2>3, <2>4 DEF Within
  <1>12. OpenSince(u, Len(u.segs), seg.from)
    BY <1>1, <1>4 DEF OpenSince
  <1>13. Len(u.segs) # 0 /\ Covered(u)
    <2>1. Len(u.segs) = a + 1 /\ u.segs[a + 1].to = seg.from
      BY <1>4
    <2> QED BY <1>1, <1>11, <2>1 DEF Within, Covered
  <1> QED BY <1>9, <1>10, <1>11, <1>12, <1>13

\* The fields that the records of an open acquisition leave alone.
SameSetup(d, e) ==
  /\ e.segs = d.segs /\ e.dec = d.dec /\ e.status = d.status /\ e.elapsed = d.elapsed

LEMMA SetupKept ==
  ASSUME NEW d, NEW e, SameSetup(d, e)
  PROVE  /\ SegmentsAccepted(d) => SegmentsAccepted(e)
         /\ \A from, to : Held(e, from, to) <=> Held(d, from, to)
         /\ \A n, t : OpenSince(d, n, t) => OpenSince(e, n, t)
  <1>1. \A t : HolderAt(e, t) = HolderAt(d, t)
    BY DEF HolderAt, SameSetup
  <1>2. SegmentsAccepted(d) => SegmentsAccepted(e)
    BY DEF SegmentsAccepted, SameSetup
  <1>3. \A from, to : Held(e, from, to) <=> Held(d, from, to)
    BY <1>1 DEF Held, SameSetup
  <1>4. \A n, t : OpenSince(d, n, t) => OpenSince(e, n, t)
    BY DEF OpenSince, SameSetup
  <1> QED BY <1>2, <1>3, <1>4

\* append(SpectrumTile), compact: the saved power block is the open one, longer,
\* or a new one in the open acquisition.
LEMMA BlockAccepted ==
  ASSUME NEW k, NEW n, NEW s \in Nat, NEW d \in DbType, NEW b \in BlockType, NEW u \in DbType,
         SameSetup(d, u), u.pos = d.pos, u.rows = d.rows, u.recs = d.recs, u.pkts = d.pkts,
         u.power = PutBlock(d.power, b), OpenSince(d, n, s), s <= b.from, b.from < b.to,
         b.to - b.from <= BlockSpan,
         b.id \in DOMAIN d.power => d.power[b.id].from = b.from /\ d.power[b.id].to <= b.to,
         Accepted(k, d), Forward(d)
  PROVE  Accepted(k, u) /\ Forward(u)
  <1> DEFINE span == [from |-> b.from, to |-> b.to]
  <1>1. /\ DOMAIN u.power = DOMAIN d.power \cup {b.id} /\ u.power[b.id] = span
        /\ \A p \in DOMAIN d.power : p # b.id => u.power[p] = d.power[p]
    BY DEF PutBlock
  <1>2. b.id \in Nat /\ b.from \in Nat /\ b.to \in Nat /\ span.from = b.from /\ span.to = b.to
    BY DEF BlockType
  <1> HIDE DEF span
  <1>3. \A from, to : Held(u, from, to) <=> Held(d, from, to)
    BY SetupKept
  <1>4. Held(u, b.from, b.to)
    BY <1>2, <1>3, InOpenSegment
  <1>5. ASSUME NEW i \in 1..Len(u.rows) PROVE RowHeld(u, u.rows[i])
    <2> DEFINE r == d.rows[i]
    <2>1. r = u.rows[i] /\ RowHeld(d, r)
      BY DEF Accepted
    <2>2. r.from \in Nat /\ r.to \in Nat /\ r.power \in Nat
      BY RowTypes
    <2> HIDE DEF r
    <2>3. u.segs # <<>> /\ Held(u, r.from, r.to) /\ r.fix \in 0..Len(u.pos)
      BY <1>3, <2>1 DEF RowHeld, RowLinked, SameSetup
    <2>4. ASSUME r.power # 0
          PROVE  /\ r.power \in DOMAIN u.power
                 /\ u.power[r.power].from <= r.from /\ r.to <= u.power[r.power].to
                 /\ u.power[r.power].to - u.power[r.power].from <= BlockSpan
                 /\ Held(u, u.power[r.power].from, u.power[r.power].to)
      <3>1. /\ r.power \in DOMAIN d.power
            /\ d.power[r.power].from <= r.from /\ r.to <= d.power[r.power].to
            /\ d.power[r.power].to - d.power[r.power].from <= BlockSpan
            /\ Held(d, d.power[r.power].from, d.power[r.power].to)
        BY <2>1, <2>4 DEF RowHeld, RowLinked
      <3>2. CASE r.power = b.id
        <4>1. d.power[r.power].from = b.from /\ d.power[r.power].to <= b.to
              /\ d.power[r.power].to \in Nat
          BY <3>1, <3>2, PowerTypes
        <4> QED BY <1>1, <1>2, <1>4, <2>2, <3>1, <3>2, <4>1
      <3>3. CASE r.power # b.id
        BY <1>1, <1>3, <3>1, <3>3
      <3> QED BY <3>2, <3>3
    <2>5. RowHeld(u, r)
      BY <2>3, <2>4 DEF RowHeld, RowLinked
    <2> QED BY <2>1, <2>5
  <1>6. Accepted(k, u)
    <2>1. SegmentsAccepted(u) /\ u.status
      BY SetupKept DEF Accepted, SameSetup
    <2>2. RowsOrdered(u)
      BY DEF Accepted, RowsOrdered
    <2>3. /\ k = "rak" => u.pkts = Len(u.recs)
          /\ u.recs # <<>> => u.segs # <<>>
          /\ u.segs # <<>> => u.segs[1].from = 0
      BY DEF Accepted, SameSetup
    <2>4. \A i \in 1..Len(u.recs) : Held(u, u.recs[i], u.recs[i])
      BY <1>3 DEF Accepted
    <2> QED BY <1>5, <2>1, <2>2, <2>3, <2>4 DEF Accepted
  <1>7. Forward(u)
    <2>1. ASSUME NEW p \in DOMAIN u.power PROVE u.power[p].from < u.power[p].to
      BY <1>1, <1>2 DEF Forward
    <2>2. \A i \in 1..Len(u.rows) : u.rows[i].from < u.rows[i].to
      BY DEF Forward
    <2> QED BY <2>1, <2>2 DEF Forward
  <1> QED BY <1>6, <1>7

\* A row in its power block, or without one.
RowInBlock(d, r) ==
  r.power # 0 => /\ r.power \in DOMAIN d.power
                 /\ d.power[r.power].from <= r.from /\ r.to <= d.power[r.power].to
                 /\ d.power[r.power].to - d.power[r.power].from <= BlockSpan
                 /\ Held(d, d.power[r.power].from, d.power[r.power].to)

\* A tile or scan of the open acquisition, after those of its board.
LEMMA RowAppended ==
  ASSUME NEW k, NEW n, NEW s \in Nat, NEW d \in DbType, NEW row \in RowType, NEW u \in DbType,
         SameSetup(d, u), u.pos = d.pos, u.power = d.power, u.recs = d.recs, u.pkts = d.pkts,
         u.rows = Append(d.rows, row), OpenSince(d, n, s), s <= row.from, row.from < row.to,
         row.fix \in 0..Len(d.pos), RowInBlock(d, row),
         \A i \in 1..Len(d.rows) : d.rows[i].board = row.board => d.rows[i].to <= row.from,
         Accepted(k, d), Forward(d)
  PROVE  Accepted(k, u) /\ Forward(u)
  <1> DEFINE m == Len(d.rows)
  <1>1. /\ m \in Nat /\ Len(u.rows) = m + 1 /\ u.rows[m + 1] = row
        /\ \A i \in 1..m : u.rows[i] = d.rows[i]
    <2>1. d.rows \in Seq(RowType)
      BY DEF DbType
    <2> QED BY <2>1, AppendProperties
  <1>2. row.from \in Nat /\ row.to \in Nat
    BY DEF RowType
  <1>3. \A from, to : Held(u, from, to) <=> Held(d, from, to)
    BY SetupKept
  <1>4. Held(u, row.from, row.to) /\ d.segs # <<>>
    <2>1. row.from <= row.to
      BY <1>2
    <2>2. Held(d, row.from, row.to) /\ d.segs # <<>>
      BY <1>2, <2>1, InOpenSegment
    <2> QED BY <1>3, <2>2
  <1>5. RowHeld(u, row)
    BY <1>3, <1>4 DEF RowHeld, RowLinked, RowInBlock, SameSetup
  <1>a. \A i \in 1..m : RowHeld(d, d.rows[i])
    BY DEF Accepted
  <1>b. \A i, j \in 1..m :
          (i < j /\ d.rows[i].board = d.rows[j].board) => d.rows[i].to <= d.rows[j].from
    BY DEF Accepted, RowsOrdered
  <1>c. \A i \in 1..m : d.rows[i].board = row.board => d.rows[i].to <= row.from
    OBVIOUS
  <1>d. \A i \in 1..m : d.rows[i].from < d.rows[i].to
    BY DEF Forward
  <1> HIDE DEF m
  <1>e. \A i \in 1..(m + 1) : i \in 1..m \/ i = m + 1
    BY <1>1
  <1>6. ASSUME NEW r, RowHeld(d, r) PROVE RowHeld(u, r)
    BY <1>3, <1>6 DEF RowHeld, RowLinked, SameSetup
  <1>7. \A i \in 1..Len(u.rows) : RowHeld(u, u.rows[i])
    BY <1>1, <1>5, <1>6, <1>a, <1>e
  <1>8. RowsOrdered(u)
    <2>1. ASSUME NEW i \in 1..(m + 1), NEW j \in 1..(m + 1), i < j,
                 u.rows[i].board = u.rows[j].board
          PROVE  u.rows[i].to <= u.rows[j].from
      <3>1. i \in 1..m
        BY <1>1, <2>1
      <3>2. CASE j = m + 1
        BY <1>1, <1>c, <2>1, <3>1, <3>2
      <3>3. CASE j \in 1..m
        BY <1>1, <1>b, <2>1, <3>1, <3>3
      <3> QED BY <1>e, <3>2, <3>3
    <2> QED BY <1>1, <2>1 DEF RowsOrdered
  <1>9. SegmentsAccepted(u) /\ u.status
    BY SetupKept DEF Accepted, SameSetup
  <1>10. /\ k = "rak" => u.pkts = Len(u.recs)
         /\ u.recs # <<>> => u.segs # <<>>
         /\ u.segs # <<>> => u.segs[1].from = 0
         /\ \A i \in 1..Len(u.recs) : Held(u, u.recs[i], u.recs[i])
    BY <1>3 DEF Accepted, SameSetup
  <1>11. Accepted(k, u)
    BY <1>7, <1>8, <1>9, <1>10 DEF Accepted
  <1>12. Forward(u)
    <2>1. \A i \in 1..Len(u.rows) : u.rows[i].from < u.rows[i].to
      BY <1>1, <1>d, <1>e
    <2> QED BY <2>1 DEF Forward
  <1> QED BY <1>11, <1>12

-----------------------------------------------------------------------------
(* Every step keeps the recording readable.                                *)

LEMMA ElapsedGrows ==
  ASSUME TypeOK, TypeOK', kind' = kind, eng'.clock >= eng.clock, eng'.meas >= eng.meas,
         eng'.start >= eng.start
  PROVE  Elapsed \in Nat /\ Elapsed' \in Nat /\ Elapsed <= Elapsed'
  <1>1. /\ eng.clock \in Nat /\ eng.meas \in Nat /\ eng.start \in Nat
        /\ eng'.clock \in Nat /\ eng'.meas \in Nat /\ eng'.start \in Nat
    BY DEF TypeOK, EngType
  <1> QED BY <1>1 DEF Elapsed, Larger

LEMMA StartedBefore ==
  ASSUME TypeOK, kind = "rak" => eng.start <= eng.clock
  PROVE  eng.start <= Elapsed /\ eng.start \in Nat /\ Elapsed \in Nat
  <1>1. eng.clock \in Nat /\ eng.meas \in Nat /\ eng.start \in Nat
    BY DEF TypeOK, EngType
  <1> QED BY <1>1 DEF Elapsed, Larger

LEMMA WithinLater ==
  ASSUME NEW d \in DbType, NEW t \in Nat, NEW u \in Nat, NEW n \in Nat, NEW m \in Nat,
         t <= u, n <= m, Within(d, t, n)
  PROVE  Within(d, u, m)
  <1>1. ASSUME NEW i \in 1..Len(d.segs) PROVE d.segs[i].to <= u
    <2>1. d.segs[i].to <= t /\ d.segs[i].to \in Nat
      BY SegTypes DEF Within
    <2> QED BY <2>1
  <1>2. ASSUME NEW i \in 1..Len(d.rows) PROVE d.rows[i].to <= u
    <2>1. d.rows[i].to <= t /\ d.rows[i].to \in Nat
      BY RowTypes DEF Within
    <2> QED BY <2>1
  <1>3. ASSUME NEW p \in DOMAIN d.power PROVE d.power[p].to <= u /\ p \in 1..m
    <2>1. d.power[p].to <= t /\ d.power[p].to \in Nat /\ p \in 1..n
      BY PowerTypes DEF Within
    <2> QED BY <2>1
  <1>4. ASSUME NEW i \in 1..Len(d.recs) PROVE d.recs[i] <= u
    <2>1. d.recs[i] <= t /\ d.recs[i] \in Nat
      BY RecTypes DEF Within
    <2> QED BY <2>1
  <1> QED BY <1>1, <1>2, <1>3, <1>4 DEF Within

LEMMA TilesLater ==
  ASSUME NEW d \in DbType, NEW t \in Nat, NEW u \in Nat, t <= u, TilesBy(d, t)
  PROVE  TilesBy(d, u)
  <1>1. ASSUME NEW i \in 1..Len(d.rows) PROVE d.rows[i].to <= u
    <2>1. d.rows[i].to <= t /\ d.rows[i].to \in Nat
      BY RowTypes DEF TilesBy
    <2> QED BY <2>1
  <1> QED BY <1>1 DEF TilesBy

\* A step of the engine alone: time passes, or the worker ends.
LEMMA EngineAlone ==
  ASSUME StoreInv, StoreInv', StoredInv, UNCHANGED <<kind, db, disk, mem, torn>>,
         eng'.clock >= eng.clock, eng'.meas = eng.meas, eng'.start = eng.start,
         Acquiring' => Acquiring, eng'.final => eng.final,
         eng'.phase # "new" => eng.phase # "new"
  PROVE  StoredInv'
  <1>1. TypeOK /\ TypeOK' /\ db \in DbType /\ disk \in DbType /\ mem.block.id \in Nat
        /\ eng.start \in Nat /\ eng.clock \in Nat /\ eng'.clock \in Nat /\ eng.meas \in Nat
    BY DEF StoreInv, TypeOK, MemType, BlockType, EngType
  <1>2. Elapsed \in Nat /\ Elapsed' \in Nat /\ Elapsed <= Elapsed'
    <2>1. eng'.meas >= eng.meas /\ eng'.start >= eng.start
      BY <1>1
    <2> QED BY <1>1, <2>1, ElapsedGrows
  <1>t. TornInv'
    BY DEF StoredInv, TornInv
  <1>3. CASE Acquiring' \/ eng'.final
    <2>1. Acquiring \/ eng.final
      BY <1>3
    <2>2. Within(db, Elapsed, mem.block.id) /\ Within(disk, Elapsed, mem.block.id)
      BY <2>1 DEF StoredInv
    <2>3. Within(db, Elapsed', mem.block.id) /\ Within(disk, Elapsed', mem.block.id)
      <3> DEFINE t == Elapsed
                 u == Elapsed'
                 n == mem.block.id
      <3>1. t \in Nat /\ u \in Nat /\ n \in Nat /\ t <= u /\ n <= n
        BY <1>1, <1>2
      <3>2. Within(db, t, n) /\ Within(disk, t, n)
        BY <2>2
      <3> HIDE DEF t, u, n
      <3>3. Within(db, u, n) /\ Within(disk, u, n)
        BY <1>1, <3>1, <3>2, WithinLater
      <3> QED BY <3>3 DEF u, n
    <2>4. kind = "rak" => eng'.start <= eng'.clock
      BY <1>1, <2>1 DEF StoredInv
    <2> QED BY <1>t, <2>1, <2>3, <2>4 DEF StoredInv
  <1>4. CASE ~(Acquiring' \/ eng'.final)
    BY <1>t, <1>4 DEF StoredInv
  <1> QED BY <1>3, <1>4

\* update() with at least the positions of the writing connection: committed,
\* or the batch is given up.
LEMMA UpdateStored ==
  ASSUME StoreInv, StoreInv', StoredInv, Acquiring, NEW d \in DbType, NEW m \in MemType,
         NEW final \in BOOLEAN, NEW ok, NEW ko, Update(d, m, final, ok, ko), kind' = kind, torn' = torn,
         MorePositions(db, d), m.acq = mem.acq, m.block = mem.block, m.prevEnd = mem.prevEnd,
         \A e \in {ok, ko} : e.clock = eng.clock /\ e.meas = eng.meas /\ e.start = eng.start,
         final => ok.phase = "idle",
         kind # "rak" => ko.phase = "idle"
  PROVE  StoredInv'
  <1>1. /\ TypeOK /\ TypeOK' /\ db \in DbType /\ disk \in DbType /\ kind \in Kinds
        /\ eng.failed \in BOOLEAN
    BY DEF StoreInv, TypeOK, EngType
  <1>2. eng' = ok \/ eng' = ko
    BY DEF Update
  <1>3. eng'.clock = eng.clock /\ eng'.meas = eng.meas /\ eng'.start = eng.start
    BY <1>2
  <1>4. Elapsed' = Elapsed
    BY <1>3 DEF Elapsed
  <1>5. mem'.block = mem.block /\ mem'.prevEnd = mem.prevEnd /\ mem'.acq = mem.acq
    <2>1. mem' = [m EXCEPT !.pending = FALSE]
      BY DEF Update
    <2> QED BY <2>1 DEF MemType
  <1>6. /\ Within(db, Elapsed, mem.block.id) /\ Within(disk, Elapsed, mem.block.id)
        /\ kind = "rak" => eng.start <= eng.clock
        /\ kind # "rak" => TilesBy(db, mem.prevEnd) /\ TilesBy(disk, mem.prevEnd)
        /\ OpenSince(db, mem.acq, eng.start) /\ OpenSince(disk, mem.acq, eng.start)
        /\ kind = "compact" => BlockOpen(db, mem.block, eng.start)
        /\ Accepted(kind, db) /\ Accepted(kind, disk) /\ Forward(db) /\ Forward(disk)
        /\ Len(db.segs) # 0
    BY DEF StoredInv
  <1>t. ~torn /\ Covered(disk)
    BY DEF StoredInv, TornInv, Acquiring
  <1>7. CASE db' = UpdatedDb(d, m, final, eng.failed) /\ disk' = db' /\ eng' = ok
    <2> DEFINE u == db'
    <2>1. /\ Accepted(kind, d) /\ Forward(d) /\ Within(d, Elapsed, mem.block.id)
          /\ OpenSince(d, m.acq, eng.start) /\ d.rows = db.rows /\ d.power = db.power
      BY <1>1, <1>6, PositionsAccepted DEF Forward, Within, OpenSince, MorePositions
    <2>2. eng.start <= Elapsed
      BY <1>1, <1>6, StartedBefore
    <2>3. u = UpdatedDb(d, m, final, eng.failed)
      BY <1>7
    <2> HIDE DEF u
    <2>4. /\ Accepted(kind, u) /\ Forward(u) /\ Within(u, Elapsed, mem.block.id)
          /\ u.rows = d.rows /\ u.power = d.power /\ Len(u.segs) # 0 /\ Covered(u)
          /\ ~final => OpenSince(u, m.acq, eng.start)
      BY <1>1, <2>1, <2>2, <2>3, UpdatedAccepted
    <2>5. Acquiring' => ~final
      BY <1>7 DEF Acquiring
    <2>6. TilesBy(db, mem.prevEnd) => TilesBy(u, mem.prevEnd)
      BY <2>1, <2>4 DEF TilesBy
    <2>7. BlockOpen(db, mem.block, eng.start) => BlockOpen(u, mem.block, eng.start)
      BY <2>1, <2>4 DEF BlockOpen
    <2>8. db' = u /\ disk' = u
      BY <1>7 DEF u
    <2>9. TornInv'
      BY <1>t, <2>4, <2>8 DEF TornInv
    <2> QED BY <1>3, <1>4, <1>5, <1>6, <2>4, <2>5, <2>6, <2>7, <2>8, <2>9 DEF StoredInv
  <1>8. CASE db' = disk /\ disk' = disk /\ eng' = ko
    <2>1. Acquiring' => kind = "rak"
      BY <1>8 DEF Acquiring
    <2>2. TornInv'
      BY <1>t, <1>8 DEF TornInv
    <2>3. Len(disk.segs) # 0
      BY <1>6 DEF OpenSince
    <2> QED BY <1>3, <1>4, <1>5, <1>6, <1>8, <2>1, <2>2, <2>3 DEF StoredInv
  <1> QED BY <1>7, <1>8 DEF Update

\* A closed power block is open for no one.
LEMMA ClosedBlock ==
  ASSUME NEW b \in BlockType
  PROVE  /\ CloseBlock(b) \in BlockType /\ CloseBlock(b).id = b.id
         /\ \A d, t : BlockOpen(d, CloseBlock(b), t)
  <1>1. /\ CloseBlock(b) \in BlockType /\ CloseBlock(b).id = b.id
        /\ CloseBlock(b).from = 0 /\ CloseBlock(b).to = 0
    BY DEF CloseBlock, NoBlock, BlockType
  <1> QED BY <1>1 DEF BlockOpen

\* begin_acquisition() when it does not throw.
LEMMA BeginStored ==
  ASSUME StoreInv', kind' = kind, kind \in Kinds, BeginSucceeds, NEW t \in Nat,
         NEW d \in DbType, NEW m \in MemType, NEW e \in EngType, BeginAcquisition(d, m, e),
         Accepted(kind, d), Forward(d), Within(d, t, m.block.id), t <= e.start,
         kind = "rak" => e.start <= e.clock,
         kind # "rak" => TilesBy(d, m.prevEnd),
         d.segs = <<>> => e.start = 0
  PROVE  StoredInv'
  <1> DEFINE seg == [from |-> e.start, to |-> e.start, final |-> FALSE]
             m1  == [Batch(m) EXCEPT !.block = CloseBlock(@)]
             segs == e.segs + 1
             acq == Len(db'.segs)
  <1>1. ~Happens("begin")
    BY DEF BeginSucceeds, Happens
  <1>2. /\ db' = BeginDb(d, seg, 6) /\ disk' = db'
        /\ mem' = [m1 EXCEPT !.pending = FALSE, !.acq = acq]
        /\ eng' = [e EXCEPT !.phase = "starting", !.segs = segs, !.final = FALSE,
                            !.failed = FALSE]
        /\ torn' = FALSE
    BY <1>1 DEF BeginAcquisition
  <1>3. d.segs # <<>> => d.segs[Len(d.segs)].final
    BY DEF BeginAcquisition, Last
  <1>4. seg \in SegType /\ seg.from = e.start /\ seg.to = e.start /\ ~seg.final /\ e.start \in Nat
    BY DEF EngType, SegType
  <1> HIDE DEF seg, segs, acq
  <1>5. mem'.block = CloseBlock(m.block) /\ mem'.prevEnd = m.prevEnd /\ mem'.acq = acq
    <2>1. Batch(m) \in MemType /\ Batch(m).block = m.block /\ Batch(m).prevEnd = m.prevEnd
      BY DEF Batch, MemType
    <2>2. m1.block = CloseBlock(m.block) /\ m1.prevEnd = m.prevEnd /\ DOMAIN m1 = DOMAIN Batch(m)
      BY <2>1 DEF MemType
    <2>3. DOMAIN Batch(m) = {"pending", "acq", "prevEnd", "block", "cache"}
      BY <2>1 DEF MemType
    <2> HIDE DEF m1
    <2> QED BY <1>2, <2>2, <2>3
  <1>6. m.block \in BlockType /\ m.block.id \in Nat
    BY DEF MemType, BlockType
  <1>7. mem'.block.id = m.block.id /\ BlockOpen(db', mem'.block, eng'.start)
    BY <1>5, <1>6, ClosedBlock
  <1>8. /\ eng'.start = e.start /\ eng'.clock = e.clock /\ eng'.phase = "starting"
    BY <1>2 DEF EngType
  <1> DEFINE u == db'
  <1>9. u = BeginDb(d, seg, 6) /\ u \in DbType
    BY <1>2 DEF StoreInv, TypeOK
  <1> HIDE DEF u
  <1>10. /\ Accepted(kind, u) /\ Forward(u) /\ Within(u, seg.from, m.block.id)
         /\ u.rows = d.rows /\ OpenSince(u, Len(u.segs), seg.from)
         /\ Len(u.segs) # 0 /\ Covered(u)
    <2> DEFINE n == m.block.id
    <2>1. Within(d, t, n) /\ t <= seg.from /\ seg.to = seg.from
      BY <1>4
    <2> HIDE DEF n
    <2>2. /\ Accepted(kind, u) /\ Forward(u) /\ Within(u, seg.from, n)
          /\ u.rows = d.rows /\ OpenSince(u, Len(u.segs), seg.from)
          /\ Len(u.segs) # 0 /\ Covered(u)
      <3>1. BegunFrom(kind, n, t, d, seg, u)
        BY <1>3, <1>4, <1>9, <2>1 DEF BegunFrom
      <3> QED BY <3>1, BegunAccepted
    <2> QED BY <2>2 DEF n
  <1>11. kind # "rak" => TilesBy(u, m.prevEnd)
    BY <1>10 DEF TilesBy
  <1>12. e.start <= Elapsed' /\ Elapsed' \in Nat
    <2>1. e.start \in Nat /\ e.clock \in Nat /\ eng'.meas \in Nat
      BY DEF EngType, StoreInv, TypeOK
    <2>2. Elapsed' = IF kind = "rak" THEN e.clock ELSE Larger(eng'.meas, Larger(e.start, e.clock))
      BY <1>8 DEF Elapsed
    <2> QED BY <2>1, <2>2 DEF Larger
  <1>13. Within(u, Elapsed', m.block.id)
    <2> DEFINE v == Elapsed'
               n == m.block.id
               f == seg.from
    <2>1. f \in Nat /\ v \in Nat /\ n \in Nat /\ f <= v /\ n <= n /\ Within(u, f, n)
      BY <1>4, <1>6, <1>10, <1>12
    <2> HIDE DEF v, n, f
    <2>2. Within(u, v, n)
      BY <1>9, <2>1, WithinLater
    <2> QED BY <2>2 DEF v, n
  <1>14. db' = u /\ disk' = u /\ acq = Len(u.segs)
    BY <1>2 DEF u, acq
  <1>15. TornInv'
    BY <1>2, <1>10, <1>14 DEF TornInv
  <1> QED BY <1>4, <1>5, <1>7, <1>8, <1>10, <1>11, <1>13, <1>14, <1>15 DEF StoredInv

LEMMA FreshAccepted ==
  ASSUME NEW k PROVE Accepted(k, FreshDb) /\ Forward(FreshDb) /\ Within(FreshDb, 0, 0)
                     /\ TilesBy(FreshDb, 0)
  <1> DEFINE d == FreshDb
  <1>1. /\ d.pos = <<>> /\ d.power = <<>> /\ d.rows = <<>> /\ d.recs = <<>> /\ d.pkts = 0
        /\ d.segs = <<>> /\ d.dec = {0} /\ d.status = TRUE
    BY DEF FreshDb
  <1> HIDE DEF d
  <1>2. Len(d.rows) = 0 /\ Len(d.segs) = 0 /\ Len(d.recs) = 0 /\ DOMAIN d.power = {}
    BY <1>1
  <1>3. Accepted(k, d)
    BY <1>1, <1>2 DEF Accepted, SegmentsAccepted, RowsOrdered
  <1>4. Forward(d) /\ Within(d, 0, 0) /\ TilesBy(d, 0)
    BY <1>1, <1>2 DEF Forward, Within, TilesBy
  <1> QED BY <1>3, <1>4 DEF d

LEMMA StartNewStored ==
  ASSUME StoreInv, StoreInv', StoredInv, BeginSucceeds, StartNew PROVE StoredInv'
  <1>1. kind' = kind /\ kind \in Kinds
    BY DEF StoreInv, TypeOK, StartNew
  <1> DEFINE fd == FreshDb
             fm == FreshMem
             fe == IdleEngine
  <1>2. fd \in DbType /\ fm \in MemType /\ fe \in EngType
    BY FreshTypes
  <1>3. BeginAcquisition(fd, fm, fe)
    BY DEF StartNew
  <1>4. fe.start = 0 /\ fe.clock = 0 /\ fm.block.id = 0 /\ fm.prevEnd = 0
    BY DEF IdleEngine, FreshMem, NoBlock
  <1>5. Accepted(kind, fd) /\ Forward(fd) /\ Within(fd, 0, fm.block.id) /\ TilesBy(fd, fm.prevEnd)
    BY <1>4, FreshAccepted
  <1> HIDE DEF fd, fm, fe
  <1>6. 0 \in Nat /\ 0 <= fe.start /\ fe.start <= fe.clock /\ (fd.segs = <<>> => fe.start = 0)
    BY <1>4
  <1> QED BY <1>1, <1>2, <1>3, <1>5, <1>6, BeginStored

LEMMA ResumeStored ==
  ASSUME StoreInv, StoreInv', StoredInv, BeginSucceeds, Resume PROVE StoredInv'
  <1> DEFINE start == RunStart(TRUE)
             gap   == kind # "rak" /\ start > db.segs[Len(db.segs)].to
             m     == IF gap THEN [Batch(mem) EXCEPT !.block = CloseBlock(@)] ELSE mem
             e     == [eng EXCEPT !.start = start, !.saved = FALSE]
             t     == Elapsed
  <1>1. /\ db \in DbType /\ mem \in MemType /\ eng \in EngType /\ TypeOK
        /\ kind' = kind /\ kind \in Kinds /\ eng.final
    BY DEF StoreInv, TypeOK, Resume, Verified
  <1>2. /\ start \in Nat /\ t \in Nat /\ t <= start
        /\ kind = "rak" => start = eng.clock
    <2>1. Elapsed \in Nat /\ eng.clock \in Nat
      BY <1>1, ElapsedType DEF EngType
    <2>2. kind = "rak" => Elapsed = eng.clock
      BY DEF Elapsed
    <2> QED BY <2>1, <2>2 DEF RunStart, Larger
  <1>3. BeginAcquisition(db, m, e)
    BY DEF Resume
  <1>4. /\ Accepted(kind, db) /\ Forward(db) /\ Within(db, t, mem.block.id)
        /\ kind # "rak" => TilesBy(db, mem.prevEnd)
        /\ db.segs # <<>>
    BY <1>1 DEF StoredInv
  <1> HIDE DEF start, t
  <1>5. m \in MemType /\ m.block.id = mem.block.id /\ m.prevEnd = mem.prevEnd
    <2>1. Batch(mem) \in MemType /\ Batch(mem).block = mem.block
          /\ Batch(mem).prevEnd = mem.prevEnd
      BY <1>1 DEF Batch, MemType
    <2> DEFINE c == CloseBlock(Batch(mem).block)
    <2>2. c \in BlockType /\ c.id = mem.block.id
      BY <1>1, <2>1, ClosedBlock DEF MemType
    <2>3. m = IF gap THEN [Batch(mem) EXCEPT !.block = c] ELSE mem
      OBVIOUS
    <2> HIDE DEF c, m, gap
    <2> QED BY <1>1, <2>1, <2>2, <2>3 DEF MemType
  <1> HIDE DEF m
  <1>6. e \in EngType /\ e.start = start /\ e.clock = eng.clock /\ eng.clock \in Nat
    BY <1>1, <1>2 DEF EngType
  <1> HIDE DEF e
  <1>7. /\ Within(db, t, m.block.id) /\ t <= e.start
        /\ kind = "rak" => e.start <= e.clock
        /\ kind # "rak" => TilesBy(db, m.prevEnd)
    BY <1>2, <1>4, <1>5, <1>6
  <1> QED BY <1>1, <1>2, <1>3, <1>4, <1>5, <1>6, <1>7, BeginStored

LEMMA WorkerStartsStored ==
  ASSUME StoreInv, StoreInv', StoredInv, WorkerStarts PROVE StoredInv'
  <1>1. /\ db \in DbType /\ mem \in MemType /\ eng \in EngType /\ kind' = kind /\ torn' = torn
        /\ eng.phase = "starting" /\ Acquiring
    BY DEF StoreInv, TypeOK, WorkerStarts, Acquiring
  <1>2. CASE eng' = [eng EXCEPT !.phase = "run"] /\ UNCHANGED <<db, disk, mem>>
    <2>1. /\ eng'.clock = eng.clock /\ eng'.meas = eng.meas /\ eng'.start = eng.start
          /\ eng'.final = eng.final /\ eng.clock \in Nat /\ eng.phase # "new"
      BY <1>1, <1>2 DEF EngType
    <2>2. eng'.clock >= eng.clock
      BY <2>1
    <2> QED BY <1>1, <1>2, <2>1, <2>2, EngineAlone
  <1>3. CASE Update(db, mem, TRUE,
               [[eng EXCEPT !.phase = "idle", !.failed = TRUE] EXCEPT !.final = TRUE],
               [eng EXCEPT !.phase = "idle", !.failed = TRUE])
    <2> DEFINE ko == [eng EXCEPT !.phase = "idle", !.failed = TRUE]
               ok == [ko EXCEPT !.final = TRUE]
    <2>1. /\ ko \in EngType /\ ko.phase = "idle" /\ ko.clock = eng.clock
          /\ ko.meas = eng.meas /\ ko.start = eng.start
      BY <1>1 DEF EngType
    <2> HIDE DEF ko
    <2>2. /\ ok.phase = "idle" /\ ok.clock = eng.clock /\ ok.meas = eng.meas
          /\ ok.start = eng.start
      BY <2>1 DEF EngType
    <2> HIDE DEF ok
    <2>3. Update(db, mem, TRUE, ok, ko)
      BY <1>3 DEF ok, ko
    <2>4. MorePositions(db, db)
      BY <1>1 DEF MorePositions, DbType
    <2>5. \A e \in {ok, ko} : e.clock = eng.clock /\ e.meas = eng.meas /\ e.start = eng.start
      BY <2>1, <2>2
    <2> QED BY <1>1, <2>1, <2>2, <2>3, <2>4, <2>5, UpdateStored
  <1> QED BY <1>2, <1>3 DEF WorkerStarts

LEMMA FailedKeeps ==
  ASSUME TypeOK
  PROVE  /\ Failed(eng).clock = eng.clock /\ Failed(eng).meas = eng.meas
         /\ Failed(eng).start = eng.start
         /\ kind # "rak" => Failed(eng).phase = "idle"
  BY DEF TypeOK, EngType, Failed

LEMMA CheckpointStored ==
  ASSUME StoreInv, StoreInv', StoredInv, Checkpoint PROVE StoredInv'
  <1>1. /\ db \in DbType /\ mem \in MemType /\ eng \in EngType /\ kind' = kind /\ torn' = torn /\ TypeOK
        /\ Acquiring
    BY DEF StoreInv, TypeOK, Checkpoint, Acquiring
  <1>2. PICK f \in NearFixes :
          LET r == IF kind = "detailed" THEN [db |-> db, mem |-> mem, id |-> 0]
                   ELSE EnsureFix(db, mem, f)
          IN  Update(r.db, r.mem, FALSE, eng, Failed(eng))
    BY DEF Checkpoint
  <1> DEFINE r == IF kind = "detailed" THEN [db |-> db, mem |-> mem, id |-> 0]
                  ELSE EnsureFix(db, mem, f)
             ko == Failed(eng)
  <1>3. /\ r.db \in DbType /\ r.mem \in MemType /\ MorePositions(db, r.db)
        /\ r.mem.acq = mem.acq /\ r.mem.block = mem.block /\ r.mem.prevEnd = mem.prevEnd
    <2>1. CASE kind = "detailed"
      <3>1. MorePositions(db, db)
        BY <1>1 DEF MorePositions, DbType
      <3> QED BY <1>1, <2>1, <3>1
    <2>2. CASE kind # "detailed"
      <3>1. f \in Fixes
        BY <1>2, <2>2 DEF NearFixes
      <3> QED BY <1>1, <2>2, <3>1, EnsureFixType, EnsureFixPositions
    <2> QED BY <2>1, <2>2
  <1>4. Update(r.db, r.mem, FALSE, eng, ko)
    BY <1>2
  <1>5. /\ ko.clock = eng.clock /\ ko.meas = eng.meas /\ ko.start = eng.start
        /\ kind # "rak" => ko.phase = "idle"
    BY <1>1, FailedKeeps
  <1> HIDE DEF r, ko
  <1>6. \A e \in {eng, ko} : e.clock = eng.clock /\ e.meas = eng.meas /\ e.start = eng.start
    BY <1>5
  <1> DEFINE d == r.db
             m == r.mem
  <1>7. /\ d \in DbType /\ m \in MemType /\ MorePositions(db, d) /\ Update(d, m, FALSE, eng, ko)
        /\ m.acq = mem.acq /\ m.block = mem.block /\ m.prevEnd = mem.prevEnd
    BY <1>3, <1>4
  <1> HIDE DEF d, m
  <1>8. FALSE \in BOOLEAN /\ (FALSE => eng.phase = "idle")
    OBVIOUS
  <1> QED BY <1>1, <1>5, <1>6, <1>7, <1>8, UpdateStored

LEMMA FinalSaveStored ==
  ASSUME StoreInv, StoreInv', StoredInv, FinalSave PROVE StoredInv'
  <1>1. /\ db \in DbType /\ mem \in MemType /\ eng \in EngType /\ kind' = kind /\ torn' = torn
        /\ Acquiring
    BY DEF StoreInv, TypeOK, FinalSave, Acquiring
  <1> DEFINE e == [eng EXCEPT !.phase = "idle"]
             ok == [e EXCEPT !.final = TRUE]
             ko == [e EXCEPT !.failed = TRUE, !.final = FALSE]
  <1>2. Update(db, mem, TRUE, ok, ko)
    BY DEF FinalSave
  <1>3. /\ e \in EngType /\ e.phase = "idle" /\ e.clock = eng.clock /\ e.meas = eng.meas
        /\ e.start = eng.start
    BY <1>1 DEF EngType
  <1> HIDE DEF e
  <1>4. /\ ok.phase = "idle" /\ ok.clock = eng.clock /\ ok.meas = eng.meas
        /\ ok.start = eng.start
    BY <1>3 DEF EngType
  <1>5. /\ ko.phase = "idle" /\ ko.clock = eng.clock /\ ko.meas = eng.meas
        /\ ko.start = eng.start
    BY <1>3 DEF EngType
  <1> HIDE DEF ok, ko
  <1>6. MorePositions(db, db)
    BY <1>1 DEF MorePositions, DbType
  <1>7. \A x \in {ok, ko} : x.clock = eng.clock /\ x.meas = eng.meas /\ x.start = eng.start
    BY <1>4, <1>5
  <1> QED BY <1>1, <1>2, <1>4, <1>5, <1>6, <1>7, UpdateStored

LEMMA EngineStored ==
  ASSUME StoreInv, StoreInv', StoredInv, Tick \/ StopRun \/ Save PROVE StoredInv'
  <1>1. eng \in EngType /\ UNCHANGED <<kind, db, disk, mem, torn>>
    BY DEF StoreInv, TypeOK, Tick, StopRun, Save
  <1>2. /\ eng'.clock >= eng.clock /\ eng'.meas = eng.meas /\ eng'.start = eng.start
        /\ eng'.final = eng.final
        /\ eng'.phase = eng.phase \/ (eng.phase = "run" /\ eng'.phase = "drain")
    <2>0. eng.clock \in Nat
      BY <1>1 DEF EngType
    <2>1. CASE Tick
      <3> DEFINE c == eng.clock + 1
      <3>1. c >= eng.clock
        BY <2>0
      <3>2. eng' = [eng EXCEPT !.clock = c, !.saved = FALSE]
        BY <2>1 DEF Tick
      <3> HIDE DEF c
      <3> QED BY <1>1, <3>1, <3>2 DEF EngType
    <2>2. CASE StopRun
      <3>1. eng' = [eng EXCEPT !.phase = "drain"] /\ eng.phase = "run"
        BY <2>2 DEF StopRun
      <3> QED BY <1>1, <2>0, <3>1 DEF EngType
    <2>3. CASE Save
      <3> DEFINE v == Verified
      <3>1. eng' = [eng EXCEPT !.saved = v]
        BY <2>3 DEF Save
      <3> HIDE DEF v
      <3> QED BY <1>1, <2>0, <3>1 DEF EngType
    <2> QED BY <2>1, <2>2, <2>3
  <1>3. (Acquiring' => Acquiring) /\ (eng'.phase # "new" => eng.phase # "new")
    BY <1>2 DEF Acquiring
  <1> QED BY <1>1, <1>2, <1>3, EngineAlone

\* The power block c of a tile from..to: the open one, b, longer, or the next one.
NextOf(b, c, s, from, to) ==
  /\ c \in BlockType /\ c.to = to /\ s <= c.from /\ c.from <= from
  /\ c.to - c.from <= BlockSpan /\ c.id >= b.id
  /\ \/ c.id = b.id /\ c.from = b.from /\ b.to > b.from /\ b.to <= c.to
     \/ c.id = b.id + 1

LEMMA NextBlockIs ==
  ASSUME NEW b \in BlockType, NEW s \in Nat, NEW from \in Nat, s <= from, NEW d,
         BlockOpen(d, b, s)
  PROVE  NextOf(b, NextBlock(b, from, from + 1), s, from, from + 1)
  <1> DEFINE to == from + 1
             c == NextBlock(b, from, to)
  <1> SUFFICES NextOf(b, c, s, from, to)
    OBVIOUS
  <1>0. b.to > b.from => b.from >= s
    BY DEF BlockOpen
  <1>1. b.id \in Nat /\ b.from \in Nat /\ b.to \in Nat /\ to \in Nat /\ BlockSpan \in Nat \ {0}
    BY StoreAssumption DEF BlockType
  <1>2. CASE b.to > b.from /\ b.to = from /\ to - b.from <= BlockSpan
    <2>1. c = [b EXCEPT !.to = to]
      BY <1>2 DEF NextBlock
    <2>2. c \in BlockType /\ c.id = b.id /\ c.from = b.from /\ c.to = to
      BY <1>1, <2>1 DEF BlockType
    <2> HIDE DEF c
    <2> QED BY <1>0, <1>1, <1>2, <2>2 DEF NextOf
  <1>3. CASE ~(b.to > b.from /\ b.to = from /\ to - b.from <= BlockSpan)
    <2> DEFINE n == b.id + 1
    <2>1. c = [id |-> n, from |-> from, to |-> to] /\ n \in Nat /\ n >= b.id
      BY <1>1, <1>3 DEF NextBlock
    <2>2. c \in BlockType /\ c.id = n /\ c.from = from /\ c.to = to
      <3> HIDE DEF n
      <3> QED BY <1>1, <2>1 DEF BlockType
    <2>3. c.to - c.from <= BlockSpan /\ c.from <= from /\ s <= c.from
      BY <1>1, <2>2
    <2> HIDE DEF c
    <2> QED BY <2>1, <2>2, <2>3 DEF NextOf
  <1> QED BY <1>2, <1>3

\* What saving power block c leaves in the database u, for a tile from..c.to.
BlockSaved(k, d, u, b, c, s, from) ==
  /\ Accepted(k, u) /\ Forward(u) /\ u \in DbType /\ SameSetup(d, u)
  /\ u.pos = d.pos /\ u.rows = d.rows /\ u.recs = d.recs /\ u.pkts = d.pkts
  /\ DOMAIN u.power = DOMAIN d.power \cup {c.id}
  /\ u.power[c.id] = [from |-> c.from, to |-> c.to]
  /\ \A p \in DOMAIN d.power : p # c.id => u.power[p] = d.power[p]
  /\ c \in BlockType /\ c.to = from + 1 /\ s <= c.from /\ c.from <= from
  /\ c.to - c.from <= BlockSpan /\ c.id >= b.id /\ c.id >= 1

BlockPut(d, u, c) == u = [d EXCEPT !.power = PutBlock(@, c)]

LEMMA TileBlock ==
  ASSUME NEW k, NEW n, NEW s \in Nat, NEW t, NEW d \in DbType, NEW b \in BlockType,
         NEW from \in Nat, s <= from, Accepted(k, d), Forward(d), OpenSince(d, n, s),
         Within(d, t, b.id), BlockOpen(d, b, s),
         NEW c, c = NextBlock(b, from, from + 1),
         NEW u, BlockPut(d, u, c)
  PROVE  BlockSaved(k, d, u, b, c, s, from)
  <1> DEFINE to == from + 1
  <1>1. b.id \in Nat /\ b.from \in Nat /\ b.to \in Nat /\ to \in Nat /\ to = from + 1
    BY DEF BlockType
  <1>2. NextOf(b, c, s, from, to)
    BY NextBlockIs
  <1> HIDE DEF to
  <1>4. /\ c \in BlockType /\ c.to = to /\ s <= c.from /\ c.from <= from
        /\ c.to - c.from <= BlockSpan /\ c.id >= b.id
        /\ \/ c.id = b.id /\ c.from = b.from /\ b.to > b.from /\ b.to <= c.to
           \/ c.id = b.id + 1
    BY <1>2 DEF NextOf
  <1>5. c.id \in Nat /\ c.from \in Nat /\ c.to \in Nat
    BY <1>4 DEF BlockType
  <1>6. c.from < c.to
    BY <1>1, <1>4, <1>5
  <1>7. /\ c.id \in DOMAIN d.power => d.power[c.id].from = c.from /\ d.power[c.id].to <= c.to
        /\ c.id >= 1
    <2>1. CASE c.id = b.id /\ c.from = b.from /\ b.to > b.from /\ b.to <= c.to
      <3>1. b.id \in DOMAIN d.power /\ d.power[b.id] = [from |-> b.from, to |-> b.to]
        BY <2>1 DEF BlockOpen
      <3>2. b.id \in 1..b.id
        BY <3>1 DEF Within
      <3>3. d.power[b.id].from = b.from /\ d.power[b.id].to = b.to
        BY <3>1
      <3> QED BY <1>1, <2>1, <3>2, <3>3
    <2>2. CASE c.id = b.id + 1
      <3>1. c.id \notin 1..b.id /\ c.id >= 1
        BY <1>1, <2>2
      <3>2. c.id \notin DOMAIN d.power
        BY <3>1 DEF Within
      <3> QED BY <3>1, <3>2
    <2> QED BY <1>4, <2>1, <2>2
  <1> DEFINE power == PutBlock(d.power, c)
             span == [from |-> c.from, to |-> c.to]
  <1>8. power \in PowerType
    BY <1>4, PutBlockType DEF DbType
  <1>9. u = [d EXCEPT !.power = power]
    BY DEF BlockPut
  <1>10. /\ DOMAIN power = DOMAIN d.power \cup {c.id} /\ power[c.id] = span
         /\ \A p \in DOMAIN d.power : p # c.id => power[p] = d.power[p]
    BY DEF PutBlock
  <1> HIDE DEF power, span
  <1>11. /\ u \in DbType /\ u.power = power /\ u.pos = d.pos /\ u.rows = d.rows
         /\ u.recs = d.recs /\ u.pkts = d.pkts /\ SameSetup(d, u)
    BY <1>8, <1>9 DEF DbType, SameSetup
  <1>12. Accepted(k, u) /\ Forward(u)
    <2>1. u.power = PutBlock(d.power, c)
      BY <1>11 DEF power
    <2>2. /\ SameSetup(d, u) /\ u.pos = d.pos /\ u.rows = d.rows /\ u.recs = d.recs
          /\ u.pkts = d.pkts /\ s <= c.from /\ c.from < c.to /\ c.to - c.from <= BlockSpan
          /\ c.id \in DOMAIN d.power => d.power[c.id].from = c.from /\ d.power[c.id].to <= c.to
      BY <1>4, <1>6, <1>7, <1>11
    <2> QED BY <1>4, <1>11, <2>1, <2>2, BlockAccepted
  <1> QED BY <1>4, <1>7, <1>10, <1>11, <1>12 DEF BlockSaved, to, span

LEMMA AppendTileStored ==
  ASSUME StoreInv, StoreInv', StoredInv, AppendTile PROVE StoredInv'
  <1>1. /\ db \in DbType /\ disk \in DbType /\ mem \in MemType /\ eng \in EngType /\ TypeOK
        /\ kind' = kind /\ disk' = disk /\ kind # "rak" /\ eng.phase \in {"run", "drain"}
        /\ torn' = torn
        /\ TypeOK' /\ db' \in DbType
    BY StateTypes DEF AppendTile, Working, StoreInv, TypeOK
  <1>2. PICK f \in NearFixes, from \in Larger(mem.prevEnd, eng.start)..eng.clock :
       LET to  == from + 1
           r   == IF kind = "compact" THEN EnsureFix(db, mem, f)
                  ELSE [db |-> db, mem |-> mem, id |-> 0]
           b   == NextBlock(mem.block, from, to)
           row == [from |-> from, to |-> to, board |-> 0, fix |-> r.id,
                   power |-> IF kind = "compact" THEN b.id ELSE 0]
           d   == IF kind = "compact" THEN [r.db EXCEPT !.power = PutBlock(@, b)] ELSE r.db
       IN  \/ /\ row.fix \in 0..Len(d.pos)
              /\ db' = [d EXCEPT !.rows = Append(@, row)]
              /\ mem' = [Batch(r.mem) EXCEPT !.prevEnd = to,
                           !.block = IF kind = "compact" THEN b ELSE @]
              /\ eng' = [eng EXCEPT !.meas = Larger(@, to), !.rows = @ + 1]
           \/ /\ Happens("append") \/ row.fix \notin 0..Len(d.pos)
              /\ db' \in {db, d, disk}
              /\ mem' = [Batch(r.mem) EXCEPT !.block = IF kind = "compact" THEN b ELSE @]
              /\ eng' = Failed(eng)
    BY Zenon DEF AppendTile
  <1> DEFINE to  == from + 1
             r   == IF kind = "compact" THEN EnsureFix(db, mem, f)
                    ELSE [db |-> db, mem |-> mem, id |-> 0]
             b   == NextBlock(mem.block, from, to)
             pid == IF kind = "compact" THEN b.id ELSE 0
             row == [from |-> from, to |-> to, board |-> 0, fix |-> r.id, power |-> pid]
             d   == IF kind = "compact" THEN [r.db EXCEPT !.power = PutBlock(@, b)] ELSE r.db
             blk == IF kind = "compact" THEN b ELSE Batch(r.mem).block
             meas == Larger(eng.meas, to)
             rows == eng.rows + 1
             more == Append(d.rows, row)
             s == eng.start
  <1>3. /\ from \in Nat /\ to \in Nat /\ meas \in Nat /\ meas >= to /\ meas >= eng.meas
        /\ eng.start \in Nat /\ mem.prevEnd \in Nat /\ eng.start <= from /\ mem.prevEnd <= from
        /\ from < to /\ mem.prevEnd <= to
    <2>1. mem.prevEnd \in Nat /\ eng.start \in Nat /\ eng.clock \in Nat /\ eng.meas \in Nat
      BY <1>1 DEF MemType, EngType
    <2>2. /\ Larger(mem.prevEnd, eng.start) \in Nat /\ Larger(mem.prevEnd, eng.start) >= eng.start
          /\ Larger(mem.prevEnd, eng.start) >= mem.prevEnd
      BY <2>1, LargerType
    <2>3. from \in Nat /\ to \in Nat /\ eng.start <= from /\ mem.prevEnd <= from
      BY <1>2, <2>1, <2>2
    <2>4. meas \in Nat /\ meas >= to /\ meas >= eng.meas
      BY <2>1, <2>3, LargerType
    <2> QED BY <2>1, <2>3, <2>4
  <1>4. \/ /\ r.id \in 0..Len(d.pos)
           /\ db' = [d EXCEPT !.rows = more]
           /\ mem' = [Batch(r.mem) EXCEPT !.prevEnd = to, !.block = blk]
           /\ eng' = [eng EXCEPT !.meas = meas, !.rows = rows]
        \/ /\ db' \in {db, d, disk}
           /\ mem' = [Batch(r.mem) EXCEPT !.block = blk]
           /\ eng' = Failed(eng)
    BY Zenon, <1>2
  <1>5. /\ Within(db, Elapsed, mem.block.id) /\ Within(disk, Elapsed, mem.block.id)
        /\ TilesBy(db, mem.prevEnd) /\ TilesBy(disk, mem.prevEnd)
        /\ OpenSince(db, mem.acq, s) /\ OpenSince(disk, mem.acq, s)
        /\ kind = "compact" => BlockOpen(db, mem.block, s)
        /\ Accepted(kind, db) /\ Accepted(kind, disk) /\ Forward(db) /\ Forward(disk)
    BY <1>1 DEF StoredInv, Acquiring
  <1>t. TornInv'
    BY <1>1 DEF StoredInv, TornInv
  <1>6. s \in Nat /\ s <= from /\ b = NextBlock(mem.block, from, from + 1)
    BY <1>3
  <1> HIDE DEF s, b, meas, rows
  <1>7. /\ r.db \in DbType /\ r.mem \in MemType /\ r.id \in Nat /\ MorePositions(db, r.db)
        /\ r.mem.acq = mem.acq /\ r.mem.block = mem.block
        /\ kind # "compact" => r.db = db /\ r.id = 0
    <2>1. CASE kind = "compact"
      <3>1. f \in Fixes
        BY <1>2, <2>1 DEF NearFixes
      <3> QED BY <1>1, <2>1, <3>1, EnsureFixType, EnsureFixPositions
    <2>2. CASE kind # "compact"
      <3>1. MorePositions(db, db)
        BY <1>1 DEF MorePositions, DbType
      <3> QED BY <1>1, <2>2, <3>1
    <2> QED BY <2>1, <2>2
  <1> HIDE DEF r, to
  <1> DEFINE e == r.db
  <1>8. /\ Accepted(kind, e) /\ Forward(e) /\ Within(e, Elapsed, mem.block.id)
        /\ OpenSince(e, mem.acq, s) /\ TilesBy(e, mem.prevEnd) /\ e \in DbType
        /\ kind = "compact" => BlockOpen(e, mem.block, s)
        /\ e.rows = db.rows
    <2>1. Accepted(kind, e)
      BY <1>1, <1>5, <1>7, PositionsAccepted
    <2> QED BY <1>5, <1>7, <2>1 DEF Forward, Within, OpenSince, MorePositions, TilesBy, BlockOpen
  <1>9. mem.block \in BlockType /\ mem.block.id \in Nat
    BY <1>1 DEF MemType, BlockType
  <1>10. d = IF kind = "compact" THEN [e EXCEPT !.power = PutBlock(@, b)] ELSE e
    OBVIOUS
  <1>11. kind = "compact" => BlockSaved(kind, e, d, mem.block, b, s, from)
    <2> HAVE kind = "compact"
    <2> DEFINE o == mem.block
               t == Elapsed
               n == mem.acq
               k == kind
    <2>1. BlockPut(e, d, b)
      BY <1>10 DEF BlockPut
    <2>2. /\ Accepted(k, e) /\ Forward(e) /\ Within(e, t, o.id) /\ OpenSince(e, n, s)
          /\ BlockOpen(e, o, s) /\ o \in BlockType /\ b = NextBlock(o, from, from + 1)
          /\ e \in DbType /\ s \in Nat /\ from \in Nat /\ s <= from
      BY <1>3, <1>6, <1>8, <1>9
    <2> HIDE DEF o, t, n, k, d, e
    <2>3. BlockSaved(k, e, d, o, b, s, from)
      BY <2>1, <2>2, TileBlock
    <2> QED BY <2>3 DEF o, k
  <1> HIDE DEF d, e
  <1>12. /\ Accepted(kind, d) /\ Forward(d) /\ d \in DbType /\ SameSetup(e, d)
         /\ d.rows = db.rows /\ OpenSince(d, mem.acq, s) /\ d.recs = e.recs
    <2>1. CASE kind = "compact"
      <3>1. BlockSaved(kind, e, d, mem.block, b, s, from)
        BY <1>11, <2>1
      <3>2. /\ Accepted(kind, d) /\ Forward(d) /\ d \in DbType /\ SameSetup(e, d)
            /\ d.rows = db.rows /\ d.recs = e.recs
        BY <1>8, <3>1 DEF BlockSaved
      <3> QED BY <1>8, <3>2, SetupKept
    <2>2. CASE kind # "compact"
      BY <1>8, <1>10, <2>2 DEF SameSetup
    <2> QED BY <2>1, <2>2
  <1>13. CASE /\ db' \in {db, d, disk}
              /\ mem' = [Batch(r.mem) EXCEPT !.block = blk]
              /\ eng' = Failed(eng)
    <2>1. eng'.phase = "idle" /\ ~eng'.final
      <3>1. eng'.phase = "idle" /\ eng'.final = eng.final
        BY <1>1, <1>13 DEF Failed, EngType
      <3> QED BY <1>1, <3>1 DEF StoreInv, FinalInv
    <2>2. ~Acquiring'
      BY <2>1 DEF Acquiring
    <2> QED BY <1>1, <1>5, <1>12, <1>13, <1>t, <2>1, <2>2 DEF StoredInv
  <1>14. CASE /\ r.id \in 0..Len(d.pos)
              /\ db' = [d EXCEPT !.rows = more]
              /\ mem' = [Batch(r.mem) EXCEPT !.prevEnd = to, !.block = blk]
              /\ eng' = [eng EXCEPT !.meas = meas, !.rows = rows]
    <2>1. /\ eng'.phase = eng.phase /\ eng'.final = eng.final /\ eng'.start = eng.start
          /\ eng'.clock = eng.clock /\ eng'.meas = meas
      BY <1>1, <1>14 DEF EngType
    <2>2. mem'.prevEnd = to /\ mem'.block = blk /\ mem'.acq = mem.acq
      <3> DEFINE m == Batch(r.mem)
      <3>1. m \in MemType /\ m.acq = mem.acq
        BY <1>7 DEF Batch, MemType
      <3> HIDE DEF m, blk
      <3>2. mem' = [m EXCEPT !.prevEnd = to, !.block = blk]
        BY <1>14 DEF m
      <3> QED BY <3>1, <3>2 DEF MemType
    <2>3. /\ kind = "compact" => blk = b
          /\ kind # "compact" => blk = mem.block
      <3>1. Batch(r.mem).block = r.mem.block
        BY <1>7 DEF Batch, MemType
      <3> QED BY <1>7, <3>1
    <2>4. pid \in Nat
      <3>1. kind = "compact" => b.id \in Nat
        BY <1>11 DEF BlockSaved, BlockType
      <3> QED BY <3>1
    <2>5. /\ row \in RowType /\ row.from = from /\ row.to = to /\ row.fix = r.id
          /\ row.power = pid
      <3> HIDE DEF pid
      <3> QED BY <1>3, <1>7, <2>4 DEF RowType
    <2>6. more \in Seq(RowType)
      BY <1>12, <2>5 DEF DbType
    <2> HIDE DEF more, row
    <2>7. /\ db'.rows = more /\ SameSetup(d, db') /\ db'.pos = d.pos /\ db'.power = d.power
          /\ db'.recs = d.recs /\ db'.pkts = d.pkts
      BY <1>12, <1>14 DEF DbType, SameSetup
    <2>8. RowInBlock(d, row)
      <3>1. CASE kind = "compact"
        <4>1. BlockSaved(kind, e, d, mem.block, b, s, from)
          BY <1>11, <3>1
        <4>2. /\ b.id \in DOMAIN d.power /\ d.power[b.id].from = b.from /\ d.power[b.id].to = b.to
              /\ b.from \in Nat /\ b.to \in Nat /\ b.to = to /\ s <= b.from /\ b.from <= from
              /\ b.to - b.from <= BlockSpan
          BY <4>1 DEF BlockSaved, BlockType, to
        <4>3. Held(d, b.from, b.to)
          <5> DEFINE n == mem.acq
          <5>1. OpenSince(d, n, s) /\ b.from <= b.to
            BY <1>3, <1>12, <4>2
          <5> HIDE DEF n
          <5> QED BY <1>6, <1>12, <4>2, <5>1, InOpenSegment
        <4> QED BY <1>3, <2>5, <3>1, <4>2, <4>3 DEF RowInBlock
      <3>2. CASE kind # "compact"
        BY <2>5, <3>2 DEF RowInBlock
      <3> QED BY <3>1, <3>2
    <2> HIDE DEF pid, blk
    <2>9. \A i \in 1..Len(d.rows) : d.rows[i].to <= row.from
      <3>1. ASSUME NEW i \in 1..Len(d.rows) PROVE d.rows[i].to <= from
        <4>1. d.rows[i].to <= mem.prevEnd /\ d.rows[i].to \in Nat
          BY <1>5, <1>12, RowTypes DEF TilesBy
        <4> QED BY <1>3, <4>1
      <3> QED BY <2>5, <3>1
    <2>10. Accepted(kind, db') /\ Forward(db')
      <3> DEFINE u == db'
                 k == kind
                 n == mem.acq
      <3>1. /\ u \in DbType /\ SameSetup(d, u) /\ u.pos = d.pos /\ u.power = d.power
            /\ u.recs = d.recs /\ u.pkts = d.pkts /\ u.rows = Append(d.rows, row)
            /\ OpenSince(d, n, s) /\ s <= row.from /\ row.from < row.to
            /\ row.fix \in 0..Len(d.pos) /\ Accepted(k, d) /\ Forward(d) /\ d \in DbType
        BY <1>1, <1>3, <1>6, <1>12, <1>14, <2>5, <2>7 DEF more
      <3> HIDE DEF u, k, n
      <3>2. Accepted(k, u) /\ Forward(u)
        BY <1>6, <2>5, <2>8, <2>9, <3>1, RowAppended
      <3> QED BY <3>2 DEF u, k
    <2>11. OpenSince(db', mem.acq, s)
      BY <1>12, <2>7, SetupKept
    <2>12. Elapsed \in Nat /\ Elapsed' \in Nat /\ Elapsed <= Elapsed' /\ to <= Elapsed'
      <3>1. /\ eng.clock \in Nat /\ eng.meas \in Nat /\ eng.start \in Nat
        BY <1>1 DEF EngType
      <3>2. eng'.clock >= eng.clock /\ eng'.meas >= eng.meas /\ eng'.start >= eng.start
        BY <1>3, <2>1, <3>1
      <3>3. Elapsed \in Nat /\ Elapsed' \in Nat /\ Elapsed <= Elapsed'
        BY <1>1, <3>2, ElapsedGrows
      <3>4. Elapsed' = Larger(meas, Larger(eng.start, eng.clock))
        BY <1>1, <2>1 DEF Elapsed
      <3>5. meas <= Elapsed'
        BY <1>3, <3>1, <3>4, LargerType
      <3> QED BY <1>3, <3>3, <3>5
    <2>13. blk.id \in Nat /\ mem.block.id <= blk.id
      BY <1>9, <1>11, <2>3 DEF BlockSaved, BlockType
    <2>14. Within(disk, Elapsed', blk.id) /\ Within(e, Elapsed', blk.id) /\ TilesBy(disk, to)
      <3> DEFINE t == Elapsed
                 u == Elapsed'
                 n == mem.block.id
                 m == blk.id
                 p == mem.prevEnd
      <3>1. /\ t \in Nat /\ u \in Nat /\ n \in Nat /\ m \in Nat /\ t <= u /\ n <= m
            /\ Within(disk, t, n) /\ Within(e, t, n) /\ TilesBy(disk, p) /\ p \in Nat /\ p <= to
        BY <1>3, <1>5, <1>8, <1>9, <2>12, <2>13
      <3> HIDE DEF t, u, n, m, p
      <3>2. Within(disk, u, m) /\ Within(e, u, m) /\ TilesBy(disk, to)
        BY <1>1, <1>3, <1>8, <3>1, WithinLater, TilesLater
      <3> QED BY <3>2 DEF u, m
    <2>15. TilesBy(db', to) /\ \A i \in 1..Len(db'.rows) : db'.rows[i].to <= Elapsed'
      <3> DEFINE n == Len(d.rows)
      <3>1. /\ n \in Nat /\ Len(more) = n + 1 /\ more[n + 1] = row
            /\ \A i \in 1..n : more[i] = d.rows[i]
        <4>1. d.rows \in Seq(RowType)
          BY <1>12 DEF DbType
        <4> QED BY <2>5, <4>1, AppendProperties DEF more
      <3>2. ASSUME NEW i \in 1..Len(more) PROVE more[i].to <= to /\ more[i].to \in Nat
        <4>1. CASE i = n + 1
          BY <1>3, <2>5, <3>1, <4>1
        <4>2. CASE i # n + 1
          <5>1. i \in 1..n
            BY <3>1, <4>2
          <5>2. d.rows[i].to <= row.from /\ d.rows[i].to \in Nat
            BY <1>12, <2>9, <5>1, RowTypes
          <5> QED BY <1>3, <2>5, <3>1, <5>1, <5>2
        <4> QED BY <4>1, <4>2
      <3>3. ASSUME NEW i \in 1..Len(more) PROVE more[i].to <= Elapsed'
        BY <1>3, <2>12, <3>2
      <3> QED BY <2>7, <3>2, <3>3 DEF TilesBy
    <2>16. ASSUME NEW p \in DOMAIN d.power PROVE d.power[p].to <= Elapsed' /\ p \in 1..blk.id
      <3>1. CASE kind = "compact"
        <4>1. BlockSaved(kind, e, d, mem.block, b, s, from)
          BY <1>11, <3>1
        <4>2. CASE p = b.id
          <5>1. d.power[p].to = to /\ b.id \in Nat /\ b.id >= 1
            BY <4>1, <4>2 DEF BlockSaved, to, BlockType
          <5> QED BY <2>3, <2>12, <3>1, <4>2, <5>1
        <4>3. CASE p # b.id
          <5>1. p \in DOMAIN e.power /\ d.power[p] = e.power[p]
            BY <4>1, <4>3 DEF BlockSaved
          <5> QED BY <2>14, <5>1 DEF Within
        <4> QED BY <4>2, <4>3
      <3>2. CASE kind # "compact"
        <4>1. d = e
          BY <1>10, <3>2
        <4> QED BY <2>14, <4>1 DEF Within
      <3> QED BY <3>1, <3>2
    <2>17. Within(db', Elapsed', blk.id)
      <3>1. db'.segs = e.segs
        BY <1>12, <2>7 DEF SameSetup
      <3>2. db'.recs = e.recs
        BY <1>12, <2>7
      <3> QED BY <2>7, <2>14, <2>15, <2>16, <3>1, <3>2 DEF Within
    <2>18. kind = "compact" => BlockOpen(db', blk, s)
      <3> HAVE kind = "compact"
      <3>1. BlockSaved(kind, e, d, mem.block, b, s, from)
        BY <1>11
      <3>2. /\ b.id \in DOMAIN d.power /\ d.power[b.id] = [from |-> b.from, to |-> b.to]
            /\ s <= b.from /\ b.from \in Nat
        BY <3>1 DEF BlockSaved, BlockType
      <3>3. b.from >= s
        BY <1>6, <3>2
      <3> QED BY <2>3, <2>7, <3>2, <3>3 DEF BlockOpen
    <2>19. s = eng'.start /\ eng'.start = eng.start
      BY <2>1 DEF s
    <2>20. Len(db'.segs) # 0
      BY <2>11 DEF OpenSince
    <2> QED BY <1>1, <1>5, <1>t, <2>2, <2>10, <2>11, <2>14, <2>15, <2>17, <2>18, <2>19, <2>20
        DEF StoredInv
  <1> QED BY <1>4, <1>13, <1>14

\* A record added while the acquisition goes on, the power block and the
\* engine's time as before.
LEMMA RecordStored ==
  ASSUME StoredInv, Acquiring, kind' = kind, disk' = disk, torn' = torn, mem'.block = mem.block,
         mem'.acq = mem.acq, mem'.prevEnd = mem.prevEnd, eng'.start = eng.start,
         eng'.clock = eng.clock, eng'.meas = eng.meas,
         Accepted(kind, db'), Forward(db'), Within(db', Elapsed, mem.block.id),
         OpenSince(db', mem.acq, eng.start),
         kind # "rak" => db'.rows = db.rows /\ db'.power = db.power
  PROVE  StoredInv'
  <1>1. /\ Within(db, Elapsed, mem.block.id) /\ Within(disk, Elapsed, mem.block.id)
        /\ kind = "rak" => eng.start <= eng.clock
        /\ kind # "rak" => TilesBy(db, mem.prevEnd) /\ TilesBy(disk, mem.prevEnd)
        /\ OpenSince(disk, mem.acq, eng.start)
        /\ kind = "compact" => BlockOpen(db, mem.block, eng.start)
        /\ Accepted(kind, disk) /\ Forward(disk)
    BY DEF StoredInv
  <1>2. Elapsed' = Elapsed
    BY DEF Elapsed
  <1>3. kind # "rak" => TilesBy(db', mem.prevEnd)
    BY <1>1 DEF TilesBy
  <1>4. kind = "compact" => BlockOpen(db', mem.block, eng.start)
    BY <1>1 DEF BlockOpen
  <1>5. TornInv'
    BY DEF StoredInv, TornInv, Acquiring
  <1>6. Len(db'.segs) # 0
    BY DEF OpenSince
  <1> QED BY <1>1, <1>2, <1>3, <1>4, <1>5, <1>6 DEF StoredInv

\* The last scan of a board ends at or after every other one.
LEMMA LastOfBoardIs ==
  ASSUME NEW d \in DbType, NEW t \in Nat, NEW n, Within(d, t, n), NEW i
  PROVE  /\ LastOfBoard(d, i) \in Nat
         /\ \A j \in 1..Len(d.rows) : d.rows[j].board = i => d.rows[j].to <= LastOfBoard(d, i)
  <1> DEFINE ends == {d.rows[k].to : k \in {k \in 1..Len(d.rows) : d.rows[k].board = i}}
  <1>1. ASSUME NEW x \in ends PROVE x \in 0..t
    <2>1. PICK k \in 1..Len(d.rows) : x = d.rows[k].to
      OBVIOUS
    <2>2. x \in Nat /\ x <= t
      BY <2>1, RowTypes DEF Within
    <2> QED BY <2>2
  <1>2. \A j \in 1..Len(d.rows) : d.rows[j].board = i => d.rows[j].to \in ends
    OBVIOUS
  <1>3. LastOfBoard(d, i) = IF ends = {} THEN 0 ELSE CHOOSE e \in ends : \A x \in ends : x <= e
    BY DEF LastOfBoard
  <1> HIDE DEF ends
  <1>4. CASE ends = {}
    BY <1>2, <1>3, <1>4
  <1>5. CASE ends # {}
    <2>1. ends \subseteq 0..t
      BY <1>1
    <2>2. \E e \in ends : \A x \in ends : x <= e
      BY <1>5, <2>1, GreatestElement
    <2>3. LastOfBoard(d, i) \in ends /\ \A x \in ends : x <= LastOfBoard(d, i)
      BY <1>3, <1>5, <2>2
    <2> QED BY <1>1, <1>2, <2>3
  <1> QED BY <1>4, <1>5

LEMMA AppendScanStored ==
  ASSUME StoreInv, StoreInv', StoredInv, AppendScan PROVE StoredInv'
  <1>1. /\ db \in DbType /\ disk \in DbType /\ mem \in MemType /\ eng \in EngType /\ TypeOK
        /\ kind' = kind /\ disk' = disk /\ torn' = torn /\ kind = "rak" /\ eng.phase \in {"run", "drain"}
        /\ db' \in DbType /\ Acquiring
    BY StateTypes DEF AppendScan, Working, StoreInv, TypeOK, Acquiring
  <1>2. PICK f \in Fixes, i \in {1, 2}, to \in 1..eng.clock :
       LET r    == EnsureFix(db, mem, f)
           from == to - 1
           row  == [from |-> from, to |-> to, board |-> i, fix |-> r.id, power |-> 0]
       IN  /\ from >= Larger(LastOfBoard(db, i), eng.start)
           /\ \/ /\ r.id \in 1..Len(r.db.pos)
                 /\ db' = [r.db EXCEPT !.rows = Append(@, row)]
                 /\ mem' = Batch(r.mem)
                 /\ eng' = [eng EXCEPT !.rows = @ + 1]
              \/ /\ Happens("append") \/ r.id \notin 1..Len(r.db.pos)
                 /\ db' = r.db
                 /\ mem' = Batch(r.mem)
                 /\ eng' = Failed(eng)
    BY Zenon DEF AppendScan
  <1> DEFINE r    == EnsureFix(db, mem, f)
             from == to - 1
             row  == [from |-> from, to |-> to, board |-> i, fix |-> r.id, power |-> 0]
             rows == eng.rows + 1
             more == Append(r.db.rows, row)
             s == eng.start
             t == Elapsed
             last == LastOfBoard(db, i)
             n == mem.block.id
  <1>3. /\ from \in Nat /\ to \in Nat /\ i \in Nat /\ from < to /\ s \in Nat /\ t \in Nat
        /\ to <= t
    <2>1. Elapsed = eng.clock /\ eng.clock \in Nat /\ eng.start \in Nat
      BY <1>1 DEF Elapsed, EngType
    <2> QED BY <2>1
  <1>4. /\ mem' = Batch(r.mem) /\ from >= Larger(last, s)
        /\ \/ db' = [r.db EXCEPT !.rows = more] /\ eng' = [eng EXCEPT !.rows = rows]
              /\ r.id \in 1..Len(r.db.pos)
           \/ db' = r.db /\ eng' = Failed(eng)
    BY Zenon, <1>2
  <1>5. /\ Within(db, t, n) /\ OpenSince(db, mem.acq, s)
        /\ Accepted(kind, db) /\ Forward(db)
    BY <1>1 DEF StoredInv
  <1> HIDE DEF from, rows, s, t, last, n
  <1>6. /\ r.db \in DbType /\ r.mem \in MemType /\ r.id \in Nat /\ MorePositions(db, r.db)
        /\ r.mem.acq = mem.acq /\ r.mem.block = mem.block /\ r.mem.prevEnd = mem.prevEnd
    BY <1>1, EnsureFixType, EnsureFixPositions
  <1>7. row \in RowType /\ row.from = from /\ row.to = to /\ row.board = i /\ row.fix = r.id
        /\ row.power = 0
    <2> HIDE DEF r
    <2> QED BY <1>3, <1>6 DEF RowType
  <1> HIDE DEF r, row
  <1> DEFINE e == r.db
  <1>8. /\ Accepted(kind, e) /\ Forward(e) /\ Within(e, t, n)
        /\ OpenSince(e, mem.acq, s) /\ e \in DbType /\ e.rows = db.rows
    <2>1. Accepted(kind, e)
      BY <1>1, <1>5, <1>6, PositionsAccepted
    <2> QED BY <1>5, <1>6, <2>1 DEF Forward, Within, OpenSince, MorePositions
  <1>9. mem'.acq = mem.acq /\ mem'.block = mem.block /\ mem'.prevEnd = mem.prevEnd
    BY <1>4, <1>6 DEF Batch, MemType
  <1> HIDE DEF e
  <1>10. /\ eng'.start = eng.start /\ eng'.clock = eng.clock /\ eng'.meas = eng.meas
    <2>1. CASE eng' = [eng EXCEPT !.rows = rows]
      BY <1>1, <2>1 DEF EngType
    <2>2. CASE eng' = Failed(eng)
      BY <1>1, <2>2, FailedKeeps
    <2> QED BY <1>4, <2>1, <2>2
  <1>11. last \in Nat /\ last <= from /\ s <= from
         /\ \A j \in 1..Len(e.rows) : e.rows[j].board = i => e.rows[j].to <= last
    <2>1. /\ last \in Nat
          /\ \A j \in 1..Len(db.rows) : db.rows[j].board = i => db.rows[j].to <= last
      BY <1>1, <1>3, <1>5, LastOfBoardIs DEF last
    <2>2. last <= from /\ s <= from
      BY <1>3, <1>4, <2>1 DEF Larger
    <2> QED BY <1>8, <2>1, <2>2
  <1>12. CASE db' = e /\ eng' = Failed(eng)
    BY <1>1, <1>8, <1>9, <1>10, <1>12, RecordStored DEF s, t, n
  <1>13. CASE /\ db' = [e EXCEPT !.rows = more] /\ eng' = [eng EXCEPT !.rows = rows]
              /\ r.id \in 1..Len(e.pos)
    <2>1. more \in Seq(RowType) /\ more = Append(e.rows, row)
      BY <1>7, <1>8 DEF DbType, e
    <2> HIDE DEF more
    <2>2. /\ db'.rows = more /\ SameSetup(e, db') /\ db'.pos = e.pos /\ db'.power = e.power
          /\ db'.recs = e.recs /\ db'.pkts = e.pkts
      BY <1>8, <1>13 DEF DbType, SameSetup
    <2>3. \A j \in 1..Len(e.rows) : e.rows[j].board = row.board => e.rows[j].to <= row.from
      <3>1. ASSUME NEW j \in 1..Len(e.rows), e.rows[j].board = i PROVE e.rows[j].to <= from
        <4>1. e.rows[j].to <= last /\ e.rows[j].to \in Nat
          BY <1>8, <1>11, <3>1, RowTypes
        <4> QED BY <1>3, <1>11, <4>1
      <3> QED BY <1>7, <3>1
    <2>4. RowInBlock(e, row) /\ row.fix \in 0..Len(e.pos)
      <3>1. Len(e.pos) \in Nat
        BY <1>8 DEF DbType
      <3> QED BY <1>7, <1>13, <3>1 DEF RowInBlock
    <2>5. Accepted(kind, db') /\ Forward(db')
      <3> DEFINE u == db'
                 k == kind
                 a == mem.acq
      <3>1. /\ u \in DbType /\ SameSetup(e, u) /\ u.pos = e.pos /\ u.power = e.power
            /\ u.recs = e.recs /\ u.pkts = e.pkts /\ u.rows = Append(e.rows, row)
            /\ OpenSince(e, a, s) /\ s <= row.from /\ row.from < row.to
            /\ Accepted(k, e) /\ Forward(e) /\ e \in DbType
        BY <1>1, <1>3, <1>7, <1>8, <1>11, <2>1, <2>2
      <3> HIDE DEF u, k, a
      <3>2. Accepted(k, u) /\ Forward(u)
        BY <1>3, <1>7, <2>3, <2>4, <3>1, RowAppended
      <3> QED BY <3>2 DEF u, k
    <2>6. OpenSince(db', mem.acq, s)
      BY <1>8, <2>2, SetupKept
    <2>7. Within(db', t, n)
      <3> DEFINE m == Len(e.rows)
      <3>1. /\ m \in Nat /\ Len(more) = m + 1 /\ more[m + 1] = row
            /\ \A j \in 1..m : more[j] = e.rows[j]
        <4>1. e.rows \in Seq(RowType)
          BY <1>8 DEF DbType
        <4> QED BY <1>7, <2>1, <4>1, AppendProperties
      <3>2. ASSUME NEW j \in 1..Len(more) PROVE more[j].to <= t
        <4>1. CASE j = m + 1
          BY <1>3, <1>7, <3>1, <4>1
        <4>2. CASE j # m + 1
          <5>1. j \in 1..m
            BY <3>1, <4>2
          <5> QED BY <1>8, <3>1, <5>1 DEF Within
        <4> QED BY <4>1, <4>2
      <3> QED BY <1>8, <2>2, <3>2 DEF Within, SameSetup
    <2> QED BY <1>1, <1>9, <1>10, <2>5, <2>6, <2>7, RecordStored DEF s, t, n
  <1> QED BY <1>4, <1>12, <1>13 DEF e

LEMMA ReceptionAccepted ==
  ASSUME NEW k, NEW a, NEW s \in Nat, NEW t \in Nat, NEW b, NEW d \in DbType, NEW u \in DbType,
         NEW at \in Nat, s <= at, at <= t,
         Accepted(k, d), Forward(d), Within(d, t, b), OpenSince(d, a, s),
         SameSetup(d, u), u.pos = d.pos, u.power = d.power, u.rows = d.rows,
         u.recs = Append(d.recs, at), u.pkts = (IF k = "rak" THEN d.pkts + 1 ELSE d.pkts)
  PROVE  Accepted(k, u) /\ Forward(u) /\ Within(u, t, b) /\ OpenSince(u, a, s)
  <1>1. u.segs # <<>>
    BY DEF OpenSince, SameSetup, DbType
  <1>2. SegmentsAccepted(u) /\ u.status /\ OpenSince(u, a, s)
    BY SetupKept DEF Accepted, SameSetup
  <1>3. \A from, to : Held(u, from, to) <=> Held(d, from, to)
    BY SetupKept
  <1>4. ASSUME NEW i \in 1..Len(u.rows) PROVE RowHeld(u, u.rows[i])
    <2> DEFINE r == d.rows[i]
    <2>1. r = u.rows[i] /\ RowHeld(d, r)
      BY DEF Accepted
    <2> HIDE DEF r
    <2>2. RowHeld(u, r)
      BY <1>1, <1>3, <2>1 DEF RowHeld, RowLinked
    <2> QED BY <2>1, <2>2
  <1> DEFINE n == Len(d.recs)
  <1>5. /\ n \in Nat /\ Len(u.recs) = n + 1 /\ u.recs[n + 1] = at
        /\ \A i \in 1..n : u.recs[i] = d.recs[i]
    <2>1. d.recs \in Seq(Nat)
      BY DEF DbType
    <2> QED BY <2>1, AppendProperties
  <1>6. RowsOrdered(u) /\ (k = "rak" => u.pkts = Len(u.recs))
    BY <1>5 DEF Accepted, RowsOrdered
  <1>7. Held(u, at, at)
    BY <1>2, InOpenSegment
  <1>8. ASSUME NEW i \in 1..Len(u.recs)
        PROVE  Held(u, u.recs[i], u.recs[i]) /\ u.recs[i] <= t
    <2>1. CASE i = n + 1
      BY <1>5, <1>7, <2>1
    <2>2. CASE i # n + 1
      <3>1. i \in 1..n
        BY <1>5, <2>2
      <3>2. Held(d, d.recs[i], d.recs[i]) /\ d.recs[i] <= t
        BY <3>1 DEF Accepted, Within
      <3> QED BY <1>3, <1>5, <3>1, <3>2
    <2> QED BY <2>1, <2>2
  <1>9. u.segs[1].from = 0
    BY <1>1 DEF Accepted, SameSetup
  <1>10. Accepted(k, u)
    BY <1>1, <1>2, <1>4, <1>6, <1>8, <1>9 DEF Accepted
  <1>11. Forward(u) /\ Within(u, t, b)
    BY <1>8 DEF Forward, Within, SameSetup
  <1> QED BY <1>2, <1>10, <1>11

LEMMA AppendReceptionStored ==
  ASSUME StoreInv, StoreInv', StoredInv, AppendReception PROVE StoredInv'
  <1>1. /\ db \in DbType /\ disk \in DbType /\ mem \in MemType /\ eng \in EngType /\ TypeOK
        /\ kind' = kind /\ disk' = disk /\ torn' = torn /\ eng.phase \in {"run", "drain"}
        /\ db' \in DbType /\ Acquiring
    BY StateTypes DEF AppendReception, Working, StoreInv, TypeOK, Acquiring
  <1>2. mem'.acq = mem.acq /\ mem'.block = mem.block /\ mem'.prevEnd = mem.prevEnd
    BY <1>1 DEF AppendReception, Batch, MemType
  <1>3. /\ Accepted(kind, db) /\ Forward(db) /\ Within(db, Elapsed, mem.block.id)
        /\ OpenSince(db, mem.acq, eng.start)
    BY <1>1 DEF StoredInv
  <1>4. /\ Accepted(kind, db') /\ Forward(db') /\ Within(db', Elapsed, mem.block.id)
        /\ OpenSince(db', mem.acq, eng.start) /\ db'.rows = db.rows /\ db'.power = db.power
    <2>1. CASE db' = db
      BY <1>3, <2>1
    <2>2. CASE \E at \in eng.start..Elapsed : db' = ReceptionRows(db, at)
      <3>1. PICK at \in eng.start..Elapsed : db' = ReceptionRows(db, at)
        BY <2>2
      <3>2. eng.start \in Nat /\ Elapsed \in Nat
        BY <1>1, ElapsedType DEF EngType
      <3>3. at \in Nat /\ eng.start <= at /\ at <= Elapsed
        BY <3>1, <3>2
      <3> DEFINE u == db'
                 k == kind
                 d == db
                 t == Elapsed
                 b == mem.block.id
                 a == mem.acq
                 s == eng.start
      <3>4. u = ReceptionRows(db, at)
        BY <3>1
      <3> HIDE DEF u
      <3>0. /\ u.rows = db.rows /\ u.segs = db.segs /\ u.pos = db.pos
            /\ u.power = db.power /\ u.dec = db.dec /\ u.status = db.status
            /\ u.elapsed = db.elapsed /\ u.recs = Append(db.recs, at) /\ u \in DbType
            /\ u.pkts = IF kind = "rak" THEN db.pkts + 1 ELSE db.pkts
        <4> DEFINE f == db
        <4>1. f \in DbType /\ u = ReceptionRows(f, at)
          BY <1>1, <3>4
        <4> HIDE DEF f
        <4>2. /\ u \in DbType /\ u.rows = f.rows /\ u.segs = f.segs /\ u.pos = f.pos
              /\ u.power = f.power /\ u.dec = f.dec /\ u.status = f.status
              /\ u.elapsed = f.elapsed /\ u.recs = Append(f.recs, at)
              /\ u.pkts = IF kind = "rak" THEN f.pkts + 1 ELSE f.pkts
          BY <3>3, <4>1, ReceptionFields
        <4> QED BY <4>2 DEF f
      <3>5. /\ SameSetup(d, u) /\ u.pos = d.pos /\ u.power = d.power /\ u.rows = d.rows
            /\ u.recs = Append(d.recs, at) /\ u.pkts = (IF k = "rak" THEN d.pkts + 1 ELSE d.pkts)
            /\ s <= at /\ at <= t /\ s \in Nat /\ t \in Nat /\ d \in DbType
            /\ Accepted(k, d) /\ Forward(d) /\ Within(d, t, b) /\ OpenSince(d, a, s)
        BY <1>1, <1>3, <3>0, <3>2, <3>3 DEF SameSetup
      <3> HIDE DEF k, d, t, b, a, s
      <3>6. Accepted(k, u) /\ Forward(u) /\ Within(u, t, b) /\ OpenSince(u, a, s)
        BY <3>0, <3>3, <3>5, ReceptionAccepted
      <3> QED BY <3>5, <3>6 DEF d, k, u, t, b, a, s
    <2> QED BY <2>1, <2>2 DEF AppendReception
  <1>7. eng'.start = eng.start /\ eng'.clock = eng.clock /\ eng'.meas = eng.meas
    <2>1. CASE eng' = [eng EXCEPT !.recs = @ + 1]
      <3> DEFINE recs == eng.recs + 1
      <3>1. eng' = [eng EXCEPT !.recs = recs]
        BY <2>1
      <3> HIDE DEF recs
      <3> QED BY <1>1, <3>1 DEF EngType
    <2>2. CASE eng' = Failed(eng)
      BY <1>1, <2>2, FailedKeeps
    <2> QED BY <2>1, <2>2 DEF AppendReception
  <1> QED BY <1>1, <1>2, <1>4, <1>7, RecordStored

LEMMA AppendGapStored ==
  ASSUME StoreInv, StoreInv', StoredInv, AppendGap PROVE StoredInv'
  <1>1. /\ UNCHANGED <<kind, db, disk, eng, torn>> /\ mem \in MemType
        /\ mem' = [Batch(mem) EXCEPT !.block = CloseBlock(@)]
    BY StateTypes DEF AppendGap
  <1>2. mem'.acq = mem.acq /\ mem'.prevEnd = mem.prevEnd /\ mem'.block = CloseBlock(mem.block)
    <2> DEFINE m == Batch(mem)
    <2>1. m \in MemType /\ m.acq = mem.acq /\ m.prevEnd = mem.prevEnd /\ m.block = mem.block
      BY <1>1 DEF Batch, MemType
    <2>2. mem' = [m EXCEPT !.block = CloseBlock(m.block)]
      BY <1>1
    <2> HIDE DEF m
    <2> QED BY <2>1, <2>2 DEF MemType
  <1>3. mem.block \in BlockType
    BY <1>1 DEF MemType
  <1>4. mem'.block.id = mem.block.id /\ BlockOpen(db, mem'.block, eng.start)
    BY <1>2, <1>3, ClosedBlock
  <1>5. Elapsed' = Elapsed
    BY <1>1 DEF Elapsed
  <1>6. Acquiring' <=> Acquiring
    BY <1>1 DEF Acquiring
  <1>7. TornInv'
    BY <1>1 DEF StoredInv, TornInv
  <1> QED BY <1>1, <1>2, <1>4, <1>5, <1>6, <1>7 DEF StoredInv

\* The store is closed or the process dies: what is left was readable.
LEMMA EndStored ==
  ASSUME StoreInv, StoredInv, CloseSession \/ Crash PROVE StoredInv'
  <1>1. /\ kind' = kind /\ eng' = IdleEngine /\ db' = disk'
        /\ disk' = db \/ disk' = disk
    BY DEF CloseSession, Crash, DestructorCommit
  <1>2. ~Acquiring' /\ ~eng'.final
    BY <1>1 DEF Acquiring, IdleEngine
  <1>3. TornInv'
    <2>1. eng.phase # "new" /\ eng'.phase = "new"
      BY <1>1 DEF CloseSession, Crash, IdleEngine
    <2>2. ~torn /\ Covered(disk)
      BY <2>1 DEF StoredInv, TornInv
    <2>3. disk' = disk \/ torn'
      BY DEF CloseSession, Crash, DestructorCommit
    <2> QED BY <2>1, <2>2, <2>3 DEF TornInv
  <1> QED BY <1>1, <1>2, <1>3 DEF StoredInv

LEMMA StoredStep ==
  ASSUME BeginSucceeds, StoreInv, StoreInv', StoredInv, [Next]_vars PROVE StoredInv'
  <1>1. CASE Tick \/ StopRun \/ Save BY <1>1, EngineStored
  <1>2. CASE StartNew BY <1>2, StartNewStored
  <1>3. CASE Resume BY <1>3, ResumeStored
  <1>4. CASE WorkerStarts BY <1>4, WorkerStartsStored
  <1>5. CASE Checkpoint BY <1>5, CheckpointStored
  <1>6. CASE AppendTile BY <1>6, AppendTileStored
  <1>7. CASE AppendGap BY <1>7, AppendGapStored
  <1>8. CASE AppendScan BY <1>8, AppendScanStored
  <1>9. CASE AppendReception BY <1>9, AppendReceptionStored
  <1>10. CASE FinalSave BY <1>10, FinalSaveStored
  <1>11. CASE CloseSession \/ Crash BY <1>11, EndStored
  <1>12. CASE UNCHANGED <<kind, db, disk, mem, eng, torn>>
    <2>1. Elapsed' = Elapsed
      BY <1>12 DEF Elapsed
    <2>2. Acquiring' <=> Acquiring
      BY <1>12 DEF Acquiring
    <2>3. TornInv'
      BY <1>12 DEF StoredInv, TornInv
    <2> QED BY <1>12, <2>1, <2>2, <2>3 DEF StoredInv
  <1>13. CASE CopyPin \/ CopyEnds \/ UNCHANGED vars
    BY <1>12, <1>13 DEF CopyPin, CopyEnds, vars
  <1> QED BY <1>1, <1>2, <1>3, <1>4, <1>5, <1>6, <1>7, <1>8, <1>9, <1>10, <1>11, <1>13 DEF Next

-----------------------------------------------------------------------------
(* What the reader accepts.                                                *)

\* A record that no acquisition's final end cuts, and that does not reach beyond
\* the end recorded for the last one, is in one acquisition for the reader.
LEMMA HeldIsPlaced ==
  ASSUME NEW d \in DbType, SegmentsAccepted(d), d.segs # <<>>, d.segs[1].from = 0,
         NEW from \in Nat, NEW to \in Nat, to <= d.segs[Len(d.segs)].to, Held(d, from, to)
  PROVE  InOneSegment(d, from, to)
  <1> DEFINE begun == {i \in 1..Len(d.segs) : d.segs[i].from <= from}
             n == HolderAt(d, from)
  <1>1. Len(d.segs) \in Nat \ {0}
    BY DEF DbType
  <1>2. 1 \in begun
    BY <1>1
  <1>3. SegmentAt(d, from) = n
    <2>1. SegmentAt(d, from) = IF begun = {} THEN 0 ELSE CHOOSE i \in begun : \A j \in begun : j <= i
      BY DEF SegmentAt
    <2>2. n = IF begun = {} THEN 1 ELSE CHOOSE i \in begun : \A j \in begun : j <= i
      BY DEF HolderAt
    <2> HIDE DEF begun, n
    <2> QED BY <1>2, <2>1, <2>2
  <1>4. n \in 1..Len(d.segs)
    BY SegmentAtIs
  <1>5. to >= from /\ (d.segs[n].final => to <= d.segs[n].to)
    BY DEF Held
  <1> HIDE DEF n, begun
  <1>6. d.segs[n].to \in Nat
    BY <1>4, SegTypes
  <1>7. n # Len(d.segs) => d.segs[n].final
    <2> HAVE n # Len(d.segs)
    <2>1. n + 1 \in 1..Len(d.segs) /\ n + 1 > 1 /\ (n + 1) - 1 = n
      BY <1>1, <1>4
    <2> QED BY <2>1 DEF SegmentsAccepted
  <1>8. to <= d.segs[n].to
    BY <1>5, <1>7
  <1>9. n # 0 /\ from <= d.segs[n].to
    BY <1>1, <1>4, <1>5, <1>6, <1>8
  <1> QED BY <1>3, <1>5, <1>9 DEF InOneSegment

LEMMA AcceptedIsIntact ==
  ASSUME NEW d, Accepted(kind, d) PROVE Intact(d)
  BY DEF Accepted, Intact, RowHeld

LEMMA CoveredIsPlaced ==
  ASSUME NEW k, NEW d \in DbType, Accepted(k, d), Forward(d), Covered(d)
  PROVE  Placed(d)
  <1>1. ASSUME NEW i \in 1..Len(d.rows)
        PROVE  /\ InOneSegment(d, d.rows[i].from, d.rows[i].to)
               /\ d.rows[i].power # 0 =>
                    InOneSegment(d, d.power[d.rows[i].power].from, d.power[d.rows[i].power].to)
    <2> DEFINE r == d.rows[i]
    <2>1. r.from \in Nat /\ r.to \in Nat
      BY RowTypes
    <2>2. RowHeld(d, r)
      BY DEF Accepted
    <2>3. d.segs # <<>> /\ SegmentsAccepted(d) /\ d.segs[1].from = 0
      BY <2>2 DEF Accepted, RowHeld, RowLinked
    <2>4. r.to <= d.segs[Len(d.segs)].to
      BY <2>3 DEF Covered
    <2> HIDE DEF r
    <2>5. InOneSegment(d, r.from, r.to)
      BY <2>1, <2>2, <2>3, <2>4, HeldIsPlaced DEF RowHeld
    <2>6. ASSUME r.power # 0 PROVE InOneSegment(d, d.power[r.power].from, d.power[r.power].to)
      <3> DEFINE p == r.power
      <3>1. p \in DOMAIN d.power /\ Held(d, d.power[p].from, d.power[p].to)
        BY <2>2, <2>6 DEF RowHeld, RowLinked
      <3>2. d.power[p].from \in Nat /\ d.power[p].to \in Nat
        BY <3>1, PowerTypes
      <3>3. d.power[p].to <= d.segs[Len(d.segs)].to
        BY <2>3, <3>1 DEF Covered
      <3> HIDE DEF p
      <3>4. InOneSegment(d, d.power[p].from, d.power[p].to)
        BY <2>3, <3>1, <3>2, <3>3, HeldIsPlaced
      <3> QED BY <3>4 DEF p
    <2> QED BY <2>5, <2>6 DEF r
  <1>2. ASSUME NEW i \in 1..Len(d.recs) PROVE InOneSegment(d, d.recs[i], d.recs[i])
    <2>1. d.recs[i] \in Nat /\ d.recs # <<>>
      BY RecTypes
    <2>2. /\ d.segs # <<>> /\ SegmentsAccepted(d) /\ d.segs[1].from = 0
          /\ Held(d, d.recs[i], d.recs[i])
      BY <2>1 DEF Accepted
    <2>3. d.recs[i] <= d.segs[Len(d.segs)].to
      BY <2>2 DEF Covered
    <2> QED BY <2>1, <2>2, <2>3, HeldIsPlaced
  <1> QED BY <1>1, <1>2 DEF Placed

LEMMA FreshReadable == ReadAccepts(FreshDb)
  <1> DEFINE d == FreshDb
  <1>1. Accepted(kind, d) /\ Forward(d) /\ d \in DbType
    BY FreshAccepted, FreshTypes
  <1>2. Covered(d)
    BY DEF Covered, FreshDb
  <1> HIDE DEF d
  <1>3. Intact(d) /\ Placed(d)
    BY <1>1, <1>2, AcceptedIsIntact, CoveredIsPlaced
  <1> QED BY <1>3 DEF ReadAccepts, d

\* A copy holds one committed revision that was read before it was pinned, or
\* nothing.
CopyInv == copy.rev \in DbType /\ ReadAccepts(copy.rev)

LEMMA CopyStep ==
  ASSUME StoreInv, CopyInv, [Next]_vars PROVE CopyInv'
  <1>1. kind' = kind /\ disk \in DbType
    BY StateTypes DEF vars, Next, Tick, StartNew, Resume, WorkerStarts, Checkpoint, AppendTile,
       AppendGap, AppendScan, AppendReception, StopRun, FinalSave, Save, CloseSession, Crash,
       CopyPin, CopyEnds
  <1>2. FreshDb \in DbType /\ ReadAccepts(FreshDb)
    BY FreshTypes, FreshReadable
  <1>0. ASSUME copy'.rev \in DbType, ReadAccepts(copy'.rev) PROVE CopyInv'
    BY <1>0, <1>1 DEF CopyInv, ReadAccepts, Intact
  <1>3. CASE copy' = copy
    BY <1>0, <1>3 DEF CopyInv
  <1>4. CASE Crash
    <2>1. copy'.rev = copy.rev \/ copy'.rev = FreshDb
      BY <1>4 DEF Crash
    <2> QED BY <1>0, <1>2, <2>1 DEF CopyInv
  <1>5. CASE CopyPin
    <2>1. copy'.rev = disk /\ ReadAccepts(disk)
      BY <1>5 DEF CopyPin
    <2> QED BY <1>0, <1>1, <2>1
  <1>6. CASE CopyEnds
    <2> DEFINE rev == copy.rev
    <2>1. rev \in DbType
      BY DEF CopyInv
    <2>2. copy'.rev = [rev EXCEPT !.rows = rev.rows] \/ copy'.rev = FreshDb
      BY <1>6 DEF CopyEnds, CopiedRows
    <2> HIDE DEF rev
    <2>3. [rev EXCEPT !.rows = rev.rows] = rev
      BY <2>1 DEF DbType
    <2> QED BY <1>0, <1>2, <2>2, <2>3 DEF CopyInv, rev
  <1> QED BY <1>3, <1>4, <1>5, <1>6 DEF vars, Next, Tick, StartNew, Resume, WorkerStarts,
             Checkpoint, AppendTile, AppendGap, AppendScan, AppendReception, StopRun, FinalSave,
             Save, CloseSession

LEMMA ReadableInit == Init => StoredInv /\ CopyInv
  <1> SUFFICES ASSUME Init PROVE StoredInv /\ CopyInv
    OBVIOUS
  <1>1. /\ db = FreshDb /\ disk = FreshDb /\ eng = IdleEngine /\ copy.rev = FreshDb
        /\ torn = FALSE
    BY DEF Init
  <1>2. ~Acquiring /\ ~eng.final
    BY <1>1 DEF Acquiring, IdleEngine
  <1>3. TornInv
    BY <1>1 DEF TornInv, Covered, FreshDb
  <1> QED BY <1>1, <1>2, <1>3, FreshTypes, FreshAccepted, FreshReadable DEF StoredInv, CopyInv

\* Whatever is interrupted, by a crash, a failed append or update or a stop,
\* what is on disk keeps its structure, and it and every finished or abandoned
\* copy is a recording the reader accepts; only a file whose store committed a
\* failed batch while being destroyed may hold records after the recorded end of
\* their acquisition.  This holds as long as begin_acquisition() itself does not
\* throw: a throw there leaves an acquisition without its setup for a destructor
\* to commit (storage.cpp: update, append, ~SessionStore, save_copy against
\* acquisition_config_at, record_config, read and visit_*).
THEOREM RecordingReadable ==
  ASSUME BeginSucceeds
  PROVE  Spec => []DurableReadable
  <1> DEFINE I == StoreInv /\ StoredInv /\ CopyInv
  <1>1. Init => I
    BY StoreInvInit, ReadableInit
  <1>2. I /\ [Next]_vars => I'
    BY StoreStep, StoredStep, CopyStep
  <1>3. I => DurableReadable
    <2> SUFFICES ASSUME StoreInv, StoredInv, CopyInv PROVE DurableReadable
      OBVIOUS
    <2>1. disk \in DbType /\ Accepted(kind, disk) /\ Forward(disk) /\ TornInv
      BY StateTypes DEF StoredInv
    <2>2. Intact(disk)
      BY <2>1, AcceptedIsIntact
    <2>3. ~torn => Placed(disk)
      BY <2>1, CoveredIsPlaced DEF TornInv
    <2> QED BY <2>2, <2>3 DEF CopyInv, DurableReadable
  <1> QED BY <1>1, <1>2, <1>3, PTL DEF Spec

-----------------------------------------------------------------------------
(* The summaries of a survey (SurveyAnalysis.tla).                         *)

\* A function that starts at 0 and grows by the entries ends at their total.
LEMMA TotalBySteps ==
  ASSUME NEW c \in Seq(Nat), NEW g, g[0] = 0,
         \A j \in 1..Len(c) : g[j] = g[j - 1] + c[j]
  PROVE  Total(c) = g[Len(c)]
  <1> DEFINE h == [j \in 0..Len(c) |-> g[j]]
  <1>1. Len(c) \in Nat
    OBVIOUS
  <1>2. ASSUME NEW j \in 0..Len(c) PROVE h[j] = IF j = 0 THEN 0 ELSE h[j - 1] + c[j]
    <2>1. CASE j = 0
      BY <2>1
    <2>2. CASE j # 0
      <3>1. j \in 1..Len(c) /\ j - 1 \in 0..Len(c)
        BY <1>1, <2>2
      <3> QED BY <2>2, <3>1
    <2> QED BY <2>1, <2>2
  <1>3. h[Len(c)] = g[Len(c)] /\ h = [j \in 0..Len(c) |-> h[j]]
    BY <1>1
  <1> HIDE DEF h
  <1>4. IsSum(h, c)
    BY <1>2, <1>3 DEF IsSum
  <1> QED BY <1>3, <1>4, TotalIs

LEMMA FourSum ==
  ASSUME NEW a \in Nat, NEW b \in Nat, NEW c \in Nat, NEW d \in Nat PROVE (a + c) + (b + d) = (a + b) + (c + d)
  OBVIOUS
LEMMA Rest == ASSUME NEW a \in Nat, NEW b \in Nat, a = b \/ a = 0 PROVE b - a \in Nat /\ b = a + (b - a)
  OBVIOUS

\* The total of a sum, entry by entry.
LEMMA TotalSum ==
  ASSUME NEW n \in Nat, NEW c \in [1..n -> Nat], NEW d \in [1..n -> Nat], NEW e \in [1..n -> Nat],
         \A i \in 1..n : e[i] = c[i] + d[i]
  PROVE  Total(e) = Total(c) + Total(d) /\ Total(c) \in Nat /\ Total(d) \in Nat
  <1>1. /\ c \in Seq(Nat) /\ Len(c) = n /\ d \in Seq(Nat) /\ Len(d) = n
        /\ e \in Seq(Nat) /\ Len(e) = n
    OBVIOUS
  <1>2. PICK f \in [0..n -> Nat] : IsSum(f, c)
    BY <1>1, SumExists
  <1>3. PICK h \in [0..n -> Nat] : IsSum(h, d)
    BY <1>1, SumExists
  <1> DEFINE g == [j \in 0..n |-> f[j] + h[j]]
  <1>4. /\ f[0] = 0 /\ \A j \in 1..n : f[j] = f[j - 1] + c[j]
        /\ h[0] = 0 /\ \A j \in 1..n : h[j] = h[j - 1] + d[j]
    <2>1. f = [j \in 0..n |-> IF j = 0 THEN 0 ELSE f[j - 1] + c[j]]
      BY <1>1, <1>2 DEF IsSum
    <2>2. h = [j \in 0..n |-> IF j = 0 THEN 0 ELSE h[j - 1] + d[j]]
      BY <1>1, <1>3 DEF IsSum
    <2>3. 0 \in 0..n /\ \A j \in 1..n : j \in 0..n /\ j # 0
      OBVIOUS
    <2>4. f[0] = 0 /\ \A j \in 1..n : f[j] = f[j - 1] + c[j]
      BY <2>1, <2>3
    <2>5. h[0] = 0 /\ \A j \in 1..n : h[j] = h[j - 1] + d[j]
      BY <2>2, <2>3
    <2> QED BY <2>4, <2>5
  <1>5. g[0] = 0
    BY <1>4
  <1>6. ASSUME NEW j \in 1..Len(e) PROVE g[j] = g[j - 1] + e[j]
    <2>1. j \in 1..n /\ j \in 0..n /\ j - 1 \in 0..n
      BY <1>1
    <2>2. g[j] = f[j] + h[j] /\ g[j - 1] = f[j - 1] + h[j - 1]
      BY <2>1
    <2>3. f[j - 1] \in Nat /\ h[j - 1] \in Nat /\ c[j] \in Nat /\ d[j] \in Nat
      BY <2>1
    <2>4. f[j] = f[j - 1] + c[j] /\ h[j] = h[j - 1] + d[j] /\ e[j] = c[j] + d[j]
      BY <1>4, <2>1
    <2> HIDE DEF g
    <2> DEFINE x == f[j - 1]
               y == h[j - 1]
               p == c[j]
               q == d[j]
    <2>5. /\ x \in Nat /\ y \in Nat /\ p \in Nat /\ q \in Nat
          /\ g[j] = (x + p) + (y + q) /\ g[j - 1] + e[j] = (x + y) + (p + q)
      BY <2>2, <2>3, <2>4
    <2> HIDE DEF x, y, p, q
    <2>6. (x + p) + (y + q) = (x + y) + (p + q)
      BY <2>5, FourSum
    <2> QED BY <2>5, <2>6, Zenon
  <1>7. g[n] = f[n] + h[n] /\ f[n] \in Nat /\ h[n] \in Nat
    OBVIOUS
  <1> HIDE DEF g
  <1>8. Total(e) = g[n]
    BY <1>1, <1>5, <1>6, TotalBySteps
  <1>9. Total(c) = f[n] /\ Total(d) = h[n]
    BY <1>1, <1>2, <1>3, TotalIs
  <1> QED BY <1>7, <1>8, <1>9

\* One entry and zeros.
LEMMA TotalOfOne ==
  ASSUME NEW n \in Nat, NEW k \in 1..n, NEW v \in Nat, NEW c \in [1..n -> Nat],
         \A i \in 1..n : c[i] = IF i = k THEN v ELSE 0
  PROVE  Total(c) = v
  <1> DEFINE g == [j \in 0..n |-> IF j < k THEN 0 ELSE v]
  <1>1. c \in Seq(Nat) /\ Len(c) = n
    OBVIOUS
  <1>2. g[0] = 0
    OBVIOUS
  <1>3. ASSUME NEW j \in 1..Len(c) PROVE g[j] = g[j - 1] + c[j]
    <2>1. j \in 1..n /\ j \in 0..n /\ j - 1 \in 0..n
      BY <1>1
    <2>2. g[j] = (IF j < k THEN 0 ELSE v) /\ g[j - 1] = (IF j - 1 < k THEN 0 ELSE v)
      BY <2>1
    <2>3. c[j] = IF j = k THEN v ELSE 0
      BY <2>1
    <2> HIDE DEF g
    <2> QED BY <2>1, <2>2, <2>3
  <1>4. g[n] = v
    OBVIOUS
  <1> HIDE DEF g
  <1> QED BY <1>1, <1>2, <1>3, <1>4, TotalBySteps

\* Two sets without a common element.
LEMMA CountOfTwo ==
  ASSUME NEW R, NEW S, NEW T, IsFiniteSet(T), R \cup S = T, R \cap S = {}
  PROVE  Cardinality(T) = Cardinality(R) + Cardinality(S) /\ Cardinality(R) \in Nat /\ Cardinality(S) \in Nat
  <1>1. IsFiniteSet(R) /\ IsFiniteSet(S)
    BY FS_Subset
  <1>2. Cardinality(R) \in Nat /\ Cardinality(S) \in Nat
    BY <1>1, FS_CardinalityType
  <1>3. Cardinality(R \cup S) = Cardinality(R) + Cardinality(S) - Cardinality(R \cap S)
    BY <1>1, FS_Union
  <1>4. Cardinality(R \cap S) = 0 /\ Cardinality(R \cup S) = Cardinality(T)
    BY FS_EmptySet, Zenon
  <1>5. Cardinality(R) + Cardinality(S) - Cardinality(R \cap S) = Cardinality(R) + Cardinality(S)
    BY <1>2, <1>4
  <1> QED BY <1>2, <1>3, <1>4, <1>5, Zenon

\* The size of a set reached through a chain of sets is the total of the
\* sizes of its links.
LEMMA TotalOfChain ==
  ASSUME NEW c \in Seq(Nat), NEW C, C[0] = {}, IsFiniteSet(C[Len(c)]),
         \A j \in 1..Len(c) : /\ C[j - 1] \subseteq C[j] /\ IsFiniteSet(C[j])
                              /\ c[j] = Cardinality(C[j] \ C[j - 1])
  PROVE  Total(c) = Cardinality(C[Len(c)])
  <1> DEFINE g == [j \in 0..Len(c) |-> Cardinality(C[j])]
  <1>1. Len(c) \in Nat
    OBVIOUS
  <1>2. g[0] = 0
    <2>1. Cardinality(C[0]) = 0
      BY FS_EmptySet, Zenon
    <2>2. 0 \in 0..Len(c)
      BY <1>1
    <2> QED BY <2>1, <2>2, Zenon
  <1>3. ASSUME NEW j \in 1..Len(c) PROVE g[j] = g[j - 1] + c[j]
    <2>1. j \in 0..Len(c) /\ j - 1 \in 0..Len(c)
      BY <1>1
    <2>2. C[j - 1] \subseteq C[j] /\ IsFiniteSet(C[j]) /\ c[j] = Cardinality(C[j] \ C[j - 1])
      OBVIOUS
    <2>3. IsFiniteSet(C[j - 1])
      BY <2>2, FS_Subset
    <2> DEFINE R == C[j - 1]
               T == C[j]
               S == T \ R
    <2>4. R \cup S = T /\ R \cap S = {} /\ IsFiniteSet(T)
      BY <2>2
    <2>5. c[j] = Cardinality(S)
      BY <2>2
    <2> HIDE DEF R, T, S
    <2>6. Cardinality(T) = Cardinality(R) + Cardinality(S)
      BY <2>4, CountOfTwo
    <2>7. Cardinality(C[j]) = Cardinality(C[j - 1]) + c[j]
      BY <2>5, <2>6 DEF R, T
    <2> QED BY <2>1, <2>7
  <1>4. g[Len(c)] = Cardinality(C[Len(c)])
    BY <1>1
  <1> HIDE DEF g
  <1> QED BY <1>2, <1>3, <1>4, TotalBySteps

\* The values of a function over a finite set.
LEMMA ImageFinite ==
  ASSUME NEW S, IsFiniteSet(S), NEW h PROVE IsFiniteSet({h[x] : x \in S})
  <1> DEFINE T == {h[x] : x \in S}
             g == [x \in S |-> h[x]]
  <1>1. g \in Surjection(S, T)
    BY DEF Surjection
  <1> HIDE DEF T, g
  <1>2. IsFiniteSet(T)
    BY <1>1, FS_Surjection
  <1> QED BY <1>2 DEF T

-----------------------------------------------------------------------------
(* What is read: the survey and the selection do not change.               *)

Inputs == survey \in Surveys /\ query \in Queries

LEMMA QueryFacts ==
  ASSUME Inputs
  PROVE  /\ query.from \in Nat /\ query.to \in Nat /\ query.from <= Forever /\ query.to <= Forever
         /\ QueryEnd \in Nat /\ QueryEnd <= Forever /\ query.group \in Nat /\ query.group > 0
         /\ Forever \in Nat /\ FrameTicks \in Nat /\ FrameTicks > 0
         /\ MaxObservations \in Nat /\ MaxObservations > 0
  <1>1. Forever \in Nat /\ FrameTicks \in Nat /\ FrameTicks > 0 /\ MaxObservations \in Nat /\ MaxObservations > 0
    BY AnalysisAssumption
  <1>2. query \in [from : Ticks, to : Ticks, lower : Nat, upper : Nat, region : SUBSET Cells, group : Nat \ {0},
                   kinds : ReportSummaries]
    BY AnalysisAssumption, Zenon DEF Inputs
  <1>3. query.from \in Ticks /\ query.to \in Ticks /\ query.group \in Nat /\ query.group > 0
    BY <1>2
  <1>4. query.from \in Nat /\ query.to \in Nat /\ query.from <= Forever /\ query.to <= Forever
    BY <1>1, <1>3 DEF Ticks
  <1> QED BY <1>1, <1>3, <1>4 DEF QueryEnd

LEMMA AcqFacts ==
  ASSUME Inputs
  PROVE  /\ DOMAIN survey.acqs \subseteq Nat \ {0}
         /\ \A n \in DOMAIN survey.acqs :
              /\ survey.acqs[n].from \in Nat /\ survey.acqs[n].to \in Nat /\ survey.acqs[n].to <= Forever
              /\ survey.acqs[n].bins \subseteq BinRange
         /\ \A n, k \in DOMAIN survey.acqs : n < k => survey.acqs[n].to <= survey.acqs[k].from
  <1> DEFINE A == [from : Ticks, to : Ticks, bins : SUBSET BinRange, guard : SUBSET BinRange]
             s == survey.acqs
  <1>1. AcqsOk(survey) /\ Forever \in Nat
    BY AnalysisAssumption, Zenon DEF Inputs
  <1>2. s \in Seq(A) /\ \A n, k \in DOMAIN s : n < k => s[n].to <= s[k].from
    BY <1>1 DEF AcqsOk
  <1>3. DOMAIN s \subseteq Nat \ {0}
    BY <1>2
  <1>4. ASSUME NEW n \in DOMAIN s
        PROVE  /\ s[n].from \in Nat /\ s[n].to \in Nat /\ s[n].to <= Forever
               /\ s[n].bins \subseteq BinRange
    <2>1. s[n] \in A
      <3> HIDE DEF A, s
      <3>1. s \in Seq(A)
        BY <1>2
      <3> QED BY <3>1
    <2>2. s[n].from \in Ticks /\ s[n].to \in Ticks /\ s[n].bins \subseteq BinRange
      BY <2>1
    <2> QED BY <1>1, <2>2 DEF Ticks
  <1> QED BY <1>2, <1>3, <1>4

TileType == [acq : DOMAIN survey.acqs, start : Ticks, frames : Seq(SUBSET BinRange), fix : Cells \cup {NoFix}]

LEMMA TilesFacts ==
  ASSUME Inputs
  PROVE  /\ survey.tiles \in Seq(TileType)
         /\ Len(survey.tiles) \in Nat /\ DOMAIN survey.tiles = 1..Len(survey.tiles)
         /\ \A i, j \in DOMAIN survey.tiles : i < j => EndOf(survey.tiles[i]) <= survey.tiles[j].start
         /\ \A i \in DOMAIN survey.tiles : /\ Acq(survey.tiles[i]).from <= survey.tiles[i].start
                                           /\ EndOf(survey.tiles[i]) <= Acq(survey.tiles[i]).to
  <1>1. TilesOk(survey)
    BY AnalysisAssumption, Zenon DEF Inputs
  <1>2. survey.tiles \in Seq(TileType)
    BY <1>1 DEF TilesOk, TileType
  <1>3. Len(survey.tiles) \in Nat /\ DOMAIN survey.tiles = 1..Len(survey.tiles)
    BY <1>2
  <1> QED BY <1>1, <1>2, <1>3 DEF TilesOk, Acq

LEMMA Product == ASSUME NEW a \in Nat, NEW b \in Nat PROVE a * b \in Nat
  OBVIOUS
LEMMA ProductNext == ASSUME NEW a \in Nat, NEW b \in Nat PROVE (a + 1) * b = a * b + b
  OBVIOUS
LEMMA ProductGrows == ASSUME NEW a \in Nat, NEW c \in Nat, NEW b \in Nat, a <= c PROVE a * b <= c * b
  OBVIOUS

LEMMA TileFacts ==
  ASSUME Inputs, NEW i \in DOMAIN survey.tiles, NEW t, t = survey.tiles[i]
  PROVE  /\ i \in Nat /\ i > 0 /\ i <= Len(survey.tiles)
         /\ t.acq \in DOMAIN survey.acqs /\ t.start \in Nat /\ t.fix \in Cells \cup {NoFix}
         /\ t.frames \in Seq(SUBSET BinRange) /\ Len(t.frames) \in Nat /\ DOMAIN t.frames = 1..Len(t.frames)
         /\ EndOf(t) \in Nat /\ t.start <= EndOf(t) /\ EndOf(t) <= Forever
         /\ Acq(t).from \in Nat /\ Acq(t).to \in Nat /\ Acq(t).from <= t.start /\ EndOf(t) <= Acq(t).to
  <1>1. i \in Nat /\ i > 0 /\ i <= Len(survey.tiles)
    BY TilesFacts
  <1>2. t \in TileType
    BY TilesFacts
  <1>3. /\ t.acq \in DOMAIN survey.acqs /\ t.start \in Ticks /\ t.fix \in Cells \cup {NoFix}
        /\ t.frames \in Seq(SUBSET BinRange)
    BY <1>2 DEF TileType
  <1>4. t.start \in Nat
    BY <1>3, QueryFacts DEF Ticks
  <1>5. Len(t.frames) \in Nat /\ DOMAIN t.frames = 1..Len(t.frames)
    BY <1>3
  <1>6. Len(t.frames) * FrameTicks \in Nat
    BY <1>5, QueryFacts, Product
  <1>7. EndOf(t) \in Nat /\ t.start <= EndOf(t)
    BY <1>4, <1>6 DEF EndOf
  <1>8. Acq(t).from \in Nat /\ Acq(t).to \in Nat /\ Acq(t).to <= Forever
    BY <1>3, AcqFacts DEF Acq
  <1>9. Acq(t).from <= t.start /\ EndOf(t) <= Acq(t).to
    BY TilesFacts
  <1>10. EndOf(t) <= Forever
    BY <1>7, <1>8, <1>9, QueryFacts
  <1> QED BY <1>1, <1>3, <1>4, <1>5, <1>7, <1>8, <1>9, <1>10

\* Where a frame lies.
LEMMA FrameFacts ==
  ASSUME Inputs, NEW i \in DOMAIN survey.tiles, NEW t, t = survey.tiles[i], NEW f \in DOMAIN t.frames
  PROVE  /\ f \in Nat /\ f > 0 /\ f <= Len(t.frames)
         /\ FrameFrom(t, f) \in Nat /\ FrameTo(t, f) \in Nat /\ FrameTo(t, f) = FrameFrom(t, f) + FrameTicks
         /\ t.start <= FrameFrom(t, f) /\ FrameTo(t, f) <= EndOf(t)
  <1>1. t.start \in Nat /\ Len(t.frames) \in Nat /\ DOMAIN t.frames = 1..Len(t.frames) /\ FrameTicks \in Nat
    BY TileFacts, QueryFacts
  <1>2. f \in Nat /\ f > 0 /\ f <= Len(t.frames)
    BY <1>1
  <1> DEFINE g == f - 1
  <1>3. g \in Nat /\ f = g + 1
    BY <1>2
  <1> HIDE DEF g
  <1>4. g * FrameTicks \in Nat /\ f * FrameTicks = g * FrameTicks + FrameTicks
    BY <1>1, <1>3, Product, ProductNext
  <1>5. f * FrameTicks <= Len(t.frames) * FrameTicks /\ Len(t.frames) * FrameTicks \in Nat
    BY <1>1, <1>2, ProductGrows, Product
  <1>6. FrameFrom(t, f) = t.start + g * FrameTicks
    BY DEF FrameFrom, g
  <1>7. FrameTo(t, f) = t.start + f * FrameTicks /\ EndOf(t) = t.start + Len(t.frames) * FrameTicks
    BY DEF FrameTo, EndOf
  <1> DEFINE u == g * FrameTicks
             v == f * FrameTicks
             z == Len(t.frames) * FrameTicks
  <1>8. u \in Nat /\ v = u + FrameTicks /\ v <= z /\ z \in Nat
    BY <1>4, <1>5
  <1>9. FrameFrom(t, f) = t.start + u /\ FrameTo(t, f) = t.start + v /\ EndOf(t) = t.start + z
    BY <1>6, <1>7
  <1> HIDE DEF u, v, z
  <1> QED BY <1>1, <1>2, <1>8, <1>9
-----------------------------------------------------------------------------
(* Intervals of ticks.                                                     *)

Interval == Int \X Int

LEMMA MeetIs ==
  ASSUME NEW a \in Interval, NEW b \in Interval
  PROVE  /\ Meet(a, b) \in Interval
         /\ \A k \in Int : (Meet(a, b)[1] <= k /\ k < Meet(a, b)[2])
                             <=> (a[1] <= k /\ k < a[2] /\ b[1] <= k /\ k < b[2])
  <1>1. a[1] \in Int /\ a[2] \in Int /\ b[1] \in Int /\ b[2] \in Int
    BY DEF Interval
  <1>2. Meet(a, b) = <<Later(a[1], b[1]), Sooner(a[2], b[2])>>
    BY DEF Meet
  <1>3. /\ Later(a[1], b[1]) \in Int /\ Sooner(a[2], b[2]) \in Int
        /\ \A k \in Int : (Later(a[1], b[1]) <= k /\ k < Sooner(a[2], b[2]))
                             <=> (a[1] <= k /\ k < a[2] /\ b[1] <= k /\ k < b[2])
    BY <1>1 DEF Later, Sooner
  <1> HIDE DEF Meet
  <1>4. Meet(a, b)[1] = Later(a[1], b[1]) /\ Meet(a, b)[2] = Sooner(a[2], b[2])
    BY <1>2
  <1>5. Meet(a, b) \in Interval
    BY <1>2, <1>3 DEF Interval
  <1> QED BY <1>3, <1>4, <1>5

LEMMA DurationIs ==
  ASSUME NEW a \in Interval
  PROVE  /\ Duration(a) \in Nat
         /\ Duration(a) = IF a[2] <= a[1] THEN 0 ELSE a[2] - a[1]
  <1>1. a[1] \in Int /\ a[2] \in Int
    BY DEF Interval
  <1> QED BY <1>1 DEF Duration, Later

\* A tick lies in an interval exactly when it has a duration.
LEMMA DurationHasTick ==
  ASSUME NEW a \in Interval
  PROVE  Duration(a) > 0 <=> \E k \in Int : a[1] <= k /\ k < a[2]
  <1>1. a[1] \in Int /\ a[2] \in Int
    BY DEF Interval
  <1>2. CASE a[1] < a[2]
    BY <1>1, <1>2, DurationIs
  <1>3. CASE ~ (a[1] < a[2])
    BY <1>1, <1>3, DurationIs
  <1> QED BY <1>2, <1>3

\* The measurements of one frame over an interval are as many as its ticks.
LEMMA FrameCount ==
  ASSUME NEW a \in Interval, NEW i, NEW f
  PROVE  LET S == {[tile |-> i, frame |-> f, at |-> k] : k \in a[1]..(a[2] - 1)} IN
         IsFiniteSet(S) /\ Cardinality(S) = Duration(a)
  <1> DEFINE K == a[1]..(a[2] - 1)
             h == [k \in K |-> [tile |-> i, frame |-> f, at |-> k]]
             S == {[tile |-> i, frame |-> f, at |-> k] : k \in K}
  <1>1. a[1] \in Int /\ a[2] \in Int /\ a[2] - 1 \in Int
    BY DEF Interval
  <1>2. IsFiniteSet(K) /\ Cardinality(K) = IF a[1] > a[2] - 1 THEN 0 ELSE (a[2] - 1) - a[1] + 1
    BY <1>1, FS_Interval
  <1>3. Cardinality(K) = Duration(a)
    BY <1>1, <1>2, DurationIs
  <1>4. h \in Bijection(K, S)
    <2>1. h \in [K -> S]
      OBVIOUS
    <2>2. ASSUME NEW x \in K, NEW y \in K, h[x] = h[y] PROVE x = y
      <3>1. h[x].at = x /\ h[y].at = y
        OBVIOUS
      <3> QED BY <2>2, <3>1
    <2>3. \A s \in S : \E x \in K : h[x] = s
      OBVIOUS
    <2> HIDE DEF K, S, h
    <2>4. h \in Injection(K, S)
      BY <2>1, <2>2 DEF Injection, IsInjective
    <2>5. h \in Surjection(K, S)
      BY <2>1, <2>3 DEF Surjection
    <2> QED BY <2>4, <2>5 DEF Bijection
  <1> HIDE DEF K, S, h
  <1>5. ExistsBijection(K, S)
    BY <1>4 DEF ExistsBijection
  <1>6. IsFiniteSet(S) /\ Cardinality(S) = Cardinality(K)
    BY <1>2, <1>5, FS_Bijection
  <1>7. IsFiniteSet(S) /\ Cardinality(S) = Duration(a)
    BY <1>3, <1>6
  <1> QED BY <1>7 DEF S, K

-----------------------------------------------------------------------------
(* The reference.                                                          *)

LEMMA MeasuredIs ==
  ASSUME NEW m
  PROVE  m \in Measured <=> \E i \in Counted : \E f \in DOMAIN survey.tiles[i].frames :
            \E k \in TicksOf(survey.tiles[i], f) : m = [tile |-> i, frame |-> f, at |-> k]
  BY DEF Measured, MeasuredIn

LEMMA MeasuredFields ==
  ASSUME Inputs, NEW m \in Measured
  PROVE  /\ m.tile \in Counted /\ m.tile \in DOMAIN survey.tiles /\ m.tile \in Nat
         /\ m.frame \in DOMAIN TileOf(m).frames /\ m.frame \in Nat /\ m.at \in Nat
         /\ FrameFrom(TileOf(m), m.frame) <= m.at /\ m.at < FrameTo(TileOf(m), m.frame)
         /\ TileOf(m).start <= m.at /\ m.at < EndOf(TileOf(m))
         /\ query.from <= m.at /\ m.at < QueryEnd
         /\ m = [tile |-> m.tile, frame |-> m.frame, at |-> m.at]
  <1>1. PICK i \in Counted : \E f \in DOMAIN survey.tiles[i].frames :
            \E k \in TicksOf(survey.tiles[i], f) : m = [tile |-> i, frame |-> f, at |-> k]
    BY MeasuredIs, Zenon
  <1> DEFINE t == survey.tiles[i]
  <1>2. PICK f \in DOMAIN t.frames : \E k \in TicksOf(t, f) : m = [tile |-> i, frame |-> f, at |-> k]
    BY <1>1, Zenon
  <1>3. PICK k \in TicksOf(t, f) : m = [tile |-> i, frame |-> f, at |-> k]
    BY <1>2, Zenon
  <1>4. m.tile = i /\ m.frame = f /\ m.at = k
    BY <1>3
  <1>5. i \in DOMAIN survey.tiles
    BY DEF Counted
  <1>6. TileOf(m) = t
    BY <1>4 DEF TileOf
  <1> HIDE DEF t
  <1>7. /\ f \in Nat /\ f > 0 /\ f <= Len(t.frames)
        /\ FrameFrom(t, f) \in Nat /\ FrameTo(t, f) \in Nat
        /\ t.start <= FrameFrom(t, f) /\ FrameTo(t, f) <= EndOf(t)
    BY <1>2, <1>5, FrameFacts DEF t
  <1>8. i \in Nat /\ t.start \in Nat /\ EndOf(t) \in Nat
    BY <1>5, TileFacts DEF t
  <1>9. k \in FrameFrom(t, f)..(FrameTo(t, f) - 1) /\ k >= query.from /\ k < QueryEnd
    BY <1>3 DEF TicksOf
  <1>10. k \in Nat /\ FrameFrom(t, f) <= k /\ k < FrameTo(t, f) /\ t.start <= k /\ k < EndOf(t)
    BY <1>7, <1>8, <1>9
  <1>11. query.from <= k
    BY <1>9, <1>10, QueryFacts
  <1> QED BY <1>2, <1>3, <1>4, <1>5, <1>6, <1>7, <1>8, <1>9, <1>10, <1>11

LEMMA MeasuredFinite == ASSUME Inputs PROVE IsFiniteSet(Measured)
  <1>1. ASSUME NEW i \in DOMAIN survey.tiles, NEW f \in DOMAIN survey.tiles[i].frames
        PROVE  IsFiniteSet(MeasuredIn(i, f))
    <2> DEFINE t == survey.tiles[i]
               a == <<FrameFrom(t, f), FrameTo(t, f)>>
               S == {[tile |-> i, frame |-> f, at |-> k] : k \in a[1]..(a[2] - 1)}
    <2>1. FrameFrom(t, f) \in Nat /\ FrameTo(t, f) \in Nat
      BY FrameFacts
    <2>2. a \in Interval
      BY <2>1 DEF Interval
    <2>3. IsFiniteSet(S)
      <3> HIDE DEF a
      <3> QED BY <2>2, FrameCount
    <2>4. MeasuredIn(i, f) \subseteq S
      BY DEF MeasuredIn, TicksOf
    <2> HIDE DEF S
    <2> QED BY <2>3, <2>4, FS_Subset
  <1>2. ASSUME NEW i \in DOMAIN survey.tiles
        PROVE  IsFiniteSet(UNION {MeasuredIn(i, f) : f \in DOMAIN survey.tiles[i].frames})
    <2> DEFINE F == DOMAIN survey.tiles[i].frames
               h == [f \in F |-> MeasuredIn(i, f)]
               U == {h[f] : f \in F}
    <2>1. U = {MeasuredIn(i, f) : f \in F}
      OBVIOUS
    <2>2. IsFiniteSet(F)
      <3>1. F = 1..Len(survey.tiles[i].frames) /\ Len(survey.tiles[i].frames) \in Nat
        BY TileFacts
      <3> QED BY <3>1, FS_Interval
    <2>3. IsFiniteSet(U)
      <3> HIDE DEF F, h
      <3> QED BY <2>2, ImageFinite
    <2>4. \A T \in U : IsFiniteSet(T)
      BY <1>1, <2>1
    <2>5. IsFiniteSet(UNION U)
      <3> HIDE DEF U
      <3> QED BY <2>3, <2>4, FS_UNION
    <2> QED BY <2>1, <2>5
  <1> DEFINE P(i) == UNION {MeasuredIn(i, f) : f \in DOMAIN survey.tiles[i].frames}
             h == [i \in Counted |-> P(i)]
             U == {h[i] : i \in Counted}
  <1>3. Measured = UNION U
    <2>1. U = {P(i) : i \in Counted}
      <3> HIDE DEF P
      <3> QED OBVIOUS
    <2>2. Measured = UNION {P(i) : i \in Counted}
      BY DEF Measured
    <2> QED BY <2>1, <2>2, Zenon
  <1>4. IsFiniteSet(Counted) /\ Counted \subseteq DOMAIN survey.tiles
    <2>1. IsFiniteSet(DOMAIN survey.tiles)
      BY TilesFacts, FS_Interval
    <2>2. Counted \subseteq DOMAIN survey.tiles
      BY DEF Counted
    <2> QED BY <2>1, <2>2, FS_Subset
  <1>5. \A i \in Counted : IsFiniteSet(P(i))
    BY <1>2, <1>4
  <1> HIDE DEF P
  <1>6. \A T \in U : IsFiniteSet(T)
    BY <1>5
  <1>7. IsFiniteSet(U)
    <2> HIDE DEF h
    <2> QED BY <1>4, ImageFinite
  <1> HIDE DEF U
  <1>8. IsFiniteSet(UNION U)
    BY <1>6, <1>7, FS_UNION
  <1> QED BY <1>3, <1>8, Zenon
\* Over its tile, a clip selects what the query selects.
CutsTo(t, clip) == \A k \in Int : t.start <= k /\ k < EndOf(t) =>
                    ((clip[1] <= k /\ k < clip[2]) <=> (query.from <= k /\ k < QueryEnd))

Slice(i, F, g) == {m \in Measured : m.tile = i /\ m.frame \in F /\ m.at >= g[1] /\ m.at < g[2]}

LEMMA FramePartType ==
  ASSUME Inputs, NEW i \in DOMAIN survey.tiles, NEW t, t = survey.tiles[i], NEW f \in DOMAIN t.frames,
         NEW clip \in Interval, NEW g \in Interval
  PROVE  /\ <<FrameFrom(t, f), FrameTo(t, f)>> \in Interval
         /\ FramePart(t, f, clip) \in Interval
         /\ Meet(g, FramePart(t, f, clip)) \in Interval
         /\ Duration(Meet(g, FramePart(t, f, clip))) \in Nat
         /\ \A k \in Int : LET a == Meet(g, FramePart(t, f, clip)) IN
              (a[1] <= k /\ k < a[2]) <=> (/\ g[1] <= k /\ k < g[2] /\ clip[1] <= k /\ k < clip[2]
                                           /\ FrameFrom(t, f) <= k /\ k < FrameTo(t, f))
  <1> DEFINE w == <<FrameFrom(t, f), FrameTo(t, f)>>
             p == FramePart(t, f, clip)
  <1>1. FrameFrom(t, f) \in Int /\ FrameTo(t, f) \in Int
    BY FrameFacts
  <1>2. w \in Interval /\ w[1] = FrameFrom(t, f) /\ w[2] = FrameTo(t, f)
    BY <1>1 DEF Interval
  <1>3. p = Meet(clip, w)
    BY DEF FramePart
  <1> HIDE DEF w, p
  <1>4. p \in Interval /\ \A k \in Int : (p[1] <= k /\ k < p[2])
                             <=> (clip[1] <= k /\ k < clip[2] /\ w[1] <= k /\ k < w[2])
    BY <1>2, <1>3, MeetIs
  <1>5. Meet(g, p) \in Interval /\ \A k \in Int : (Meet(g, p)[1] <= k /\ k < Meet(g, p)[2])
                             <=> (g[1] <= k /\ k < g[2] /\ p[1] <= k /\ k < p[2])
    BY <1>4, MeetIs
  <1>6. Duration(Meet(g, p)) \in Nat
    BY <1>5, DurationIs
  <1>7. \A k \in Int : (Meet(g, p)[1] <= k /\ k < Meet(g, p)[2])
          <=> (/\ g[1] <= k /\ k < g[2] /\ clip[1] <= k /\ k < clip[2]
               /\ FrameFrom(t, f) <= k /\ k < FrameTo(t, f))
    BY <1>2, <1>4, <1>5
  <1> QED BY <1>2, <1>4, <1>5, <1>6, <1>7 DEF w, p

\* An interval cut at x.
LEMMA Pieces ==
  ASSUME NEW p \in Int, NEW q \in Int, NEW x \in Int, NEW y \in Int, x <= y
  PROVE  Later(0, Sooner(q, y) - p) = Later(0, Sooner(q, x) - p) + Later(0, Sooner(q, y) - Later(p, x))
  <1>1. CASE q <= x
    <2>1. Sooner(q, y) = q /\ Sooner(q, x) = q /\ Later(0, q - Later(p, x)) = 0
      BY <1>1 DEF Sooner, Later
    <2>2. Later(0, q - p) \in Int
      BY DEF Later
    <2> QED BY <2>1, <2>2
  <1>2. CASE q > x
    <2> DEFINE z == Sooner(q, y)
    <2>1. z \in Int /\ x <= z /\ Sooner(q, x) = x
      BY <1>2 DEF Sooner
    <2> HIDE DEF z
    <2>2. Later(0, z - p) = Later(0, x - p) + Later(0, z - Later(p, x))
      BY <2>1 DEF Later
    <2> QED BY <2>1, <2>2 DEF z
  <1> QED BY <1>1, <1>2

\* What the loop over the frames of a tile adds up is what was measured in it.
LEMMA SliceCount ==
  ASSUME Inputs, NEW i \in Counted, NEW t, t = survey.tiles[i],
         NEW clip \in Interval, CutsTo(t, clip), NEW g \in Interval, NEW F
  PROVE  Cardinality(Slice(i, F, g)) = FrameTime(t, clip, g, F)
  <1> DEFINE Q == Slice(i, F, g)
             D == DOMAIN t.frames
             n == Len(t.frames)
             a(f) == Meet(g, FramePart(t, f, clip))
             c == [f \in D |-> IF f \in F THEN Duration(a(f)) ELSE 0]
             C == [j \in 0..n |-> {m \in Q : m.frame <= j}]
  <1>1. i \in DOMAIN survey.tiles
    BY DEF Counted
  <1>2. n \in Nat /\ D = 1..n
    BY <1>1, TileFacts
  <1>3. \A f \in D : Duration(a(f)) \in Nat /\ a(f) \in Interval
    BY <1>1, FramePartType
  <1>4. c \in Seq(Nat) /\ Len(c) = n
    <2>1. \A f \in D : c[f] \in Nat
      <3> HIDE DEF a, D
      <3> QED BY <1>3
    <2>2. DOMAIN c = 1..n /\ c = [f \in 1..n |-> c[f]]
      <3> HIDE DEF a
      <3> QED BY <1>2
    <2> HIDE DEF c
    <2>3. c \in [1..n -> Nat]
      BY <1>2, <2>1, <2>2
    <2> QED BY <1>2, <2>3
  <1>5. Q \subseteq Measured /\ IsFiniteSet(Q)
    BY MeasuredFinite, FS_Subset DEF Slice
  <1>6. ASSUME NEW m \in Q PROVE m.tile = i /\ m.frame \in D /\ m.frame \in Nat /\ m.frame \in F /\ m.at \in Nat
    <2>1. m \in Measured /\ m.tile = i /\ m.frame \in F
      BY DEF Slice
    <2>2. TileOf(m) = t
      BY <2>1 DEF TileOf
    <2> QED BY <2>1, <2>2, MeasuredFields
  <1>7. C[0] = {}
    <2>1. \A m \in Q : ~ (m.frame <= 0)
      BY <1>2, <1>6
    <2> HIDE DEF Q
    <2> QED BY <1>2, <2>1
  <1>8. C[n] = Q
    <2>1. \A m \in Q : m.frame <= n
      BY <1>2, <1>6
    <2> HIDE DEF Q
    <2> QED BY <1>2, <2>1
  <1>9. ASSUME NEW j \in 1..n
        PROVE  /\ C[j - 1] \subseteq C[j] /\ IsFiniteSet(C[j])
               /\ c[j] = Cardinality(C[j] \ C[j - 1])
    <2>1. j \in 0..n /\ j - 1 \in 0..n /\ j \in D /\ j \in Nat
      BY <1>2
    <2>2. C[j] = {m \in Q : m.frame <= j} /\ C[j - 1] = {m \in Q : m.frame <= j - 1}
      <3> HIDE DEF Q
      <3> QED BY <2>1
    <2>3. C[j - 1] \subseteq C[j] /\ C[j] \subseteq Q
      <3> HIDE DEF C, Q
      <3> QED BY <1>6, <2>1, <2>2
    <2>4. IsFiniteSet(C[j])
      <3> HIDE DEF C, Q
      <3> QED BY <1>5, <2>3, FS_Subset
    <2> DEFINE E == {m \in Q : m.frame = j}
    <2>5. C[j] \ C[j - 1] = E
      <3> HIDE DEF C, Q
      <3> QED BY <1>6, <2>1, <2>2
    <2>6. CASE j \notin F
      <3>1. c[j] = 0
        <4> HIDE DEF a
        <4> QED BY <2>1, <2>6
      <3>2. E = {}
        <4> HIDE DEF Q
        <4> QED BY <1>6, <2>6
      <3> HIDE DEF c, C, E
      <3>3. Cardinality(E) = 0
        BY <3>2, FS_EmptySet, Zenon
      <3> QED BY <2>3, <2>4, <2>5, <3>1, <3>3
    <2>7. CASE j \in F
      <3>1. c[j] = Duration(a(j))
        <4> HIDE DEF a
        <4> QED BY <2>1, <2>7
      <3> DEFINE b == a(j)
                 S == {[tile |-> i, frame |-> j, at |-> k] : k \in b[1]..(b[2] - 1)}
      <3>2. b \in Interval /\ \A k \in Int : (b[1] <= k /\ k < b[2])
              <=> (/\ g[1] <= k /\ k < g[2] /\ clip[1] <= k /\ k < clip[2]
                   /\ FrameFrom(t, j) <= k /\ k < FrameTo(t, j))
        BY <1>1, <2>1, FramePartType
      <3> HIDE DEF a, b
      <3>3. /\ FrameFrom(t, j) \in Nat /\ FrameTo(t, j) \in Nat
            /\ t.start \in Nat /\ EndOf(t) \in Nat
            /\ t.start <= FrameFrom(t, j) /\ FrameTo(t, j) <= EndOf(t)
        BY <1>1, <2>1, FrameFacts, TileFacts
      <3>4. g[1] \in Int /\ g[2] \in Int /\ b[1] \in Int /\ b[2] \in Int
        BY <3>2 DEF Interval
      <3>5. ASSUME NEW k \in Int
            PROVE  k \in b[1]..(b[2] - 1) <=> (k \in TicksOf(t, j) /\ k >= g[1] /\ k < g[2])
        <4>1. k \in b[1]..(b[2] - 1) <=> b[1] <= k /\ k < b[2]
          BY <3>4
        <4>2. k \in TicksOf(t, j) <=> /\ FrameFrom(t, j) <= k /\ k < FrameTo(t, j)
                                      /\ query.from <= k /\ k < QueryEnd
          BY <3>3, QueryFacts DEF TicksOf
        <4>3. FrameFrom(t, j) <= k /\ k < FrameTo(t, j) =>
                ((clip[1] <= k /\ k < clip[2]) <=> (query.from <= k /\ k < QueryEnd))
          BY <3>3 DEF CutsTo
        <4> QED BY <3>2, <3>4, <4>1, <4>2, <4>3
      <3>6. E \subseteq S
        <4> SUFFICES ASSUME NEW m \in E PROVE m \in S
          BY Zenon
        <4>1. m \in Measured /\ m.tile = i /\ m.frame = j /\ m.at >= g[1] /\ m.at < g[2]
          BY DEF Slice
        <4>2. TileOf(m) = t
          BY <4>1 DEF TileOf
        <4>3. /\ m.at \in Nat /\ FrameFrom(t, j) <= m.at /\ m.at < FrameTo(t, j)
              /\ query.from <= m.at /\ m.at < QueryEnd
              /\ m = [tile |-> i, frame |-> j, at |-> m.at]
          BY <4>1, <4>2, MeasuredFields
        <4>4. m.at \in TicksOf(t, j) /\ m.at \in Int
          BY <3>3, <4>3, QueryFacts DEF TicksOf
        <4>5. m.at \in b[1]..(b[2] - 1)
          BY <3>5, <4>1, <4>4
        <4> QED BY <4>3, <4>5
      <3>7. S \subseteq E
        <4> SUFFICES ASSUME NEW k \in b[1]..(b[2] - 1) PROVE [tile |-> i, frame |-> j, at |-> k] \in E
          OBVIOUS
        <4> DEFINE m == [tile |-> i, frame |-> j, at |-> k]
        <4>1. k \in Int
          BY <3>4
        <4>2. k \in TicksOf(t, j) /\ k >= g[1] /\ k < g[2]
          BY <3>5, <4>1
        <4>3. m \in Measured
          BY <2>1, <4>2, MeasuredIs
        <4>4. m.tile = i /\ m.frame = j /\ m.at = k
          OBVIOUS
        <4> HIDE DEF m
        <4>5. m \in E
          BY <2>7, <4>2, <4>3, <4>4 DEF Slice
        <4> QED BY <4>5 DEF m
      <3>8. E = S
        BY <3>6, <3>7, Zenon
      <3>9. Cardinality(S) = Duration(b)
        BY <3>2, FrameCount
      <3> HIDE DEF c, C, E, S
      <3> QED BY <2>3, <2>4, <2>5, <3>1, <3>8, <3>9 DEF b
    <2> QED BY <2>6, <2>7
  <1>10. FrameTime(t, clip, g, F) = Total(c)
    BY DEF FrameTime
  <1> HIDE DEF c, C, Q, n
  <1>11. IsFiniteSet(C[n])
    BY <1>5, <1>8
  <1>12. Total(c) = Cardinality(C[Len(c)])
    BY <1>4, <1>7, <1>9, <1>11, TotalOfChain
  <1> QED BY <1>4, <1>8, <1>10, <1>12 DEF Q
\* All the frames of a clipped tile make up its duration.
LEMMA WholeTime ==
  ASSUME Inputs, NEW i \in DOMAIN survey.tiles, NEW t, t = survey.tiles[i],
         NEW w \in Interval, NEW clip, clip = Meet(w, Whole(t))
  PROVE  FrameTime(t, clip, Always, DOMAIN t.frames) = Duration(clip)
  <1> DEFINE D == DOMAIN t.frames
             n == Len(t.frames)
             b(f) == Duration(Meet(Always, FramePart(t, f, clip)))
             c == [f \in D |-> IF f \in D THEN b(f) ELSE 0]
             upto(j) == <<t.start, t.start + j * FrameTicks>>
             h == [j \in 0..n |-> Duration(Meet(clip, upto(j)))]
  <1>1. /\ n \in Nat /\ D = 1..n /\ t.start \in Nat /\ EndOf(t) \in Nat /\ t.start <= EndOf(t)
        /\ EndOf(t) <= Forever /\ Forever \in Nat /\ FrameTicks \in Nat
    BY TileFacts, QueryFacts
  <1>2. Whole(t) \in Interval /\ Whole(t)[1] = t.start /\ Whole(t)[2] = EndOf(t)
    BY <1>1 DEF Whole, Interval
  <1>3. clip \in Interval
    BY <1>2, MeetIs
  <1>4. /\ clip[1] \in Int /\ clip[2] \in Int /\ w[1] \in Int /\ w[2] \in Int
        /\ clip[1] >= t.start /\ clip[2] <= EndOf(t)
    <2>1. clip[1] \in Int /\ clip[2] \in Int /\ w[1] \in Int /\ w[2] \in Int
      BY <1>3 DEF Interval
    <2>2. clip[1] = Later(w[1], t.start) /\ clip[2] = Sooner(w[2], EndOf(t))
      BY <1>2 DEF Meet
    <2> QED BY <1>1, <2>1, <2>2 DEF Later, Sooner
  <1>5. Always \in Interval /\ Always[1] = 0 /\ Always[2] = Forever
    BY <1>1 DEF Always, Interval
  <1>6. \A f \in D : b(f) \in Nat
    BY <1>3, <1>5, FramePartType
  <1>7. c \in Seq(Nat) /\ Len(c) = n
    <2> HIDE DEF b
    <2>1. \A f \in D : c[f] \in Nat
      <3> HIDE DEF D
      <3> QED BY <1>6
    <2>2. DOMAIN c = 1..n /\ c = [f \in 1..n |-> c[f]]
      BY <1>1
    <2> HIDE DEF c
    <2>3. c \in [1..n -> Nat]
      BY <1>1, <2>1, <2>2
    <2> QED BY <1>1, <2>3
  <1>8. h[0] = 0
    <2>1. upto(0) = <<t.start, t.start>>
      BY <1>1
    <2>2. Duration(Meet(clip, <<t.start, t.start>>)) = 0
      BY <1>1, <1>4 DEF Duration, Meet, Later, Sooner
    <2>3. 0 \in 0..n
      BY <1>1
    <2> HIDE DEF upto
    <2> QED BY <2>1, <2>2, <2>3, Zenon
  <1>9. ASSUME NEW j \in 1..n PROVE h[j] = h[j - 1] + c[j]
    <2> DEFINE x == t.start + (j - 1) * FrameTicks
               y == t.start + j * FrameTicks
    <2>1. j \in D /\ j \in 0..n /\ j - 1 \in 0..n
      BY <1>1
    <2>2. h[j] = Duration(Meet(clip, <<t.start, y>>)) /\ h[j - 1] = Duration(Meet(clip, <<t.start, x>>))
      BY <2>1
    <2>3. c[j] = Duration(Meet(Always, Meet(clip, <<x, y>>)))
      <3>1. FramePart(t, j, clip) = Meet(clip, <<x, y>>)
        BY DEF FramePart, FrameFrom, FrameTo
      <3>2. c[j] = b(j)
        <4> HIDE DEF b, D
        <4> QED BY <2>1
      <3> HIDE DEF x, y, c
      <3> QED BY <3>1, <3>2
    <2>4. x \in Nat /\ y \in Nat /\ y = x + FrameTicks /\ t.start <= x /\ y <= EndOf(t)
      BY <2>1, FrameFacts DEF FrameFrom, FrameTo
    <2> HIDE DEF h, c, x, y
    <2>5. Duration(Meet(clip, <<t.start, y>>)) =
            Duration(Meet(clip, <<t.start, x>>)) + Duration(Meet(Always, Meet(clip, <<x, y>>)))
      <3> DEFINE p == clip[1]
                 q == clip[2]
      <3>1. Meet(clip, <<t.start, y>>) = <<Later(p, t.start), Sooner(q, y)>>
        BY DEF Meet
      <3>2. Meet(clip, <<t.start, x>>) = <<Later(p, t.start), Sooner(q, x)>>
        BY DEF Meet
      <3>3. Meet(Always, Meet(clip, <<x, y>>)) = <<Later(0, Later(p, x)), Sooner(Forever, Sooner(q, y))>>
        BY <1>5 DEF Meet
      <3>4. p \in Int /\ q \in Int /\ p >= t.start /\ q <= EndOf(t)
        BY <1>4
      <3> HIDE DEF p, q
      <3>5. /\ Duration(Meet(clip, <<t.start, y>>)) = Later(0, Sooner(q, y) - Later(p, t.start))
            /\ Duration(Meet(clip, <<t.start, x>>)) = Later(0, Sooner(q, x) - Later(p, t.start))
            /\ Duration(Meet(Always, Meet(clip, <<x, y>>))) =
                 Later(0, Sooner(Forever, Sooner(q, y)) - Later(0, Later(p, x)))
        BY <3>1, <3>2, <3>3 DEF Duration
      <3>6. Later(0, Sooner(q, y) - Later(p, t.start)) =
              Later(0, Sooner(q, x) - Later(p, t.start)) +
              Later(0, Sooner(Forever, Sooner(q, y)) - Later(0, Later(p, x)))
        <4>1. Later(p, t.start) = p /\ Later(0, Later(p, x)) = Later(p, x)
          BY <1>1, <2>4, <3>4 DEF Later
        <4>2. Sooner(Forever, Sooner(q, y)) = Sooner(q, y)
          BY <1>1, <2>4, <3>4 DEF Sooner
        <4>3. Later(0, Sooner(q, y) - p) = Later(0, Sooner(q, x) - p) + Later(0, Sooner(q, y) - Later(p, x))
          <5>1. x \in Int /\ y \in Int /\ x <= y
            BY <1>1, <2>4
          <5> QED BY <3>4, <5>1, Pieces
        <4> QED BY <4>1, <4>2, <4>3
      <3> QED BY <3>5, <3>6
    <2> QED BY <2>2, <2>3, <2>5
  <1>10. h[n] = Duration(clip)
    <2>1. h[n] = Duration(Meet(clip, <<t.start, EndOf(t)>>))
      BY <1>1 DEF EndOf
    <2>2. Meet(clip, <<t.start, EndOf(t)>>) = clip
      <3>1. Meet(clip, <<t.start, EndOf(t)>>) = <<Later(clip[1], t.start), Sooner(clip[2], EndOf(t))>>
        BY DEF Meet
      <3>2. Later(clip[1], t.start) = clip[1] /\ Sooner(clip[2], EndOf(t)) = clip[2]
        BY <1>1, <1>4 DEF Later, Sooner
      <3>3. clip = <<clip[1], clip[2]>>
        BY <1>3 DEF Interval
      <3> QED BY <3>1, <3>2, <3>3, Zenon
    <2> HIDE DEF h
    <2> QED BY <2>1, <2>2
  <1>11. FrameTime(t, clip, Always, D) = Total(c)
    BY DEF FrameTime
  <1> HIDE DEF h, c, n
  <1>12. Total(c) = h[Len(c)]
    BY <1>7, <1>8, <1>9, TotalBySteps
  <1> QED BY <1>7, <1>10, <1>11, <1>12

-----------------------------------------------------------------------------
(* The resolved interval.                                                  *)

LEMMA MinIsLeast ==
  ASSUME NEW S, S \subseteq Nat, S # {} PROVE Min(S) \in S /\ \A x \in S : Min(S) <= x
  <1>1. \E m \in S : \A n \in S : m <= n
    BY LeastElement, Zenon
  <1> QED BY <1>1 DEF Min

LEMMA MaxIsGreatest ==
  ASSUME NEW n \in Nat, NEW S, S \subseteq 0..n, S # {} PROVE Max(S) \in S /\ \A x \in S : x <= Max(S)
  <1>1. \E m \in S : \A x \in S : x <= m
    BY GreatestElement, Zenon
  <1>2. \E m \in S : \A x \in S : m >= x
    <2>1. PICK m \in S : \A x \in S : x <= m
      BY <1>1
    <2>2. \A x \in S : x \in Int
      OBVIOUS
    <2>3. \A x \in S : m >= x
      BY <2>1, <2>2
    <2> QED BY <2>3
  <1>3. Max(S) \in S /\ \A x \in S : Max(S) >= x
    BY <1>2 DEF Max
  <1>4. \A x \in S : x \in Int
    OBVIOUS
  <1> QED BY <1>3, <1>4

LEMMA ExtentFacts ==
  ASSUME Inputs, NEW e, e = Extent(survey)
  PROVE  /\ e[1] \in Nat /\ e[2] \in Nat /\ e[1] <= Forever /\ e[2] <= Forever
         /\ \A i \in DOMAIN survey.tiles : e[1] <= survey.tiles[i].start /\ EndOf(survey.tiles[i]) <= e[2]
  <1> DEFINE R == Recorded(survey)
             n == Len(survey.tiles)
             P == {p[1] : p \in R}
             Q == {p[2] : p \in R}
  <1>1. Forever \in Nat
    BY QueryFacts
  <1>2. \A i \in DOMAIN survey.gaps : survey.gaps[i] \in Ticks \X Ticks
    <2>1. survey.gaps \in Seq(Ticks \X Ticks)
      BY AnalysisAssumption, Zenon DEF Inputs
    <2> QED BY <2>1
  <1>3. n \in Nat /\ DOMAIN survey.tiles = 1..n
    BY TilesFacts
  <1>4. ASSUME NEW i \in DOMAIN survey.tiles PROVE Whole(survey.tiles[i]) \in Ticks \X Ticks
    <2>1. /\ survey.tiles[i].start \in Nat /\ EndOf(survey.tiles[i]) \in Nat
          /\ survey.tiles[i].start <= EndOf(survey.tiles[i]) /\ EndOf(survey.tiles[i]) <= Forever
      BY TileFacts
    <2>2. survey.tiles[i].start \in Ticks /\ EndOf(survey.tiles[i]) \in Ticks
      BY <1>1, <2>1 DEF Ticks
    <2> QED BY <2>2 DEF Whole
  <1>5. R \subseteq Ticks \X Ticks
    BY <1>2, <1>4 DEF Recorded
  <1>6. P \subseteq 0..Forever /\ Q \subseteq 0..Forever /\ P \subseteq Nat
    BY <1>1, <1>5 DEF Ticks
  <1>7. CASE R = {}
    <2>1. DOMAIN survey.tiles = {}
      <3> SUFFICES ASSUME DOMAIN survey.tiles # {} PROVE FALSE
        OBVIOUS
      <3>1. 1 \in {1, n} \cap DOMAIN survey.tiles
        BY <1>3
      <3>2. Whole(survey.tiles[1]) \in R
        BY <3>1 DEF Recorded
      <3> QED BY <1>7, <3>2
    <2>2. e = <<0, 0>>
      BY <1>7 DEF Extent
    <2> QED BY <1>1, <2>1, <2>2
  <1>8. CASE R # {}
    <2>1. P # {} /\ Q # {}
      BY <1>8
    <2>2. e = <<Min(P), Max(Q)>>
      BY <1>8 DEF Extent
    <2>3. ASSUME NEW i \in DOMAIN survey.tiles
          PROVE  /\ \E p \in R : p[1] <= survey.tiles[i].start /\ p[1] \in Nat
                 /\ \E p \in R : EndOf(survey.tiles[i]) <= p[2] /\ p[2] \in Nat
      <3> DEFINE t == survey.tiles[i]
                 u == survey.tiles[1]
                 v == survey.tiles[n]
      <3>1. 1 \in DOMAIN survey.tiles /\ n \in DOMAIN survey.tiles /\ i \in Nat /\ 1 <= i /\ i <= n
        BY <1>3
      <3>2. Whole(u) \in R /\ Whole(v) \in R
        BY <3>1 DEF Recorded
      <3>3. Whole(u)[1] = u.start /\ Whole(v)[2] = EndOf(v)
        BY DEF Whole
      <3>4. /\ u.start \in Nat /\ EndOf(u) \in Nat /\ u.start <= EndOf(u)
            /\ t.start \in Nat /\ EndOf(t) \in Nat
            /\ v.start \in Nat /\ EndOf(v) \in Nat /\ v.start <= EndOf(v)
        BY <3>1, TileFacts
      <3>5. u.start <= t.start
        <4>1. CASE i = 1
          BY <3>4, <4>1
        <4>2. CASE i # 1
          <5>1. EndOf(u) <= t.start
            BY <3>1, <4>2, TilesFacts
          <5> QED BY <3>4, <5>1
        <4> QED BY <4>1, <4>2
      <3>6. EndOf(t) <= EndOf(v)
        <4>1. CASE i = n
          BY <3>4, <4>1
        <4>2. CASE i # n
          <5>1. EndOf(t) <= v.start
            BY <3>1, <4>2, TilesFacts
          <5> QED BY <3>4, <5>1
        <4> QED BY <4>1, <4>2
      <3> HIDE DEF u, v, R
      <3> QED BY <3>2, <3>3, <3>4, <3>5, <3>6
    <2>4. \A p \in R : p[1] \in P /\ p[2] \in Q
      OBVIOUS
    <2> HIDE DEF P, Q, R
    <2>5. Min(P) \in P /\ \A x \in P : Min(P) <= x
      BY <1>6, <2>1, MinIsLeast
    <2>6. Max(Q) \in Q /\ \A x \in Q : x <= Max(Q)
      BY <1>1, <1>6, <2>1, MaxIsGreatest
    <2>7. e[1] = Min(P) /\ e[2] = Max(Q)
      BY <2>2
    <2>8. e[1] \in 0..Forever /\ e[2] \in 0..Forever
      BY <1>6, <2>5, <2>6, <2>7
    <2>9. e[1] \in Nat /\ e[2] \in Nat /\ e[1] <= Forever /\ e[2] <= Forever
      BY <1>1, <2>8
    <2>10. ASSUME NEW i \in DOMAIN survey.tiles
           PROVE  e[1] <= survey.tiles[i].start /\ EndOf(survey.tiles[i]) <= e[2]
      <3>1. PICK p \in R : p[1] <= survey.tiles[i].start /\ p[1] \in Nat
        BY <2>3
      <3>2. PICK q \in R : EndOf(survey.tiles[i]) <= q[2] /\ q[2] \in Nat
        BY <2>3
      <3>3. e[1] <= p[1] /\ q[2] <= e[2]
        BY <2>4, <2>5, <2>6, <2>7
      <3>4. survey.tiles[i].start \in Nat /\ EndOf(survey.tiles[i]) \in Nat
        BY TileFacts
      <3> QED BY <2>9, <3>1, <3>2, <3>3, <3>4
    <2> QED BY <2>9, <2>10
  <1> QED BY <1>7, <1>8

LEMMA Quotient == ASSUME NEW a \in Nat, NEW b \in Nat, b > 0 PROVE a \div b \in Nat
  OBVIOUS

LEMMA ResolvedFacts ==
  ASSUME Inputs, NEW r, r = Resolved(survey, query)
  PROVE  /\ r.from \in Nat /\ r.to \in Nat /\ r.from <= r.to /\ r.to <= Forever /\ r.width \in Nat
         /\ \A i \in DOMAIN survey.tiles : \A k \in Int :
              survey.tiles[i].start <= k /\ k < EndOf(survey.tiles[i]) =>
                ((r.from <= k /\ k < r.to) <=> (query.from <= k /\ k < QueryEnd))
  <1> DEFINE e == Extent(survey)
             x == e[1]
             y == e[2]
             last == IF query.to > 0 THEN query.to ELSE y
             from == Later(x, Sooner(query.from, y))
             to == Later(from, Sooner(last, y))
             coarse == (to - from) > MaxObservations * query.group
             width == IF coarse THEN (to - from) \div MaxObservations ELSE query.group
  <1>1. r = [from |-> from, to |-> to, coarse |-> coarse, width |-> width]
    BY DEF Resolved
  <1>2. /\ x \in Nat /\ y \in Nat /\ x <= Forever /\ y <= Forever
        /\ \A i \in DOMAIN survey.tiles : x <= survey.tiles[i].start /\ EndOf(survey.tiles[i]) <= y
    BY ExtentFacts
  <1> HIDE DEF x, y
  <1>3. last \in Nat
    BY <1>2, QueryFacts
  <1>4. from \in Nat /\ from <= Forever
    BY <1>2, QueryFacts DEF Later, Sooner
  <1>5. to \in Nat /\ to <= Forever /\ from <= to
    <2> HIDE DEF from, last
    <2> QED BY <1>2, <1>3, <1>4, QueryFacts DEF Later, Sooner
  <1>6. width \in Nat
    <2> HIDE DEF coarse, from, to
    <2>1. to - from \in Nat
      BY <1>4, <1>5
    <2>2. (to - from) \div MaxObservations \in Nat
      BY <2>1, QueryFacts, Quotient
    <2> QED BY <2>2, QueryFacts
  <1>7. ASSUME NEW i \in DOMAIN survey.tiles, NEW k \in Int,
               survey.tiles[i].start <= k, k < EndOf(survey.tiles[i])
        PROVE  (from <= k /\ k < to) <=> (query.from <= k /\ k < QueryEnd)
    <2>1. x <= k /\ k < y
      <3>1. survey.tiles[i].start \in Nat /\ EndOf(survey.tiles[i]) \in Nat
        BY TileFacts
      <3> QED BY <1>2, <1>7, <3>1
    <2>2. from <= k <=> query.from <= k
      BY <1>2, <2>1, QueryFacts DEF Later, Sooner
    <2>3. k < last <=> k < QueryEnd
      BY <1>2, <2>1, QueryFacts DEF QueryEnd
    <2>4. from <= k => (k < to <=> k < last)
      <3> HIDE DEF from, last
      <3> QED BY <1>2, <1>3, <1>4, <2>1 DEF Later, Sooner
    <2> HIDE DEF from, to, last
    <2> QED BY <2>2, <2>3, <2>4
  <1> HIDE DEF from, to, coarse, width
  <1>8. r.from = from /\ r.to = to /\ r.width = width
    BY <1>1
  <1> QED BY <1>4, <1>5, <1>6, <1>7, <1>8

\* The clip of a tile of the analysis and its relation to the selection.
LEMMA ResolvedFits ==
  ASSUME Inputs, NEW r, r = Resolved(survey, query), NEW i \in DOMAIN survey.tiles, NEW t, t = survey.tiles[i]
  PROVE  /\ <<r.from, r.to>> \in Interval /\ Whole(t) \in Interval
         /\ Meet(<<r.from, r.to>>, Whole(t)) \in Interval
         /\ CutsTo(t, Meet(<<r.from, r.to>>, Whole(t)))
  <1> DEFINE w == <<r.from, r.to>>
             c == Meet(w, Whole(t))
  <1>1. w \in Interval /\ w[1] = r.from /\ w[2] = r.to
    BY ResolvedFacts DEF Interval
  <1>2. Whole(t) \in Interval /\ Whole(t)[1] = t.start /\ Whole(t)[2] = EndOf(t)
    <2>1. t.start \in Nat /\ EndOf(t) \in Nat
      BY TileFacts
    <2> QED BY <2>1 DEF Whole, Interval
  <1> HIDE DEF w
  <1>3. c \in Interval /\ \A k \in Int : (c[1] <= k /\ k < c[2])
                   <=> (w[1] <= k /\ k < w[2] /\ Whole(t)[1] <= k /\ k < Whole(t)[2])
    BY <1>1, <1>2, MeetIs
  <1> HIDE DEF c
  <1>4. CutsTo(t, c)
    <2> SUFFICES ASSUME NEW k \in Int, t.start <= k, k < EndOf(t)
                 PROVE  (c[1] <= k /\ k < c[2]) <=> (query.from <= k /\ k < QueryEnd)
      BY DEF CutsTo
    <2>1. (r.from <= k /\ k < r.to) <=> (query.from <= k /\ k < QueryEnd)
      BY ResolvedFacts
    <2> QED BY <1>1, <1>2, <1>3, <2>1
  <1> QED BY <1>1, <1>2, <1>3, <1>4 DEF w, c

-----------------------------------------------------------------------------
(* The display groups.                                                     *)

LEMMA EdgesFacts ==
  ASSUME Inputs, NEW r, r = Resolved(survey, query), NEW k \in 0..(MaxObservations - 1)
  PROVE  /\ Edges(r, k) \in Interval /\ k * r.width \in Nat
         /\ Edges(r, k)[1] = r.from + k * r.width
         /\ Edges(r, k)[2] = IF k = MaxObservations - 1 THEN r.to ELSE Sooner(r.to, r.from + (k * r.width + r.width))
  <1>1. r.from \in Nat /\ r.to \in Nat /\ r.width \in Nat
    BY ResolvedFacts
  <1>2. k \in Nat
    BY QueryFacts
  <1> DEFINE p == k * r.width
             q == (k + 1) * r.width
  <1>3. p \in Nat /\ q = p + r.width
    BY <1>1, <1>2, Product, ProductNext
  <1> DEFINE hi == IF k = MaxObservations - 1 THEN r.to ELSE Sooner(r.to, r.from + q)
  <1>4. Edges(r, k) = <<r.from + p, hi>>
    BY DEF Edges
  <1> HIDE DEF p, q
  <1>5. r.from + p \in Int /\ hi \in Int
    BY <1>1, <1>3 DEF Sooner
  <1>6. hi = IF k = MaxObservations - 1 THEN r.to ELSE Sooner(r.to, r.from + (p + r.width))
    BY <1>3
  <1> HIDE DEF hi
  <1>7. Edges(r, k) \in Interval /\ Edges(r, k)[1] = r.from + p /\ Edges(r, k)[2] = hi
    BY <1>4, <1>5 DEF Interval
  <1> QED BY <1>3, <1>6, <1>7 DEF p

\* Every measurement lies in one group: the last takes the rest.
LEMMA GroupsPartition ==
  ASSUME Inputs, NEW r, r = Resolved(survey, query)
  PROVE  Total([k \in 1..MaxObservations |-> Cardinality(During(Measured, Edges(r, k - 1)))]) = Cardinality(Measured)
  <1> DEFINE n == MaxObservations
             c == [k \in 1..n |-> Cardinality(During(Measured, Edges(r, k - 1)))]
             C == [j \in 0..n |-> IF j = 0 THEN {} ELSE {m \in Measured : m.at < Edges(r, j - 1)[2]}]
  <1>1. n \in Nat /\ n > 0
    BY QueryFacts
  <1>2. r.from \in Nat /\ r.to \in Nat /\ r.width \in Nat
    BY ResolvedFacts
  <1>3. ASSUME NEW m \in Measured PROVE m.at \in Nat /\ r.from <= m.at /\ m.at < r.to
    <2>1. /\ m.tile \in DOMAIN survey.tiles /\ m.at \in Nat
          /\ TileOf(m).start <= m.at /\ m.at < EndOf(TileOf(m)) /\ query.from <= m.at /\ m.at < QueryEnd
      BY MeasuredFields
    <2> QED BY <2>1, ResolvedFacts DEF TileOf
  <1>4. IsFiniteSet(Measured)
    BY MeasuredFinite
  <1>5. ASSUME NEW j \in 1..n
        PROVE  /\ C[j - 1] \subseteq C[j] /\ C[j] \subseteq Measured
               /\ C[j] \ C[j - 1] = During(Measured, Edges(r, j - 1))
               /\ j = n => C[j] = Measured
    <2> DEFINE k == j - 1
               e == Edges(r, k)
               p == k * r.width
    <2>1. k \in 0..(n - 1) /\ j \in 0..n /\ k \in 0..n /\ j # 0 /\ k \in Nat /\ k + 1 = j
      BY <1>1
    <2>2. C[j] = {m \in Measured : m.at < e[2]}
      BY <2>1
    <2>3. During(Measured, e) = {m \in Measured : m.at >= e[1] /\ m.at < e[2]}
      BY DEF During
    <2>4. /\ p \in Nat /\ e[1] = r.from + p
          /\ e[2] = IF k = n - 1 THEN r.to ELSE Sooner(r.to, r.from + (p + r.width))
      BY <2>1, EdgesFacts
    <2>5. j = n => C[j] = Measured
      <3> HIDE DEF C, e
      <3> QED BY <1>1, <1>3, <2>1, <2>2, <2>4
    <2>6. CASE k = 0
      <3>1. C[k] = {} /\ p = 0
        BY <1>2, <2>1, <2>6
      <3> HIDE DEF C, e, p
      <3>2. \A m \in Measured : m.at >= e[1]
        BY <1>2, <1>3, <2>4, <3>1
      <3>3. C[j] \ C[k] = During(Measured, e) /\ C[k] \subseteq C[j] /\ C[j] \subseteq Measured
        BY <2>2, <2>3, <3>1, <3>2
      <3> QED BY <2>5, <3>3 DEF e
    <2>7. CASE k # 0
      <3> DEFINE l == k - 1
                 d == Edges(r, l)
                 q == l * r.width
      <3>1. l \in 0..(n - 1) /\ l \in Nat /\ l # n - 1 /\ k = l + 1
        BY <1>1, <2>1, <2>7
      <3>2. C[k] = {m \in Measured : m.at < d[2]}
        BY <2>1, <2>7
      <3>3. q \in Nat /\ d[2] = Sooner(r.to, r.from + (q + r.width))
        BY <3>1, EdgesFacts
      <3>4. p = q + r.width
        <4> HIDE DEF l
        <4> QED BY <1>2, <3>1, ProductNext
      <3>5. d[2] = Sooner(r.to, e[1])
        <4> HIDE DEF d, e, p, q
        <4> QED BY <2>4, <3>3, <3>4
      <3> HIDE DEF C, e, d, p, q, l
      <3>6. ASSUME NEW m \in Measured
            PROVE  (m.at < d[2] <=> m.at < e[1]) /\ (m.at < e[1] => m.at < e[2])
        <4>1. m.at < d[2] <=> m.at < e[1]
          BY <1>2, <1>3, <2>4, <3>5 DEF Sooner
        <4>2. m.at < e[1] => m.at < e[2]
          BY <1>2, <1>3, <2>4 DEF Sooner
        <4> QED BY <4>1, <4>2
      <3>7. \A m \in Measured : (m.at >= e[1]) <=> ~ (m.at < e[1])
        BY <1>2, <1>3, <2>4
      <3>8. C[j] \ C[k] = During(Measured, e) /\ C[k] \subseteq C[j] /\ C[j] \subseteq Measured
        BY <2>2, <2>3, <3>2, <3>6, <3>7
      <3> QED BY <2>5, <3>8 DEF e
    <2> QED BY <2>6, <2>7
  <1>6. ASSUME NEW j \in 1..n
        PROVE  /\ C[j - 1] \subseteq C[j] /\ IsFiniteSet(C[j])
               /\ c[j] = Cardinality(C[j] \ C[j - 1]) /\ c[j] \in Nat
    <2> HIDE DEF C
    <2>1. C[j - 1] \subseteq C[j] /\ C[j] \subseteq Measured
      BY <1>5
    <2>2. IsFiniteSet(C[j])
      BY <1>4, <2>1, FS_Subset
    <2>3. c[j] = Cardinality(During(Measured, Edges(r, j - 1)))
      OBVIOUS
    <2>4. C[j] \ C[j - 1] = During(Measured, Edges(r, j - 1))
      BY <1>5
    <2>5. Cardinality(During(Measured, Edges(r, j - 1))) = Cardinality(C[j] \ C[j - 1])
      BY <2>4, Zenon
    <2>6. IsFiniteSet(C[j] \ C[j - 1])
      BY <2>2, FS_Subset
    <2>7. Cardinality(C[j] \ C[j - 1]) \in Nat
      BY <2>6, FS_CardinalityType
    <2> HIDE DEF c
    <2> QED BY <2>1, <2>2, <2>3, <2>5, <2>7
  <1>7. c \in Seq(Nat) /\ Len(c) = n
    <2>1. DOMAIN c = 1..n /\ c = [k \in 1..n |-> c[k]]
      OBVIOUS
    <2> HIDE DEF c, C
    <2>2. c \in [1..n -> Nat]
      BY <1>6, <2>1
    <2> QED BY <1>1, <2>2
  <1>8. C[0] = {}
    BY <1>1
  <1>9. n \in 1..n
    BY <1>1
  <1> HIDE DEF c, C, n
  <1>10. C[n] = Measured /\ IsFiniteSet(C[n])
    BY <1>4, <1>5, <1>9
  <1>11. Total(c) = Cardinality(C[Len(c)])
    BY <1>6, <1>7, <1>8, <1>10, TotalOfChain
  <1> QED BY <1>7, <1>10, <1>11 DEF c, n

-----------------------------------------------------------------------------
(* What a tile adds to each summary.                                       *)

OfTile(i) == {m \in Measured : m.tile = i}

\* A set of measurements and the same with those of one more tile.
Grown(S, T, i) == S \subseteq Measured /\ (\A m \in S : m.tile # i) /\ T = S \cup OfTile(i)

\* Parts of the two that differ by a slice of the tile.
LEMMA SliceAdds ==
  ASSUME Inputs, NEW S, NEW T, NEW i, Grown(S, T, i), NEW F, NEW g, NEW P, NEW Q,
         P \subseteq S, Q = P \cup Slice(i, F, g)
  PROVE  Cardinality(Q) = Cardinality(P) + Cardinality(Slice(i, F, g))
  <1>1. Slice(i, F, g) \subseteq Measured /\ \A m \in Slice(i, F, g) : m.tile = i
    BY DEF Slice
  <1>2. P \cap Slice(i, F, g) = {}
    BY <1>1 DEF Grown
  <1>3. Q \subseteq Measured
    BY <1>1 DEF Grown
  <1>4. IsFiniteSet(Q)
    BY <1>3, MeasuredFinite, FS_Subset
  <1>5. P \cup Slice(i, F, g) = Q
    OBVIOUS
  <1> QED BY <1>2, <1>4, <1>5, CountOfTwo

LEMMA OfTileFields ==
  ASSUME Inputs, NEW i \in Counted, NEW t, t = survey.tiles[i], NEW m \in OfTile(i)
  PROVE  m \in Measured /\ m.tile = i /\ TileOf(m) = t /\ m.frame \in DOMAIN t.frames
         /\ Active(m) = t.frames[m.frame]
  <1>1. m \in Measured /\ m.tile = i
    BY DEF OfTile
  <1>2. TileOf(m) = t
    BY <1>1 DEF TileOf
  <1> QED BY <1>1, <1>2, MeasuredFields DEF Active

LEMMA DuringAdds ==
  ASSUME Inputs, NEW i \in Counted, NEW t, t = survey.tiles[i], NEW S, NEW T, Grown(S, T, i), NEW g
  PROVE  /\ During(T, g) = During(S, g) \cup Slice(i, DOMAIN t.frames, g)
         /\ BusyIn(During(T, g)) = BusyIn(During(S, g)) \cup Slice(i, ActiveFrames(t, BinsOf(Acq(t))), g)
         /\ BusyOutside(During(T, g)) = BusyOutside(During(S, g)) \cup Slice(i, ActiveFrames(t, Outside(Acq(t))), g)
         /\ During(S, g) \subseteq S /\ BusyIn(During(S, g)) \subseteq S /\ BusyOutside(During(S, g)) \subseteq S
  <1>1. T = S \cup OfTile(i)
    BY DEF Grown
  <1>2. \A m \in OfTile(i) : /\ m \in Measured /\ m.tile = i /\ TileOf(m) = t /\ m.frame \in DOMAIN t.frames
                             /\ Active(m) = t.frames[m.frame]
    BY OfTileFields
  <1>3. \A m \in Measured : m.tile = i => m \in OfTile(i)
    BY DEF OfTile
  <1>4. During(T, g) = During(S, g) \cup Slice(i, DOMAIN t.frames, g)
    BY <1>1, <1>2, <1>3 DEF During, Slice
  <1>5. BusyIn(During(T, g)) = BusyIn(During(S, g)) \cup Slice(i, ActiveFrames(t, BinsOf(Acq(t))), g)
    <2> DEFINE B == BinsOf(Acq(t))
    <2>1. \A m \in OfTile(i) : (Active(m) \cap BinsOf(Acq(TileOf(m))) # {}) <=> m.frame \in ActiveFrames(t, B)
      BY <1>2 DEF ActiveFrames
    <2> HIDE DEF B
    <2>2. BusyIn(During(T, g)) = {m \in T : m.at >= g[1] /\ m.at < g[2] /\ Active(m) \cap BinsOf(Acq(TileOf(m))) # {}}
      BY DEF BusyIn, During
    <2>3. BusyIn(During(S, g)) = {m \in S : m.at >= g[1] /\ m.at < g[2] /\ Active(m) \cap BinsOf(Acq(TileOf(m))) # {}}
      BY DEF BusyIn, During
    <2>4. Slice(i, ActiveFrames(t, B), g) =
            {m \in OfTile(i) : m.at >= g[1] /\ m.at < g[2] /\ Active(m) \cap BinsOf(Acq(TileOf(m))) # {}}
      BY <1>2, <1>3, <2>1 DEF Slice
    <2>5. BusyIn(During(T, g)) = BusyIn(During(S, g)) \cup Slice(i, ActiveFrames(t, B), g)
      BY <1>1, <2>2, <2>3, <2>4
    <2> QED BY <2>5 DEF B
  <1>6. BusyOutside(During(T, g)) = BusyOutside(During(S, g)) \cup Slice(i, ActiveFrames(t, Outside(Acq(t))), g)
    <2> DEFINE B == Outside(Acq(t))
    <2>1. \A m \in OfTile(i) : (Active(m) \cap Outside(Acq(TileOf(m))) # {}) <=> m.frame \in ActiveFrames(t, B)
      BY <1>2 DEF ActiveFrames
    <2> HIDE DEF B
    <2>2. BusyOutside(During(T, g)) = {m \in T : m.at >= g[1] /\ m.at < g[2] /\ Active(m) \cap Outside(Acq(TileOf(m))) # {}}
      BY DEF BusyOutside, During
    <2>3. BusyOutside(During(S, g)) = {m \in S : m.at >= g[1] /\ m.at < g[2] /\ Active(m) \cap Outside(Acq(TileOf(m))) # {}}
      BY DEF BusyOutside, During
    <2>4. Slice(i, ActiveFrames(t, B), g) =
            {m \in OfTile(i) : m.at >= g[1] /\ m.at < g[2] /\ Active(m) \cap Outside(Acq(TileOf(m))) # {}}
      BY <1>2, <1>3, <2>1 DEF Slice
    <2>5. BusyOutside(During(T, g)) = BusyOutside(During(S, g)) \cup Slice(i, ActiveFrames(t, B), g)
      BY <1>1, <2>2, <2>3, <2>4
    <2> QED BY <2>5 DEF B
  <1>7. During(S, g) \subseteq S /\ BusyIn(During(S, g)) \subseteq S /\ BusyOutside(During(S, g)) \subseteq S
    BY DEF During, BusyIn, BusyOutside
  <1> QED BY <1>4, <1>5, <1>6, <1>7

LEMMA TimesAdd ==
  ASSUME Inputs, NEW i \in Counted, NEW t, t = survey.tiles[i], NEW clip \in Interval, CutsTo(t, clip),
         NEW g \in Interval, NEW S, NEW T, Grown(S, T, i), NEW v, v = TimesOf(During(S, g))
  PROVE  Added(v, t, clip, g) = TimesOf(During(T, g))
  <1> DEFINE F == DOMAIN t.frames
             G == ActiveFrames(t, BinsOf(Acq(t)))
             H == ActiveFrames(t, Outside(Acq(t)))
             P == During(S, g)
             Q == During(T, g)
  <1>1. /\ Q = P \cup Slice(i, F, g) /\ P \subseteq S
        /\ BusyIn(Q) = BusyIn(P) \cup Slice(i, G, g) /\ BusyIn(P) \subseteq S
        /\ BusyOutside(Q) = BusyOutside(P) \cup Slice(i, H, g) /\ BusyOutside(P) \subseteq S
    BY DuringAdds
  <1>2. v.observed = Cardinality(P) /\ v.busy = Cardinality(BusyIn(P)) /\ v.outside = Cardinality(BusyOutside(P))
    BY DEF TimesOf
  <1>3. /\ ObservedTime(t, clip, g) = FrameTime(t, clip, g, F)
        /\ ActiveTime(t, clip, g, BinsOf(Acq(t))) = FrameTime(t, clip, g, G)
        /\ ActiveTime(t, clip, g, Outside(Acq(t))) = FrameTime(t, clip, g, H)
    BY DEF ObservedTime, ActiveTime
  <1> HIDE DEF F, G, H, P, Q
  <1>4. Cardinality(Q) = Cardinality(P) + FrameTime(t, clip, g, F)
    <2>1. Cardinality(Q) = Cardinality(P) + Cardinality(Slice(i, F, g))
      BY <1>1, SliceAdds
    <2> QED BY <2>1, SliceCount
  <1>5. Cardinality(BusyIn(Q)) = Cardinality(BusyIn(P)) + FrameTime(t, clip, g, G)
    <2> DEFINE X == BusyIn(P)
               Y == BusyIn(Q)
    <2>a. Y = X \cup Slice(i, G, g) /\ X \subseteq S
      BY <1>1
    <2> HIDE DEF X, Y
    <2>b. Cardinality(Y) = Cardinality(X) + Cardinality(Slice(i, G, g))
      BY <2>a, SliceAdds
    <2>1. Cardinality(BusyIn(Q)) = Cardinality(BusyIn(P)) + Cardinality(Slice(i, G, g))
      BY <2>b DEF X, Y
    <2> QED BY <2>1, SliceCount
  <1>6. Cardinality(BusyOutside(Q)) = Cardinality(BusyOutside(P)) + FrameTime(t, clip, g, H)
    <2> DEFINE X == BusyOutside(P)
               Y == BusyOutside(Q)
    <2>a. Y = X \cup Slice(i, H, g) /\ X \subseteq S
      BY <1>1
    <2> HIDE DEF X, Y
    <2>b. Cardinality(Y) = Cardinality(X) + Cardinality(Slice(i, H, g))
      BY <2>a, SliceAdds
    <2>1. Cardinality(BusyOutside(Q)) = Cardinality(BusyOutside(P)) + Cardinality(Slice(i, H, g))
      BY <2>b DEF X, Y
    <2> QED BY <2>1, SliceCount
  <1>7. Added(v, t, clip, g) = [observed |-> Cardinality(Q), busy |-> Cardinality(BusyIn(Q)),
                                outside |-> Cardinality(BusyOutside(Q))]
    BY <1>2, <1>3, <1>4, <1>5, <1>6 DEF Added
  <1> QED BY <1>7 DEF TimesOf, Q

\* The whole recording.
LEMMA DuringAlways ==
  ASSUME Inputs, NEW S, S \subseteq Measured
  PROVE  During(S, Always) = S /\ Always \in Interval
  <1>1. Always[1] = 0 /\ Always[2] = Forever /\ Forever \in Nat
    BY QueryFacts DEF Always
  <1>2. \A m \in S : m.at >= 0 /\ m.at < Forever
    <2> SUFFICES ASSUME NEW m \in S PROVE m.at >= 0 /\ m.at < Forever
      OBVIOUS
    <2>1. m.at \in Nat /\ m.at < QueryEnd
      BY MeasuredFields
    <2> QED BY <2>1, QueryFacts
  <1>3. Always \in Interval
    BY <1>1 DEF Always, Interval
  <1> QED BY <1>1, <1>2, <1>3 DEF During

\* The measurements of a tile last as long as its clip.
LEMMA OfTileCount ==
  ASSUME Inputs, NEW i \in Counted, NEW t, t = survey.tiles[i], NEW w \in Interval, NEW clip,
         clip = Meet(w, Whole(t)), clip \in Interval, CutsTo(t, clip)
  PROVE  Cardinality(Slice(i, DOMAIN t.frames, Always)) = Duration(clip)
  <1>1. Cardinality(Slice(i, DOMAIN t.frames, Always)) = FrameTime(t, clip, Always, DOMAIN t.frames)
    <2>1. Always \in Interval
      BY DuringAlways
    <2> QED BY <2>1, SliceCount
  <1>2. i \in DOMAIN survey.tiles
    BY DEF Counted
  <1> QED BY <1>1, <1>2, WholeTime

LEMMA BinAdds ==
  ASSUME Inputs, NEW i \in Counted, NEW t, t = survey.tiles[i], NEW w \in Interval, NEW clip,
         clip = Meet(w, Whole(t)), clip \in Interval, CutsTo(t, clip),
         NEW S, NEW T, Grown(S, T, i), NEW b, NEW v, v = BinTimes(S, b)
  PROVE  AddedBin(v, t, clip, b) = BinTimes(T, b)
  <1>1. T = S \cup OfTile(i) /\ S \subseteq Measured
    BY DEF Grown
  <1>2. \A m \in OfTile(i) : /\ m \in Measured /\ m.tile = i /\ TileOf(m) = t /\ m.frame \in DOMAIN t.frames
                             /\ Active(m) = t.frames[m.frame]
    BY OfTileFields
  <1>3. \A m \in Measured : m.tile = i => m \in OfTile(i)
    BY DEF OfTile
  <1>4. CASE b \notin BinsOf(Acq(t))
    <2>1. WithBin(T, b) = WithBin(S, b)
      BY <1>1, <1>2, <1>4 DEF WithBin
    <2>2. BinBusy(T, b) = BinBusy(S, b)
      BY <2>1, Zenon DEF BinBusy
    <2>3. BinTimes(T, b) = BinTimes(S, b)
      BY <2>1, <2>2, Zenon DEF BinTimes
    <2> QED BY <1>4, <2>3 DEF AddedBin
  <1>5. CASE b \in BinsOf(Acq(t))
    <2> DEFINE F == DOMAIN t.frames
               G == ActiveFrames(t, {b})
               P == WithBin(S, b)
               Q == WithBin(T, b)
               X == BinBusy(S, b)
               Y == BinBusy(T, b)
    <2>1. Slice(i, F, Always) = OfTile(i)
      <3>1. OfTile(i) \subseteq Measured
        BY DEF OfTile
      <3>2. During(OfTile(i), Always) = OfTile(i)
        BY <3>1, DuringAlways
      <3>3. Slice(i, F, Always) = During(OfTile(i), Always)
        BY <1>2, <1>3 DEF Slice, During
      <3> QED BY <3>2, <3>3
    <2>2. Slice(i, G, Always) = {m \in OfTile(i) : b \in Active(m)}
      <3>1. \A m \in OfTile(i) : m.frame \in G <=> b \in Active(m)
        BY <1>2 DEF ActiveFrames
      <3>2. Slice(i, G, Always) = {m \in Slice(i, F, Always) : m.frame \in G}
        BY <1>2, <1>3 DEF Slice, ActiveFrames
      <3> HIDE DEF G
      <3> QED BY <2>1, <3>1, <3>2
    <2>3. Q = P \cup OfTile(i) /\ P \subseteq S
      BY <1>1, <1>2, <1>5 DEF WithBin
    <2>4. Y = X \cup Slice(i, G, Always) /\ X \subseteq S
      <3> HIDE DEF G
      <3>1. X = {m \in P : b \in Active(m)} /\ Y = {m \in Q : b \in Active(m)}
        BY DEF BinBusy
      <3> HIDE DEF P, Q, X, Y
      <3> QED BY <2>2, <2>3, <3>1
    <2>5. v = [observed |-> Cardinality(P), busy |-> Cardinality(X), outside |-> 0]
      BY DEF BinTimes
    <2>6. BinTimes(T, b) = [observed |-> Cardinality(Q), busy |-> Cardinality(Y), outside |-> 0]
      BY DEF BinTimes
    <2>7. AddedBin(v, t, clip, b) = [observed |-> v.observed + Duration(clip),
                                     busy |-> v.busy + FrameTime(t, clip, Always, G), outside |-> v.outside]
      BY <1>5 DEF AddedBin, ActiveTime
    <2>8. Always \in Interval
      BY <1>1, DuringAlways
    <2>9. Cardinality(Slice(i, F, Always)) = Duration(clip)
      BY OfTileCount
    <2> HIDE DEF F, G, P, Q, X, Y
    <2>10. Q = P \cup Slice(i, F, Always)
      BY <2>1, <2>3
    <2>11. Cardinality(Q) = Cardinality(P) + Cardinality(Slice(i, F, Always))
      BY <2>3, <2>10, SliceAdds
    <2>12. Cardinality(Y) = Cardinality(X) + Cardinality(Slice(i, G, Always))
      BY <2>4, SliceAdds
    <2>13. Cardinality(Slice(i, G, Always)) = FrameTime(t, clip, Always, G)
      BY <2>8, SliceCount
    <2>14. AddedBin(v, t, clip, b) = [observed |-> Cardinality(P) + Duration(clip),
                                      busy |-> Cardinality(X) + FrameTime(t, clip, Always, G), outside |-> 0]
      BY <2>5, <2>7
    <2> QED BY <2>6, <2>9, <2>11, <2>12, <2>13, <2>14
  <1> QED BY <1>4, <1>5

LEMMA FixAdds ==
  ASSUME Inputs, NEW i \in Counted, NEW t, t = survey.tiles[i], NEW w \in Interval, NEW clip,
         clip = Meet(w, Whole(t)), clip \in Interval, CutsTo(t, clip),
         NEW S, NEW T, Grown(S, T, i), NEW c
  PROVE  Cardinality(WithFix(T, c)) = IF t.fix = c THEN Cardinality(WithFix(S, c)) + Duration(clip)
                                      ELSE Cardinality(WithFix(S, c))
  <1>1. T = S \cup OfTile(i) /\ S \subseteq Measured
    BY DEF Grown
  <1>2. \A m \in OfTile(i) : /\ m \in Measured /\ m.tile = i /\ TileOf(m) = t /\ m.frame \in DOMAIN t.frames
    BY OfTileFields
  <1>3. \A m \in Measured : m.tile = i => m \in OfTile(i)
    BY DEF OfTile
  <1> DEFINE F == DOMAIN t.frames
             P == WithFix(S, c)
             Q == WithFix(T, c)
  <1>4. CASE t.fix = c
    <2>1. Slice(i, F, Always) = OfTile(i)
      <3>1. OfTile(i) \subseteq Measured
        BY DEF OfTile
      <3>2. During(OfTile(i), Always) = OfTile(i)
        BY <3>1, DuringAlways
      <3>3. Slice(i, F, Always) = During(OfTile(i), Always)
        BY <1>2, <1>3 DEF Slice, During
      <3> QED BY <3>2, <3>3
    <2>2. Q = P \cup OfTile(i) /\ P \subseteq S
      BY <1>1, <1>2, <1>4 DEF WithFix
    <2>3. Cardinality(Slice(i, F, Always)) = Duration(clip)
      BY OfTileCount
    <2> HIDE DEF F, P, Q
    <2>4. Q = P \cup Slice(i, F, Always)
      BY <2>1, <2>2
    <2>5. Cardinality(Q) = Cardinality(P) + Cardinality(Slice(i, F, Always))
      BY <2>2, <2>4, SliceAdds
    <2> QED BY <1>4, <2>3, <2>5 DEF P, Q
  <1>5. CASE t.fix # c
    <2>1. Q = P
      BY <1>1, <1>2, <1>5 DEF WithFix
    <2> QED BY <1>5, <2>1, Zenon
  <1> QED BY <1>4, <1>5

\* A tile outside the region, the bins or the interval was not measured.

LEMMA OfTileEmpty ==
  ASSUME Inputs, NEW i \in DOMAIN survey.tiles, NEW t, t = survey.tiles[i], NEW clip \in Interval, CutsTo(t, clip),
         Duration(clip) = 0 \/ i \notin Counted
  PROVE  OfTile(i) = {}
  <1> SUFFICES ASSUME NEW m \in OfTile(i) PROVE FALSE
    OBVIOUS
  <1>1. m \in Measured /\ m.tile = i
    BY DEF OfTile
  <1>2. TileOf(m) = t
    BY <1>1 DEF TileOf
  <1>3. /\ m.tile \in Counted /\ m.at \in Nat /\ t.start <= m.at /\ m.at < EndOf(t)
        /\ query.from <= m.at /\ m.at < QueryEnd
    BY <1>1, <1>2, MeasuredFields
  <1>4. clip[1] <= m.at /\ m.at < clip[2] /\ m.at \in Int
    BY <1>3 DEF CutsTo
  <1>5. Duration(clip) > 0
    BY <1>4, DurationHasTick
  <1>6. i \in Counted
    BY <1>1, <1>3
  <1>7. Duration(clip) \in Nat
    BY DurationIs
  <1> QED BY <1>5, <1>6, <1>7

-----------------------------------------------------------------------------
(* The panel, tile by tile.                                                *)

Before(n) == {m \in Measured : m.tile < n}

PanelIs(res, S) ==
  /\ res.total = TimesOf(S)
  /\ \A b \in BinRange : res.bins[b] = BinTimes(S, b)
  /\ \A k \in 0..(MaxObservations - 1) :
       res.groups[k] = TimesOf(During(S, Edges(Resolved(survey, query), k)))

IsResult(res) ==
  /\ res = [total |-> res.total, groups |-> res.groups, bins |-> res.bins,
            missing |-> res.missing, gaps |-> res.gaps, waves |-> res.waves]
  /\ DOMAIN res.groups = 0..(MaxObservations - 1)

LEMMA BeforeGrows ==
  ASSUME Inputs, NEW n \in Nat
  PROVE  Grown(Before(n), Before(n + 1), n)
  <1>1. \A m \in Measured : m.tile \in Nat
    BY MeasuredFields
  <1>2. \A m \in Measured : (m.tile < n + 1) <=> (m.tile < n \/ m.tile = n)
    BY <1>1
  <1>3. \A m \in Measured : m.tile < n => m.tile # n
    BY <1>1
  <1>4. Before(n + 1) = Before(n) \cup OfTile(n)
    BY <1>2 DEF Before, OfTile
  <1> QED BY <1>3, <1>4 DEF Grown, Before

LEMMA BeforeFirst == ASSUME Inputs PROVE Before(1) = {}
  <1>1. \A m \in Measured : m.tile \in Nat /\ m.tile > 0
    <2> SUFFICES ASSUME NEW m \in Measured PROVE m.tile \in Nat /\ m.tile > 0
      OBVIOUS
    <2>1. m.tile \in DOMAIN survey.tiles
      BY MeasuredFields
    <2> QED BY <2>1, TilesFacts
  <1> QED BY <1>1 DEF Before

LEMMA BeforeLast == ASSUME Inputs, NEW n \in Nat, n > Len(survey.tiles) PROVE Before(n) = Measured
  <1>1. \A m \in Measured : m.tile < n
    <2> SUFFICES ASSUME NEW m \in Measured PROVE m.tile < n
      OBVIOUS
    <2>1. m.tile \in DOMAIN survey.tiles
      BY MeasuredFields
    <2> QED BY <2>1, TilesFacts
  <1> QED BY <1>1 DEF Before

LEMMA TimesRecord ==
  ASSUME NEW x, NEW o, NEW b, NEW u, x = [observed |-> o, busy |-> b, outside |-> u], NEW y, y = o
  PROVE  [x EXCEPT !.observed = y] = x
  OBVIOUS

LEMMA ResultRecord ==
  ASSUME NEW res, NEW a, NEW b, NEW c, NEW d, NEW e, NEW f,
         res = [total |-> a, groups |-> b, bins |-> c, missing |-> d, gaps |-> e, waves |-> f]
  PROVE  res.total = a /\ res.groups = b /\ res.bins = c /\ res.missing = d /\ res.gaps = e /\ res.waves = f
  OBVIOUS

LEMMA ResultUpdate ==
  ASSUME NEW res, IsResult(res), NEW x, NEW G, NEW B, NEW z
  PROVE  [res EXCEPT !.total = x, !.groups = G, !.bins = B, !.missing = z] =
           [total |-> x, groups |-> G, bins |-> B, missing |-> z, gaps |-> res.gaps, waves |-> res.waves]
  <1> DEFINE e == res.gaps
             f == res.waves
             a == [res EXCEPT !.total = x]
             b == [a EXCEPT !.groups = G]
             c == [b EXCEPT !.bins = B]
             d == [c EXCEPT !.missing = z]
  <1>1. [res EXCEPT !.total = x, !.groups = G, !.bins = B, !.missing = z] = d
    OBVIOUS
  <1>2. a = [total |-> x, groups |-> res.groups, bins |-> res.bins, missing |-> res.missing, gaps |-> e, waves |-> f]
    BY DEF IsResult
  <1> HIDE DEF a
  <1>3. b = [total |-> x, groups |-> G, bins |-> res.bins, missing |-> res.missing, gaps |-> e, waves |-> f]
    BY <1>2
  <1> HIDE DEF b
  <1>4. c = [total |-> x, groups |-> G, bins |-> B, missing |-> res.missing, gaps |-> e, waves |-> f]
    BY <1>3
  <1> HIDE DEF c
  <1>5. d = [total |-> x, groups |-> G, bins |-> B, missing |-> z, gaps |-> e, waves |-> f]
    BY <1>4
  <1> HIDE DEF d
  <1> QED BY <1>1, <1>5

LEMMA AnalyzeTileAdds ==
  ASSUME Inputs, cursor \in Nat, cursor > 0, AnalyzeTile, IsResult(result), PanelIs(result, Before(cursor))
  PROVE  IsResult(result') /\ PanelIs(result', Before(cursor + 1))
  <1> DEFINE t == survey.tiles[cursor]
             r == Resolved(survey, query)
             clip == PanelClip(t)
             counts == InPanel(t)
             z == result.missing + IF t.fix = NoFix THEN Duration(clip) ELSE 0
             S == Before(cursor)
             T == Before(cursor + 1)
  <1>a. clip = Meet(<<r.from, r.to>>, Whole(t))
    BY DEF PanelClip
  <1>b. counts <=> Duration(clip) > 0 /\ InRegion(t.fix) /\ BinsOf(Acq(t)) # {}
    BY DEF InPanel
  <1>1. cursor \in DOMAIN survey.tiles
    BY TilesFacts DEF AnalyzeTile
  <1>2. clip \in Interval /\ CutsTo(t, clip)
    BY <1>1, <1>a, ResolvedFits
  <1>3. Grown(S, T, cursor)
    BY BeforeGrows
  <1>4. CASE ~ counts
    <2>1. result' = result
      BY <1>4 DEF AnalyzeTile
    <2>2. Duration(clip) = 0 \/ cursor \notin Counted
      <3>1. Duration(clip) \in Nat
        BY <1>2, DurationIs
      <3> HIDE DEF clip
      <3> QED BY <1>4, <1>b, <3>1 DEF Counted
    <2>3. OfTile(cursor) = {}
      BY <1>1, <1>2, <2>2, OfTileEmpty
    <2>4. T = S
      BY <1>3, <2>3 DEF Grown
    <2> HIDE DEF S, T
    <2>5. PanelIs(result, T)
      BY <2>4 DEF S
    <2> QED BY <2>1, <2>5 DEF T
  <1>5. CASE counts
    <2>1. cursor \in Counted
      BY <1>1, <1>5, <1>b DEF Counted
    <2> DEFINE x == [Added(result.total, t, clip, Always) EXCEPT !.observed = result.total.observed + Duration(clip)]
               G == [k \in 0..(MaxObservations - 1) |-> Added(result.groups[k], t, clip, Edges(r, k))]
               B == [b \in BinRange |-> AddedBin(result.bins[b], t, clip, b)]
    <2>3. result' = [result EXCEPT !.total = x, !.groups = G, !.bins = B, !.missing = z]
      <3> DEFINE R == [result EXCEPT !.total = x, !.groups = G, !.bins = B, !.missing = z]
      <3>1. result' = IF ~ counts THEN result ELSE R
        BY Zenon DEF AnalyzeTile
      <3> HIDE DEF R, counts
      <3>2. result' = R
        BY <1>5, <3>1
      <3> HIDE DEF x, G, B, z
      <3> QED BY <3>2 DEF R
    <2>a. /\ t = survey.tiles[cursor] /\ r = Resolved(survey, query)
          /\ clip = Meet(<<r.from, r.to>>, Whole(t)) /\ PanelIs(result, S)
      BY <1>a
    <2>c. DOMAIN G = 0..(MaxObservations - 1)
      OBVIOUS
    <2> HIDE DEF t, r, clip, z, S, T, counts
    <2>b. /\ x = TimesOf(T)
          /\ \A b \in BinRange : B[b] = BinTimes(T, b)
          /\ \A k \in 0..(MaxObservations - 1) : G[k] = TimesOf(During(T, Edges(r, k)))
      <3>2. cursor \in DOMAIN survey.tiles
        BY <1>1
      <3>3. clip \in Interval /\ CutsTo(t, clip) /\ <<r.from, r.to>> \in Interval
        BY <2>a, <3>2, ResolvedFits
      <3>4. S \subseteq Measured /\ T \subseteq Measured
        BY <1>3 DEF Grown, OfTile
      <3>5. x = TimesOf(T)
        <4>1. During(S, Always) = S /\ During(T, Always) = T /\ Always \in Interval
          BY <3>4, DuringAlways
        <4>2. result.total = TimesOf(S)
          BY <2>a DEF PanelIs
        <4>3. Added(result.total, t, clip, Always) = TimesOf(T)
          <5>1. result.total = TimesOf(During(S, Always))
            BY <4>1, <4>2
          <5>2. Added(result.total, t, clip, Always) = TimesOf(During(T, Always))
            BY <1>3, <2>1, <2>a, <3>3, <4>1, <5>1, TimesAdd
          <5> QED BY <4>1, <5>2
        <4>4. Added(result.total, t, clip, Always).observed = result.total.observed + ObservedTime(t, clip, Always)
          BY DEF Added
        <4>5. ObservedTime(t, clip, Always) = Duration(clip)
          BY <2>a, <3>2, <3>3, WholeTime DEF ObservedTime
        <4>6. result.total.observed + Duration(clip) = Cardinality(T)
          <5>1. TimesOf(T).observed = Cardinality(T)
            BY DEF TimesOf
          <5> QED BY <4>3, <4>4, <4>5, <5>1
        <4>7. x = [TimesOf(T) EXCEPT !.observed = Cardinality(T)]
          BY <4>3, <4>6
        <4>8. TimesOf(T) = [observed |-> Cardinality(T), busy |-> Cardinality(BusyIn(T)), outside |-> Cardinality(BusyOutside(T))]
          BY DEF TimesOf
        <4>9. [TimesOf(T) EXCEPT !.observed = Cardinality(T)] = TimesOf(T)
          BY <4>8, TimesRecord
        <4> QED BY <4>7, <4>9
      <3>6. ASSUME NEW b \in BinRange PROVE AddedBin(result.bins[b], t, clip, b) = BinTimes(T, b)
        <4>1. result.bins[b] = BinTimes(S, b)
          BY <2>a DEF PanelIs
        <4>2. AddedBin(result.bins[b], t, clip, b) = BinTimes(T, b)
          BY <1>3, <2>1, <2>a, <3>3, <4>1, BinAdds
        <4> QED BY <4>2
      <3>7. ASSUME NEW k \in 0..(MaxObservations - 1)
            PROVE  Added(result.groups[k], t, clip, Edges(r, k)) = TimesOf(During(T, Edges(r, k)))
        <4>1. result.groups[k] = TimesOf(During(S, Edges(r, k))) /\ Edges(r, k) \in Interval
          BY <2>a, EdgesFacts DEF PanelIs
        <4>2. Added(result.groups[k], t, clip, Edges(r, k)) = TimesOf(During(T, Edges(r, k)))
          BY <1>3, <2>1, <2>a, <3>3, <4>1, TimesAdd
        <4> QED BY <4>2
      <3> HIDE DEF x
      <3> QED BY <3>5, <3>6, <3>7
    <2> HIDE DEF x, G, B
    <2>d. result' = [total |-> x, groups |-> G, bins |-> B, missing |-> z, gaps |-> result.gaps, waves |-> result.waves]
      BY <2>3, ResultUpdate
    <2>e. /\ result'.total = x /\ result'.groups = G /\ result'.bins = B /\ result'.missing = z
          /\ result'.gaps = result.gaps /\ result'.waves = result.waves
      BY <2>d, ResultRecord
    <2>f. IsResult(result')
      BY <2>c, <2>d, <2>e DEF IsResult
    <2>4. IsResult(result') /\ PanelIs(result', T)
      BY <2>a, <2>b, <2>e, <2>f DEF PanelIs
    <2> QED BY <2>4 DEF T
  <1> QED BY <1>4, <1>5

\* The bins a tile adds to the panel.
LEMMA PanelBins ==
  ASSUME Inputs, cursor \in Nat, cursor > 0, cursor <= Len(survey.tiles), PanelIs(result, Before(cursor)),
         NEW t, t = survey.tiles[cursor]
  PROVE  /\ InPanel(t) => BinsHeld \cup BinsOf(Acq(t)) = BinsIn(Before(cursor + 1))
         /\ ~ InPanel(t) => BinsIn(Before(cursor + 1)) = BinsIn(Before(cursor))
  <1> DEFINE S == Before(cursor)
             T == Before(cursor + 1)
             clip == PanelClip(t)
             r == Resolved(survey, query)
  <1>1. cursor \in DOMAIN survey.tiles
    BY TilesFacts
  <1>2. clip = Meet(<<r.from, r.to>>, Whole(t)) /\ r = Resolved(survey, query)
    BY DEF PanelClip
  <1>3. InPanel(t) <=> Duration(clip) > 0 /\ InRegion(t.fix) /\ BinsOf(Acq(t)) # {}
    BY DEF InPanel
  <1> HIDE DEF clip, r
  <1>4. clip \in Interval /\ CutsTo(t, clip) /\ <<r.from, r.to>> \in Interval
    BY <1>1, <1>2, ResolvedFits
  <1>5. Grown(S, T, cursor)
    BY BeforeGrows
  <1>6. T = S \cup OfTile(cursor) /\ S \subseteq Measured
    BY <1>5 DEF Grown
  <1>7. Duration(clip) \in Nat
    BY <1>4, DurationIs
  <1>8. ASSUME ~ InPanel(t) PROVE BinsIn(T) = BinsIn(S)
    <2>1. Duration(clip) = 0 \/ cursor \notin Counted
      BY <1>3, <1>7, <1>8 DEF Counted
    <2>2. OfTile(cursor) = {}
      BY <1>1, <1>4, <2>1, OfTileEmpty
    <2>3. T = S
      BY <1>6, <2>2
    <2> QED BY <2>3, Zenon
  <1>9. BinsHeld = BinsIn(S)
    <2>1. ASSUME NEW b \in BinRange PROVE result.bins[b].observed > 0 <=> WithBin(S, b) # {}
      <3>1. result.bins[b] = BinTimes(S, b)
        BY DEF PanelIs
      <3>2. result.bins[b].observed = Cardinality(WithBin(S, b))
        BY <3>1 DEF BinTimes
      <3>3. IsFiniteSet(WithBin(S, b))
        <4>1. WithBin(S, b) \subseteq Measured
          BY <1>6 DEF WithBin
        <4> QED BY <4>1, MeasuredFinite, FS_Subset
      <3> DEFINE W == WithBin(S, b)
      <3> HIDE DEF W
      <3>4. Cardinality(W) \in Nat /\ (Cardinality(W) = 0 <=> W = {})
        BY <3>3, FS_EmptySet, FS_CardinalityType DEF W
      <3> QED BY <3>2, <3>4 DEF W
    <2> QED BY <2>1 DEF BinsHeld, BinsIn
  <1>10. ASSUME InPanel(t) PROVE BinsIn(S) \cup BinsOf(Acq(t)) = BinsIn(T)
    <2>1. cursor \in Counted /\ Duration(clip) > 0
      BY <1>1, <1>3, <1>10 DEF Counted
    <2>2. \A m \in OfTile(cursor) : TileOf(m) = t
      BY <2>1, OfTileFields
    <2>3. OfTile(cursor) # {}
      <3> SUFFICES ASSUME OfTile(cursor) = {} PROVE FALSE
        OBVIOUS
      <3> DEFINE X == Slice(cursor, DOMAIN t.frames, Always)
      <3>1. Cardinality(X) = Duration(clip)
        BY <1>2, <1>4, <2>1, OfTileCount
      <3>2. X = {}
        BY DEF Slice, OfTile
      <3> HIDE DEF X
      <3>3. Cardinality(X) = 0
        BY <3>2, FS_EmptySet, Zenon
      <3> QED BY <1>7, <2>1, <3>1, <3>3
    <2>4. BinsOf(Acq(t)) \subseteq BinRange
      <3>1. t.acq \in DOMAIN survey.acqs
        BY <1>1, TileFacts
      <3> QED BY <3>1, AcqFacts DEF BinsOf, Acq
    <2>5. ASSUME NEW b \in BinRange
          PROVE  WithBin(T, b) # {} <=> WithBin(S, b) # {} \/ b \in BinsOf(Acq(t))
      <3> HIDE DEF S, T
      <3> QED BY <1>6, <2>2, <2>3 DEF WithBin
    <2> HIDE DEF S, T
    <2> QED BY <2>4, <2>5 DEF BinsIn
  <1> QED BY <1>8, <1>9, <1>10, Zenon

\* A finite set has no more elements than one that holds it.
LEMMA FewerIn ==
  ASSUME NEW S, NEW T, IsFiniteSet(T), S \subseteq T
  PROVE  IsFiniteSet(S) /\ Cardinality(S) \in Nat /\ Cardinality(T) \in Nat /\ Cardinality(S) <= Cardinality(T)
  BY FS_Subset, FS_CardinalityType

LEMMA BinsInGrow ==
  ASSUME NEW S, NEW T, S \subseteq T
  PROVE  /\ Cardinality(BinsIn(S)) \in Nat /\ Cardinality(BinsIn(T)) \in Nat
         /\ Cardinality(BinsIn(S)) <= Cardinality(BinsIn(T))
  <1>1. BinsIn(S) \subseteq BinsIn(T) /\ BinsIn(T) \subseteq BinRange
    BY DEF BinsIn, WithBin
  <1>2. IsFiniteSet(BinRange)
    BY AnalysisAssumption
  <1>3. IsFiniteSet(BinsIn(T))
    BY <1>1, <1>2, FS_Subset
  <1> QED BY <1>1, <1>3, FewerIn

-----------------------------------------------------------------------------
(* A section of the report, tile by tile.                                  *)


SectionIs(sec, S) ==
  /\ sec.times = TimesOf(S)
  /\ \A b \in BinRange : sec.bins[b] = BinTimes(S, b)
  /\ \A c \in Cells \cup {NoFix} : sec.cells[c] = Cardinality(WithFix(S, c))
  /\ sec.groups = GroupsIn(S)

TimeRecord == [observed : Nat, busy : Nat, outside : Nat]
SectionType == [times : TimeRecord, bins : [BinRange -> TimeRecord], cells : [Cells \cup {NoFix} -> Nat],
                groups : SUBSET Int, rejected : Nat, gaps : Nat, acq : Nat]

LEMMA CountTypes ==
  ASSUME Inputs, NEW S, S \subseteq Measured
  PROVE  /\ IsFiniteSet(S) /\ TimesOf(S) \in TimeRecord
         /\ \A b : BinTimes(S, b) \in TimeRecord
         /\ \A c : Cardinality(WithFix(S, c)) \in Nat
  <1>1. IsFiniteSet(S)
    BY MeasuredFinite, FS_Subset
  <1>2. \A T \in SUBSET S : Cardinality(T) \in Nat
    BY <1>1, FS_Subset, FS_CardinalityType
  <1>3. S \in SUBSET S /\ BusyIn(S) \in SUBSET S /\ BusyOutside(S) \in SUBSET S
    BY DEF BusyIn, BusyOutside
  <1>4. \A b : WithBin(S, b) \in SUBSET S /\ BinBusy(S, b) \in SUBSET S
    BY DEF WithBin, BinBusy
  <1>5. \A c : WithFix(S, c) \in SUBSET S
    BY DEF WithFix
  <1>6. TimesOf(S) \in TimeRecord
    BY <1>2, <1>3 DEF TimesOf, TimeRecord
  <1>7. \A b : BinTimes(S, b) \in TimeRecord
    BY <1>2, <1>4 DEF BinTimes, TimeRecord
  <1> QED BY <1>1, <1>2, <1>5, <1>6, <1>7

LEMMA WindowIs ==
  ASSUME Inputs, NEW n \in DOMAIN survey.acqs, NEW a, a = survey.acqs[n]
  PROVE  /\ Window(a) \in Interval
         /\ \A k \in Int : (Window(a)[1] <= k /\ k < Window(a)[2])
                             <=> (query.from <= k /\ k < QueryEnd /\ a.from <= k /\ k < a.to)
  <1> DEFINE p == <<query.from, QueryEnd>>
             q == <<a.from, a.to>>
  <1>1. p \in Interval /\ p[1] = query.from /\ p[2] = QueryEnd
    BY QueryFacts DEF Interval
  <1>2. q \in Interval /\ q[1] = a.from /\ q[2] = a.to
    BY AcqFacts DEF Interval
  <1>3. Window(a) = Meet(p, q)
    BY DEF Window
  <1> HIDE DEF p, q
  <1>4. /\ Meet(p, q) \in Interval
        /\ \A k \in Int : (Meet(p, q)[1] <= k /\ k < Meet(p, q)[2])
                            <=> (p[1] <= k /\ k < p[2] /\ q[1] <= k /\ k < q[2])
    BY <1>1, <1>2, MeetIs
  <1> QED BY <1>1, <1>2, <1>3, <1>4

\* A section sees the tiles of its acquisition, as far as the query reaches,
\* and no tile of another.
LEMMA WindowFits ==
  ASSUME Inputs, NEW n \in DOMAIN survey.acqs, NEW i \in DOMAIN survey.tiles, NEW t, t = survey.tiles[i],
         NEW w, w = Window(survey.acqs[n]), NEW clip, clip = Meet(w, Whole(t))
  PROVE  /\ w \in Interval /\ clip \in Interval
         /\ t.acq = n => CutsTo(t, clip)
         /\ t.acq # n => Duration(clip) = 0
  <1> DEFINE a == survey.acqs[n]
  <1>1. w \in Interval /\ \A k \in Int : (w[1] <= k /\ k < w[2])
                             <=> (query.from <= k /\ k < QueryEnd /\ a.from <= k /\ k < a.to)
    BY WindowIs
  <1>2. /\ t.start \in Nat /\ EndOf(t) \in Nat /\ t.acq \in DOMAIN survey.acqs
        /\ Acq(t).from \in Nat /\ Acq(t).to \in Nat /\ Acq(t).from <= t.start /\ EndOf(t) <= Acq(t).to
    BY TileFacts
  <1>3. Whole(t) \in Interval /\ Whole(t)[1] = t.start /\ Whole(t)[2] = EndOf(t)
    BY <1>2 DEF Whole, Interval
  <1>4. clip \in Interval /\ \A k \in Int : (clip[1] <= k /\ k < clip[2])
                   <=> (w[1] <= k /\ k < w[2] /\ Whole(t)[1] <= k /\ k < Whole(t)[2])
    BY <1>1, <1>3, MeetIs
  <1>5. \A k \in Int : (clip[1] <= k /\ k < clip[2])
                   <=> (/\ query.from <= k /\ k < QueryEnd /\ a.from <= k /\ k < a.to
                        /\ t.start <= k /\ k < EndOf(t))
    BY <1>1, <1>3, <1>4
  <1>6. a.from \in Nat /\ a.to \in Nat
    BY AcqFacts
  <1>7. ASSUME t.acq = n PROVE CutsTo(t, clip)
    <2>1. a.from <= t.start /\ EndOf(t) <= a.to
      BY <1>2, <1>7 DEF Acq
    <2>2. \A k \in Int : t.start <= k /\ k < EndOf(t) => a.from <= k /\ k < a.to
      BY <1>2, <1>6, <2>1
    <2> HIDE DEF a
    <2> QED BY <1>5, <2>2 DEF CutsTo
  <1>8. ASSUME t.acq # n PROVE Duration(clip) = 0
    <2>1. n \in Nat /\ t.acq \in Nat /\ (n < t.acq \/ t.acq < n)
      BY <1>2, <1>8, AcqFacts
    <2>2. n < t.acq => a.to <= Acq(t).from
      BY <1>2, AcqFacts DEF Acq
    <2>3. t.acq < n => Acq(t).to <= a.from
      BY <1>2, AcqFacts DEF Acq
    <2> HIDE DEF a
    <2>4. \A k \in Int : ~ (a.from <= k /\ k < a.to /\ t.start <= k /\ k < EndOf(t))
      BY <1>2, <1>6, <2>1, <2>2, <2>3
    <2>5. ~ (Duration(clip) > 0)
      BY <1>4, <1>5, <2>4, DurationHasTick
    <2>6. Duration(clip) \in Nat
      BY <1>4, DurationIs
    <2> QED BY <2>5, <2>6
  <1> QED BY <1>1, <1>4, <1>7, <1>8

LEMMA ChosenFacts ==
  ASSUME Inputs, NEW n \in Chosen
  PROVE  n \in DOMAIN survey.acqs /\ n \in Nat /\ n > 0 /\ BinsOf(survey.acqs[n]) # {}
  <1>1. n \in DOMAIN survey.acqs /\ BinsOf(survey.acqs[n]) # {}
    BY DEF Chosen, InSelection
  <1> QED BY <1>1, AcqFacts

\* What was measured was measured in a chosen acquisition.
LEMMA MeasuredChosen ==
  ASSUME Inputs, NEW m \in Measured
  PROVE  TileOf(m).acq \in Chosen /\ TileOf(m).acq \in Nat /\ TileOf(m).acq > 0
  <1> DEFINE t == TileOf(m)
             n == t.acq
             a == survey.acqs[n]
             i == m.tile
  <1>1. /\ i \in Counted /\ i \in DOMAIN survey.tiles /\ m.at \in Nat
        /\ t.start <= m.at /\ m.at < EndOf(t) /\ query.from <= m.at /\ m.at < QueryEnd
    BY MeasuredFields
  <1>2. t = survey.tiles[i]
    BY DEF TileOf
  <1>3. InRegion(t.fix) /\ BinsOf(a) # {}
    BY <1>1, <1>2 DEF Counted, Acq
  <1>4. /\ n \in DOMAIN survey.acqs /\ t.start \in Nat /\ EndOf(t) \in Nat
        /\ a.from \in Nat /\ a.to \in Nat /\ a.from <= t.start /\ EndOf(t) <= a.to
    BY <1>1, <1>2, TileFacts DEF Acq
  <1>5. a.from <= m.at /\ m.at < a.to /\ m.at \in Int
    BY <1>1, <1>4
  <1>6. Duration(Window(a)) > 0
    <2>1. Window(a) \in Interval /\ Window(a)[1] <= m.at /\ m.at < Window(a)[2]
      BY <1>1, <1>4, <1>5, WindowIs
    <2> QED BY <1>5, <2>1, DurationHasTick
  <1>7. EndOf(t) > query.from /\ t.start < QueryEnd
    BY <1>1, <1>4, QueryFacts
  <1>8. HasTile(n)
    BY <1>1, <1>2, <1>3, <1>7 DEF HasTile
  <1>9. n \in Chosen
    BY <1>3, <1>4, <1>6, <1>8 DEF Chosen, InSelection
  <1> QED BY <1>9, ChosenFacts

LEMMA SectionRecord ==
  ASSUME NEW sec \in SectionType
  PROVE  /\ sec = [times |-> sec.times, bins |-> sec.bins, cells |-> sec.cells, groups |-> sec.groups,
                   rejected |-> sec.rejected, gaps |-> sec.gaps, acq |-> sec.acq]
         /\ sec.times \in TimeRecord /\ sec.bins \in [BinRange -> TimeRecord] /\ sec.cells \in [Cells \cup {NoFix} -> Nat]
         /\ sec.groups \in SUBSET Int /\ sec.rejected \in Nat /\ sec.gaps \in Nat /\ sec.acq \in Nat
  BY DEF SectionType

LEMMA SectionFields ==
  ASSUME NEW sec, NEW a \in TimeRecord, NEW b \in [BinRange -> TimeRecord], NEW c \in [Cells \cup {NoFix} -> Nat],
         NEW g \in SUBSET Int, NEW d \in Nat, NEW e \in Nat, NEW f \in Nat,
         sec = [times |-> a, bins |-> b, cells |-> c, groups |-> g, rejected |-> d, gaps |-> e, acq |-> f]
  PROVE  /\ sec \in SectionType /\ sec.times = a /\ sec.bins = b /\ sec.cells = c /\ sec.groups = g
         /\ sec.rejected = d /\ sec.gaps = e /\ sec.acq = f
  BY DEF SectionType

LEMMA GroupType ==
  ASSUME Inputs, NEW k \in Int, NEW w \in Interval PROVE GroupAt(k, w) \in Int
  <1>1. w[1] \in Int /\ query.group \in Nat /\ query.group > 0
    BY QueryFacts DEF Interval
  <1> DEFINE d == k - w[1]
             g == query.group
  <1>2. d \in Int /\ g \in Nat /\ g > 0
    BY <1>1
  <1> HIDE DEF d, g
  <1>3. d \div g \in Int
    BY <1>2
  <1> QED BY <1>3 DEF GroupAt, d, g

LEMMA GroupsType ==
  ASSUME Inputs, NEW S, S \subseteq Measured PROVE GroupsIn(S) \in SUBSET Int
  <1> SUFFICES ASSUME NEW m \in S PROVE GroupAt(m.at, Window(Acq(TileOf(m)))) \in Int
    BY DEF GroupsIn
  <1>1. m.at \in Int /\ m.tile \in DOMAIN survey.tiles
    BY MeasuredFields
  <1>2. TileOf(m).acq \in DOMAIN survey.acqs
    BY <1>1, TileFacts DEF TileOf
  <1>3. Window(Acq(TileOf(m))) \in Interval
    BY <1>2, WindowIs DEF Acq
  <1> QED BY <1>1, <1>3, GroupType

\* Every tick of a tile lies in one of its frames.
LEMMA TickInFrame ==
  ASSUME Inputs, NEW i \in DOMAIN survey.tiles, NEW t, t = survey.tiles[i], NEW k \in Int, t.start <= k, k < EndOf(t)
  PROVE  \E f \in DOMAIN t.frames : FrameFrom(t, f) <= k /\ k < FrameTo(t, f)
  <1>1. t.start \in Nat /\ Len(t.frames) \in Nat /\ DOMAIN t.frames = 1..Len(t.frames) /\ FrameTicks \in Nat
    BY TileFacts, QueryFacts
  <1> DEFINE n == Len(t.frames)
             S == {f \in 1..n : k < FrameTo(t, f)}
  <1>2. n \in 1..n /\ n \in S
    <2>1. EndOf(t) = t.start + n * FrameTicks /\ FrameTo(t, n) = t.start + n * FrameTicks
      BY DEF EndOf, FrameTo
    <2>2. n # 0
      <3> SUFFICES ASSUME n = 0 PROVE FALSE
        OBVIOUS
      <3>1. 0 * FrameTicks = 0
        BY <1>1
      <3> HIDE DEF n
      <3>2. EndOf(t) = t.start
        BY <1>1, <2>1, <3>1
      <3> QED BY <1>1, <3>2
    <2>3. n \in 1..n
      BY <1>1, <2>2
    <2> QED BY <2>1, <2>3
  <1>3. S \subseteq Nat /\ S # {}
    BY <1>2
  <1>4. \A f \in S : f \in 1..n /\ k < FrameTo(t, f)
    OBVIOUS
  <1>5. \A f \in 1..n : k < FrameTo(t, f) => f \in S
    OBVIOUS
  <1> HIDE DEF S, n
  <1>6. PICK f \in S : \A x \in S : f <= x
    BY <1>3, LeastElement
  <1>7. f \in DOMAIN t.frames /\ f \in Nat /\ f > 0 /\ k < FrameTo(t, f)
    BY <1>1, <1>4 DEF n
  <1>8. FrameFrom(t, f) <= k
    <2>1. CASE f = 1
      <3>1. FrameFrom(t, 1) = t.start
        BY <1>1 DEF FrameFrom
      <3> QED BY <2>1, <3>1
    <2>2. CASE f # 1
      <3> DEFINE e == f - 1
      <3>1. e \in 1..n /\ e < f /\ e \in Nat /\ e \in DOMAIN t.frames
        BY <1>1, <1>7, <2>2 DEF n
      <3>2. FrameTo(t, e) = FrameFrom(t, f)
        BY DEF FrameTo, FrameFrom
      <3>3. ~ (k < FrameTo(t, e))
        <4> HIDE DEF e
        <4>1. e \notin S
          BY <1>6, <1>7, <3>1
        <4> QED BY <1>5, <3>1, <4>1
      <3>4. FrameFrom(t, f) \in Nat
        BY <1>7, FrameFacts
      <3> HIDE DEF e
      <3> QED BY <3>2, <3>3, <3>4
    <2> QED BY <2>1, <2>2
  <1> QED BY <1>7, <1>8

\* The ticks of a clipped tile are those measured in it, so that the groups
\* they touch are the groups of its measurements.
LEMMA TouchedIs ==
  ASSUME Inputs, NEW n \in DOMAIN survey.acqs, NEW i \in Counted, NEW t, t = survey.tiles[i], t.acq = n,
         NEW w, w = Window(survey.acqs[n]), NEW clip \in Interval, clip = Meet(w, Whole(t)), CutsTo(t, clip)
  PROVE  GroupsTouched(clip, w) = GroupsIn(OfTile(i))
  <1>1. i \in DOMAIN survey.tiles
    BY DEF Counted
  <1>2. clip[1] \in Int /\ clip[2] \in Int
    BY DEF Interval
  <1>3. w \in Interval
    BY WindowIs
  <1>4. \A k \in Int : clip[1] <= k /\ k < clip[2] => t.start <= k /\ k < EndOf(t)
    <2>1. Whole(t) \in Interval /\ Whole(t)[1] = t.start /\ Whole(t)[2] = EndOf(t)
      <3>1. t.start \in Nat /\ EndOf(t) \in Nat
        BY <1>1, TileFacts
      <3> QED BY <3>1 DEF Whole, Interval
    <2> QED BY <1>3, <2>1, MeetIs
  <1>5. \A k \in Int : k \in clip[1]..(clip[2] - 1) <=> clip[1] <= k /\ k < clip[2]
    BY <1>2
  <1>6. \A m \in OfTile(i) : m.at \in clip[1]..(clip[2] - 1) /\ Window(Acq(TileOf(m))) = w
    <2> SUFFICES ASSUME NEW m \in OfTile(i)
                 PROVE  m.at \in clip[1]..(clip[2] - 1) /\ Window(Acq(TileOf(m))) = w
      OBVIOUS
    <2>1. m \in Measured /\ TileOf(m) = t
      BY OfTileFields
    <2>2. m.at \in Int /\ t.start <= m.at /\ m.at < EndOf(t) /\ query.from <= m.at /\ m.at < QueryEnd
      BY <2>1, MeasuredFields
    <2>3. clip[1] <= m.at /\ m.at < clip[2]
      BY <2>2 DEF CutsTo
    <2> QED BY <1>5, <2>1, <2>2, <2>3 DEF Acq
  <1>7. \A k \in clip[1]..(clip[2] - 1) : \E m \in OfTile(i) : m.at = k
    <2> SUFFICES ASSUME NEW k \in clip[1]..(clip[2] - 1) PROVE \E m \in OfTile(i) : m.at = k
      OBVIOUS
    <2>1. k \in Int /\ clip[1] <= k /\ k < clip[2]
      BY <1>2
    <2>2. t.start <= k /\ k < EndOf(t)
      BY <1>4, <2>1
    <2>3. query.from <= k /\ k < QueryEnd
      BY <2>1, <2>2 DEF CutsTo
    <2>4. PICK f \in DOMAIN t.frames : FrameFrom(t, f) <= k /\ k < FrameTo(t, f)
      BY <1>1, <2>1, <2>2, TickInFrame
    <2>5. FrameFrom(t, f) \in Nat /\ FrameTo(t, f) \in Nat
      BY <1>1, FrameFacts
    <2>6. k \in TicksOf(t, f)
      BY <2>1, <2>3, <2>4, <2>5, QueryFacts DEF TicksOf
    <2> DEFINE m == [tile |-> i, frame |-> f, at |-> k]
    <2>7. m \in Measured /\ m.tile = i /\ m.at = k
      <3>1. m.tile = i /\ m.at = k
        OBVIOUS
      <3> QED BY <2>6, <3>1, MeasuredIs
    <2> HIDE DEF m
    <2>8. m \in OfTile(i)
      BY <2>7 DEF OfTile
    <2> QED BY <2>7, <2>8
  <1> QED BY <1>6, <1>7 DEF GroupsTouched, GroupsIn

LEMMA ReportTileAdds ==
  ASSUME Inputs, cursor \in Nat, cursor > 0, ReportTile, section \in SectionType, section.acq \in Chosen,
         SectionIs(section, OfAcq(Before(cursor), section.acq))
  PROVE  /\ section' \in SectionType /\ section'.acq = section.acq
         /\ SectionIs(section', OfAcq(Before(cursor + 1), section.acq))
  <1> DEFINE n == section.acq
             t == survey.tiles[cursor]
             w == Window(survey.acqs[n])
             clip == Meet(w, Whole(t))
             S == OfAcq(Before(cursor), n)
             T == OfAcq(Before(cursor + 1), n)
             late == section.rejected + IF t.fix = NoFix THEN Duration(clip) ELSE 0
             x == Added(section.times, t, clip, Always)
             B == [b \in BinRange |-> AddedBin(section.bins[b], t, clip, b)]
             C == [section.cells EXCEPT ![t.fix] = @ + Duration(clip)]
             G == section.groups \cup GroupsTouched(clip, w)
             R == [section EXCEPT !.times = x, !.bins = B, !.cells = C, !.groups = G]
             J == [section EXCEPT !.rejected = @ + IF t.fix = NoFix THEN Duration(clip) ELSE 0]
  <1>1. cursor \in DOMAIN survey.tiles
    BY TilesFacts DEF ReportTile
  <1>2. n \in DOMAIN survey.acqs /\ n \in Nat /\ BinsOf(survey.acqs[n]) # {}
    BY ChosenFacts
  <1>3. w \in Interval /\ clip \in Interval /\ (t.acq = n => CutsTo(t, clip)) /\ (t.acq # n => Duration(clip) = 0)
    BY <1>1, <1>2, WindowFits
  <1>4. Before(cursor + 1) = Before(cursor) \cup OfTile(cursor) /\ \A m \in Before(cursor) : m.tile # cursor
    BY BeforeGrows DEF Grown
  <1>5. \A m \in OfTile(cursor) : TileOf(m) = t
    BY DEF OfTile, TileOf
  <1>6. S \subseteq Measured /\ T \subseteq Measured
    BY DEF OfAcq, Before
  <1>7. section' = IF Duration(clip) = 0 THEN section ELSE IF ~ InRegion(t.fix) THEN J ELSE R
    BY Zenon DEF ReportTile, SectionClip, SectionWindow
  <1>8. SectionIs(section, S)
    OBVIOUS
  <1>9. Duration(clip) \in Nat
    BY <1>3, DurationIs
  <1>10. t.fix \in Cells \cup {NoFix}
    BY <1>1, TileFacts
  <1>11. (t.acq # n \/ OfTile(cursor) = {}) => T = S
    BY <1>4, <1>5 DEF OfAcq
  <1>12. J = [section EXCEPT !.rejected = late]
    OBVIOUS
  <1>13. t = survey.tiles[cursor] /\ clip = Meet(w, Whole(t))
    OBVIOUS
  <1>14. t.acq = n => (Grown(S, T, cursor) /\ Acq(t) = survey.acqs[n])
    BY <1>4, <1>5, <1>6 DEF OfAcq, Grown, Acq
  <1>15. x = Added(section.times, t, clip, Always)
    OBVIOUS
  <1>16. DOMAIN B = BinRange /\ \A b \in BinRange : B[b] = AddedBin(section.bins[b], t, clip, b)
    OBVIOUS
  <1>17. /\ DOMAIN C = Cells \cup {NoFix}
         /\ \A c \in Cells \cup {NoFix} : C[c] = IF c = t.fix THEN section.cells[c] + Duration(clip) ELSE section.cells[c]
         /\ C = [c \in Cells \cup {NoFix} |-> C[c]]
    <2>1. section.cells \in [Cells \cup {NoFix} -> Nat]
      BY SectionRecord
    <2> HIDE DEF t, clip
    <2> QED BY <1>10, <2>1
  <1>18. B = [b \in BinRange |-> B[b]]
    OBVIOUS
  <1>19. G = section.groups \cup GroupsTouched(clip, w) /\ w = Window(survey.acqs[n])
    OBVIOUS
  <1> HIDE DEF t, w, clip, S, T, n, R, J, late, x, B, C, G
  <1>20. CASE Duration(clip) = 0
    <2>1. OfTile(cursor) = {} \/ t.acq # n
      BY <1>1, <1>3, <1>13, <1>20, OfTileEmpty
    <2>2. T = S /\ section' = section
      BY <1>7, <1>11, <1>20, <2>1
    <2> QED BY <1>8, <2>2 DEF T, n
  <1>21. CASE Duration(clip) # 0 /\ ~ InRegion(t.fix)
    <2>1. cursor \notin Counted
      BY <1>13, <1>21 DEF Counted
    <2>2. OfTile(cursor) = {} \/ t.acq # n
      BY <1>1, <1>3, <1>13, <2>1, OfTileEmpty
    <2>3. T = S /\ section' = J
      BY <1>7, <1>11, <1>21, <2>2
    <2>4. late \in Nat
      BY <1>9, SectionRecord DEF late
    <2>5. J = [times |-> section.times, bins |-> section.bins, cells |-> section.cells, groups |-> section.groups,
               rejected |-> late, gaps |-> section.gaps, acq |-> section.acq]
      BY <1>12, SectionRecord
    <2>6. /\ J \in SectionType /\ J.times = section.times /\ J.bins = section.bins /\ J.cells = section.cells
          /\ J.groups = section.groups /\ J.acq = section.acq
      BY <2>4, <2>5, SectionRecord, SectionFields
    <2>7. SectionIs(J, S)
      BY <1>8, <2>6 DEF SectionIs
    <2> QED BY <2>3, <2>6, <2>7 DEF T, n
  <1>22. CASE Duration(clip) # 0 /\ InRegion(t.fix)
    <2>1. t.acq = n
      BY <1>3, <1>22
    <2>2. CutsTo(t, clip) /\ Grown(S, T, cursor) /\ Acq(t) = survey.acqs[n]
      BY <1>3, <1>14, <2>1
    <2>3. cursor \in Counted
      BY <1>1, <1>2, <1>13, <1>22, <2>2 DEF Counted
    <2>4. section' = R
      BY <1>7, <1>22
    <2>5. x = TimesOf(T) /\ x \in TimeRecord
      <3>1. During(S, Always) = S /\ During(T, Always) = T /\ Always \in Interval
        BY <1>6, DuringAlways
      <3>2. section.times = TimesOf(During(S, Always))
        BY <1>8, <3>1 DEF SectionIs
      <3>3. Added(section.times, t, clip, Always) = TimesOf(During(T, Always))
        BY <1>3, <1>13, <2>2, <2>3, <3>1, <3>2, TimesAdd
      <3>4. x = TimesOf(T)
        BY <1>15, <3>1, <3>3
      <3> QED BY <1>6, <3>4, CountTypes
    <2>6. B \in [BinRange -> TimeRecord] /\ \A b \in BinRange : B[b] = BinTimes(T, b)
      <3>1. ASSUME NEW b \in BinRange PROVE B[b] = BinTimes(T, b) /\ B[b] \in TimeRecord
        <4>1. section.bins[b] = BinTimes(S, b)
          BY <1>8 DEF SectionIs
        <4>2. AddedBin(section.bins[b], t, clip, b) = BinTimes(T, b)
          BY <1>3, <1>13, <2>2, <2>3, <4>1, BinAdds
        <4> QED BY <1>6, <1>16, <4>2, CountTypes
      <3> QED BY <1>18, <3>1
    <2>7. C \in [Cells \cup {NoFix} -> Nat] /\ \A c \in Cells \cup {NoFix} : C[c] = Cardinality(WithFix(T, c))
      <3>1. ASSUME NEW c \in Cells \cup {NoFix} PROVE C[c] = Cardinality(WithFix(T, c)) /\ C[c] \in Nat
        <4>1. section.cells[c] = Cardinality(WithFix(S, c))
          BY <1>8 DEF SectionIs
        <4>2. Cardinality(WithFix(T, c)) = IF t.fix = c THEN Cardinality(WithFix(S, c)) + Duration(clip)
                                           ELSE Cardinality(WithFix(S, c))
          BY <1>3, <1>13, <2>2, <2>3, FixAdds
        <4>3. Cardinality(WithFix(T, c)) \in Nat
          BY <1>6, CountTypes
        <4> QED BY <1>17, <4>1, <4>2, <4>3
      <3> QED BY <1>17, <3>1
    <2>a. G = GroupsIn(T) /\ G \in SUBSET Int
      <3>1. section.groups = GroupsIn(S)
        BY <1>8 DEF SectionIs
      <3>2. GroupsTouched(clip, w) = GroupsIn(OfTile(cursor))
        BY <1>2, <1>3, <1>13, <1>19, <2>1, <2>2, <2>3, TouchedIs
      <3>3. T = S \cup OfTile(cursor)
        BY <2>2 DEF Grown
      <3>4. GroupsIn(T) = GroupsIn(S) \cup GroupsIn(OfTile(cursor))
        BY <3>3 DEF GroupsIn
      <3>5. GroupsIn(T) \in SUBSET Int
        BY <1>6, GroupsType
      <3> QED BY <1>19, <3>1, <3>2, <3>4, <3>5
    <2>8. R = [times |-> x, bins |-> B, cells |-> C, groups |-> G, rejected |-> section.rejected,
               gaps |-> section.gaps, acq |-> section.acq]
      <3> DEFINE d == section.rejected
                 e == section.gaps
                 f == section.acq
                 g == section.groups
                 p == [section EXCEPT !.times = x]
                 q == [p EXCEPT !.bins = B]
                 r == [q EXCEPT !.cells = C]
                 s == [r EXCEPT !.groups = G]
      <3>1. R = s
        BY DEF R
      <3>2. p = [times |-> x, bins |-> section.bins, cells |-> section.cells, groups |-> g, rejected |-> d,
                 gaps |-> e, acq |-> f]
        BY SectionRecord
      <3> HIDE DEF p, R
      <3>3. q = [times |-> x, bins |-> B, cells |-> section.cells, groups |-> g, rejected |-> d, gaps |-> e, acq |-> f]
        BY <3>2
      <3> HIDE DEF q
      <3>4. r = [times |-> x, bins |-> B, cells |-> C, groups |-> g, rejected |-> d, gaps |-> e, acq |-> f]
        BY <3>3
      <3> HIDE DEF r
      <3>5. s = [times |-> x, bins |-> B, cells |-> C, groups |-> G, rejected |-> d, gaps |-> e, acq |-> f]
        BY <3>4
      <3> QED BY <3>1, <3>5, Zenon
    <2>9. /\ R \in SectionType /\ R.times = x /\ R.bins = B /\ R.cells = C /\ R.groups = G
          /\ R.acq = section.acq
      <3> DEFINE d == section.rejected
                 e == section.gaps
                 f == section.acq
      <3>1. d \in Nat /\ e \in Nat /\ f \in Nat
        BY SectionRecord
      <3>2. R = [times |-> x, bins |-> B, cells |-> C, groups |-> G, rejected |-> d, gaps |-> e, acq |-> f]
        BY <2>8
      <3>3. /\ x \in TimeRecord /\ B \in [BinRange -> TimeRecord] /\ C \in [Cells \cup {NoFix} -> Nat]
            /\ G \in SUBSET Int
        BY <2>5, <2>6, <2>7, <2>a
      <3> HIDE DEF d, e, f
      <3>4. R \in SectionType /\ R.times = x /\ R.bins = B /\ R.cells = C /\ R.groups = G /\ R.acq = f
        BY <3>1, <3>2, <3>3, SectionFields
      <3> QED BY <3>4 DEF f
    <2>10. SectionIs(R, T)
      BY <2>5, <2>6, <2>7, <2>9, <2>a DEF SectionIs
    <2> QED BY <2>4, <2>9, <2>10 DEF T, n
  <1> QED BY <1>20, <1>21, <1>22

LEMMA EmptyCounts ==
        /\ TimesOf({}) = NoTime
        /\ \A b : BinTimes({}, b) = NoTime
        /\ \A c : Cardinality(WithFix({}, c)) = 0
        /\ \A iv : During({}, iv) = {}
        /\ GroupsIn({}) = {} /\ FixesIn({}) = {} /\ BinsIn({}) = {}
        /\ \A b : Cardinality(BinBusy({}, b)) = 0
        /\ Cardinality(BusyIn({})) = 0 /\ Cardinality(BusyOutside({})) = 0
        /\ Cardinality({}) = 0
  <1>1. Cardinality({}) = 0
    BY FS_EmptySet
  <1>2. /\ BusyIn({}) = {} /\ BusyOutside({}) = {}
        /\ \A b : WithBin({}, b) = {} /\ BinBusy({}, b) = {}
        /\ \A c : WithFix({}, c) = {}
        /\ \A iv : During({}, iv) = {}
        /\ GroupsIn({}) = {} /\ FixesIn({}) = {} /\ BinsIn({}) = {}
    BY DEF BusyIn, BusyOutside, WithBin, BinBusy, WithFix, During, GroupsIn, FixesIn, BinsIn
  <1>3. TimesOf({}) = NoTime
    BY <1>1, <1>2 DEF TimesOf, NoTime
  <1>4. \A b : BinTimes({}, b) = NoTime
    BY <1>1, <1>2 DEF BinTimes, NoTime
  <1> QED BY <1>1, <1>2, <1>3, <1>4

-----------------------------------------------------------------------------
(* The bounds of a section.                                                *)

\* The section of n, read up to tile r, is within its bounds.
Fits(n, r) == ~ TooMany(n, GroupsIn(OfAcq(Before(r), n)), FixesIn(OfAcq(Before(r), n)))

LEMMA HeldIs ==
  ASSUME Inputs, NEW sec, NEW S, S \subseteq Measured, SectionIs(sec, S)
  PROVE  CellsHeld(sec) = FixesIn(S)
  <1>1. ASSUME NEW c \in Cells \cup {NoFix} PROVE sec.cells[c] > 0 <=> WithFix(S, c) # {}
    <2> DEFINE W == WithFix(S, c)
    <2>1. sec.cells[c] = Cardinality(W)
      BY DEF SectionIs
    <2>2. IsFiniteSet(W)
      <3>1. W \subseteq Measured
        BY DEF WithFix
      <3> QED BY <3>1, MeasuredFinite, FS_Subset
    <2> HIDE DEF W
    <2>3. Cardinality(W) \in Nat /\ (Cardinality(W) = 0 <=> W = {})
      BY <2>2, FS_EmptySet, FS_CardinalityType
    <2> QED BY <2>1, <2>3 DEF W
  <1>2. \A m \in S : TileOf(m).fix \in Cells \cup {NoFix}
    <2> SUFFICES ASSUME NEW m \in S PROVE TileOf(m).fix \in Cells \cup {NoFix}
      OBVIOUS
    <2>1. m.tile \in DOMAIN survey.tiles
      BY MeasuredFields
    <2> QED BY <2>1, TileFacts DEF TileOf
  <1> QED BY <1>1, <1>2 DEF CellsHeld, FixesIn, WithFix

LEMMA KeysFinite ==
  ASSUME Inputs, NEW S, S \subseteq Measured
  PROVE  IsFiniteSet(GroupsIn(S)) /\ IsFiniteSet(FixesIn(S))
  <1>1. IsFiniteSet(S)
    BY MeasuredFinite, FS_Subset
  <1> DEFINE g == [m \in S |-> GroupAt(m.at, Window(Acq(TileOf(m))))]
             h == [m \in S |-> TileOf(m).fix]
  <1>2. GroupsIn(S) = {g[m] : m \in S} /\ FixesIn(S) = {h[m] : m \in S}
    BY DEF GroupsIn, FixesIn
  <1> HIDE DEF g, h
  <1>3. IsFiniteSet({g[m] : m \in S}) /\ IsFiniteSet({h[m] : m \in S})
    BY <1>1, ImageFinite
  <1> QED BY <1>2, <1>3, Zenon

LEMMA BinsCount ==
  ASSUME Inputs, NEW n \in DOMAIN survey.acqs
  PROVE  IsFiniteSet(BinsOf(survey.acqs[n])) /\ Cardinality(BinsOf(survey.acqs[n])) \in Nat
  <1>1. BinsOf(survey.acqs[n]) \subseteq BinRange
    BY AcqFacts DEF BinsOf
  <1>2. IsFiniteSet(BinRange)
    BY AnalysisAssumption
  <1> QED BY <1>1, <1>2, FewerIn

\* A section beyond its bounds stays beyond them.
LEMMA TooManyGrows ==
  ASSUME Inputs, NEW n \in DOMAIN survey.acqs, NEW G, NEW H, NEW C, NEW D, G \subseteq H, C \subseteq D,
         IsFiniteSet(H), IsFiniteSet(D), TooMany(n, G, C)
  PROVE  TooMany(n, H, D)
  <1> DEFINE b == Cardinality(BinsOf(survey.acqs[n]))
             x == Cardinality(C)
             y == Cardinality(D)
             u == Cardinality(G)
             v == Cardinality(H)
  <1>1. x \in Nat /\ y \in Nat /\ x <= y
    BY FewerIn
  <1>2. u \in Nat /\ v \in Nat /\ u <= v
    BY FewerIn
  <1>3. b \in Nat
    BY BinsCount
  <1>4. MaxGroups \in Nat /\ MaxCells \in Nat /\ RowLimit \in Nat
    BY AnalysisAssumption
  <1>5. \A Y, Z : TooMany(n, Y, Z) <=>
          \/ "time" \in query.kinds /\ (Cardinality(Y) > MaxGroups \/ \E g \in Y : g >= RowLimit)
          \/ "geographic" \in query.kinds /\ (Cardinality(Z) > MaxCells \/ Cardinality(Z) * b > RowLimit)
    BY Zenon DEF TooMany
  <1>6. \/ "time" \in query.kinds /\ (u > MaxGroups \/ \E g \in G : g >= RowLimit)
        \/ "geographic" \in query.kinds /\ (x > MaxCells \/ x * b > RowLimit)
    BY <1>5, Zenon
  <1>7. (\/ "time" \in query.kinds /\ (v > MaxGroups \/ \E g \in H : g >= RowLimit)
         \/ "geographic" \in query.kinds /\ (y > MaxCells \/ y * b > RowLimit)) => TooMany(n, H, D)
    BY <1>5, Zenon
  <1> HIDE DEF b, x, y, u, v
  <1>8. u > MaxGroups => v > MaxGroups
    BY <1>2, <1>4
  <1>9. x > MaxCells => y > MaxCells
    BY <1>1, <1>4
  <1>10. x * b > RowLimit => y * b > RowLimit
    <2> DEFINE i == x * b
               j == y * b
    <2>1. i <= j
      BY <1>1, <1>3, ProductGrows
    <2>2. i \in Nat /\ j \in Nat
      BY <1>1, <1>3, Product
    <2> HIDE DEF i, j
    <2>3. i > RowLimit => j > RowLimit
      BY <1>4, <2>1, <2>2
    <2> QED BY <2>3 DEF i, j
  <1>11. (\E g \in G : g >= RowLimit) => \E g \in H : g >= RowLimit
    OBVIOUS
  <1> QED BY <1>6, <1>7, <1>8, <1>9, <1>10, <1>11, Zenon

LEMMA FitsFirst == ASSUME Inputs, NEW n \in DOMAIN survey.acqs PROVE Fits(n, 1)
  <1>1. Before(1) = {}
    BY BeforeFirst
  <1>2. OfAcq(Before(1), n) = {}
    BY <1>1 DEF OfAcq
  <1>3. GroupsIn(OfAcq(Before(1), n)) = {} /\ FixesIn(OfAcq(Before(1), n)) = {}
    BY <1>2, EmptyCounts, Zenon
  <1>4. ~ TooMany(n, {}, {})
    <2> DEFINE b == Cardinality(BinsOf(survey.acqs[n]))
               z == Cardinality({})
    <2>1. b \in Nat /\ z = 0
      BY BinsCount, FS_EmptySet
    <2>2. MaxGroups \in Nat /\ MaxCells \in Nat /\ RowLimit \in Nat
      BY AnalysisAssumption
    <2>3. TooMany(n, {}, {}) <=>
          \/ "time" \in query.kinds /\ (z > MaxGroups \/ \E g \in {} : g >= RowLimit)
          \/ "geographic" \in query.kinds /\ (z > MaxCells \/ z * b > RowLimit)
      BY Zenon DEF TooMany
    <2>4. ~ \E g \in {} : g >= RowLimit
      OBVIOUS
    <2> HIDE DEF b, z
    <2>5. ~ (z > MaxGroups) /\ ~ (z > MaxCells)
      BY <2>1, <2>2
    <2>6. ~ (z * b > RowLimit)
      <3>1. z * b = 0
        BY <2>1
      <3> QED BY <2>2, <3>1
    <2> QED BY <2>3, <2>4, <2>5, <2>6, Zenon
  <1> QED BY <1>3, <1>4, Zenon DEF Fits

\* The bound tested before a tile is that of the tiles up to it.
LEMMA TileOverIs ==
  ASSUME Inputs, cursor \in Nat, cursor > 0, cursor <= Len(survey.tiles), section.acq \in Chosen,
         SectionIs(section, OfAcq(Before(cursor), section.acq)), Fits(section.acq, cursor)
  PROVE  TileOver(survey.tiles[cursor]) <=> ~ Fits(section.acq, cursor + 1)
  <1> DEFINE n == section.acq
             t == survey.tiles[cursor]
             w == Window(survey.acqs[n])
             clip == Meet(w, Whole(t))
             S == OfAcq(Before(cursor), n)
             T == OfAcq(Before(cursor + 1), n)
  <1>1. cursor \in DOMAIN survey.tiles
    BY TilesFacts
  <1>2. n \in DOMAIN survey.acqs /\ n \in Nat /\ BinsOf(survey.acqs[n]) # {}
    BY ChosenFacts
  <1>3. w \in Interval /\ clip \in Interval /\ (t.acq = n => CutsTo(t, clip)) /\ (t.acq # n => Duration(clip) = 0)
    BY <1>1, <1>2, WindowFits
  <1>4. Before(cursor + 1) = Before(cursor) \cup OfTile(cursor)
    BY BeforeGrows DEF Grown
  <1>5. \A m \in OfTile(cursor) : TileOf(m) = t
    BY DEF OfTile, TileOf
  <1>6. S \subseteq Measured /\ T \subseteq Measured
    BY DEF OfAcq, Before
  <1>7. Duration(clip) \in Nat
    BY <1>3, DurationIs
  <1>8. (t.acq # n \/ OfTile(cursor) = {}) => T = S
    BY <1>4, <1>5 DEF OfAcq
  <1>9. t.acq = n => T = S \cup OfTile(cursor) /\ Acq(t) = survey.acqs[n]
    BY <1>4, <1>5 DEF OfAcq, Acq
  <1>10. t = survey.tiles[cursor] /\ clip = Meet(w, Whole(t)) /\ w = Window(survey.acqs[n])
    OBVIOUS
  <1>11. TileOver(t) <=> /\ Duration(clip) > 0 /\ InRegion(t.fix)
                         /\ TooMany(n, section.groups \cup GroupsTouched(clip, w), CellsHeld(section) \cup {t.fix})
    BY Zenon DEF TileOver, SectionClip, SectionWindow
  <1>12. (Fits(n, cursor + 1) <=> ~ TooMany(n, GroupsIn(T), FixesIn(T))) /\ ~ TooMany(n, GroupsIn(S), FixesIn(S))
    BY Zenon DEF Fits
  <1>13. section.groups = GroupsIn(S) /\ CellsHeld(section) = FixesIn(S)
    <2>1. SectionIs(section, S)
      OBVIOUS
    <2> HIDE DEF S
    <2> QED BY <1>6, <2>1, HeldIs DEF SectionIs
  <1> HIDE DEF n, t, w, clip, S, T
  <1>14. CASE Duration(clip) > 0 /\ InRegion(t.fix)
    <2>1. t.acq = n /\ CutsTo(t, clip)
      BY <1>3, <1>14
    <2>2. cursor \in Counted
      BY <1>1, <1>2, <1>9, <1>10, <1>14, <2>1 DEF Counted
    <2>3. GroupsTouched(clip, w) = GroupsIn(OfTile(cursor))
      BY <1>2, <1>3, <1>10, <2>1, <2>2, TouchedIs
    <2>4. OfTile(cursor) # {}
      <3> SUFFICES ASSUME OfTile(cursor) = {} PROVE FALSE
        OBVIOUS
      <3> DEFINE X == Slice(cursor, DOMAIN t.frames, Always)
      <3>1. Cardinality(X) = Duration(clip)
        BY <1>3, <1>10, <2>1, <2>2, OfTileCount
      <3>2. X = {}
        BY DEF Slice, OfTile
      <3> HIDE DEF X
      <3>3. Cardinality(X) = 0
        BY <3>2, FS_EmptySet, Zenon
      <3> QED BY <1>7, <1>14, <3>1, <3>3
    <2>5. T = S \cup OfTile(cursor)
      BY <1>9, <2>1
    <2>6. GroupsIn(T) = GroupsIn(S) \cup GroupsIn(OfTile(cursor))
      BY <2>5 DEF GroupsIn
    <2>7. FixesIn(T) = FixesIn(S) \cup {t.fix}
      BY <1>5, <2>4, <2>5 DEF FixesIn
    <2>8. /\ section.groups \cup GroupsTouched(clip, w) = GroupsIn(T)
          /\ CellsHeld(section) \cup {t.fix} = FixesIn(T)
      BY <1>13, <2>3, <2>6, <2>7, Zenon
    <2>9. TileOver(t) <=> TooMany(n, GroupsIn(T), FixesIn(T))
      BY <1>11, <1>14, <2>8, Zenon
    <2> QED BY <1>12, <2>9, Zenon DEF n, t
  <1>15. CASE ~ (Duration(clip) > 0 /\ InRegion(t.fix))
    <2>1. Duration(clip) = 0 \/ cursor \notin Counted
      BY <1>7, <1>10, <1>15 DEF Counted
    <2>2. t.acq # n \/ OfTile(cursor) = {}
      BY <1>1, <1>3, <1>10, <2>1, OfTileEmpty
    <2>3. T = S
      BY <1>8, <2>2
    <2>4. ~ TileOver(t) /\ ~ TooMany(n, GroupsIn(T), FixesIn(T))
      BY <1>11, <1>12, <1>15, <2>3, Zenon
    <2> QED BY <1>12, <2>4, Zenon DEF n, t
  <1> QED BY <1>14, <1>15

\* A section that does not fit at some tile is beyond its bounds.
LEMMA UnfitIsOver ==
  ASSUME Inputs, NEW n \in Chosen, NEW r \in Nat, ~ Fits(n, r) PROVE SectionOver(n)
  <1> DEFINE S == OfAcq(Before(r), n)
             T == OfAcq(Measured, n)
  <1>1. S \subseteq T /\ T \subseteq Measured
    BY DEF OfAcq, Before
  <1>2. GroupsIn(S) \subseteq GroupsIn(T) /\ FixesIn(S) \subseteq FixesIn(T)
    <2> HIDE DEF S, T
    <2> QED BY <1>1 DEF GroupsIn, FixesIn
  <1>3. IsFiniteSet(GroupsIn(T)) /\ IsFiniteSet(FixesIn(T))
    BY <1>1, KeysFinite
  <1>4. TooMany(n, GroupsIn(S), FixesIn(S)) /\ n \in DOMAIN survey.acqs
    BY ChosenFacts DEF Fits
  <1>5. TooMany(n, GroupsIn(T), FixesIn(T))
    <2> DEFINE G == GroupsIn(S)
               H == GroupsIn(T)
               C == FixesIn(S)
               D == FixesIn(T)
    <2>1. G \subseteq H /\ C \subseteq D /\ IsFiniteSet(H) /\ IsFiniteSet(D) /\ TooMany(n, G, C)
      BY <1>2, <1>3, <1>4
    <2> HIDE DEF G, H, C, D
    <2>2. TooMany(n, H, D)
      BY <1>4, <2>1, TooManyGrows
    <2> QED BY <2>2 DEF H, D
  <1> QED BY <1>5, Zenon DEF SectionOver

LEMMA FitIsWithin ==
  ASSUME Inputs, NEW n \in Chosen, NEW r \in Nat, r > Len(survey.tiles), Fits(n, r),
         ~ (query.kinds = {"time"} /\ LateGroup(n))
  PROVE  ~ SectionOver(n)
  <1>1. Before(r) = Measured
    BY BeforeLast
  <1> QED BY <1>1, Zenon DEF Fits, SectionOver

-----------------------------------------------------------------------------
(* The sections add up.                                                    *)
SumsAre(secs, S) ==
  /\ Total([i \in DOMAIN secs |-> secs[i].times.observed]) = Cardinality(S)
  /\ Total([i \in DOMAIN secs |-> secs[i].times.busy]) = Cardinality(BusyIn(S))
  /\ Total([i \in DOMAIN secs |-> secs[i].times.outside]) = Cardinality(BusyOutside(S))
  /\ \A b \in BinRange :
       Total([i \in DOMAIN secs |-> secs[i].bins[b].busy]) = Cardinality(BinBusy(S, b))
  /\ \A c \in Cells \cup {NoFix} :
       Total([i \in DOMAIN secs |-> secs[i].cells[c]]) = Cardinality(WithFix(S, c))

\* A column of the sections grows by the entry of the appended one.
LEMMA ColumnGrows ==
  ASSUME NEW n \in Nat, NEW F \in [1..n -> Nat], NEW G \in [1..(n + 1) -> Nat],
         \A i \in 1..n : G[i] = F[i]
  PROVE  Total(G) = Total(F) + G[n + 1]
  <1>1. n + 1 \in Nat
    OBVIOUS
  <1>2. F \in Seq(Nat) /\ Len(F) = n
    OBVIOUS
  <1>3. G \in Seq(Nat) /\ Len(G) = n + 1
    BY <1>1
  <1>4. \A i \in 1..Len(F) : G[i] = F[i]
    BY <1>2
  <1> QED BY <1>2, <1>3, <1>4, TotalExtended

\* What two disjoint sets of measurements count adds up.
Parts(S, Q, T) == S \subseteq Measured /\ Q \subseteq Measured /\ S \cap Q = {} /\ T = S \cup Q

LEMMA CountsAdd ==
  ASSUME Inputs, NEW S, NEW Q, NEW T, Parts(S, Q, T)
  PROVE  /\ Cardinality(T) = Cardinality(S) + Cardinality(Q)
         /\ Cardinality(BusyIn(T)) = Cardinality(BusyIn(S)) + Cardinality(BusyIn(Q))
         /\ Cardinality(BusyOutside(T)) = Cardinality(BusyOutside(S)) + Cardinality(BusyOutside(Q))
         /\ \A b : Cardinality(BinBusy(T, b)) = Cardinality(BinBusy(S, b)) + Cardinality(BinBusy(Q, b))
         /\ \A c : Cardinality(WithFix(T, c)) = Cardinality(WithFix(S, c)) + Cardinality(WithFix(Q, c))
  <1>1. S \cup Q = T /\ S \cap Q = {} /\ S \subseteq Measured /\ Q \subseteq Measured
    BY DEF Parts
  <1>2. IsFiniteSet(T) /\ \A X \in SUBSET T : IsFiniteSet(X)
    BY <1>1, MeasuredFinite, FS_Subset
  <1>3. BusyIn(S) \cup BusyIn(Q) = BusyIn(T) /\ BusyIn(S) \cap BusyIn(Q) = {} /\ BusyIn(T) \in SUBSET T
    BY <1>1 DEF BusyIn
  <1>4. /\ BusyOutside(S) \cup BusyOutside(Q) = BusyOutside(T) /\ BusyOutside(S) \cap BusyOutside(Q) = {}
        /\ BusyOutside(T) \in SUBSET T
    BY <1>1 DEF BusyOutside
  <1>5. \A b : /\ BinBusy(S, b) \cup BinBusy(Q, b) = BinBusy(T, b) /\ BinBusy(S, b) \cap BinBusy(Q, b) = {}
               /\ BinBusy(T, b) \in SUBSET T
    BY <1>1 DEF BinBusy, WithBin
  <1>6. \A c : /\ WithFix(S, c) \cup WithFix(Q, c) = WithFix(T, c) /\ WithFix(S, c) \cap WithFix(Q, c) = {}
               /\ WithFix(T, c) \in SUBSET T
    BY <1>1 DEF WithFix
  <1>7. Cardinality(T) = Cardinality(S) + Cardinality(Q)
    BY <1>2, <1>1, CountOfTwo
  <1>8. Cardinality(BusyIn(T)) = Cardinality(BusyIn(S)) + Cardinality(BusyIn(Q))
    BY <1>2, <1>3, CountOfTwo
  <1>9. Cardinality(BusyOutside(T)) = Cardinality(BusyOutside(S)) + Cardinality(BusyOutside(Q))
    BY <1>2, <1>4, CountOfTwo
  <1>10. ASSUME NEW b PROVE Cardinality(BinBusy(T, b)) = Cardinality(BinBusy(S, b)) + Cardinality(BinBusy(Q, b))
    BY <1>2, <1>5, CountOfTwo
  <1>11. ASSUME NEW c PROVE Cardinality(WithFix(T, c)) = Cardinality(WithFix(S, c)) + Cardinality(WithFix(Q, c))
    BY <1>2, <1>6, CountOfTwo
  <1> QED BY <1>1, <1>7, <1>8, <1>9, <1>10, <1>11

LEMMA CellsOf ==
  ASSUME NEW sec \in SectionType
  PROVE  /\ sec.times.observed \in Nat /\ sec.times.busy \in Nat /\ sec.times.outside \in Nat
         /\ \A b \in BinRange : sec.bins[b].busy \in Nat
         /\ \A c \in Cells \cup {NoFix} : sec.cells[c] \in Nat
  <1>1. /\ sec.times \in TimeRecord /\ sec.bins \in [BinRange -> TimeRecord]
        /\ sec.cells \in [Cells \cup {NoFix} -> Nat]
    BY SectionRecord
  <1>2. \A x \in TimeRecord : x.observed \in Nat /\ x.busy \in Nat /\ x.outside \in Nat
    BY DEF TimeRecord
  <1>3. \A b \in BinRange : sec.bins[b] \in TimeRecord
    BY <1>1
  <1> QED BY <1>1, <1>2, <1>3

LEMMA SectionCounts ==
  ASSUME NEW sec, NEW Q, SectionIs(sec, Q)
  PROVE  /\ sec.times.observed = Cardinality(Q) /\ sec.times.busy = Cardinality(BusyIn(Q))
         /\ sec.times.outside = Cardinality(BusyOutside(Q))
         /\ \A b \in BinRange : sec.bins[b].busy = Cardinality(BinBusy(Q, b))
         /\ \A c \in Cells \cup {NoFix} : sec.cells[c] = Cardinality(WithFix(Q, c))
  <1>1. TimesOf(Q).observed = Cardinality(Q) /\ TimesOf(Q).busy = Cardinality(BusyIn(Q))
        /\ TimesOf(Q).outside = Cardinality(BusyOutside(Q))
    BY DEF TimesOf
  <1>2. \A b : BinTimes(Q, b).busy = Cardinality(BinBusy(Q, b))
    BY DEF BinTimes
  <1> QED BY <1>1, <1>2 DEF SectionIs

LEMMA SumsAdd ==
  ASSUME Inputs, NEW S, NEW Q, S \subseteq Measured, Q \subseteq Measured, S \cap Q = {},
         NEW secs \in Seq(SectionType), NEW sec \in SectionType, SumsAre(secs, S), SectionIs(sec, Q)
  PROVE  SumsAre(Append(secs, sec), S \cup Q)
  <1> DEFINE more == Append(secs, sec)
             n == Len(secs)
             F1 == [i \in DOMAIN secs |-> secs[i].times.observed]
             G1 == [i \in DOMAIN more |-> more[i].times.observed]
             F2 == [i \in DOMAIN secs |-> secs[i].times.busy]
             G2 == [i \in DOMAIN more |-> more[i].times.busy]
             F3 == [i \in DOMAIN secs |-> secs[i].times.outside]
             G3 == [i \in DOMAIN more |-> more[i].times.outside]
             F4(b) == [i \in DOMAIN secs |-> secs[i].bins[b].busy]
             G4(b) == [i \in DOMAIN more |-> more[i].bins[b].busy]
             F5(c) == [i \in DOMAIN secs |-> secs[i].cells[c]]
             G5(c) == [i \in DOMAIN more |-> more[i].cells[c]]
  <1>1. /\ n \in Nat /\ DOMAIN secs = 1..n /\ DOMAIN more = 1..(n + 1) /\ more[n + 1] = sec
        /\ \A i \in 1..n : i \in 1..(n + 1) /\ more[i] = secs[i] /\ secs[i] \in SectionType
    OBVIOUS
  <1>2. /\ n + 1 \in 1..(n + 1) /\ more = Append(secs, sec)
        /\ \A i \in 1..(n + 1) : more[i] \in SectionType
    OBVIOUS
  <1> HIDE DEF more, n
  <1>3. Total(G1) = Total(F1) + sec.times.observed
    <2>1. F1 \in [1..n -> Nat] /\ G1 \in [1..(n + 1) -> Nat]
      BY <1>1, <1>2, CellsOf
    <2>2. G1[n + 1] = sec.times.observed /\ \A i \in 1..n : G1[i] = F1[i]
      BY <1>1, <1>2
    <2> HIDE DEF F1, G1
    <2> QED BY <1>1, <2>1, <2>2, ColumnGrows
  <1>4. Total(G2) = Total(F2) + sec.times.busy
    <2>1. F2 \in [1..n -> Nat] /\ G2 \in [1..(n + 1) -> Nat]
      BY <1>1, <1>2, CellsOf
    <2>2. G2[n + 1] = sec.times.busy /\ \A i \in 1..n : G2[i] = F2[i]
      BY <1>1, <1>2
    <2> HIDE DEF F2, G2
    <2> QED BY <1>1, <2>1, <2>2, ColumnGrows
  <1>5. Total(G3) = Total(F3) + sec.times.outside
    <2>1. F3 \in [1..n -> Nat] /\ G3 \in [1..(n + 1) -> Nat]
      BY <1>1, <1>2, CellsOf
    <2>2. G3[n + 1] = sec.times.outside /\ \A i \in 1..n : G3[i] = F3[i]
      BY <1>1, <1>2
    <2> HIDE DEF F3, G3
    <2> QED BY <1>1, <2>1, <2>2, ColumnGrows
  <1>6. ASSUME NEW b \in BinRange PROVE Total(G4(b)) = Total(F4(b)) + sec.bins[b].busy
    <2> DEFINE F == F4(b)
               G == G4(b)
    <2>1. F \in [1..n -> Nat] /\ G \in [1..(n + 1) -> Nat]
      BY <1>1, <1>2, CellsOf
    <2>2. G[n + 1] = sec.bins[b].busy /\ \A i \in 1..n : G[i] = F[i]
      BY <1>1, <1>2
    <2>4. F = F4(b) /\ G = G4(b)
      OBVIOUS
    <2> HIDE DEF F, G
    <2>5. Total(G) = Total(F) + sec.bins[b].busy
      BY <1>1, <2>1, <2>2, ColumnGrows
    <2> HIDE DEF F4, G4
    <2> QED BY <2>4, <2>5
  <1>7. ASSUME NEW c \in Cells \cup {NoFix} PROVE Total(G5(c)) = Total(F5(c)) + sec.cells[c]
    <2> DEFINE F == F5(c)
               G == G5(c)
    <2>1. F \in [1..n -> Nat] /\ G \in [1..(n + 1) -> Nat]
      BY <1>1, <1>2, CellsOf
    <2>2. G[n + 1] = sec.cells[c] /\ \A i \in 1..n : G[i] = F[i]
      BY <1>1, <1>2
    <2>4. F = F5(c) /\ G = G5(c)
      OBVIOUS
    <2> HIDE DEF F, G
    <2>5. Total(G) = Total(F) + sec.cells[c]
      BY <1>1, <2>1, <2>2, ColumnGrows
    <2> HIDE DEF F5, G5
    <2> QED BY <2>4, <2>5
  <1>8. /\ Total(F1) = Cardinality(S) /\ Total(F2) = Cardinality(BusyIn(S)) /\ Total(F3) = Cardinality(BusyOutside(S))
        /\ \A b \in BinRange : Total(F4(b)) = Cardinality(BinBusy(S, b))
        /\ \A c \in Cells \cup {NoFix} : Total(F5(c)) = Cardinality(WithFix(S, c))
    BY Zenon DEF SumsAre
  <1> DEFINE T == S \cup Q
  <1>9. (/\ Total(G1) = Cardinality(T) /\ Total(G2) = Cardinality(BusyIn(T)) /\ Total(G3) = Cardinality(BusyOutside(T))
         /\ \A b \in BinRange : Total(G4(b)) = Cardinality(BinBusy(T, b))
         /\ \A c \in Cells \cup {NoFix} : Total(G5(c)) = Cardinality(WithFix(T, c))) => SumsAre(more, T)
    BY Zenon DEF SumsAre
  <1> HIDE DEF F1, F2, F3, F4, F5, G1, G2, G3, G4, G5, T
  <1>10. /\ Cardinality(T) = Cardinality(S) + Cardinality(Q)
        /\ Cardinality(BusyIn(T)) = Cardinality(BusyIn(S)) + Cardinality(BusyIn(Q))
        /\ Cardinality(BusyOutside(T)) = Cardinality(BusyOutside(S)) + Cardinality(BusyOutside(Q))
        /\ \A b : Cardinality(BinBusy(T, b)) = Cardinality(BinBusy(S, b)) + Cardinality(BinBusy(Q, b))
        /\ \A c : Cardinality(WithFix(T, c)) = Cardinality(WithFix(S, c)) + Cardinality(WithFix(Q, c))
    <2>1. Parts(S, Q, T)
      BY DEF T, Parts
    <2> QED BY <2>1, CountsAdd
  <1>11. SumsAre(more, T)
    BY <1>3, <1>4, <1>5, <1>6, <1>7, <1>8, <1>9, <1>10, SectionCounts
  <1> QED BY <1>2, <1>11 DEF T

\* The measurements of the acquisitions before n.
Earlier(n) == {m \in Measured : TileOf(m).acq < n}

LEMMA EmptySums ==
  SumsAre(<<>>, {})
  <1>1. ASSUME NEW F, F = [i \in {} |-> F[i]] PROVE Total(F) = 0
    <2>1. F \in Seq(Nat) /\ Len(F) = 0
      BY <1>1
    <2> QED BY <2>1, TotalOfNothing
  <1>2. DOMAIN <<>> = {}
    OBVIOUS
  <1> QED BY <1>1, <1>2, EmptyCounts DEF SumsAre

\* A new section: its acquisition is the next one chosen.
LEMMA BlankSection ==
  ASSUME NEW n \in Nat, NEW sec, NEW B, NEW C, NEW z, z = 0,
         B = [b \in BinRange |-> NoTime], C = [c \in Cells \cup {NoFix} |-> 0],
         sec = [times |-> NoTime, bins |-> B, cells |-> C, groups |-> {}, rejected |-> z, gaps |-> z, acq |-> n]
  PROVE  sec \in SectionType /\ sec.acq = n /\ SectionIs(sec, {})
  <1>1. NoTime \in TimeRecord
    BY DEF NoTime, TimeRecord
  <1>2. B \in [BinRange -> TimeRecord] /\ C \in [Cells \cup {NoFix} -> Nat] /\ z \in Nat
    BY <1>1
  <1>3. (\A b \in BinRange : B[b] = NoTime) /\ \A c \in Cells \cup {NoFix} : C[c] = 0
    OBVIOUS
  <1>4. /\ sec \in SectionType /\ sec.times = NoTime /\ sec.bins = B /\ sec.cells = C /\ sec.groups = {}
        /\ sec.acq = n
    <2>1. {} \in SUBSET Int
      OBVIOUS
    <2> QED BY <1>1, <1>2, <2>1, SectionFields
  <1> QED BY <1>3, <1>4, EmptyCounts DEF SectionIs

LEMMA NewSection ==
  ASSUME NEW n \in Nat, NEW sec, sec = [EmptySection EXCEPT !.acq = n]
  PROVE  sec \in SectionType /\ sec.acq = n /\ SectionIs(sec, {})
  <1> DEFINE B == [b \in BinRange |-> NoTime]
             C == [c \in Cells \cup {NoFix} |-> 0]
  <1>1. sec = [times |-> NoTime, bins |-> B, cells |-> C, groups |-> {}, rejected |-> 0, gaps |-> 0, acq |-> n]
    BY DEF EmptySection
  <1> QED BY <1>1, BlankSection, Zenon

LEMMA NextIs ==
  ASSUME Inputs, NEW n \in Nat, \E k \in Chosen : k > n
  PROVE  /\ NextAcq(n) \in Chosen /\ NextAcq(n) \in Nat /\ NextAcq(n) > n
         /\ \A k \in Chosen : k > n => NextAcq(n) <= k
  <1> DEFINE S == {k \in Chosen : k > n}
  <1>1. S \subseteq Nat /\ S # {}
    BY ChosenFacts
  <1>2. NextAcq(n) = Min(S)
    BY DEF NextAcq
  <1>3. \A k \in Chosen : k > n => k \in S
    OBVIOUS
  <1>4. \A k \in S : k \in Chosen /\ k > n
    OBVIOUS
  <1> HIDE DEF S
  <1>5. Min(S) \in S /\ \A x \in S : Min(S) <= x
    BY <1>1, MinIsLeast
  <1> QED BY <1>1, <1>2, <1>3, <1>4, <1>5

\* The sections of the acquisitions up to n are those before the next.
LEMMA EarlierGrows ==
  ASSUME Inputs, NEW n \in Nat
  PROVE  /\ Earlier(n) \subseteq Measured /\ OfAcq(Measured, n) \subseteq Measured
         /\ Earlier(n) \cap OfAcq(Measured, n) = {}
         /\ (\E k \in Chosen : k > n) => Earlier(NextAcq(n)) = Earlier(n) \cup OfAcq(Measured, n)
         /\ ~ (\E k \in Chosen : k > n) => Measured = Earlier(n) \cup OfAcq(Measured, n)
  <1>1. \A m \in Measured : TileOf(m).acq \in Chosen /\ TileOf(m).acq \in Nat
    BY MeasuredChosen
  <1>2. Earlier(n) \subseteq Measured /\ OfAcq(Measured, n) \subseteq Measured
    BY DEF Earlier, OfAcq
  <1>3. Earlier(n) \cap OfAcq(Measured, n) = {}
    BY <1>1 DEF Earlier, OfAcq
  <1>4. ASSUME \E k \in Chosen : k > n PROVE Earlier(NextAcq(n)) = Earlier(n) \cup OfAcq(Measured, n)
    <2> DEFINE x == NextAcq(n)
    <2>1. x \in Nat /\ x > n /\ \A k \in Chosen : k > n => x <= k
      BY <1>4, NextIs
    <2> HIDE DEF x
    <2>2. \A m \in Measured : TileOf(m).acq < x <=> (TileOf(m).acq < n \/ TileOf(m).acq = n)
      BY <1>1, <2>1
    <2>3. Earlier(x) = Earlier(n) \cup OfAcq(Measured, n)
      BY <2>2 DEF Earlier, OfAcq
    <2> QED BY <2>3 DEF x
  <1>5. ASSUME ~ \E k \in Chosen : k > n PROVE Measured = Earlier(n) \cup OfAcq(Measured, n)
    <2>1. \A m \in Measured : TileOf(m).acq < n \/ TileOf(m).acq = n
      BY <1>1, <1>5
    <2> QED BY <2>1 DEF Earlier, OfAcq
  <1> QED BY <1>2, <1>3, <1>4, <1>5

LEMMA EarlierFirst ==
  ASSUME Inputs
  PROVE  /\ Chosen = {} => Measured = {}
         /\ Chosen # {} => NextAcq(0) \in Chosen /\ Earlier(NextAcq(0)) = {}
  <1>1. \A m \in Measured : TileOf(m).acq \in Chosen
    BY MeasuredChosen
  <1>2. ASSUME Chosen # {} PROVE NextAcq(0) \in Chosen /\ Earlier(NextAcq(0)) = {}
    <2>1. \A k \in Chosen : k \in Nat /\ k > 0
      BY ChosenFacts
    <2>2. \E k \in Chosen : k > 0
      BY <1>2, <2>1
    <2>3. NextAcq(0) \in Chosen /\ NextAcq(0) \in Nat /\ \A k \in Chosen : NextAcq(0) <= k
      BY <2>1, <2>2, NextIs
    <2>4. \A m \in Measured : ~ TileOf(m).acq < NextAcq(0)
      BY <1>1, <2>1, <2>3
    <2> QED BY <2>3, <2>4 DEF Earlier
  <1> QED BY <1>1, <1>2

LEMMA GapTimeType ==
  ASSUME Inputs, NEW w \in Interval PROVE GapTime(w) \in Nat
  <1> DEFINE n == Len(survey.gaps)
             F == [i \in DOMAIN survey.gaps |-> Duration(Meet(w, survey.gaps[i]))]
  <1>1. survey.gaps \in Seq(Ticks \X Ticks) /\ Forever \in Nat
    BY AnalysisAssumption, Zenon DEF Inputs
  <1>2. n \in Nat /\ DOMAIN survey.gaps = 1..n /\ \A i \in 1..n : survey.gaps[i] \in Ticks \X Ticks
    BY <1>1
  <1>3. Ticks \X Ticks \subseteq Interval
    BY <1>1 DEF Ticks, Interval
  <1>4. \A i \in 1..n : Duration(Meet(w, survey.gaps[i])) \in Nat
    <2> SUFFICES ASSUME NEW i \in 1..n PROVE Duration(Meet(w, survey.gaps[i])) \in Nat
      OBVIOUS
    <2> DEFINE g == survey.gaps[i]
    <2>1. g \in Interval
      BY <1>2, <1>3
    <2> HIDE DEF g
    <2>2. Meet(w, g) \in Interval
      BY <2>1, MeetIs
    <2>3. Duration(Meet(w, g)) \in Nat
      BY <2>2, DurationIs
    <2> QED BY <2>3 DEF g
  <1>5. F \in [1..n -> Nat]
    BY <1>2, <1>4
  <1>6. F \in Seq(Nat)
    BY <1>2, <1>5
  <1>7. GapTime(w) = Total(F)
    BY DEF GapTime
  <1> HIDE DEF F
  <1> QED BY <1>6, <1>7, TotalType

LEMMA SectionWithGaps ==
  ASSUME NEW sec \in SectionType, NEW g \in Nat, NEW S, SectionIs(sec, S), NEW new, new = [sec EXCEPT !.gaps = g]
  PROVE  new \in SectionType /\ SectionIs(new, S)
  <1> DEFINE d == sec.rejected
             f == sec.acq
             x == sec.times
             B == sec.bins
             C == sec.cells
             G == sec.groups
  <1>1. new = [times |-> x, bins |-> B, cells |-> C, groups |-> G, rejected |-> d, gaps |-> g, acq |-> f]
    BY SectionRecord
  <1>2. /\ x \in TimeRecord /\ B \in [BinRange -> TimeRecord] /\ C \in [Cells \cup {NoFix} -> Nat]
        /\ G \in SUBSET Int /\ d \in Nat /\ f \in Nat
    BY SectionRecord
  <1>3. x = sec.times /\ B = sec.bins /\ C = sec.cells /\ G = sec.groups
    OBVIOUS
  <1> HIDE DEF x, B, C, G, d, f
  <1>4. new \in SectionType /\ new.times = x /\ new.bins = B /\ new.cells = C /\ new.groups = G
    <2> DEFINE v == [times |-> x, bins |-> B, cells |-> C, groups |-> G, rejected |-> d, gaps |-> g, acq |-> f]
    <2>1. v \in SectionType /\ v.times = x /\ v.bins = B /\ v.cells = C /\ v.groups = G
      BY <1>2 DEF SectionType
    <2> HIDE DEF v
    <2>2. new = v
      BY <1>1 DEF v
    <2> QED BY <2>1, <2>2
  <1>5. /\ new.times = sec.times /\ new.bins = sec.bins /\ new.cells = sec.cells /\ new.groups = sec.groups
    BY <1>3, <1>4
  <1> QED BY <1>4, <1>5, Zenon DEF SectionIs

LEMMA EmptySectionFacts == EmptySection \in SectionType /\ EmptySection.acq = 0
  <1> DEFINE B == [b \in BinRange |-> NoTime]
             C == [c \in Cells \cup {NoFix} |-> 0]
  <1>1. EmptySection = [times |-> NoTime, bins |-> B, cells |-> C, groups |-> {}, rejected |-> 0, gaps |-> 0, acq |-> 0]
    BY DEF EmptySection
  <1> QED BY <1>1, BlankSection, Zenon

LEMMA EndSectionAdds ==
  ASSUME Inputs, cursor \in Nat, EndSection, section \in SectionType, section.acq \in Chosen,
         sections \in Seq(SectionType),
         SectionIs(section, OfAcq(Before(cursor), section.acq)), SumsAre(sections, Earlier(section.acq))
  PROVE  /\ sections' \in Seq(SectionType) /\ section' \in SectionType
         /\ \/ /\ pass' = "report" /\ section'.acq \in Chosen /\ section'.acq # 0
               /\ SectionIs(section', {}) /\ SumsAre(sections', Earlier(section'.acq))
            \/ pass' = "done" /\ section'.acq = 0 /\ SumsAre(sections', Measured)
  <1> DEFINE n == section.acq
             w == Window(survey.acqs[n])
             last == [section EXCEPT !.gaps = GapTime(w)]
             more == \E k \in Chosen : k > n
             new == [EmptySection EXCEPT !.acq = NextAcq(n)]
  <1>1. /\ pass = "report" /\ cursor > Len(survey.tiles) /\ sections' = Append(sections, last)
        /\ section' = IF more THEN new ELSE EmptySection
        /\ pass' = IF more THEN pass ELSE "done"
    BY Zenon DEF EndSection, SectionWindow
  <1>2. n \in DOMAIN survey.acqs /\ n \in Nat
    BY ChosenFacts
  <1>3. GapTime(w) \in Nat
    <2>1. w \in Interval
      BY <1>2, WindowIs
    <2> HIDE DEF w
    <2> QED BY <2>1, GapTimeType
  <1>4. Before(cursor) = Measured
    BY <1>1, BeforeLast
  <1>5. SectionIs(section, OfAcq(Measured, n))
    BY <1>4
  <1>6. last = [section EXCEPT !.gaps = GapTime(w)]
    OBVIOUS
  <1> HIDE DEF last, w, n
  <1>7. last \in SectionType /\ SectionIs(last, OfAcq(Measured, n))
    BY <1>3, <1>5, <1>6, SectionWithGaps
  <1>8. /\ Earlier(n) \subseteq Measured /\ OfAcq(Measured, n) \subseteq Measured
        /\ Earlier(n) \cap OfAcq(Measured, n) = {}
        /\ more => Earlier(NextAcq(n)) = Earlier(n) \cup OfAcq(Measured, n)
        /\ ~ more => Measured = Earlier(n) \cup OfAcq(Measured, n)
    BY <1>2, EarlierGrows
  <1>9. SumsAre(sections, Earlier(n))
    BY DEF n
  <1>10. SumsAre(sections', Earlier(n) \cup OfAcq(Measured, n))
    <2> DEFINE S == Earlier(n)
               Q == OfAcq(Measured, n)
    <2>1. S \subseteq Measured /\ Q \subseteq Measured /\ S \cap Q = {} /\ SumsAre(sections, S) /\ SectionIs(last, Q)
      BY <1>7, <1>8, <1>9
    <2> HIDE DEF S, Q
    <2>2. SumsAre(Append(sections, last), S \cup Q)
      BY <1>7, <2>1, SumsAdd
    <2> QED BY <1>1, <2>2 DEF S, Q
  <1>11. sections' \in Seq(SectionType)
    BY <1>1, <1>7
  <1>12. CASE more
    <2>1. NextAcq(n) \in Chosen /\ NextAcq(n) \in Nat /\ NextAcq(n) > n
      BY <1>2, <1>12, NextIs
    <2>2. new \in SectionType /\ new.acq = NextAcq(n) /\ SectionIs(new, {})
      BY <2>1, NewSection
    <2> HIDE DEF new, more
    <2>3. section' = new /\ pass' = "report"
      BY <1>1, <1>12
    <2>4. SumsAre(sections', Earlier(NextAcq(n)))
      BY <1>8, <1>10, <1>12
    <2>5. NextAcq(n) # 0
      BY <1>2, <2>1
    <2> QED BY <1>11, <2>1, <2>2, <2>3, <2>4, <2>5
  <1>13. CASE ~ more
    <2> HIDE DEF new, more
    <2>1. section' = EmptySection /\ pass' = "done"
      BY <1>1, <1>13
    <2>2. SumsAre(sections', Measured)
      BY <1>8, <1>10, <1>13
    <2> QED BY <1>11, <2>1, <2>2, EmptySectionFacts
  <1> QED BY <1>12, <1>13

-----------------------------------------------------------------------------
(* The rows of the report.                                                 *)

RowsHere(n) == RowsOf(n, FixesIn(OfAcq(Measured, n)))

LEMMA RowsType == ASSUME Inputs, NEW n \in DOMAIN survey.acqs PROVE RowsHere(n) \in Nat
  <1> DEFINE C == FixesIn(OfAcq(Measured, n))
             b == Cardinality(BinsOf(survey.acqs[n]))
             g == Cardinality(GroupsSpanned(n))
             x == Cardinality(C)
  <1>1. b \in Nat
    BY BinsCount
  <1>2. x \in Nat
    <2>1. OfAcq(Measured, n) \subseteq Measured
      BY DEF OfAcq
    <2>2. IsFiniteSet(C)
      BY <2>1, KeysFinite
    <2> HIDE DEF C
    <2> QED BY <2>2, FS_CardinalityType
  <1>3. g \in Nat
    <2>1. GroupsSpanned(n) \subseteq 0..Forever
      BY DEF GroupsSpanned
    <2>2. IsFiniteSet(0..Forever)
      BY QueryFacts, FS_Interval
    <2> QED BY <2>1, <2>2, FewerIn
  <1>4. RowsHere(n) = IF query.kinds = {"time"} THEN g
                      ELSE IF query.kinds = {"frequency"} THEN b
                      ELSE IF query.kinds = {"geographic"} THEN x * b ELSE 0
    BY Zenon DEF RowsHere, RowsOf
  <1> HIDE DEF g, b, x
  <1>5. x * b \in Nat
    BY <1>1, <1>2, Product
  <1> QED BY <1>1, <1>3, <1>4, <1>5

AcqCount == Len(survey.acqs)

LEMMA RowsFunction ==
  ASSUME Inputs, NEW k
  PROVE  /\ AcqCount \in Nat /\ DOMAIN survey.acqs = 1..AcqCount
         /\ \E F \in [1..AcqCount -> Nat] :
              /\ RowsBefore(k) = Total(F)
              /\ \A n \in 1..AcqCount : F[n] = IF n \in Chosen /\ n < k THEN RowsHere(n) ELSE 0
  <1>1. AcqCount \in Nat /\ DOMAIN survey.acqs = 1..AcqCount
    <2>1. AcqsOk(survey)
      BY AnalysisAssumption, Zenon DEF Inputs
    <2> DEFINE A == [from : Ticks, to : Ticks, bins : SUBSET BinRange, guard : SUBSET BinRange]
               s == survey.acqs
    <2>2. s \in Seq(A)
      BY <2>1 DEF AcqsOk
    <2> HIDE DEF A, s
    <2>3. Len(s) \in Nat /\ DOMAIN s = 1..Len(s)
      BY <2>2
    <2> QED BY <2>3 DEF s, AcqCount
  <1> DEFINE F == [n \in DOMAIN survey.acqs |-> IF n \in Chosen /\ n < k THEN RowsHere(n) ELSE 0]
  <1>2. RowsBefore(k) = Total(F)
    BY Zenon DEF RowsBefore, RowsHere
  <1>3. ASSUME NEW n \in 1..AcqCount
        PROVE  F[n] = (IF n \in Chosen /\ n < k THEN RowsHere(n) ELSE 0) /\ F[n] \in Nat
    <2>1. n \in DOMAIN survey.acqs
      BY <1>1
    <2>2. F[n] = (IF n \in Chosen /\ n < k THEN RowsHere(n) ELSE 0) /\ RowsHere(n) \in Nat
      BY <2>1, RowsType
    <2> HIDE DEF F
    <2> QED BY <2>2
  <1>4. F = [n \in 1..AcqCount |-> F[n]]
    BY <1>1
  <1> HIDE DEF F
  <1>5. F \in [1..AcqCount -> Nat]
    BY <1>3, <1>4
  <1> QED BY <1>1, <1>2, <1>3, <1>5

\* What the acquisitions from a to b add to the rows, pointwise.
LEMMA RowsGrow ==
  ASSUME Inputs, NEW a \in Nat, NEW b \in Nat, a <= b
  PROVE  RowsBefore(a) \in Nat /\ RowsBefore(b) \in Nat /\ RowsBefore(a) <= RowsBefore(b)
  <1> DEFINE N == AcqCount
  <1>1. N \in Nat
    BY RowsFunction
  <1>2. PICK F \in [1..N -> Nat] :
              /\ RowsBefore(a) = Total(F)
              /\ \A n \in 1..N : F[n] = IF n \in Chosen /\ n < a THEN RowsHere(n) ELSE 0
    BY RowsFunction
  <1>3. PICK G \in [1..N -> Nat] :
              /\ RowsBefore(b) = Total(G)
              /\ \A n \in 1..N : G[n] = IF n \in Chosen /\ n < b THEN RowsHere(n) ELSE 0
    BY RowsFunction
  <1> HIDE DEF N
  <1> DEFINE D == [n \in 1..N |-> G[n] - F[n]]
  <1>4. ASSUME NEW n \in 1..N PROVE D[n] \in Nat /\ G[n] = F[n] + D[n]
    <2>1. F[n] \in Nat /\ G[n] \in Nat
      OBVIOUS
    <2>2. F[n] = G[n] \/ F[n] = 0
      <3>1. n \in Nat
        BY <1>1
      <3>2. n < a => n < b
        BY <3>1
      <3> QED BY <1>2, <1>3, <3>2
    <2>3. D[n] = G[n] - F[n]
      OBVIOUS
    <2> HIDE DEF D
    <2>4. G[n] - F[n] \in Nat /\ G[n] = F[n] + (G[n] - F[n])
      BY <2>1, <2>2, Rest
    <2> QED BY <2>3, <2>4, Zenon
  <1>5. D = [n \in 1..N |-> D[n]]
    OBVIOUS
  <1> HIDE DEF D
  <1>6. D \in [1..N -> Nat]
    BY <1>4, <1>5
  <1>7. Total(G) = Total(F) + Total(D) /\ Total(F) \in Nat /\ Total(D) \in Nat
    <2>1. \A n \in 1..N : G[n] = F[n] + D[n]
      BY <1>4
    <2> QED BY <1>1, <1>6, <2>1, TotalSum
  <1> QED BY <1>2, <1>3, <1>7

\* The rows of n come on top of those before it.
LEMMA RowsAdd ==
  ASSUME Inputs, NEW n \in Chosen, NEW b \in Nat, n < b, \A k \in Chosen : n < k => b <= k
  PROVE  RowsBefore(b) = RowsBefore(n) + RowsHere(n)
  <1> DEFINE N == AcqCount
  <1>1. N \in Nat /\ n \in 1..N /\ n \in Nat /\ RowsHere(n) \in Nat
    BY RowsFunction, ChosenFacts, RowsType
  <1>2. PICK F \in [1..N -> Nat] :
              /\ RowsBefore(n) = Total(F)
              /\ \A k \in 1..N : F[k] = IF k \in Chosen /\ k < n THEN RowsHere(k) ELSE 0
    BY RowsFunction
  <1>3. PICK G \in [1..N -> Nat] :
              /\ RowsBefore(b) = Total(G)
              /\ \A k \in 1..N : G[k] = IF k \in Chosen /\ k < b THEN RowsHere(k) ELSE 0
    BY RowsFunction
  <1> HIDE DEF N
  <1> DEFINE v == RowsHere(n)
             D == [k \in 1..N |-> IF k = n THEN v ELSE 0]
  <1>4. v \in Nat /\ v = RowsHere(n)
    BY <1>1
  <1> HIDE DEF v
  <1>5. D \in [1..N -> Nat] /\ \A k \in 1..N : D[k] = IF k = n THEN v ELSE 0
    BY <1>4
  <1> HIDE DEF D
  <1>6. Total(D) = v
    <2>1. \A m \in Nat : \A i \in 1..m : \A w \in Nat : \A c \in [1..m -> Nat] :
            (\A k \in 1..m : c[k] = IF k = i THEN w ELSE 0) => Total(c) = w
      BY TotalOfOne
    <2>2. \A c \in [1..N -> Nat] : (\A k \in 1..N : c[k] = IF k = n THEN v ELSE 0) => Total(c) = v
      BY <1>1, <1>4, <2>1, Zenon
    <2> QED BY <1>5, <2>2, Zenon
  <1>7. ASSUME NEW k \in 1..N PROVE G[k] = F[k] + D[k]
    <2>1. k \in Nat /\ F[k] \in Nat
      BY <1>1
    <2>2. CASE k = n
      <3>1. F[k] = 0 /\ G[k] = v /\ D[k] = v
        BY <1>1, <1>2, <1>3, <1>4, <1>5, <2>2
      <3> QED BY <1>4, <3>1
    <2>3. CASE k # n
      <3>1. D[k] = 0
        BY <1>5, <2>3
      <3>2. k \in Chosen => (k < n <=> k < b)
        BY <1>1, <2>1, <2>3
      <3>3. F[k] = G[k]
        BY <1>2, <1>3, <3>2
      <3> QED BY <2>1, <3>1, <3>3
    <2> QED BY <2>2, <2>3
  <1>8. Total(G) = Total(F) + Total(D)
    BY <1>1, <1>5, <1>7, TotalSum
  <1> QED BY <1>2, <1>3, <1>4, <1>6, <1>8

LEMMA RowsFirst ==
  ASSUME Inputs, NEW n \in Chosen, \A k \in Chosen : n <= k PROVE RowsBefore(n) = 0
  <1> DEFINE N == AcqCount
  <1>1. N \in Nat /\ n \in Nat
    BY RowsFunction, ChosenFacts
  <1>2. PICK F \in [1..N -> Nat] :
              /\ RowsBefore(n) = Total(F)
              /\ \A k \in 1..N : F[k] = IF k \in Chosen /\ k < n THEN RowsHere(k) ELSE 0
    BY RowsFunction
  <1> HIDE DEF N
  <1>3. \A k \in 1..N : F[k] = 0
    <2> SUFFICES ASSUME NEW k \in 1..N PROVE F[k] = 0
      OBVIOUS
    <2>1. k \in Nat
      BY <1>1
    <2>2. ~ (k \in Chosen /\ k < n)
      BY <1>1, <2>1
    <2> QED BY <1>2, <2>2
  <1>4. Total(F) = Total(F) + Total(F) /\ Total(F) \in Nat
    <2>1. \A k \in 1..N : F[k] = F[k] + F[k]
      BY <1>3
    <2> QED BY <1>1, <2>1, TotalSum
  <1> QED BY <1>2, <1>4

\* The sections before n are within their bounds.
NoneOver(n) == \A k \in Chosen : k < n => ~ SectionOver(k)

\* The rows of a section are added when it ends, and tested then.
LEMMA EndSectionBounds ==
  ASSUME Inputs, cursor \in Nat, EndSection, section.acq \in Chosen,
         SectionIs(section, OfAcq(Before(cursor), section.acq)), Fits(section.acq, cursor),
         NoneOver(section.acq), rowsOut = RowsBefore(section.acq)
  PROVE  /\ section'.acq # 0 => /\ NoneOver(section'.acq) /\ rowsOut' = RowsBefore(section'.acq)
                                /\ Fits(section'.acq, 1)
         /\ pass' = "done" => ~ ReportOver
  <1> DEFINE n == section.acq
             more == \E k \in Chosen : k > n
             new == [EmptySection EXCEPT !.acq = NextAcq(n)]
             held == CellsHeld(section)
             v == RowsHere(n)
  <1>1. /\ pass = "report" /\ cursor > Len(survey.tiles) /\ ~ WriteOver
        /\ section' = IF more THEN new ELSE EmptySection
        /\ pass' = IF more THEN pass ELSE "done"
        /\ rowsOut' = rowsOut + RowsOf(n, held)
    BY Zenon DEF EndSection
  <1>2. n \in DOMAIN survey.acqs /\ n \in Nat /\ n \in Chosen /\ \A k \in Chosen : k \in Nat
    BY ChosenFacts
  <1>3. RowsOf(n, held) = v
    <2>1. Before(cursor) = Measured
      BY <1>1, BeforeLast
    <2>2. SectionIs(section, OfAcq(Measured, n)) /\ OfAcq(Measured, n) \subseteq Measured
      BY <2>1 DEF OfAcq
    <2>3. held = FixesIn(OfAcq(Measured, n))
      BY <2>2, HeldIs
    <2> HIDE DEF held
    <2> QED BY <2>3, Zenon DEF RowsHere
  <1>4. ~ (query.kinds = {"time"} /\ LateGroup(n)) /\ ~ (rowsOut + v > RowLimit)
    BY <1>1, <1>3, Zenon DEF WriteOver
  <1>5. ~ SectionOver(n)
    BY <1>1, <1>2, <1>4, FitIsWithin
  <1>6. rowsOut' = RowsBefore(n) + v /\ ~ (RowsBefore(n) + v > RowLimit)
    BY <1>1, <1>3, <1>4, Zenon
  <1>7. NoneOver(n)
    OBVIOUS
  <1> HIDE DEF n, held, v
  <1>8. CASE more
    <2> DEFINE x == NextAcq(n)
    <2>1. x \in Chosen /\ x \in Nat /\ x > n /\ \A k \in Chosen : k > n => x <= k
      BY <1>2, <1>8, NextIs
    <2>2. new.acq = x
      BY <2>1, NewSection
    <2> HIDE DEF more, new, x
    <2>3. section'.acq = x /\ pass' = "report"
      BY <1>1, <1>8, <2>2
    <2>4. n < x /\ \A k \in Chosen : n < k => x <= k
      BY <1>2, <2>1
    <2>5. RowsBefore(x) = RowsBefore(n) + v
      BY <1>2, <2>1, <2>4, RowsAdd DEF v
    <2>6. NoneOver(x)
      <3> SUFFICES ASSUME NEW k \in Chosen, k < x PROVE ~ SectionOver(k)
        BY DEF NoneOver
      <3>1. k < n \/ k = n
        BY <1>2, <2>1, <2>4
      <3> QED BY <1>5, <1>7, <3>1 DEF NoneOver
    <2>7. Fits(x, 1)
      BY <2>1, ChosenFacts, FitsFirst
    <2> QED BY <1>6, <2>3, <2>5, <2>6, <2>7
  <1>9. CASE ~ more
    <2>1. \A k \in Chosen : k < n \/ k = n
      BY <1>2, <1>9
    <2> HIDE DEF more, new
    <2>2. section'.acq = 0
      BY <1>1, <1>9, EmptySectionFacts
    <2>3. \A k \in Chosen : ~ SectionOver(k)
      BY <1>5, <1>7, <2>1 DEF NoneOver
    <2> DEFINE b == Len(survey.acqs) + 1
    <2>4. b \in Nat /\ n < b
      <3>1. AcqCount \in Nat /\ DOMAIN survey.acqs = 1..AcqCount
        BY RowsFunction
      <3>2. n <= AcqCount /\ b = AcqCount + 1
        BY <1>2, <3>1 DEF AcqCount
      <3> HIDE DEF b
      <3> QED BY <1>2, <3>1, <3>2
    <2> HIDE DEF b
    <2>5. \A k \in Chosen : n < k => b <= k
      BY <1>2, <2>1
    <2>6. RowsBefore(b) = RowsBefore(n) + v
      BY <1>2, <2>4, <2>5, RowsAdd DEF v
    <2>7. ~ (RowsBefore(b) > RowLimit)
      BY <1>6, <2>6, Zenon
    <2>8. ~ ReportOver
      BY <2>3, <2>7, Zenon DEF ReportOver, b
    <2> QED BY <2>2, <2>8
  <1> QED BY <1>8, <1>9

LEMMA RefuseReportOver ==
  ASSUME Inputs, cursor \in Nat, cursor > 0, RefuseReport, section.acq \in Chosen,
         SectionIs(section, OfAcq(Before(cursor), section.acq)), Fits(section.acq, cursor),
         rowsOut = RowsBefore(section.acq)
  PROVE  ReportOver
  <1> DEFINE n == section.acq
             held == CellsHeld(section)
             v == RowsHere(n)
  <1>1. n \in DOMAIN survey.acqs /\ n \in Nat /\ n \in Chosen
    BY ChosenFacts
  <1>2. CASE cursor <= Len(survey.tiles) /\ TileOver(survey.tiles[cursor])
    <2>1. ~ Fits(n, cursor + 1)
      BY <1>2, TileOverIs
    <2>2. SectionOver(n)
      BY <1>1, <2>1, UnfitIsOver
    <2> QED BY <1>1, <2>2 DEF ReportOver
  <1>3. CASE cursor > Len(survey.tiles) /\ WriteOver
    <2>1. RowsOf(n, held) = v
      <3>1. Before(cursor) = Measured
        BY <1>3, BeforeLast
      <3>2. SectionIs(section, OfAcq(Measured, n)) /\ OfAcq(Measured, n) \subseteq Measured
        BY <3>1 DEF OfAcq
      <3>3. held = FixesIn(OfAcq(Measured, n))
        BY <3>2, HeldIs
      <3> HIDE DEF held
      <3> QED BY <3>3, Zenon DEF RowsHere
    <2>2. (query.kinds = {"time"} /\ LateGroup(n)) \/ RowsBefore(n) + v > RowLimit
      BY <1>3, <2>1, Zenon DEF WriteOver
    <2> HIDE DEF n, held, v
    <2>3. CASE query.kinds = {"time"} /\ LateGroup(n)
      BY <1>1, <2>3, Zenon DEF ReportOver, SectionOver
    <2>4. CASE RowsBefore(n) + v > RowLimit
      <3> DEFINE a == n + 1
                 b == Len(survey.acqs) + 1
      <3>1. a \in Nat /\ b \in Nat /\ a <= b /\ n < a
        <4>1. AcqCount \in Nat /\ DOMAIN survey.acqs = 1..AcqCount
          BY RowsFunction
        <4>2. n <= AcqCount /\ b = AcqCount + 1
          BY <1>1, <4>1 DEF AcqCount
        <4> HIDE DEF b
        <4> QED BY <1>1, <4>1, <4>2
      <3>2. \A k \in Chosen : n < k => a <= k
        <4>1. \A k \in Chosen : k \in Nat
          BY ChosenFacts
        <4> QED BY <1>1, <4>1
      <3> HIDE DEF a, b
      <3>3. RowsBefore(a) = RowsBefore(n) + v
        BY <1>1, <3>1, <3>2, RowsAdd DEF v
      <3>4. RowsBefore(a) \in Nat /\ RowsBefore(b) \in Nat /\ RowsBefore(a) <= RowsBefore(b)
        BY <3>1, RowsGrow
      <3>5. RowLimit \in Nat
        BY AnalysisAssumption
      <3>6. RowsBefore(b) > RowLimit
        BY <2>4, <3>3, <3>4, <3>5
      <3> QED BY <3>6, Zenon DEF ReportOver, b
    <2> QED BY <2>2, <2>3, <2>4
  <1> QED BY <1>2, <1>3 DEF RefuseReport

\* The panel is refused only beyond its bounds.
FewBins(S) == Cardinality(BinsIn(S)) <= MaxBins

LEMMA RefusePanelOver ==
  ASSUME Inputs, cursor \in Nat, cursor > 0, RefusePanel, PanelIs(result, Before(cursor))
  PROVE  PanelOver
  <1>1. CASE cursor <= Len(survey.tiles) /\ TooManyBins(survey.tiles[cursor])
    <2> DEFINE t == survey.tiles[cursor]
               T == Before(cursor + 1)
    <2>1. InPanel(t) /\ Cardinality(BinsHeld \cup BinsOf(Acq(t))) > MaxBins
      BY <1>1 DEF TooManyBins
    <2>2. BinsHeld \cup BinsOf(Acq(t)) = BinsIn(T)
      BY <1>1, <2>1, PanelBins
    <2>3. Cardinality(BinsIn(T)) > MaxBins
      BY <2>1, <2>2, Zenon
    <2>4. T \subseteq Measured
      BY DEF Before
    <2> HIDE DEF T
    <2>5. /\ Cardinality(BinsIn(T)) \in Nat /\ Cardinality(BinsIn(Measured)) \in Nat
          /\ Cardinality(BinsIn(T)) <= Cardinality(BinsIn(Measured))
      BY <2>4, BinsInGrow
    <2>6. MaxBins \in Nat
      BY AnalysisAssumption
    <2>7. Cardinality(BinsIn(Measured)) > MaxBins
      BY <2>3, <2>5, <2>6
    <2> QED BY <2>7 DEF PanelOver
  <1>2. CASE Cardinality(GapsSelected) > MaxGaps
    BY <1>2 DEF PanelOver
  <1> QED BY <1>1, <1>2 DEF RefusePanel

LEMMA AnalyzeTileFew ==
  ASSUME Inputs, cursor \in Nat, cursor > 0, AnalyzeTile, PanelIs(result, Before(cursor)), FewBins(Before(cursor))
  PROVE  FewBins(Before(cursor + 1))
  <1> DEFINE t == survey.tiles[cursor]
             T == Before(cursor + 1)
  <1>1. cursor <= Len(survey.tiles) /\ ~ TooManyBins(t)
    BY DEF AnalyzeTile
  <1>2. CASE InPanel(t)
    <2>1. ~ (Cardinality(BinsHeld \cup BinsOf(Acq(t))) > MaxBins)
      BY <1>1, <1>2 DEF TooManyBins
    <2>2. BinsHeld \cup BinsOf(Acq(t)) = BinsIn(T)
      BY <1>1, <1>2, PanelBins
    <2>3. ~ (Cardinality(BinsIn(T)) > MaxBins)
      BY <2>1, <2>2, Zenon
    <2>4. Cardinality(BinsIn(T)) \in Nat /\ MaxBins \in Nat
      BY BinsInGrow, AnalysisAssumption
    <2> QED BY <2>3, <2>4 DEF FewBins
  <1>3. CASE ~ InPanel(t)
    <2>1. BinsIn(T) = BinsIn(Before(cursor))
      BY <1>1, <1>3, PanelBins
    <2> QED BY <2>1, Zenon DEF FewBins
  <1> QED BY <1>2, <1>3

WavesChosen == {w \in survey.waves : WaveSelected(w, query.from, QueryEnd)}

\* The waveform report finds the waveforms the panel counted but for the strays.
LEMMA WavesAgree ==
  ASSUME Inputs PROVE Cardinality(WavesChosen) = Cardinality(WaveformRows) + Cardinality(Strays)
  <1>1. WavesOk(survey)
    BY AnalysisAssumption, Zenon DEF Inputs
  <1>2. \A n \in DOMAIN survey.acqs : survey.acqs[n].from \in Nat /\ survey.acqs[n].to \in Nat
    BY AcqFacts
  <1>3. IsFiniteSet(survey.waves) /\ \A w \in survey.waves : w.at \in Nat
    BY <1>1, QueryFacts DEF WavesOk, Ticks
  <1> DEFINE Found(x) == \E n \in DOMAIN survey.acqs : InSelection(survey.acqs[n])
                           /\ WaveSelected(x, Window(survey.acqs[n])[1], Window(survey.acqs[n])[2])
             Stray(x) == \A n \in DOMAIN survey.acqs :
                           x.at \in survey.acqs[n].from..(survey.acqs[n].to - 1) => BinsOf(survey.acqs[n]) = {}
  <1>4. ASSUME NEW x \in survey.waves, NEW n \in DOMAIN survey.acqs,
               InSelection(survey.acqs[n]), WaveSelected(x, Window(survey.acqs[n])[1], Window(survey.acqs[n])[2])
        PROVE  WaveSelected(x, query.from, QueryEnd) /\ ~ Stray(x)
    <2> DEFINE a == survey.acqs[n]
    <2>1. Window(a)[1] \in Int /\ x.at \in Int /\ a.from \in Int /\ a.to \in Int
      BY <1>2, <1>3, WindowIs DEF Interval
    <2>2. Window(a)[1] <= x.at /\ x.at < Window(a)[2]
      BY <1>4, <2>1 DEF WaveSelected
    <2>3. query.from <= x.at /\ x.at < QueryEnd /\ a.from <= x.at /\ x.at < a.to
      BY <2>1, <2>2, WindowIs
    <2>4. x.at >= query.from
      BY <2>1, <2>3, QueryFacts
    <2>5. WaveSelected(x, query.from, QueryEnd)
      BY <1>4, <2>3, <2>4 DEF WaveSelected
    <2>6. x.at \in a.from..(a.to - 1) /\ BinsOf(a) # {}
      BY <1>4, <2>1, <2>3 DEF InSelection
    <2> QED BY <2>5, <2>6
  <1>5. ASSUME NEW x \in survey.waves, WaveSelected(x, query.from, QueryEnd), NEW n \in DOMAIN survey.acqs,
               x.at \in survey.acqs[n].from..(survey.acqs[n].to - 1), BinsOf(survey.acqs[n]) # {}
        PROVE  InSelection(survey.acqs[n]) /\ WaveSelected(x, Window(survey.acqs[n])[1], Window(survey.acqs[n])[2])
    <2> DEFINE a == survey.acqs[n]
    <2>1. x.at \in Int /\ a.from <= x.at /\ x.at < a.to
      BY <1>2, <1>3, <1>5
    <2>2. query.from <= x.at /\ x.at < QueryEnd
      BY <1>5, <2>1, QueryFacts DEF WaveSelected
    <2>3. Window(a) \in Interval /\ Window(a)[1] <= x.at /\ x.at < Window(a)[2]
      BY <2>1, <2>2, WindowIs
    <2>4. Duration(Window(a)) > 0
      BY <2>1, <2>3, DurationHasTick
    <2>5. x.at >= Window(a)[1]
      <3>1. Window(a)[1] \in Int
        BY <2>3 DEF Interval
      <3> QED BY <2>1, <2>3, <3>1
    <2>6. InSelection(a)
      BY <1>5, <2>4 DEF InSelection
    <2>7. WaveSelected(x, Window(a)[1], Window(a)[2])
      BY <1>5, <2>3, <2>5, Zenon DEF WaveSelected
    <2> QED BY <2>6, <2>7
  <1>6. WaveformRows = {x \in survey.waves : Found(x)}
    BY Zenon DEF WaveformRows
  <1>7. Strays = {x \in survey.waves : WaveSelected(x, query.from, QueryEnd) /\ Stray(x)}
    BY Zenon DEF Strays
  <1>8. \A x \in survey.waves : Found(x) <=> WaveSelected(x, query.from, QueryEnd) /\ ~ Stray(x)
    BY <1>4, <1>5, Zenon
  <1> HIDE DEF Found, Stray
  <1>9. WaveformRows \cup Strays = WavesChosen /\ WaveformRows \cap Strays = {}
    BY <1>6, <1>7, <1>8 DEF WavesChosen
  <1>10. IsFiniteSet(WavesChosen)
    <2>1. WavesChosen \subseteq survey.waves
      BY DEF WavesChosen
    <2> QED BY <1>3, <2>1, FS_Subset
  <1> QED BY <1>9, <1>10, CountOfTwo

LEMMA GroupsTotal ==
  ASSUME Inputs, PanelIs(result, Measured)
  PROVE  Total([k \in 1..MaxObservations |-> result.groups[k - 1].observed]) = result.total.observed
  <1> DEFINE r == Resolved(survey, query)
  <1>1. MaxObservations \in Nat
    BY QueryFacts
  <1>2. ASSUME NEW k \in 1..MaxObservations
        PROVE  result.groups[k - 1].observed = Cardinality(During(Measured, Edges(r, k - 1)))
    <2>1. k - 1 \in 0..(MaxObservations - 1)
      BY <1>1
    <2> DEFINE S == During(Measured, Edges(r, k - 1))
    <2>2. result.groups[k - 1] = TimesOf(S)
      BY <2>1 DEF PanelIs
    <2> HIDE DEF S
    <2>3. result.groups[k - 1].observed = Cardinality(S)
      BY <2>2 DEF TimesOf
    <2> QED BY <2>3 DEF S
  <1>3. result.total.observed = Cardinality(Measured)
    <2>1. result.total = TimesOf(Measured)
      BY DEF PanelIs
    <2> QED BY <2>1 DEF TimesOf
  <1>4. r = Resolved(survey, query)
    OBVIOUS
  <1> HIDE DEF r
  <1>5. Total([k \in 1..MaxObservations |-> Cardinality(During(Measured, Edges(r, k - 1)))]) = Cardinality(Measured)
    BY <1>4, GroupsPartition
  <1>6. [k \in 1..MaxObservations |-> result.groups[k - 1].observed]
          = [k \in 1..MaxObservations |-> Cardinality(During(Measured, Edges(r, k - 1)))]
    BY <1>2
  <1> QED BY <1>3, <1>5, <1>6, Zenon
-----------------------------------------------------------------------------
(* Steps leave the survey and the query alone, and so what was measured.   *)
Still == survey' = survey /\ query' = query

LEMMA StillSets ==
  ASSUME Still
  PROVE  /\ Measured' = Measured /\ Chosen' = Chosen /\ WavesChosen' = WavesChosen
         /\ GapsSelected' = GapsSelected /\ (Inputs' <=> Inputs)
  <1>1. survey' = survey /\ query' = query
    BY DEF Still
  <1>2. Measured' = Measured
    <2>1. Counted' = Counted
      BY <1>1, Zenon DEF Counted, InRegion, BinsOf, Acq, Overlaps
    <2>2. QueryEnd' = QueryEnd
      BY <1>1 DEF QueryEnd
    <2>3. ASSUME NEW i, NEW f PROVE MeasuredIn(i, f)' = MeasuredIn(i, f)
      BY <1>1, <2>2, Zenon DEF MeasuredIn, TicksOf, FrameFrom, FrameTo
    <2>4. ASSUME NEW m
          PROVE  m \in Measured <=> \E i \in Counted : \E f \in DOMAIN survey.tiles[i].frames : m \in MeasuredIn(i, f)
      BY DEF Measured
    <2>5. ASSUME NEW m
          PROVE  m \in Measured' <=> \E i \in Counted : \E f \in DOMAIN survey.tiles[i].frames : m \in MeasuredIn(i, f)
      BY <1>1, <2>1, <2>3 DEF Measured
    <2> QED BY <2>4, <2>5
  <1>3. Chosen' = Chosen
    BY <1>1, Zenon DEF Chosen, InSelection, HasTile, Window, InRegion, BinsOf, Overlaps, QueryEnd, EndOf, Duration, Meet
  <1>4. WavesChosen' = WavesChosen
    BY <1>1, Zenon DEF WavesChosen, WaveSelected, InRegion, QueryEnd
  <1>5. GapsSelected' = GapsSelected
    BY <1>1, Zenon DEF GapsSelected, QueryEnd
  <1>6. Inputs' <=> Inputs
    BY <1>1, Zenon DEF Inputs
  <1> QED BY <1>2, <1>3, <1>4, <1>5, <1>6

LEMMA StillCounts ==
  ASSUME Still, NEW S
  PROVE  /\ TimesOf(S)' = TimesOf(S)
         /\ BusyIn(S)' = BusyIn(S) /\ BusyOutside(S)' = BusyOutside(S)
         /\ \A b : BinTimes(S, b)' = BinTimes(S, b) /\ BinBusy(S, b)' = BinBusy(S, b)
         /\ \A c : WithFix(S, c)' = WithFix(S, c)
         /\ BinsIn(S)' = BinsIn(S) /\ GroupsIn(S)' = GroupsIn(S) /\ FixesIn(S)' = FixesIn(S)
         /\ Resolved(survey, query)' = Resolved(survey, query)
  <1>1. survey' = survey /\ query' = query
    BY DEF Still
  <1>2. BusyIn(S)' = BusyIn(S)
    BY <1>1, Zenon DEF BusyIn, Active, TileOf, Acq, BinsOf, Overlaps
  <1>3. BusyOutside(S)' = BusyOutside(S)
    BY <1>1, Zenon DEF BusyOutside, Active, TileOf, Acq, BinsOf, Overlaps, Outside
  <1>4. ASSUME NEW b PROVE WithBin(S, b)' = WithBin(S, b) /\ BinBusy(S, b)' = BinBusy(S, b)
    BY <1>1, Zenon DEF WithBin, BinBusy, Active, TileOf, Acq, BinsOf, Overlaps
  <1>5. ASSUME NEW c PROVE WithFix(S, c)' = WithFix(S, c)
    BY <1>1, Zenon DEF WithFix, TileOf
  <1>6. TimesOf(S)' = TimesOf(S)
    BY <1>2, <1>3, Zenon DEF TimesOf
  <1>7. ASSUME NEW b PROVE BinTimes(S, b)' = BinTimes(S, b)
    BY <1>4, Zenon DEF BinTimes
  <1>8. Resolved(survey, query)' = Resolved(survey, query)
    BY <1>1
  <1>9. BinsIn(S)' = BinsIn(S)
    BY <1>4 DEF BinsIn
  <1>10. GroupsIn(S)' = GroupsIn(S)
    BY <1>1, Zenon DEF GroupsIn, GroupAt, Window, Acq, TileOf, QueryEnd
  <1>11. FixesIn(S)' = FixesIn(S)
    BY <1>1, Zenon DEF FixesIn, TileOf
  <1> QED BY <1>2, <1>3, <1>4, <1>5, <1>6, <1>7, <1>8, <1>9, <1>10, <1>11

LEMMA StillBounds ==
  ASSUME Still
  PROVE  /\ (PanelOver' <=> PanelOver) /\ (ReportOver' <=> ReportOver)
         /\ \A n : (SectionOver(n)' <=> SectionOver(n)) /\ RowsBefore(n)' = RowsBefore(n)
         /\ \A n, r : Fits(n, r)' <=> Fits(n, r)
  <1>1. survey' = survey /\ query' = query /\ Measured' = Measured /\ Chosen' = Chosen /\ GapsSelected' = GapsSelected
    BY StillSets DEF Still
  <1>2. PanelOver' <=> PanelOver
    <2>1. BinsIn(Measured)' = BinsIn(Measured)
      <3>1. ASSUME NEW S PROVE BinsIn(S)' = BinsIn(S)
        BY StillCounts
      <3>2. \A S : S = Measured => BinsIn(S)' = BinsIn(S)
        BY <3>1
      <3> QED BY <1>1, <3>2 DEF BinsIn, WithBin
    <2> QED BY <1>1, <2>1, Zenon DEF PanelOver
  <1>3. ASSUME NEW n, NEW G, NEW C PROVE TooMany(n, G, C)' <=> TooMany(n, G, C)
    BY <1>1, Zenon DEF TooMany, BinsOf, Overlaps
  <1>4. ASSUME NEW n PROVE GroupsSpanned(n)' = GroupsSpanned(n) /\ BinsOf(survey.acqs[n])' = BinsOf(survey.acqs[n])
    <2>1. Window(survey.acqs[n])' = Window(survey.acqs[n])
      BY <1>1, Zenon DEF Window, QueryEnd
    <2>2. ASSUME NEW k PROVE GroupAt(k, Window(survey.acqs[n]))' = GroupAt(k, Window(survey.acqs[n]))
      BY <1>1, <2>1, Zenon DEF GroupAt
    <2>3. Spanned(n)' = Spanned(n)
      BY <1>1, <2>1, Zenon DEF Spanned
    <2>4. GroupsSpanned(n)' = GroupsSpanned(n)
      BY <2>2, <2>3, Zenon DEF GroupsSpanned
    <2>5. BinsOf(survey.acqs[n])' = BinsOf(survey.acqs[n])
      BY <1>1, Zenon DEF BinsOf, Overlaps
    <2> QED BY <2>4, <2>5
  <1>5. ASSUME NEW n PROVE LateGroup(n)' <=> LateGroup(n)
    BY <1>1, Zenon DEF LateGroup, Spanned, GroupAt, Window, QueryEnd, Whole, EndOf
  <1>6. ASSUME NEW n, NEW S PROVE OfAcq(S, n)' = OfAcq(S, n)
    BY <1>1, Zenon DEF OfAcq, TileOf
  <1>7. ASSUME NEW n
        PROVE  /\ GroupsIn(OfAcq(Measured, n))' = GroupsIn(OfAcq(Measured, n))
               /\ FixesIn(OfAcq(Measured, n))' = FixesIn(OfAcq(Measured, n))
    BY <1>1, Zenon DEF GroupsIn, FixesIn, OfAcq, GroupAt, Window, Acq, TileOf, QueryEnd
  <1>8. ASSUME NEW n, NEW r
        PROVE  /\ GroupsIn(OfAcq(Before(r), n))' = GroupsIn(OfAcq(Before(r), n))
               /\ FixesIn(OfAcq(Before(r), n))' = FixesIn(OfAcq(Before(r), n))
    BY <1>1, Zenon DEF GroupsIn, FixesIn, OfAcq, Before, GroupAt, Window, Acq, TileOf, QueryEnd
  <1>9. ASSUME NEW n, NEW r PROVE Fits(n, r)' <=> Fits(n, r)
    BY <1>1, <1>8, Zenon DEF Fits, TooMany, BinsOf, Overlaps
  <1>10. ASSUME NEW n PROVE SectionOver(n)' <=> SectionOver(n)
    BY <1>1, <1>5, <1>7, Zenon DEF SectionOver, TooMany, BinsOf, Overlaps
  <1>11. ASSUME NEW n PROVE RowsHere(n)' = RowsHere(n)
    BY <1>1, <1>4, <1>7, Zenon DEF RowsHere, RowsOf
  <1>12. ASSUME NEW k PROVE RowsBefore(k)' = RowsBefore(k)
    <2> DEFINE F == [n \in DOMAIN survey.acqs |-> IF n \in Chosen /\ n < k THEN RowsHere(n) ELSE 0]
    <2>1. F' = F
      BY <1>1, <1>11
    <2>2. RowsBefore(k) = Total(F) /\ RowsBefore(k)' = Total(F')
      BY Zenon DEF RowsBefore, RowsHere
    <2> HIDE DEF F
    <2> QED BY <2>1, <2>2, Zenon
  <1>13. ReportOver' <=> ReportOver
    <2>1. RowsBefore(Len(survey.acqs) + 1)' = RowsBefore(Len(survey.acqs) + 1)
      <3> DEFINE k == Len(survey.acqs) + 1
      <3>1. \A x : x = k => RowsBefore(x)' = RowsBefore(x)
        BY <1>12
      <3> QED BY <1>1, <1>11, <3>1 DEF RowsBefore, RowsHere
    <2> QED BY <1>1, <1>10, <2>1, Zenon DEF ReportOver
  <1> QED BY <1>2, <1>9, <1>10, <1>12, <1>13

\* The invariant: while it is filled the panel shows the tiles read so far and,
\* once shown, what was measured, within its bounds; the section being written
\* shows the tiles read so far of its acquisition, within the bounds of a
\* section; the sections written show the earlier ones, and none of these was
\* beyond its bounds.  A set is named by a quantifier so that the provers can
\* keep it while the operators that count it are primed.
SummaryInv ==
  /\ Inputs /\ cursor \in Nat /\ cursor > 0
  /\ IsResult(result) /\ section \in SectionType /\ sections \in Seq(SectionType)
  /\ pass = "analyze" => panel = "filling" /\ \A S : S = Before(cursor) => PanelIs(result, S) /\ FewBins(S)
  /\ panel = "shown" => /\ result.waves = Cardinality(WavesChosen) /\ ~ PanelOver
                        /\ \A S : S = Measured => PanelIs(result, S)
  /\ panel = "refused" => PanelOver
  /\ pass = "empty" => Measured = {}
  /\ pass = "limit" => ReportOver
  /\ section.acq = 0 /\ pass \in {"analyze", "report"} =>
       sections = <<>> /\ rowsOut = 0 /\ (pass = "report" => cursor = 1)
  /\ section.acq # 0 => /\ pass = "report" /\ section.acq \in Chosen
                        /\ \A S : S = OfAcq(Before(cursor), section.acq) => SectionIs(section, S)
                        /\ \A S : S = Earlier(section.acq) => SumsAre(sections, S)
                        /\ \A n, r : n = section.acq /\ r = cursor =>
                             Fits(n, r) /\ NoneOver(n) /\ rowsOut = RowsBefore(n)
  /\ pass = "done" => ~ ReportOver /\ \A S : S = Measured => SumsAre(sections, S)

\* The same of given values of what changes.
Good(p, q, r, res, secs, sec, out) ==
  /\ r \in Nat /\ r > 0
  /\ IsResult(res) /\ sec \in SectionType /\ secs \in Seq(SectionType)
  /\ p = "analyze" => q = "filling" /\ PanelIs(res, Before(r)) /\ FewBins(Before(r))
  /\ q = "shown" => res.waves = Cardinality(WavesChosen) /\ ~ PanelOver /\ PanelIs(res, Measured)
  /\ q = "refused" => PanelOver
  /\ p = "empty" => Measured = {}
  /\ p = "limit" => ReportOver
  /\ sec.acq = 0 /\ p \in {"analyze", "report"} => secs = <<>> /\ out = 0 /\ (p = "report" => r = 1)
  /\ sec.acq # 0 => /\ p = "report" /\ sec.acq \in Chosen
                    /\ SectionIs(sec, OfAcq(Before(r), sec.acq))
                    /\ SumsAre(secs, Earlier(sec.acq))
                    /\ Fits(sec.acq, r) /\ NoneOver(sec.acq) /\ out = RowsBefore(sec.acq)
  /\ p = "done" => ~ ReportOver /\ SumsAre(secs, Measured)

\* The state, and the next one.
GoodNow == Good(pass, panel, cursor, result, sections, section, rowsOut)
GoodNext == Good(pass', panel', cursor', result', sections', section', rowsOut')

LEMMA SummaryIsGood == ASSUME SummaryInv PROVE Inputs /\ GoodNow
  BY Zenon DEF SummaryInv, Good, GoodNow

LEMMA StillShown ==
  ASSUME Still, NEW S
  PROVE  /\ PanelIs(result, S)' <=> PanelIs(result', S)
         /\ SectionIs(section, S)' <=> SectionIs(section', S)
         /\ SumsAre(sections, S)' <=> SumsAre(sections', S)
         /\ FewBins(S)' <=> FewBins(S)
  <1>1. PanelIs(result, S)' <=> PanelIs(result', S)
    <2>1. ASSUME NEW k
          PROVE  TimesOf(During(S, Edges(Resolved(survey, query), k)))' = TimesOf(During(S, Edges(Resolved(survey, query), k)))
      <3>1. ASSUME NEW iv PROVE TimesOf(During(S, iv))' = TimesOf(During(S, iv))
        BY StillCounts DEF During
      <3> QED BY <3>1, StillCounts
    <2> QED BY <2>1, StillCounts, Zenon DEF PanelIs
  <1>2. SectionIs(section, S)' <=> SectionIs(section', S)
    BY StillCounts, Zenon DEF SectionIs
  <1>3. SumsAre(sections, S)' <=> SumsAre(sections', S)
    BY StillCounts, Zenon DEF SumsAre
  <1>4. FewBins(S)' <=> FewBins(S)
    BY StillCounts, Zenon DEF FewBins
  <1> QED BY <1>1, <1>2, <1>3, <1>4

LEMMA StillNone == ASSUME Still, NEW n PROVE NoneOver(n)' <=> NoneOver(n)
  <1>1. Chosen' = Chosen /\ \A k : SectionOver(k)' <=> SectionOver(k)
    BY StillSets, StillBounds
  <1> QED BY <1>1, Zenon DEF NoneOver

LEMMA GoodIsSummary == ASSUME Still, Inputs, GoodNext PROVE SummaryInv'
  <1>1. /\ Measured' = Measured /\ Chosen' = Chosen /\ WavesChosen' = WavesChosen /\ Inputs'
        /\ (PanelOver' <=> PanelOver) /\ (ReportOver' <=> ReportOver)
    BY StillSets, StillBounds
  <1>2. Before(cursor)' = Before(cursor')
    BY <1>1, Zenon DEF Before
  <1>3. OfAcq(Before(cursor), section.acq)' = OfAcq(Before(cursor'), section'.acq)
    BY <1>1, Zenon DEF Before, OfAcq, TileOf, Still
  <1>4. Earlier(section.acq)' = Earlier(section'.acq)
    BY <1>1, Zenon DEF Earlier, TileOf, Still
  <1>5. IsResult(result)'
    BY DEF GoodNext, Good, IsResult
  <1>6. (pass = "analyze" => panel = "filling" /\ \A S : S = Before(cursor) => PanelIs(result, S) /\ FewBins(S))'
    <2>1. pass' = "analyze" => panel' = "filling" /\ PanelIs(result', Before(cursor')) /\ FewBins(Before(cursor'))
      BY Zenon DEF GoodNext, Good
    <2> QED BY <1>2, <2>1, StillShown, Zenon
  <1>7. (panel = "shown" => /\ result.waves = Cardinality(WavesChosen) /\ ~ PanelOver
                            /\ \A S : S = Measured => PanelIs(result, S))'
    <2>1. panel' = "shown" => result'.waves = Cardinality(WavesChosen) /\ ~ PanelOver /\ PanelIs(result', Measured)
      BY Zenon DEF GoodNext, Good
    <2> QED BY <1>1, <2>1, StillShown, Zenon
  <1>8. (section.acq # 0 => /\ pass = "report" /\ section.acq \in Chosen
                            /\ \A S : S = OfAcq(Before(cursor), section.acq) => SectionIs(section, S)
                            /\ \A S : S = Earlier(section.acq) => SumsAre(sections, S)
                            /\ \A n, r : n = section.acq /\ r = cursor =>
                                 Fits(n, r) /\ NoneOver(n) /\ rowsOut = RowsBefore(n))'
    <2> SUFFICES ASSUME section'.acq # 0
                 PROVE  (/\ pass = "report" /\ section.acq \in Chosen
                         /\ \A S : S = OfAcq(Before(cursor), section.acq) => SectionIs(section, S)
                         /\ \A S : S = Earlier(section.acq) => SumsAre(sections, S)
                         /\ \A n, r : n = section.acq /\ r = cursor =>
                              Fits(n, r) /\ NoneOver(n) /\ rowsOut = RowsBefore(n))'
      OBVIOUS
    <2>1. /\ pass' = "report" /\ section'.acq \in Chosen /\ SectionIs(section', OfAcq(Before(cursor'), section'.acq))
          /\ SumsAre(sections', Earlier(section'.acq))
          /\ Fits(section'.acq, cursor') /\ NoneOver(section'.acq) /\ rowsOut' = RowsBefore(section'.acq)
      BY DEF GoodNext, Good
    <2>2. (/\ pass = "report" /\ section.acq \in Chosen
           /\ \A S : S = OfAcq(Before(cursor), section.acq) => SectionIs(section, S)
           /\ \A S : S = Earlier(section.acq) => SumsAre(sections, S))'
      BY <1>1, <1>3, <1>4, <2>1, StillShown, Zenon
    <2>3. (\A n, r : n = section.acq /\ r = cursor => Fits(n, r) /\ NoneOver(n) /\ rowsOut = RowsBefore(n))'
      <3>1. ASSUME NEW n, NEW r, n = section'.acq, r = cursor'
            PROVE  Fits(n, r)' /\ NoneOver(n)' /\ rowsOut' = RowsBefore(n)'
        <4>1. Fits(n, r) /\ NoneOver(n) /\ rowsOut' = RowsBefore(n)
          BY <2>1, <3>1, Zenon
        <4> QED BY <4>1, StillBounds, StillNone, Zenon
      <3> QED BY <3>1, Zenon
    <2> QED BY <2>2, <2>3, Zenon
  <1>9. (pass = "done" => ~ ReportOver /\ \A S : S = Measured => SumsAre(sections, S))'
    <2>1. pass' = "done" => ~ ReportOver /\ SumsAre(sections', Measured)
      BY DEF GoodNext, Good
    <2> QED BY <1>1, <2>1, StillShown, Zenon
  <1>10. (/\ cursor \in Nat /\ cursor > 0
          /\ section \in SectionType /\ sections \in Seq(SectionType)
          /\ (section.acq = 0 /\ pass \in {"analyze", "report"} =>
                sections = <<>> /\ rowsOut = 0 /\ (pass = "report" => cursor = 1)))'
    BY DEF GoodNext, Good, SectionType, TimeRecord
  <1>11. (/\ (panel = "refused" => PanelOver) /\ (pass = "empty" => Measured = {}) /\ (pass = "limit" => ReportOver))'
    BY <1>1 DEF GoodNext, Good
  <1> QED BY <1>1, <1>5, <1>6, <1>7, <1>8, <1>9, <1>10, <1>11, Zenon DEF SummaryInv

LEMMA EmptyResultIs == IsResult(EmptyResult) /\ PanelIs(EmptyResult, {})
  <1> DEFINE x == NoTime
             G == [k \in 0..(MaxObservations - 1) |-> NoTime]
             B == [b \in BinRange |-> NoTime]
             result0 == EmptyResult
  <1>1. result0 = [total |-> x, groups |-> G, bins |-> B, missing |-> 0, gaps |-> 0, waves |-> 0]
    BY DEF EmptyResult
  <1>2. result0.total = x /\ result0.groups = G /\ result0.bins = B
    BY <1>1
  <1>3. IsResult(result0)
    <2>1. DOMAIN G = 0..(MaxObservations - 1)
      OBVIOUS
    <2> HIDE DEF x, G, B, result0
    <2> QED BY <1>1, <2>1 DEF IsResult
  <1>4. PanelIs(result0, {})
    <2> HIDE DEF result0
    <2> QED BY <1>2, EmptyCounts DEF PanelIs
  <1> QED BY <1>3, <1>4

LEMMA SummaryInit == ASSUME AnalysisInit PROVE SummaryInv
  <1>1. /\ Inputs /\ pass = "analyze" /\ panel = "filling" /\ cursor = 1 /\ result = EmptyResult /\ sections = <<>>
        /\ section = EmptySection /\ rowsOut = 0
    BY DEF AnalysisInit, Inputs
  <1>2. section \in SectionType /\ section.acq = 0
    BY <1>1, EmptySectionFacts
  <1>3. Before(cursor) = {}
    BY <1>1, BeforeFirst
  <1>4. IsResult(result) /\ PanelIs(result, {})
    BY <1>1, EmptyResultIs
  <1>5. FewBins({})
    <2>1. Cardinality(BinsIn({})) = 0
      BY EmptyCounts, FS_EmptySet, Zenon
    <2> QED BY <2>1, AnalysisAssumption DEF FewBins
  <1>6. sections \in Seq(SectionType)
    BY <1>1
  <1>7. \A S : S = Before(cursor) => PanelIs(result, S) /\ FewBins(S)
    BY <1>3, <1>4, <1>5, Zenon
  <1>8. cursor \in Nat /\ cursor > 0
    BY <1>1
  <1>9. /\ panel # "shown" /\ panel # "refused" /\ pass # "empty" /\ pass # "limit" /\ pass # "report"
        /\ pass # "done" /\ section.acq = 0
    BY <1>1, <1>2
  <1> QED BY <1>1, <1>2, <1>4, <1>6, <1>7, <1>8, <1>9, Zenon DEF SummaryInv

LEMMA RefuseKeeps == ASSUME SummaryInv, Refuse PROVE SummaryInv'
  <1>1. Inputs /\ GoodNow
    BY SummaryIsGood
  <1>2. /\ Still /\ pass = "analyze" /\ pass' = "refused" /\ panel' = panel /\ cursor' = cursor /\ result' = result
        /\ sections' = sections /\ section' = section /\ rowsOut' = rowsOut
    BY DEF Refuse, Still
  <1>3. GoodNext
    BY <1>1, <1>2 DEF GoodNow, GoodNext, Good
  <1> QED BY <1>1, <1>2, <1>3, GoodIsSummary

LEMMA AnalyzeTileKeeps == ASSUME SummaryInv, AnalyzeTile PROVE SummaryInv'
  <1>1. Inputs /\ GoodNow
    BY SummaryIsGood
  <1>2. /\ Still /\ pass = "analyze" /\ pass' = pass /\ panel' = panel /\ cursor' = cursor + 1
        /\ sections' = sections /\ section' = section /\ rowsOut' = rowsOut
    BY DEF AnalyzeTile, Still
  <1>3. /\ cursor \in Nat /\ cursor > 0 /\ IsResult(result) /\ PanelIs(result, Before(cursor))
        /\ FewBins(Before(cursor)) /\ panel = "filling"
    BY <1>1, <1>2 DEF GoodNow, Good
  <1>4. IsResult(result') /\ PanelIs(result', Before(cursor + 1)) /\ FewBins(Before(cursor + 1))
    BY <1>1, <1>3, AnalyzeTileAdds, AnalyzeTileFew
  <1>5. PanelIs(result', Before(cursor')) /\ FewBins(Before(cursor')) /\ cursor' \in Nat /\ cursor' > 0
    BY <1>2, <1>3, <1>4
  <1>6. section.acq = 0
    BY <1>1, <1>2 DEF GoodNow, Good
  <1>7. GoodNext
    BY <1>1, <1>2, <1>3, <1>4, <1>5, <1>6 DEF GoodNow, GoodNext, Good
  <1> QED BY <1>1, <1>2, <1>7, GoodIsSummary

LEMMA EndAnalyzeKeeps == ASSUME SummaryInv, EndAnalyze PROVE SummaryInv'
  <1>1. Inputs /\ GoodNow
    BY SummaryIsGood
  <1> DEFINE v == Cardinality(WavesChosen)
             g == Cardinality(GapsSelected)
             p == [result EXCEPT !.waves = v]
  <1>2. /\ Still /\ pass = "analyze" /\ pass' = "report" /\ panel' = "shown" /\ cursor > Len(survey.tiles)
        /\ cursor' = 1 /\ sections' = sections /\ section' = section /\ rowsOut' = rowsOut
    BY DEF EndAnalyze, Still
  <1>3. result' = [result EXCEPT !.waves = v, !.gaps = g] /\ g <= MaxGaps
    BY Zenon DEF EndAnalyze, WavesChosen
  <1> HIDE DEF v, g
  <1>4. /\ cursor \in Nat /\ cursor > 0 /\ IsResult(result) /\ PanelIs(result, Before(cursor)) /\ section.acq = 0
        /\ FewBins(Before(cursor)) /\ sections = <<>> /\ rowsOut = 0
    BY <1>1, <1>2 DEF GoodNow, Good
  <1>5. Before(cursor) = Measured
    BY <1>1, <1>2, <1>4, BeforeLast
  <1>6. /\ IsResult(result') /\ result'.waves = v /\ result'.total = result.total
        /\ result'.bins = result.bins /\ result'.groups = result.groups
    <2> DEFINE a == result.total
               b == result.groups
               c == result.bins
               d == result.missing
               e == result.gaps
               f == result.waves
    <2>1. result = [total |-> a, groups |-> b, bins |-> c, missing |-> d, gaps |-> e, waves |-> f]
      BY <1>4 DEF IsResult
    <2>2. result' = [p EXCEPT !.gaps = g]
      BY <1>3
    <2>3. a = result.total /\ b = result.groups /\ c = result.bins
      OBVIOUS
    <2>4. DOMAIN b = 0..(MaxObservations - 1)
      BY <1>4 DEF IsResult
    <2> HIDE DEF a, b, c, d, e, f
    <2>5. p = [total |-> a, groups |-> b, bins |-> c, missing |-> d, gaps |-> e, waves |-> v]
      BY <2>1
    <2> HIDE DEF p
    <2>6. result' = [total |-> a, groups |-> b, bins |-> c, missing |-> d, gaps |-> g, waves |-> v]
      BY <2>2, <2>5
    <2>7. /\ result'.total = a /\ result'.groups = b /\ result'.bins = c /\ result'.missing = d
          /\ result'.gaps = g /\ result'.waves = v
      BY <2>6, ResultRecord
    <2>8. IsResult(result')
      BY <2>4, <2>6, <2>7, Zenon DEF IsResult
    <2> QED BY <2>3, <2>7, <2>8
  <1>7. PanelIs(result', Measured)
    BY <1>4, <1>5, <1>6 DEF PanelIs
  <1>8. result'.waves = Cardinality(WavesChosen)
    BY <1>6 DEF v
  <1>9. ~ PanelOver
    <2>1. Cardinality(BinsIn(Measured)) <= MaxBins
      BY <1>4, <1>5 DEF FewBins
    <2>2. Cardinality(BinsIn(Measured)) \in Nat /\ MaxBins \in Nat /\ MaxGaps \in Nat
      BY BinsInGrow, AnalysisAssumption
    <2>3. g \in Nat
      <3>1. survey.gaps \in Seq(Ticks \X Ticks)
        BY <1>1, AnalysisAssumption, Zenon DEF Inputs
      <3>2. DOMAIN survey.gaps = 1..Len(survey.gaps) /\ Len(survey.gaps) \in Nat
        BY <3>1
      <3>3. GapsSelected \subseteq DOMAIN survey.gaps
        BY DEF GapsSelected
      <3>4. IsFiniteSet(DOMAIN survey.gaps)
        BY <3>2, FS_Interval
      <3> QED BY <3>3, <3>4, FewerIn DEF g
    <2>4. ~ (Cardinality(BinsIn(Measured)) > MaxBins) /\ ~ (g > MaxGaps)
      BY <1>3, <2>1, <2>2, <2>3
    <2> QED BY <2>4 DEF PanelOver, g
  <1>10. GoodNext
    BY <1>1, <1>2, <1>4, <1>6, <1>7, <1>8, <1>9 DEF GoodNow, GoodNext, Good
  <1> QED BY <1>1, <1>2, <1>10, GoodIsSummary

LEMMA RefusePanelKeeps == ASSUME SummaryInv, RefusePanel PROVE SummaryInv'
  <1>1. Inputs /\ GoodNow
    BY SummaryIsGood
  <1>2. /\ Still /\ pass = "analyze" /\ pass' = "report" /\ panel' = "refused" /\ result' = EmptyResult
        /\ cursor' = 1 /\ sections' = sections /\ section' = section /\ rowsOut' = rowsOut
    BY DEF RefusePanel, Still
  <1>3. /\ cursor \in Nat /\ cursor > 0 /\ PanelIs(result, Before(cursor)) /\ section.acq = 0
        /\ sections = <<>> /\ rowsOut = 0
    BY <1>1, <1>2 DEF GoodNow, Good
  <1>4. PanelOver
    BY <1>1, <1>3, RefusePanelOver
  <1>5. IsResult(result')
    BY <1>2, EmptyResultIs
  <1>6. GoodNext
    BY <1>1, <1>2, <1>3, <1>4, <1>5 DEF GoodNow, GoodNext, Good
  <1> QED BY <1>1, <1>2, <1>6, GoodIsSummary

LEMMA BeginSectionKeeps == ASSUME SummaryInv, BeginSection PROVE SummaryInv'
  <1>1. Inputs /\ GoodNow
    BY SummaryIsGood
  <1> DEFINE new == [EmptySection EXCEPT !.acq = NextAcq(0)]
  <1>2. /\ Still /\ pass = "report" /\ section.acq = 0 /\ panel' = panel /\ cursor' = cursor /\ result' = result
        /\ sections' = sections /\ rowsOut' = rowsOut
        /\ \/ Chosen = {} /\ pass' = "empty" /\ section' = section
           \/ Chosen # {} /\ pass' = pass /\ section' = new
    BY DEF BeginSection, Still
  <1>3. sections = <<>> /\ cursor = 1 /\ rowsOut = 0
    BY <1>1, <1>2 DEF GoodNow, Good
  <1>4. CASE Chosen = {}
    <2>1. Measured = {}
      BY <1>1, <1>4, EarlierFirst
    <2> HIDE DEF new
    <2>2. GoodNext
      BY <1>1, <1>2, <1>3, <1>4, <2>1 DEF GoodNow, GoodNext, Good
    <2> QED BY <1>1, <1>2, <2>2, GoodIsSummary
  <1>5. CASE Chosen # {}
    <2> DEFINE n == NextAcq(0)
    <2>1. n \in Chosen /\ Earlier(n) = {}
      BY <1>1, <1>5, EarlierFirst
    <2>2. n \in Nat /\ n > 0 /\ n \in DOMAIN survey.acqs
      BY <1>1, <2>1, ChosenFacts
    <2>3. new \in SectionType /\ new.acq = n /\ SectionIs(new, {})
      BY <2>2, NewSection
    <2>a. \A k \in Chosen : k \in Nat /\ n <= k
      <3>1. \A k \in Chosen : k \in Nat /\ k > 0
        BY <1>1, ChosenFacts
      <3>2. \E k \in Chosen : k > 0
        BY <1>5, <3>1
      <3> QED BY <1>1, <3>1, <3>2, NextIs
    <2> HIDE DEF new, n
    <2>4. section' = new /\ pass' = "report"
      BY <1>2, <1>5
    <2>5. OfAcq(Before(cursor'), section'.acq) = {}
      <3>1. Before(cursor') = {}
        BY <1>1, <1>2, <1>3, BeforeFirst
      <3> QED BY <3>1 DEF OfAcq
    <2>6. SumsAre(sections', Earlier(section'.acq))
      BY <1>2, <1>3, <2>1, <2>3, <2>4, EmptySums
    <2>7. section'.acq \in Chosen /\ section'.acq # 0 /\ section' \in SectionType
          /\ SectionIs(section', OfAcq(Before(cursor'), section'.acq))
      BY <2>1, <2>2, <2>3, <2>4, <2>5
    <2>8. Fits(section'.acq, cursor') /\ NoneOver(section'.acq) /\ rowsOut' = RowsBefore(section'.acq)
      <3>1. Fits(n, 1)
        BY <1>1, <2>2, FitsFirst
      <3>2. NoneOver(n)
        <4>1. \A k \in Chosen : ~ (k < n)
          BY <2>2, <2>a
        <4> QED BY <4>1, Zenon DEF NoneOver
      <3>3. RowsBefore(n) = 0
        BY <1>1, <2>1, <2>a, RowsFirst
      <3> QED BY <1>2, <1>3, <2>3, <2>4, <3>1, <3>2, <3>3
    <2>9. GoodNext
      BY <1>1, <1>2, <1>3, <2>4, <2>6, <2>7, <2>8 DEF GoodNow, GoodNext, Good
    <2> QED BY <1>1, <1>2, <2>9, GoodIsSummary
  <1> QED BY <1>4, <1>5

LEMMA ReportTileKeeps == ASSUME SummaryInv, ReportTile PROVE SummaryInv'
  <1>1. Inputs /\ GoodNow
    BY SummaryIsGood
  <1>2. /\ Still /\ pass = "report" /\ section.acq # 0 /\ pass' = pass /\ panel' = panel /\ cursor' = cursor + 1
        /\ result' = result /\ sections' = sections /\ rowsOut' = rowsOut
        /\ cursor <= Len(survey.tiles) /\ ~ TileOver(survey.tiles[cursor])
    BY DEF ReportTile, Still
  <1>3. /\ cursor \in Nat /\ cursor > 0 /\ section \in SectionType /\ section.acq \in Chosen
        /\ SectionIs(section, OfAcq(Before(cursor), section.acq)) /\ SumsAre(sections, Earlier(section.acq))
        /\ Fits(section.acq, cursor) /\ NoneOver(section.acq) /\ rowsOut = RowsBefore(section.acq)
    BY <1>1, <1>2 DEF GoodNow, Good
  <1>4. /\ section' \in SectionType /\ section'.acq = section.acq
        /\ SectionIs(section', OfAcq(Before(cursor + 1), section.acq))
    BY <1>1, <1>3, ReportTileAdds
  <1>5. Fits(section.acq, cursor + 1)
    BY <1>1, <1>2, <1>3, TileOverIs
  <1>6. /\ SectionIs(section', OfAcq(Before(cursor'), section'.acq)) /\ SumsAre(sections', Earlier(section'.acq))
        /\ cursor' \in Nat /\ cursor' > 0 /\ section'.acq \in Chosen /\ section'.acq # 0
        /\ Fits(section'.acq, cursor') /\ NoneOver(section'.acq) /\ rowsOut' = RowsBefore(section'.acq)
    BY <1>2, <1>3, <1>4, <1>5
  <1>7. GoodNext
    BY <1>1, <1>2, <1>4, <1>6 DEF GoodNow, GoodNext, Good
  <1> QED BY <1>1, <1>2, <1>7, GoodIsSummary

LEMMA EndSectionKeeps == ASSUME SummaryInv, EndSection PROVE SummaryInv'
  <1>1. Inputs /\ GoodNow
    BY SummaryIsGood
  <1>2. Still /\ pass = "report" /\ panel' = panel /\ section.acq # 0 /\ cursor' = 1 /\ result' = result
    BY DEF EndSection, Still
  <1>3. /\ cursor \in Nat /\ section \in SectionType /\ section.acq \in Chosen /\ sections \in Seq(SectionType)
        /\ SectionIs(section, OfAcq(Before(cursor), section.acq)) /\ SumsAre(sections, Earlier(section.acq))
        /\ Fits(section.acq, cursor) /\ NoneOver(section.acq) /\ rowsOut = RowsBefore(section.acq)
    BY <1>1, <1>2 DEF GoodNow, Good
  <1>4. /\ sections' \in Seq(SectionType) /\ section' \in SectionType
        /\ \/ /\ pass' = "report" /\ section'.acq \in Chosen /\ section'.acq # 0
              /\ SectionIs(section', {}) /\ SumsAre(sections', Earlier(section'.acq))
           \/ pass' = "done" /\ section'.acq = 0 /\ SumsAre(sections', Measured)
    BY <1>1, <1>3, EndSectionAdds
  <1>5. OfAcq(Before(cursor'), section'.acq) = {}
    <2>1. Before(cursor') = {}
      BY <1>1, <1>2, BeforeFirst
    <2> QED BY <2>1 DEF OfAcq
  <1>6. /\ section'.acq # 0 => /\ NoneOver(section'.acq) /\ rowsOut' = RowsBefore(section'.acq)
                               /\ Fits(section'.acq, 1)
        /\ pass' = "done" => ~ ReportOver
    BY <1>1, <1>3, EndSectionBounds
  <1>7. cursor' \in Nat /\ cursor' > 0
    BY <1>2
  <1>8. GoodNext
    <2>1. CASE /\ pass' = "report" /\ section'.acq \in Chosen /\ section'.acq # 0
               /\ SectionIs(section', {}) /\ SumsAre(sections', Earlier(section'.acq))
      BY <1>1, <1>2, <1>4, <1>5, <1>6, <1>7, <2>1 DEF GoodNow, GoodNext, Good
    <2>2. CASE pass' = "done" /\ section'.acq = 0 /\ SumsAre(sections', Measured)
      BY <1>1, <1>2, <1>4, <1>6, <1>7, <2>2 DEF GoodNow, GoodNext, Good
    <2> QED BY <1>4, <2>1, <2>2
  <1> QED BY <1>1, <1>2, <1>8, GoodIsSummary

LEMMA AbandonKeeps ==
  ASSUME SummaryInv, NEW reason \in {"limit", "page"}, Abandon(reason), reason = "limit" => ReportOver
  PROVE  SummaryInv'
  <1>1. Inputs /\ GoodNow
    BY SummaryIsGood
  <1>2. /\ Still /\ pass' = reason /\ panel' = panel /\ cursor' = cursor /\ result' = result
        /\ sections' = <<>> /\ section' = EmptySection /\ rowsOut' = 0
    BY DEF Abandon, Still
  <1>3. section' \in SectionType /\ section'.acq = 0 /\ sections' \in Seq(SectionType)
    BY <1>2, EmptySectionFacts
  <1>4. GoodNext
    BY <1>1, <1>2, <1>3 DEF GoodNow, GoodNext, Good
  <1> QED BY <1>1, <1>2, <1>4, GoodIsSummary

LEMMA RefuseReportKeeps == ASSUME SummaryInv, RefuseReport PROVE SummaryInv'
  <1>1. Inputs /\ GoodNow
    BY SummaryIsGood
  <1>2. pass = "report" /\ section.acq # 0 /\ Abandon("limit")
    BY DEF RefuseReport
  <1>3. /\ cursor \in Nat /\ cursor > 0 /\ section.acq \in Chosen
        /\ SectionIs(section, OfAcq(Before(cursor), section.acq))
        /\ Fits(section.acq, cursor) /\ rowsOut = RowsBefore(section.acq)
    BY <1>1, <1>2 DEF GoodNow, Good
  <1>4. ReportOver
    BY <1>1, <1>3, RefuseReportOver
  <1> QED BY <1>2, <1>4, AbandonKeeps

LEMMA PageTooLongKeeps == ASSUME SummaryInv, PageTooLong PROVE SummaryInv'
  <1>1. Abandon("page")
    BY DEF PageTooLong
  <1>2. "page" \in {"limit", "page"} /\ "page" # "limit"
    OBVIOUS
  <1> QED BY <1>1, <1>2, AbandonKeeps

LEMMA StutterKeeps == ASSUME SummaryInv, UNCHANGED avars PROVE SummaryInv'
  <1>1. Inputs /\ GoodNow
    BY SummaryIsGood
  <1>2. /\ Still /\ pass' = pass /\ panel' = panel /\ cursor' = cursor /\ result' = result /\ sections' = sections
        /\ section' = section /\ rowsOut' = rowsOut
    BY DEF avars, Still
  <1>3. GoodNext
    BY <1>1, <1>2, Zenon DEF GoodNow, GoodNext
  <1> QED BY <1>1, <1>2, <1>3, GoodIsSummary

LEMMA SummaryImplies == ASSUME SummaryInv PROVE SummariesExact
  <1>1. Inputs /\ GoodNow
    BY SummaryIsGood
  <1>2. ASSUME panel = "shown"
        PROVE  /\ PanelShows(Measured) /\ ~ PanelOver
               /\ Total([k \in 1..MaxObservations |-> result.groups[k - 1].observed]) = result.total.observed
               /\ result.waves = Cardinality(WaveformRows) + Cardinality(Strays)
    <2>1. PanelIs(result, Measured) /\ ~ PanelOver /\ result.waves = Cardinality(WavesChosen)
      BY <1>1, <1>2 DEF GoodNow, Good
    <2>2. PanelShows(Measured)
      BY <2>1, Zenon DEF PanelIs, PanelShows
    <2>3. Cardinality(WavesChosen) = Cardinality(WaveformRows) + Cardinality(Strays)
      BY <1>1, WavesAgree
    <2> QED BY <1>1, <2>1, <2>2, <2>3, GroupsTotal
  <1>3. (panel = "refused" => PanelOver) /\ (pass = "empty" => Measured = {}) /\ (pass = "limit" => ReportOver)
    BY <1>1 DEF GoodNow, Good
  <1>4. ASSUME pass = "done" PROVE SectionsShow(Measured) /\ ~ ReportOver
    <2>1. SumsAre(sections, Measured) /\ ~ ReportOver
      BY <1>1, <1>4 DEF GoodNow, Good
    <2> QED BY <2>1, Zenon DEF SumsAre, SectionsShow
  <1> QED BY <1>2, <1>3, <1>4, Zenon DEF SummariesExact

\* For every recording a reader accepts, every selection and all bounds, what
\* the analysis panel and a finished report say of the selection is what was
\* measured in it, both are refused only when what was measured is beyond one
\* of their bounds, and none that is beyond them is shown or written
\* (storage.cpp analyze, report.cpp consume, write and export_survey_report).
THEOREM SummariesAreExact == AnalysisSpec => []SummariesExact
  <1>1. AnalysisInit => SummaryInv
    BY SummaryInit
  <1>2. SummaryInv /\ [AnalysisNext]_avars => SummaryInv'
    BY RefuseKeeps, AnalyzeTileKeeps, EndAnalyzeKeeps, RefusePanelKeeps, BeginSectionKeeps, ReportTileKeeps,
       EndSectionKeeps, RefuseReportKeeps, PageTooLongKeeps, StutterKeeps DEF AnalysisNext
  <1>3. SummaryInv => SummariesExact
    BY SummaryImplies
  <1> QED BY <1>1, <1>2, <1>3, PTL DEF AnalysisSpec
=============================================================================
