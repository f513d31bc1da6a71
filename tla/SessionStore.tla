---------------------------- MODULE SessionStore ----------------------------
(***************************************************************************)
(* The recording of a survey: the writable SessionStore (storage.cpp), the *)
(* SQLite file behind it, and the engine's session lifecycle that calls it *)
(* (engine.cpp, engine_rak.inc).                                           *)
(*                                                                         *)
(* db is the database as the writing connection sees it, disk the last     *)
(* committed revision: what every reader, every copy and a restart after a *)
(* crash gets.  mem is what the store object remembers between calls       *)
(* (batch open, power block, fix cache): SQLite does not roll it back.     *)
(* torn records that the last batch on disk was committed by a store being *)
(* destroyed and not by a save or a begin.                                 *)
(*                                                                         *)
(* A row is a spectrum tile ("detailed" schema 5, "compact" schema 6) or a *)
(* concentrator scan ("rak" schema 7).                                     *)
(* Times are whole units of the survey clock.  A failing statement leaves  *)
(* the transaction open, as SQLite does for a statement-level abort.       *)
(***************************************************************************)
EXTENDS Integers, Sequences, FiniteSets, SequencesExt

CONSTANTS Kinds,        \* the recording formats tried
          Fixes,        \* receiver positions
          Events,       \* <<kind, event>>: throwing calls and copies tried with a kind
          MaxClock,     \* bound: survey clock
          MaxRows,      \* bound: tiles or scans of one recording
          MaxRecs,      \* bound: receptions of one recording
          MaxSegs,      \* bound: acquisitions (2048 in the code)
          BlockSpan,    \* longest power block (1 s in the code)
          CacheSize     \* recent_fixes_ (128 in the code)

ASSUME StoreAssumption ==
  /\ Kinds \subseteq {"detailed", "compact", "rak"}
  /\ BlockSpan \in Nat \ {0} /\ CacheSize \in Nat \ {0}

VARIABLES kind, db, disk, mem, eng, copy, torn

vars == <<kind, db, disk, mem, eng, copy, torn>>

NoBlock == [id |-> 0, from |-> 0, to |-> 0]

\* A recording just created, with its acquisition tables.
FreshDb ==
  [pos |-> <<>>, power |-> <<>>, rows |-> <<>>, recs |-> <<>>, pkts |-> 0,
   segs |-> <<>>, dec |-> {0}, status |-> TRUE, elapsed |-> 0, complete |-> FALSE]

FreshMem ==
  [pending |-> FALSE, acq |-> 0, prevEnd |-> 0, block |-> NoBlock, cache |-> <<>>]

IdleEngine ==
  [phase |-> "new", clock |-> 0, meas |-> 0, start |-> 0, segs |-> 0,
   rows |-> 0, recs |-> 0, failed |-> FALSE, final |-> FALSE, saved |-> FALSE]

Larger(a, b) == IF a >= b THEN a ELSE b

Happens(call) == <<kind, call>> \in Events

\* The host clock alone, which may be behind the last measured sample.
Elapsed_HostClock == eng.clock

\* The elapsed time the engine publishes: never before its last measurement.
Elapsed ==
  IF kind = "rak" THEN eng.clock
  ELSE Larger(eng.meas, Larger(eng.start, eng.clock))

-----------------------------------------------------------------------------
(* The reader (open_readonly, read and the visitors): what it accepts.     *)

\* acquisitions(): numbered, in order, only the last may be open, each with
\* its decoder record and none without an acquisition.
SegmentsAccepted(d) ==
  /\ \A i \in 1..Len(d.segs) :
       /\ d.segs[i].to >= d.segs[i].from
       /\ i > 1 => d.segs[i - 1].final /\ d.segs[i].from >= d.segs[i - 1].to
       /\ i \in d.dec
       /\ d.segs[i].to <= d.elapsed
  /\ IF d.segs = <<>> THEN d.dec = {0} ELSE d.dec \subseteq 1..Len(d.segs)

\* acquisition_config_at: the last acquisition begun by time t, 0 before any.
SegmentAt(d, t) ==
  LET begun == {i \in 1..Len(d.segs) : d.segs[i].from <= t}
  IN  IF begun = {} THEN 0 ELSE CHOOSE i \in begun : \A j \in begun : j <= i

\* record_config: a record begins in an acquisition, not after its recorded end
\* whether or not that is final, and does not cross a final end.
InOneSegment(d, from, to) ==
  LET n == SegmentAt(d, from)
  IN  /\ n # 0 /\ from <= d.segs[n].to
      /\ to >= from /\ (d.segs[n].final => to <= d.segs[n].to)

\* tile_from, concentrator_scan_from: what a row refers to is kept.
RowLinked(d, r) ==
  /\ d.segs # <<>>
  /\ r.fix \in 0..Len(d.pos)
  /\ r.power # 0 =>
       /\ r.power \in DOMAIN d.power
       /\ LET b == d.power[r.power] IN
            b.from <= r.from /\ r.to <= b.to /\ b.to - b.from <= BlockSpan

\* Rows of one board (all tiles count as one board) never overlap.
RowsOrdered(d) ==
  \A i, j \in 1..Len(d.rows) :
    (i < j /\ d.rows[i].board = d.rows[j].board) => d.rows[i].to <= d.rows[j].from

\* The checks of a file that do not depend on where its records lie in time.
Intact(d) ==
  /\ SegmentsAccepted(d)
  /\ d.status
  /\ \A i \in 1..Len(d.rows) : RowLinked(d, d.rows[i])
  /\ RowsOrdered(d)
  /\ kind = "rak" => d.pkts = Len(d.recs)
  /\ d.recs # <<>> => d.segs # <<>>

\* Every row, the power block it refers to and every reception (which also
\* stands for a waveform or an event) lies in one acquisition.
Placed(d) ==
  /\ \A i \in 1..Len(d.rows) :
       LET row == d.rows[i] IN
         /\ InOneSegment(d, row.from, row.to)
         /\ row.power # 0 => InOneSegment(d, d.power[row.power].from, d.power[row.power].to)
  /\ \A i \in 1..Len(d.recs) : InOneSegment(d, d.recs[i], d.recs[i])

ReadAccepts(d) == Intact(d) /\ Placed(d)

-----------------------------------------------------------------------------
(* Helpers of the writing store.                                           *)

IndexOfFix(s, f) == {i \in 1..Len(s) : s[i] = f}

\* ensure_fix: the cache, then the table, then a new row.
EnsureFix(d, m, f) ==
  LET cached == {c \in Range(m.cache) : c.fix = f}
      known  == IndexOfFix(d.pos, f)
      id     == IF cached # {} THEN (CHOOSE c \in cached : TRUE).id
                ELSE IF known # {} THEN CHOOSE i \in known : TRUE
                ELSE Len(d.pos) + 1
      cache  == Append(m.cache, [fix |-> f, id |-> id])
  IN  [db  |-> IF cached = {} /\ known = {} THEN [d EXCEPT !.pos = Append(@, f)] ELSE d,
       mem |-> IF cached # {} THEN m
               ELSE [m EXCEPT !.cache = IF Len(cache) > CacheSize THEN Tail(cache) ELSE cache],
       id  |-> id]

\* append(SpectrumTile), compact: the tile extends the open power block when it
\* continues it, else a new block begins; the block's row is saved either way.
NextBlock(b, from, to) ==
  IF b.to > b.from /\ b.to = from /\ to - b.from <= BlockSpan
  THEN [b EXCEPT !.to = to]
  ELSE [id |-> b.id + 1, from |-> from, to |-> to]

PutBlock(power, b) ==
  [i \in DOMAIN power \cup {b.id} |->
     IF i = b.id THEN [from |-> b.from, to |-> b.to] ELSE power[i]]

\* append(CoverageGap) and begin_acquisition close the open block, keep its id.
CloseBlock(b) == [NoBlock EXCEPT !.id = b.id]

\* begin_batch
Batch(m) == [m EXCEPT !.pending = TRUE]

\* A save that rewrites the rows of the current acquisition, as the code does
\* for the discovery status.
UpdatedDb_CurrentOnly(d, m, final, failed) ==
  [d EXCEPT !.rows = SelectSeq(@, LAMBDA r : r.from >= eng.start),
            !.segs[m.acq] = [@ EXCEPT !.to = Elapsed, !.final = final],
            !.elapsed = Elapsed]

\* update: the statements between begin_batch and COMMIT.
UpdatedDb(d, m, final, failed) ==
  [d EXCEPT !.segs = IF m.acq = 0 THEN @
                     ELSE [d.segs EXCEPT ![m.acq] = [@ EXCEPT !.to = Elapsed, !.final = final]],
            !.dec = @ \cup {m.acq},
            !.elapsed = Elapsed,
            !.complete = final /\ ~failed,
            !.status = TRUE]

\* The destructor commits an open batch.
DestructorCommit == IF mem.pending THEN db ELSE disk

-----------------------------------------------------------------------------
(* Engine calls.                                                           *)

\* The worker failed: process() returns without a final save, the
\* concentrator path still drains its receivers and saves.
Failed(e) ==
  [e EXCEPT !.failed = TRUE, !.saved = FALSE,
            !.phase = IF kind = "rak" THEN "drain" ELSE "idle"]

Working == eng.phase \in {"run", "drain"}

Tick ==
  /\ eng.phase # "new" /\ eng.clock < MaxClock
  /\ eng' = [eng EXCEPT !.clock = @ + 1, !.saved = FALSE]
  /\ UNCHANGED <<kind, db, disk, mem, copy, torn>>

\* The rows begin_acquisition leaves after its first n statements.
BeginDb(d, seg, n) ==
  LET d1 == IF n >= 1 THEN [d EXCEPT !.segs = Append(@, seg)] ELSE d
      d2 == IF n >= 2 THEN [d1 EXCEPT !.dec = @ \ {0}] ELSE d1
      d3 == IF n >= 3 THEN [d2 EXCEPT !.dec = @ \cup {Len(d1.segs)}] ELSE d2
      d4 == IF n >= 4 THEN [d3 EXCEPT !.complete = FALSE,
                                      !.elapsed = Larger(@, seg.to)] ELSE d3
      d5 == IF n >= 5 THEN [d4 EXCEPT !.status = FALSE] ELSE d4
  IN  IF n >= 6 THEN [d5 EXCEPT !.status = TRUE] ELSE d5

\* start(): the survey clock at which the acquisition begins.
RunStart(resume) == IF resume THEN Larger(Elapsed, eng.clock) ELSE 0

\* begin_acquisition(): all statements and COMMIT, or a throw after n of them
\* that leaves the batch open; start() gives up a new store, which commits it.
BeginAcquisition(d, m, e) ==
  /\ d.segs # <<>> => Last(d.segs).final
  /\ LET seg == [from |-> e.start, to |-> e.start, final |-> FALSE]
         m1  == [Batch(m) EXCEPT !.block = CloseBlock(@)]
     IN
      \/ /\ db' = BeginDb(d, seg, 6)
         /\ disk' = db'
         /\ mem' = [m1 EXCEPT !.pending = FALSE, !.acq = Len(db'.segs)]
         /\ eng' = [e EXCEPT !.phase = "starting", !.segs = @ + 1, !.final = FALSE,
                             !.failed = FALSE]
         /\ torn' = FALSE
      \/ \E n \in 0..6 :
           /\ Happens("begin")
           /\ db' = BeginDb(d, seg, n)
           /\ disk' = IF e.phase = "new" THEN db' ELSE disk   \* store.reset()
           /\ mem' = IF e.phase = "new" THEN FreshMem
                     ELSE IF n >= 3 THEN [m1 EXCEPT !.acq = Len(db'.segs)] ELSE m1
           /\ eng' = e
           /\ torn' = (e.phase = "new")

\* start() of a new survey, in a new file: create, enable_acquisitions,
\* begin_acquisition.
StartNew ==
  /\ eng.phase = "new"
  /\ BeginAcquisition(FreshDb, FreshMem, IdleEngine)
  /\ UNCHANGED <<kind, copy>>

\* A verification that only reads the file back.
Verified_Read == ReadAccepts(disk)

\* save_locked() of a stopped session: the final save was confirmed, and the
\* file reads back with the counts of the finished session.
Verified ==
  /\ eng.final
  /\ ReadAccepts(disk)
  /\ Len(disk.recs) = eng.recs
  /\ kind = "rak" => Len(disk.rows) = eng.rows

\* start() of a resumed survey: the pause is recorded as a gap first.
Resume ==
  /\ eng.phase = "idle" /\ Verified /\ eng.segs < MaxSegs
  /\ LET start == RunStart(TRUE)
         gap   == kind # "rak" /\ start > db.segs[Len(db.segs)].to
         m     == IF gap THEN [Batch(mem) EXCEPT !.block = CloseBlock(@)] ELSE mem
     IN  BeginAcquisition(db, m, [eng EXCEPT !.start = start, !.saved = FALSE])
  /\ UNCHANGED <<kind, copy>>

\* update(): BEGIN, the statements, COMMIT; a throw rolls the batch back.
Update(d, m, final, ok, ko) ==
  \/ /\ db' = UpdatedDb(d, m, final, eng.failed)
     /\ disk' = db'
     /\ mem' = [m EXCEPT !.pending = FALSE]
     /\ eng' = ok
  \/ /\ Happens("update")
     /\ db' = disk /\ UNCHANGED disk
     /\ mem' = [m EXCEPT !.pending = FALSE]
     /\ eng' = ko

\* The receiver starts, or fails to: start() then finalizes the acquisition.
WorkerStarts ==
  /\ eng.phase = "starting"
  /\ \/ eng' = [eng EXCEPT !.phase = "run"] /\ UNCHANGED <<db, disk, mem>>
     \/ LET e == [eng EXCEPT !.phase = "idle", !.failed = TRUE]
        IN  Update(db, mem, TRUE, [e EXCEPT !.final = TRUE], e)
  /\ UNCHANGED <<kind, copy, torn>>

\* A detailed recording keeps the fix in the row itself: one stands for all.
NearFixes == IF kind = "detailed" THEN {CHOOSE f \in Fixes : TRUE} ELSE Fixes

\* checkpoint(): the current position, then update().
Checkpoint ==
  /\ eng.phase = "run"
  /\ \E f \in NearFixes :
       LET r == IF kind = "detailed" THEN [db |-> db, mem |-> mem, id |-> 0]
                ELSE EnsureFix(db, mem, f)
       IN  Update(r.db, r.mem, FALSE, eng, Failed(eng))
  /\ UNCHANGED <<kind, copy, torn>>

\* append(SpectrumTile): a tile of one unit, at or after the end of the last.
AppendTile ==
  /\ kind # "rak" /\ Working /\ eng.rows < MaxRows
  /\ \E f \in NearFixes, from \in Larger(mem.prevEnd, eng.start)..eng.clock :
       LET to  == from + 1
           r   == IF kind = "compact" THEN EnsureFix(db, mem, f)
                  ELSE [db |-> db, mem |-> mem, id |-> 0]
           b   == NextBlock(mem.block, from, to)
           row == [from |-> from, to |-> to, board |-> 0, fix |-> r.id,
                   power |-> IF kind = "compact" THEN b.id ELSE 0]
           d   == IF kind = "compact" THEN [r.db EXCEPT !.power = PutBlock(@, b)] ELSE r.db
       IN  \/ /\ row.fix \in 0..Len(d.pos)
              /\ db' = [d EXCEPT !.rows = Append(@, row)]
              /\ mem' = [Batch(r.mem) EXCEPT !.prevEnd = to,
                           !.block = IF kind = "compact" THEN b ELSE @]
              /\ eng' = [eng EXCEPT !.meas = Larger(@, to), !.rows = @ + 1]
           \/ /\ Happens("append") \/ row.fix \notin 0..Len(d.pos)
              /\ db' \in {db, d, disk}                \* disk: SQLite gave up the batch
              /\ mem' = [Batch(r.mem) EXCEPT !.block = IF kind = "compact" THEN b ELSE @]
              /\ eng' = Failed(eng)
  /\ UNCHANGED <<kind, disk, copy, torn>>

\* append(CoverageGap): lost input closes the power block.
AppendGap ==
  /\ kind = "compact" /\ Working /\ mem.block.to > mem.block.from
  /\ mem' = [Batch(mem) EXCEPT !.block = CloseBlock(@)]
  /\ UNCHANGED <<kind, db, disk, eng, copy, torn>>

LastOfBoard(d, i) ==
  LET ends == {d.rows[k].to : k \in {k \in 1..Len(d.rows) : d.rows[k].board = i}}
  IN  IF ends = {} THEN 0 ELSE CHOOSE e \in ends : \A x \in ends : x <= e

\* append(ConcentratorScan): the fix by reference, a foreign key.
AppendScan ==
  /\ kind = "rak" /\ Working /\ eng.rows < MaxRows
  /\ \E f \in Fixes, i \in {1, 2}, to \in 1..eng.clock :
       LET r    == EnsureFix(db, mem, f)
           from == to - 1
           row  == [from |-> from, to |-> to, board |-> i, fix |-> r.id, power |-> 0]
       IN  /\ from >= Larger(LastOfBoard(db, i), eng.start)
           /\ \/ /\ r.id \in 1..Len(r.db.pos)
                 /\ db' = [r.db EXCEPT !.rows = Append(@, row)]
                 /\ mem' = Batch(r.mem)
                 /\ eng' = [eng EXCEPT !.rows = @ + 1]
              \/ /\ Happens("append") \/ r.id \notin 1..Len(r.db.pos)
                 /\ db' = r.db
                 /\ mem' = Batch(r.mem)
                 /\ eng' = Failed(eng)
  /\ UNCHANGED <<kind, disk, copy, torn>>

\* append(Reception): the reception and its concentrator record in a savepoint.
\* A frame is reported after it began, within the published elapsed time.
ReceptionRows(d, at) ==
  [d EXCEPT !.recs = Append(@, at), !.pkts = IF kind = "rak" THEN @ + 1 ELSE @]

AppendReception ==
  /\ Working /\ eng.recs < MaxRecs
  /\ mem' = Batch(mem)
  /\ \/ /\ \E at \in eng.start..Elapsed : db' = ReceptionRows(db, at)
        /\ eng' = [eng EXCEPT !.recs = @ + 1]
     \/ /\ Happens("append")
        /\ UNCHANGED db                                \* ROLLBACK TO reception
        /\ eng' = Failed(eng)
  /\ UNCHANGED <<kind, disk, copy, torn>>

\* stop(): the loop ends, completed records are still drained.
StopRun ==
  /\ eng.phase = "run"
  /\ eng' = [eng EXCEPT !.phase = "drain"]
  /\ UNCHANGED <<kind, db, disk, mem, copy, torn>>

\* The final save of the worker.
FinalSave ==
  /\ eng.phase = "drain"
  /\ LET e == [eng EXCEPT !.phase = "idle"]
     IN  Update(db, mem, TRUE, [e EXCEPT !.final = TRUE],
                [e EXCEPT !.failed = TRUE, !.final = FALSE])
  /\ UNCHANGED <<kind, copy, torn>>

\* save_session() of a stopped session; it reports success or an error.
Save ==
  /\ eng.phase = "idle"
  /\ eng' = [eng EXCEPT !.saved = Verified]
  /\ UNCHANGED <<kind, db, disk, mem, copy, torn>>

\* new_session() after a verified save (or with nothing measured),
\* open_session() and the end of the program: the store is destroyed, and
\* commits what a failed call left in the batch.
CloseSession ==
  /\ eng.phase = "idle"
  /\ disk' = DestructorCommit
  /\ db' = disk' /\ mem' = FreshMem
  /\ eng' = IdleEngine /\ torn' = mem.pending
  /\ UNCHANGED <<kind, copy>>

\* The process dies: the open batch and all memory are gone.
Crash ==
  /\ eng.phase # "new"
  /\ db' = disk /\ mem' = FreshMem /\ eng' = IdleEngine /\ torn' = FALSE
  /\ copy' = IF copy.state = "pinned" THEN [state |-> "left", rev |-> FreshDb] ELSE copy
  /\ UNCHANGED <<kind, disk>>

\* save_copy(): one committed revision is pinned while the lifecycle lock is
\* held, then copied row by row while the recording goes on.
CopyPin ==
  /\ Happens("copy") /\ copy.state = "none" /\ eng.phase \in {"run", "idle"}
  /\ ReadAccepts(disk)
  /\ copy' = [state |-> "pinned", rev |-> disk]
  /\ UNCHANGED <<kind, db, disk, mem, eng, torn>>

\* The rows of the pinned revision, one table after the other.
CopiedRows == copy.rev.rows

CopyEnds ==
  /\ copy.state = "pinned"
  /\ \/ copy' = [state |-> "whole", rev |-> [copy.rev EXCEPT !.rows = CopiedRows]]
     \/ copy' = [state |-> "left", rev |-> FreshDb]     \* ROLLBACK, file stays
  /\ UNCHANGED <<kind, db, disk, mem, eng, torn>>

Init ==
  /\ kind \in Kinds
  /\ db = FreshDb /\ disk = FreshDb /\ mem = FreshMem
  /\ eng = IdleEngine /\ torn = FALSE
  /\ copy = [state |-> "none", rev |-> FreshDb]

Next ==
  \/ Tick \/ StartNew \/ Resume \/ WorkerStarts \/ Checkpoint
  \/ AppendTile \/ AppendGap \/ AppendScan \/ AppendReception
  \/ StopRun \/ FinalSave \/ Save \/ CloseSession \/ Crash
  \/ CopyPin \/ CopyEnds

Spec == Init /\ [][Next]_vars

-----------------------------------------------------------------------------
(* Properties.                                                             *)

\* Whatever was interrupted, by a crash, a failed call or a stop, the file on
\* disk keeps its structure (acquisitions, references, order), and it and every
\* finished or abandoned copy is a recording the reader accepts.  The exception
\* is a file torn by its own store: when an append throws, the worker ends
\* without a final save and the store's destructor commits the batch, so records
\* may lie after the recorded end of their acquisition and the reader refuses
\* them (storage.cpp: update, begin_acquisition, ~SessionStore and save_copy
\* against acquisition_config_at, record_config, read and visit_*).
DurableReadable ==
  /\ Intact(disk)
  /\ ~torn => Placed(disk)
  /\ copy.state # "none" => ReadAccepts(copy.rev)

\* When Save of a stopped session reports success, every measurement and
\* reception the engine counted is on disk and the recording is finalized.
SaveMeansDurable ==
  eng.saved => /\ Len(disk.rows) = eng.rows /\ Len(disk.recs) = eng.recs
               /\ disk.segs[Len(disk.segs)].final

\* The recording implements the ledger: rows become durable in whole batches,
\* in order, and are never changed or lost once they are durable.
Ledger == INSTANCE SessionLedger WITH
  durable <- disk.rows,
  volatile <- SubSeq(db.rows, Len(disk.rows) + 1, Len(db.rows))

LedgerImplemented == Ledger!LedgerSpec

\* "Publish the new acquisition and its setup as one readable checkpoint"
\* (storage.cpp, begin_acquisition): no committed revision holds an
\* acquisition without its decoder setup and discovery status.
AcquisitionPublishedWhole ==
  disk.status /\ \A i \in 1..Len(disk.segs) : i \in disk.dec
=============================================================================
