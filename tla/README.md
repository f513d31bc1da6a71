# A TLA+ development of OVMeshDR++

OVMeshDR++ is a receive-only radio survey program. A receiver (HackRF, RTL-SDR,
a RAK5146 concentrator, or a synthetic source) delivers samples; the engine
measures their spectrum, records what it measured and what it missed, looks for
LoRa transmissions on the side, attaches receiver positions, and keeps all of it
in a session file. What makes it hard is not the signal processing but the
threads around it: a driver callback that may never block, a worker that must
account for every sample, a pool of detector threads behind bounded queues, a
serial GPS reader, and an operator who may stop, save or disconnect at any time.
These modules model that part, check it with TLC and prove most of its safety properties
with TLAPS.

Source paths are relative to the repository's checkout `src/`, so the program's
own code is under `src/src/`.

## 1. Inventory

| component | state | operations | hard behaviour |
|---|---|---|---|
| discovery worker, source side (`discovery_worker.cpp`) | source queue, `closed`/`failed`/`producer_done`, gap ledger, counters | `submit`, `produce`, `take_gaps`, `finish` | a caller that never waits against a producer that sleeps; refusals must stay accounted; close and failure race with `submit` |
| discovery worker, detector side (`discovery_worker.cpp`) | per-band staging, job slots, ready FIFOs, `occupied_count`, `pending_detector_jobs`, `detector_busy` | `append`, `enqueue`, `new_segment`, `consume`, `fail`, discards | any thread serves any queue, out of FIFO order but in band order; slots outlive their FIFO entry; lost wakeups; accounting after a failure |
| acquisition engine (`engine.cpp`) | sample ring, `run`, `input_finished`, coordinates, view counters, save requests | `deliver`, `process`, `save_locked`, `stop_locked`, `start` | lock-free ring; drops visible only later; checkpoint against save request; stop order; watchdog; resume |
| spectrum processor (`spectrum.cpp`) | open frame, open tile, event tracks | `feed`, `gap`, `finish` | partial frames at gaps; tracks that split, merge and overflow their table |
| RTL-SDR pump (`rtl_input.hpp`) | thread, `finished_` | `start`, `stop` | a cancellation that comes too early is lost |
| RAK5146 process (`rak_process.cpp`, `rak_worker.c`, `engine_rak.inc`) | pipe, child, partial line | `start`, `poll`, `stop`, the board loop | a child that hangs, exits or sends late; a data drain that its exit status does not prove |
| serial GPS (`gps.cpp`) | `running`, epoch memory, connection status | `read_loop`, `deliver`, `start`, `stop`, `status` | callback in flight during stop; repeated epochs; error overwritten by its own marker |
| positions (`engine.cpp`, `gps.cpp`) | `fix_history`, `current_fix` | `position`, `clear_live_position_locked`, `position_at`, engine calls | entries stamped at one time and pushed at another |
| session storage (`storage.cpp`) | SQLite batch, power block, fix cache, acquisition segments | `append`, `update`, `begin_acquisition`, `save_copy`, `read` | crash or failed statement between commits; memory that SQLite does not roll back; copy during recording |
| analysis and reports (`storage.cpp`, `report.cpp`) | accumulators by bin, time group and cell, rows written | `analyze`, `AggregateReport`, `Csv` | frames cut by the selection or a group; two readers that must agree; bounds on memory and rows that must refuse, never shorten |
| export (`storage.cpp`, `ui.cpp`) | window, file being written | `export_report`, `export_session` | survey replaced under a reviewed window; deletion of a failed file |
| automatic decoder (`discovery_decoder.cpp`) | history ring, active decoders, counters | `feed`, `observe`, `reset` | replay out of a ring that live samples overwrite |
| observations (`discovery_observations.hpp`) | 256 recent observations | `observe` | order of fits, drift by pairwise matches |
| bursts (`bursts.cpp`) | open bursts | `consume`, `finish` | one component, several bursts, and the reverse |
| settings (`preferences.cpp`, `ui_workflow.hpp`) | setup, settings file | edit, switch receiver, save, load | crash during replacement, another writer |
| board identity (`gps_discovery.cpp`, `ui.cpp`) | inventory, chosen boards | choose, resolve, start, open | units moved between three inventories and the opening of a node by name |
| size monitor (`session_disk.hpp`) | pending task, shown size | `poll` | result of an earlier session |
| desktop (`ui.cpp`, `ui_workflow.hpp`) | frame snapshot, operation, analysis, dialogs | event loop, buttons, close, deadline, stop signal | decisions on an old snapshot; three threads that may stop the engine |
| PHY, protocol, channelizer, LoRa discovery | numeric state | feed | numeric, not for a model checker |
| CLI, drawing, assets | none that lasts | parse, draw | I/O and formatting |

How they interact: the driver callback (or synthetic thread) calls
`Engine::Impl::deliver`; the worker thread reads the ring, feeds the spectrum
processor, the lanes and `DiscoveryWorker::submit`, writes the store and polls
discovery results; the discovery worker has its own producer and three detector
threads; the GPS reader calls `Engine::Impl::position`; the UI or the CLI calls
the engine under the `lifecycle` mutex. Positions are asked for by time when a
record is stamped. The full list, with what is not modelled and why, is
`components` in `PROJECT.json`; the exposed lines are under `hazards`.

## 2. Modules

### DetectorPool — `discovery_worker.cpp`, detector side

Variables carry the source's names in camel case: `jobs`, `occupied`,
`occupiedCount`, `ready` (the circular FIFO as a sequence of slots),
`pendingJobs`, `busy`, `nextQueue`, `staging`, `segment`. `ppc` is the producer's
place and `stage` the loop (flush, reset, feed, append) that called `enqueue`;
`wpc[w]` is a detector's place and `held[w]` its claimed slot. Samples are counted,
not represented. A step is a critical section or the code between two. A thread
whose predicate is false *dozes*, still holding the mutex, before it sleeps: a
notification without the mutex can then fall between predicate and sleep, as in
the real condition variable. `emitted` is a history variable.

### DiscoverySource — `discovery_worker.cpp`, source side

`submit()` is split where the code takes `source_mutex`: before it (order, size and
failure tests, expected coordinate) and under it (`closed` and `failed` read again,
capacity, copy). `GapLocked` is `gap_locked` with its coalescing and its overflow.
`discard_pending_sources` runs block by block under both mutexes. The detector side
appears as a failure at any time and as band gaps after it; that the detectors
leave their loop so that `finish()` can join them is `EndJoins` of DetectorPool.
Left out: `start()` failing to create a thread and a second `finish()`.

### Acquisition — `engine.cpp`, with `spectrum.cpp` and `rtl_input.hpp`

One recorded survey. `deliver` is four steps (test `run`, take coordinates, test for
room, write and publish), as its atomics are. The worker's steps follow `process()`:
loop condition, requested checkpoint (copy, commit and confirm), pick or watch,
read a block (with the flush at a hole), release it, feed it, periodic checkpoint,
finalize, final commit. `tiles` and `gaps` are the sample coordinates, absolute
over the survey, that the store was given. A store call may throw. A record that a
throwing step had already appended is not kept: such a run is never finalized and
not resumed. `Silence` is two seconds without a call of `deliver()`. A save on a
survey that does not run is `stop_locked` and a verification that changes nothing.
Lane decoding, positions and windows do not touch this state. A new survey and a
historical one are outside; so is a thread that cannot be created after
`hackrf_start_rx`.

### GpsPositions — `gps.cpp`, positions in `engine.cpp`

The reader thread (`reader`), the fix it is delivering (`inflight`), its epoch memory
and status, and the client's engine calls. A sentence is what `parse_nmea` makes of
it: an epoch and whether the fix is usable. It is stamped when parsed and pushed when
the callback gets the engine's mutex; time and the client move in between.
`connect_gps` holds that mutex until its marker is in. There is one client thread,
as the lifecycle mutex makes it. `view.track` and `gps_status` are left out.

### SessionStore, SessionLedger — `storage.cpp`, session calls of `engine.cpp`

`db` is the database as the writing connection sees it, `disk` the last committed
revision, `mem` what the store object remembers and SQLite does not roll back (open
batch, power block, fix cache), `eng` the engine's session and its counters. One
action per store or engine call: begin and resume an acquisition, append a tile, a
gap, a scan or a reception, checkpoint, final save, Save with its verification,
New, crash, and a copy that pins one revision. The recording format is chosen in
the initial state. A statement may throw where `Events` allows it. A tile
append that throws leaves the batch as it was, with the rows written before the
failing statement, or gone (SQLite gives up the transaction for some errors); in the
RAK format only the statement is lost. `ReadAccepts` is what
`read` and the row visitors demand of a file, in two parts. `Intact` is its structure:
acquisitions in order, every reference kept, rows in order, packets as many as
receptions. `Placed` is `record_config` with `acquisition_config_at`: a record begins
in an acquisition, not before the first and not after the recorded end of its own,
final or not, and does not cross a final end. Rows, the power blocks they refer to and
receptions are tested; a reception has a time and also stands for a waveform or an
event. It is reported after it began, and a frame lasts longer than the tile by which
the published elapsed time may run ahead, so its time lies between the start of the
acquisition and the elapsed time. `torn` says that the file was last committed by the
destructor of a store, in the middle of a batch.

`SessionLedger` is the promise: measurements are volatile, become durable in whole
batches, are lost in whole batches, and durable ones never change until another
recording takes the file's place. `LedgerImplemented` is the refinement:
`durable` is `disk.rows`, `volatile` the rest of `db.rows`.

### RakReceiver, RtlPump — the other receivers

RakReceiver has the worker process of each board (init, scan, receiver failure,
STOP, close, exit, death), the pipe with whole and torn lines (records with a kind; a
scan also has its sweep point and number), the parser, and the
engine's thread: start boards, poll them, and stop each with up to `MaxTries`
rounds of reading and waiting before it kills. A scan stands for every measurement
record. Heartbeats show as the absence of a timeout. RtlPump has the thread
inside the driver's blocking read and the stopper that repeats its cancellation;
librtlsdr is external and a cancellation before the read is prepared does nothing.

### SpectrumEvents, BurstGrouper — activity over time

Both keep, as a history, the cells `<<frame, bin>>` a track or burst has summed in
place of levels. SpectrumEvents is `events()`: runs of active bins (`RunsOf`), runs
closer than the resolution merged (`Grouped`), components of runs and tracks
(`Component`), the record each becomes (`Joined`), the table limit, the two-second cut
and `flush`. BurstGrouper is `consume` and `finish`. A component runs from a bin of
`Starts` to the next bin of `Ends`; `Piece` is a component with its frames and the live
tracks it matches; `AfterSweeps` combines the components of one sweep, which keeps the
matches of its first one, as the code's `matches` vector does; then a live track is
`Grown`, `Quiet` or `Retired` by contention, and every other component is `New`. Tiles
are taken whole.

### DiscoveryDecoder, DiscoveryObservations — what discovery does with a waveform

DiscoveryDecoder is one subband's decoder: the ring, the reasons a candidate is
declined (in the code's order), the replay and the live feed up to the deadline.
The PHY may complete a frame in any block. DiscoveryObservations associates fits of
several subbands, for one bandwidth and spreading factor (others never match).

### SurveyAnalysis, SurveyExport — reading a survey

SurveyAnalysis runs `analyze` and then the report over the same survey, tile by
tile. `survey` and `query` are what is read, `cursor` the next tile of the stream,
`result` the panel, `section` and `sections` the report, `rowsOut` the rows of its file. `AnalysisAssumption` says which
recordings a reader accepts: acquisitions and tiles in order, each record inside its
acquisition (`AcqsOk`, `TilesOk`); a waveform need only meet the frequencies of its
acquisition, as `validate_waveform` asks (`WavesOk`); the readers throw on others. The reference
`Measured` is the set of selected ticks, each with its tile and frame. Bit masks are sets of bins; the `nextafter` of a coarsened group width is left
out, since ticks are integers. Burst grouping inside them is BurstGrouper's.

The bounds are constants and are tested where the code tests them: distinct bins and
gaps of the panel (`TooManyBins`, `RefusePanel`), time groups and cells while the tiles
are read (`TooMany`, `TileOver`: `bucket`, `time_value` and `consume`), the late group
and the rows when a section is written (`WriteOver`: `bucket` and `Csv::write`). A
panel that is refused stays empty and a report may still be asked for; a report that is
refused leaves no file (`Abandon`, `write_report_file`). All three summaries are added up
in a section, and the bounds are those of the summaries the report has
(`query.kinds`): one in a CSV report, two or three in the narrative one. The bytes of
the narrative page are not modelled: any of its sections may exceed the 16 MiB bound
(`PageTooLong`), and no property speaks of such a report.
SurveyExport has the export window and the file being written, while a background
Open replaces the survey and other programs create, replace and remove files. The
`lstat` and `unlink` of `discard()` are one step: between them another program could
still put its file under the name, which no portable call prevents.

### Settings, DeviceIdentity, SessionDisk — the desktop's own data

Settings has the controls that edit a setup, the source switch, `validate_preferences`
and `atomic_write` call by call; `diskAfter` is the set of contents a crash may
leave. What is edited and found valid only decides which contents are saved; it is kept
because a save is refused, before anything is written, on a setup that is not valid.
DeviceIdentity has a setup with two boards: a bus on which units move, the
interface's inventory, the one of Start, the engine's own (`EngineStart`, which opens
nothing) and, after it, the opening of each node by name in a process of its own
(`OpenNode`). `checked` has the units the engine's inventory matched, `opened` those the
processes opened, `left` the units unplugged since. SessionDisk is the size monitor.

### Desktop — `ui.cpp`, `ui_workflow.hpp`

The loop of `run_desktop` in its order: finish a completed operation, progress the
analysis, look at the close button, take a snapshot, draw. What a button does is
decided by the frame's snapshot. Engine calls are atomic, since they hold the
lifecycle mutex, and each is the set of its outcomes. One background operation and
one background analysis run beside the loop, as do the receiver, the deadline
thread of a timed run and the stop signal. The automatic start of a managed launch
is the first `ClickStart`. `eng` is the engine's session, `ui` the place in the loop
and what the frame knows, `op` and `ana` the background operation and analysis,
`request` the analysis that waits, `panel` the one that is shown, `consent` the sessions
the user agreed to discard (a history variable).

### Totals, FifoLemmas, *Proofs

Totals has the sum of a sequence and the selection of some of its places, as recursive
functions, for DetectorPool, DiscoveryDecoder and SurveyAnalysis. FifoLemmas has what the proofs need
about them, about sequences and about cardinality. `DetectorPoolProofs`,
`DiscoverySourceProofs`, `AcquisitionProofs`, `GpsPositionsProofs` and
`RakReceiverProofs` are the proofs about one module each; `SessionStoreProofs` those about
SessionStore and about its readers in SurveyAnalysis; `PartsProofs` those about
SessionDisk, Settings, DeviceIdentity, SurveyExport, DiscoveryObservations,
DiscoveryDecoder, SpectrumEvents and BurstGrouper, the modules of the run `parts`, and
about Desktop (section 5). Each module of `parts` has a
specification of its own (`DiskSpec`, `SettingsSpec`, `IdentitySpec`, `ExportSpec`,
`ObservationsSpec`, `DecoderSpec`, `EventsSpec`, `BurstsSpec`, `AnalysisSpec`), which the theorems are about;
the run composes the same initial predicates and actions. `MC*` modules are the instances for TLC.

## 3. Runs

| run | checks | shows |
|---|---|---|
| `pool_schedule` | TypeOK, SlotAccounting, OneJobPerBand, DetectorContinuity | slots, bands and order through claims out of FIFO order, slot reuse, full queues and failures |
| `pool_liveness` | OutputConserved, EndJoins | outputs counted once; the pool joins, drained, after end or failure; no lost wakeup, of the producer on a full queue or of a detector on a busy band |
| `source` | InputConserved, LossReported, SegmentsAreGapless, CloseFinishes | submitted time is accounted for to the sample; `finish()` returns with everything drained |
| `survey` | NoSlotRace, CoverageExact, FinalCoverage, SavedIsDurable, StopReturns, SaveAnswered | ring, coverage over two runs, saves and stop, with all four receivers |
| `survey_drain` | DrainedBeforeFinalizing (violated) | finding 1 |
| `gps_history` | QuietAfterStop, EpochKeepsItsTime, StatusIsHonest, AssociationKept, CallsReturn | reader against operator |
| `gps_marker` | NoFixCrossesMarker (violated) | finding 2 |
| `store` | DurableReadable, SaveMeansDurable, LedgerImplemented | three recording formats through failed statements, crashes, resumption and a copy, and what a failed batch can leave; the refinement |
| `store_begin` | AcquisitionPublishedWhole (violated) | finding 3 |
| `receivers` | CompleteMeansAll, StopReturns, PumpStops | RAK boards that hang, fail or are slow; the repeated cancellation of the RTL-SDR |
| `parts` | EventsPartitionActivity, BurstsAccountable, CandidatesAccounted, ReplayIsExact, ObservationsFaithful, SettingsSurvive, SizeIsOfItsSession, OpenedAsChosen, SummariesExact, ExportAsReviewed, FinishedFilesKept | the self-contained parts |
| `desktop` | UnrecordedKept, ReceptionEnds | event loop, operations, dialogs, deadline, signal |

`parts` and `receivers` hold components that share no state. The initial state
chooses one of them and the others rest, so the runs explore the sum of their state
spaces, not the product. The type invariants of DiscoverySource, Acquisition and
GpsPositions are in no run: they are proved (section 5), as parts of the inductive
invariants. Every inductive invariant was checked by TLC on the bounds above before its
proof; those checks are not kept as runs, since the theorem says more.

Bounds, and why they reach the cases:

* `pool_schedule`: two threads, three bands on two queues of two slots. Bands 0 and 2
  share a queue, so a busy band is passed over for the other (the bypass of
  `eligible_detector_job`), and two slots with a reset and a batch per band fill the
  queue. Threads are interchangeable (symmetry; safety only).
  `pool_liveness`: two bands on one queue of two slots, so the second feed waits for
  space, and once the other band's slot is free a job waits for its own busy band while
  a detector sleeps, also after the end of input; batches of two outputs
  and one output per feed, so full and partial batches occur.
* `source`: a queue of one block, three submits around the expected coordinate (one
  before, at, one after), blocks that fit and blocks that do not, a ledger of two
  entries that overflows.
* `survey*`: a ring of one block, three samples, FFT frames of two: drops, holes,
  partial frames and complete tiles all occur, in two runs of the survey. With a ring
  of one, reader and writer contend for the same slot at once.
* `gps_history`: three ticks with a freshness of one, two epochs, two sentences, three
  calls: connect, a sentence or two, and disconnect or fix, at every time. Trimming
  happens past three entries.

* `store`: three rows, a reception, two fixes with a cache of two, two acquisitions, power blocks of
  two units: a block is closed by its span, by a gap and by a resumption, and a fix is
  found in the cache and outside it. Failing appends and updates are tried with the
  compact and the RAK format, a copy with the detailed one; a behaviour is
  followed until its copy is finished, after which the copy cannot change, or another
  recording has taken the place of the one being copied. Fixes are
  interchangeable (the properties are safety properties and name no fix).
* `receivers`: two boards, one of which may fail; three sweep points, two scans, pipes
  of two lines, two rounds of stop: a full pipe, a torn line, a late scan and a kill all
  occur. Two starts of the pump.
* `parts`: five bins with two tracks and three frames, so that runs exceed the table and
  a track is cut; seven tile shapes over eight bins for bursts (sweeps, the receiver
  center, single-frame seeds); a ring of three samples for six coordinates and two
  segments; three subbands with fits inside and outside the tolerances; three units, two
  of them with one serial number, three ports and four moves; surveys with two
  acquisitions on different grids, with up to two gaps, with and without tiles, waveforms
  inside their acquisition and reaching beyond it, and selections that cut
  frames, bins and groups. At most three bins, one gap, three groups, two cells and five
  rows, so that each bound is met exactly and exceeded.
* `desktop`: two sessions beside one existing recording; every launch kind.

`CHECK_DEADLOCK FALSE` where the system may rest: an engine without a connection once
the bounds are used up (GPS), a closed window, a finished report, a stopped receiver, a
recording that has reached its bounds.

## 4. Fairness

Weak fairness only, and only for code that runs by itself. DetectorPool: each thread.
DiscoverySource: a started `submit`, the producer, a begun `notify_all`, `finish()`
after it closed. Acquisition: a begun callback, the worker (it polls every 30 ms), the
end of a cancelled or synthetic stream, a save's return and a begun stop. GpsPositions:
the reader (poll returns within 100 ms, a read holds at most 512 bytes), the callback
and a begun engine call. RakReceiver: only the
engine's thread; a worker may hang for ever. RtlPump: the stopper, and the driver's
promise to prepare a read and to return from a cancelled one. Desktop: the deadline
thread, a begun operation and a begun analysis; the event loop only outside a timed
run, so that `ReceptionEnds` of a timed run does not rest on the window system.
SessionStore and the modules of `parts` state no fairness. Nobody has to submit, deliver, save, fail, close or let time
pass; the five-second timeout of a save is never relied on. Blocking operating-system
calls are assumed to return: `hackrf_stop_rx`, a commit, `join` of a thread that ended.

## 5. Proofs

All theorems hold for every value of the constants that the modules' assumptions admit
(`SizesAssumption`, `SourceAssumption`, `AcquisitionAssumption`, `GpsAssumption`,
`StoreAssumption`, `RakAssumption`, `SettingsAssumption`, `ObservationsAssumption`,
`DecoderAssumption`, `EventsAssumption`, `BurstAssumption`, `AnalysisAssumption`,
`DesktopAssumption`): sizes are natural numbers and those the code divides by or indexes
with are positive, kinds are among those of the code, there are one or two RAK boards as
`engine_rak.inc` allows. Sets of threads, paths, units, files, subbands are
arbitrary. Bounds such as `MaxSamples` are constants too, so a theorem covers every run
of every length.

| module | theorems | property |
|---|---|---|
| DetectorPool | TypeCorrect, SlotsAccounted, BandsExclusive | TypeOK, SlotAccounting, OneJobPerBand |
| | DetectorsFedInOrder | DetectorContinuity |
| | OutputsAccounted, JoinLeavesNothing, JoinProcessedAll | OutputConserved; a joined pool is drained; all was processed unless the worker failed |
| DiscoverySource | SourceTypeCorrect, SegmentsGapless, InputAccounted, LossesReported | TypeOK, SegmentsAreGapless, InputConserved, LossReported |
| Acquisition | TypeCorrect, SlotsExclusive, SaveIsDurable, CoverageIsExact, FinalIsComplete | TypeOK, NoSlotRace, SavedIsDurable, CoverageExact, FinalCoverage |
| GpsPositions | TypeCorrect, EpochTimeKept, StatusHonest, QuietWhenStopped, PositionsKept | TypeOK, EpochKeepsItsTime, StatusIsHonest, QuietAfterStop, AssociationKept |
| SessionStore | LedgerRefined, SaveIsDurable, RecordingReadable | LedgerImplemented, SaveMeansDurable, DurableReadable |
| SurveyAnalysis | SummariesAreExact | SummariesExact |
| RakReceiver | CompleteIsAll | CompleteMeansAll |
| SessionDisk, Settings, DeviceIdentity | SizeShownIsRight, SettingsAlwaysSurvive, OpensWhatWasChosen | SizeIsOfItsSession, SettingsSurvive, OpenedAsChosen |
| SurveyExport | ExportsAsReviewed, ExportsKeepFiles | ExportAsReviewed, FinishedFilesKept |
| DiscoveryObservations, DiscoveryDecoder | ObservationsAreFaithful, EveryCandidateAccounted, ReplayAlwaysExact | ObservationsFaithful, CandidatesAccounted, ReplayIsExact |
| SpectrumEvents, BurstGrouper | ActivityPartitioned, BurstsAreAccountable | EventsPartitionActivity, BurstsAccountable |
| Desktop | UnrecordedAreKept | UnrecordedKept |

The arguments, and why the properties are not inductive by themselves:

* **DetectorPool.** `TypeInv` adds to `TypeOK` that `band` is a real band while an enqueue
  is under way and that no staging exceeds a batch. `PoolInv` joins it with the slot parts
  and `OneJobPerBand`: `Release` removes `Job(w).subband` from `busy`, which is right only
  if no other holder has that band, and `Claim` keeps bands exclusive only because a held
  slot's `subband` cannot change. `OrderInv` carries `DetectorContinuity`: for every band a
  *chain* leads from the detector through the held job and the band's jobs in its ready
  queue to the staging, each beginning where the one before ends. A claim takes the first
  job of a band that is not busy, so it takes the head of the chain; an enqueue appends to
  its end; jobs of other bands in between do not matter. `EndInv` says where the producer
  and each thread can be at the end: the producer is done only with empty staging, a thread
  leaves only after a failure or with nothing pending, and nothing is abandoned without a
  failure. `OutputConserved` is one balance
  lemma per action over the sum of the pending jobs.
* **DiscoverySource.** `SourceInv` adds that a call at the lock brings its block where the
  ledger expects it and that queued blocks are non-empty and were accepted (`BlockInv`),
  that nothing is counted before the first submission (`FreshInv`), and for losses that
  everything before the settled coordinate is accepted or in a gap and that no accepted
  sample lies in a gap of loss (`LossInv`). The coalescing and the overflow of
  `gap_locked` extend a gap only over refused time.
* **Acquisition.** `RingInv` has the distance between writer and reader, from which slots
  taken modulo the ring size differ; `QueueInv` the order of the coordinates in the ring;
  `FlagInv` which flag means what at which place of the worker, the callback and the
  control thread; `SaveInv` that a confirmed checkpoint is at least the request; `TileInv`
  and `CoverInv` that tiles, open tile, frame and gaps end exactly at the next coordinate;
  `CountInv` relates the counters shown to the coordinates.
* **GpsPositions.** The reader's epoch memory is at least as new as every stored fix of
  its connection and agrees with those of its own epoch (`HistoryInv`), so does the fix in
  flight (`InflightInv`), no current fix means a history without a valid end (`LastInv`), and flags say where reader and client are. `PositionsKept` compares
  `position_at` before and after a push, for the newest entry at or before a time.
* **SessionStore.** `PrefixInv`: committed rows are a prefix of the rows of the open
  batch. `RowsStep` classifies what any step does to the rows, and each class is a step of
  `SessionLedger`. For saves: the open acquisition is the last one, on disk too
  (`AcquisitionInv`), a confirmed final save means an ended worker and a finalized
  recording (`FinalInv`), a tile recording whose worker has not failed has lost no counted
  row (`CountInv`), and `SavedInv` says what a reported save verified.
  `RecordingReadable` has one hypothesis, `BeginSucceeds`: no statement of
  `begin_acquisition` throws. Without it the property is false (finding 3); the run
  `store` makes the same restriction. The database the writer sees is not one the reader
  accepts: between two checkpoints its records lie after the end last recorded for the
  open acquisition. `StoredInv` therefore has two parts. `Accepted` holds of `db` and
  `disk` alike and is what the reader demands without that end; neither reaches beyond the
  engine's time, the last tile or the open power block that the store *remembers*, and
  the open acquisition begins where the engine's does. That memory is not rolled
  back with the database, so the bounds are stated for both and a
  rollback, a crash or a failed append goes from one accepted revision to the other.
  `Covered` (everything ends by the recorded end of the last acquisition) holds of `disk`
  unless it is torn (`TornInv`): `update` moves that end to the elapsed time, which bounds
  all records, before it commits, and only the destructor commits without it. Both
  parts together are `ReadAccepts`. `CopyInv` carries it to the revision a copy has
  pinned, which `save_copy` has read back first.
* **SurveyAnalysis.** `SummaryInv`: the panel counts the measurements of the tiles before
  `cursor` and, once all are read, of all (`Before`); the section being written those of
  its own acquisition; the sections written those of the acquisitions before it
  (`Earlier`). A tile adds the measurements of one tile: clipping a frame to tile, window
  and group keeps exactly its ticks in all three (`SliceCount`), the frames of a clipped
  tile make up its duration (`WholeTime`), and the resolved interval of the panel and the
  window of a section both contain every selected tick of a tile (`ResolvedFits`,
  `WindowFits`). The groups partition the resolved interval because the last takes the
  rest (`GroupsPartition`). Because acquisitions do not overlap, a tile has no time in the
  window of another's section, and what was measured was measured in an acquisition that
  `export_survey_report` selects (`MeasuredChosen`). For the bounds: the bins the panel
  holds are those of the tiles before `cursor`, and are few (`FewBins`); the groups and cells
  of the section are those of its tiles before `cursor`, within their bounds (`Fits`); the
  sections before it were within theirs (`NoneOver`), and the rows written are theirs
  (`RowsBefore`). What was read so far is part of what was measured and the bounds are
  monotone, so a refusal half way means that the whole is beyond a bound, and a section
  or a panel that ends was within all of them.
* **RakReceiver.** `RakInv`: boards start and stop in turn (`Order`); of a running board,
  the scans up to some number are handled and the rest are in its pipe, after READY lines
  and before lines of the end (`Account`), or a scan found no room and the exit status will
  not be zero (`Lost`); the end of the stream means an empty pipe. A read of any prefix,
  with torn lines, moves scans from the pipe to the handled ones, or shows as an error.
  A stop counts as clean only with status zero and the end of the stream, and then the
  account says that nothing is missing.
* **PartsProofs.** `DiskInv`: what a task has read is of its own path. Settings: each
  content a crash may leave is acknowledged or begun, at every call of `atomic_write`, and
  the rename comes only after the flush.
  DeviceIdentity: resolved boards are different nodes, and the engine's own match is
  unique; a checked unit keeps its node until it is unplugged, and while it has it no
  other unit can get it, so that the name still means the checked unit.
  SurveyExport: the survey being written is the reviewed one, and every file has a number
  of its own.
  Observations: the summary of an observation is that of the set of its fits, which each
  report extends. Decoder: the ring holds coordinate `c` at `c % History` while it is
  retained (`RingHolds`), every active decoder has exactly the samples from its start to
  the newest one (`ActiveFed`), and the counters tally.
* **SpectrumEvents.** `EventsInv`: open tracks and emitted events share no cell, together
  they are the cells heard, each lies in its envelope and ends before the frame, and the
  table keeps its limit. For a frame: the runs partition the active bins; merged groups of
  runs and then the components of runs and tracks are equivalence classes (of the closure
  that `Component` takes), so each track and each run goes into exactly one record; what
  leaves the table, by overflow, cut or end, becomes an event with the same cells.
* **BurstGrouper.** `BurstsInv`: ended bursts and open tracks share no cell, together they
  are the strong cells, each is counted right up to the clock, an open track begins after
  every hole. The components of a tile are disjoint and cover its strong bins, because a
  component is over before another one starts (`OverBefore`) and a bin between a start and
  the next end has no other start below it (`BinsFromCover`). Sweeps are disjoint, since a
  component of a sweep matches one track only (`SweptFit`). A live track is retired, quiet
  or continued by exactly one component, and a component is new or continues exactly one
  track (`Fates`). A component is later than the track it continues, so the distinct frames
  add up (`ExtendedOk`).
* **Desktop.** `OpInv`: an operation that replaces the session or precedes closing was
  begun for a session that may leave (`MayLeave`: recorded, from a file, empty and not
  receiving, or discarded by the user), and it still may when the operation runs, because
  nothing starts a receiver meanwhile. `CloseInv` says so of an approved close and the places
  after it. `FrameInv` is the point about old snapshots: between the snapshot and the
  clicks of a frame nothing starts the receiver, so a session that looks stopped and empty
  in the snapshot is.

Sums, selections and the loops of `Poll` and `Handle` are recursive functions. What is
needed about them is proved by a least counterexample (`LeastElement` in FifoLemmas): the
partial results up to any place exist, and satisfy the claim, or else there is a first
place where they do not.

Only model-checked:

* liveness (EndJoins, CloseFinishes, StopReturns, SaveAnswered, CallsReturn, PumpStops,
  ReceptionEnds): fairness and ENABLED are out of the prover's reach;
* the three violated properties.

Three of the proofs corrected the model. The first form of SurveyAnalysis had no extent
for a recording without tiles and gaps, which `analyze` resolves to an empty interval. A run of SpectrumEvents could be empty in the
first form of `RunsOf`, which put a record without cells into the table; and BurstGrouper
computed the matches of a combined sweep anew, where the code keeps those of its first
component. Neither showed in the bounds of the run.

## 6. Findings

1. `survey_drain`. `engine.cpp:135` says of `input_finished` that the worker "drains
   every accepted block before finalizing the session and freeing the pool". The
   watchdog leaves the loop at `engine.cpp:622` while the callback may run: a block
   accepted between the test at line 616 and `fail()` is not measured. The final
   `application_drop` gap covers it if its coordinates were taken by then;
   `FinalCoverage` therefore excludes stalled runs.
2. `gps_marker`. `gps.hpp:13` says "no fix crosses a marker". A valid sentence that
   repeats the epoch before a reported loss gets that epoch's time (`gps.cpp:220`) and
   is pushed behind the loss marker, so `position_at` associates a fix older than the
   marker with times after it.

3. `store_begin`. `storage.cpp:961` says that `begin_acquisition` publishes "the new
   acquisition and its setup as one readable checkpoint". A statement that throws
   between the segment's row (954) and the COMMIT (968) leaves the batch pending;
   `update` rolls back in that case (1284), `begin_acquisition` does not. `Engine::start`
   resets the store (`engine.cpp:879`) and the destructor (851) commits the part that
   was written.

Observed on the way, without a run:

* An `update` of a RAK recording that fails rolls back position rows whose ids
  `recent_fixes_` still holds. Scans drained afterwards that use such an id are
  refused by the foreign key; the run has failed by then, so no dangling row is stored.
* `engine.cpp:733` asks to preserve an unconfirmed session with Save copy "before
  starting a new survey", but New is refused after the copy as before it.
* `ui.cpp` (about line 2045) discards analysis results of another session by its id: a
  result pinned before a session was left can be shown after returning to it.

* An append that throws in the middle of a batch ends the worker of a tile recording
  without a final save (`engine.cpp:671`). When the store is destroyed it commits the
  batch (`storage.cpp:851`); records after the end that the last checkpoint recorded for
  the acquisition are then refused by `acquisition_config_at` (`engine.cpp:69`), and with
  them the file. `DurableReadable` says so: a torn file keeps its structure, but its
  records need not lie in their acquisition. A crash at the same moment would have left
  a readable file.
* A concentrator replaced by another unit between the engine's inventory
  (`engine.cpp:771`) and the opening of its node (`rak_worker.c:219`, 228) is not noticed
  when the new unit gets the same node: the worker opens by name and compares no identity.
  `OpenedAsChosen` excepts a unit that left in between; a mere renumbering of other units
  cannot do it.
* The panel counts a waveform by the frequencies it was inferred to occupy
  (`storage.cpp:1612`), the waveform report only in an acquisition that itself meets the
  requested range and whose interval, open at its end, holds the delimiter
  (`report.cpp:581`). A waveform that reaches beyond the range of its acquisition, or
  whose delimiter is its last instant, is counted by one and left out by the other;
  `SummariesExact` has the difference exactly (`Strays`).

That reports "fail clearly rather than truncate" (`docs/user-guide.md:242`, with
`tests/test_reports.cpp:324`) holds and is part of `SummariesExact`.

Also observed, and stated with the property: `AssociationKept` is about serial
fixes. A manual position keeps its association only if `connect_gps` adds its marker
within the freshness limit of the new source's first sentence; the fix of a
sentence parsed while the mutex was held is older than the marker and enters after it.

## 7. Not modelled, and plan

Not modelled: the LoRa PHY, LoRa discovery, the channelizer's filters and the FFT (numeric
state; what surrounds them is modelled); the Meshtastic protocol (no state between
calls); `main.cpp` (a sequential driver); keys; drawing, scales, file browsing and
assets; the rows of the waveform and track reports and the bytes of a page; the discovery worker's result and frame queues (drop when full, with a
counter); `discovery_repeat.hpp` (a numeric comparison); older database schemas and
the readers' paging; Windows variants of the file calls.

Every safety property that a run expects to hold is proved. What is left is more of the
parts above: the discovery worker's result queues, the paging of the readers and the older
database schemas.
