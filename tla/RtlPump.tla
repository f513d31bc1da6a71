------------------------------ MODULE RtlPump ------------------------------
(***************************************************************************)
(* RtlAsyncPump (src/src/rtl_input.hpp): the thread inside librtlsdr's     *)
(* blocking read, and the engine thread that stops it and closes the       *)
(* device.  The driver is external: read_async first prepares its state,   *)
(* and only a cancel that finds the read prepared has any effect.          *)
(***************************************************************************)
EXTENDS Naturals

CONSTANT MaxStarts      \* receptions started

VARIABLES
  reader,    \* "none", "launched", "reading", "cancelled", "returned"
  finished,  \* finished_
  joinable,  \* thread_.joinable()
  caller,    \* "idle", "stopping", "waiting", "closed" or "failed"
  device,    \* the device handle is open
  starts     \* bound

pvars == <<reader, finished, joinable, caller, device, starts>>

PumpInit ==
  /\ reader = "none" /\ finished = TRUE /\ joinable = FALSE
  /\ caller = "closed" /\ device = FALSE /\ starts = 0

\* start(): the device has been opened; the thread may fail to start.
StartPump ==
  /\ caller \in {"closed", "failed"} /\ starts < MaxStarts
  /\ starts' = starts + 1
  /\ \/ /\ device' = TRUE /\ joinable' = TRUE /\ finished' = FALSE
        /\ reader' = "launched" /\ caller' = "idle"
     \/ /\ finished' = TRUE /\ caller' = "failed" /\ device' = FALSE
        /\ UNCHANGED <<reader, joinable>>

\* The driver's read becomes cancellable.
ReadPrepared ==
  /\ reader = "launched" /\ reader' = "reading"
  /\ UNCHANGED <<finished, joinable, caller, device, starts>>

\* read() returns: cancelled, or at any time by a driver failure; the thread
\* then publishes finished_ and wakes the waiter.
CancelledRead == reader = "cancelled"
FailedRead == reader \in {"launched", "reading"}
ReadReturns(why) ==
  /\ why /\ reader' = "returned" /\ finished' = TRUE
  /\ caller' = IF caller = "waiting" THEN "stopping" ELSE caller
  /\ UNCHANGED <<joinable, device, starts>>

StopPump ==
  /\ caller = "idle" /\ caller' = "stopping"
  /\ UNCHANGED <<reader, finished, joinable, device, starts>>

\* One turn of stop()'s loop: cancel, then wait at most ten milliseconds.
Retry == caller = "stopping" /\ ~finished
CancelTurn ==
  /\ Retry
  /\ reader' = IF reader = "reading" THEN "cancelled" ELSE reader
  /\ caller' = "waiting"
  /\ UNCHANGED <<finished, joinable, device, starts>>

WaitExpires_Never == FALSE
WaitExpires == caller = "waiting"
NextTurn ==
  /\ WaitExpires /\ caller' = "stopping"
  /\ UNCHANGED <<reader, finished, joinable, device, starts>>

\* The loop has seen finished_: join, drop the callback, and close the device.
Joins == caller = "stopping" /\ finished
JoinAndClose ==
  /\ Joins
  /\ joinable' = FALSE /\ device' = FALSE /\ caller' = "closed"
  /\ UNCHANGED <<reader, finished, starts>>

PumpNext ==
  \/ StartPump \/ ReadPrepared \/ ReadReturns(CancelledRead) \/ ReadReturns(FailedRead)
  \/ StopPump \/ CancelTurn \/ NextTurn \/ JoinAndClose

\* The driver prepares its read and returns once cancelled; the stopping
\* thread runs.  A read that never fails by itself is allowed.
Driver == ReadPrepared \/ ReadReturns(CancelledRead)
Stopper == CancelTurn \/ NextTurn \/ JoinAndClose
PumpFairness == WF_pvars(Driver) /\ WF_pvars(Stopper)
----------------------------------------------------------------------------
\* stop() returns even though its first cancellations may reach the driver
\* before the read is prepared and be lost: rtl_input.hpp 60-69 repeats them.
PumpStops == (caller \in {"stopping", "waiting"}) ~> (caller = "closed")
=============================================================================
