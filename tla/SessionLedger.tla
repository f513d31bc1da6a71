---------------------------- MODULE SessionLedger ----------------------------
(***************************************************************************)
(* What a recording promises, whatever the engine, SQLite and the process  *)
(* do: the measurements on disk are a prefix-closed ledger.  Measurements  *)
(* are recorded in memory (volatile), become durable only as a whole batch,*)
(* and are lost only as a whole batch; what is durable is never changed or *)
(* reordered until another recording takes its place.                      *)
(* SessionStore is shown to implement this specification.                  *)
(***************************************************************************)
EXTENDS Sequences, SequencesExt

VARIABLES durable, volatile

lvars == <<durable, volatile>>

LedgerInit == durable = <<>> /\ volatile = <<>>

\* One measurement joins the open batch.
Record ==
  /\ \E m \in ToSet(volatile') : volatile' = Append(volatile, m)
  /\ UNCHANGED durable

\* The open batch becomes durable as a whole.
Commit ==
  /\ durable' = durable \o volatile
  /\ volatile' = <<>>

\* The open batch is lost as a whole (a failed save, a crash).
Lose ==
  /\ volatile' = <<>>
  /\ UNCHANGED durable

\* Another recording takes the ledger's place.
Replace == durable' = <<>> /\ volatile' = <<>>

LedgerNext ==
  \/ Record
  \/ Commit
  \/ Lose
  \/ Replace

LedgerSpec == LedgerInit /\ [][LedgerNext]_lvars
=============================================================================
