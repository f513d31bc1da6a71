----------------------------- MODULE MCReceivers -----------------------------
(***************************************************************************)
(* The two receivers that end in their own way, one at a time: the initial *)
(* state chooses which one is in use.                                      *)
(***************************************************************************)
EXTENDS RakReceiver, RtlPump

VARIABLE receiver

MCInit == receiver \in {"rak", "rtl"} /\ Init /\ PumpInit

MCNext ==
  /\ UNCHANGED receiver
  /\ \/ receiver = "rak" /\ UNCHANGED pvars /\ Next
     \/ receiver = "rtl" /\ UNCHANGED vars /\ PumpNext

MCSpec ==
  /\ MCInit /\ [][MCNext]_<<receiver, vars, pvars>>
  /\ WF_vars(receiver = "rak" /\ Owner)
  /\ PumpFairness
=============================================================================
