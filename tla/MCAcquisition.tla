--------------------------- MODULE MCAcquisition ---------------------------
(* Instances of Acquisition for TLC.                                       *)
EXTENDS Acquisition
=============================================================================
