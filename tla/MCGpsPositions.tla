---------------------------- MODULE MCGpsPositions ----------------------------
(* Instances of GpsPositions for TLC.                                        *)
EXTENDS GpsPositions
=============================================================================
