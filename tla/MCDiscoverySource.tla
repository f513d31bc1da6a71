------------------------- MODULE MCDiscoverySource -------------------------
(* Instances of DiscoverySource for TLC.                                   *)
EXTENDS DiscoverySource
=============================================================================
