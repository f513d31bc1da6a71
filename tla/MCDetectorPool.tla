--------------------------- MODULE MCDetectorPool ---------------------------
(* Instances of DetectorPool for TLC.                                      *)
EXTENDS DetectorPool

\* The detector threads run the same loop and are interchangeable.
DetectorSymmetry == Permutations(Detectors)
=============================================================================
