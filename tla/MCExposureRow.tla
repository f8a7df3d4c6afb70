---------------------------- MODULE MCExposureRow ----------------------------
(* An instance of ExposureRow for TLC.                                      *)
EXTENDS ExposureRow

CONSTANTS w1, w2, exec, sweep, nojob
=============================================================================
