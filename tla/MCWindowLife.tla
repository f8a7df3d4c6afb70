---------------------------- MODULE MCWindowLife ----------------------------
(* Instances of WindowLife for TLC.                                         *)
EXTENDS WindowProperties

CONSTANTS w1, none
=============================================================================
