------------------------------ MODULE MCEngine ------------------------------
(* Instances of Engine for TLC.                                             *)
EXTENDS EngineProperties, TLC

CONSTANTS m1, m2, m3, none, btc, eth

OneAsset == [m \in Market |-> btc]
TwoAssets == [m \in Market |-> IF m = m3 THEN eth ELSE btc]
\* Sound where the windows it permutes are of the same asset; not used with
\* liveness.
Interchangeable == Permutations({m1, m2})
=============================================================================
