------------------------------ MODULE MCSetup ------------------------------
(* Instances of DatabaseSetup for TLC. *)
EXTENDS SetupProperties, TLC

CONSTANTS i1, i2, s1, s2, view

AnyRun == Permutations({i1, i2}) \cup Permutations({s1, s2})
=============================================================================
