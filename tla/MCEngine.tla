------------------------------ MODULE MCEngine ------------------------------
(* Instances of Engine for TLC.                                            *)
EXTENDS Engine, TLC

\* Manifests are interchangeable; sound for the runs without liveness.
Symmetry == Permutations(Files)
=============================================================================
