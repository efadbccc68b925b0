----------------------------- MODULE MCDatabase -----------------------------
(* Instances of Database for TLC.                                          *)
EXTENDS Database, TLC

\* Server processes are interchangeable; sound for the runs without liveness.
Symmetry == Permutations(Processes)
=============================================================================
