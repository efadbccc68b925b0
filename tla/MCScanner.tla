----------------------------- MODULE MCScanner ------------------------------
(* Instances of Scanner for TLC.                                           *)
EXTENDS Scanner, TLC

CONSTANTS npm, cargo

\* A project that uses both ecosystems.
BothOnly == {{npm, cargo}}
NpmOnly  == {{npm}}
\* A workspace whose manifests come and go.
Changing == {{}, {npm}, {npm, cargo}}

Archives == {[online |-> FALSE, offline |-> FALSE]}
Offline  == {[online |-> FALSE, offline |-> TRUE]}
Claimed  == Archives \cup Offline
OnlineOrNot == {[online |-> TRUE, offline |-> FALSE], [online |-> TRUE, offline |-> TRUE]}

Symmetry == Permutations(Scans)
=============================================================================
