------------------------------- MODULE Board --------------------------------
(***************************************************************************)
(* What the engine promises its publisher, without channel, debounce or    *)
(* pool: a board of findings per file that is only ever replaced as a      *)
(* whole by a scan asked for later than the one it shows, or loses one     *)
(* file's findings.                                                        *)
(***************************************************************************)
EXTENDS Naturals

CONSTANTS Files, Findings, NoFindings

VARIABLES
    board,  \* the findings shown, per file
    asof    \* which request the shown scan was asked for by

vars == <<board, asof>>

Init == /\ board = [f \in Files |-> NoFindings]
        /\ asof = 0

\* A scan asked for later than everything shown so far.
Replace == /\ asof' \in Nat
           /\ asof' > asof
           /\ board' \in [Files -> Findings \cup {NoFindings}]

\* A deleted manifest's findings go at once.
Withdraw(f) == /\ board' = [board EXCEPT ![f] = NoFindings]
               /\ UNCHANGED asof

Next == Replace \/ \E f \in Files : Withdraw(f)

Spec == Init /\ [][Next]_vars
=============================================================================
