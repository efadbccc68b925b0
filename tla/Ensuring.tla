------------------------------ MODULE Ensuring ------------------------------
(***************************************************************************)
(* What ensure_one promises its callers about one archive, without lock,   *)
(* sidecar, request or temporary file: a readable archive that comes only  *)
(* while somebody is inside, never goes back to an older version or away,  *)
(* and is there whenever a call succeeds.  This is what the download of    *)
(* Scanner (Renames, EnsureSucceeds, EnsureFails, PeerLands) relies on.    *)
(***************************************************************************)
EXTENDS Naturals

CONSTANT Callers

VARIABLES
    held,     \* the version that can be read, 0 if none
    offered,  \* the version the bucket serves
    call      \* per caller: "out", "in", or what its last call came to

vars == <<held, offered, call>>

Init == /\ held \in {0, 1}
        /\ offered = 1
        /\ call = [c \in Callers |-> "out"]

Becomes(c, outcome) == call' = [call EXCEPT ![c] = outcome]

Begins(c) == /\ call[c] # "in"
             /\ Becomes(c, "in")
             /\ UNCHANGED <<held, offered>>

\* Somebody inside puts a version there that is not older; the bucket may
\* have moved on since it was fetched.
Publishes == /\ \E c \in Callers : call[c] = "in"
             /\ held' \in 1..offered
             /\ held' >= held
             /\ UNCHANGED <<offered, call>>

Lands(c) == /\ call[c] = "in"
            /\ held # 0
            /\ Becomes(c, "landed")
            /\ UNCHANGED <<held, offered>>

\* An error, or the end of the process.
Fails(c) == /\ call[c] = "in"
            /\ \E outcome \in {"failed", "out"} : Becomes(c, outcome)
            /\ UNCHANGED <<held, offered>>

Offers == /\ offered' = offered + 1
          /\ UNCHANGED <<held, call>>

\* The user reclaims the space: what calls came to is history.
Deleted == /\ \A c \in Callers : call[c] # "in"
           /\ held' = 0
           /\ call' = [c \in Callers |-> "out"]
           /\ UNCHANGED offered

Next == \/ \E c \in Callers : Begins(c) \/ Lands(c) \/ Fails(c)
        \/ Publishes \/ Offers \/ Deleted

Spec == Init /\ [][Next]_vars
=============================================================================
