------------------------------- MODULE MCKept -------------------------------
(* What is kept on disk between runs of the program by two parts of it:     *)
(* osv.dev's answers (Api) and the installed server (Installer).  They      *)
(* share no file, so a behaviour is of one of them; the other stays as it   *)
(* begins.                                                                  *)
EXTENDS Api, Installer, TLC

CONSTANTS lodash, a, b, v1, v2

VARIABLE kept

AllAboutLodash == [i \in Ids |-> lodash]

\* A tree with one version of lodash, and one where a second came with it.
Trees == {{<<lodash, v1>>}, {<<lodash, v1>>, <<lodash, v2>>}}

\* An advisory about both versions, or about v2 only.
Widening == {{v2}, {v1, v2}}

Symmetry == Permutations(Scans) \cup Permutations({a, b})

KeptInit ==
    /\ kept \in {"answers", "server"}
    /\ Init
    /\ InstallerInit /\ (kept # "server" => \A p \in Pins : pin <= p)

KeptNext ==
    \/ kept = "answers" /\ Next /\ UNCHANGED <<kept, installerVars>>
    \/ kept = "server" /\ InstallerNext /\ UNCHANGED <<kept, vars>>

KeptSpec == KeptInit /\ [][KeptNext]_<<kept, vars, installerVars>>
=============================================================================
