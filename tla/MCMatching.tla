----------------------------- MODULE MCMatching -----------------------------
(* The three parts of matching that share nothing but what they are for,    *)
(* one of them in each behaviour: a project against its advisories          *)
(* (Findings), the archives becoming an index (Loading), and the order of   *)
(* versions (Versions).                                                     *)
EXTENDS MCFindings, MCVersions, MCLoading

VARIABLE part

Init ==
    /\ part \in {"findings", "loading", "versions"}
    /\ IF part = "findings" THEN FindingsInit ELSE Unmatched(CHOOSE input \in Nested : TRUE)
    /\ IF part = "loading" THEN LoadInit ELSE archives = <<>> /\ Unread
    /\ IF part = "versions" THEN VersionsInit
       ELSE grammar = "semver" /\ text = <<>> /\ parsed = <<>>

Next ==
    /\ UNCHANGED part
    /\ \/ part = "findings" /\ FindingsNext /\ UNCHANGED <<loadVars, versionVars>>
       \/ part = "loading" /\ LoadNext /\ UNCHANGED <<findingVars, versionVars>>
       \/ part = "versions" /\ VersionsNext /\ UNCHANGED <<findingVars, loadVars>>

Spec == Init /\ [][Next]_<<part, findingVars, loadVars, versionVars>>
=============================================================================
