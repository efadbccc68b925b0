----------------------------- MODULE MCLoading ------------------------------
(* Instances of Loading for TLC: every archive of three entries of ten      *)
(* kinds before another ecosystem's, and the ones that cannot be read.      *)
EXTENDS Loading

CONSTANTS npm, cargo, lodash, serde

E(kind) == [kind |-> kind]
R(withdrawn, affected) ==
    [kind |-> "record", record |-> [withdrawn |-> withdrawn, affected |-> affected]]

MCPackages == {npm, cargo} \X {lodash, serde, Unnamed}

NpmLodash == <<npm, lodash>>
NpmSerde  == <<npm, serde>>
Entries ==
    {E("closed"), E("text"), E("torn"), E("malformed"), R(TRUE, <<NpmLodash>>),
     R(FALSE, <<NpmLodash>>), R(FALSE, <<NpmSerde, NpmLodash>>),
     R(FALSE, <<NpmLodash, <<cargo, lodash>>>>), R(FALSE, <<<<cargo, serde>>>>),
     R(FALSE, <<<<npm, Unnamed>>, NpmSerde>>)}

Npm(entries) == [ecosystem |-> npm, opens |-> TRUE, entries |-> entries]
Crates == [ecosystem |-> cargo, opens |-> TRUE,
           entries |-> <<R(FALSE, <<<<cargo, serde>>>>), E("torn"), R(FALSE, <<NpmLodash>>)>>]

\* A record with an entry for each of two release lines of one package.
TwoLines ==
    {<<Npm(<<R(FALSE, <<NpmLodash>>), R(FALSE, <<NpmLodash, NpmSerde, NpmLodash>>)>>)>>}

MCLibraries ==
    {<<Npm(e), Crates>> : e \in [1..3 -> Entries]}
        \cup {<<Crates, Npm(e)>> : e \in [1..1 -> Entries]}
        \cup {<<[Crates EXCEPT !.opens = FALSE]>>, <<Npm(<<>>)>>}
        \cup TwoLines
=============================================================================
