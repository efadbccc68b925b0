----------------------------- MODULE MCFindings -----------------------------
(* Instances of Findings for TLC: small lockfiles and small advisories, one *)
(* kind of input at a time.                                                 *)
EXTENDS Findings

CONSTANTS left_pad, minimist

MCNames == {left_pad, minimist}

\* Four versions, the second of which can be spelt in two ways.
V(r) == [rank |-> r, as |-> "plain"]
MCReleases == {V(1), V(2), [rank |-> 2, as |-> "padded"], V(3), V(4)}

To(n, kind) == [to |-> n, kind |-> kind]
Run(n) == To(n, "runtime")

\* An entry that may or may not depend on each of S, in key order.
DependsOn(S) ==
    {SelectSeq([i \in Nodes |-> To(i, k[i])], LAMBDA e : e.kind # "none") :
        k \in {f \in [Nodes -> {"runtime", "peer", "none"}] :
                  \A i \in Nodes \ S : f[i] = "none"}}

\* Any shape among four entries: cycles, peers, several ways in, a declaration
\* that names an entry again.
Shapes ==
    {[deps |-> <<a, b, c, d>>, declares |-> s] :
        a \in DependsOn({2, 3, 4}), b \in DependsOn({3, 4}), c \in DependsOn({4}),
        d \in {<<>>, <<Run(2)>>}, s \in {<<1>>, <<2, 1, 2>>}}

\* More ways into the last entry than are counted, development edges, and an
\* entry named in two sections of package.json.
Crowded ==
    {[deps |-> <<a, b, c, <<>>>>, declares |-> s] :
        a \in {<<Run(4)>>, <<To(2, "dev"), Run(4)>>, <<To(4, "dev")>>,
             <<To(2, "peer"), To(3, "peer")>>},
        b \in {<<Run(4)>>, <<Run(4), To(4, "peer")>>},
        c \in {<<Run(4)>>, <<Run(4), To(4, "peer")>>},
        s \in {<<1>>, <<1, 2, 3>>, <<3, 1>>, <<1, 3, 2>>}}

Flat == [deps |-> [n \in Nodes |-> <<>>], declares |-> <<1>>]
Locks == Shapes \cup Crowded \cup {Flat}

\* Two copies of one version, and another version of it.
Copies == <<[name |-> left_pad, version |-> V(1)], [name |-> minimist, version |-> V(1)],
            [name |-> minimist, version |-> V(2)], [name |-> minimist, version |-> V(1)]>>
\* Four packages.
Apart == <<[name |-> left_pad, version |-> V(1)], [name |-> left_pad, version |-> V(2)],
           [name |-> minimist, version |-> V(1)], [name |-> minimist, version |-> V(2)]>>

Silent == [a \in Advisories |-> <<>>]
Unlisted == [a \in Advisories |-> {}]
Same == [a \in Advisories |-> left_pad]

Projects ==
    {[lock |-> l, entry |-> e, about |-> Same, timeline |-> Silent, listed |-> Unlisted] :
        l \in Locks, e \in {Copies, Apart}}

I(r) == [kind |-> "introduced", rank |-> r]
F(v) == [kind |-> "fixed", at |-> v]
L(v) == [kind |-> "last_affected", at |-> v]
Early == {I(0), I(1), F(V(1)), L(V(1)), F(V(2))}
Late  == {I(2), F(V(3)), L(V(2))}

\* Every order of up to three events, and of four where two are late.
Orders == UNION {[1..k -> Early \cup Late] : k \in 0..3}
             \cup {<<s, t, u, v>> : s, t \in Early, u, v \in Late}
             \cup {<<s, t, u, v>> : s, u \in Late, t, v \in Early}
Timelines ==
    {[lock |-> Flat, entry |-> Apart, about |-> Same,
      timeline |-> <<t, <<>>>>, listed |-> Unlisted] : t \in Orders}

\* Two advisories about one package or two, with fixes to choose between, a
\* release spelt in two ways, and versions listed outright.
Fixes ==
    {[lock |-> Flat, entry |-> Apart, about |-> n, timeline |-> <<t, u>>, listed |-> l] :
        n \in {Same, <<left_pad, minimist>>},
        t \in {<<I(0), F(v)>> : v \in MCReleases} \cup {<<I(0)>>, <<I(1), F(V(2)), I(3), F(V(4))>>},
        u \in {<<I(r), F(v)>> : r \in 0..2, v \in MCReleases}
                  \cup {<<I(2), L(V(2))>>, <<I(3), [kind |-> "other"]>>, <<>>},
        l \in {Unlisted, <<{}, {V(2)}>>, <<{V(1)}, {V(3)}>>}}

MCInputs == Projects \cup Timelines \cup Fixes

\* The manifest declares minimist, which installs version 2; something else
\* pulls in a copy of version 1, and an advisory fixes that line in between.
Nested ==
    {[lock |-> [deps |-> <<<<Run(4)>>, <<>>, <<>>, <<>>>>, declares |-> s], entry |-> Apart4,
      about |-> [a \in Advisories |-> minimist], timeline |-> <<<<I(0), F(v)>>, <<>>>>,
      listed |-> Unlisted] :
        s \in {<<1, 3>>, <<3>>}, v \in MCReleases, Apart4 \in {
          <<[name |-> left_pad, version |-> V(1)], [name |-> left_pad, version |-> V(2)],
            [name |-> minimist, version |-> V(3)], [name |-> minimist, version |-> V(1)]>>}}
=============================================================================
