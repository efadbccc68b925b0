----------------------------- MODULE MCVersions -----------------------------
(* Instances of Versions for TLC: the forms that are compared in a way of   *)
(* their own, each with a neighbour it must be told from.                   *)
EXTENDS Versions

Minus(n) == [kind |-> "number", negative |-> TRUE, n |-> n]

\* Nothing, "-1", "-2", "-a", "-a.1", "-a.1.0", "--0", "--1", "-" then a dot.
Tails == {Nothing, <<Number(1)>>, <<Number(0)>>, <<Word(5)>>, <<Word(5), Number(1)>>,
          <<Word(5), Number(1), Number(0)>>, <<Minus(0)>>, <<Minus(1)>>, <<Word(0), Number(4)>>}

S(numbers, tail, metadata) == [numbers |-> numbers, tail |-> tail, metadata |-> metadata]

\* 1.0.0 and its prereleases; 1, 1.0.1, 0.9; a fourth number, alone, after a
\* prerelease and after metadata.
MCSemvers ==
    {S(<<1, 0, 0>>, t, FALSE) : t \in Tails}
        \cup {S(n, Nothing, FALSE) : n \in {<<1>>, <<1, 0, 1>>, <<0, 9, 9>>, <<>>}}
        \cup {S(<<1, 0, 0, 4>>, t, m) : t \in {Nothing, <<Word(5)>>}, m \in BOOLEAN}
        \cup {S(<<1, 0, 0>>, t, TRUE) : t \in {Nothing, <<Word(5)>>}}

NoMark == [letter |-> "", number |-> Absent]
M(letter, number) == [letter |-> letter, number |-> number]

P(release, pre, post, dev, local) ==
    [legacy |-> 0, epoch |-> Absent, release |-> release, pre |-> pre, post |-> post,
     dev |-> dev, local |-> local]

Zero == P(<<1>>, NoMark, NoMark, NoMark, <<>>)

MCPyPIs ==
    \* 1, 1.0, 1.0.1, 1!0
    {P(r, NoMark, NoMark, NoMark, <<>>) : r \in {<<1>>, <<1, 0>>, <<1, 0, 1>>}}
        \cup {[Zero EXCEPT !.epoch = 1, !.release = <<0>>]}
        \* 1a, 1alpha0, 1b1, 1c0, 1rc.1
        \cup {[Zero EXCEPT !.pre = p] :
                p \in {M("a", Absent), M("alpha", 0), M("b", 1), M("c", 0), M("rc", 1)}}
        \* 1.post, 1-0, 1.rev1, 1.dev, 1.dev1
        \cup {[Zero EXCEPT !.post = p] : p \in {M("post", Absent), M("", 0), M("rev", 1)}}
        \cup {[Zero EXCEPT !.dev = d] : d \in {M("dev", Absent), M("dev", 1)}}
        \* 1a.dev, 1a.post0, 1.post0.dev, 1a.post0.dev
        \cup {P(<<1>>, p, q, d, <<>>) : p \in {M("a", Absent), NoMark},
                q \in {M("post", 0), NoMark}, d \in {M("dev", Absent)}}
        \cup {P(<<1>>, M("a", 0), M("post", 0), NoMark, <<>>)}
        \* 1+0, 1+x, 1+0.x, 1+x.1
        \cup {[Zero EXCEPT !.local = l] :
                l \in {<<Number(0)>>, <<Word(9)>>, <<Number(0), Word(9)>>, <<Word(9), Number(1)>>}}
        \* What PEP 440 rejects.
        \cup {[Zero EXCEPT !.legacy = n] : n \in {1, 2}}
=============================================================================
