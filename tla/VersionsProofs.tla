-------------------------- MODULE VersionsProofs ---------------------------
(***************************************************************************)
(* Versions of one ecosystem stand in one line, whatever they are, and     *)
(* where their standard allows them it is the standard's.                  *)
(*                                                                         *)
(* Each comparison is the first that decides among comparisons of parts.   *)
(* If the parts fit one order, so does the whole (FirstFits); and if each  *)
(* says how two lists of the standard's stand, the whole says how their    *)
(* keys do (FirstSays).                                                    *)
(***************************************************************************)
EXTENDS Versions, WellFoundedInduction, TLAPS

\* Four comparisons of three versions a, b and c: a with b, b with a, b with c
\* and a with c.
Fits(ab, ba, bc, ac) ==
    /\ ab \in Ordering /\ ba \in Ordering /\ bc \in Ordering /\ ac \in Ordering
    /\ ab = -ba
    /\ Coherent(ab, bc, ac)

-----------------------------------------------------------------------------
(* The first part that decides.                                            *)

\* A set of naturals that is not empty has a least member.
LEMMA Least ==
    ASSUME NEW S, S \subseteq Nat, S # {}
    PROVE  \E i \in S : \A j \in S : ~(j < i)
<1> DEFINE R == OpToRel(<, Nat)
<1>1. IsWellFoundedOn(R, Nat)
    BY NatLessThanWellFounded
<1>2. \A y, x \in Nat : y < x => <<y, x>> \in R
    BY DEF OpToRel
<1> HIDE DEF R
<1>3. PICK x \in S : \A y \in S : ~ (<<y, x>> \in R)
    BY <1>1, WFMin
<1> QED BY <1>2, <1>3

\* Unless all parts are equal, one decides.
LEMMA OneDecides ==
    ASSUME NEW n \in Nat, NEW d \in [1..n -> Ordering], NEW k \in 1..n, d[k] # 0
    PROVE  \E i \in 1..n : i <= k /\ (Decides(d, i, -1) \/ Decides(d, i, 1))
<1> DEFINE S == {i \in 1..n : d[i] # 0}
<1>1. S \subseteq Nat /\ S # {}
    OBVIOUS
<1>2. PICK i \in S : \A j \in S : ~(j < i)
    BY <1>1, Least
<1>3. \A j \in 1..i - 1 : d[j] = 0
    BY <1>2
<1>4. d[i] = -1 \/ d[i] = 1
    BY <1>2 DEF Ordering
<1>5. i <= k
    BY <1>2
<1> QED BY <1>2, <1>3, <1>4, <1>5 DEF Decides

\* What FirstDifference() returns, and why.
LEMMA FirstIs ==
    ASSUME NEW n \in Nat, NEW d \in [1..n -> Ordering]
    PROVE  /\ FirstDifference(d) \in Ordering
           /\ FirstDifference(d) = 0 <=> \A i \in 1..n : d[i] = 0
           /\ \A i \in 1..n : \A r \in {-1, 1} : Decides(d, i, r) => FirstDifference(d) = r
           /\ FirstDifference(d) # 0 => \E i \in 1..n : Decides(d, i, FirstDifference(d))
<1>1. DOMAIN d = 1..n
    OBVIOUS
<1>2. \A i, j \in 1..n : ~(Decides(d, i, -1) /\ Decides(d, j, 1))
    <2> SUFFICES ASSUME NEW i \in 1..n, NEW j \in 1..n, Decides(d, i, -1), Decides(d, j, 1)
                 PROVE  FALSE
        OBVIOUS
    <2>1. CASE i < j
        BY <2>1 DEF Decides
    <2>2. CASE j < i
        BY <2>2 DEF Decides
    <2>3. CASE i = j
        BY <2>3 DEF Decides
    <2> QED BY <2>1, <2>2, <2>3
<1>3. FirstDifference(d) \in Ordering
    BY DEF FirstDifference, Ordering
<1>4. \A i \in 1..n : \A r \in {-1, 1} : Decides(d, i, r) => FirstDifference(d) = r
    BY <1>1, <1>2 DEF FirstDifference
<1>5. FirstDifference(d) # 0 => \E i \in 1..n : Decides(d, i, FirstDifference(d))
    BY <1>1 DEF FirstDifference
<1>6. FirstDifference(d) = 0 <=> \A i \in 1..n : d[i] = 0
    <2>1. ASSUME FirstDifference(d) = 0, NEW i \in 1..n, d[i] # 0
          PROVE  FALSE
        BY <2>1, <1>4, OneDecides
    <2>2. ASSUME \A i \in 1..n : d[i] = 0
          PROVE  FirstDifference(d) = 0
        BY <2>2, <1>5, <1>3 DEF Decides, Ordering
    <2> QED BY <2>1, <2>2
<1> QED BY <1>3, <1>4, <1>5, <1>6

\* If each part fits one order, so does the first part that decides.
LEMMA FirstFits ==
    ASSUME NEW n \in Nat, NEW d \in [1..n -> Ordering], NEW o \in [1..n -> Ordering],
           NEW e \in [1..n -> Ordering], NEW f \in [1..n -> Ordering],
           \A i \in 1..n : Fits(d[i], o[i], e[i], f[i])
    PROVE  Fits(FirstDifference(d), FirstDifference(o), FirstDifference(e), FirstDifference(f))
<1>1. FirstDifference(d) \in Ordering /\ FirstDifference(o) \in Ordering /\ FirstDifference(e) \in Ordering /\ FirstDifference(f) \in Ordering
    BY FirstIs
<1>2. FirstDifference(d) = -FirstDifference(o)
    <2>1. CASE FirstDifference(d) = 0
        <3>1. \A i \in 1..n : d[i] = 0
            BY <2>1, FirstIs
        <3>2. \A i \in 1..n : o[i] = 0
            BY <3>1 DEF Fits, Ordering
        <3> QED BY <3>2, <2>1, FirstIs
    <2>2. CASE FirstDifference(d) # 0
        <3>1. PICK i \in 1..n : Decides(d, i, FirstDifference(d))
            BY <2>2, FirstIs
        <3>2. \A j \in 1..i - 1 : j \in 1..n /\ d[j] = 0
            BY <3>1 DEF Decides
        <3>5. \A j \in 1..i - 1 : o[j] = 0
            BY <3>2 DEF Fits, Ordering
        <3>6. d[i] = FirstDifference(d) /\ o[i] = -FirstDifference(d)
            BY <3>1, <1>1 DEF Decides, Fits, Ordering
        <3>3. -FirstDifference(d) \in {-1, 1}
            BY <2>2, <1>1 DEF Ordering
        <3>4. FirstDifference(o) = -FirstDifference(d)
            BY <3>5, <3>6, <3>3, FirstIs DEF Decides
        <3> QED BY <3>4, <1>1 DEF Ordering
    <2> QED BY <2>1, <2>2
<1>3. CASE FirstDifference(d) = 0 /\ FirstDifference(e) = 0
    <2>1. \A i \in 1..n : d[i] = 0 /\ e[i] = 0
        BY <1>3, FirstIs
    <2>2. \A i \in 1..n : f[i] = 0
        BY <2>1 DEF Fits, Coherent, Ordering
    <2>3. FirstDifference(f) = 0
        BY <2>2, FirstIs
    <2> QED BY <2>3, <1>1, <1>2, <1>3 DEF Fits, Coherent
<1>4. ASSUME NEW r \in {-1, 1}, FirstDifference(d) = r \/ FirstDifference(e) = r, FirstDifference(d) # -r, FirstDifference(e) # -r
      PROVE  FirstDifference(f) = r
    \* The first place where either differs.
    <2>1. PICK k \in 1..n : /\ \A j \in 1..k - 1 : d[j] = 0 /\ e[j] = 0
                            /\ d[k] \in {0, r} /\ e[k] \in {0, r}
                            /\ d[k] = r \/ e[k] = r
        <3>1. CASE FirstDifference(d) = 0
            <4>1. \A i \in 1..n : d[i] = 0
                BY <3>1, FirstIs
            <4>2. FirstDifference(e) = r
                BY <3>1, <1>4
            <4>3. PICK k \in 1..n : Decides(e, k, r)
                BY <4>2, FirstIs
            <4> QED BY <4>1, <4>3 DEF Decides
        <3>2. CASE FirstDifference(e) = 0
            <4>1. \A i \in 1..n : e[i] = 0
                BY <3>2, FirstIs
            <4>2. FirstDifference(d) = r
                BY <3>2, <1>4
            <4>3. PICK k \in 1..n : Decides(d, k, r)
                BY <4>2, FirstIs
            <4> QED BY <4>1, <4>3 DEF Decides
        <3>3. CASE FirstDifference(d) = r /\ FirstDifference(e) = r
            <4>1. PICK p \in 1..n : Decides(d, p, r)
                BY <3>3, FirstIs
            <4>2. PICK q \in 1..n : Decides(e, q, r)
                BY <3>3, FirstIs
            <4>3. CASE p <= q
                <5>1. e[p] \in {0, r}
                    BY <4>2, <4>3 DEF Decides
                <5>2. \A j \in 1..p - 1 : d[j] = 0 /\ e[j] = 0
                    BY <4>1, <4>2, <4>3 DEF Decides
                <5> QED BY <5>1, <5>2, <4>1 DEF Decides
            <4>4. CASE q < p
                <5>1. d[q] \in {0, r}
                    BY <4>1, <4>4 DEF Decides
                <5>2. \A j \in 1..q - 1 : d[j] = 0 /\ e[j] = 0
                    BY <4>1, <4>2, <4>4 DEF Decides
                <5> QED BY <5>1, <5>2, <4>2 DEF Decides
            <4> QED BY <4>3, <4>4
        <3>4. FirstDifference(d) \in {0, r} /\ FirstDifference(e) \in {0, r}
            BY <1>4, <1>1 DEF Ordering
        <3> QED BY <3>1, <3>2, <3>3, <3>4
    <2>2. \A j \in 1..k - 1 : f[j] = 0
        BY <2>1 DEF Fits, Coherent, Ordering
    <2>3. f[k] = r
        BY <2>1 DEF Fits, Coherent, Ordering
    <2>4. Decides(f, k, r)
        BY <2>2, <2>3 DEF Decides
    <2> QED BY <2>4, FirstIs
<1>5. Coherent(FirstDifference(d), FirstDifference(e), FirstDifference(f))
    BY <1>1, <1>3, <1>4 DEF Coherent, Ordering, Fits
<1> QED BY <1>1, <1>2, <1>5 DEF Fits

\* d goes on after s, with parts that are equal.
Pads(d, n, s, m) ==
    /\ m \in Nat /\ n \in Nat /\ m <= n
    /\ d \in [1..n -> Ordering] /\ s \in [1..m -> Ordering]
    /\ \A i \in 1..m : s[i] = d[i]
    /\ \A i \in m + 1..n : d[i] = 0

\* Parts that are equal at the end change nothing.
LEMMA FirstPadded ==
    ASSUME NEW m, NEW n, NEW d, NEW s, Pads(d, n, s, m)
    PROVE  FirstDifference(s) = FirstDifference(d)
<1> USE DEF Pads
<1>1. \A i \in 1..m : \A r \in {-1, 1} : Decides(s, i, r) <=> Decides(d, i, r)
    <2> TAKE i \in 1..m, r \in {-1, 1}
    <2>1. s[i] = d[i] /\ \A j \in 1..i - 1 : s[j] = d[j]
        OBVIOUS
    <2> QED BY <2>1 DEF Decides
<1>2. \A i \in 1..n : \A r \in {-1, 1} : Decides(d, i, r) => i \in 1..m
    BY DEF Decides
<1> QED BY <1>1, <1>2 DEF FirstDifference

\* Integers fit one order.
LEMMA CmpFits ==
    ASSUME NEW x \in Int, NEW y \in Int, NEW z \in Int
    PROVE  Fits(Cmp(x, y), Cmp(y, x), Cmp(y, z), Cmp(x, z))
    BY DEF Fits, Coherent, Cmp, Ordering

\* Two comparisons, one after the other.
LEMMA TwoFit ==
    ASSUME NEW d1, NEW o1, NEW e1, NEW f1, Fits(d1, o1, e1, f1),
           NEW d2, NEW o2, NEW e2, NEW f2, Fits(d2, o2, e2, f2)
    PROVE  Fits(FirstDifference(<<d1, d2>>), FirstDifference(<<o1, o2>>), FirstDifference(<<e1, e2>>), FirstDifference(<<f1, f2>>))
<1> DEFINE d == <<d1, d2>>  o == <<o1, o2>>  e == <<e1, e2>>  f == <<f1, f2>>
<1>1. d \in [1..2 -> Ordering] /\ o \in [1..2 -> Ordering]
      /\ e \in [1..2 -> Ordering] /\ f \in [1..2 -> Ordering]
    BY DEF Fits
<1>2. \A i \in 1..2 : Fits(d[i], o[i], e[i], f[i])
    OBVIOUS
<1> HIDE DEF d, o, e, f
<1>3. Fits(FirstDifference(d), FirstDifference(o), FirstDifference(e), FirstDifference(f))
    BY <1>1, <1>2, FirstFits
<1> QED BY <1>3 DEF d, o, e, f

-----------------------------------------------------------------------------
(* Lists: a comparison for every position, equal beyond both.              *)

\* How far a comparison of two lists goes.
LEMMA LongestIs ==
    ASSUME NEW a, NEW b, Len(a) \in Nat, Len(b) \in Nat
    PROVE  /\ Longest(a, b) \in Nat
           /\ Longest(a, b) = Longest(b, a)
           /\ Len(a) <= Longest(a, b) /\ Len(b) <= Longest(a, b)
           /\ Longest(a, b) <= Len(a) + Len(b)
    BY DEF Longest

\* How lists of lengths p and q compare at i, if their members there compare so.
At(i, p, q, members) ==
    IF i <= p /\ i <= q THEN members ELSE IF i <= p \/ i <= q THEN Cmp(p, q) ELSE 0

\* A list that has run out is below one that has not.
LEMMA AtFits ==
    ASSUME NEW i \in Nat, NEW p \in Nat, NEW q \in Nat, NEW r \in Nat,
           NEW ab, NEW ba, NEW bc, NEW ac,
           i <= p /\ i <= q => ab \in Ordering /\ ba \in Ordering /\ ab = -ba,
           i <= q /\ i <= r => bc \in Ordering,
           i <= p /\ i <= r => ac \in Ordering,
           i <= p /\ i <= q /\ i <= r => Fits(ab, ba, bc, ac)
    PROVE  Fits(At(i, p, q, ab), At(i, q, p, ba), At(i, q, r, bc), At(i, p, r, ac))
<1>1. CASE i <= p /\ i <= q /\ i <= r
    BY <1>1 DEF At
<1>2. CASE ~(i <= p) /\ ~(i <= q) /\ ~(i <= r)
    BY <1>2 DEF At, Fits, Coherent, Ordering
<1>3. CASE i <= p /\ i <= q /\ ~(i <= r)
    BY <1>3 DEF At, Cmp, Fits, Coherent, Ordering
<1>4. CASE i <= p /\ ~(i <= q) /\ i <= r
    BY <1>4 DEF At, Cmp, Fits, Coherent, Ordering
<1>5. CASE ~(i <= p) /\ i <= q /\ i <= r
    BY <1>5 DEF At, Cmp, Fits, Coherent, Ordering
<1>6. CASE i <= p /\ ~(i <= q) /\ ~(i <= r)
    BY <1>6 DEF At, Cmp, Fits, Coherent, Ordering
<1>7. CASE ~(i <= p) /\ i <= q /\ ~(i <= r)
    BY <1>7 DEF At, Cmp, Fits, Coherent, Ordering
<1>8. CASE ~(i <= p) /\ ~(i <= q) /\ i <= r
    BY <1>8 DEF At, Cmp, Fits, Coherent, Ordering
<1> QED BY <1>1, <1>2, <1>3, <1>4, <1>5, <1>6, <1>7, <1>8

-----------------------------------------------------------------------------
(* Semantic versions.                                                      *)

\* Two identifiers after a hyphen: numbers, signed or not, and words.
LEMMA IdentifiersFit ==
    ASSUME NEW a \in Identifier, NEW b \in Identifier, NEW c \in Identifier
    PROVE  Fits(CompareIdentifier(a, b), CompareIdentifier(b, a),
                CompareIdentifier(b, c), CompareIdentifier(a, c))
<1>1. \A x \in Identifier : Sign(x) \in Int /\ Value(x) \in Int /\ x.n \in Int
                             /\ x.kind \in {"word", "number"}
    <2> TAKE x \in Identifier
    <2>1. x.n \in Nat /\ x.kind \in {"word", "number"}
        BY DEF Identifier
    <2>2. Sign(x) \in Int
        BY DEF Sign
    <2>3. Value(x) \in Int
        BY <2>1 DEF Value
    <2> QED BY <2>1, <2>2, <2>3
<1> DEFINE Signed(x, y) == FirstDifference(<<Cmp(Sign(x), Sign(y)), Cmp(Value(x), Value(y))>>)
<1>2. Fits(Signed(a, b), Signed(b, a), Signed(b, c), Signed(a, c))
    BY <1>1, CmpFits, TwoFit
<1>3. Fits(Cmp(a.n, b.n), Cmp(b.n, a.n), Cmp(b.n, c.n), Cmp(a.n, c.n))
    BY <1>1, CmpFits
<1>4. Signed(a, b) \in Ordering /\ Signed(b, a) \in Ordering /\ Signed(a, b) = -Signed(b, a)
    BY <1>2 DEF Fits
<1>5. Signed(b, c) \in Ordering /\ Signed(a, c) \in Ordering
    BY <1>2 DEF Fits
<1>6. CASE a.kind = b.kind /\ b.kind = c.kind
    <2>1. CASE a.kind = "word"
        BY <1>3, <1>6, <2>1 DEF CompareIdentifier
    <2>2. CASE a.kind = "number"
        BY <1>2, <1>6, <2>2 DEF CompareIdentifier
    <2> QED BY <1>1, <2>1, <2>2
<1>7. CASE a.kind # b.kind \/ b.kind # c.kind
    <2> DEFINE T(x, y) == IF x.kind # y.kind THEN IF x.kind = "number" THEN -1 ELSE 1
                          ELSE IF x.kind = "word" THEN Cmp(x.n, y.n) ELSE Signed(x, y)
    <2>1. \A x, y \in Identifier : CompareIdentifier(x, y) = T(x, y)
        BY DEF CompareIdentifier
    <2>2. Cmp(a.n, b.n) \in Ordering /\ Cmp(b.n, a.n) \in Ordering /\ Cmp(b.n, c.n) \in Ordering
          /\ Cmp(a.n, c.n) \in Ordering /\ Cmp(a.n, b.n) = -Cmp(b.n, a.n)
        BY <1>3 DEF Fits
    <2> HIDE DEF Signed
    <2>3. Fits(T(a, b), T(b, a), T(b, c), T(a, c))
        BY <1>1, <1>4, <1>5, <1>7, <2>2 DEF Fits, Coherent, Ordering
    <2> QED BY <2>1, <2>3
<1> QED BY <1>6, <1>7
\* A version's build identifiers, or two, or three.
LEMMA IdentifierListsFit ==
    ASSUME NEW a \in Seq(Identifier), NEW b \in Seq(Identifier), NEW c \in Seq(Identifier)
    PROVE  Fits(FirstDifference([i \in 1..Longest(a, b) |-> IdentifierAt(a, b, i)]),
                FirstDifference([i \in 1..Longest(b, a) |-> IdentifierAt(b, a, i)]),
                FirstDifference([i \in 1..Longest(b, c) |-> IdentifierAt(b, c, i)]),
                FirstDifference([i \in 1..Longest(a, c) |-> IdentifierAt(a, c, i)]))
<1> DEFINE n == Len(a) + Len(b) + Len(c)
           Short(x, y) == [i \in 1..Longest(x, y) |-> IdentifierAt(x, y, i)]
           Member(x, y, i) == At(i, Len(x), Len(y), CompareIdentifier(x[i], y[i]))
           Long(x, y) == [i \in 1..n |-> Member(x, y, i)]
<1>1. Len(a) \in Nat /\ Len(b) \in Nat /\ Len(c) \in Nat /\ n \in Nat
    OBVIOUS
<1>2. \A x \in Seq(Identifier) : \A i \in 1..n : i <= Len(x) => x[i] \in Identifier
    OBVIOUS
<1>3. \A x, y \in Identifier : CompareIdentifier(x, y) \in Ordering
                                /\ CompareIdentifier(x, y) = -CompareIdentifier(y, x)
    BY IdentifiersFit DEF Fits
<1>4. ASSUME NEW i \in 1..n
      PROVE  Fits(Member(a, b, i), Member(b, a, i), Member(b, c, i), Member(a, c, i))
    <2>1. i <= Len(a) /\ i <= Len(b) =>
            /\ CompareIdentifier(a[i], b[i]) \in Ordering
            /\ CompareIdentifier(b[i], a[i]) \in Ordering
            /\ CompareIdentifier(a[i], b[i]) = -CompareIdentifier(b[i], a[i])
        BY <1>2, <1>3
    <2>2. i <= Len(b) /\ i <= Len(c) => CompareIdentifier(b[i], c[i]) \in Ordering
        BY <1>2, <1>3
    <2>3. i <= Len(a) /\ i <= Len(c) => CompareIdentifier(a[i], c[i]) \in Ordering
        BY <1>2, <1>3
    <2>4. i <= Len(a) /\ i <= Len(b) /\ i <= Len(c) =>
            Fits(CompareIdentifier(a[i], b[i]), CompareIdentifier(b[i], a[i]),
                 CompareIdentifier(b[i], c[i]), CompareIdentifier(a[i], c[i]))
        BY <1>2, IdentifiersFit
    <2> QED BY <1>1, <2>1, <2>2, <2>3, <2>4, AtFits
<1>5. ASSUME NEW x \in Seq(Identifier), NEW y \in Seq(Identifier), Len(x) + Len(y) <= n
      PROVE  Pads(Long(x, y), n, Short(x, y), Longest(x, y))
    <2>1. Len(x) \in Nat /\ Len(y) \in Nat /\ Longest(x, y) \in Nat /\ Longest(x, y) <= n
        BY <1>1, <1>5, LongestIs
    <2>2. \A i \in 1..n : Member(x, y, i) \in Ordering
        BY <1>2, <1>3, <2>1 DEF At, Cmp, Ordering
    <2>3. \A i \in 1..Longest(x, y) : i \in 1..n /\ IdentifierAt(x, y, i) = Member(x, y, i)
        BY <2>1 DEF IdentifierAt, At, Longest
    <2>4. \A i \in Longest(x, y) + 1..n : i \in 1..n /\ Member(x, y, i) = 0
        BY <2>1 DEF At, Longest
    <2> HIDE DEF Member, n
    <2>5. Long(x, y) \in [1..n -> Ordering]
        BY <2>2
    <2>6. Short(x, y) \in [1..Longest(x, y) -> Ordering]
        BY <2>2, <2>3
    <2> QED BY <1>1, <2>1, <2>3, <2>4, <2>5, <2>6 DEF Pads
<1>6. Pads(Long(a, b), n, Short(a, b), Longest(a, b))
      /\ Pads(Long(b, a), n, Short(b, a), Longest(b, a))
      /\ Pads(Long(b, c), n, Short(b, c), Longest(b, c))
      /\ Pads(Long(a, c), n, Short(a, c), Longest(a, c))
    <2>1. Len(a) + Len(b) <= n /\ Len(b) + Len(a) <= n /\ Len(b) + Len(c) <= n /\ Len(a) + Len(c) <= n
        BY <1>1
    <2> HIDE DEF n, Long, Short
    <2> QED BY <1>5, <2>1
<1>7. \A i \in 1..n : Fits(Long(a, b)[i], Long(b, a)[i], Long(b, c)[i], Long(a, c)[i])
    <2> HIDE DEF n, Member
    <2> QED BY <1>4
<1>8. Fits(FirstDifference(Short(a, b)), FirstDifference(Short(b, a)), FirstDifference(Short(b, c)), FirstDifference(Short(a, c)))
    <2> HIDE DEF n, Long, Short
    <2>1. FirstDifference(Short(a, b)) = FirstDifference(Long(a, b)) /\ FirstDifference(Short(b, a)) = FirstDifference(Long(b, a))
          /\ FirstDifference(Short(b, c)) = FirstDifference(Long(b, c)) /\ FirstDifference(Short(a, c)) = FirstDifference(Long(a, c))
        BY <1>6, FirstPadded
    <2>2. Fits(FirstDifference(Long(a, b)), FirstDifference(Long(b, a)), FirstDifference(Long(b, c)), FirstDifference(Long(a, c)))
        BY <1>1, <1>6, <1>7, FirstFits DEF Pads
    <2> QED BY <2>1, <2>2
<1> QED BY <1>8

\* What follows the third component, where nothing at all is above everything.
LEMMA BuildsFit ==
    ASSUME NEW a \in Seq(Identifier), NEW b \in Seq(Identifier), NEW c \in Seq(Identifier)
    PROVE  Fits(CompareBuild(a, b), CompareBuild(b, a), CompareBuild(b, c), CompareBuild(a, c))
<1> DEFINE L(x, y) == FirstDifference([i \in 1..Longest(x, y) |-> IdentifierAt(x, y, i)])
<1>1. Fits(L(a, b), L(b, a), L(b, c), L(a, c))
    BY IdentifierListsFit
<1>2. \A x, y \in Seq(Identifier) :
        CompareBuild(x, y) = IF x = Nothing /\ y # Nothing THEN 1
                             ELSE IF x # Nothing /\ y = Nothing THEN -1 ELSE L(x, y)
    BY DEF CompareBuild
<1> HIDE DEF L
<1>3. CASE a = Nothing
    BY <1>1, <1>2, <1>3 DEF Fits, Coherent, Ordering
<1>4. CASE a # Nothing
    BY <1>1, <1>2, <1>4 DEF Fits, Coherent, Ordering
<1> QED BY <1>3, <1>4

\* What Version::parse makes of a string in the semver grammar.
SemverVersion == [components : [1..3 -> Nat], build : Seq(Identifier)]

\* Semantic versions, whatever they hold, fit one order.
LEMMA SemversFit ==
    ASSUME NEW a \in SemverVersion, NEW b \in SemverVersion, NEW c \in SemverVersion
    PROVE  Fits(CompareSemver(a, b), CompareSemver(b, a), CompareSemver(b, c), CompareSemver(a, c))
<1> DEFINE Part(x, y) == <<Cmp(x.components[1], y.components[1]),
                           Cmp(x.components[2], y.components[2]),
                           Cmp(x.components[3], y.components[3]), CompareBuild(x.build, y.build)>>
<1>1. \A x \in SemverVersion : x.build \in Seq(Identifier)
                                /\ \A i \in 1..3 : x.components[i] \in Int
    BY DEF SemverVersion
<1>2. Fits(CompareBuild(a.build, b.build), CompareBuild(b.build, a.build),
           CompareBuild(b.build, c.build), CompareBuild(a.build, c.build))
    BY <1>1, BuildsFit
<1>3. \A i \in 1..3 : Fits(Cmp(a.components[i], b.components[i]), Cmp(b.components[i], a.components[i]),
                           Cmp(b.components[i], c.components[i]), Cmp(a.components[i], c.components[i]))
    BY <1>1, CmpFits
<1>4. \A i \in 1..4 : Fits(Part(a, b)[i], Part(b, a)[i], Part(b, c)[i], Part(a, c)[i])
    BY <1>2, <1>3
<1>5. Part(a, b) \in [1..4 -> Ordering] /\ Part(b, a) \in [1..4 -> Ordering]
      /\ Part(b, c) \in [1..4 -> Ordering] /\ Part(a, c) \in [1..4 -> Ordering]
    BY <1>2, <1>3 DEF Fits
<1>6. \A x, y \in SemverVersion : CompareSemver(x, y) = FirstDifference(Part(x, y))
    BY DEF CompareSemver
<1> HIDE DEF Part
<1>7. Fits(FirstDifference(Part(a, b)), FirstDifference(Part(b, a)), FirstDifference(Part(b, c)), FirstDifference(Part(a, c)))
    BY <1>4, <1>5, 4 \in Nat, FirstFits
<1> QED BY <1>6, <1>7

-----------------------------------------------------------------------------
(* PyPI versions.                                                          *)

\* Versions that predate PEP 440, and those that do not.
LEMMA LegaciesFit ==
    ASSUME NEW a, NEW b, NEW c, a.legacy \in Nat, b.legacy \in Nat, c.legacy \in Nat
    PROVE  Fits(CompareLegacy(a, b), CompareLegacy(b, a), CompareLegacy(b, c), CompareLegacy(a, c))
    BY DEF CompareLegacy, Cmp, Fits, Coherent, Ordering

\* Releases, as if the shorter went on with zeros.
LEMMA ReleasesFit ==
    ASSUME NEW a \in Seq(Nat), NEW b \in Seq(Nat), NEW c \in Seq(Nat)
    PROVE  Fits(CompareRelease(a, b), CompareRelease(b, a), CompareRelease(b, c), CompareRelease(a, c))
<1> DEFINE n == Len(a) + Len(b) + Len(c)
           Member(x, y, i) == Cmp(Padded(x, i), Padded(y, i))
           Short(x, y) == [i \in 1..Longest(x, y) |-> Member(x, y, i)]
           Long(x, y) == [i \in 1..n |-> Member(x, y, i)]
<1>1. Len(a) \in Nat /\ Len(b) \in Nat /\ Len(c) \in Nat /\ n \in Nat
    OBVIOUS
<1>2. \A x \in Seq(Nat) : \A i \in 1..n : Padded(x, i) \in Int
    BY DEF Padded
<1>3. ASSUME NEW i \in 1..n
      PROVE  Fits(Member(a, b, i), Member(b, a, i), Member(b, c, i), Member(a, c, i))
    BY <1>2, CmpFits
<1>4. ASSUME NEW x \in Seq(Nat), NEW y \in Seq(Nat), Len(x) + Len(y) <= n
      PROVE  Pads(Long(x, y), n, Short(x, y), Longest(x, y))
    <2>1. Len(x) \in Nat /\ Len(y) \in Nat /\ Longest(x, y) \in Nat /\ Longest(x, y) <= n
        BY <1>1, <1>4, LongestIs
    <2>2. \A i \in 1..n : Member(x, y, i) \in Ordering
        BY <1>2 DEF Cmp, Ordering
    <2>3. \A i \in 1..Longest(x, y) : i \in 1..n
        BY <2>1, <1>1
    <2>4. \A i \in Longest(x, y) + 1..n : i \in 1..n /\ Member(x, y, i) = 0
        BY <2>1 DEF Padded, Cmp, Longest
    <2> HIDE DEF Member, n
    <2>5. Long(x, y) \in [1..n -> Ordering]
        BY <2>2
    <2>6. Short(x, y) \in [1..Longest(x, y) -> Ordering]
        BY <2>2, <2>3
    <2> QED BY <1>1, <2>1, <2>3, <2>4, <2>5, <2>6 DEF Pads
<1>5. Pads(Long(a, b), n, Short(a, b), Longest(a, b))
      /\ Pads(Long(b, a), n, Short(b, a), Longest(b, a))
      /\ Pads(Long(b, c), n, Short(b, c), Longest(b, c))
      /\ Pads(Long(a, c), n, Short(a, c), Longest(a, c))
    <2>1. Len(a) + Len(b) <= n /\ Len(b) + Len(a) <= n /\ Len(b) + Len(c) <= n /\ Len(a) + Len(c) <= n
        BY <1>1
    <2> HIDE DEF n, Long, Short
    <2> QED BY <1>4, <2>1
<1>6. \A i \in 1..n : Fits(Long(a, b)[i], Long(b, a)[i], Long(b, c)[i], Long(a, c)[i])
    <2> HIDE DEF n, Member
    <2> QED BY <1>3
<1>7. \A x, y \in Seq(Nat) : CompareRelease(x, y) = FirstDifference(Short(x, y))
    BY DEF CompareRelease
<1>8. FirstDifference(Short(a, b)) = FirstDifference(Long(a, b)) /\ FirstDifference(Short(b, a)) = FirstDifference(Long(b, a))
      /\ FirstDifference(Short(b, c)) = FirstDifference(Long(b, c)) /\ FirstDifference(Short(a, c)) = FirstDifference(Long(a, c))
    <2> HIDE DEF n, Long, Short
    <2> QED BY <1>5, FirstPadded
<1>9. Fits(FirstDifference(Long(a, b)), FirstDifference(Long(b, a)), FirstDifference(Long(b, c)), FirstDifference(Long(a, c)))
    <2> HIDE DEF n, Long, Short
    <2> QED BY <1>1, <1>5, <1>6, FirstFits DEF Pads
<1> HIDE DEF Long, Short
<1> QED BY <1>7, <1>8, <1>9

\* A prerelease, which has a letter if it has a number.
PreMark == [letter : {"", "a", "b", "rc"}, number : {Absent}]
               \cup [letter : {"a", "b", "rc"}, number : Nat]

\* Before all prereleases, one of them, or after all.
Place(v) == IF AppliesPreTrick(v) THEN -1 ELSE IF v.pre.number = Absent THEN 1 ELSE 0

\* Prereleases, what comes before all of them and what comes after.
LEMMA PresFit ==
    ASSUME NEW a, NEW b, NEW c, a.pre \in PreMark, b.pre \in PreMark, c.pre \in PreMark
    PROVE  Fits(ComparePre(a, b), ComparePre(b, a), ComparePre(b, c), ComparePre(a, c))
<1> DEFINE Byte(x) == FirstByte[x.pre.letter]  Num(x) == x.pre.number
           Ph(x, y) == FirstDifference(<<Cmp(Byte(x), Byte(y)), Cmp(Num(x), Num(y))>>)
           C(x, y) == IF Place(x) # Place(y) THEN Cmp(Place(x), Place(y))
                      ELSE IF Place(x) = 0 THEN Ph(x, y) ELSE 0
<1>1. \A x : x.pre \in PreMark /\ Place(x) = 0 => Byte(x) \in Int /\ Num(x) \in Int
    <2> TAKE x
    <2> HAVE x.pre \in PreMark /\ Place(x) = 0
    <2>1. x.pre.number # Absent
        BY DEF Place
    <2>2. x.pre.letter \in {"a", "b", "rc"} /\ x.pre.number \in Nat
        BY <2>1 DEF PreMark
    <2>3. FirstByte["a"] = 97 /\ FirstByte["b"] = 98 /\ FirstByte["rc"] = 114
        BY DEF FirstByte
    <2> QED BY <2>2, <2>3
<1>2. \A x, y : ComparePre(x, y) = C(x, y)
    BY DEF ComparePre, ComparePhase, Place, AppliesPreTrick, Cmp
<1>3. \A x : Place(x) \in {-1, 0, 1}
    BY DEF Place
<1> HIDE DEF Byte, Num
<1>4. \A x, y : Place(x) = 0 /\ Place(y) = 0 /\ x.pre \in PreMark /\ y.pre \in PreMark =>
                    Ph(x, y) \in Ordering /\ Ph(y, x) \in Ordering /\ Ph(x, y) = -Ph(y, x)
    <2> TAKE x, y
    <2> HAVE Place(x) = 0 /\ Place(y) = 0 /\ x.pre \in PreMark /\ y.pre \in PreMark
    <2>1. Byte(x) \in Int /\ Byte(y) \in Int /\ Num(x) \in Int /\ Num(y) \in Int
        BY <1>1
    <2>2. Fits(Ph(x, y), Ph(y, x), Ph(y, y), Ph(x, y))
        BY <2>1, CmpFits, TwoFit
    <2> HIDE DEF Ph
    <2> QED BY <2>2 DEF Fits
<1>5. Place(a) = 0 /\ Place(b) = 0 /\ Place(c) = 0 => Fits(Ph(a, b), Ph(b, a), Ph(b, c), Ph(a, c))
    BY <1>1, CmpFits, TwoFit
<1> HIDE DEF Ph
<1>6. Fits(C(a, b), C(b, a), C(b, c), C(a, c))
    <2>1. CASE Place(a) = 0 /\ Place(b) = 0 /\ Place(c) = 0
        BY <1>5, <2>1
    <2>2. CASE ~(Place(a) = 0 /\ Place(b) = 0 /\ Place(c) = 0)
        BY <1>3, <1>4, <2>2 DEF Cmp, Fits, Coherent, Ordering
    <2> QED BY <2>1, <2>2
<1> QED BY <1>2, <1>6

\* Development releases, and the releases they lead to.
LEMMA DevsFit ==
    ASSUME NEW a, NEW b, NEW c, a.dev.number \in Nat \cup {Absent},
           b.dev.number \in Nat \cup {Absent}, c.dev.number \in Nat \cup {Absent}
    PROVE  Fits(CompareDev(a, b), CompareDev(b, a), CompareDev(b, c), CompareDev(a, c))
    BY DEF CompareDev, Cmp, Fits, Coherent, Ordering, Absent

\* Post-releases, above what they follow.
LEMMA PostsFit ==
    ASSUME NEW a, NEW b, NEW c, a.post.number \in Nat \cup {Absent},
           b.post.number \in Nat \cup {Absent}, c.post.number \in Nat \cup {Absent}
    PROVE  Fits(ComparePost(a, b), ComparePost(b, a), ComparePost(b, c), ComparePost(a, c))
    BY CmpFits DEF ComparePost, Absent

\* Two identifiers of a local version.
LocalMember(x, y) ==
    IF x.kind = y.kind THEN Cmp(x.n, y.n) ELSE IF x.kind = "number" THEN 1 ELSE -1

\* Two identifiers of local versions.
LEMMA LocalMembersFit ==
    ASSUME NEW a \in Identifier, NEW b \in Identifier, NEW c \in Identifier
    PROVE  Fits(LocalMember(a, b), LocalMember(b, a), LocalMember(b, c), LocalMember(a, c))
<1>1. \A x \in Identifier : x.n \in Nat /\ x.kind \in {"word", "number"}
    BY DEF Identifier
<1> QED BY <1>1 DEF LocalMember, Cmp, Fits, Coherent, Ordering

\* Local versions, or none.
LEMMA LocalsFit ==
    ASSUME NEW a \in Seq(Identifier), NEW b \in Seq(Identifier), NEW c \in Seq(Identifier)
    PROVE  Fits(CompareLocal(a, b), CompareLocal(b, a), CompareLocal(b, c), CompareLocal(a, c))
<1> DEFINE n == Len(a) + Len(b) + Len(c)
           Short(x, y) == [i \in 1..Longest(x, y) |-> LocalAt(x, y, i)]
           Member(x, y, i) == At(i, Len(x), Len(y), LocalMember(x[i], y[i]))
           Long(x, y) == [i \in 1..n |-> Member(x, y, i)]
<1>1. Len(a) \in Nat /\ Len(b) \in Nat /\ Len(c) \in Nat /\ n \in Nat
    OBVIOUS
<1>2. \A x \in Seq(Identifier) : \A i \in 1..n : i <= Len(x) => x[i] \in Identifier
    OBVIOUS
<1>3. \A x, y \in Identifier : LocalMember(x, y) \in Ordering
                                /\ LocalMember(x, y) = -LocalMember(y, x)
    BY LocalMembersFit DEF Fits
<1>4. ASSUME NEW i \in 1..n
      PROVE  Fits(Member(a, b, i), Member(b, a, i), Member(b, c, i), Member(a, c, i))
    <2>1. i <= Len(a) /\ i <= Len(b) =>
            /\ LocalMember(a[i], b[i]) \in Ordering
            /\ LocalMember(b[i], a[i]) \in Ordering
            /\ LocalMember(a[i], b[i]) = -LocalMember(b[i], a[i])
        BY <1>2, <1>3
    <2>2. i <= Len(b) /\ i <= Len(c) => LocalMember(b[i], c[i]) \in Ordering
        BY <1>2, <1>3
    <2>3. i <= Len(a) /\ i <= Len(c) => LocalMember(a[i], c[i]) \in Ordering
        BY <1>2, <1>3
    <2>4. i <= Len(a) /\ i <= Len(b) /\ i <= Len(c) =>
            Fits(LocalMember(a[i], b[i]), LocalMember(b[i], a[i]),
                 LocalMember(b[i], c[i]), LocalMember(a[i], c[i]))
        BY <1>2, LocalMembersFit
    <2> QED BY <1>1, <2>1, <2>2, <2>3, <2>4, AtFits
<1>5. ASSUME NEW x \in Seq(Identifier), NEW y \in Seq(Identifier), Len(x) + Len(y) <= n
      PROVE  Pads(Long(x, y), n, Short(x, y), Longest(x, y))
    <2>1. Len(x) \in Nat /\ Len(y) \in Nat /\ Longest(x, y) \in Nat /\ Longest(x, y) <= n
        BY <1>1, <1>5, LongestIs
    <2>2. \A i \in 1..n : Member(x, y, i) \in Ordering
        BY <1>2, <1>3, <2>1 DEF At, Cmp, Ordering
    <2>3. \A i \in 1..Longest(x, y) : i \in 1..n /\ LocalAt(x, y, i) = Member(x, y, i)
        BY <2>1 DEF LocalAt, LocalMember, At, Longest
    <2>4. \A i \in Longest(x, y) + 1..n : i \in 1..n /\ Member(x, y, i) = 0
        BY <2>1 DEF At, Longest
    <2> HIDE DEF Member, n
    <2>5. Long(x, y) \in [1..n -> Ordering]
        BY <2>2
    <2>6. Short(x, y) \in [1..Longest(x, y) -> Ordering]
        BY <2>2, <2>3
    <2> QED BY <1>1, <2>1, <2>3, <2>4, <2>5, <2>6 DEF Pads
<1>6. Pads(Long(a, b), n, Short(a, b), Longest(a, b))
      /\ Pads(Long(b, a), n, Short(b, a), Longest(b, a))
      /\ Pads(Long(b, c), n, Short(b, c), Longest(b, c))
      /\ Pads(Long(a, c), n, Short(a, c), Longest(a, c))
    <2>1. Len(a) + Len(b) <= n /\ Len(b) + Len(a) <= n /\ Len(b) + Len(c) <= n /\ Len(a) + Len(c) <= n
        BY <1>1
    <2> HIDE DEF n, Long, Short
    <2> QED BY <1>5, <2>1
<1>7. \A i \in 1..n : Fits(Long(a, b)[i], Long(b, a)[i], Long(b, c)[i], Long(a, c)[i])
    <2> HIDE DEF n, Member
    <2> QED BY <1>4
<1>8. \A x, y \in Seq(Identifier) : CompareLocal(x, y) = FirstDifference(Short(x, y))
    BY DEF CompareLocal
<1>9. FirstDifference(Short(a, b)) = FirstDifference(Long(a, b)) /\ FirstDifference(Short(b, a)) = FirstDifference(Long(b, a))
      /\ FirstDifference(Short(b, c)) = FirstDifference(Long(b, c)) /\ FirstDifference(Short(a, c)) = FirstDifference(Long(a, c))
    <2> HIDE DEF n, Long, Short
    <2> QED BY <1>6, FirstPadded
<1>10. Fits(FirstDifference(Long(a, b)), FirstDifference(Long(b, a)), FirstDifference(Long(b, c)), FirstDifference(Long(a, c)))
    <2> HIDE DEF n, Long, Short
    <2> QED BY <1>1, <1>6, <1>7, FirstFits DEF Pads
<1> HIDE DEF Long, Short
<1> QED BY <1>8, <1>9, <1>10

\* A mark that LetterVersion has read.
ReadMark == [letter : {"", "post", "dev"}, number : Nat \cup {Absent}]

\* What Version::parse makes of a string in the PyPI grammar.
PyPIVersion ==
    [legacy : Nat, epoch : Nat, release : Seq(Nat), pre : PreMark, post : ReadMark,
     dev : ReadMark, local : Seq(Identifier)]

\* PyPI versions, whatever they hold, fit one order.
LEMMA PyPIsFit ==
    ASSUME NEW a \in PyPIVersion, NEW b \in PyPIVersion, NEW c \in PyPIVersion
    PROVE  Fits(ComparePyPI(a, b), ComparePyPI(b, a), ComparePyPI(b, c), ComparePyPI(a, c))
<1> DEFINE Part(x, y) ==
               <<CompareLegacy(x, y), Cmp(x.epoch, y.epoch), CompareRelease(x.release, y.release),
                 ComparePre(x, y), ComparePost(x, y), CompareDev(x, y),
                 CompareLocal(x.local, y.local)>>
<1>1. \A x \in PyPIVersion :
        /\ x.legacy \in Nat /\ x.epoch \in Int /\ x.release \in Seq(Nat) /\ x.pre \in PreMark
        /\ x.post.number \in Nat \cup {Absent} /\ x.dev.number \in Nat \cup {Absent}
        /\ x.local \in Seq(Identifier)
    <2> TAKE x \in PyPIVersion
    <2>1. /\ x.legacy \in Nat /\ x.epoch \in Nat /\ x.release \in Seq(Nat) /\ x.pre \in PreMark
          /\ x.post \in ReadMark /\ x.dev \in ReadMark /\ x.local \in Seq(Identifier)
        BY DEF PyPIVersion
    <2>2. x.post.number \in Nat \cup {Absent} /\ x.dev.number \in Nat \cup {Absent}
        BY <2>1 DEF ReadMark
    <2> QED BY <2>1, <2>2
<1>2. Fits(CompareLegacy(a, b), CompareLegacy(b, a), CompareLegacy(b, c), CompareLegacy(a, c))
    BY <1>1, LegaciesFit
<1>3. Fits(Cmp(a.epoch, b.epoch), Cmp(b.epoch, a.epoch), Cmp(b.epoch, c.epoch), Cmp(a.epoch, c.epoch))
    BY <1>1, CmpFits
<1>4. Fits(CompareRelease(a.release, b.release), CompareRelease(b.release, a.release),
           CompareRelease(b.release, c.release), CompareRelease(a.release, c.release))
    BY <1>1, ReleasesFit
<1>5. Fits(ComparePre(a, b), ComparePre(b, a), ComparePre(b, c), ComparePre(a, c))
    BY <1>1, PresFit
<1>6. Fits(ComparePost(a, b), ComparePost(b, a), ComparePost(b, c), ComparePost(a, c))
    BY <1>1, PostsFit
<1>7. Fits(CompareDev(a, b), CompareDev(b, a), CompareDev(b, c), CompareDev(a, c))
    BY <1>1, DevsFit
<1>8. Fits(CompareLocal(a.local, b.local), CompareLocal(b.local, a.local),
           CompareLocal(b.local, c.local), CompareLocal(a.local, c.local))
    BY <1>1, LocalsFit
<1>9. \A i \in 1..7 : Fits(Part(a, b)[i], Part(b, a)[i], Part(b, c)[i], Part(a, c)[i])
    <2> TAKE i \in 1..7
    <2>1. i = 1 \/ i = 2 \/ i = 3 \/ i = 4 \/ i = 5 \/ i = 6 \/ i = 7
        OBVIOUS
    <2> QED BY <2>1, <1>2, <1>3, <1>4, <1>5, <1>6, <1>7, <1>8
<1>10. Part(a, b) \in [1..7 -> Ordering] /\ Part(b, a) \in [1..7 -> Ordering]
       /\ Part(b, c) \in [1..7 -> Ordering] /\ Part(a, c) \in [1..7 -> Ordering]
    BY <1>2, <1>3, <1>4, <1>5, <1>6, <1>7, <1>8 DEF Fits
<1>11. \A x, y \in PyPIVersion : ComparePyPI(x, y) = FirstDifference(Part(x, y))
    BY DEF ComparePyPI
<1> HIDE DEF Part
<1>12. Fits(FirstDifference(Part(a, b)), FirstDifference(Part(b, a)), FirstDifference(Part(b, c)), FirstDifference(Part(a, c)))
    BY <1>9, <1>10, 7 \in Nat, FirstFits
<1> QED BY <1>11, <1>12

-----------------------------------------------------------------------------
(* What is parsed.                                                         *)

Version == IF grammar = "semver" THEN SemverVersion ELSE PyPIVersion

\* Every version parsed has the parts that its comparison reads.
ParsedWell ==
    /\ grammar \in {"semver", "pypi"}
    /\ text \in [1..3 -> IF grammar = "semver" THEN SemverText ELSE PyPIText]
    /\ parsed \in Seq(Version)

\* A string in the semver grammar has three components and a build.
LEMMA ParsedSemver ==
    ASSUME NEW t \in SemverText
    PROVE  ParseSemver(t) \in SemverVersion
<1>1. t.numbers \in Seq(Nat) /\ t.tail \in Seq(Identifier) /\ t.metadata \in BOOLEAN
    BY DEF SemverText
<1>2. Components(t) \in [1..3 -> Nat]
    BY <1>1 DEF Components
<1> DEFINE k == Len(t.numbers) - 3
           Rest == [i \in 1..k |-> Number(t.numbers[i + 3])]
<1>3. Rest \in Seq(Identifier)
    <2>1. k \in Int
        BY <1>1
    <2>2. \A i \in 1..k : t.numbers[i + 3] \in Nat
        BY <1>1
    <2>3. \A i \in 1..k : Number(t.numbers[i + 3]) \in Identifier
        BY <2>2 DEF Number, Identifier
    <2>4. CASE k \in Nat
        BY <2>3, <2>4
    <2>5. CASE k \notin Nat
        <3>1. 1..k = 1..0
            BY <2>1, <2>5
        <3> QED BY <3>1, <2>3
    <2> QED BY <2>4, <2>5
<1>4. Build(t) \in Seq(Identifier)
    BY <1>1, <1>3 DEF Build
<1> QED BY <1>2, <1>4 DEF ParseSemver, SemverVersion

\* A prerelease that has a letter is read with a number.
LEMMA ReadPre ==
    ASSUME NEW m \in {Unmarked}
                       \cup Marked({"a", "alpha", "b", "beta", "c", "rc", "pre", "preview"})
    PROVE  LetterVersion(m) \in PreMark
<1>1. CASE m = Unmarked
    BY <1>1 DEF Unmarked, LetterVersion, PreMark, Absent
<1>2. CASE m \in Marked({"a", "alpha", "b", "beta", "c", "rc", "pre", "preview"})
    <2>1. m.letter \in {"a", "alpha", "b", "beta", "c", "rc", "pre", "preview"}
          /\ m.number \in Nat \cup {Absent}
        BY <1>2 DEF Marked
    <2>2. (IF m.letter \in DOMAIN Spelling THEN Spelling[m.letter] ELSE m.letter) \in {"a", "b", "rc"}
        BY <2>1 DEF Spelling
    <2>3. (IF m.number = Absent THEN 0 ELSE m.number) \in Nat
        BY <2>1
    <2> QED BY <2>1, <2>2, <2>3 DEF LetterVersion, PreMark
<1> QED BY <1>1, <1>2

\* A post-release is read with a number, a missing one as zero.
LEMMA ReadPost ==
    ASSUME NEW m \in Marked({"", "post", "rev", "r"})
    PROVE  LetterVersion(m) \in ReadMark
<1>1. m.letter \in {"", "post", "rev", "r"} /\ m.number \in Nat \cup {Absent}
    BY DEF Marked
<1>2. m.letter # "" =>
        (IF m.letter \in DOMAIN Spelling THEN Spelling[m.letter] ELSE m.letter) = "post"
    <2>1. DOMAIN Spelling = {"alpha", "beta", "c", "pre", "preview", "rev", "r"}
          /\ Spelling["rev"] = "post" /\ Spelling["r"] = "post"
        BY DEF Spelling
    <2> QED BY <1>1, <2>1
<1> QED BY <1>1, <1>2 DEF LetterVersion, ReadMark

\* A development release is read with a number, a missing one as zero.
LEMMA ReadDev ==
    ASSUME NEW m \in {Unmarked} \cup Marked({"dev"})
    PROVE  LetterVersion(m) \in ReadMark
<1>1. CASE m = Unmarked
    BY <1>1 DEF Unmarked, LetterVersion, ReadMark
<1>2. CASE m \in Marked({"dev"})
    <2>1. m.letter = "dev" /\ m.number \in Nat \cup {Absent}
        BY <1>2 DEF Marked
    <2>2. "dev" \notin DOMAIN Spelling
        BY DEF Spelling
    <2>3. (IF m.number = Absent THEN 0 ELSE m.number) \in Nat \cup {Absent}
        BY <2>1
    <2> QED BY <2>1, <2>2, <2>3 DEF LetterVersion, ReadMark
<1> QED BY <1>1, <1>2

\* A string in the PyPI grammar has all seven parts.
LEMMA ParsedPyPI ==
    ASSUME NEW t \in PyPIText
    PROVE  ParsePyPI(t) \in PyPIVersion
<1>1. /\ t.legacy \in Nat /\ t.epoch \in Nat \cup {Absent} /\ t.release \in Seq(Nat)
      /\ t.local \in Seq(Identifier)
    BY DEF PyPIText
<1>2. LetterVersion(t.pre) \in PreMark
    BY ReadPre DEF PyPIText
<1>3. LetterVersion(t.post) \in ReadMark
    BY ReadPost DEF PyPIText
<1>4. LetterVersion(t.dev) \in ReadMark
    BY ReadDev DEF PyPIText
<1>5. CASE t.legacy # 0
    <2>1. Unmarked \in PreMark /\ Unmarked \in ReadMark
        BY DEF Unmarked, PreMark, ReadMark
    <2>2. <<>> \in Seq(Nat) /\ <<>> \in Seq(Identifier)
        OBVIOUS
    <2> QED BY <1>1, <1>5, <2>1, <2>2 DEF ParsePyPI, PyPIVersion
<1>6. CASE t.legacy = 0
    <2>1. (IF t.epoch = Absent THEN 0 ELSE t.epoch) \in Nat
        BY <1>1
    <2>2. t = [legacy |-> t.legacy, epoch |-> t.epoch, release |-> t.release, pre |-> t.pre,
               post |-> t.post, dev |-> t.dev, local |-> t.local]
        BY DEF PyPIText
    <2>3. ParsePyPI(t) =
            [legacy |-> t.legacy, epoch |-> IF t.epoch = Absent THEN 0 ELSE t.epoch,
             release |-> t.release, pre |-> LetterVersion(t.pre), post |-> LetterVersion(t.post),
             dev |-> LetterVersion(t.dev), local |-> t.local]
        BY <1>6, <2>2 DEF ParsePyPI
    <2> QED BY <1>1, <1>2, <1>3, <1>4, <2>1, <2>3 DEF PyPIVersion
<1> QED BY <1>5, <1>6

\* Parsing gives versions that have all their parts.
LEMMA ParsedWellHolds == VersionsSpec => []ParsedWell
<1>1. VersionsInit => ParsedWell
    <2> SUFFICES ASSUME VersionsInit PROVE ParsedWell
        OBVIOUS
    <2>1. <<>> \in Seq(Version)
        OBVIOUS
    <2> QED BY <2>1, VersionsAssumption DEF VersionsInit, ParsedWell
<1>2. ParsedWell /\ [VersionsNext]_versionVars => ParsedWell'
    <2> SUFFICES ASSUME ParsedWell, [VersionsNext]_versionVars
                 PROVE  ParsedWell'
        OBVIOUS
    <2>1. CASE ParsesSemver
        <3>1. Len(parsed) \in Nat /\ Len(parsed) + 1 \in 1..3
            BY <2>1 DEF ParsesSemver, ParsedWell
        <3>2. text[Len(parsed) + 1] \in SemverText
            BY <2>1, <3>1 DEF ParsesSemver, ParsedWell
        <3>3. ParseSemver(text[Len(parsed) + 1]) \in SemverVersion
            BY <3>2, ParsedSemver
        <3>4. parsed \in Seq(SemverVersion)
            BY <2>1 DEF ParsesSemver, ParsedWell, Version
        <3>5. parsed' \in Seq(SemverVersion)
            BY <2>1, <3>3, <3>4 DEF ParsesSemver
        <3> QED BY <2>1, <3>5 DEF ParsesSemver, ParsedWell, Version
    <2>2. CASE ParsesPyPI
        <3>1. Len(parsed) \in Nat /\ Len(parsed) + 1 \in 1..3
            BY <2>2 DEF ParsesPyPI, ParsedWell
        <3>2. text[Len(parsed) + 1] \in PyPIText
            BY <2>2, <3>1 DEF ParsesPyPI, ParsedWell
        <3>3. ParsePyPI(text[Len(parsed) + 1]) \in PyPIVersion
            BY <3>2, ParsedPyPI
        <3>4. parsed \in Seq(PyPIVersion)
            BY <2>2 DEF ParsesPyPI, ParsedWell, Version
        <3>5. parsed' \in Seq(PyPIVersion)
            BY <2>2, <3>3, <3>4 DEF ParsesPyPI
        <3> QED BY <2>2, <3>5 DEF ParsesPyPI, ParsedWell, Version
    <2>3. CASE UNCHANGED versionVars
        BY <2>3 DEF versionVars, ParsedWell, Version
    <2> QED BY <2>1, <2>2, <2>3 DEF VersionsNext
<1> QED BY <1>1, <1>2, PTL DEF VersionsSpec

\* "An intransitive relation, and sort_by panics on one" (version.rs, compare):
\* any versions of one ecosystem stand in one line, so that sorting and the
\* search for a range have an answer.
THEOREM OrderHolds == VersionsSpec => []OrderIsTotal
<1>1. ParsedWell => OrderIsTotal
    <2> SUFFICES ASSUME ParsedWell, NEW i \in DOMAIN parsed, NEW j \in DOMAIN parsed,
                        NEW k \in DOMAIN parsed
                 PROVE  /\ Compare(parsed[i], parsed[j]) = -Compare(parsed[j], parsed[i])
                        /\ Coherent(Compare(parsed[i], parsed[j]), Compare(parsed[j], parsed[k]),
                                    Compare(parsed[i], parsed[k]))
        BY DEF OrderIsTotal
    <2>1. parsed[i] \in Version /\ parsed[j] \in Version /\ parsed[k] \in Version
        BY DEF ParsedWell
    <2>2. Fits(Compare(parsed[i], parsed[j]), Compare(parsed[j], parsed[i]),
               Compare(parsed[j], parsed[k]), Compare(parsed[i], parsed[k]))
        <3>1. CASE grammar = "semver"
            BY <2>1, <3>1, SemversFit DEF Version, Compare
        <3>2. CASE grammar # "semver"
            BY <2>1, <3>2, PyPIsFit DEF Version, Compare
        <3> QED BY <3>1, <3>2
    <2> QED BY <2>2 DEF Fits
<1> QED BY <1>1, ParsedWellHolds, PTL

-----------------------------------------------------------------------------
(* What the standards say.                                                 *)

\* A comparison that says how two lists stand.
Says(c, s, t) ==
    /\ c \in Ordering
    /\ c = -1 <=> ListBefore(s, t)
    /\ c = 0 <=> s = t

\* Of two lists at most one is before the other, and then they differ.
LEMMA OneIsBefore ==
    ASSUME NEW s \in Seq(Int), NEW t \in Seq(Int), ListBefore(s, t)
    PROVE  ~ListBefore(t, s) /\ s # t
<1>1. PICK i \in DOMAIN t :
        /\ \A j \in 1..i - 1 : j \in DOMAIN s /\ s[j] = t[j]
        /\ i \in DOMAIN s => s[i] < t[i]
    BY DEF ListBefore
<1>2. i \in Nat /\ DOMAIN t = 1..Len(t) /\ DOMAIN s = 1..Len(s) /\ Len(s) \in Nat /\ Len(t) \in Nat
    OBVIOUS
<1>3. \A j \in DOMAIN s : s[j] \in Int
    OBVIOUS
<1>4. \A j \in DOMAIN t : t[j] \in Int
    OBVIOUS
<1>5. s # t
    BY <1>1, <1>2, <1>3, <1>4
<1>6. ASSUME ListBefore(t, s) PROVE FALSE
    <2>1. PICK k \in DOMAIN s :
            /\ \A j \in 1..k - 1 : j \in DOMAIN t /\ t[j] = s[j]
            /\ k \in DOMAIN t => t[k] < s[k]
        BY <1>6 DEF ListBefore
    <2>2. k \in Nat /\ k >= 1 /\ i >= 1
        BY <1>2
    <2>3. CASE i < k
        <3>1. i \in 1..k - 1
            BY <2>2, <2>3, <1>2
        <3>2. i \in DOMAIN s
            BY <3>1, <1>2
        <3> QED BY <1>1, <2>1, <3>1, <3>2, <1>3, <1>4
    <2>4. CASE k < i
        <3>1. k \in 1..i - 1
            BY <2>2, <2>4, <1>2
        <3>2. k \in DOMAIN t
            BY <3>1, <1>2
        <3> QED BY <1>1, <2>1, <3>1, <3>2, <1>3, <1>4
    <2>5. CASE k = i
        BY <1>1, <2>1, <2>5, <1>3, <1>4
    <2> QED BY <1>2, <2>2, <2>3, <2>4, <2>5
<1> QED BY <1>5, <1>6

\* It is enough that what a comparison answers is so, asked from either side.
LEMMA SaysIfSo ==
    ASSUME NEW s \in Seq(Int), NEW t \in Seq(Int), NEW c \in Ordering, NEW o \in Ordering,
           c = -o,
           c = -1 => ListBefore(s, t),
           o = -1 => ListBefore(t, s),
           c = 0 => s = t
    PROVE  Says(c, s, t)
<1>1. CASE c = -1
    BY <1>1, OneIsBefore DEF Says, Ordering
<1>2. CASE c = 0
    <2>1. ~ListBefore(s, t)
        BY <1>2, OneIsBefore
    <2> QED BY <1>2, <2>1 DEF Says, Ordering
<1>3. CASE c = 1
    <2>1. o = -1
        BY <1>3 DEF Ordering
    <2> QED BY <1>3, <2>1, OneIsBefore DEF Says, Ordering
<1> QED BY <1>1, <1>2, <1>3 DEF Ordering

\* If each part says how its lists stand, the first that decides says how the
\* keys do.
LEMMA FirstSays ==
    ASSUME NEW n \in Nat, NEW d \in [1..n -> Ordering],
           NEW k \in [1..n -> Seq(Int)], NEW l \in [1..n -> Seq(Int)],
           \A i \in 1..n : Says(d[i], k[i], l[i])
    PROVE  /\ FirstDifference(d) = -1 <=> Before(k, l)
           /\ FirstDifference(d) = 0 <=> k = l
<1>1. DOMAIN k = 1..n
    OBVIOUS
<1>2. ASSUME FirstDifference(d) = -1 PROVE Before(k, l)
    <2>1. PICK i \in 1..n : Decides(d, i, -1)
        BY <1>2, FirstIs
    <2>2. d[i] = -1 /\ \A j \in 1..i - 1 : j \in 1..n /\ d[j] = 0
        BY <2>1 DEF Decides
    <2> QED BY <1>1, <2>2 DEF Says, Before
<1>3. ASSUME Before(k, l) PROVE FirstDifference(d) = -1
    <2>1. PICK i \in 1..n : ListBefore(k[i], l[i]) /\ \A j \in 1..i - 1 : k[j] = l[j]
        BY <1>1, <1>3 DEF Before
    <2>2. \A j \in 1..i - 1 : j \in 1..n
        OBVIOUS
    <2>3. d[i] = -1 /\ \A j \in 1..i - 1 : d[j] = 0
        BY <2>1, <2>2 DEF Says
    <2> QED BY <2>3, FirstIs DEF Decides
<1>4. FirstDifference(d) = 0 <=> k = l
    <2>1. FirstDifference(d) = 0 <=> \A i \in 1..n : k[i] = l[i]
        BY FirstIs DEF Says
    <2>2. (\A i \in 1..n : k[i] = l[i]) => k = l
        OBVIOUS
    <2> QED BY <2>1, <2>2
<1> QED BY <1>2, <1>3, <1>4

\* A first part that is equal changes nothing.
LEMMA FirstShifted ==
    ASSUME NEW n \in Nat, NEW d \in [1..n + 1 -> Ordering], NEW e \in [1..n -> Ordering],
           d[1] = 0, \A i \in 1..n : d[i + 1] = e[i]
    PROVE  FirstDifference(d) = FirstDifference(e)
<1>1. \A i \in 1..n : i + 1 \in 1..n + 1
    OBVIOUS
<1>2. CASE FirstDifference(e) = 0
    <2>1. \A i \in 1..n : e[i] = 0
        BY <1>2, FirstIs
    <2>2. \A i \in 1..n + 1 : i = 1 \/ (i - 1 \in 1..n /\ i = (i - 1) + 1)
        OBVIOUS
    <2>3. \A i \in 1..n + 1 : d[i] = 0
        <3> TAKE i \in 1..n + 1
        <3>1. CASE i = 1
            BY <3>1
        <3>2. CASE i # 1
            <4>1. i - 1 \in 1..n /\ i = (i - 1) + 1
                BY <2>2, <3>2
            <4>2. d[(i - 1) + 1] = e[i - 1]
                BY <4>1
            <4> QED BY <4>1, <4>2, <2>1
        <3> QED BY <3>1, <3>2
    <2> QED BY <1>2, <2>3, FirstIs
<1>3. CASE FirstDifference(e) # 0
    <2>1. PICK i \in 1..n : Decides(e, i, FirstDifference(e))
        BY <1>3, FirstIs
    <2>2. \A j \in 1..i - 1 : e[j] = 0
        BY <2>1 DEF Decides
    <2>3. \A j \in 1..i : d[j] = 0
        <3> TAKE j \in 1..i
        <3>1. CASE j = 1
            BY <3>1
        <3>2. CASE j # 1
            <4>1. j - 1 \in 1..i - 1 /\ j - 1 \in 1..n /\ j = (j - 1) + 1
                BY <3>2
            <4>2. d[(j - 1) + 1] = e[j - 1]
                BY <4>1
            <4> QED BY <4>1, <4>2, <2>2
        <3> QED BY <3>1, <3>2
    <2>4. d[i + 1] = FirstDifference(e)
        BY <2>1 DEF Decides
    <2>5. Decides(d, i + 1, FirstDifference(e))
        BY <2>3, <2>4 DEF Decides
    <2>6. FirstDifference(e) \in {-1, 1}
        BY <1>3, FirstIs DEF Ordering
    <2> QED BY <1>1, <2>5, <2>6, FirstIs
<1> QED BY <1>2, <1>3

\* The first of two parts that decides, of three and of four.
LEMMA FirstOfTwo ==
    ASSUME NEW x \in Ordering, NEW y \in Ordering
    PROVE  FirstDifference(<<x, y>>) = IF x # 0 THEN x ELSE y
<1> DEFINE d == <<x, y>>
<1>1. d \in [1..2 -> Ordering] /\ d[1] = x /\ d[2] = y
    OBVIOUS
<1> SUFFICES FirstDifference(d) = IF x # 0 THEN x ELSE y
    OBVIOUS
<1> HIDE DEF d
<1>2. /\ FirstDifference(d) \in Ordering
      /\ FirstDifference(d) # 0 => \E i \in 1..2 : Decides(d, i, FirstDifference(d))
      /\ FirstDifference(d) = 0 => \A i \in 1..2 : d[i] = 0
    BY <1>1, FirstIs, 2 \in Nat
<1>3. CASE FirstDifference(d) = 0
    BY <1>1, <1>2, <1>3
<1>4. CASE FirstDifference(d) # 0
    <2>1. PICK i \in 1..2 : Decides(d, i, FirstDifference(d))
        BY <1>2, <1>4
    <2>2. i = 1 \/ i = 2
        OBVIOUS
    <2>3. d[i] = FirstDifference(d) /\ \A j \in 1..i - 1 : d[j] = 0
        BY <2>1 DEF Decides
    <2>4. CASE i = 1
        BY <1>1, <1>4, <2>3, <2>4
    <2>5. CASE i = 2
        <3>1. d[1] = 0
            BY <2>3, <2>5
        <3> QED BY <1>1, <1>4, <2>3, <2>5, <3>1
    <2> QED BY <2>2, <2>4, <2>5
<1> QED BY <1>3, <1>4

LEMMA FirstOfThree ==
    ASSUME NEW x \in Ordering, NEW y \in Ordering, NEW z \in Ordering
    PROVE  FirstDifference(<<x, y, z>>) = IF x # 0 THEN x ELSE IF y # 0 THEN y ELSE z
<1> DEFINE d == <<x, y, z>>
<1>1. d \in [1..3 -> Ordering] /\ d[1] = x /\ d[2] = y /\ d[3] = z
    OBVIOUS
<1> SUFFICES FirstDifference(d) = IF x # 0 THEN x ELSE IF y # 0 THEN y ELSE z
    OBVIOUS
<1> HIDE DEF d
<1>2. /\ FirstDifference(d) \in Ordering
      /\ FirstDifference(d) # 0 => \E i \in 1..3 : Decides(d, i, FirstDifference(d))
      /\ FirstDifference(d) = 0 => \A i \in 1..3 : d[i] = 0
    BY <1>1, FirstIs, 3 \in Nat
<1>3. CASE FirstDifference(d) = 0
    BY <1>1, <1>2, <1>3
<1>4. CASE FirstDifference(d) # 0
    <2>1. PICK i \in 1..3 : Decides(d, i, FirstDifference(d))
        BY <1>2, <1>4
    <2>2. i = 1 \/ i = 2 \/ i = 3
        OBVIOUS
    <2>3. d[i] = FirstDifference(d) /\ \A j \in 1..i - 1 : d[j] = 0
        BY <2>1 DEF Decides
    <2>4. CASE i = 1
        BY <1>1, <1>4, <2>3, <2>4
    <2>5. CASE i = 2
        <3>1. d[1] = 0
            BY <2>3, <2>5
        <3> QED BY <1>1, <1>4, <2>3, <2>5, <3>1
    <2>6. CASE i = 3
        <3>1. d[1] = 0 /\ d[2] = 0
            BY <2>3, <2>6
        <3> QED BY <1>1, <1>4, <2>3, <2>6, <3>1
    <2> QED BY <2>2, <2>4, <2>5, <2>6
<1> QED BY <1>3, <1>4

LEMMA FirstOfFour ==
    ASSUME NEW w \in Ordering, NEW x \in Ordering, NEW y \in Ordering, NEW z \in Ordering
    PROVE  FirstDifference(<<w, x, y, z>>) =
             IF w # 0 THEN w ELSE IF x # 0 THEN x ELSE IF y # 0 THEN y ELSE z
<1> DEFINE d == <<w, x, y, z>>
<1>1. d \in [1..4 -> Ordering] /\ d[1] = w /\ d[2] = x /\ d[3] = y /\ d[4] = z
    OBVIOUS
<1> HIDE DEF d
<1>2. CASE w # 0
    <2>1. Decides(d, 1, w)
        BY <1>1 DEF Decides
    <2>2. w \in {-1, 1}
        BY <1>2 DEF Ordering
    <2>3. FirstDifference(d) = w
        BY <1>1, <2>1, <2>2, FirstIs, 4 \in Nat, 1 \in 1..4
    <2> QED BY <1>2, <2>3 DEF d
<1>3. CASE w = 0
    <2> DEFINE e == <<x, y, z>>
    <2>1. e \in [1..3 -> Ordering] /\ e[1] = x /\ e[2] = y /\ e[3] = z
        OBVIOUS
    <2> HIDE DEF e
    <2>2. \A i \in 1..3 : d[i + 1] = e[i]
        <3> TAKE i \in 1..3
        <3>1. i = 1 \/ i = 2 \/ i = 3
            OBVIOUS
        <3> QED BY <1>1, <2>1, <3>1
    <2>3. d \in [1..3 + 1 -> Ordering] /\ d[1] = 0
        BY <1>1, <1>3
    <2>4. FirstDifference(d) = FirstDifference(e)
        BY <2>1, <2>2, <2>3, FirstShifted, 3 \in Nat
    <2>5. FirstDifference(e) = IF x # 0 THEN x ELSE IF y # 0 THEN y ELSE z
        BY FirstOfThree DEF e
    <2> QED BY <1>3, <2>4, <2>5 DEF d
<1> QED BY <1>2, <1>3

-----------------------------------------------------------------------------
(* Semantic versions, and item 11 of their standard.                       *)

\* The first member decides, or the second where the first is the same.
LEMMA BeforeAtOnce ==
    ASSUME NEW s \in Seq(Int), NEW t \in Seq(Int), Len(s) > 0, Len(t) > 0,
           \/ s[1] < t[1]
           \/ s[1] = t[1] /\ Len(s) > 1 /\ Len(t) > 1 /\ s[2] < t[2]
    PROVE  ListBefore(s, t)
<1>1. DOMAIN s = 1..Len(s) /\ DOMAIN t = 1..Len(t) /\ Len(s) \in Nat /\ Len(t) \in Nat
    OBVIOUS
<1>2. CASE s[1] < t[1]
    <2>1. 1 \in DOMAIN t /\ \A j \in 1..1 - 1 : FALSE
        BY <1>1
    <2> QED BY <1>2, <2>1 DEF ListBefore
<1>3. CASE s[1] = t[1] /\ Len(s) > 1 /\ Len(t) > 1 /\ s[2] < t[2]
    <2>1. 2 \in DOMAIN t /\ 1 \in DOMAIN s /\ \A j \in 1..2 - 1 : j = 1
        BY <1>1, <1>3
    <2> QED BY <1>3, <2>1 DEF ListBefore
<1> QED BY <1>2, <1>3

\* Three numbers, compared one after the other.
LEMMA ComponentsSay ==
    ASSUME NEW s \in Seq(Nat), NEW t \in Seq(Nat), Len(s) = 3, Len(t) = 3
    PROVE  Says(FirstDifference(<<Cmp(s[1], t[1]), Cmp(s[2], t[2]), Cmp(s[3], t[3])>>), s, t)
<1>1. DOMAIN s = 1..3 /\ DOMAIN t = 1..3 /\ \A i \in 1..3 : s[i] \in Int /\ t[i] \in Int
    <2>1. \A r \in Seq(Nat) : DOMAIN r = 1..Len(r) /\ \A i \in 1..Len(r) : r[i] \in Int
        OBVIOUS
    <2> QED BY <2>1
<1> DEFINE d == <<Cmp(s[1], t[1]), Cmp(s[2], t[2]), Cmp(s[3], t[3])>>
<1>2. d \in [1..3 -> Ordering]
    BY DEF Cmp, Ordering
<1>3. \A i \in 1..3 : d[i] = Cmp(s[i], t[i])
    <2> TAKE i \in 1..3
    <2>1. i = 1 \/ i = 2 \/ i = 3
        OBVIOUS
    <2> QED BY <2>1
<1>4. \A i \in 1..3 : (d[i] = -1 <=> s[i] < t[i]) /\ (d[i] = 0 <=> s[i] = t[i])
    BY <1>1, <1>3 DEF Cmp
<1> SUFFICES Says(FirstDifference(d), s, t)
    OBVIOUS
<1> HIDE DEF d
<1>5. /\ FirstDifference(d) \in Ordering
      /\ FirstDifference(d) = 0 <=> \A i \in 1..3 : d[i] = 0
      /\ FirstDifference(d) # 0 => \E i \in 1..3 : Decides(d, i, FirstDifference(d))
    BY <1>2, FirstIs, 3 \in Nat
<1>6. FirstDifference(d) = 0 <=> s = t
    <2>1. (\A i \in 1..3 : s[i] = t[i]) => s = t
        OBVIOUS
    <2> QED BY <1>4, <1>5, <2>1
<1>7. ASSUME FirstDifference(d) = -1 PROVE ListBefore(s, t)
    <2>1. PICK i \in 1..3 : Decides(d, i, -1)
        BY <1>5, <1>7
    <2>2. d[i] = -1 /\ \A j \in 1..i - 1 : j \in 1..3 /\ d[j] = 0
        BY <2>1 DEF Decides
    <2>3. s[i] < t[i] /\ \A j \in 1..i - 1 : s[j] = t[j]
        BY <2>2, <1>4
    <2> QED BY <1>1, <2>2, <2>3 DEF ListBefore
<1>8. ASSUME ListBefore(s, t) PROVE FirstDifference(d) = -1
    <2>1. PICK i \in 1..3 : s[i] < t[i] /\ \A j \in 1..i - 1 : s[j] = t[j]
        BY <1>1, <1>8 DEF ListBefore
    <2>2. \A j \in 1..i - 1 : j \in 1..3
        OBVIOUS
    <2>3. d[i] = -1 /\ \A j \in 1..i - 1 : d[j] = 0
        BY <2>1, <2>2, <1>4
    <2> QED BY <1>2, <2>3, FirstIs, 3 \in Nat DEF Decides
<1> QED BY <1>5, <1>6, <1>7, <1>8 DEF Says

\* Twice as many integers as identifiers: which kind, and which of the kind.
LEMMA FlattenedIs ==
    ASSUME NEW ids \in Seq(Identifier), NEW above
    PROVE  /\ Flattened(ids, above) \in Seq(Int)
           /\ Len(Flattened(ids, above)) = 2 * Len(ids)
           /\ DOMAIN Flattened(ids, above) = 1..2 * Len(ids)
           /\ \A i \in 1..Len(ids) :
                /\ Flattened(ids, above)[2 * i - 1] = (IF ids[i].kind = above THEN 1 ELSE 0)
                /\ Flattened(ids, above)[2 * i] = ids[i].n
<1> DEFINE n == Len(ids)
           F == Flattened(ids, above)
           Item(i) == IF i % 2 = 0 THEN ids[(i + 1) \div 2].n
                      ELSE IF ids[(i + 1) \div 2].kind = above THEN 1 ELSE 0
<1>1. n \in Nat /\ 2 * n \in Nat
    OBVIOUS
<1>2. F = [i \in 1..2 * n |-> Item(i)]
    BY DEF Flattened
<1>3. \A i \in 1..2 * n : (i + 1) \div 2 \in 1..n
    BY <1>1
<1>4. \A j \in 1..n : ids[j].n \in Int
    <2>1. \A x \in Identifier : x.n \in Nat
        BY DEF Identifier
    <2> QED BY <2>1
<1>5. \A i \in 1..2 * n : Item(i) \in Int
    BY <1>3, <1>4
<1>6. \A i \in 1..n : /\ 2 * i \in 1..2 * n /\ 2 * i - 1 \in 1..2 * n
                      /\ (2 * i) % 2 = 0 /\ (2 * i - 1) % 2 = 1
                      /\ (2 * i + 1) \div 2 = i /\ (2 * i - 1 + 1) \div 2 = i
    BY <1>1
<1>7. \A i \in 1..n : Item(2 * i) = ids[i].n /\ Item(2 * i - 1) = (IF ids[i].kind = above THEN 1 ELSE 0)
    BY <1>6
<1> SUFFICES /\ F \in Seq(Int) /\ Len(F) = 2 * n /\ DOMAIN F = 1..2 * n
             /\ \A i \in 1..n : /\ F[2 * i - 1] = (IF ids[i].kind = above THEN 1 ELSE 0)
                                /\ F[2 * i] = ids[i].n
    OBVIOUS
<1> HIDE DEF Item, F, n
<1>8. F \in Seq(Int) /\ Len(F) = 2 * n /\ DOMAIN F = 1..2 * n
    BY <1>1, <1>2, <1>5
<1>9. \A i \in 1..n : F[2 * i] = Item(2 * i) /\ F[2 * i - 1] = Item(2 * i - 1)
    BY <1>2, <1>6
<1> QED BY <1>7, <1>8, <1>9

\* How a comparison of two lists of identifiers goes, member by member, where
\* both have one, and then by which list goes on.
ByMember(d, a, b, above) ==
    /\ d \in [1..Longest(a, b) -> Ordering]
    /\ \A i \in 1..Longest(a, b) :
         IF i <= Len(a) /\ i <= Len(b)
         THEN LET p == IF a[i].kind = above THEN 1 ELSE 0
                  q == IF b[i].kind = above THEN 1 ELSE 0
              IN /\ d[i] = -1 => p < q \/ (p = q /\ a[i].n < b[i].n)
                 /\ d[i] = 0 => p = q /\ a[i].n = b[i].n
         ELSE d[i] = Cmp(Len(a), Len(b))

\* Members that are equal are equal in both integers of each.
LEMMA SameSoFar ==
    ASSUME NEW a \in Seq(Identifier), NEW b \in Seq(Identifier), NEW above, NEW d,
           ByMember(d, a, b, above), NEW k \in Nat, k <= Len(a), k <= Len(b),
           \A j \in 1..k : d[j] = 0
    PROVE  \A j \in 1..2 * k : Flattened(a, above)[j] = Flattened(b, above)[j]
<1> DEFINE F == Flattened(a, above)  G == Flattened(b, above)
<1>1. Len(a) \in Nat /\ Len(b) \in Nat
    OBVIOUS
<1>5. \A i \in 1..Len(a) : F[2 * i - 1] = (IF a[i].kind = above THEN 1 ELSE 0) /\ F[2 * i] = a[i].n
    BY FlattenedIs
<1>6. \A i \in 1..Len(b) : G[2 * i - 1] = (IF b[i].kind = above THEN 1 ELSE 0) /\ G[2 * i] = b[i].n
    BY FlattenedIs
<1> HIDE DEF F, G
<1>2. \A i \in 1..k : F[2 * i - 1] = G[2 * i - 1] /\ F[2 * i] = G[2 * i]
    <2> TAKE i \in 1..k
    <2>1. i \in 1..Len(a) /\ i \in 1..Len(b) /\ i \in 1..Longest(a, b)
        BY <1>1, LongestIs
    <2>2. (IF a[i].kind = above THEN 1 ELSE 0) = (IF b[i].kind = above THEN 1 ELSE 0)
          /\ a[i].n = b[i].n
        BY <2>1 DEF ByMember
    <2> QED BY <2>1, <2>2, <1>5, <1>6
<1>3. \A j \in 1..2 * k : \E i \in 1..k : j = 2 * i - 1 \/ j = 2 * i
    <2> TAKE j \in 1..2 * k
    <2>1. (j + 1) \div 2 \in 1..k
        OBVIOUS
    <2>2. j = 2 * ((j + 1) \div 2) - 1 \/ j = 2 * ((j + 1) \div 2)
        OBVIOUS
    <2> QED BY <2>1, <2>2
<1>4. \A j \in 1..2 * k : F[j] = G[j]
    BY <1>2, <1>3
<1> QED BY <1>4 DEF F, G

\* If the first difference says a list is lower, or the same, its integers are.
LEMMA MembersSaySo ==
    ASSUME NEW a \in Seq(Identifier), NEW b \in Seq(Identifier), NEW above, NEW d,
           ByMember(d, a, b, above)
    PROVE  /\ FirstDifference(d) = -1 => ListBefore(Flattened(a, above), Flattened(b, above))
           /\ FirstDifference(d) = 0 => Flattened(a, above) = Flattened(b, above)
<1> DEFINE F == Flattened(a, above)  G == Flattened(b, above)  n == Longest(a, b)
<1>1. /\ Len(a) \in Nat /\ Len(b) \in Nat /\ n \in Nat /\ Len(a) <= n /\ Len(b) <= n
      /\ n = Len(a) \/ n = Len(b)
    BY LongestIs DEF Longest
<1>2. /\ F \in Seq(Int) /\ Len(F) = 2 * Len(a) /\ DOMAIN F = 1..2 * Len(a)
      /\ G \in Seq(Int) /\ Len(G) = 2 * Len(b) /\ DOMAIN G = 1..2 * Len(b)
    BY FlattenedIs
<1>7. \A i \in 1..Len(a) : F[2 * i - 1] = (IF a[i].kind = above THEN 1 ELSE 0) /\ F[2 * i] = a[i].n
    BY FlattenedIs
<1>8. \A i \in 1..Len(b) : G[2 * i - 1] = (IF b[i].kind = above THEN 1 ELSE 0) /\ G[2 * i] = b[i].n
    BY FlattenedIs
<1>9. \A k \in Nat : k <= Len(a) /\ k <= Len(b) /\ (\A j \in 1..k : d[j] = 0) =>
                        \A j \in 1..2 * k : F[j] = G[j]
    BY SameSoFar
<1>3. /\ FirstDifference(d) # 0 => \E i \in 1..n : Decides(d, i, FirstDifference(d))
      /\ FirstDifference(d) = 0 => \A i \in 1..n : d[i] = 0
    BY <1>1, FirstIs DEF ByMember
<1>4. \A i \in 1..n : ~(i <= Len(a) /\ i <= Len(b)) => d[i] = Cmp(Len(a), Len(b))
    BY DEF ByMember
<1>5. ASSUME FirstDifference(d) = 0 PROVE F = G
    <2>1. Len(a) = Len(b)
        <3>1. CASE n = 0
            BY <1>1, <3>1
        <3>2. CASE n # 0
            <4>1. n \in 1..n /\ d[n] = 0
                BY <1>1, <1>3, <1>5, <3>2
            <4>2. ~(n <= Len(a) /\ n <= Len(b)) => Cmp(Len(a), Len(b)) = 0
                BY <1>4, <4>1
            <4> QED BY <1>1, <4>2 DEF Cmp
        <3> QED BY <3>1, <3>2
    <2>2. \A j \in 1..Len(a) : d[j] = 0
        BY <1>1, <1>3, <1>5
    <2>3. \A j \in 1..2 * Len(a) : F[j] = G[j]
        BY <1>1, <2>1, <2>2, SameSoFar
    <2> HIDE DEF F, G
    <2> QED BY <1>2, <2>1, <2>3
<1>6. ASSUME FirstDifference(d) = -1 PROVE ListBefore(F, G)
    <2>1. PICK i \in 1..n : Decides(d, i, -1)
        BY <1>3, <1>6
    <2>2. d[i] = -1 /\ \A j \in 1..i - 1 : j \in 1..n /\ d[j] = 0
        BY <1>1, <2>1 DEF Decides
    <2>3. CASE i <= Len(a) /\ i <= Len(b)
        <3>1. \A j \in 1..2 * (i - 1) : F[j] = G[j]
            <4>1. i - 1 \in Nat /\ i - 1 <= Len(a) /\ i - 1 <= Len(b)
                BY <1>1, <2>3
            <4>2. \A j \in 1..i - 1 : d[j] = 0
                BY <2>2
            <4> QED BY <4>1, <4>2, <1>9
        <3>2. i \in 1..Len(a) /\ i \in 1..Len(b)
            BY <2>3
        <3>3. F[2 * i - 1] < G[2 * i - 1] \/ (F[2 * i - 1] = G[2 * i - 1] /\ F[2 * i] < G[2 * i])
            <4>1. \/ (IF a[i].kind = above THEN 1 ELSE 0) < (IF b[i].kind = above THEN 1 ELSE 0)
                  \/ /\ (IF a[i].kind = above THEN 1 ELSE 0) = (IF b[i].kind = above THEN 1 ELSE 0)
                     /\ a[i].n < b[i].n
                BY <2>2, <2>3 DEF ByMember
            <4>2. F[2 * i - 1] = (IF a[i].kind = above THEN 1 ELSE 0) /\ F[2 * i] = a[i].n
                BY <1>7, <3>2
            <4>3. G[2 * i - 1] = (IF b[i].kind = above THEN 1 ELSE 0) /\ G[2 * i] = b[i].n
                BY <1>8, <3>2
            <4> HIDE DEF F, G
            <4> QED BY <4>1, <4>2, <4>3
        <3>4. \A j \in 1..2 * i - 1 : j \in 1..2 * (i - 1) \/ j = 2 * i - 1
            BY <3>2
        <3>5. /\ 2 * i - 1 \in DOMAIN G /\ 2 * i \in DOMAIN G
              /\ \A j \in 1..2 * i - 1 : j \in DOMAIN F
            <4>1. 2 * i - 1 \in 1..2 * Len(b) /\ 2 * i \in 1..2 * Len(b)
                BY <1>1, <3>2
            <4>2. \A j \in 1..2 * i - 1 : j \in 1..2 * Len(a)
                BY <1>1, <3>2
            <4> HIDE DEF F, G
            <4> QED BY <1>2, <4>1, <4>2
        <3>6. \A j \in 1..(2 * i - 1) - 1 : j \in 1..2 * (i - 1) /\ j \in 1..2 * i - 1
            BY <3>2
        <3> HIDE DEF F, G
        <3>7. CASE F[2 * i - 1] < G[2 * i - 1]
            BY <3>1, <3>5, <3>6, <3>7 DEF ListBefore
        <3>8. CASE F[2 * i - 1] = G[2 * i - 1] /\ F[2 * i] < G[2 * i]
            BY <3>1, <3>4, <3>5, <3>8 DEF ListBefore
        <3> QED BY <3>3, <3>7, <3>8
    <2>4. CASE ~(i <= Len(a) /\ i <= Len(b))
        <3>1. Len(a) < Len(b)
            BY <1>1, <1>4, <2>2, <2>4 DEF Cmp
        <3>2. n = Len(b)
            BY <1>1, <3>1
        <3>3. ~(Len(a) + 1 \in 1..i - 1)
            <4> SUFFICES ASSUME Len(a) + 1 \in 1..i - 1 PROVE FALSE
                OBVIOUS
            <4>1. d[Len(a) + 1] = 0 /\ Len(a) + 1 \in 1..n
                BY <2>2
            <4>2. d[Len(a) + 1] = Cmp(Len(a), Len(b))
                BY <1>1, <1>4, <4>1
            <4> QED BY <3>1, <4>1, <4>2 DEF Cmp
        <3>4. i = Len(a) + 1
            BY <1>1, <2>4, <3>1, <3>2, <3>3
        <3>5. \A j \in 1..2 * Len(a) : F[j] = G[j]
            <4>1. \A j \in 1..Len(a) : d[j] = 0
                BY <2>2, <3>4
            <4> QED BY <1>1, <3>1, <4>1, SameSoFar
        <3>6. /\ 2 * Len(a) + 1 \in DOMAIN G /\ 2 * Len(a) + 1 \notin DOMAIN F
              /\ \A j \in 1..(2 * Len(a) + 1) - 1 : j \in 1..2 * Len(a) /\ j \in DOMAIN F
            BY <1>1, <1>2, <3>1
        <3> HIDE DEF F, G
        <3> QED BY <3>5, <3>6 DEF ListBefore
    <2> QED BY <2>3, <2>4
<1> QED BY <1>5, <1>6

\* Identifiers without a sign are ordered by kind, then by place.
LEMMA IdentifiersSay ==
    ASSUME NEW a \in Identifier, NEW b \in Identifier, ~a.negative, ~b.negative
    PROVE  LET p == IF a.kind = "word" THEN 1 ELSE 0
               q == IF b.kind = "word" THEN 1 ELSE 0
           IN /\ CompareIdentifier(a, b) = -1 => p < q \/ (p = q /\ a.n < b.n)
              /\ CompareIdentifier(a, b) = 0 => p = q /\ a.n = b.n
<1>1. a.n \in Nat /\ b.n \in Nat /\ a.kind \in {"word", "number"} /\ b.kind \in {"word", "number"}
    BY DEF Identifier
<1>2. CASE a.kind = "number" /\ b.kind = "number"
    <2> DEFINE x == Cmp(a.n, b.n)
    <2>1. CompareIdentifier(a, b) = FirstDifference(<<0, x>>)
        BY <1>2 DEF CompareIdentifier, Sign, Value, Cmp
    <2>2. x \in Ordering
        BY DEF Cmp, Ordering
    <2>3. FirstDifference(<<0, x>>) = x
        <3>1. 0 \in Ordering
            BY DEF Ordering
        <3> HIDE DEF x
        <3> QED BY <2>2, <3>1, FirstOfTwo
    <2> QED BY <1>1, <1>2, <2>1, <2>3 DEF Cmp
<1>3. CASE a.kind = "word" /\ b.kind = "word"
    BY <1>1, <1>3 DEF CompareIdentifier, Cmp
<1>4. CASE a.kind # b.kind
    BY <1>1, <1>4 DEF CompareIdentifier
<1> QED BY <1>1, <1>2, <1>3, <1>4

\* A build of signed numbers or empty words is none that the standard allows.
StandardTail(ids) == ids = Nothing \/ \A i \in DOMAIN ids : ids[i] # Word(0) /\ ~ids[i].negative

\* A prerelease as item 11 has it: first whether there is one.
LEMMA BuildsSay ==
    ASSUME NEW a \in Seq(Identifier), NEW b \in Seq(Identifier), StandardTail(a), StandardTail(b)
    PROVE  \E f, c \in Ordering :
             /\ CompareBuild(a, b) = IF f # 0 THEN f ELSE c
             /\ Says(f, IF a = Nothing THEN <<1>> ELSE <<0>>, IF b = Nothing THEN <<1>> ELSE <<0>>)
             /\ Says(c, Flattened(a, "word"), Flattened(b, "word"))
<1> DEFINE Part(x, y) == [i \in 1..Longest(x, y) |-> IdentifierAt(x, y, i)]
           L(x, y) == FirstDifference(Part(x, y))
           Flag(x) == IF x = Nothing THEN 1 ELSE 0
           f == Cmp(Flag(a), Flag(b))
<1>1. \A x \in Seq(Identifier) : Len(x) \in Nat /\ DOMAIN x = 1..Len(x) /\ \A i \in 1..Len(x) : x[i] \in Identifier
    OBVIOUS
<1>2. \A x \in Seq(Identifier) : StandardTail(x) => \A i \in 1..Len(x) : ~x[i].negative
    <2> TAKE x \in Seq(Identifier)
    <2> HAVE StandardTail(x)
    <2>1. CASE x = Nothing
        BY <2>1 DEF Nothing, Word
    <2>2. CASE x # Nothing
        BY <1>1, <2>2 DEF StandardTail
    <2> QED BY <2>1, <2>2
<1>3. ASSUME NEW x \in Seq(Identifier), NEW y \in Seq(Identifier), StandardTail(x), StandardTail(y)
      PROVE  ByMember(Part(x, y), x, y, "word")
    <2>1. \A i \in 1..Longest(x, y) : IdentifierAt(x, y, i) = IF i <= Len(x) /\ i <= Len(y)
                                         THEN CompareIdentifier(x[i], y[i]) ELSE Cmp(Len(x), Len(y))
        BY <1>1 DEF IdentifierAt
    <2>2. \A i \in 1..Longest(x, y) : i <= Len(x) => x[i] \in Identifier /\ ~x[i].negative
        BY <1>1, <1>2, <1>3
    <2>3. \A i \in 1..Longest(x, y) : i <= Len(y) => y[i] \in Identifier /\ ~y[i].negative
        BY <1>1, <1>2, <1>3
    <2>4. \A p, q \in Identifier : CompareIdentifier(p, q) \in Ordering
        BY IdentifiersFit DEF Fits
    <2>5. \A i \in 1..Longest(x, y) : IdentifierAt(x, y, i) \in Ordering
        <3>1. Cmp(Len(x), Len(y)) \in Ordering
            BY DEF Cmp, Ordering
        <3> QED BY <2>1, <2>2, <2>3, <2>4, <3>1
    <2>6. Part(x, y) \in [1..Longest(x, y) -> Ordering] /\ \A i \in 1..Longest(x, y) : Part(x, y)[i] = IdentifierAt(x, y, i)
        BY <2>5
    <2> HIDE DEF Part
    <2>7. \A i \in 1..Longest(x, y) : i <= Len(x) /\ i <= Len(y) =>
            LET p == IF x[i].kind = "word" THEN 1 ELSE 0
                q == IF y[i].kind = "word" THEN 1 ELSE 0
            IN /\ Part(x, y)[i] = -1 => p < q \/ (p = q /\ x[i].n < y[i].n)
               /\ Part(x, y)[i] = 0 => p = q /\ x[i].n = y[i].n
        BY <2>1, <2>2, <2>3, <2>6, IdentifiersSay
    <2>8. \A i \in 1..Longest(x, y) : ~(i <= Len(x) /\ i <= Len(y)) => Part(x, y)[i] = Cmp(Len(x), Len(y))
        BY <2>1, <2>6
    <2> QED BY <2>6, <2>7, <2>8 DEF ByMember
<1>4. Fits(L(a, b), L(b, a), L(b, a), L(a, a))
    BY IdentifierListsFit
<1>5. CompareBuild(a, b) = IF f # 0 THEN f ELSE L(a, b)
    BY DEF CompareBuild, Cmp
<1>6. Says(f, IF a = Nothing THEN <<1>> ELSE <<0>>, IF b = Nothing THEN <<1>> ELSE <<0>>)
    <2>1. \A x, y \in {0, 1} : /\ <<x>> \in Seq(Int) /\ <<y>> \in Seq(Int) /\ Len(<<x>>) = 1 /\ <<x>>[1] = x
        OBVIOUS
    <2>2. \A x, y \in {0, 1} : x < y => ListBefore(<<x>>, <<y>>)
        <3>1. DOMAIN <<1>> = 1..1 /\ <<0>>[1] = 0 /\ <<1>>[1] = 1 /\ \A j \in 1..1 - 1 : FALSE
            OBVIOUS
        <3>2. ListBefore(<<0>>, <<1>>)
            BY <3>1 DEF ListBefore
        <3> QED BY <3>2
    <2>3. \A x, y \in {0, 1} : Says(Cmp(x, y), <<x>>, <<y>>)
        <3> TAKE x, y \in {0, 1}
        <3>1. Cmp(x, y) \in Ordering /\ Cmp(y, x) \in Ordering /\ Cmp(x, y) = -Cmp(y, x)
              /\ (Cmp(x, y) = -1 => x < y) /\ (Cmp(y, x) = -1 => y < x) /\ (Cmp(x, y) = 0 => x = y)
            BY DEF Cmp, Ordering
        <3> QED BY <2>1, <2>2, <3>1, SaysIfSo
    <2>4. (IF a = Nothing THEN <<1>> ELSE <<0>>) = <<Flag(a)>> /\ (IF b = Nothing THEN <<1>> ELSE <<0>>) = <<Flag(b)>>
          /\ Flag(a) \in {0, 1} /\ Flag(b) \in {0, 1}
        OBVIOUS
    <2> HIDE DEF Flag
    <2> QED BY <2>3, <2>4
<1>7. Says(L(a, b), Flattened(a, "word"), Flattened(b, "word"))
    <2>1. ByMember(Part(a, b), a, b, "word") /\ ByMember(Part(b, a), b, a, "word")
        BY <1>3
    <2>2. Flattened(a, "word") \in Seq(Int) /\ Flattened(b, "word") \in Seq(Int)
        BY FlattenedIs
    <2> HIDE DEF Part
    <2>3. /\ L(a, b) = -1 => ListBefore(Flattened(a, "word"), Flattened(b, "word"))
          /\ L(a, b) = 0 => Flattened(a, "word") = Flattened(b, "word")
          /\ L(b, a) = -1 => ListBefore(Flattened(b, "word"), Flattened(a, "word"))
        BY <2>1, MembersSaySo
    <2>4. L(a, b) \in Ordering /\ L(b, a) \in Ordering /\ L(a, b) = -L(b, a)
        BY <1>4 DEF Fits
    <2> HIDE DEF L
    <2> QED BY <2>2, <2>3, <2>4, SaysIfSo
<1>8. f \in Ordering /\ L(a, b) \in Ordering
    BY <1>6, <1>7 DEF Says
<1> HIDE DEF f, L
<1> QED BY <1>5, <1>6, <1>7, <1>8

\* Where the standard allows two versions, they compare as it says.
LEMMA SemversAgree ==
    ASSUME NEW s \in SemverText, NEW t \in SemverText,
           Len(s.numbers) = 3, Len(t.numbers) = 3, StandardTail(s.tail), StandardTail(t.tail)
    PROVE  /\ CompareSemver(ParseSemver(s), ParseSemver(t)) = -1 <=> Before(SemverKey(s), SemverKey(t))
           /\ CompareSemver(ParseSemver(s), ParseSemver(t)) = 0 <=> SemverKey(s) = SemverKey(t)
<1>1. \A x \in SemverText : x.numbers \in Seq(Nat) /\ x.tail \in Seq(Identifier)
    BY DEF SemverText
<1>2. ASSUME NEW x \in SemverText, Len(x.numbers) = 3
      PROVE  ParseSemver(x).build = x.tail /\ \A i \in 1..3 : ParseSemver(x).components[i] = x.numbers[i]
    <2>1. Build(x) = x.tail
        <3>1. [i \in 1..Len(x.numbers) - 3 |-> Number(x.numbers[i + 3])] = <<>>
            BY <1>2
        <3>2. x.tail \o <<>> = x.tail
            BY <1>1
        <3> QED BY <3>1, <3>2 DEF Build
    <2> QED BY <1>2, <2>1 DEF ParseSemver, Components
<1> DEFINE a == ParseSemver(s)  b == ParseSemver(t)
           S == s.numbers       T == t.numbers
           d1 == Cmp(S[1], T[1])  d2 == Cmp(S[2], T[2])  d3 == Cmp(S[3], T[3])
           first == FirstDifference(<<d1, d2, d3>>)
           build == CompareBuild(s.tail, t.tail)
<1>3. CompareSemver(a, b) = FirstDifference(<<d1, d2, d3, build>>)
    BY <1>2, 1 \in 1..3, 2 \in 1..3, 3 \in 1..3 DEF CompareSemver
<1>4. Says(first, S, T)
    BY <1>1, ComponentsSay
<1>5. PICK f, c \in Ordering :
        /\ build = IF f # 0 THEN f ELSE c
        /\ Says(f, IF s.tail = Nothing THEN <<1>> ELSE <<0>>, IF t.tail = Nothing THEN <<1>> ELSE <<0>>)
        /\ Says(c, Flattened(s.tail, "word"), Flattened(t.tail, "word"))
    BY <1>1, BuildsSay
<1>6. d1 \in Ordering /\ d2 \in Ordering /\ d3 \in Ordering /\ first \in Ordering /\ build \in Ordering
    BY <1>4, <1>5 DEF Says, Cmp, Ordering
<1>7. CompareSemver(a, b) = FirstDifference(<<first, f, c>>)
    <2>1. CompareSemver(a, b) = IF d1 # 0 THEN d1 ELSE IF d2 # 0 THEN d2 ELSE IF d3 # 0 THEN d3 ELSE build
        BY <1>3, <1>6, FirstOfFour
    <2>2. first = IF d1 # 0 THEN d1 ELSE IF d2 # 0 THEN d2 ELSE d3
        BY <1>6, FirstOfThree
    <2>3. FirstDifference(<<first, f, c>>) = IF first # 0 THEN first ELSE IF f # 0 THEN f ELSE c
        BY <1>6, FirstOfThree
    <2> HIDE DEF first, build, d1, d2, d3, a, b
    <2> QED BY <1>5, <2>1, <2>2, <2>3
<1> DEFINE d == <<first, f, c>>  k == SemverKey(s)  l == SemverKey(t)
<1>8. d \in [1..3 -> Ordering] /\ d[1] = first /\ d[2] = f /\ d[3] = c
    BY <1>6
<1>9. /\ k \in [1..3 -> Seq(Int)] /\ l \in [1..3 -> Seq(Int)]
      /\ k[1] = S /\ k[2] = (IF s.tail = Nothing THEN <<1>> ELSE <<0>>) /\ k[3] = Flattened(s.tail, "word")
      /\ l[1] = T /\ l[2] = (IF t.tail = Nothing THEN <<1>> ELSE <<0>>) /\ l[3] = Flattened(t.tail, "word")
    <2>1. /\ S \in Seq(Int) /\ T \in Seq(Int) /\ <<0>> \in Seq(Int) /\ <<1>> \in Seq(Int)
          /\ Flattened(s.tail, "word") \in Seq(Int) /\ Flattened(t.tail, "word") \in Seq(Int)
        BY <1>1, FlattenedIs
    <2>2. \A p, q, r \in Seq(Int) : <<p, q, r>> \in [1..3 -> Seq(Int)]
        OBVIOUS
    <2>3. (IF s.tail = Nothing THEN <<1>> ELSE <<0>>) \in Seq(Int)
          /\ (IF t.tail = Nothing THEN <<1>> ELSE <<0>>) \in Seq(Int)
        BY <2>1
    <2>4. k \in [1..3 -> Seq(Int)] /\ l \in [1..3 -> Seq(Int)]
        BY <2>1, <2>2, <2>3 DEF SemverKey
    <2>5. k[1] = S /\ k[2] = (IF s.tail = Nothing THEN <<1>> ELSE <<0>>) /\ k[3] = Flattened(s.tail, "word")
        BY DEF SemverKey
    <2>6. l[1] = T /\ l[2] = (IF t.tail = Nothing THEN <<1>> ELSE <<0>>) /\ l[3] = Flattened(t.tail, "word")
        BY DEF SemverKey
    <2> QED BY <2>4, <2>5, <2>6
<1> SUFFICES /\ CompareSemver(a, b) = -1 <=> Before(k, l)
             /\ CompareSemver(a, b) = 0 <=> k = l
    OBVIOUS
<1>10. CompareSemver(a, b) = FirstDifference(d)
    BY <1>7
<1> HIDE DEF d, k, l, a, b, first
<1>11. \A i \in 1..3 : Says(d[i], k[i], l[i])
    <2> TAKE i \in 1..3
    <2>1. i = 1 \/ i = 2 \/ i = 3
        OBVIOUS
    <2> QED BY <2>1, <1>4, <1>5, <1>8, <1>9
<1>12. /\ FirstDifference(d) = -1 <=> Before(k, l)
       /\ FirstDifference(d) = 0 <=> k = l
    BY <1>8, <1>9, <1>11, 3 \in Nat, FirstSays
<1> QED BY <1>10, <1>12

-----------------------------------------------------------------------------
(* PyPI versions, and PEP 440.                                             *)

\* A release without its zeros at the end: what is left ends in another number.
LEMMA TrimmedIs ==
    ASSUME NEW r \in Seq(Nat)
    PROVE  \E m \in Nat :
             /\ m <= Len(r)
             /\ WithoutTrailingZeros(r) \in Seq(Int)
             /\ Len(WithoutTrailingZeros(r)) = m /\ DOMAIN WithoutTrailingZeros(r) = 1..m
             /\ \A i \in 1..m : WithoutTrailingZeros(r)[i] = r[i]
             /\ m > 0 => r[m] # 0
             /\ \A i \in m + 1..Len(r) : r[i] = 0
<1> DEFINE n == Len(r)
           Enough == {m \in 0..n : \A i \in m + 1..n : r[i] = 0}
           Left == {j \in DOMAIN r : \E k \in j..Len(r) : r[k] # 0}
<1>1. n \in Nat /\ DOMAIN r = 1..n /\ \A i \in 1..n : r[i] \in Nat
    OBVIOUS
<1>2. n \in Enough /\ Enough \subseteq Nat
    BY <1>1
<1>3. PICK m \in Enough : \A k \in Enough : ~(k < m)
    <2> HIDE DEF Enough
    <2> QED BY <1>2, Least
<1>4. m \in 0..n /\ m \in Nat /\ \A i \in m + 1..n : r[i] = 0
    BY <1>1, <1>3
<1>5. m > 0 => r[m] # 0
    <2> SUFFICES ASSUME m > 0, r[m] = 0 PROVE FALSE
        OBVIOUS
    <2>1. m - 1 \in 0..n /\ \A i \in (m - 1) + 1..n : i = m \/ i \in m + 1..n
        BY <1>1, <1>4
    <2>2. m - 1 \in Enough
        BY <1>4, <2>1
    <2> HIDE DEF Enough
    <2>3. ~(m - 1 < m)
        BY <1>3, <2>2
    <2> QED BY <1>4, <2>3
<1>6. Left = 1..m
    <2>1. ASSUME NEW j \in Left PROVE j \in 1..m
        <3>1. j \in 1..n /\ \E k \in j..n : r[k] # 0
            BY <1>1
        <3>2. PICK k \in j..n : r[k] # 0
            BY <3>1
        <3>3. k \notin m + 1..n
            BY <1>4, <3>2
        <3> QED BY <1>1, <1>4, <3>1, <3>2, <3>3
    <2>2. ASSUME NEW j \in 1..m PROVE j \in Left
        <3>1. j \in 1..n /\ m \in j..n /\ m > 0
            BY <1>1, <1>4
        <3>2. r[m] # 0
            BY <1>5, <3>1
        <3> QED BY <1>1, <3>1, <3>2
    <2> QED BY <2>1, <2>2
<1>7. WithoutTrailingZeros(r) = [i \in 1..m |-> r[i]]
    BY <1>6 DEF WithoutTrailingZeros
<1>8. \A i \in 1..m : r[i] \in Int
    BY <1>1, <1>4
<1> HIDE DEF Enough, Left
<1>9. /\ WithoutTrailingZeros(r) \in Seq(Int)
      /\ Len(WithoutTrailingZeros(r)) = m /\ DOMAIN WithoutTrailingZeros(r) = 1..m
      /\ \A i \in 1..m : WithoutTrailingZeros(r)[i] = r[i]
    BY <1>4, <1>7, <1>8
<1> QED BY <1>4, <1>5, <1>9

\* If one release is lower than another, or the same, so it is without zeros
\* at the end.
LEMMA ReleasesSaySo ==
    ASSUME NEW a \in Seq(Nat), NEW b \in Seq(Nat)
    PROVE  /\ CompareRelease(a, b) = -1 =>
                ListBefore(WithoutTrailingZeros(a), WithoutTrailingZeros(b))
           /\ CompareRelease(a, b) = 0 => WithoutTrailingZeros(a) = WithoutTrailingZeros(b)
<1> DEFINE n == Longest(a, b)
           d == [i \in 1..n |-> Cmp(Padded(a, i), Padded(b, i))]
           A == WithoutTrailingZeros(a)
           B == WithoutTrailingZeros(b)
<1>1. Len(a) \in Nat /\ Len(b) \in Nat /\ n \in Nat /\ Len(a) <= n /\ Len(b) <= n
    BY LongestIs
<1>2. PICK p \in Nat :
        /\ p <= Len(a) /\ A \in Seq(Int) /\ Len(A) = p /\ DOMAIN A = 1..p
        /\ \A i \in 1..p : A[i] = a[i]
        /\ p > 0 => a[p] # 0
        /\ \A i \in p + 1..Len(a) : a[i] = 0
    BY TrimmedIs
<1>3. PICK q \in Nat :
        /\ q <= Len(b) /\ B \in Seq(Int) /\ Len(B) = q /\ DOMAIN B = 1..q
        /\ \A i \in 1..q : B[i] = b[i]
        /\ q > 0 => b[q] # 0
        /\ \A i \in q + 1..Len(b) : b[i] = 0
    BY TrimmedIs
<1>4. \A i \in 1..n : Padded(a, i) \in Nat /\ Padded(b, i) \in Nat
    BY DEF Padded
<1>5. \A i \in 1..n : IF i <= p THEN Padded(a, i) = A[i] ELSE Padded(a, i) = 0
    <2> TAKE i \in 1..n
    <2>1. DOMAIN a = 1..Len(a)
        OBVIOUS
    <2>2. CASE i <= p
        <3>1. i \in 1..p /\ i \in 1..Len(a)
            BY <1>1, <1>2, <2>2
        <3> QED BY <1>2, <2>1, <2>2, <3>1 DEF Padded
    <2>3. CASE ~(i <= p)
        <3>1. i \in 1..Len(a) => i \in p + 1..Len(a)
            BY <1>1, <1>2, <2>3
        <3> QED BY <1>2, <2>1, <2>3, <3>1 DEF Padded
    <2> QED BY <2>2, <2>3
<1>6. \A i \in 1..n : IF i <= q THEN Padded(b, i) = B[i] ELSE Padded(b, i) = 0
    <2> TAKE i \in 1..n
    <2>1. DOMAIN b = 1..Len(b)
        OBVIOUS
    <2>2. CASE i <= q
        <3>1. i \in 1..q /\ i \in 1..Len(b)
            BY <1>1, <1>3, <2>2
        <3> QED BY <1>3, <2>1, <2>2, <3>1 DEF Padded
    <2>3. CASE ~(i <= q)
        <3>1. i \in 1..Len(b) => i \in q + 1..Len(b)
            BY <1>1, <1>3, <2>3
        <3> QED BY <1>3, <2>1, <2>3, <3>1 DEF Padded
    <2> QED BY <2>2, <2>3
<1>7. d \in [1..n -> Ordering] /\ \A i \in 1..n : d[i] = Cmp(Padded(a, i), Padded(b, i))
    BY DEF Cmp, Ordering
<1>8. CompareRelease(a, b) = FirstDifference(d)
    BY DEF CompareRelease
<1>9. p > 0 => p \in 1..n /\ A[p] # 0 /\ p \in 1..p
    BY <1>1, <1>2
<1>10. q > 0 => q \in 1..n /\ B[q] # 0 /\ q \in 1..q
    BY <1>1, <1>3
<1> HIDE DEF d, A, B, n
<1>11. /\ FirstDifference(d) # 0 => \E i \in 1..n : Decides(d, i, FirstDifference(d))
       /\ FirstDifference(d) = 0 => \A i \in 1..n : d[i] = 0
    BY <1>1, <1>7, FirstIs
<1>12. \A i \in 1..n : (d[i] = -1 => Padded(a, i) < Padded(b, i)) /\ (d[i] = 0 => Padded(a, i) = Padded(b, i))
    BY <1>4, <1>7 DEF Cmp
<1>13. ASSUME FirstDifference(d) = 0 PROVE A = B
    <2>1. \A i \in 1..n : Padded(a, i) = Padded(b, i)
        BY <1>11, <1>12, <1>13
    <2>2. ~(p < q)
        BY <1>5, <1>6, <1>10, <2>1
    <2>3. ~(q < p)
        BY <1>5, <1>6, <1>9, <2>1
    <2>4. p = q
        BY <2>2, <2>3
    <2>5. \A i \in 1..p : i \in 1..n
        BY <1>1, <1>2
    <2>6. \A i \in 1..p : A[i] = B[i]
        BY <1>5, <1>6, <2>1, <2>4, <2>5
    <2> QED BY <1>2, <1>3, <2>4, <2>6
<1>14. ASSUME FirstDifference(d) = -1 PROVE ListBefore(A, B)
    <2>1. PICK i \in 1..n : Decides(d, i, -1)
        BY <1>11, <1>14
    <2>2. d[i] = -1 /\ \A j \in 1..i - 1 : j \in 1..n /\ d[j] = 0
        BY <1>1, <2>1 DEF Decides
    <2>3. Padded(a, i) < Padded(b, i) /\ \A j \in 1..i - 1 : Padded(a, j) = Padded(b, j)
        BY <1>12, <2>2
    <2>4. i <= q
        BY <1>4, <1>6, <2>3
    <2>5. CASE i - 1 <= p
        <3>1. \A j \in 1..i - 1 : j \in 1..n /\ j <= p /\ j <= q /\ j \in 1..p
            BY <1>1, <2>2, <2>4, <2>5
        <3>2. \A j \in 1..i - 1 : j \in DOMAIN A /\ A[j] = B[j]
            BY <1>2, <1>5, <1>6, <2>3, <3>1
        <3>3. i \in DOMAIN B
            BY <1>3, <2>4
        <3>4. i \in DOMAIN A => A[i] < B[i]
            BY <1>2, <1>5, <1>6, <2>3, <2>4
        <3> QED BY <3>2, <3>3, <3>4 DEF ListBefore
    <2>6. CASE ~(i - 1 <= p)
        <3>1. p + 1 \in 1..q /\ p + 1 \notin 1..p /\ \A j \in 1..(p + 1) - 1 : j \in 1..p /\ j \in 1..i - 1 /\ j \in 1..n /\ j <= p /\ j <= q
            BY <1>1, <2>4, <2>6
        <3>2. \A j \in 1..(p + 1) - 1 : j \in DOMAIN A /\ A[j] = B[j]
            BY <1>2, <1>5, <1>6, <2>3, <3>1
        <3> QED BY <1>2, <1>3, <3>1, <3>2 DEF ListBefore
    <2> QED BY <2>5, <2>6
<1> QED BY <1>8, <1>13, <1>14 DEF A, B

\* What a mark is read as, beside what it says.
LEMMA MarkIsGiven ==
    ASSUME NEW letters, NEW m \in {Unmarked} \cup Marked(letters)
    PROVE  /\ LetterVersion(m).number = IF IsMarked(m) THEN Given(m) ELSE Absent
           /\ IsMarked(m) => Given(m) \in Nat
<1>1. m.number \in Nat \cup {Absent}
    <2>1. CASE m = Unmarked
        BY <2>1 DEF Unmarked
    <2>2. CASE m \in Marked(letters)
        BY <2>2 DEF Marked
    <2> QED BY <2>1, <2>2
<1> QED BY <1>1 DEF LetterVersion, IsMarked, Given, Absent

\* Whatever a prerelease is called, it is known by one of three letters.
LEMMA PhaseIsRead ==
    ASSUME NEW m \in {Unmarked}
                       \cup Marked({"a", "alpha", "b", "beta", "c", "rc", "pre", "preview"}),
           IsMarked(m)
    PROVE  FirstByte[LetterVersion(m).letter] =
               IF Phase(m.letter) = 1 THEN 97 ELSE IF Phase(m.letter) = 2 THEN 98 ELSE 114
<1>1. m.letter \in {"a", "alpha", "b", "beta", "c", "rc", "pre", "preview"}
    <2>1. CASE m = Unmarked
        BY <2>1 DEF Unmarked, IsMarked
    <2>2. CASE m \in Marked({"a", "alpha", "b", "beta", "c", "rc", "pre", "preview"})
        BY <2>2 DEF Marked
    <2> QED BY <2>1, <2>2
<1>2. /\ DOMAIN Spelling = {"alpha", "beta", "c", "pre", "preview", "rev", "r"}
      /\ Spelling["alpha"] = "a" /\ Spelling["beta"] = "b" /\ Spelling["c"] = "rc"
      /\ Spelling["pre"] = "rc" /\ Spelling["preview"] = "rc"
    BY DEF Spelling
<1>3. FirstByte["a"] = 97 /\ FirstByte["b"] = 98 /\ FirstByte["rc"] = 114
    BY DEF FirstByte
<1>4. LetterVersion(m).letter = IF m.letter \in DOMAIN Spelling THEN Spelling[m.letter] ELSE m.letter
    BY <1>1 DEF LetterVersion
<1> QED BY <1>1, <1>2, <1>3, <1>4 DEF Phase

\* The marks of a version, so read.
LEMMA MarksAreGiven ==
    ASSUME NEW t \in PyPIText
    PROVE  /\ \A m \in {t.pre, t.post, t.dev} :
                /\ LetterVersion(m).number = IF IsMarked(m) THEN Given(m) ELSE Absent
                /\ IsMarked(m) => Given(m) \in Nat
           /\ IsMarked(t.pre) =>
                FirstByte[LetterVersion(t.pre).letter] =
                    IF Phase(t.pre.letter) = 1 THEN 97 ELSE IF Phase(t.pre.letter) = 2 THEN 98 ELSE 114
           /\ Phase(t.pre.letter) \in {1, 2, 3}
<1>1. t.pre \in {Unmarked} \cup Marked({"a", "alpha", "b", "beta", "c", "rc", "pre", "preview"})
      /\ t.post \in {Unmarked} \cup Marked({"", "post", "rev", "r"})
      /\ t.dev \in {Unmarked} \cup Marked({"dev"})
    BY DEF PyPIText
<1>2. \A m \in {t.pre, t.post, t.dev} :
        /\ LetterVersion(m).number = IF IsMarked(m) THEN Given(m) ELSE Absent
        /\ IsMarked(m) => Given(m) \in Nat
    BY <1>1, MarkIsGiven
<1>3. Phase(t.pre.letter) \in {1, 2, 3}
    BY DEF Phase
<1> QED BY <1>1, <1>2, <1>3, PhaseIsRead

\* A version that PEP 440 accepts, mark by mark.
LEMMA ReadIs ==
    ASSUME NEW t \in PyPIText, t.legacy = 0
    PROVE  /\ ParsePyPI(t).legacy = 0
           /\ ParsePyPI(t).epoch = IF t.epoch = Absent THEN 0 ELSE t.epoch
           /\ ParsePyPI(t).release = t.release
           /\ ParsePyPI(t).pre = LetterVersion(t.pre)
           /\ ParsePyPI(t).post = LetterVersion(t.post)
           /\ ParsePyPI(t).dev = LetterVersion(t.dev)
           /\ ParsePyPI(t).local = t.local
    BY DEF ParsePyPI, PyPIText

\* One number, or two, as a list.
LEMMA Short ==
    ASSUME NEW x \in Int, NEW y \in Int
    PROVE  /\ <<x>> \in Seq(Int) /\ Len(<<x>>) = 1 /\ <<x>>[1] = x
           /\ <<x, y>> \in Seq(Int) /\ Len(<<x, y>>) = 2 /\ <<x, y>>[1] = x /\ <<x, y>>[2] = y
    OBVIOUS

\* Epochs, of which a missing one is zero.
LEMMA NumbersSay ==
    ASSUME NEW x \in Int, NEW y \in Int
    PROVE  Says(Cmp(x, y), <<x>>, <<y>>)
<1>1. \A p, q \in Int : p < q => ListBefore(<<p>>, <<q>>)
    <2> TAKE p, q \in Int
    <2> HAVE p < q
    <2>1. DOMAIN <<p>> = 1..1 /\ DOMAIN <<q>> = 1..1 /\ <<p>>[1] = p /\ <<q>>[1] = q /\ \A j \in 1..1 - 1 : FALSE
        OBVIOUS
    <2> QED BY <2>1 DEF ListBefore
<1>2. Cmp(x, y) \in Ordering /\ Cmp(y, x) \in Ordering /\ Cmp(x, y) = -Cmp(y, x)
      /\ (Cmp(x, y) = -1 => x < y) /\ (Cmp(y, x) = -1 => y < x) /\ (Cmp(x, y) = 0 => x = y)
    BY DEF Cmp, Ordering
<1>3. <<x>> \in Seq(Int) /\ <<y>> \in Seq(Int)
    OBVIOUS
<1> QED BY <1>1, <1>2, <1>3, SaysIfSo

\* Releases as PEP 440 has them, as if the shorter went on with zeros.
LEMMA ReleasesSay ==
    ASSUME NEW a \in Seq(Nat), NEW b \in Seq(Nat)
    PROVE  Says(CompareRelease(a, b), WithoutTrailingZeros(a), WithoutTrailingZeros(b))
<1>1. WithoutTrailingZeros(a) \in Seq(Int) /\ WithoutTrailingZeros(b) \in Seq(Int)
    BY TrimmedIs
<1>2. Fits(CompareRelease(a, b), CompareRelease(b, a), CompareRelease(b, b), CompareRelease(a, b))
    BY ReleasesFit
<1>3. CompareRelease(a, b) \in Ordering /\ CompareRelease(b, a) \in Ordering
      /\ CompareRelease(a, b) = -CompareRelease(b, a)
    BY <1>2 DEF Fits
<1> QED BY <1>1, <1>3, ReleasesSaySo, SaysIfSo

\* Post-releases, of which none is before the first.
LEMMA PostsSay ==
    ASSUME NEW s \in PyPIText, NEW t \in PyPIText, s.legacy = 0, t.legacy = 0
    PROVE  Says(ComparePost(ParsePyPI(s), ParsePyPI(t)),
                IF IsMarked(s.post) THEN <<Given(s.post)>> ELSE <<>>,
                IF IsMarked(t.post) THEN <<Given(t.post)>> ELSE <<>>)
<1> DEFINE x == IF IsMarked(s.post) THEN Given(s.post) ELSE Absent
           y == IF IsMarked(t.post) THEN Given(t.post) ELSE Absent
           L(z) == IF z = Absent THEN <<>> ELSE <<z>>
<1>1. /\ x \in Nat \cup {Absent} /\ y \in Nat \cup {Absent}
      /\ ParsePyPI(s).post.number = x /\ ParsePyPI(t).post.number = y
      /\ L(x) = (IF IsMarked(s.post) THEN <<Given(s.post)>> ELSE <<>>)
      /\ L(y) = (IF IsMarked(t.post) THEN <<Given(t.post)>> ELSE <<>>)
    <2>1. IsMarked(s.post) => Given(s.post) \in Nat
        BY MarksAreGiven
    <2>2. IsMarked(t.post) => Given(t.post) \in Nat
        BY MarksAreGiven
    <2>3. ParsePyPI(s).post.number = x
        BY ReadIs, MarksAreGiven
    <2>4. ParsePyPI(t).post.number = y
        BY ReadIs, MarksAreGiven
    <2> QED BY <2>1, <2>2, <2>3, <2>4 DEF Absent
<1> HIDE DEF x, y
<1>2. \A p, q \in Nat \cup {Absent} : p < q => ListBefore(L(p), L(q))
    <2> TAKE p, q \in Nat \cup {Absent}
    <2> HAVE p < q
    <2>1. q \in Nat
        BY DEF Absent
    <2>2. L(q) = <<q>> /\ DOMAIN L(q) = 1..1 /\ L(q)[1] = q /\ \A j \in 1..1 - 1 : FALSE
        BY <2>1 DEF Absent
    <2>3. CASE p = Absent
        <3>1. L(p) = <<>> /\ 1 \notin DOMAIN L(p)
            BY <2>3
        <3> QED BY <2>2, <3>1 DEF ListBefore
    <2>4. CASE p # Absent
        <3>1. L(p) = <<p>> /\ L(p)[1] = p
            BY <2>4
        <3> QED BY <2>2, <3>1 DEF ListBefore
    <2> QED BY <2>3, <2>4
<1>3. Cmp(x, y) \in Ordering /\ Cmp(y, x) \in Ordering /\ Cmp(x, y) = -Cmp(y, x)
      /\ (Cmp(x, y) = -1 => x < y) /\ (Cmp(y, x) = -1 => y < x) /\ (Cmp(x, y) = 0 => x = y)
    BY <1>1 DEF Cmp, Ordering, Absent
<1>4. L(x) \in Seq(Int) /\ L(y) \in Seq(Int)
    BY <1>1
<1> HIDE DEF L
<1>5. Says(Cmp(x, y), L(x), L(y))
    BY <1>1, <1>2, <1>3, <1>4, SaysIfSo
<1> QED BY <1>1, <1>5 DEF ComparePost

\* Development releases, which come before what they lead to.
LEMMA DevsSay ==
    ASSUME NEW s \in PyPIText, NEW t \in PyPIText, s.legacy = 0, t.legacy = 0
    PROVE  Says(CompareDev(ParsePyPI(s), ParsePyPI(t)),
                IF IsMarked(s.dev) THEN <<0, Given(s.dev)>> ELSE <<1>>,
                IF IsMarked(t.dev) THEN <<0, Given(t.dev)>> ELSE <<1>>)
<1> DEFINE x == IF IsMarked(s.dev) THEN Given(s.dev) ELSE Absent
           y == IF IsMarked(t.dev) THEN Given(t.dev) ELSE Absent
           L(z) == IF z = Absent THEN <<1>> ELSE <<0, z>>
           C(p, q) == IF p = Absent /\ q # Absent THEN 1
                      ELSE IF p # Absent /\ q = Absent THEN -1 ELSE Cmp(p, q)
<1>1. /\ x \in Nat \cup {Absent} /\ y \in Nat \cup {Absent}
      /\ ParsePyPI(s).dev.number = x /\ ParsePyPI(t).dev.number = y
      /\ L(x) = (IF IsMarked(s.dev) THEN <<0, Given(s.dev)>> ELSE <<1>>)
      /\ L(y) = (IF IsMarked(t.dev) THEN <<0, Given(t.dev)>> ELSE <<1>>)
    <2>1. IsMarked(s.dev) => Given(s.dev) \in Nat
        BY MarksAreGiven
    <2>2. IsMarked(t.dev) => Given(t.dev) \in Nat
        BY MarksAreGiven
    <2>3. ParsePyPI(s).dev.number = x
        BY ReadIs, MarksAreGiven
    <2>4. ParsePyPI(t).dev.number = y
        BY ReadIs, MarksAreGiven
    <2> QED BY <2>1, <2>2, <2>3, <2>4 DEF Absent
<1> HIDE DEF x, y
<1>2. \A p, q \in Nat \cup {Absent} : C(p, q) = -1 => ListBefore(L(p), L(q))
    <2> TAKE p, q \in Nat \cup {Absent}
    <2> HAVE C(p, q) = -1
    <2>1. p \in Nat /\ (q = Absent \/ (q \in Nat /\ p < q))
        BY DEF Absent, Cmp
    <2>2. L(p) = <<0, p>> /\ L(p)[1] = 0 /\ L(p)[2] = p /\ DOMAIN L(p) = 1..2
        BY <2>1 DEF Absent
    <2>3. CASE q = Absent
        <3>1. L(q) = <<1>> /\ DOMAIN L(q) = 1..1 /\ L(q)[1] = 1 /\ \A j \in 1..1 - 1 : FALSE
            BY <2>3
        <3> QED BY <2>2, <3>1 DEF ListBefore
    <2>4. CASE q # Absent
        <3>1. L(q) = <<0, q>> /\ DOMAIN L(q) = 1..2 /\ L(q)[1] = 0 /\ L(q)[2] = q /\ \A j \in 1..2 - 1 : j = 1
            BY <2>4
        <3> QED BY <2>1, <2>2, <2>4, <3>1 DEF ListBefore
    <2> QED BY <2>3, <2>4
<1>3. C(x, y) \in Ordering /\ C(y, x) \in Ordering /\ C(x, y) = -C(y, x) /\ (C(x, y) = 0 => x = y)
    BY <1>1 DEF Cmp, Ordering, Absent
<1>4. L(x) \in Seq(Int) /\ L(y) \in Seq(Int)
    BY <1>1
<1>5. CompareDev(ParsePyPI(s), ParsePyPI(t)) = C(x, y)
    BY <1>1 DEF CompareDev
<1> HIDE DEF L, C
<1>6. Says(C(x, y), L(x), L(y))
    BY <1>1, <1>2, <1>3, <1>4, SaysIfSo
<1> QED BY <1>1, <1>5, <1>6

\* Local versions, whose numbers are above words.
LEMMA LocalsSay ==
    ASSUME NEW a \in Seq(Identifier), NEW b \in Seq(Identifier)
    PROVE  Says(CompareLocal(a, b), Flattened(a, "number"), Flattened(b, "number"))
<1> DEFINE Part(x, y) == [i \in 1..Longest(x, y) |-> LocalAt(x, y, i)]
<1>1. \A x \in Seq(Identifier) : Len(x) \in Nat /\ DOMAIN x = 1..Len(x) /\ \A i \in 1..Len(x) : x[i] \in Identifier
    OBVIOUS
<1>2. \A p \in Identifier : p.n \in Nat /\ p.kind \in {"word", "number"}
    BY DEF Identifier
<1>3. ASSUME NEW x \in Seq(Identifier), NEW y \in Seq(Identifier)
      PROVE  ByMember(Part(x, y), x, y, "number")
    <2>1. \A i \in 1..Longest(x, y) : LocalAt(x, y, i) = IF i <= Len(x) /\ i <= Len(y)
                                         THEN LocalMember(x[i], y[i]) ELSE Cmp(Len(x), Len(y))
        BY <1>1 DEF LocalAt, LocalMember
    <2>2. \A i \in 1..Longest(x, y) : i <= Len(x) => x[i] \in Identifier
        BY <1>1
    <2>3. \A i \in 1..Longest(x, y) : i <= Len(y) => y[i] \in Identifier
        BY <1>1
    <2>4. \A p, q \in Identifier : LocalMember(p, q) \in Ordering
        BY LocalMembersFit DEF Fits
    <2>5. \A i \in 1..Longest(x, y) : LocalAt(x, y, i) \in Ordering
        <3>1. Cmp(Len(x), Len(y)) \in Ordering
            BY DEF Cmp, Ordering
        <3> QED BY <2>1, <2>2, <2>3, <2>4, <3>1
    <2>6. Part(x, y) \in [1..Longest(x, y) -> Ordering] /\ \A i \in 1..Longest(x, y) : Part(x, y)[i] = LocalAt(x, y, i)
        BY <2>5
    <2> HIDE DEF Part
    <2>7. \A g, h \in Identifier :
            LET p == IF g.kind = "number" THEN 1 ELSE 0
                q == IF h.kind = "number" THEN 1 ELSE 0
            IN /\ LocalMember(g, h) = -1 => p < q \/ (p = q /\ g.n < h.n)
               /\ LocalMember(g, h) = 0 => p = q /\ g.n = h.n
        BY <1>2 DEF LocalMember, Cmp
    <2>8. \A i \in 1..Longest(x, y) : i <= Len(x) /\ i <= Len(y) =>
            LET p == IF x[i].kind = "number" THEN 1 ELSE 0
                q == IF y[i].kind = "number" THEN 1 ELSE 0
            IN /\ Part(x, y)[i] = -1 => p < q \/ (p = q /\ x[i].n < y[i].n)
               /\ Part(x, y)[i] = 0 => p = q /\ x[i].n = y[i].n
        BY <2>1, <2>2, <2>3, <2>6, <2>7
    <2>9. \A i \in 1..Longest(x, y) : ~(i <= Len(x) /\ i <= Len(y)) => Part(x, y)[i] = Cmp(Len(x), Len(y))
        BY <2>1, <2>6
    <2> QED BY <2>6, <2>8, <2>9 DEF ByMember
<1>4. Flattened(a, "number") \in Seq(Int) /\ Flattened(b, "number") \in Seq(Int)
    BY FlattenedIs
<1>5. ByMember(Part(a, b), a, b, "number") /\ ByMember(Part(b, a), b, a, "number")
    BY <1>3
<1>6. CompareLocal(a, b) = FirstDifference(Part(a, b)) /\ CompareLocal(b, a) = FirstDifference(Part(b, a))
    BY DEF CompareLocal
<1>7. Fits(CompareLocal(a, b), CompareLocal(b, a), CompareLocal(b, b), CompareLocal(a, b))
    BY LocalsFit
<1>8. CompareLocal(a, b) \in Ordering /\ CompareLocal(b, a) \in Ordering /\ CompareLocal(a, b) = -CompareLocal(b, a)
    BY <1>7 DEF Fits
<1> HIDE DEF Part
<1>9. /\ CompareLocal(a, b) = -1 => ListBefore(Flattened(a, "number"), Flattened(b, "number"))
      /\ CompareLocal(a, b) = 0 => Flattened(a, "number") = Flattened(b, "number")
      /\ CompareLocal(b, a) = -1 => ListBefore(Flattened(b, "number"), Flattened(a, "number"))
    BY <1>5, <1>6, MembersSaySo
<1> QED BY <1>4, <1>8, <1>9, SaysIfSo

\* Prereleases, what is before all of them and what is after.
LEMMA PresSay ==
    ASSUME NEW s \in PyPIText, NEW t \in PyPIText, s.legacy = 0, t.legacy = 0
    PROVE  Says(ComparePre(ParsePyPI(s), ParsePyPI(t)), PreKey(s), PreKey(t))
<1> DEFINE H(x) == IF IsMarked(x.pre) THEN Phase(x.pre.letter)
                   ELSE IF IsMarked(x.dev) /\ ~IsMarked(x.post) THEN 0 ELSE 4
           N(x) == IF IsMarked(x.pre) THEN Given(x.pre) ELSE 0
           L(h, n) == IF h \in {0, 4} THEN <<h>> ELSE <<h, n>>
           C(x, y) == IF H(x) # H(y) THEN Cmp(H(x), H(y))
                      ELSE IF H(x) \in {0, 4} THEN 0 ELSE Cmp(N(x), N(y))
<1>1. ASSUME NEW x \in PyPIText
      PROVE  /\ H(x) \in 0..4 /\ N(x) \in Nat /\ PreKey(x) = L(H(x), N(x))
             /\ PreKey(x) \in Seq(Int)
             /\ IsMarked(x.pre) <=> H(x) \notin {0, 4}
    <2>1. Phase(x.pre.letter) \in {1, 2, 3} /\ (IsMarked(x.pre) => Given(x.pre) \in Nat)
        BY MarksAreGiven
    <2>2. H(x) \in 0..4 /\ N(x) \in Nat /\ (IsMarked(x.pre) <=> H(x) \notin {0, 4})
        BY <2>1
    <2>3. PreKey(x) = L(H(x), N(x))
        BY <2>1 DEF PreKey
    <2>4. \A h \in 0..4 : \A n \in Nat : L(h, n) \in Seq(Int)
        <3> TAKE h \in 0..4, n \in Nat
        <3>1. <<h>> \in Seq(Int) /\ <<h, n>> \in Seq(Int)
            BY Short
        <3> QED BY <3>1
    <2> HIDE DEF H, N, L
    <2> QED BY <2>2, <2>3, <2>4
<1>2. ASSUME NEW x \in PyPIText, x.legacy = 0
      PROVE  /\ ParsePyPI(x).pre \in PreMark
             /\ AppliesPreTrick(ParsePyPI(x)) <=> H(x) = 0
             /\ ParsePyPI(x).pre.number = Absent <=> H(x) \in {0, 4}
             /\ H(x) \notin {0, 4} =>
                    /\ ParsePyPI(x).pre.number = N(x)
                    /\ FirstByte[ParsePyPI(x).pre.letter] = IF H(x) = 1 THEN 97 ELSE IF H(x) = 2 THEN 98 ELSE 114
    <2>1. ParsePyPI(x).pre = LetterVersion(x.pre) /\ ParsePyPI(x).post = LetterVersion(x.post)
          /\ ParsePyPI(x).dev = LetterVersion(x.dev)
        BY <1>2, ReadIs
    <2>2. \A m \in {x.pre, x.post, x.dev} : LetterVersion(m).number = Absent <=> ~IsMarked(m)
        <3> TAKE m \in {x.pre, x.post, x.dev}
        <3>1. LetterVersion(m).number = (IF IsMarked(m) THEN Given(m) ELSE Absent)
              /\ (IsMarked(m) => Given(m) \in Nat)
            BY MarksAreGiven
        <3> QED BY <3>1 DEF Absent
    <2>3. Phase(x.pre.letter) \in {1, 2, 3}
        BY MarksAreGiven
    <2>4. AppliesPreTrick(ParsePyPI(x)) <=> H(x) = 0
        BY <2>1, <2>2, <2>3 DEF AppliesPreTrick
    <2>5. ParsePyPI(x).pre.number = Absent <=> H(x) \in {0, 4}
        BY <2>1, <2>2, <2>3
    <2>6. IsMarked(x.pre) => LetterVersion(x.pre).number = Given(x.pre)
        BY MarksAreGiven
    <2>7. IsMarked(x.pre) => FirstByte[LetterVersion(x.pre).letter] =
                                IF Phase(x.pre.letter) = 1 THEN 97 ELSE IF Phase(x.pre.letter) = 2 THEN 98 ELSE 114
        BY MarksAreGiven
    <2>8. H(x) \notin {0, 4} => IsMarked(x.pre) /\ H(x) = Phase(x.pre.letter) /\ N(x) = Given(x.pre)
        BY <2>3
    <2>9. ParsePyPI(x).pre \in PreMark
        BY <2>1, ReadPre DEF PyPIText
    <2> HIDE DEF H, N
    <2> QED BY <2>1, <2>4, <2>5, <2>6, <2>7, <2>8, <2>9
<1> HIDE DEF H, N, L
<1>3. ASSUME NEW x \in PyPIText, NEW y \in PyPIText, x.legacy = 0, y.legacy = 0
      PROVE  ComparePre(ParsePyPI(x), ParsePyPI(y)) = C(x, y)
    <2> DEFINE a == ParsePyPI(x)  b == ParsePyPI(y)
               F(h) == IF h = 1 THEN 97 ELSE IF h = 2 THEN 98 ELSE 114
    <2>1. H(x) \in 0..4 /\ H(y) \in 0..4 /\ N(x) \in Nat /\ N(y) \in Nat
        BY <1>1
    <2>2. /\ AppliesPreTrick(a) <=> H(x) = 0
          /\ AppliesPreTrick(b) <=> H(y) = 0
          /\ a.pre.number = Absent <=> H(x) \in {0, 4}
          /\ b.pre.number = Absent <=> H(y) \in {0, 4}
        BY <1>2, <1>3
    <2>3. CASE H(x) \in {0, 4} \/ H(y) \in {0, 4}
        <3> HIDE DEF a, b
        <3>1. ComparePre(a, b) = C(x, y)
            BY <2>1, <2>2, <2>3 DEF ComparePre, Cmp
        <3> QED BY <3>1 DEF a, b
    <2>4. CASE H(x) \notin {0, 4} /\ H(y) \notin {0, 4}
        <3>1. a.pre.number = N(x) /\ b.pre.number = N(y)
              /\ FirstByte[a.pre.letter] = F(H(x)) /\ FirstByte[b.pre.letter] = F(H(y))
            BY <1>2, <1>3, <2>4
        <3> HIDE DEF a, b
        <3> DEFINE p == Cmp(F(H(x)), F(H(y)))  q == Cmp(N(x), N(y))
        <3>2. ComparePre(a, b) = FirstDifference(<<p, q>>)
            BY <2>2, <2>4, <3>1 DEF ComparePre, ComparePhase
        <3>3. p = Cmp(H(x), H(y))
            BY <2>1, <2>4 DEF Cmp
        <3>4. p \in Ordering /\ q \in Ordering
            BY DEF Cmp, Ordering
        <3>5. p = 0 <=> H(x) = H(y)
            BY <2>1, <3>3 DEF Cmp
        <3> HIDE DEF p, q, F
        <3>6. FirstDifference(<<p, q>>) = IF p # 0 THEN p ELSE q
            BY <3>4, FirstOfTwo
        <3>7. ComparePre(a, b) = C(x, y)
            BY <2>4, <3>2, <3>3, <3>5, <3>6 DEF q
        <3> QED BY <3>7 DEF a, b
    <2> QED BY <2>3, <2>4
<1>4. ASSUME NEW x \in PyPIText, NEW y \in PyPIText, C(x, y) = -1
      PROVE  ListBefore(PreKey(x), PreKey(y))
    <2>1. H(x) \in 0..4 /\ H(y) \in 0..4 /\ N(x) \in Nat /\ N(y) \in Nat
        BY <1>1
    <2>2. H(x) < H(y) \/ (H(x) = H(y) /\ H(x) \notin {0, 4} /\ N(x) < N(y))
        BY <1>4, <2>1 DEF Cmp
    <2>3. \A h \in 0..4 : \A n \in Nat :
            L(h, n) \in Seq(Int) /\ Len(L(h, n)) > 0 /\ L(h, n)[1] = h
            /\ (h \notin {0, 4} => Len(L(h, n)) > 1 /\ L(h, n)[2] = n)
        BY DEF L
    <2>4. ListBefore(L(H(x), N(x)), L(H(y), N(y)))
        <3> DEFINE S == L(H(x), N(x))  T == L(H(y), N(y))
        <3>1. /\ S \in Seq(Int) /\ T \in Seq(Int) /\ Len(S) > 0 /\ Len(T) > 0
              /\ S[1] = H(x) /\ T[1] = H(y)
              /\ H(x) \notin {0, 4} => Len(S) > 1 /\ S[2] = N(x)
              /\ H(y) \notin {0, 4} => Len(T) > 1 /\ T[2] = N(y)
            BY <2>1, <2>3
        <3> HIDE DEF S, T
        <3>2. \/ S[1] < T[1]
              \/ S[1] = T[1] /\ Len(S) > 1 /\ Len(T) > 1 /\ S[2] < T[2]
            BY <2>2, <3>1
        <3>3. ListBefore(S, T)
            BY <3>1, <3>2, BeforeAtOnce
        <3> QED BY <3>3 DEF S, T
    <2> QED BY <1>1, <2>4
<1>5. C(s, t) = 0 => PreKey(s) = PreKey(t)
    <2>1. H(s) \in 0..4 /\ H(t) \in 0..4 /\ N(s) \in Nat /\ N(t) \in Nat
        BY <1>1
    <2>2. C(s, t) = 0 => H(s) = H(t) /\ (H(s) \in {0, 4} \/ N(s) = N(t))
        BY <2>1 DEF Cmp
    <2>3. \A h, m, n : h \in {0, 4} => L(h, m) = L(h, n)
        BY DEF L
    <2> QED BY <1>1, <2>2, <2>3
<1> DEFINE a == ParsePyPI(s)  b == ParsePyPI(t)
<1>6. Fits(ComparePre(a, b), ComparePre(b, a), ComparePre(b, b), ComparePre(a, b))
    BY <1>2, PresFit
<1>7. ComparePre(a, b) \in Ordering /\ ComparePre(b, a) \in Ordering /\ ComparePre(a, b) = -ComparePre(b, a)
    BY <1>6 DEF Fits
<1>8. ComparePre(a, b) = C(s, t) /\ ComparePre(b, a) = C(t, s)
    BY <1>3
<1>9. PreKey(s) \in Seq(Int) /\ PreKey(t) \in Seq(Int)
    BY <1>1
<1> HIDE DEF a, b, C
<1>10. Says(ComparePre(a, b), PreKey(s), PreKey(t))
    BY <1>4, <1>5, <1>7, <1>8, <1>9, SaysIfSo
<1> QED BY <1>10 DEF a, b

\* Where PEP 440 allows two versions, they compare as it says.
LEMMA PyPIsAgree ==
    ASSUME NEW s \in PyPIText, NEW t \in PyPIText, s.legacy = 0, t.legacy = 0
    PROVE  /\ ComparePyPI(ParsePyPI(s), ParsePyPI(t)) = -1 <=> Before(PyPIKey(s), PyPIKey(t))
           /\ ComparePyPI(ParsePyPI(s), ParsePyPI(t)) = 0 <=> PyPIKey(s) = PyPIKey(t)
<1> DEFINE a == ParsePyPI(s)  b == ParsePyPI(t)
           E(x) == IF x.epoch = Absent THEN 0 ELSE x.epoch
           e == <<Cmp(E(s), E(t)), CompareRelease(s.release, t.release), ComparePre(a, b),
                  ComparePost(a, b), CompareDev(a, b), CompareLocal(s.local, t.local)>>
           d == <<0, Cmp(E(s), E(t)), CompareRelease(s.release, t.release), ComparePre(a, b),
                  ComparePost(a, b), CompareDev(a, b), CompareLocal(s.local, t.local)>>
           k == PyPIKey(s)  l == PyPIKey(t)
           Post(x) == IF IsMarked(x.post) THEN <<Given(x.post)>> ELSE <<>>
           Dev(x) == IF IsMarked(x.dev) THEN <<0, Given(x.dev)>> ELSE <<1>>
<1>1. \A x \in PyPIText : x.epoch \in Nat \cup {Absent} /\ x.release \in Seq(Nat) /\ x.local \in Seq(Identifier)
    BY DEF PyPIText
<1>2. ComparePyPI(a, b) = FirstDifference(d)
    <2>1. /\ a.legacy = 0 /\ a.epoch = E(s) /\ a.release = s.release /\ a.local = s.local
          /\ b.legacy = 0 /\ b.epoch = E(t) /\ b.release = t.release /\ b.local = t.local
        BY ReadIs
    <2>2. CompareLegacy(a, b) = 0
        BY <2>1 DEF CompareLegacy, Cmp
    <2> HIDE DEF a, b, E
    <2> QED BY <2>1, <2>2 DEF ComparePyPI
<1>3. /\ Says(Cmp(E(s), E(t)), <<E(s)>>, <<E(t)>>)
      /\ Says(CompareRelease(s.release, t.release), WithoutTrailingZeros(s.release), WithoutTrailingZeros(t.release))
      /\ Says(ComparePre(a, b), PreKey(s), PreKey(t))
      /\ Says(ComparePost(a, b), Post(s), Post(t))
      /\ Says(CompareDev(a, b), Dev(s), Dev(t))
      /\ Says(CompareLocal(s.local, t.local), Flattened(s.local, "number"), Flattened(t.local, "number"))
    <2>1. E(s) \in Int /\ E(t) \in Int
        BY <1>1
    <2>2. Says(Cmp(E(s), E(t)), <<E(s)>>, <<E(t)>>)
        BY <2>1, NumbersSay
    <2> QED BY <1>1, <2>2, ReleasesSay, PresSay, PostsSay, DevsSay, LocalsSay
<1>4. /\ k = << <<E(s)>>, WithoutTrailingZeros(s.release), PreKey(s), Post(s), Dev(s), Flattened(s.local, "number")>>
      /\ l = << <<E(t)>>, WithoutTrailingZeros(t.release), PreKey(t), Post(t), Dev(t), Flattened(t.local, "number")>>
    BY DEF PyPIKey
<1>5. \A x \in PyPIText : /\ <<E(x)>> \in Seq(Int) /\ WithoutTrailingZeros(x.release) \in Seq(Int)
                          /\ PreKey(x) \in Seq(Int) /\ Post(x) \in Seq(Int) /\ Dev(x) \in Seq(Int)
                          /\ Flattened(x.local, "number") \in Seq(Int)
    <2> TAKE x \in PyPIText
    <2>1. E(x) \in Int /\ Phase(x.pre.letter) \in Int /\ (IsMarked(x.pre) => Given(x.pre) \in Int)
          /\ (IsMarked(x.post) => Given(x.post) \in Int) /\ (IsMarked(x.dev) => Given(x.dev) \in Int)
        BY <1>1, MarksAreGiven
    <2>2. <<E(x)>> \in Seq(Int) /\ Post(x) \in Seq(Int) /\ Dev(x) \in Seq(Int)
        BY <2>1, Short
    <2>3. PreKey(x) \in Seq(Int)
        BY <2>1, Short DEF PreKey
    <2>4. WithoutTrailingZeros(x.release) \in Seq(Int)
        BY <1>1, TrimmedIs
    <2>5. Flattened(x.local, "number") \in Seq(Int)
        BY <1>1, FlattenedIs
    <2> QED BY <2>2, <2>3, <2>4, <2>5
<1>6. e \in [1..6 -> Ordering]
    BY <1>3 DEF Says
<1>7. d \in [1..6 + 1 -> Ordering] /\ d[1] = 0
    BY <1>3 DEF Says, Ordering
<1>8. \A i \in 1..6 : d[i + 1] = e[i]
    <2> TAKE i \in 1..6
    <2>1. i = 1 \/ i = 2 \/ i = 3 \/ i = 4 \/ i = 5 \/ i = 6
        OBVIOUS
    <2> QED BY <2>1
<1>9. \A i \in 1..6 : Says(e[i], k[i], l[i])
    <2> TAKE i \in 1..6
    <2>1. i = 1 \/ i = 2 \/ i = 3 \/ i = 4 \/ i = 5 \/ i = 6
        OBVIOUS
    <2> HIDE DEF k, l, a, b, E, Post, Dev
    <2> QED BY <1>3, <1>4, <2>1
<1>10. k \in [1..6 -> Seq(Int)] /\ l \in [1..6 -> Seq(Int)]
    <2>1. \A p, q, r, x, y, z \in Seq(Int) : <<p, q, r, x, y, z>> \in [1..6 -> Seq(Int)]
        OBVIOUS
    <2> HIDE DEF k, l, a, b, E, Post, Dev
    <2> QED BY <1>4, <1>5, <2>1
<1> SUFFICES /\ ComparePyPI(a, b) = -1 <=> Before(k, l)
             /\ ComparePyPI(a, b) = 0 <=> k = l
    OBVIOUS
<1> HIDE DEF a, b, d, e, k, l
<1>11. FirstDifference(d) = FirstDifference(e)
    BY <1>6, <1>7, <1>8, 6 \in Nat, FirstShifted
<1>12. /\ FirstDifference(e) = -1 <=> Before(k, l)
       /\ FirstDifference(e) = 0 <=> k = l
    <2> DEFINE n == 6
    <2>1. n \in Nat /\ e \in [1..n -> Ordering]
          /\ k \in [1..n -> Seq(Int)] /\ l \in [1..n -> Seq(Int)] /\ \A i \in 1..n : Says(e[i], k[i], l[i])
        BY <1>6, <1>9, <1>10
    <2> HIDE DEF n
    <2>2. \A x \in [1..n -> Ordering] : \A p, q \in [1..n -> Seq(Int)] :
            (\A i \in 1..n : Says(x[i], p[i], q[i])) =>
                /\ FirstDifference(x) = -1 <=> Before(p, q)
                /\ FirstDifference(x) = 0 <=> p = q
        BY <2>1, FirstSays
    <2> QED BY <2>1, <2>2
<1> QED BY <1>2, <1>11, <1>12

-----------------------------------------------------------------------------

Parse(t) == IF grammar = "semver" THEN ParseSemver(t) ELSE ParsePyPI(t)

\* What is parsed is what was written, in its order.
ParsedInOrder ==
    /\ ParsedWell
    /\ Len(parsed) <= 3
    /\ \A i \in 1..Len(parsed) : parsed[i] = Parse(text[i])

\* Parsing takes the texts in turn.
LEMMA ParsedInOrderHolds == VersionsSpec => []ParsedInOrder
<1>1. VersionsInit /\ ParsedWell => ParsedInOrder
    <2> SUFFICES ASSUME VersionsInit, ParsedWell PROVE ParsedInOrder
        OBVIOUS
    <2>1. Len(parsed) = 0
        BY DEF VersionsInit
    <2> QED BY <2>1 DEF ParsedInOrder
<1>2. ParsedInOrder /\ ParsedWell' /\ [VersionsNext]_versionVars => ParsedInOrder'
    <2> SUFFICES ASSUME ParsedInOrder, ParsedWell', [VersionsNext]_versionVars
                 PROVE  ParsedInOrder'
        OBVIOUS
    <2> DEFINE n == Len(parsed)
    <2>1. parsed \in Seq(Version) /\ n \in Nat /\ grammar \in {"semver", "pypi"}
        BY DEF ParsedInOrder, ParsedWell
    <2>2. ASSUME n < 3, UNCHANGED <<grammar, text>>, parsed' = Append(parsed, Parse(text[n + 1]))
          PROVE  ParsedInOrder'
        <3>1. Len(parsed') = n + 1 /\ parsed'[n + 1] = Parse(text[n + 1])
              /\ \A i \in 1..n : parsed'[i] = parsed[i]
            BY <2>1, <2>2
        <3>2. \A i \in 1..n + 1 : i \in 1..n \/ i = n + 1
            BY <2>1
        <3>3. \A i \in 1..n + 1 : parsed'[i] = Parse(text[i])
            BY <3>1, <3>2 DEF ParsedInOrder
        <3>4. grammar' = grammar /\ text' = text
            BY <2>2
        <3>5. n + 1 <= 3
            BY <2>1, <2>2
        <3> HIDE DEF n
        <3> QED BY <3>1, <3>3, <3>4, <3>5 DEF ParsedInOrder, Parse
    <2>3. CASE ParsesSemver
        BY <2>2, <2>3 DEF ParsesSemver, Parse
    <2>4. CASE ParsesPyPI
        BY <2>2, <2>4 DEF ParsesPyPI, Parse
    <2>5. CASE UNCHANGED versionVars
        BY <2>5 DEF versionVars, ParsedInOrder, Parse
    <2> QED BY <2>3, <2>4, <2>5 DEF VersionsNext
<1> QED BY <1>1, <1>2, ParsedWellHolds, PTL DEF VersionsSpec

\* "PEP 440 plus a setuptools-era legacy fallback" (version.rs), and item 11 of
\* Semantic Versioning: any two versions that their standard allows compare as
\* it says, whichever they are.
THEOREM StandardsAgree == VersionsSpec => []AgreesWithStandard
<1>1. ParsedInOrder => AgreesWithStandard
    <2> SUFFICES ASSUME ParsedInOrder, NEW i \in DOMAIN parsed, NEW j \in DOMAIN parsed,
                        Standard(text[i]), Standard(text[j])
                 PROVE  /\ Compare(parsed[i], parsed[j]) = -1 <=> Before(Key(text[i]), Key(text[j]))
                        /\ Compare(parsed[i], parsed[j]) = 0 <=> Key(text[i]) = Key(text[j])
        BY DEF AgreesWithStandard
    <2>1. parsed \in Seq(Version) /\ Len(parsed) <= 3
        BY DEF ParsedInOrder, ParsedWell
    <2>2. i \in 1..Len(parsed) /\ j \in 1..Len(parsed) /\ i \in 1..3 /\ j \in 1..3
        BY <2>1
    <2>3. parsed[i] = Parse(text[i]) /\ parsed[j] = Parse(text[j])
        BY <2>2 DEF ParsedInOrder
    <2>4. CASE grammar = "semver"
        <3>1. text[i] \in SemverText /\ text[j] \in SemverText
            BY <2>2, <2>4 DEF ParsedInOrder, ParsedWell
        <3>2. /\ Len(text[i].numbers) = 3 /\ StandardTail(text[i].tail)
              /\ Len(text[j].numbers) = 3 /\ StandardTail(text[j].tail)
            BY <2>4 DEF Standard, StandardTail
        <3> QED BY <2>3, <2>4, <3>1, <3>2, SemversAgree DEF Compare, Key, Parse
    <2>5. CASE grammar # "semver"
        <3>1. grammar = "pypi" /\ text[i] \in PyPIText /\ text[j] \in PyPIText
            BY <2>2, <2>5 DEF ParsedInOrder, ParsedWell
        <3>2. text[i].legacy = 0 /\ text[j].legacy = 0
            BY <3>1 DEF Standard
        <3> QED BY <2>3, <2>5, <3>1, <3>2, PyPIsAgree DEF Compare, Key, Parse
    <2> QED BY <2>4, <2>5
<1> QED BY <1>1, ParsedInOrderHolds, PTL
=============================================================================
