-------------------------- MODULE ExtractionProofs --------------------------
EXTENDS Extraction, WellFoundedInduction, FiniteSetTheorems, TLAPS

\* The least number principle, and induction for sets of numbers.
LEMMA LeastPlace ==
    ASSUME NEW S, S \subseteq Nat, S # {}
    PROVE  \E i \in S : \A j \in S : i <= j
<1> DEFINE R == OpToRel(<, Nat)
<1>1. IsWellFoundedOn(R, Nat)
    BY NatLessThanWellFounded
<1>2. \A y, x \in Nat : y < x => <<y, x>> \in R
    BY DEF OpToRel
<1> HIDE DEF R
<1>3. PICK x \in S : \A y \in S : ~ (<<y, x>> \in R)
    BY <1>1, WFMin
<1>4. \A y \in S : ~(y < x)
    BY <1>2, <1>3
<1>5. \A y \in Nat : x \in Nat /\ ~(y < x) => x <= y
    OBVIOUS
<1> QED BY <1>4, <1>5

LEMMA SetInduction ==
    ASSUME NEW S, S \subseteq Nat, 0 \in S, \A n \in S : n + 1 \in S
    PROVE  S = Nat
<1> SUFFICES ASSUME Nat \ S # {} PROVE FALSE
    OBVIOUS
<1>1. PICK i \in Nat \ S : \A j \in Nat \ S : i <= j
    BY LeastPlace
<1>2. i # 0 /\ i - 1 \in Nat /\ i - 1 \in S
    BY <1>1
<1> QED BY <1>1, <1>2

LEMMA SeqIs ==
    ASSUME NEW s
    PROVE  /\ IsSeq(s) => /\ Len(s) \in Nat
                          /\ DOMAIN s = 1..Len(s)
                          /\ s = [i \in 1..Len(s) |-> s[i]]
           /\ \A n \in Nat : s = [i \in 1..n |-> s[i]] => IsSeq(s) /\ Len(s) = n
<1>1. ASSUME NEW n \in Nat, s = [i \in 1..n |-> s[i]]
      PROVE  IsSeq(s) /\ Len(s) = n
    <2>1. s \in [1..n -> Range(s)]
        BY <1>1 DEF Range
    <2>2. s \in Seq(Range(s))
        BY <2>1
    <2> QED BY <1>1, <2>2 DEF IsSeq
<1> QED BY <1>1 DEF IsSeq

LEMMA SeqOver ==
    ASSUME NEW s, IsSeq(s), NEW V, Range(s) \subseteq V
    PROVE  s \in Seq(V)
<1>1. s \in [1..Len(s) -> V]
    BY SeqIs DEF Range
<1> QED BY <1>1, SeqIs

LEMMA InSeq ==
    ASSUME NEW V, NEW s \in Seq(V)
    PROVE  IsSeq(s) /\ Range(s) \subseteq V
<1>1. s = [i \in 1..Len(s) |-> s[i]] /\ Len(s) \in Nat
    OBVIOUS
<1> QED BY <1>1, SeqIs DEF Range

LEMMA EmptyRange == Range(<<>>) = {}
<1>1. DOMAIN <<>> = {}
    OBVIOUS
<1> QED BY <1>1 DEF Range

LEMMA EmptyIsSeq == IsSeq(<<>>)
<1>1. <<>> \in Seq({})
    OBVIOUS
<1> QED BY <1>1, EmptyRange DEF IsSeq

LEMMA AppendSeq ==
    ASSUME NEW s, IsSeq(s), NEW x
    PROVE  /\ IsSeq(Append(s, x)) /\ Range(Append(s, x)) = Range(s) \cup {x}
           /\ Len(Append(s, x)) = Len(s) + 1
           /\ Append(s, x)[Len(s) + 1] = x
           /\ \A i \in 1..Len(s) : Append(s, x)[i] = s[i]
<1> DEFINE V == Range(s) \cup {x}
<1>1. s \in Seq(V)
    BY SeqOver
<1>2. x \in V
    OBVIOUS
<1> HIDE DEF V
<1>3. /\ Append(s, x) \in Seq(V) /\ Len(Append(s, x)) = Len(s) + 1
      /\ Append(s, x)[Len(s) + 1] = x
      /\ \A i \in 1..Len(s) : Append(s, x)[i] = s[i]
    BY <1>1, <1>2
<1>4. IsSeq(Append(s, x))
    BY <1>3, InSeq
<1>5. Range(Append(s, x)) = Range(s) \cup {x}
    <2>1. DOMAIN Append(s, x) = 1..Len(s) + 1 /\ DOMAIN s = 1..Len(s) /\ Len(s) \in Nat
        BY <1>3, <1>4, SeqIs
    <2> QED BY <1>3, <2>1 DEF Range
<1> QED BY <1>3, <1>4, <1>5

LEMMA ConcatSeq ==
    ASSUME NEW s, NEW t, IsSeq(s), IsSeq(t)
    PROVE  IsSeq(s \o t) /\ Range(s \o t) = Range(s) \cup Range(t)
<1> DEFINE V == Range(s) \cup Range(t)
<1>1. s \in Seq(V) /\ t \in Seq(V)
    BY SeqOver
<1> HIDE DEF V
<1>2. /\ s \o t \in Seq(V) /\ Len(s \o t) = Len(s) + Len(t)
      /\ \A i \in 1..Len(s) : (s \o t)[i] = s[i]
      /\ \A i \in 1..Len(t) : (s \o t)[Len(s) + i] = t[i]
    BY <1>1
<1>3. IsSeq(s \o t)
    BY <1>2, InSeq
<1>4. /\ DOMAIN (s \o t) = 1..Len(s) + Len(t)
      /\ DOMAIN s = 1..Len(s) /\ DOMAIN t = 1..Len(t)
      /\ Len(s) \in Nat /\ Len(t) \in Nat
    BY <1>2, <1>3, SeqIs
<1>5. Range(s \o t) \subseteq Range(s) \cup Range(t)
    <2> SUFFICES ASSUME NEW i \in 1..Len(s) + Len(t)
                 PROVE  (s \o t)[i] \in Range(s) \cup Range(t)
        BY <1>4 DEF Range
    <2>1. CASE i <= Len(s)
        BY <1>2, <1>4, <2>1 DEF Range
    <2>2. CASE i > Len(s)
        <3>1. i - Len(s) \in 1..Len(t) /\ Len(s) + (i - Len(s)) = i
            BY <1>4, <2>2
        <3> QED BY <1>2, <1>4, <3>1 DEF Range
    <2> QED BY <1>4, <2>1, <2>2
<1>6. Range(s) \cup Range(t) \subseteq Range(s \o t)
    <2>1. \A i \in 1..Len(s) : i \in 1..Len(s) + Len(t)
        BY <1>4
    <2>2. \A i \in 1..Len(t) : Len(s) + i \in 1..Len(s) + Len(t)
        BY <1>4
    <2> QED BY <1>2, <1>4, <2>1, <2>2 DEF Range
<1> QED BY <1>3, <1>5, <1>6

-----------------------------------------------------------------------------
(* The helpers of Manifests.                                                *)

\* A recursive function over the places of a sequence exists.
LEMMA PickedByStep ==
    ASSUME NEW found, IsSeq(found), NEW places
    PROVE  \E picked :
              /\ picked[0] = <<>>
              /\ \A n \in 1..Len(found) :
                    picked[n] = IF n \in places THEN Append(picked[n - 1], found[n])
                                ELSE picked[n - 1]
              /\ Picked(found, places) = picked[Len(found)]
<1> DEFINE Next(p, n) == IF n \in places THEN Append(p, found[n]) ELSE p
           Upto(m, g) == g = [n \in 0..m |-> IF n = 0 THEN <<>> ELSE Next(g[n - 1], n)]
           S == {m \in Nat : \E g : Upto(m, g)}
<1>1. 0 \in S
    <2> DEFINE g == [n \in 0..0 |-> <<>>]
    <2>1. g = [n \in 0..0 |-> IF n = 0 THEN <<>> ELSE Next(g[n - 1], n)]
        OBVIOUS
    <2> QED BY <2>1
<1>2. ASSUME NEW m \in S PROVE m + 1 \in S
    <2>1. PICK g : Upto(m, g)
        OBVIOUS
    <2> HIDE DEF Next
    <2> DEFINE h == [n \in 0..m + 1 |-> IF n = m + 1 THEN Next(g[m], m + 1) ELSE g[n]]
    <2>2. ASSUME NEW n \in 0..m + 1
          PROVE  h[n] = IF n = 0 THEN <<>> ELSE Next(h[n - 1], n)
        <3>1. CASE n = m + 1
            BY <3>1
        <3>2. CASE n \in 0..m
            BY <2>1, <3>2
        <3> QED BY <3>1, <3>2
    <2>3. Upto(m + 1, h)
        BY <2>2
    <2>4. \E q : Upto(m + 1, q)
        BY <2>3
    <2> HIDE DEF Upto
    <2> QED BY <2>4
<1>3. S = Nat
    <2> HIDE DEF S
    <2> QED BY <1>1, <1>2, SetInduction DEF S
<1>4. Len(found) \in S
    BY <1>3, SeqIs
<1>5. PICK g : Upto(Len(found), g)
    BY <1>4
<1> DEFINE picked == CHOOSE h : Upto(Len(found), h)
<1>6. Upto(Len(found), picked)
    BY <1>5
<1>7. Picked(found, places) = picked[Len(found)]
    BY DEF Picked
<1> HIDE DEF picked
<1>8. Len(found) \in Nat
    BY SeqIs
<1>9. picked[0] = <<>>
    BY <1>6, <1>8
<1>10. ASSUME NEW n \in 1..Len(found)
       PROVE  picked[n] = Next(picked[n - 1], n)
    <2>1. n \in 0..Len(found) /\ n # 0
        BY <1>8
    <2> HIDE DEF Next
    <2> QED BY <1>6, <2>1
<1> QED BY <1>7, <1>9, <1>10

\* What is picked is a sequence of what stands at those places.
LEMMA PickedIs ==
    ASSUME NEW found, IsSeq(found), NEW places
    PROVE  /\ IsSeq(Picked(found, places))
           /\ Range(Picked(found, places)) = {found[i] : i \in DOMAIN found \cap places}
<1>1. PICK picked :
          /\ picked[0] = <<>>
          /\ \A n \in 1..Len(found) :
                picked[n] = IF n \in places THEN Append(picked[n - 1], found[n])
                            ELSE picked[n - 1]
          /\ Picked(found, places) = picked[Len(found)]
    BY PickedByStep
<1> DEFINE Good(n) == /\ IsSeq(picked[n])
                      /\ Range(picked[n]) = {found[i] : i \in (1..n) \cap places}
           S == {n \in Nat : n <= Len(found) => Good(n)}
<1>2. Len(found) \in Nat /\ DOMAIN found = 1..Len(found)
    BY SeqIs
<1>3. 0 \in S
    <2>1. (1..0) \cap places = {}
        OBVIOUS
    <2> QED BY <1>1, <2>1, EmptyIsSeq, EmptyRange
<1>4. ASSUME NEW m \in S PROVE m + 1 \in S
    <2> SUFFICES ASSUME m + 1 <= Len(found) PROVE Good(m + 1)
        OBVIOUS
    <2>1. Good(m)
        BY <1>2
    <2>2. m + 1 \in 1..Len(found) /\ (m + 1) - 1 = m
        BY <1>2
    <2>3. picked[m + 1] = IF m + 1 \in places THEN Append(picked[m], found[m + 1]) ELSE picked[m]
        BY <1>1, <2>2
    <2>4. 1..m + 1 = (1..m) \cup {m + 1}
        OBVIOUS
    <2>5. CASE m + 1 \in places
        BY <2>1, <2>3, <2>4, <2>5, AppendSeq
    <2>6. CASE m + 1 \notin places
        BY <2>1, <2>3, <2>4, <2>6
    <2> QED BY <2>5, <2>6
<1>5. S = Nat
    <2> HIDE DEF Good
    <2>1. S \subseteq Nat
        OBVIOUS
    <2> HIDE DEF S
    <2> QED BY <1>3, <1>4, <2>1, SetInduction
<1>6. Good(Len(found))
    <2> HIDE DEF Good
    <2>1. Len(found) \in S
        BY <1>2, <1>5
    <2> QED BY <1>2, <2>1
<1> QED BY <1>1, <1>2, <1>6

\* A non-empty set of places of a sequence has a first one.
LEMMA FirstPlace ==
    ASSUME NEW S, S \subseteq Nat, S # {}
    PROVE  Min(S) \in S /\ \A i \in S : Min(S) <= i
BY LeastPlace DEF Min

\* And, if it is bounded, a last one.
LEMMA LastPlace ==
    ASSUME NEW S, NEW N \in Nat, S \subseteq 0..N, S # {}
    PROVE  Max(S) \in S /\ \A i \in S : i <= Max(S)
<1> DEFINE T == {N - i : i \in S}
<1>1. T \subseteq Nat /\ T # {}
    <2>1. \A i \in S : i \in 0..N /\ N - i \in Nat
        OBVIOUS
    <2>2. T \subseteq Nat
        BY <2>1
    <2>3. PICK i : i \in S
        OBVIOUS
    <2>4. N - i \in T
        BY <2>3
    <2> QED BY <2>2, <2>4
<1>2. PICK k \in T : \A j \in T : k <= j
    BY <1>1, LeastPlace
<1>3. PICK m \in S : k = N - m
    OBVIOUS
<1>4. \A i \in S : N - m <= N - i
    BY <1>2, <1>3
<1>5. ASSUME NEW i \in S PROVE m >= i
    <2>1. m \in 0..N /\ i \in 0..N /\ N - m <= N - i
        BY <1>4
    <2> QED BY <2>1
<1>6. Max(S) \in S /\ \A i \in S : Max(S) >= i
    BY <1>5 DEF Max
<1> QED BY <1>6

\* FlattenSeq, from the left.
LEMMA FlattenByStep ==
    ASSUME NEW seqs, IsSeq(seqs), Len(seqs) # 0
    PROVE  \E flat :
              /\ flat[1] = seqs[1]
              /\ \A n \in 2..Len(seqs) : flat[n] = flat[n - 1] \o seqs[n]
              /\ FlattenSeq(seqs) = flat[Len(seqs)]
<1> DEFINE Upto(m, g) == g = [n \in 1..m |-> IF n = 1 THEN seqs[n] ELSE g[n - 1] \o seqs[n]]
           S == {m \in Nat : \E g : Upto(m + 1, g)}
<1>1. 0 \in S
    <2> DEFINE g == [n \in 1..1 |-> seqs[n]]
    <2>1. g = [n \in 1..1 |-> IF n = 1 THEN seqs[n] ELSE g[n - 1] \o seqs[n]]
        OBVIOUS
    <2>2. \E q : Upto(1, q)
        BY <2>1
    <2>3. 0 + 1 = 1
        OBVIOUS
    <2> HIDE DEF Upto
    <2> QED BY <2>2, <2>3
<1>2. ASSUME NEW m \in S PROVE m + 1 \in S
    <2>1. PICK g : Upto(m + 1, g)
        OBVIOUS
    <2> DEFINE h == [n \in 1..(m + 1) + 1 |->
                        IF n = m + 2 THEN g[m + 1] \o seqs[m + 2] ELSE g[n]]
    <2>2. ASSUME NEW n \in 1..(m + 1) + 1
          PROVE  h[n] = IF n = 1 THEN seqs[n] ELSE h[n - 1] \o seqs[n]
        <3>1. CASE n = m + 2
            <4>1. n # 1 /\ n - 1 = m + 1 /\ m + 1 \in 1..(m + 1) + 1 /\ m + 1 # m + 2
                BY <3>1
            <4>2. h[n] = g[m + 1] \o seqs[m + 2] /\ h[m + 1] = g[m + 1]
                BY <3>1, <4>1
            <4> QED BY <3>1, <4>1, <4>2
        <3>2. CASE n \in 1..m + 1
            <4>1. h[n] = g[n] /\ (n # 1 => n - 1 \in 1..m + 1 /\ h[n - 1] = g[n - 1])
                BY <3>2
            <4>2. g[n] = IF n = 1 THEN seqs[n] ELSE g[n - 1] \o seqs[n]
                BY <2>1, <3>2
            <4> QED BY <4>1, <4>2
        <3> QED BY <3>1, <3>2
    <2>3. Upto((m + 1) + 1, h)
        BY <2>2
    <2>4. \E q : Upto((m + 1) + 1, q)
        BY <2>3
    <2> HIDE DEF Upto
    <2> QED BY <2>4
<1>3. S = Nat
    <2>1. S \subseteq Nat
        OBVIOUS
    <2> HIDE DEF S
    <2> QED BY <1>1, <1>2, <2>1, SetInduction
<1>4. Len(seqs) - 1 \in Nat /\ Len(seqs) \in Nat \ {0}
    BY SeqIs
<1>5. \E g : Upto(Len(seqs), g)
    <2>1. (Len(seqs) - 1) + 1 = Len(seqs)
        BY <1>4
    <2> HIDE DEF Upto
    <2>2. \E g : Upto((Len(seqs) - 1) + 1, g)
        BY <1>3, <1>4
    <2> QED BY <2>1, <2>2
<1> DEFINE flat == CHOOSE g : Upto(Len(seqs), g)
<1>6. Upto(Len(seqs), flat)
    BY <1>5
<1>7. FlattenSeq(seqs) = flat[Len(seqs)]
    BY DEF FlattenSeq
<1> HIDE DEF flat
<1>8. flat[1] = seqs[1]
    BY <1>4, <1>6
<1>9. ASSUME NEW n \in 2..Len(seqs)
      PROVE  flat[n] = flat[n - 1] \o seqs[n]
    <2>1. n \in 1..Len(seqs) /\ n # 1
        BY <1>4
    <2> QED BY <1>6, <2>1
<1> QED BY <1>7, <1>8, <1>9

\* What flattening gives has the elements of all of them.
LEMMA FlattenIs ==
    ASSUME NEW seqs, IsSeq(seqs), \A i \in DOMAIN seqs : IsSeq(seqs[i])
    PROVE  /\ IsSeq(FlattenSeq(seqs))
           /\ Range(FlattenSeq(seqs)) = UNION {Range(seqs[i]) : i \in DOMAIN seqs}
<1>1. Len(seqs) \in Nat /\ DOMAIN seqs = 1..Len(seqs)
    BY SeqIs
<1>2. CASE Len(seqs) = 0
    <2>1. DOMAIN seqs = {} /\ FlattenSeq(seqs) = seqs
        BY <1>1, <1>2 DEF FlattenSeq
    <2> QED BY <2>1 DEF Range
<1>3. CASE Len(seqs) # 0
    <2>1. PICK flat :
              /\ flat[1] = seqs[1]
              /\ \A n \in 2..Len(seqs) : flat[n] = flat[n - 1] \o seqs[n]
              /\ FlattenSeq(seqs) = flat[Len(seqs)]
        BY <1>3, FlattenByStep
    <2> DEFINE Good(n) == /\ IsSeq(flat[n])
                          /\ Range(flat[n]) = UNION {Range(seqs[i]) : i \in 1..n}
               S == {n \in Nat : n + 1 <= Len(seqs) => Good(n + 1)}
    <2>2. 0 \in S
        <3>1. 1..0 + 1 = {1} /\ 1 \in DOMAIN seqs
            BY <1>1, <1>3
        <3>2. UNION {Range(seqs[i]) : i \in {1}} = Range(seqs[1])
            OBVIOUS
        <3> QED BY <2>1, <3>1, <3>2
    <2>3. ASSUME NEW m \in S PROVE m + 1 \in S
        <3> SUFFICES ASSUME (m + 1) + 1 <= Len(seqs) PROVE Good((m + 1) + 1)
            OBVIOUS
        <3>1. Good(m + 1)
            BY <1>1
        <3>2. m + 2 \in 2..Len(seqs) /\ (m + 2) - 1 = m + 1 /\ (m + 1) + 1 = m + 2
            BY <1>1
        <3>3. flat[m + 2] = flat[m + 1] \o seqs[m + 2] /\ IsSeq(seqs[m + 2])
            <4>1. flat[m + 2] = flat[(m + 2) - 1] \o seqs[m + 2]
                BY <2>1, <3>2
            <4>2. m + 2 \in DOMAIN seqs
                BY <1>1, <3>2
            <4> QED BY <3>2, <4>1, <4>2
        <3>4. 1..m + 2 = (1..m + 1) \cup {m + 2}
            OBVIOUS
        <3>5. IsSeq(flat[m + 2]) /\ Range(flat[m + 2]) = Range(flat[m + 1]) \cup Range(seqs[m + 2])
            BY <3>1, <3>3, ConcatSeq
        <3>6. UNION {Range(seqs[i]) : i \in 1..m + 2}
                = (UNION {Range(seqs[i]) : i \in 1..m + 1}) \cup Range(seqs[m + 2])
            BY <3>4
        <3> QED BY <3>1, <3>2, <3>5, <3>6
    <2>4. S = Nat
        <3>1. S \subseteq Nat
            OBVIOUS
        <3> HIDE DEF S
        <3> QED BY <2>2, <2>3, <3>1, SetInduction
    <2>5. Good(Len(seqs))
        <3> HIDE DEF Good
        <3>1. Len(seqs) - 1 \in Nat /\ (Len(seqs) - 1) + 1 = Len(seqs)
            BY <1>1, <1>3
        <3>2. Len(seqs) - 1 \in S
            BY <2>4, <3>1
        <3> QED BY <1>1, <3>1, <3>2
    <2> QED BY <1>1, <2>1, <2>5
<1> QED BY <1>2, <1>3

LEMMA ListedByStep ==
    ASSUME NEW T, IsFiniteSet(T)
    PROVE  \E listed :
              /\ listed[0] = <<>>
              /\ \A n \in 1..Cardinality(T) : listed[n] = WithAnother(listed[n - 1], T)
              /\ Listed(T) = listed[Cardinality(T)]
<1> DEFINE Upto(m, g) == g = [n \in 0..m |-> IF n = 0 THEN <<>> ELSE WithAnother(g[n - 1], T)]
           S == {m \in Nat : \E g : Upto(m, g)}
<1>1. 0 \in S
    <2> DEFINE g == [n \in 0..0 |-> <<>>]
    <2>1. g = [n \in 0..0 |-> IF n = 0 THEN <<>> ELSE WithAnother(g[n - 1], T)]
        OBVIOUS
    <2> QED BY <2>1
<1>2. ASSUME NEW m \in S PROVE m + 1 \in S
    <2>1. PICK g : Upto(m, g)
        OBVIOUS
    <2> DEFINE h == [n \in 0..m + 1 |-> IF n = m + 1 THEN WithAnother(g[m], T) ELSE g[n]]
    <2>2. ASSUME NEW n \in 0..m + 1
          PROVE  h[n] = IF n = 0 THEN <<>> ELSE WithAnother(h[n - 1], T)
        <3>1. CASE n = m + 1
            BY <3>1
        <3>2. CASE n \in 0..m
            BY <2>1, <3>2
        <3> QED BY <3>1, <3>2
    <2>3. Upto(m + 1, h)
        BY <2>2
    <2>4. \E q : Upto(m + 1, q)
        BY <2>3
    <2> HIDE DEF Upto
    <2> QED BY <2>4
<1>3. S = Nat
    <2>1. S \subseteq Nat
        OBVIOUS
    <2> HIDE DEF S
    <2> QED BY <1>1, <1>2, <2>1, SetInduction
<1>4. Cardinality(T) \in Nat
    BY FS_CardinalityType
<1>5. \E g : Upto(Cardinality(T), g)
    BY <1>3, <1>4
<1> DEFINE listed == CHOOSE g : Upto(Cardinality(T), g)
<1>6. Upto(Cardinality(T), listed)
    BY <1>5
<1>7. Listed(T) = listed[Cardinality(T)]
    BY DEF Listed
<1> HIDE DEF listed
<1>8. listed[0] = <<>>
    BY <1>4, <1>6
<1>9. ASSUME NEW n \in 1..Cardinality(T)
      PROVE  listed[n] = WithAnother(listed[n - 1], T)
    <2>1. n \in 0..Cardinality(T) /\ n # 0
        BY <1>4
    <2> QED BY <1>6, <2>1
<1> QED BY <1>7, <1>8, <1>9

\* A finite set is listed in full.
LEMMA ListedIs ==
    ASSUME NEW T, IsFiniteSet(T)
    PROVE  IsSeq(Listed(T)) /\ Range(Listed(T)) = T
<1>1. PICK listed :
          /\ listed[0] = <<>>
          /\ \A n \in 1..Cardinality(T) : listed[n] = WithAnother(listed[n - 1], T)
          /\ Listed(T) = listed[Cardinality(T)]
    BY ListedByStep
<1> DEFINE Good(n) == /\ IsSeq(listed[n])
                      /\ Range(listed[n]) \subseteq T
                      /\ Cardinality(Range(listed[n])) = n
           S == {n \in Nat : n <= Cardinality(T) => Good(n)}
<1>2. Cardinality(T) \in Nat
    BY FS_CardinalityType
<1>3. 0 \in S
    <2>1. Cardinality({}) = 0
        BY FS_EmptySet
    <2> QED BY <1>1, <2>1, EmptyIsSeq, EmptyRange
<1>4. ASSUME NEW m \in S PROVE m + 1 \in S
    <2> SUFFICES ASSUME m + 1 <= Cardinality(T) PROVE Good(m + 1)
        OBVIOUS
    <2>1. Good(m)
        BY <1>2
    <2>2. m + 1 \in 1..Cardinality(T) /\ (m + 1) - 1 = m /\ m # Cardinality(T)
        BY <1>2
    <2> DEFINE so == Range(listed[m])
               x == CHOOSE y \in T \ ToSet(listed[m]) : TRUE
    <2>3. listed[m + 1] = Append(listed[m], x)
        BY <1>1, <2>2 DEF WithAnother
    <2>4. ToSet(listed[m]) = so
        BY DEF Range, ToSet
    <2>5. T \ so # {}
        <3>1. Cardinality(so) # Cardinality(T) /\ so \subseteq T
            BY <2>1, <2>2
        <3>2. so # T
            BY <3>1
        <3> HIDE DEF so
        <3> QED BY <3>1, <3>2
    <2>6. x \in T \ so
        BY <2>4, <2>5
    <2> HIDE DEF x
    <2>7. IsSeq(listed[m + 1]) /\ Range(listed[m + 1]) = so \cup {x}
        BY <2>1, <2>3, AppendSeq
    <2>8. IsFiniteSet(so)
        BY <2>1, FS_Subset
    <2>9. Cardinality(so \cup {x}) = m + 1
        BY <2>1, <2>6, <2>8, FS_AddElement
    <2>10. Range(listed[m + 1]) \subseteq T
        BY <2>1, <2>6, <2>7
    <2> QED BY <2>7, <2>9, <2>10
<1>5. S = Nat
    <2> HIDE DEF Good
    <2>1. S \subseteq Nat
        OBVIOUS
    <2> HIDE DEF S
    <2> QED BY <1>3, <1>4, <2>1, SetInduction
<1>6. Good(Cardinality(T))
    <2> HIDE DEF Good
    <2>1. Cardinality(T) \in S
        BY <1>2, <1>5
    <2> QED BY <1>2, <2>1
<1>7. Range(listed[Cardinality(T)]) = T
    BY <1>6, FS_Subset
<1> QED BY <1>1, <1>6, <1>7

-----------------------------------------------------------------------------
(* reconcile(): what becomes of a sequence of reports.                      *)

\* A sighting has its fields, and a depth.
IsSighting(s) ==
    /\ s = [key |-> s.key, version |-> s.version, evidence |-> s.evidence,
            declared |-> s.declared, groups |-> s.groups, from_range |-> s.from_range,
            depth |-> s.depth, editable |-> s.editable]
    /\ s.depth \in Nat

\* All that was pushed of one kind, and the groups that makes.
Fellows(pushed, k) == {p \in pushed : Kind(p) = Kind(k)}
GroupsOf(reports) ==
    IF \E p \in reports : p.groups = {} THEN {} ELSE UNION {p.groups : p \in reports}

\* kept is what reconcile() makes of what was pushed: one of each kind, as near
\* as any of the kind, and in the groups that all of them are in.
Reconciled(kept, pushed) ==
    /\ IsSeq(kept)
    /\ \A i, j \in DOMAIN kept : Kind(kept[i]) = Kind(kept[j]) => i = j
    /\ \A p \in pushed : \E i \in DOMAIN kept : Kind(kept[i]) = Kind(p)
    /\ \A i \in DOMAIN kept :
          /\ IsSighting(kept[i])
          /\ \E p \in pushed : Kind(p) = Kind(kept[i]) /\ kept[i] = [p EXCEPT !.groups = kept[i].groups]
          /\ kept[i].groups = GroupsOf(Fellows(pushed, kept[i]))
          /\ \A p \in Fellows(pushed, kept[i]) : kept[i].depth <= p.depth

LEMMA SightingRegrouped ==
    ASSUME NEW s, IsSighting(s), NEW h
    PROVE  [s EXCEPT !.groups = h] =
               [key |-> s.key, version |-> s.version, evidence |-> s.evidence,
                declared |-> s.declared, groups |-> h, from_range |-> s.from_range,
                depth |-> s.depth, editable |-> s.editable]
<1>1. s = [key |-> s.key, version |-> s.version, evidence |-> s.evidence,
           declared |-> s.declared, groups |-> s.groups, from_range |-> s.from_range,
           depth |-> s.depth, editable |-> s.editable]
    BY DEF IsSighting
<1> QED BY <1>1

LEMMA Regrouped ==
    ASSUME NEW s, IsSighting(s), NEW g, NEW r, r = [s EXCEPT !.groups = g]
    PROVE  /\ IsSighting(r) /\ Kind(r) = Kind(s) /\ r.groups = g /\ r.depth = s.depth
           /\ r.evidence = s.evidence /\ r.key = s.key /\ r.version = s.version
           /\ r.declared = s.declared
           /\ \A h : [r EXCEPT !.groups = h] = [s EXCEPT !.groups = h]
<1>1. s = [key |-> s.key, version |-> s.version, evidence |-> s.evidence,
           declared |-> s.declared, groups |-> s.groups, from_range |-> s.from_range,
           depth |-> s.depth, editable |-> s.editable]
    BY DEF IsSighting
<1>2. r = [key |-> s.key, version |-> s.version, evidence |-> s.evidence,
           declared |-> s.declared, groups |-> g, from_range |-> s.from_range,
           depth |-> s.depth, editable |-> s.editable]
    BY <1>1
<1>3. /\ r.groups = g /\ r.depth = s.depth /\ r.evidence = s.evidence /\ r.key = s.key
      /\ r.version = s.version /\ r.declared = s.declared /\ r.from_range = s.from_range
      /\ r.editable = s.editable
    BY <1>2
<1>4. IsSighting(r)
    BY <1>2, <1>3 DEF IsSighting
<1>5. Kind(r) = Kind(s)
    BY <1>3 DEF Kind, AnchorDir, AnchorSite
<1>6. ASSUME NEW h
      PROVE  [r EXCEPT !.groups = h] = [s EXCEPT !.groups = h]
    <2> DEFINE R == [key |-> s.key, version |-> s.version, evidence |-> s.evidence,
                     declared |-> s.declared, groups |-> h, from_range |-> s.from_range,
                     depth |-> s.depth, editable |-> s.editable]
    <2>1. [s EXCEPT !.groups = h] = R
        BY SightingRegrouped
    <2>2. \A q : IsSighting(q) => [q EXCEPT !.groups = h] =
              [key |-> q.key, version |-> q.version, evidence |-> q.evidence,
               declared |-> q.declared, groups |-> h, from_range |-> q.from_range,
               depth |-> q.depth, editable |-> q.editable]
        BY SightingRegrouped
    <2>3. [r EXCEPT !.groups = h] = R
        BY <1>3, <1>4, <2>2, Zenon
    <2> QED BY <2>1, <2>3
<1> QED BY <1>3, <1>4, <1>5, <1>6

\* One more push to what is reconciled.
LEMMA PushedReconciles ==
    ASSUME NEW kept, NEW pushed, Reconciled(kept, pushed),
           \A p \in pushed : IsSighting(p), NEW s, IsSighting(s)
    PROVE  Reconciled(Pushed(kept, s), pushed \cup {s})
<1> DEFINE same == {i \in DOMAIN kept : Kind(kept[i]) = Kind(s)}
           K == Pushed(kept, s)
<1>0. IsSeq(kept) /\ Len(kept) \in Nat /\ DOMAIN kept = 1..Len(kept)
    BY SeqIs DEF Reconciled
<1>1. CASE same = {}
    <2>1. K = Append(kept, s)
        BY <1>1 DEF Pushed
    <2>2. /\ IsSeq(K) /\ DOMAIN K = 1..Len(kept) + 1
          /\ K[Len(kept) + 1] = s
          /\ \A i \in 1..Len(kept) : K[i] = kept[i]
        BY <1>0, <2>1, AppendSeq, SeqIs
    <2>3. \A i \in DOMAIN K : i \in DOMAIN kept \/ i = Len(kept) + 1
        BY <1>0, <2>2
    <2>4. \A i \in DOMAIN kept : i \in DOMAIN K /\ K[i] = kept[i] /\ Kind(kept[i]) # Kind(s)
        BY <1>0, <1>1, <2>2
    <2>5. \A p \in pushed : Kind(p) # Kind(s)
        BY <2>4 DEF Reconciled
    <2>6. Fellows(pushed \cup {s}, s) = {s}
        BY <2>5 DEF Fellows
    <2>7. \A i \in DOMAIN kept : Fellows(pushed \cup {s}, kept[i]) = Fellows(pushed, kept[i])
        BY <2>4 DEF Fellows
    <2>8. GroupsOf({s}) = s.groups
        BY DEF GroupsOf
    <2>9. s = [s EXCEPT !.groups = s.groups] /\ s.depth <= s.depth
        BY DEF IsSighting
    <2>10. \A i, j \in DOMAIN K : Kind(K[i]) = Kind(K[j]) => i = j
        BY <2>2, <2>3, <2>4 DEF Reconciled
    <2>11. \A p \in pushed \cup {s} : \E i \in DOMAIN K : Kind(K[i]) = Kind(p)
        <3>1. Len(kept) + 1 \in DOMAIN K
            BY <1>0, <2>2
        <3> QED BY <2>2, <2>4, <3>1 DEF Reconciled
    <2>12. ASSUME NEW i \in DOMAIN K
           PROVE  /\ IsSighting(K[i])
                  /\ \E p \in pushed \cup {s} :
                        Kind(p) = Kind(K[i]) /\ K[i] = [p EXCEPT !.groups = K[i].groups]
                  /\ K[i].groups = GroupsOf(Fellows(pushed \cup {s}, K[i]))
                  /\ \A p \in Fellows(pushed \cup {s}, K[i]) : K[i].depth <= p.depth
        <3>1. CASE i \in DOMAIN kept
            BY <2>4, <2>7, <3>1 DEF Reconciled
        <3>2. CASE i = Len(kept) + 1
            BY <2>2, <2>6, <2>8, <2>9, <3>2
        <3> QED BY <2>3, <3>1, <3>2
    <2> QED BY <2>2, <2>10, <2>11, <2>12 DEF Reconciled
<1>2. CASE same # {}
    <2>1. K = [i \in DOMAIN kept |-> IF i \in same THEN Merged(kept[i], s) ELSE kept[i]]
        BY <1>2 DEF Pushed
    <2> HIDE DEF K
    <2>2. IsSeq(K) /\ DOMAIN K = DOMAIN kept
        BY <1>0, <2>1, SeqIs
    <2>3. ASSUME NEW i \in same
          PROVE  /\ IsSighting(K[i]) /\ Kind(K[i]) = Kind(s)
                 /\ \E p \in pushed \cup {s} :
                        Kind(p) = Kind(s) /\ K[i] = [p EXCEPT !.groups = K[i].groups]
                 /\ K[i].groups = GroupsOf(Fellows(pushed \cup {s}, s))
                 /\ \A p \in Fellows(pushed \cup {s}, s) : K[i].depth <= p.depth
        <3> DEFINE old == kept[i]
                   g == MergedGroups(old.groups, s.groups)
        <3>1. K[i] = Merged(old, s) /\ Kind(old) = Kind(s) /\ IsSighting(old)
            BY <2>1 DEF Reconciled
        <3>2. PICK p \in pushed : Kind(p) = Kind(s) /\ old = [p EXCEPT !.groups = old.groups]
            BY <3>1 DEF Reconciled
        <3>3. Fellows(pushed, old) = Fellows(pushed, s) /\ p \in Fellows(pushed, s)
            BY <3>1, <3>2 DEF Fellows
        <3>4. /\ old.groups = GroupsOf(Fellows(pushed, s))
              /\ \A q \in Fellows(pushed, s) : old.depth <= q.depth
            BY <3>3 DEF Reconciled
        <3>5. Fellows(pushed \cup {s}, s) = Fellows(pushed, s) \cup {s}
            BY DEF Fellows
        <3>6. g = GroupsOf(Fellows(pushed, s) \cup {s})
            <4> DEFINE F == Fellows(pushed, s)
            <4> HIDE DEF F
            <4>1. CASE \E q \in F : q.groups = {}
                BY <3>4, <4>1 DEF GroupsOf, MergedGroups, F
            <4>2. CASE ~\E q \in F : q.groups = {}
                <5>1. old.groups = UNION {q.groups : q \in F} /\ p \in F
                    BY <3>3, <3>4, <4>2 DEF GroupsOf, F
                <5>2. old.groups # {}
                    BY <4>2, <5>1
                <5>3. CASE s.groups = {}
                    BY <5>3 DEF GroupsOf, MergedGroups, F
                <5>4. CASE s.groups # {}
                    <6>1. g = old.groups \cup s.groups
                        BY <5>2, <5>4 DEF MergedGroups
                    <6>2. GroupsOf(F \cup {s}) = UNION {q.groups : q \in F \cup {s}}
                        BY <4>2, <5>4 DEF GroupsOf
                    <6> QED BY <5>1, <6>1, <6>2 DEF F
                <5> QED BY <5>3, <5>4
            <4> QED BY <4>1, <4>2
        <3> DEFINE best == IF Outranks(s, old) THEN s ELSE old
        <3> HIDE DEF g
        <3>7. K[i] = [best EXCEPT !.groups = g]
            BY <3>1 DEF Merged, g
        <3>8. IsSighting(best) /\ Kind(best) = Kind(s)
            BY <3>1
        <3>9. IsSighting(K[i]) /\ Kind(K[i]) = Kind(s) /\ K[i].groups = g /\ K[i].depth = best.depth
            <4> HIDE DEF best
            <4>1. \A r : r = [best EXCEPT !.groups = g] =>
                      /\ IsSighting(r) /\ Kind(r) = Kind(best) /\ r.groups = g
                      /\ r.depth = best.depth
                BY <3>8, Regrouped
            <4> QED BY <3>7, <3>8, <4>1
        <3>10. \E q \in pushed \cup {s} :
                  Kind(q) = Kind(s) /\ K[i] = [q EXCEPT !.groups = K[i].groups]
            <4>1. CASE Outranks(s, old)
                BY <3>7, <3>9, <4>1
            <4>2. CASE ~Outranks(s, old)
                <5>1. IsSighting(p) /\ K[i] = [old EXCEPT !.groups = g]
                    BY <3>7, <4>2
                <5>2. [old EXCEPT !.groups = g] = [p EXCEPT !.groups = g]
                    <6> DEFINE h == old.groups
                    <6> HIDE DEF h
                    <6>1. old = [p EXCEPT !.groups = h]
                        BY <3>2 DEF h
                    <6> QED BY <5>1, <6>1, Regrouped
                <5> QED BY <3>2, <3>9, <5>1, <5>2
            <4> QED BY <4>1, <4>2
        <3>11. best.depth <= old.depth /\ best.depth <= s.depth
            <4>1. old.depth \in Nat /\ s.depth \in Nat
                BY <3>1 DEF IsSighting
            <4>2. CASE Outranks(s, old)
                BY <4>1, <4>2 DEF Outranks
            <4>3. CASE ~Outranks(s, old)
                BY <4>1, <4>3 DEF Outranks
            <4> QED BY <4>2, <4>3
        <3>12. \A q \in Fellows(pushed, s) \cup {s} : K[i].depth <= q.depth
            <4> SUFFICES ASSUME NEW q \in Fellows(pushed, s)
                         PROVE  best.depth <= q.depth
                BY <3>9, <3>11
            <4>1. q.depth \in Nat /\ old.depth \in Nat /\ best.depth \in Nat
                BY <3>1, <3>8 DEF IsSighting, Fellows
            <4> QED BY <3>4, <3>11, <4>1
        <3> QED BY <3>5, <3>6, <3>9, <3>10, <3>12
    <2>4. ASSUME NEW i \in DOMAIN kept, i \notin same
          PROVE  /\ K[i] = kept[i] /\ Kind(K[i]) # Kind(s)
                 /\ Fellows(pushed \cup {s}, K[i]) = Fellows(pushed, kept[i])
        BY <2>1, <2>4 DEF Fellows
    <2>5. \A i \in DOMAIN kept : Kind(K[i]) = Kind(kept[i])
        BY <2>3, <2>4
    <2>6. \A i, j \in DOMAIN K : Kind(K[i]) = Kind(K[j]) => i = j
        BY <2>2, <2>5 DEF Reconciled
    <2>7. \A p \in pushed \cup {s} : \E i \in DOMAIN K : Kind(K[i]) = Kind(p)
        BY <1>2, <2>2, <2>5 DEF Reconciled
    <2>8. ASSUME NEW i \in DOMAIN K
          PROVE  /\ IsSighting(K[i])
                 /\ \E p \in pushed \cup {s} :
                       Kind(p) = Kind(K[i]) /\ K[i] = [p EXCEPT !.groups = K[i].groups]
                 /\ K[i].groups = GroupsOf(Fellows(pushed \cup {s}, K[i]))
                 /\ \A p \in Fellows(pushed \cup {s}, K[i]) : K[i].depth <= p.depth
        <3>1. CASE i \in same
            <4>1. Fellows(pushed \cup {s}, K[i]) = Fellows(pushed \cup {s}, s)
                BY <2>3, <3>1 DEF Fellows
            <4> QED BY <2>3, <3>1, <4>1
        <3>2. CASE i \notin same
            BY <2>2, <2>4, <3>2 DEF Reconciled
        <3> QED BY <3>1, <3>2
    <2>9. Reconciled(K, pushed \cup {s})
        BY <2>2, <2>6, <2>7, <2>8 DEF Reconciled
    <2> QED BY <2>9 DEF K
<1> QED BY <1>1, <1>2

LEMMA KeptByStep ==
    ASSUME NEW pushes, IsSeq(pushes)
    PROVE  \E kept :
              /\ kept[0] = <<>>
              /\ \A n \in 1..Len(pushes) : kept[n] = Pushed(kept[n - 1], pushes[n])
              /\ Kept(pushes) = kept[Len(pushes)]
<1> DEFINE Upto(m, g) ==
               g = [n \in 0..m |-> IF n = 0 THEN <<>> ELSE Pushed(g[n - 1], pushes[n])]
           S == {m \in Nat : \E g : Upto(m, g)}
<1>1. 0 \in S
    <2> DEFINE g == [n \in 0..0 |-> <<>>]
    <2>1. g = [n \in 0..0 |-> IF n = 0 THEN <<>> ELSE Pushed(g[n - 1], pushes[n])]
        OBVIOUS
    <2> QED BY <2>1
<1>2. ASSUME NEW m \in S PROVE m + 1 \in S
    <2>1. PICK g : Upto(m, g)
        OBVIOUS
    <2> DEFINE h == [n \in 0..m + 1 |->
                        IF n = m + 1 THEN Pushed(g[m], pushes[m + 1]) ELSE g[n]]
    <2>2. ASSUME NEW n \in 0..m + 1
          PROVE  h[n] = IF n = 0 THEN <<>> ELSE Pushed(h[n - 1], pushes[n])
        <3>1. CASE n = m + 1
            BY <3>1
        <3>2. CASE n \in 0..m
            BY <2>1, <3>2
        <3> QED BY <3>1, <3>2
    <2>3. Upto(m + 1, h)
        BY <2>2
    <2>4. \E q : Upto(m + 1, q)
        BY <2>3
    <2> HIDE DEF Upto
    <2> QED BY <2>4
<1>3. S = Nat
    <2>1. S \subseteq Nat
        OBVIOUS
    <2> HIDE DEF S
    <2> QED BY <1>1, <1>2, <2>1, SetInduction
<1>4. Len(pushes) \in Nat
    BY SeqIs
<1>5. \E g : Upto(Len(pushes), g)
    BY <1>3, <1>4
<1> DEFINE kept == CHOOSE g : Upto(Len(pushes), g)
<1>6. Upto(Len(pushes), kept)
    BY <1>5
<1>7. Kept(pushes) = kept[Len(pushes)]
    BY DEF Kept
<1> HIDE DEF kept
<1>8. kept[0] = <<>>
    BY <1>4, <1>6
<1>9. ASSUME NEW n \in 1..Len(pushes)
      PROVE  kept[n] = Pushed(kept[n - 1], pushes[n])
    <2>1. n \in 0..Len(pushes) /\ n # 0
        BY <1>4
    <2> QED BY <1>6, <2>1
<1> QED BY <1>7, <1>8, <1>9

\* What is kept of any sequence of reports is those reports, reconciled.
LEMMA KeptIs ==
    ASSUME NEW pushes, IsSeq(pushes), \A p \in Range(pushes) : IsSighting(p)
    PROVE  Reconciled(Kept(pushes), Range(pushes))
<1>1. PICK kept :
          /\ kept[0] = <<>>
          /\ \A n \in 1..Len(pushes) : kept[n] = Pushed(kept[n - 1], pushes[n])
          /\ Kept(pushes) = kept[Len(pushes)]
    BY KeptByStep
<1>2. Len(pushes) \in Nat /\ DOMAIN pushes = 1..Len(pushes)
    BY SeqIs
<1> DEFINE Upto(n) == {pushes[i] : i \in 1..n}
           S == {n \in Nat : n <= Len(pushes) => Reconciled(kept[n], Upto(n))}
<1>3. 0 \in S
    <2>1. Upto(0) = {} /\ DOMAIN <<>> = {}
        OBVIOUS
    <2>2. Reconciled(<<>>, {})
        BY <2>1, EmptyIsSeq DEF Reconciled
    <2> QED BY <1>1, <2>1, <2>2
<1>4. ASSUME NEW m \in S PROVE m + 1 \in S
    <2> SUFFICES ASSUME m + 1 <= Len(pushes) PROVE Reconciled(kept[m + 1], Upto(m + 1))
        OBVIOUS
    <2>1. m + 1 \in 1..Len(pushes) /\ (m + 1) - 1 = m /\ 1..m \subseteq 1..Len(pushes)
          /\ m <= Len(pushes) /\ 1..m + 1 = (1..m) \cup {m + 1}
        BY <1>2
    <2>2. Reconciled(kept[m], Upto(m))
        BY <2>1
    <2>3. kept[m + 1] = Pushed(kept[m], pushes[m + 1])
        BY <1>1, <2>1
    <2>4. Upto(m + 1) = Upto(m) \cup {pushes[m + 1]}
        BY <2>1
    <2>5. IsSighting(pushes[m + 1]) /\ \A p \in Upto(m) : IsSighting(p)
        BY <1>2, <2>1 DEF Range
    <2> HIDE DEF Upto
    <2> QED BY <2>2, <2>3, <2>4, <2>5, PushedReconciles
<1>5. S = Nat
    <2>1. S \subseteq Nat
        OBVIOUS
    <2> HIDE DEF S
    <2> QED BY <1>3, <1>4, <2>1, SetInduction
<1>6. Upto(Len(pushes)) = Range(pushes)
    BY <1>2 DEF Range
<1>7. Reconciled(kept[Len(pushes)], Upto(Len(pushes)))
    <2>1. Len(pushes) \in S
        BY <1>2, <1>5
    <2> HIDE DEF Upto
    <2> QED BY <1>2, <2>1
<1> QED BY <1>1, <1>6, <1>7

-----------------------------------------------------------------------------
(* What a parser makes of a file.                                           *)

\* A function over the places of a sequence is a sequence.
LEMMA MapIs ==
    ASSUME NEW found, IsSeq(found), NEW g, g = [i \in DOMAIN found |-> g[i]]
    PROVE  IsSeq(g) /\ g \o <<>> = g /\ DOMAIN g = DOMAIN found
<1>1. g = [i \in 1..Len(found) |-> g[i]] /\ Len(found) \in Nat
    BY SeqIs
<1>2. IsSeq(g)
    BY <1>1, SeqIs
<1>3. g \o <<>> = g
    BY <1>2, EmptyIsSeq DEF IsSeq
<1> QED BY <1>2, <1>3

LEMMA NumberedIs ==
    ASSUME NEW file, IsSeq(file)
    PROVE  /\ IsSeq(Numbered(file)) /\ DOMAIN Numbered(file) = DOMAIN file
           /\ \A i \in DOMAIN file : Numbered(file)[i] = With(file[i], "line", i)
<1> DEFINE g == [i \in DOMAIN file |-> With(file[i], "line", i)]
<1>1. g = [i \in DOMAIN file |-> g[i]]
    OBVIOUS
<1>2. \A i \in DOMAIN file : g[i] = With(file[i], "line", i)
    OBVIOUS
<1>3. Numbered(file) = g \o <<>>
    BY DEF Numbered
<1> HIDE DEF g
<1> QED BY <1>1, <1>2, <1>3, MapIs

\* The choice of some places of a sequence.
LEMMA PickedSome ==
    ASSUME NEW found, IsSeq(found), NEW places
    PROVE  /\ IsSeq(Picked(found, places))
           /\ \A i \in DOMAIN Picked(found, places) :
                 \E j \in DOMAIN found \cap places : Picked(found, places)[i] = found[j]
           /\ \A j \in DOMAIN found \cap places :
                 \E i \in DOMAIN Picked(found, places) : Picked(found, places)[i] = found[j]
<1>1. /\ IsSeq(Picked(found, places))
      /\ Range(Picked(found, places)) = {found[i] : i \in DOMAIN found \cap places}
    BY PickedIs
<1> QED BY <1>1 DEF Range

\* One that is seen in a file: it is direct, not declared elsewhere, and that
\* file is its evidence.
SeenOf(s, path) ==
    /\ IsSighting(s) /\ s.declared = NoSite /\ s.depth = 0
    /\ s.evidence = <<path, s.evidence[2]>>
AllSeen(found, path) == IsSeq(found) /\ \A i \in DOMAIN found : SeenOf(found[i], path)

LEMMA SightedIs ==
    ASSUME NEW key, NEW version, NEW path, NEW line, NEW groups, NEW ranged, NEW editable
    PROVE  LET s == Sighted(key, version, path, line, groups, ranged, editable) IN
           /\ SeenOf(s, path) /\ s.key = key /\ s.version = version
           /\ s.evidence[2] = line /\ s.from_range = ranged /\ s.editable = editable
    BY DEF Sighted, SeenOf, IsSighting

LEMMA KeyIs ==
    ASSUME NEW eco, NEW name
    PROVE  Key(eco, name).eco = eco
    BY DEF Key

LEMMA InSectionsIs ==
    ASSUME NEW file, IsSeq(file), NEW sections, IsSeq(sections)
    PROVE  IsSeq(InSections(sections, file))
<1> DEFINE g == [s \in DOMAIN sections |-> Where(Numbered(file), LAMBDA d : d.section = sections[s])]
<1>1. \A s \in DOMAIN sections : IsSeq(g[s])
    BY NumberedIs, PickedIs DEF Where
<1>2. g = [s \in DOMAIN sections |-> g[s]]
    OBVIOUS
<1>3. InSections(sections, file) = FlattenSeq(g)
    BY DEF InSections
<1> HIDE DEF g
<1>4. IsSeq(g) /\ DOMAIN g = DOMAIN sections
    BY <1>2, MapIs
<1> QED BY <1>1, <1>3, <1>4, FlattenIs

LEMMA PackageJsonIs ==
    ASSUME NEW file, IsSeq(file), NEW path
    PROVE  /\ AllSeen(PackageJson(file, path), path)
           /\ \A i \in DOMAIN PackageJson(file, path) : PackageJson(file, path)[i].from_range
<1> DEFINE D == Versioned(Declared(file))
           g == [i \in DOMAIN D |-> Sighted(Key("npm", D[i].name), D[i].version, path,
                    D[i].line, NpmGroups(D[i].section), TRUE, ~D[i].escaped)]
<1>1. IsSeq(NpmSections)
    <2>1. NpmSections \in Seq({"dependencies", "optionalDependencies", "peerDependencies",
                               "devDependencies"})
        BY DEF NpmSections
    <2> QED BY <2>1, InSeq
<1>2. IsSeq(D)
    BY <1>1, InSectionsIs, PickedIs DEF Versioned, Where, Declared
<1>3. \A i \in DOMAIN D : SeenOf(g[i], path) /\ g[i].from_range
    BY DEF Sighted, SeenOf, IsSighting
<1>4. g = [i \in DOMAIN D |-> g[i]]
    OBVIOUS
<1>5. PackageJson(file, path) = FirstPerName(g \o <<>>)
    BY DEF PackageJson, Sightings
<1> HIDE DEF g, D
<1>6. IsSeq(g) /\ g \o <<>> = g /\ DOMAIN g = DOMAIN D
    BY <1>2, <1>4, MapIs
<1> DEFINE places == {i \in DOMAIN g : \A j \in 1..i - 1 : g[j].key # g[i].key}
<1>7. PackageJson(file, path) = Picked(g, places)
    BY <1>5, <1>6 DEF FirstPerName, FirstOf
<1> DEFINE P == Picked(g, places)
<1> HIDE DEF places
<1>8. IsSeq(P) /\ \A i \in DOMAIN P : \E j \in DOMAIN g : P[i] = g[j]
    BY <1>6, PickedSome
<1> HIDE DEF P
<1>9. \A i \in DOMAIN P : SeenOf(P[i], path) /\ P[i].from_range
    BY <1>3, <1>6, <1>8
<1>10. AllSeen(P, path)
    BY <1>8, <1>9 DEF AllSeen
<1>11. PackageJson(file, path) = P
    BY <1>7 DEF P
<1> QED BY <1>9, <1>10, <1>11

\* What Sees() makes of every member of a sequence, when all that it makes of
\* them is seen in the file.
LEMMA MapSeen ==
    ASSUME NEW found, IsSeq(found), NEW path, NEW g, g = [i \in DOMAIN found |-> g[i]],
           \A i \in DOMAIN found : SeenOf(g[i], path)
    PROVE  AllSeen(g \o <<>>, path) /\ g \o <<>> = g /\ DOMAIN g = DOMAIN found
<1>1. IsSeq(g) /\ g \o <<>> = g /\ DOMAIN g = DOMAIN found
    BY MapIs
<1> QED BY <1>1 DEF AllSeen

LEMMA ConcatSeen ==
    ASSUME NEW a, NEW b, NEW path, AllSeen(a, path), AllSeen(b, path)
    PROVE  /\ AllSeen(a \o b, path)
           /\ Range(a \o b) = Range(a) \cup Range(b)
<1>1. IsSeq(a \o b) /\ Range(a \o b) = Range(a) \cup Range(b)
    BY ConcatSeq DEF AllSeen
<1>2. \A i \in DOMAIN (a \o b) : SeenOf((a \o b)[i], path)
    BY <1>1 DEF Range, AllSeen
<1> QED BY <1>1, <1>2 DEF AllSeen

LEMMA CargoTomlIs ==
    ASSUME NEW file, IsSeq(file), NEW path
    PROVE  /\ AllSeen(CargoToml(file, path), path)
           /\ \A i \in DOMAIN CargoToml(file, path) :
                 CargoToml(file, path)[i].key.eco = "crates.io"
<1> DEFINE I == InSections(CargoSections, file)
           st == [i \in DOMAIN I |->
                    [name |-> I[i].name, version |-> Requirement(I[i]), line |-> I[i].line,
                     section |-> I[i].section, editable |-> I[i].version # NoVersion]]
           D == Versioned(st \o <<>>)
           g == [i \in DOMAIN D |-> Sighted(Key("crates.io", D[i].name), D[i].version, path,
                    D[i].line, CargoGroups(D[i].section), TRUE, D[i].editable)]
<1>1. IsSeq(CargoSections)
    <2>1. CargoSections \in Seq({"dependencies", "build-dependencies", "dev-dependencies"})
        BY DEF CargoSections
    <2> QED BY <2>1, InSeq
<1>2. IsSeq(D)
    <2>1. st = [i \in DOMAIN I |-> st[i]]
        OBVIOUS
    <2> HIDE DEF st, I
    <2>2. IsSeq(I)
        BY <1>1, InSectionsIs DEF I
    <2>3. IsSeq(st \o <<>>)
        BY <2>1, <2>2, MapIs
    <2> QED BY <2>3, PickedIs DEF Versioned, Where
<1>3. \A i \in DOMAIN D : SeenOf(g[i], path) /\ g[i].key.eco = "crates.io"
    BY DEF Sighted, SeenOf, IsSighting, Key
<1>4. g = [i \in DOMAIN D |-> g[i]]
    OBVIOUS
<1>5. CargoToml(file, path) = FirstPerName(g \o <<>>)
    BY DEF CargoToml, Sightings
<1> HIDE DEF g, D, st, I
<1>6. IsSeq(g) /\ g \o <<>> = g /\ DOMAIN g = DOMAIN D
    BY <1>2, <1>4, MapIs
<1> DEFINE places == {i \in DOMAIN g : \A j \in 1..i - 1 : g[j].key # g[i].key}
<1>7. CargoToml(file, path) = Picked(g, places)
    BY <1>5, <1>6 DEF FirstPerName, FirstOf
<1> DEFINE P == Picked(g, places)
<1> HIDE DEF places
<1>8. IsSeq(P) /\ \A i \in DOMAIN P : \E j \in DOMAIN g : P[i] = g[j]
    BY <1>6, PickedSome
<1> HIDE DEF P
<1>9. \A i \in DOMAIN P : SeenOf(P[i], path) /\ P[i].key.eco = "crates.io"
    BY <1>3, <1>6, <1>8
<1>10. AllSeen(P, path)
    BY <1>8, <1>9 DEF AllSeen
<1>11. CargoToml(file, path) = P
    BY <1>7 DEF P
<1> QED BY <1>9, <1>10, <1>11

LEMMA CargoLockIs ==
    ASSUME NEW file, IsSeq(file), NEW path
    PROVE  /\ AllSeen(CargoLock(file, path), path)
           /\ \A i \in DOMAIN CargoLock(file, path) :
                 CargoLock(file, path)[i].key.eco = "crates.io"
<1> DEFINE D == Versioned(Numbered(file))
           g == [i \in DOMAIN D |-> Sighted(Key("crates.io", D[i].name), D[i].version, path,
                    D[i].line, {}, FALSE, FALSE)]
<1>1. IsSeq(D)
    BY NumberedIs, PickedIs DEF Versioned, Where
<1>2. \A i \in DOMAIN D : SeenOf(g[i], path) /\ g[i].key.eco = "crates.io"
    BY DEF Sighted, SeenOf, IsSighting, Key
<1>3. g = [i \in DOMAIN D |-> g[i]]
    OBVIOUS
<1>4. CargoLock(file, path) = g \o <<>>
    BY DEF CargoLock, Sightings
<1> HIDE DEF g, D
<1> QED BY <1>1, <1>2, <1>3, <1>4, MapSeen

LEMMA RequirementsIs ==
    ASSUME NEW file, IsSeq(file), NEW path
    PROVE  /\ AllSeen(Requirements(file, path), path)
           /\ \A i \in DOMAIN Requirements(file, path) :
                 Requirements(file, path)[i].key.eco = "PyPI"
<1> DEFINE D == Versioned(Requires(file))
           g == [i \in DOMAIN D |-> Sighted(Key("PyPI", D[i].name), D[i].version, path,
                    D[i].line, {}, ~D[i].pinned, ~D[i].joined)]
<1>1. IsSeq(D)
    BY NumberedIs, PickedIs DEF Versioned, Where, Requires
<1>2. \A i \in DOMAIN D : SeenOf(g[i], path) /\ g[i].key.eco = "PyPI"
    BY DEF Sighted, SeenOf, IsSighting, Key
<1>3. g = [i \in DOMAIN D |-> g[i]]
    OBVIOUS
<1>4. Requirements(file, path) = g \o <<>>
    BY DEF Requirements, Sightings
<1> HIDE DEF g, D
<1> QED BY <1>1, <1>2, <1>3, <1>4, MapSeen

LEMMA LockSightingsIs ==
    ASSUME NEW tree, IsSeq(tree), NEW path
    PROVE  /\ AllSeen(LockSightings(tree, path), path)
           /\ \A i \in DOMAIN LockSightings(tree, path) :
                 /\ LockSightings(tree, path)[i].key.eco = "npm"
                 /\ ~LockSightings(tree, path)[i].from_range
                 /\ ~LockSightings(tree, path)[i].editable
<1> DEFINE D == Where(tree, LAMBDA n : InModules(n.path) /\ n.version # NoVersion)
           g == [i \in DOMAIN D |-> Sighted(Key("npm", D[i].registry), D[i].version, path,
                    D[i].line, D[i].groups, FALSE, FALSE)]
<1>1. IsSeq(D)
    BY PickedIs DEF Where
<1>2. \A i \in DOMAIN D : /\ SeenOf(g[i], path) /\ g[i].key.eco = "npm"
                          /\ ~g[i].from_range /\ ~g[i].editable
    BY DEF Sighted, SeenOf, IsSighting, Key
<1>3. g = [i \in DOMAIN D |-> g[i]]
    OBVIOUS
<1>4. LockSightings(tree, path) = g \o <<>>
    BY DEF LockSightings, Sightings
<1> HIDE DEF g, D
<1> QED BY <1>1, <1>2, <1>3, <1>4, MapSeen

LEMMA DirectivesIs ==
    ASSUME NEW file, IsSeq(file), NEW is
    PROVE  IsSeq(Directives(file, is))
    BY NumberedIs, PickedIs DEF Where, Directives

LEMMA GoToolchainIs ==
    ASSUME NEW file
    PROVE  IsSeq(GoToolchain(file))
<1>1. \A x : <<x>> \in Seq({x})
    OBVIOUS
<1>2. \A x : IsSeq(<<x>>)
    BY <1>1, InSeq
<1> QED BY <1>2, EmptyIsSeq DEF GoToolchain

LEMMA GoModIs ==
    ASSUME NEW file, IsSeq(file), NEW path
    PROVE  /\ AllSeen(GoMod(file, path), path)
           /\ \A i \in DOMAIN GoMod(file, path) : GoMod(file, path)[i].key.eco = "Go"
<1> DEFINE Sees(r) == Sighted(Key("Go", r.name), r.version, path, r.line, {}, FALSE, r.editable)
           F == Versioned(Directives(file, "require"))
           req == [i \in DOMAIN F |-> Replaced(file, F[i])]
           D == Versioned(req \o <<>>)
           T == GoToolchain(file)
           g == [i \in DOMAIN D |-> Sees(D[i])]
           h == [i \in DOMAIN T |->
                    Sees([name |-> Toolchain, version |-> T[i].version, line |-> T[i].line,
                          editable |-> TRUE])]
<1>1. \A r : SeenOf(Sees(r), path) /\ Sees(r).key.eco = "Go"
    BY DEF Sighted, SeenOf, IsSighting, Key
<1>2. GoMod(file, path) = (g \o <<>>) \o (h \o <<>>)
    BY DEF GoMod, Sightings
<1>3. IsSeq(D)
    <2>1. req = [i \in DOMAIN F |-> req[i]]
        OBVIOUS
    <2> HIDE DEF req, F
    <2>2. IsSeq(F)
        BY DirectivesIs, PickedIs DEF F, Versioned, Where
    <2>3. IsSeq(req \o <<>>)
        BY <2>1, <2>2, MapIs
    <2> QED BY <2>3, PickedIs DEF Versioned, Where
<1>4. IsSeq(T)
    BY GoToolchainIs
<1>5. g = [i \in DOMAIN D |-> g[i]] /\ h = [i \in DOMAIN T |-> h[i]]
    OBVIOUS
<1>6. \A i \in DOMAIN D : SeenOf(g[i], path) /\ g[i].key.eco = "Go"
    BY <1>1
<1>7. \A i \in DOMAIN T : SeenOf(h[i], path) /\ h[i].key.eco = "Go"
    BY <1>1
<1> HIDE DEF g, h, D, T, req, F
<1>8. AllSeen(g, path) /\ g \o <<>> = g /\ DOMAIN g = DOMAIN D
    BY <1>3, <1>5, <1>6, MapSeen
<1>9. AllSeen(h, path) /\ h \o <<>> = h /\ DOMAIN h = DOMAIN T
    BY <1>4, <1>5, <1>7, MapSeen
<1>10. AllSeen(g \o h, path) /\ Range(g \o h) = Range(g) \cup Range(h)
    BY <1>8, <1>9, ConcatSeen
<1>11. \A i \in DOMAIN (g \o h) : (g \o h)[i].key.eco = "Go"
    <2>1. \A s \in Range(g) \cup Range(h) : s.key.eco = "Go"
        BY <1>6, <1>7, <1>8, <1>9 DEF Range
    <2> DEFINE k == g \o h
    <2>2. \A i \in DOMAIN k : k[i] \in Range(g) \cup Range(h)
        BY <1>10 DEF Range
    <2> HIDE DEF k
    <2>3. \A i \in DOMAIN k : k[i].key.eco = "Go"
        BY <2>1, <2>2
    <2> QED BY <2>3 DEF k
<1> QED BY <1>2, <1>8, <1>9, <1>10, <1>11

LEMMA TreeIs ==
    ASSUME NEW file, IsSeq(file.packages), IsSeq(file.dependencies)
    PROVE  IsSeq(Tree(file))
<1>1. ASSUME NEW e, IsSeq(e), NEW g, g = [i \in DOMAIN Numbered(e) |-> g[i]]
      PROVE  IsSeq(g \o <<>>)
    BY <1>1, NumberedIs, MapIs
<1>2. IsSeq(FromPackages(file.packages))
    <2> DEFINE N == Numbered(file.packages)
               g == [i \in DOMAIN N |->
                       [path |-> N[i].key,
                        registry |-> IF N[i].name # NoName THEN N[i].name
                                     ELSE IF N[i].key = <<>> THEN NoName ELSE Last(N[i].key),
                        version |-> N[i].version, deps |-> LockEdges(N[i]), link |-> N[i].link,
                        line |-> N[i].line, groups |-> LockGroups(N[i].flags)]]
    <2>1. FromPackages(file.packages) = g \o <<>>
        BY DEF FromPackages, Sightings
    <2>2. g = [i \in DOMAIN N |-> g[i]]
        OBVIOUS
    <2> HIDE DEF g
    <2> QED BY <1>1, <2>1, <2>2
<1>3. IsSeq(FromTree(file.dependencies))
    <2> DEFINE entries == file.dependencies
               N == Numbered(entries)
               path == CHOOSE path : path = [i \in 0..Len(entries) |->
                           IF i = 0 THEN <<>>
                           ELSE path[entries[i].under] \o <<Modules, entries[i].name>>]
               x == [path |-> <<>>, registry |-> NoName, version |-> NoVersion, deps |-> <<>>,
                     link |-> NoLink, line |-> 0, groups |-> {}]
               g == [i \in DOMAIN N |->
                       [path |-> path[N[i].line],
                        registry |-> IF N[i].alias # NoName THEN N[i].alias ELSE N[i].name,
                        version |-> N[i].version, link |-> NoLink, line |-> N[i].line,
                        deps |-> [j \in DOMAIN N[i].requires |->
                                     [name |-> N[i].requires[j], kind |-> "runtime"]] \o <<>>,
                        groups |-> LockGroups(N[i].flags)]]
    <2>1. FromTree(entries) = <<x>> \o (g \o <<>>)
        BY DEF FromTree, Sightings
    <2>2. g = [i \in DOMAIN N |-> g[i]]
        OBVIOUS
    <2> HIDE DEF g, path, x
    <2>3. IsSeq(g \o <<>>)
        BY <1>1, <2>2
    <2>4. IsSeq(<<x>>)
        <3>1. <<x>> \in Seq({x})
            OBVIOUS
        <3> QED BY <3>1, InSeq
    <2> QED BY <2>1, <2>3, <2>4, ConcatSeq
<1> QED BY <1>2, <1>3 DEF Tree

\* What a manifest declares is declared at a line of it.
LEMMA DeclarationsIs ==
    ASSUME NEW file, IsSeq(file), NEW path
    PROVE  LET D == Declarations(file, path) IN
           IsSeq(D) /\ \A i \in DOMAIN D : D[i].site = <<path, D[i].site[2]>>
<1> DEFINE D == Declared(file)
           g == [i \in DOMAIN D |-> [name |-> D[i].name, site |-> <<path, D[i].line>>]]
<1>1. IsSeq(NpmSections)
    <2>1. NpmSections \in Seq({"dependencies", "optionalDependencies", "peerDependencies",
                               "devDependencies"})
        BY DEF NpmSections
    <2> QED BY <2>1, InSeq
<1>2. IsSeq(D)
    BY <1>1, InSectionsIs DEF Declared
<1>3. \A i \in DOMAIN D : g[i].site = <<path, g[i].site[2]>>
    OBVIOUS
<1>4. g = [i \in DOMAIN D |-> g[i]]
    OBVIOUS
<1>5. Declarations(file, path) = FirstOf(g \o <<>>, LAMBDA a, b : a.name = b.name)
    BY DEF Declarations, Sightings
<1> HIDE DEF g, D
<1>6. IsSeq(g) /\ g \o <<>> = g /\ DOMAIN g = DOMAIN D
    BY <1>2, <1>4, MapIs
<1> DEFINE places == {i \in DOMAIN g : \A j \in 1..i - 1 : g[j].name # g[i].name}
<1>7. Declarations(file, path) = Picked(g, places)
    BY <1>5, <1>6 DEF FirstOf
<1> DEFINE P == Picked(g, places)
<1> HIDE DEF places
<1>8. IsSeq(P) /\ \A i \in DOMAIN P : \E j \in DOMAIN g : P[i] = g[j]
    BY <1>6, PickedSome
<1> HIDE DEF P
<1>9. \A i \in DOMAIN P : P[i].site = <<path, P[i].site[2]>>
    BY <1>3, <1>6, <1>8
<1>10. Declarations(file, path) = P
    BY <1>7 DEF P
<1> QED BY <1>8, <1>9, <1>10

\* The path of an include.
IsInclude(path) ==
    IsSeq(path) /\ path # <<>> /\ Last(path) # ".." /\ Last(path) \notin ManifestNames

LEMMA FrontIs ==
    ASSUME NEW path, IsSeq(path)
    PROVE  IsSeq(Front(path)) /\ Len(Front(path)) \in Nat
<1>1. SubSeq(path, 1, Len(path) - 1) \in Seq(Range(path))
    BY DEF IsSeq
<1>2. Front(path) \in Seq(Range(path))
    BY <1>1 DEF Front
<1>3. IsSeq(Front(path))
    BY <1>2, InSeq
<1> QED BY <1>3, SeqIs

LEMMA NamedIs ==
    ASSUME NEW dir, IsSeq(dir), NEW target, IsSeq(target), target # <<>>
    PROVE  /\ IsSeq(dir \o target) /\ dir \o target # <<>>
           /\ Last(dir \o target) = Last(target)
<1> DEFINE V == Range(dir) \cup Range(target)
<1>1. dir \in Seq(V) /\ target \in Seq(V)
    BY SeqOver
<1>2. Len(target) \in Nat \ {0} /\ Len(dir) \in Nat
    <2>1. Len(target) # 0
        BY <1>1
    <2> QED BY <1>1, <2>1
<1> HIDE DEF V
<1>3. /\ dir \o target \in Seq(V) /\ Len(dir \o target) = Len(dir) + Len(target)
      /\ (dir \o target)[Len(dir) + Len(target)] = target[Len(target)]
    BY <1>1, <1>2
<1>4. IsSeq(dir \o target)
    BY <1>3, InSeq
<1>5. dir \o target # <<>>
    BY <1>2, <1>3
<1> QED BY <1>3, <1>4, <1>5 DEF Last

LEMMA IncludedIs ==
    ASSUME NEW file, IsSeq(file), \A i \in DOMAIN file : Includes(file[i]),
           NEW path, IsSeq(path)
    PROVE  /\ IsSeq(Included(file, path))
           /\ \A i \in DOMAIN Included(file, path) : IsInclude(Included(file, path)[i])
<1> DEFINE W == Where(file, LAMBDA d : d.is = "include")
           g == [i \in DOMAIN W |-> W[i].target]
           h == [i \in DOMAIN g |-> DirOf(path) \o g[i]]
           P == Where(h, LAMBDA p : Last(p) \notin ManifestNames)
<1>1. IsSeq(W)
    BY PickedIs DEF Where
<1>2. \A i \in DOMAIN W : IsSeq(W[i].target) /\ W[i].target # <<>> /\ Last(W[i].target) # ".."
    <2> DEFINE places == {i \in DOMAIN file : file[i].is = "include"}
    <2>1. W = Picked(file, places)
        BY DEF Where
    <2> HIDE DEF W
    <2>2. \A i \in DOMAIN W : \E j \in DOMAIN file \cap places : W[i] = file[j]
        <3> HIDE DEF places
        <3> QED BY <2>1, PickedSome
    <2> QED BY <2>2 DEF Includes
<1> HIDE DEF W
<1>3. /\ g = [i \in DOMAIN W |-> g[i]] /\ IsSeq(g) /\ g \o <<>> = g /\ DOMAIN g = DOMAIN W
      /\ \A i \in DOMAIN g : IsSeq(g[i]) /\ g[i] # <<>> /\ Last(g[i]) # ".."
    <2>1. g = [i \in DOMAIN W |-> g[i]] /\ \A i \in DOMAIN W : g[i] = W[i].target
        OBVIOUS
    <2> HIDE DEF g
    <2> QED BY <1>1, <1>2, <2>1, MapIs
<1>4. RequirementIncludes(file) = g
    <2>1. RequirementIncludes(file) = g \o <<>>
        BY DEF RequirementIncludes, Sightings, W
    <2> QED BY <1>3, <2>1
<1> HIDE DEF g
<1>5. /\ IsSeq(h) /\ h \o <<>> = h /\ DOMAIN h = DOMAIN g
      /\ \A i \in DOMAIN h : IsSeq(h[i]) /\ h[i] # <<>> /\ Last(h[i]) # ".."
    <2>1. h = [i \in DOMAIN g |-> h[i]] /\ \A i \in DOMAIN g : h[i] = DirOf(path) \o g[i]
        OBVIOUS
    <2>2. IsSeq(DirOf(path))
        BY FrontIs DEF DirOf
    <2> HIDE DEF h
    <2>3. DOMAIN h = DOMAIN g /\ IsSeq(h) /\ h \o <<>> = h
        BY <1>3, <2>1, MapIs
    <2>4. \A i \in DOMAIN g : IsSeq(h[i]) /\ h[i] # <<>> /\ Last(h[i]) # ".."
        <3> SUFFICES ASSUME NEW i \in DOMAIN g
                     PROVE  IsSeq(h[i]) /\ h[i] # <<>> /\ Last(h[i]) # ".."
            OBVIOUS
        <3>1. IsSeq(g[i]) /\ g[i] # <<>> /\ Last(g[i]) # ".." /\ h[i] = DirOf(path) \o g[i]
            BY <1>3, <2>1
        <3> DEFINE dir == DirOf(path)
        <3>2. IsSeq(dir) /\ h[i] = dir \o g[i]
            BY <2>2, <3>1
        <3> HIDE DEF dir
        <3> QED BY <3>1, <3>2, NamedIs
    <2> QED BY <2>3, <2>4
<1>6. Included(file, path) = P
    <2>1. Included(file, path) = Where(h \o <<>>, LAMBDA p : Last(p) \notin ManifestNames)
        BY <1>4 DEF Included, Sightings
    <2> QED BY <1>5, <2>1
<1> HIDE DEF h
<1>7. IsSeq(P) /\ \A i \in DOMAIN P : IsInclude(P[i])
    <2> DEFINE places == {i \in DOMAIN h : Last(h[i]) \notin ManifestNames}
    <2>1. P = Picked(h, places)
        BY DEF Where
    <2> HIDE DEF P
    <2>2. IsSeq(P) /\ \A i \in DOMAIN P : \E j \in DOMAIN h \cap places : P[i] = h[j]
        <3> HIDE DEF places
        <3> QED BY <1>5, <2>1, PickedSome
    <2> QED BY <1>5, <2>2 DEF IsInclude
<1> HIDE DEF P
<1> QED BY <1>6, <1>7

\* What a parser makes of a file is seen in that file; only a lockfile pins what
\* is of npm, and nothing in it can be edited.
LEMMA ParseIs ==
    ASSUME NEW path, NEW text, IsText(path, text), text # Unreadable
    PROVE  /\ AllSeen(Parse(text, path), path)
           /\ Last(path) \notin LockNames =>
                 \A i \in DOMAIN Parse(text, path) :
                    Parse(text, path)[i].key.eco = "npm" => Parse(text, path)[i].from_range
           /\ Last(path) \in LockNames =>
                 \A i \in DOMAIN Parse(text, path) :
                    ~Parse(text, path)[i].editable /\ ~Parse(text, path)[i].from_range
<1> USE DEF LockNames, RequirementsNames
<1>0. AllSeen(<<>>, path) /\ DOMAIN <<>> = {}
    BY EmptyIsSeq DEF AllSeen
<1>1. CASE Last(path) \in LockNames
    <2>1. Parse(text, path) = LockSightings(Tree(text), path)
        BY <1>1 DEF Parse
    <2>2. IsSeq(Tree(text))
        BY <1>1, TreeIs DEF IsText
    <2> QED BY <1>1, <2>1, <2>2, LockSightingsIs
<1>2. CASE Last(path) \notin LockNames
    <2>1. IsSeq(text)
        BY <1>2 DEF IsText
    <2>2. CASE Last(path) = "package.json"
        BY <2>1, <2>2, PackageJsonIs DEF Parse
    <2>3. CASE Last(path) = "go.mod"
        <3>1. Parse(text, path) = GoMod(text, path)
            BY <2>3 DEF Parse
        <3>2. "Go" # "npm"
            OBVIOUS
        <3> QED BY <1>2, <2>1, <3>1, <3>2, GoModIs
    <2>4. CASE Last(path) = "Cargo.toml"
        <3>1. Parse(text, path) = CargoToml(text, path)
            BY <2>4 DEF Parse
        <3>2. "crates.io" # "npm"
            OBVIOUS
        <3> QED BY <1>2, <2>1, <3>1, <3>2, CargoTomlIs
    <2>5. CASE Last(path) = "Cargo.lock"
        <3>1. Parse(text, path) = CargoLock(text, path)
            BY <2>5 DEF Parse
        <3>2. "crates.io" # "npm"
            OBVIOUS
        <3> QED BY <1>2, <2>1, <3>1, <3>2, CargoLockIs
    <2>6. CASE Last(path) \in RequirementsNames
        <3>1. Parse(text, path) = Requirements(text, path)
            BY <2>6 DEF Parse
        <3>2. "PyPI" # "npm"
            OBVIOUS
        <3> QED BY <1>2, <2>1, <3>1, <3>2, RequirementsIs
    <2>7. CASE Last(path) \notin ManifestNames
        <3>1. Parse(text, path) = <<>>
            BY <2>7 DEF Parse, ManifestNames
        <3> QED BY <1>0, <1>2, <3>1
    <2> QED BY <1>2, <2>2, <2>3, <2>4, <2>5, <2>6, <2>7 DEF ManifestNames
<1> QED BY <1>1, <1>2

-----------------------------------------------------------------------------
(* What the graph says of a lockfile.                                       *)

LEMMA FiniteRange ==
    ASSUME NEW f, f = [x \in DOMAIN f |-> f[x]], IsFiniteSet(DOMAIN f)
    PROVE  IsFiniteSet({f[x] : x \in DOMAIN f})
<1> DEFINE T == {f[x] : x \in DOMAIN f}
<1>1. f \in Surjection(DOMAIN f, T)
    BY DEF Surjection
<1> HIDE DEF T
<1>2. IsFiniteSet(T)
    BY <1>1, FS_Surjection
<1> QED BY <1>2 DEF T

\* Finitely many finite sets make a finite set.
LEMMA FiniteUnion ==
    ASSUME NEW S, IsFiniteSet(S), NEW f, \A x \in S : IsFiniteSet(f[x])
    PROVE  IsFiniteSet(UNION {f[x] : x \in S})
<1>1. PICK n \in Nat : ExistsBijection(1..n, S)
    BY FS_NatBijection
<1>2. PICK g : g \in Bijection(1..n, S)
    BY <1>1 DEF ExistsBijection
<1>3. /\ \A i \in 1..n : g[i] \in S
      /\ \A x \in S : \E i \in 1..n : g[i] = x
    BY <1>2 DEF Bijection, Injection, Surjection
<1> DEFINE Upto(m) == UNION {f[g[i]] : i \in 1..m}
           I == {m \in Nat : m <= n => IsFiniteSet(Upto(m))}
<1>4. 0 \in I
    <2>1. Upto(0) = {}
        OBVIOUS
    <2> QED BY <2>1, FS_EmptySet
<1>5. ASSUME NEW m \in I PROVE m + 1 \in I
    <2> SUFFICES ASSUME m + 1 <= n PROVE IsFiniteSet(Upto(m + 1))
        OBVIOUS
    <2>1. m <= n /\ m + 1 \in 1..n /\ 1..m + 1 = (1..m) \cup {m + 1}
        OBVIOUS
    <2>2. Upto(m + 1) = Upto(m) \cup f[g[m + 1]]
        BY <2>1
    <2>3. IsFiniteSet(Upto(m)) /\ IsFiniteSet(f[g[m + 1]])
        BY <1>3, <2>1
    <2> HIDE DEF Upto
    <2> QED BY <2>2, <2>3, FS_Union
<1>6. I = Nat
    <2>1. I \subseteq Nat
        OBVIOUS
    <2> HIDE DEF I
    <2> QED BY <1>4, <1>5, <2>1, SetInduction
<1>7. IsFiniteSet(Upto(n))
    <2>1. n \in I
        BY <1>6
    <2> HIDE DEF Upto
    <2> QED BY <2>1
<1>8. UNION {f[x] : x \in S} = Upto(n)
    BY <1>3
<1> HIDE DEF Upto
<1> QED BY <1>7, <1>8

\* What the graph says, and from where it can say it.
IsStep(f, N, entries) ==
    f \in [node : 1..N, which : DOMAIN entries, depth : (1..N) \ {1}]

LEMMA StepsAreFinite ==
    ASSUME NEW N \in Nat, NEW entries, IsSeq(entries)
    PROVE  IsFiniteSet([node : 1..N, which : DOMAIN entries, depth : (1..N) \ {1}])
<1> DEFINE A == 1..N
           B == DOMAIN entries
           C == (1..N) \ {1}
           third == [a \in A |-> [b \in B |-> [c \in C |-> [node |-> a, which |-> b, depth |-> c]]]]
           inner == [a \in A |-> [b \in B |-> {third[a][b][c] : c \in C}]]
           outer == [a \in A |-> UNION {inner[a][b] : b \in B}]
<1>1. IsFiniteSet(A) /\ IsFiniteSet(C)
    <2>1. IsFiniteSet(A)
        BY FS_Interval
    <2> HIDE DEF A
    <2>2. IsFiniteSet(A \ {1})
        BY <2>1, FS_RemoveElement
    <2> QED BY <2>1, <2>2 DEF A
<1>2. IsFiniteSet(B)
    <2>1. B = 1..Len(entries) /\ Len(entries) \in Int
        BY SeqIs
    <2>2. IsFiniteSet(1..Len(entries))
        BY <2>1, FS_Interval
    <2> QED BY <2>1, <2>2
<1>3. ASSUME NEW a \in A, NEW b \in B PROVE IsFiniteSet(inner[a][b])
    <2> DEFINE t == third[a][b]
    <2>1. t = [c \in C |-> [node |-> a, which |-> b, depth |-> c]]
        OBVIOUS
    <2>2. t = [c \in DOMAIN t |-> t[c]] /\ DOMAIN t = C
        BY <2>1
    <2>3. inner[a][b] = {t[c] : c \in C}
        OBVIOUS
    <2> HIDE DEF t, C, inner
    <2>4. IsFiniteSet({t[c] : c \in DOMAIN t})
        BY <1>1, <2>2, FiniteRange
    <2> QED BY <2>2, <2>3, <2>4
<1>4. ASSUME NEW a \in A PROVE IsFiniteSet(outer[a])
    <2>1. outer[a] = UNION {inner[a][b] : b \in B}
        OBVIOUS
    <2> DEFINE f == inner[a]
    <2>2. \A b \in B : IsFiniteSet(f[b])
        BY <1>3
    <2> HIDE DEF f, outer, inner, B
    <2>3. IsFiniteSet(UNION {f[b] : b \in B})
        BY <1>2, <2>2, FiniteUnion
    <2> QED BY <2>1, <2>3 DEF f
<1>5. [node : A, which : B, depth : C] = UNION {outer[a] : a \in A}
    <2>1. ASSUME NEW f \in [node : A, which : B, depth : C]
          PROVE  f \in UNION {outer[a] : a \in A}
        <3>1. f = third[f.node][f.which][f.depth]
            OBVIOUS
        <3>2. f \in inner[f.node][f.which]
            BY <3>1
        <3>3. f \in outer[f.node]
            BY <3>2
        <3> QED BY <3>3
    <2>2. ASSUME NEW a \in A, NEW f \in outer[a]
          PROVE  f \in [node : A, which : B, depth : C]
        OBVIOUS
    <2> QED BY <2>1, <2>2
<1>6. IsFiniteSet(UNION {outer[a] : a \in A})
    <2> HIDE DEF outer, A
    <2> QED BY <1>1, <1>4, FiniteUnion
<1> QED BY <1>5, <1>6

LEMMA ReachIs ==
    ASSUME NEW edges, NEW N \in Nat, DOMAIN edges = 1..N, NEW entries, IsSeq(entries)
    PROVE  /\ \A f \in Reach(edges, entries) : IsStep(f, N, entries)
           /\ IsFiniteSet(Reach(edges, entries))
<1>1. ASSUME NEW kinds
      PROVE  Pass(edges, kinds, entries) \subseteq
                 [node : 1..N, which : DOMAIN entries, depth : (1..N) \ {1}]
    BY DEF Pass
<1>2. Reach(edges, entries) \subseteq
          [node : 1..N, which : DOMAIN entries, depth : (1..N) \ {1}]
    BY <1>1 DEF Reach
<1>3. IsFiniteSet(Reach(edges, entries))
    BY <1>2, StepsAreFinite, FS_Subset
<1> QED BY <1>2, <1>3 DEF IsStep

\* The declarations of the manifests that were read.
AreDeclared(mf) ==
    \A p \in DOMAIN mf :
        /\ IsSeq(p) /\ p # <<>> /\ IsSeq(mf[p])
        /\ \A i \in DOMAIN mf[p] : mf[p][i].site = <<p, mf[p][i].site[2]>>

NearestIn(dir, dirs) == Nearest(dir, LAMBDA d : d \in dirs)

IsAnswer(a, dir, mf, lockDirs) ==
    /\ a.depth \in Nat /\ a.depth > 0
    /\ \E p \in DOMAIN mf :
          a.site = <<p, a.site[2]>> /\ NearestIn(Front(p), lockDirs) = {dir}

\* Finitely many answers, each at a declaration of a manifest that has no nearer
\* lockfile.
LEMMA AttributeIs ==
    ASSUME NEW tree, IsSeq(tree), NEW dir, NEW mf, AreDeclared(mf), NEW lockDirs
    PROVE  /\ IsFiniteSet(Attribute(tree, dir, mf, lockDirs))
           /\ \A a \in Attribute(tree, dir, mf, lockDirs) : IsAnswer(a, dir, mf, lockDirs)
<1> DEFINE edges == ResolveEdges(tree)
           roots == Roots(tree, dir, mf, lockDirs)
           Declares(root) == mf[ManifestOf(dir, tree[root])]
           Entries(root) == [i \in DOMAIN Declares(root) |->
                                Resolve(tree, tree[root].path, Declares(root)[i].name)] \o <<>>
           R(root) == Reach(edges, Entries(root))
           From(root) == {[line |-> tree[f.node].line, site |-> Declares(root)[f.which].site,
                           depth |-> f.depth] : f \in R(root)}
<1>1. Attribute(tree, dir, mf, lockDirs) = IF HasEdges(tree) THEN UNION {From(root) : root \in roots}
                                           ELSE {}
    BY DEF Attribute, Sightings
<1>2. DOMAIN edges = 1..Len(tree) /\ Len(tree) \in Nat /\ DOMAIN tree = 1..Len(tree)
    <2> DEFINE g == [i \in DOMAIN tree |->
                        {e \in {[to |-> Resolve(tree, tree[i].path, d.name), kind |-> d.kind] :
                                   d \in ToSet(tree[i].deps)} : e.to # NoEntry}]
    <2>1. g = [i \in DOMAIN tree |-> g[i]]
        OBVIOUS
    <2>2. edges = g \o <<>>
        BY DEF ResolveEdges, Sightings
    <2> HIDE DEF g
    <2> QED BY <2>1, <2>2, MapIs, SeqIs
<1> HIDE DEF edges
<1>3. ASSUME NEW root \in roots
      PROVE  /\ ManifestOf(dir, tree[root]) \in DOMAIN mf
             /\ NearestIn(Front(ManifestOf(dir, tree[root])), lockDirs) = {dir}
             /\ IsSeq(Entries(root)) /\ DOMAIN Entries(root) = DOMAIN Declares(root)
    <2>1. /\ ManifestOf(dir, tree[root]) \in DOMAIN mf
          /\ NearestIn(Front(ManifestOf(dir, tree[root])), lockDirs) = {dir}
        BY DEF Roots, NearestIn
    <2> DEFINE D == Declares(root)
               g == [i \in DOMAIN D |-> Resolve(tree, tree[root].path, D[i].name)]
    <2>2. IsSeq(D)
        BY <2>1 DEF AreDeclared
    <2>3. Entries(root) = g \o <<>> /\ g = [i \in DOMAIN D |-> g[i]]
        OBVIOUS
    <2> HIDE DEF g
    <2>4. IsSeq(g) /\ g \o <<>> = g /\ DOMAIN g = DOMAIN D
        <3> HIDE DEF D
        <3> QED BY <2>2, <2>3, MapIs
    <2> QED BY <2>1, <2>3, <2>4
<1>4. ASSUME NEW root \in roots
      PROVE  /\ IsFiniteSet(R(root))
             /\ \A f \in R(root) : IsStep(f, Len(tree), Entries(root))
    <2> DEFINE E == Entries(root)
    <2>1. IsSeq(E)
        BY <1>3
    <2> HIDE DEF E
    <2>2. IsFiniteSet(Reach(edges, E)) /\ \A f \in Reach(edges, E) : IsStep(f, Len(tree), E)
        BY <1>2, <2>1, ReachIs
    <2> QED BY <2>2 DEF E
<1>5. ASSUME NEW root \in roots, NEW a \in From(root)
      PROVE  /\ a.depth \in Nat /\ a.depth > 0
             /\ \E p \in DOMAIN mf :
                   /\ a.site = <<p, a.site[2]>>
                   /\ NearestIn(Front(p), lockDirs) = {dir}
    <2>1. PICK f \in R(root) : a = [line |-> tree[f.node].line,
                site |-> Declares(root)[f.which].site, depth |-> f.depth]
        OBVIOUS
    <2> HIDE DEF R, Entries
    <2>2. f.depth \in Nat /\ f.depth > 0 /\ f.which \in DOMAIN Declares(root)
        <3>1. IsStep(f, Len(tree), Entries(root)) /\ DOMAIN Entries(root) = DOMAIN Declares(root)
            BY <1>3, <1>4
        <3> HIDE DEF Declares
        <3>2. f.which \in DOMAIN Entries(root) /\ f.depth \in 1..Len(tree)
            BY <3>1 DEF IsStep
        <3> QED BY <1>2, <3>1, <3>2
    <2> DEFINE p == ManifestOf(dir, tree[root])
    <2>3. p \in DOMAIN mf /\ NearestIn(Front(p), lockDirs) = {dir}
        BY <1>3
    <2>4. a.site = <<p, a.site[2]>>
        BY <2>1, <2>2, <2>3 DEF AreDeclared
    <2> QED BY <2>1, <2>2, <2>3, <2>4
<1>6. ASSUME NEW root \in roots PROVE IsFiniteSet(From(root))
    <2> DEFINE S == R(root)
               g == [f \in S |-> [line |-> tree[f.node].line,
                        site |-> Declares(root)[f.which].site, depth |-> f.depth]]
    <2>1. From(root) = {g[f] : f \in S}
        OBVIOUS
    <2>2. g = [f \in DOMAIN g |-> g[f]] /\ DOMAIN g = S
        OBVIOUS
    <2>3. IsFiniteSet(S)
        BY <1>4
    <2> HIDE DEF g, S
    <2>4. IsFiniteSet({g[f] : f \in DOMAIN g})
        BY <2>2, <2>3, FiniteRange
    <2> QED BY <2>1, <2>2, <2>4
<1>7. IsFiniteSet(UNION {From(root) : root \in roots})
    <2> DEFINE h == [root \in roots |-> From(root)]
    <2>1. \A root \in roots : IsFiniteSet(h[root])
        BY <1>6
    <2>2. {From(root) : root \in roots} = {h[root] : root \in roots}
        OBVIOUS
    <2>3. IsFiniteSet(roots)
        <3>1. roots \subseteq 1..Len(tree)
            BY <1>2 DEF Roots
        <3> HIDE DEF roots
        <3>2. IsFiniteSet(1..Len(tree))
            BY <1>2, FS_Interval
        <3> QED BY <3>1, <3>2, FS_Subset
    <2> HIDE DEF h, roots, From
    <2>4. IsFiniteSet(UNION {h[root] : root \in roots})
        BY <2>1, <2>3, FiniteUnion
    <2> QED BY <2>2, <2>4
<1> DEFINE A == Attribute(tree, dir, mf, lockDirs)
<1>8. IsFiniteSet(A)
    BY <1>1, <1>7, FS_EmptySet
<1>9. ASSUME NEW a \in A PROVE IsAnswer(a, dir, mf, lockDirs)
    <2>1. A = UNION {From(root) : root \in roots}
        BY <1>1, <1>9
    <2>2. PICK root \in roots : a \in From(root)
        BY <2>1
    <2> HIDE DEF From, roots, A
    <2> QED BY <1>5, <2>2 DEF IsAnswer
<1> QED BY <1>8, <1>9

-----------------------------------------------------------------------------
(* What is reported of what was found, as sets.                             *)

LEMMA FirstOfEqual ==
    ASSUME NEW g, IsSeq(g)
    PROVE  LET P == FirstOf(g, LAMBDA a, b : a = b) IN IsSeq(P) /\ Range(P) = Range(g)
<1> DEFINE places == {i \in DOMAIN g : \A j \in 1..i - 1 : g[j] # g[i]}
           P == Picked(g, places)
<1>1. FirstOf(g, LAMBDA a, b : a = b) = P
    BY DEF FirstOf
<1>2. IsSeq(P) /\ Range(P) = {g[i] : i \in DOMAIN g \cap places}
    <2> HIDE DEF places
    <2> QED BY PickedIs
<1>3. ASSUME NEW i \in DOMAIN g PROVE \E k \in places : g[k] = g[i]
    <2> DEFINE S == {j \in DOMAIN g : g[j] = g[i]}
    <2>1. DOMAIN g = 1..Len(g) /\ Len(g) \in Nat
        BY SeqIs
    <2>2. S \subseteq Nat /\ S # {}
        BY <2>1
    <2>3. PICK k \in S : \A j \in S : k <= j
        <3> HIDE DEF S
        <3> QED BY <2>2, LeastPlace
    <2>4. ASSUME NEW j \in 1..k - 1 PROVE g[j] # g[k]
        <3>1. j \in DOMAIN g /\ j \in Nat /\ k \in Nat /\ ~(k <= j)
            BY <2>1
        <3> QED BY <2>3, <3>1
    <2> QED BY <2>3, <2>4
<1>4. Range(P) = Range(g)
    <2>1. places \subseteq DOMAIN g
        OBVIOUS
    <2>2. Range(g) = {g[i] : i \in DOMAIN g}
        BY DEF Range
    <2> HIDE DEF P, places
    <2>3. {g[i] : i \in DOMAIN g} = {g[i] : i \in places}
        BY <1>3, <2>1
    <2>4. DOMAIN g \cap places = places
        BY <2>1
    <2> QED BY <1>2, <2>2, <2>3, <2>4
<1> HIDE DEF P
<1> QED BY <1>1, <1>2, <1>4

\* What was found: each in a file of its own directory.
IsFound(s) ==
    /\ SeenOf(s, s.evidence[1])
    /\ IsSeq(s.evidence[1]) /\ s.evidence[1] # <<>>
AreFound(found) == IsSeq(found) /\ \A i \in DOMAIN found : IsFound(found[i])
AreChains(chains) ==
    /\ IsFiniteSet(chains)
    /\ \A c \in chains : c.depth \in Nat /\ c.depth > 0 /\ c.site = <<c.site[1], c.site[2]>>

SitesIn(all, locked, scope) ==
    {t.evidence : t \in {u \in all : /\ u.from_range /\ u.key = scope.key
                                     /\ NearestLock(locked, ScopeOf(u)) = {scope.dir}}}
ChainsTo(chains, s) == {c \in chains : c.of = s.evidence}
AtSite(s, site) == [s EXCEPT !.declared = site]
AtChain(s, c) == [s EXCEPT !.declared = c.site, !.depth = c.depth]
ReportsOf(all, chains, locked, s) ==
    IF s.from_range
    THEN IF NearestLock(locked, ScopeOf(s)) # {} THEN {} ELSE {s}
    ELSE IF SitesIn(all, locked, ScopeOf(s)) = {} /\ ChainsTo(chains, s) = {} THEN {s}
    ELSE {AtSite(s, site) : site \in SitesIn(all, locked, ScopeOf(s))}
             \cup {AtChain(s, c) : c \in ChainsTo(chains, s)}

LEMMA DeclaredAtIs ==
    ASSUME NEW found, IsSeq(found), NEW locked, NEW scope
    PROVE  /\ IsSeq(DeclaredAt(found, locked, scope))
           /\ Range(DeclaredAt(found, locked, scope)) = SitesIn(Range(found), locked, scope)
<1> DEFINE R == Ranges(found)
           G == Where(R, LAMBDA s : s.key = scope.key /\ NearestLock(locked, ScopeOf(s)) = {scope.dir})
           g == [i \in DOMAIN G |-> G[i].evidence]
<1>0. DeclaredAt(found, locked, scope) = FirstOf(g \o <<>>, LAMBDA a, b : a = b)
    BY DEF DeclaredAt, Sightings
<1>1. IsSeq(R) /\ Range(R) = {s \in Range(found) : s.from_range}
    <2> DEFINE places == {i \in DOMAIN found : found[i].from_range}
    <2>1. R = Picked(found, places)
        BY DEF Ranges, Where
    <2>2. IsSeq(R) /\ Range(R) = {found[i] : i \in DOMAIN found \cap places}
        <3> HIDE DEF places, R
        <3> QED BY <2>1, PickedIs
    <2>3. {found[i] : i \in DOMAIN found \cap places} = {s \in Range(found) : s.from_range}
        BY DEF Range
    <2> QED BY <2>2, <2>3
<1> HIDE DEF R
<1>2. /\ IsSeq(G)
      /\ Range(G) = {s \in Range(R) : s.key = scope.key
                                          /\ NearestLock(locked, ScopeOf(s)) = {scope.dir}}
    <2> DEFINE places == {i \in DOMAIN R : R[i].key = scope.key
                              /\ NearestLock(locked, ScopeOf(R[i])) = {scope.dir}}
    <2>1. G = Picked(R, places)
        BY DEF Where
    <2> HIDE DEF G
    <2>2. IsSeq(G) /\ Range(G) = {R[i] : i \in DOMAIN R \cap places}
        <3> HIDE DEF places
        <3> QED BY <1>1, <2>1, PickedIs
    <2>3. {R[i] : i \in DOMAIN R \cap places} =
              {s \in Range(R) : s.key = scope.key
                                    /\ NearestLock(locked, ScopeOf(s)) = {scope.dir}}
        BY DEF Range
    <2> QED BY <2>2, <2>3
<1> HIDE DEF G
<1>4. IsSeq(g) /\ g \o <<>> = g /\ Range(g) = {s.evidence : s \in Range(G)}
    <2>1. g = [i \in DOMAIN G |-> g[i]] /\ \A i \in DOMAIN G : g[i] = G[i].evidence
        OBVIOUS
    <2> HIDE DEF g
    <2>2. IsSeq(g) /\ g \o <<>> = g /\ DOMAIN g = DOMAIN G
        BY <1>2, <2>1, MapIs
    <2>3. Range(g) = {s.evidence : s \in Range(G)}
        BY <2>1, <2>2 DEF Range
    <2> QED BY <2>2, <2>3
<1> HIDE DEF g
<1>5. Range(g) = SitesIn(Range(found), locked, scope)
    BY <1>1, <1>2, <1>4 DEF SitesIn
<1>6. DeclaredAt(found, locked, scope) = FirstOf(g, LAMBDA a, b : a = b)
    BY <1>0, <1>4
<1>7. IsSeq(FirstOf(g, LAMBDA a, b : a = b)) /\ Range(FirstOf(g, LAMBDA a, b : a = b)) = Range(g)
    BY <1>4, FirstOfEqual
<1> QED BY <1>5, <1>6, <1>7

\* A sequence is empty if nothing is in it.
LEMMA EmptyOnlyIf ==
    ASSUME NEW s, IsSeq(s)
    PROVE  s = <<>> <=> Range(s) = {}
<1>1. CASE s = <<>>
    BY <1>1, EmptyRange
<1>2. CASE Range(s) = {}
    <2>1. s \in Seq({})
        BY <1>2 DEF IsSeq
    <2> QED BY <1>2, <2>1
<1> QED BY <1>1, <1>2

LEMMA ReportedAtIs ==
    ASSUME NEW found, IsSeq(found), NEW chains, IsFiniteSet(chains), NEW locked, NEW s
    PROVE  /\ IsSeq(ReportedAt(found, chains, locked, s))
           /\ Range(ReportedAt(found, chains, locked, s))
                  = ReportsOf(Range(found), chains, locked, s)
<1> DEFINE sites == DeclaredAt(found, locked, ScopeOf(s))
           via == ChainsOf(chains, s)
           g == [i \in DOMAIN sites |-> AtSite(s, sites[i])]
           h == [i \in DOMAIN via |-> AtChain(s, via[i])]
           all == Range(found)
<1>1. IsSeq(sites) /\ Range(sites) = SitesIn(all, locked, ScopeOf(s))
    BY DeclaredAtIs
<1>2. IsSeq(via) /\ Range(via) = ChainsTo(chains, s)
    <2>1. IsFiniteSet(ChainsTo(chains, s))
        BY FS_Subset DEF ChainsTo
    <2>2. via = Listed(ChainsTo(chains, s))
        BY DEF ChainsOf, ChainsTo
    <2> QED BY <2>1, <2>2, ListedIs
<1>3. \A x : IsSeq(<<x>>) /\ Range(<<x>>) = {x}
    <2> TAKE x
    <2>1. <<x>> \in Seq({x}) /\ DOMAIN <<x>> = {1}
        OBVIOUS
    <2> QED BY <2>1, InSeq DEF Range
<1>4. ReportedAt(found, chains, locked, s) =
          IF s.from_range
          THEN IF NearestLock(locked, ScopeOf(s)) # {} THEN <<>> ELSE <<s>>
          ELSE IF sites = <<>> /\ via = <<>> THEN <<s>> ELSE (g \o <<>>) \o (h \o <<>>)
    BY DEF ReportedAt, Sightings, AtSite, AtChain
<1>5. IsSeq(g) /\ g \o <<>> = g /\ Range(g) = {AtSite(s, site) : site \in Range(sites)}
    <2>1. g = [i \in DOMAIN sites |-> g[i]] /\ \A i \in DOMAIN sites : g[i] = AtSite(s, sites[i])
        OBVIOUS
    <2> HIDE DEF g, sites
    <2>2. IsSeq(g) /\ g \o <<>> = g /\ DOMAIN g = DOMAIN sites
        BY <1>1, <2>1, MapIs
    <2>3. Range(g) = {AtSite(s, site) : site \in Range(sites)}
        BY <2>1, <2>2 DEF Range
    <2> QED BY <2>2, <2>3
<1>6. IsSeq(h) /\ h \o <<>> = h /\ Range(h) = {AtChain(s, c) : c \in Range(via)}
    <2>1. h = [i \in DOMAIN via |-> h[i]] /\ \A i \in DOMAIN via : h[i] = AtChain(s, via[i])
        OBVIOUS
    <2> HIDE DEF h, via
    <2>2. IsSeq(h) /\ h \o <<>> = h /\ DOMAIN h = DOMAIN via
        BY <1>2, <2>1, MapIs
    <2>3. Range(h) = {AtChain(s, c) : c \in Range(via)}
        BY <2>1, <2>2 DEF Range
    <2> QED BY <2>2, <2>3
<1> HIDE DEF g, h, sites, via
<1>7. IsSeq(g \o h) /\ Range(g \o h) = Range(g) \cup Range(h)
    BY <1>5, <1>6, ConcatSeq
<1>8. (sites = <<>> <=> SitesIn(all, locked, ScopeOf(s)) = {}) /\ (via = <<>> <=> ChainsTo(chains, s) = {})
    BY <1>1, <1>2, EmptyOnlyIf
<1> DEFINE K == ReportedAt(found, chains, locked, s)
<1>9. CASE s.from_range
    <2>1. CASE NearestLock(locked, ScopeOf(s)) # {}
        BY <1>4, <1>9, <2>1, EmptyIsSeq, EmptyRange DEF ReportsOf
    <2>2. CASE NearestLock(locked, ScopeOf(s)) = {}
        BY <1>3, <1>4, <1>9, <2>2 DEF ReportsOf
    <2> QED BY <2>1, <2>2
<1>10. CASE ~s.from_range
    <2>1. CASE sites = <<>> /\ via = <<>>
        BY <1>3, <1>4, <1>8, <1>10, <2>1 DEF ReportsOf
    <2>2. CASE ~(sites = <<>> /\ via = <<>>)
        <3>1. K = g \o h
            BY <1>4, <1>5, <1>6, <1>10, <2>2
        <3>2. ReportsOf(all, chains, locked, s) = Range(g) \cup Range(h)
            BY <1>1, <1>2, <1>5, <1>6, <1>8, <1>10, <2>2 DEF ReportsOf
        <3> QED BY <1>7, <3>1, <3>2
    <2> QED BY <2>1, <2>2
<1> QED BY <1>9, <1>10

AllReports(found, chains) ==
    UNION {ReportsOf(Range(found), chains, PinnedScopes(found), s) : s \in Range(found)}

LEMMA ReportsAre ==
    ASSUME NEW found, IsSeq(found), NEW chains, IsFiniteSet(chains)
    PROVE  /\ IsSeq(Reports(found, chains))
           /\ Range(Reports(found, chains)) = AllReports(found, chains)
<1> DEFINE L == PinnedScopes(found)
           g == [i \in DOMAIN found |-> ReportedAt(found, chains, L, found[i])]
<1>1. Reports(found, chains) = FlattenSeq(g \o <<>>)
    BY DEF Reports, Sightings
<1>2. /\ g = [i \in DOMAIN found |-> g[i]]
      /\ \A i \in DOMAIN found : g[i] = ReportedAt(found, chains, L, found[i])
    OBVIOUS
<1> HIDE DEF g, L
<1>3. IsSeq(g) /\ g \o <<>> = g /\ DOMAIN g = DOMAIN found
    BY <1>2, MapIs
<1>4. \A i \in DOMAIN g : /\ IsSeq(g[i])
                          /\ Range(g[i]) = ReportsOf(Range(found), chains, L, found[i])
    BY <1>2, <1>3, ReportedAtIs
<1>5. IsSeq(FlattenSeq(g)) /\ Range(FlattenSeq(g)) = UNION {Range(g[i]) : i \in DOMAIN g}
    BY <1>3, <1>4, FlattenIs
<1>6. UNION {Range(g[i]) : i \in DOMAIN g} = AllReports(found, chains)
    <2>1. {Range(g[i]) : i \in DOMAIN g}
              = {ReportsOf(Range(found), chains, L, found[i]) : i \in DOMAIN found}
        BY <1>3, <1>4
    <2>2. {ReportsOf(Range(found), chains, L, found[i]) : i \in DOMAIN found}
              = {ReportsOf(Range(found), chains, L, s) : s \in Range(found)}
        BY DEF Range
    <2> QED BY <2>1, <2>2 DEF AllReports, L
<1> QED BY <1>1, <1>3, <1>5, <1>6

\* A report is of what was found, and says why it is where it is.
IsReport(r, s, all, chains, locked) ==
    /\ IsSighting(r)
    /\ r.key = s.key /\ r.version = s.version /\ r.evidence = s.evidence
    /\ r.groups = s.groups
    /\ \/ s.from_range /\ NearestLock(locked, ScopeOf(s)) = {} /\ r = s
       \/ ~s.from_range /\ r = s
       \/ ~s.from_range /\ r.depth = s.depth /\ \E t \in all :
             /\ t.from_range /\ t.key = s.key
             /\ NearestLock(locked, ScopeOf(t)) = {ScopeOf(s).dir}
             /\ r.declared = t.evidence
       \/ ~s.from_range /\ \E c \in chains :
             c.of = s.evidence /\ r.declared = c.site /\ r.depth = c.depth

LEMMA SiteIs ==
    ASSUME NEW s, IsSighting(s), NEW site
    PROVE  /\ IsSighting(AtSite(s, site))
           /\ AtSite(s, site).declared = site /\ AtSite(s, site).key = s.key
           /\ AtSite(s, site).version = s.version /\ AtSite(s, site).evidence = s.evidence
           /\ AtSite(s, site).groups = s.groups /\ AtSite(s, site).depth = s.depth
<1>1. s = [key |-> s.key, version |-> s.version, evidence |-> s.evidence,
           declared |-> s.declared, groups |-> s.groups, from_range |-> s.from_range,
           depth |-> s.depth, editable |-> s.editable]
    BY DEF IsSighting
<1>2. AtSite(s, site) = [key |-> s.key, version |-> s.version, evidence |-> s.evidence,
           declared |-> site, groups |-> s.groups, from_range |-> s.from_range,
           depth |-> s.depth, editable |-> s.editable]
    BY <1>1 DEF AtSite
<1> QED BY <1>2 DEF IsSighting

LEMMA ChainSiteIs ==
    ASSUME NEW s, IsSighting(s), NEW c, c.depth \in Nat
    PROVE  /\ IsSighting(AtChain(s, c))
           /\ AtChain(s, c).declared = c.site /\ AtChain(s, c).key = s.key
           /\ AtChain(s, c).version = s.version /\ AtChain(s, c).evidence = s.evidence
           /\ AtChain(s, c).groups = s.groups /\ AtChain(s, c).depth = c.depth
<1>1. s = [key |-> s.key, version |-> s.version, evidence |-> s.evidence,
           declared |-> s.declared, groups |-> s.groups, from_range |-> s.from_range,
           depth |-> s.depth, editable |-> s.editable]
    BY DEF IsSighting
<1>2. AtChain(s, c) = [key |-> s.key, version |-> s.version, evidence |-> s.evidence,
           declared |-> c.site, groups |-> s.groups, from_range |-> s.from_range,
           depth |-> c.depth, editable |-> s.editable]
    <2> DEFINE a == c.site
               b == c.depth
    <2>1. AtChain(s, c) = [s EXCEPT !.declared = a, !.depth = b]
        BY DEF AtChain
    <2> HIDE DEF a, b
    <2>2. [s EXCEPT !.declared = a, !.depth = b] =
              [key |-> s.key, version |-> s.version, evidence |-> s.evidence,
               declared |-> a, groups |-> s.groups, from_range |-> s.from_range,
               depth |-> b, editable |-> s.editable]
        <3> DEFINE m == [s EXCEPT !.declared = a, !.depth = b]
        <3>1. DOMAIN s = {"key", "version", "evidence", "declared", "groups", "from_range",
                          "depth", "editable"}
            BY <1>1
        <3>2. m = [f \in DOMAIN s |-> IF f = "depth" THEN b
                                      ELSE IF f = "declared" THEN a ELSE s[f]]
            OBVIOUS
        <3> HIDE DEF m
        <3> DEFINE R == [key |-> s.key, version |-> s.version, evidence |-> s.evidence,
                         declared |-> a, groups |-> s.groups, from_range |-> s.from_range,
                         depth |-> b, editable |-> s.editable]
        <3>3. R = [f \in DOMAIN R |-> R[f]] /\ DOMAIN R = DOMAIN s
            BY <3>1
        <3>4. \A f \in DOMAIN s : R[f] = IF f = "depth" THEN b
                                        ELSE IF f = "declared" THEN a ELSE s[f]
            BY <3>1
        <3> HIDE DEF R
        <3>5. R = m
            BY <3>2, <3>3, <3>4
        <3> QED BY <3>5 DEF R, m
    <2> QED BY <2>1, <2>2 DEF a, b
<1> QED BY <1>2 DEF IsSighting

LEMMA ReportIs ==
    ASSUME NEW all, NEW chains, AreChains(chains), NEW locked, NEW s, IsFound(s),
           NEW r \in ReportsOf(all, chains, locked, s)
    PROVE  IsReport(r, s, all, chains, locked)
<1>1. IsSighting(s)
    BY DEF IsFound, SeenOf
<1>2. CASE s.from_range
    BY <1>1, <1>2 DEF ReportsOf, IsReport
<1>3. CASE ~s.from_range /\ r = s
    BY <1>1, <1>3 DEF IsReport
<1>4. CASE ~s.from_range /\ \E site \in SitesIn(all, locked, ScopeOf(s)) : r = AtSite(s, site)
    <2>1. PICK t \in all : /\ r = AtSite(s, t.evidence) /\ t.from_range
                           /\ t.key = ScopeOf(s).key
                           /\ NearestLock(locked, ScopeOf(t)) = {ScopeOf(s).dir}
        BY <1>4 DEF SitesIn
    <2>2. ScopeOf(s).key = s.key
        BY DEF ScopeOf, Scope
    <2> QED BY <1>1, <1>4, <2>1, <2>2, SiteIs DEF IsReport
<1>5. CASE ~s.from_range /\ \E c \in ChainsTo(chains, s) : r = AtChain(s, c)
    <2>1. PICK c \in chains : c.of = s.evidence /\ r = AtChain(s, c)
        BY <1>5 DEF ChainsTo
    <2>2. c.depth \in Nat
        BY DEF AreChains
    <2> QED BY <1>1, <1>5, <2>1, <2>2, ChainSiteIs DEF IsReport
<1>6. s.from_range \/ (~s.from_range /\ r = s)
      \/ (~s.from_range /\ \E site \in SitesIn(all, locked, ScopeOf(s)) : r = AtSite(s, site))
      \/ (~s.from_range /\ \E c \in ChainsTo(chains, s) : r = AtChain(s, c))
    BY DEF ReportsOf
<1> QED BY <1>2, <1>3, <1>4, <1>5, <1>6

\* The report is what all that is reported of what was found reconciles to.
LEMMA ReconcileIs ==
    ASSUME NEW found, AreFound(found), NEW chains, AreChains(chains)
    PROVE  \E kept : /\ Reconciled(kept, AllReports(found, chains))
                     /\ Reconcile(found, chains) = Range(kept)
<1> DEFINE pushes == Reports(found, chains)
<1>1. IsSeq(pushes) /\ Range(pushes) = AllReports(found, chains)
    BY ReportsAre DEF AreFound, AreChains
<1>2. ASSUME NEW r \in AllReports(found, chains) PROVE IsSighting(r)
    <2>1. PICK s \in Range(found) :
              r \in ReportsOf(Range(found), chains, PinnedScopes(found), s)
        BY DEF AllReports
    <2>2. IsFound(s)
        BY DEF AreFound, Range
    <2> QED BY <2>1, <2>2, ReportIs DEF IsReport
<1>3. Reconcile(found, chains) = Range(Kept(pushes))
    BY DEF Reconcile, ToSet, Range
<1> HIDE DEF pushes
<1>4. Reconciled(Kept(pushes), Range(pushes))
    BY <1>1, <1>2, KeptIs
<1> QED BY <1>1, <1>3, <1>4

-----------------------------------------------------------------------------
(* The order of what was found decides nothing.                             *)

LEMMA ViewOf ==
    ASSUME NEW kept, NEW kept2, NEW pushed,
           Reconciled(kept, pushed), Reconciled(kept2, pushed)
    PROVE  View(Range(kept)) \subseteq View(Range(kept2))
<1> SUFFICES ASSUME NEW i \in DOMAIN kept
             PROVE  [kind |-> Kind(kept[i]), groups |-> kept[i].groups, depth |-> kept[i].depth]
                        \in View(Range(kept2))
    BY DEF View, Range
<1>1. PICK p \in pushed : Kind(p) = Kind(kept[i]) /\ kept[i] = [p EXCEPT !.groups = kept[i].groups]
    BY DEF Reconciled
<1>2. PICK j \in DOMAIN kept2 : Kind(kept2[j]) = Kind(p)
    BY DEF Reconciled
<1>3. PICK q \in pushed : Kind(q) = Kind(kept2[j]) /\ kept2[j] = [q EXCEPT !.groups = kept2[j].groups]
    BY DEF Reconciled
<1>4. Fellows(pushed, kept[i]) = Fellows(pushed, kept2[j])
    BY <1>1, <1>2 DEF Fellows
<1>5. kept[i].groups = kept2[j].groups
    BY <1>4 DEF Reconciled
<1>6. kept[i].depth = kept2[j].depth
    <2>1. /\ IsSighting(kept[i]) /\ IsSighting(kept2[j])
          /\ kept[i].depth <= q.depth /\ kept2[j].depth <= p.depth
        BY <1>1, <1>2, <1>3 DEF Reconciled, Fellows
    <2>2. kept[i].depth = p.depth /\ kept2[j].depth = q.depth
        <3>1. \A r, g : [r EXCEPT !.groups = g].depth = r.depth \/ "depth" \notin DOMAIN r
            OBVIOUS
        <3>2. "depth" \in DOMAIN kept[i] /\ "depth" \in DOMAIN kept2[j]
            BY <2>1 DEF IsSighting
        <3>3. DOMAIN kept[i] = DOMAIN p /\ DOMAIN kept2[j] = DOMAIN q
            BY <1>1, <1>3
        <3> QED BY <1>1, <1>3, <3>1, <3>2, <3>3
    <2>3. p.depth \in Nat /\ q.depth \in Nat
        BY <2>1, <2>2 DEF IsSighting
    <2> QED BY <2>1, <2>2, <2>3
<1> QED BY <1>1, <1>2, <1>5, <1>6 DEF View, Range

\* What is reported depends on what was found as a set.
LEMMA OrderDecidesNothing ==
    ASSUME NEW found, AreFound(found), NEW found2, AreFound(found2),
           Range(found) = Range(found2), NEW chains, AreChains(chains)
    PROVE  View(Reconcile(found, chains)) = View(Reconcile(found2, chains))
<1>1. PICK kept : /\ Reconciled(kept, AllReports(found, chains))
                  /\ Reconcile(found, chains) = Range(kept)
    BY ReconcileIs
<1>2. PICK kept2 : /\ Reconciled(kept2, AllReports(found2, chains))
                   /\ Reconcile(found2, chains) = Range(kept2)
    BY ReconcileIs
<1>3. ASSUME NEW f
      PROVE  PinnedScopes(f) = {ScopeOf(s) : s \in {t \in Range(f) : ~t.from_range}}
    <2>1. Pins(f) = {t \in Range(f) : ~t.from_range}
        BY DEF Pins, Range
    <2> QED BY <2>1 DEF PinnedScopes
<1>4. AllReports(found, chains) = AllReports(found2, chains)
    BY <1>3 DEF AllReports
<1> QED BY <1>1, <1>2, <1>4, ViewOf

-----------------------------------------------------------------------------
(* The walk.                                                                *)

LEMMA NormalByStep ==
    ASSUME NEW path, IsSeq(path)
    PROVE  \E at : /\ at[0] = <<>>
                   /\ \A n \in 1..Len(path) : at[n] = Into(at[n - 1], path[n])
                   /\ Normal(path) = at[Len(path)]
<1> DEFINE Upto(m, g) == g = [n \in 0..m |-> IF n = 0 THEN <<>> ELSE Into(g[n - 1], path[n])]
           S == {m \in Nat : \E g : Upto(m, g)}
<1>1. 0 \in S
    <2> DEFINE g == [n \in 0..0 |-> <<>>]
    <2>1. g = [n \in 0..0 |-> IF n = 0 THEN <<>> ELSE Into(g[n - 1], path[n])]
        OBVIOUS
    <2> QED BY <2>1
<1>2. ASSUME NEW m \in S PROVE m + 1 \in S
    <2>1. PICK g : Upto(m, g)
        OBVIOUS
    <2> DEFINE h == [n \in 0..m + 1 |-> IF n = m + 1 THEN Into(g[m], path[m + 1]) ELSE g[n]]
    <2>2. ASSUME NEW n \in 0..m + 1
          PROVE  h[n] = IF n = 0 THEN <<>> ELSE Into(h[n - 1], path[n])
        <3>1. CASE n = m + 1
            BY <3>1
        <3>2. CASE n \in 0..m
            BY <2>1, <3>2
        <3> QED BY <3>1, <3>2
    <2>3. Upto(m + 1, h)
        BY <2>2
    <2>4. \E q : Upto(m + 1, q)
        BY <2>3
    <2> HIDE DEF Upto
    <2> QED BY <2>4
<1>3. S = Nat
    <2>1. S \subseteq Nat
        OBVIOUS
    <2> HIDE DEF S
    <2> QED BY <1>1, <1>2, <2>1, SetInduction
<1>4. Len(path) \in Nat
    BY SeqIs
<1>5. \E g : Upto(Len(path), g)
    BY <1>3, <1>4
<1> DEFINE at == CHOOSE g : Upto(Len(path), g)
<1>6. Upto(Len(path), at)
    BY <1>5
<1>7. Normal(path) = at[Len(path)]
    BY DEF Normal
<1> HIDE DEF at
<1>8. at[0] = <<>>
    BY <1>4, <1>6
<1>9. ASSUME NEW n \in 1..Len(path)
      PROVE  at[n] = Into(at[n - 1], path[n])
    <2>1. n \in 0..Len(path) /\ n # 0
        BY <1>4
    <2> QED BY <1>6, <2>1
<1> QED BY <1>7, <1>8, <1>9

\* A path that ends in a name leads to a file of that name.
LEMMA NormalKeepsName ==
    ASSUME NEW path, IsSeq(path), path # <<>>, Last(path) # ".."
    PROVE  Last(Normal(path)) = Last(path)
<1>1. PICK at : /\ at[0] = <<>>
                /\ \A n \in 1..Len(path) : at[n] = Into(at[n - 1], path[n])
                /\ Normal(path) = at[Len(path)]
    BY NormalByStep
<1>2. Len(path) \in Nat /\ Len(path) # 0
    <2>1. Len(path) \in Nat
        BY SeqIs
    <2>2. Len(path) = 0 => path = <<>>
        BY DEF IsSeq
    <2> QED BY <2>1, <2>2
<1> DEFINE S == {n \in Nat : n <= Len(path) => IsSeq(at[n])}
<1>3. 0 \in S
    BY <1>1, EmptyIsSeq
<1>4. ASSUME NEW m \in S PROVE m + 1 \in S
    <2> SUFFICES ASSUME m + 1 <= Len(path) PROVE IsSeq(at[m + 1])
        OBVIOUS
    <2>1. m + 1 \in 1..Len(path) /\ (m + 1) - 1 = m /\ m <= Len(path)
        BY <1>2
    <2>2. at[m + 1] = Into(at[m], path[m + 1]) /\ IsSeq(at[m])
        BY <1>1, <2>1
    <2> QED BY <2>2, FrontIs, AppendSeq DEF Into
<1>5. S = Nat
    <2>1. S \subseteq Nat
        OBVIOUS
    <2> HIDE DEF S
    <2> QED BY <1>3, <1>4, <2>1, SetInduction
<1> DEFINE before == at[Len(path) - 1]
<1>6. IsSeq(before)
    <2>1. Len(path) - 1 \in Nat /\ Len(path) - 1 <= Len(path)
        BY <1>2
    <2>2. Len(path) - 1 \in S
        BY <1>5, <2>1
    <2> QED BY <2>1, <2>2
<1>7. Normal(path) = Into(before, Last(path))
    BY <1>1, <1>2 DEF Last
<1> HIDE DEF before
<1>8. Normal(path) = Append(before, Last(path))
    BY <1>7 DEF Into
<1>9. Last(Append(before, Last(path))) = Last(path)
    <2> DEFINE x == Last(path)
    <2> HIDE DEF x
    <2>1. before \in Seq(Range(before) \cup {x})
        BY <1>6, SeqOver
    <2>2. Len(before) \in Nat
        BY <1>6, SeqIs
    <2>3. Len(Append(before, x)) = Len(before) + 1 /\ Append(before, x)[Len(before) + 1] = x
        BY <2>1, <2>2
    <2>4. Last(Append(before, x)) = x
        BY <2>3 DEF Last
    <2> QED BY <2>4 DEF x
<1> QED BY <1>8, <1>9

AreLocks(l) ==
    /\ IsFiniteSet(DOMAIN l)
    /\ \A dir \in DOMAIN l :
          /\ IsSeq(l[dir].path) /\ l[dir].path # <<>> /\ DirOf(l[dir].path) = dir
          /\ Last(l[dir].path) \in LockNames /\ IsSeq(l[dir].tree)
\* No lockfile says so, and no other file pins what is on npm.
OutsideLocks(found) ==
    \A i \in DOMAIN found :
        /\ Last(found[i].evidence[1]) \notin LockNames
        /\ found[i].key.eco = "npm" => found[i].from_range
AreIncludes(seq) == IsSeq(seq) /\ \A i \in DOMAIN seq : IsInclude(seq[i])

FilesGood ==
    /\ project \in DOMAIN Projects
    /\ DOMAIN Project.texts \subseteq DOMAIN files
    /\ \A path \in DOMAIN files : IsPath(path) /\ IsText(path, files[path])
WalkGood ==
    /\ todo \subseteq DOMAIN files
    /\ AreFound(sightings) /\ OutsideLocks(sightings)
    /\ AreIncludes(includes)
    /\ AreDeclared(manifests)
    /\ AreLocks(locks)
ReportGood == Done => packages = Reconcile(Found, Chains)

\* Everything the walk keeps is well formed, and what it returns is what it made
\* of it.
ExtractionInv == FilesGood /\ WalkGood /\ ReportGood

LEMMA NothingIsGood ==
    /\ AreFound(<<>>) /\ OutsideLocks(<<>>) /\ AreIncludes(<<>>)
    /\ AreDeclared(<<>>) /\ AreLocks(<<>>)
<1>1. DOMAIN <<>> = {} /\ IsFiniteSet({})
    BY FS_EmptySet
<1> QED BY <1>1, EmptyIsSeq
       DEF AreFound, OutsideLocks, AreIncludes, AreDeclared, AreLocks

LEMMA FilesInit ==
    ASSUME ExtractionInit
    PROVE  FilesGood
BY ExtractionAssumption DEF ExtractionInit, FilesGood, Project

LEMMA ExtractionInvInit == ExtractionInit => ExtractionInv
<1> SUFFICES ASSUME ExtractionInit PROVE ExtractionInv
    OBVIOUS
<1>1. WalkGood
    BY NothingIsGood DEF ExtractionInit, NothingSeen, WalkGood
<1>2. ReportGood
    BY DEF ExtractionInit, ReportGood, Done
<1> QED BY <1>1, <1>2, FilesInit DEF ExtractionInv

LEMMA SeenAt ==
    ASSUME NEW found, NEW path, AllSeen(found, path), NEW i \in DOMAIN found
    PROVE  found[i].evidence[1] = path
<1>1. found[i].evidence = <<path, found[i].evidence[2]>>
    BY DEF AllSeen, SeenOf
<1> QED BY <1>1

\* What was seen in a file is found there.
LEMMA SeenIsFound ==
    ASSUME NEW found, NEW path, AllSeen(found, path), IsSeq(path), path # <<>>
    PROVE  AreFound(found)
<1>1. ASSUME NEW i \in DOMAIN found PROVE IsFound(found[i])
    <2>1. SeenOf(found[i], path)
        BY DEF AllSeen
    <2>2. found[i].evidence = <<path, found[i].evidence[2]>>
        BY <2>1 DEF SeenOf
    <2>3. found[i].evidence[1] = path
        BY <2>2
    <2> QED BY <2>1, <2>3 DEF IsFound
<1> QED BY <1>1 DEF AreFound, AllSeen

LEMMA ConcatFound ==
    ASSUME NEW a, NEW b, AreFound(a), AreFound(b)
    PROVE  /\ AreFound(a \o b)
           /\ Range(a \o b) = Range(a) \cup Range(b)
           /\ OutsideLocks(a) /\ OutsideLocks(b) => OutsideLocks(a \o b)
<1>1. IsSeq(a \o b) /\ Range(a \o b) = Range(a) \cup Range(b)
    BY ConcatSeq DEF AreFound
<1>2. \A i \in DOMAIN (a \o b) : (\E j \in DOMAIN a : (a \o b)[i] = a[j])
                                     \/ (\E j \in DOMAIN b : (a \o b)[i] = b[j])
    BY <1>1 DEF Range
<1> QED BY <1>1, <1>2 DEF AreFound, OutsideLocks

LEMMA ConcatIncludes ==
    ASSUME NEW a, NEW b, AreIncludes(a), AreIncludes(b)
    PROVE  AreIncludes(a \o b)
<1>1. IsSeq(a \o b) /\ Range(a \o b) = Range(a) \cup Range(b)
    BY ConcatSeq DEF AreIncludes
<1>2. \A i \in DOMAIN (a \o b) : (\E j \in DOMAIN a : (a \o b)[i] = a[j])
                                     \/ (\E j \in DOMAIN b : (a \o b)[i] = b[j])
    BY <1>1 DEF Range
<1> QED BY <1>1, <1>2 DEF AreIncludes

\* A file that is walked is read as it is.
LEMMA WalkedIsRead ==
    ASSUME FilesGood, NEW path \in DOMAIN files
    PROVE  /\ Read(path) \in {files[path], Unreadable}
           /\ IsSeq(path) /\ path # <<>> /\ IsText(path, files[path])
    BY DEF FilesGood, IsPath, Read

\* And so is what is included, for what it is.
LEMMA IncludedIsRead ==
    ASSUME FilesGood, NEW path, IsInclude(path), Read(path) # Unreadable
    PROVE  IsSeq(Read(path)) /\ \A i \in DOMAIN Read(path) : Includes(Read(path)[i])
<1>1. Read(path) = files[Normal(path)] /\ Normal(path) \in DOMAIN files
    BY DEF Read
<1>2. IsText(Normal(path), Read(path)) /\ Last(Normal(path)) = Last(path)
    BY <1>1, NormalKeepsName DEF FilesGood, IsInclude
<1> QED BY <1>2 DEF IsText, IsInclude, ManifestNames

LEMMA RequirementsFound ==
    ASSUME NEW file, IsSeq(file), NEW path, IsSeq(path), path # <<>>, Last(path) \notin LockNames
    PROVE  AreFound(Requirements(file, path)) /\ OutsideLocks(Requirements(file, path))
<1>1. AreFound(Requirements(file, path))
    BY RequirementsIs, SeenIsFound
<1>2. "PyPI" # "npm"
    OBVIOUS
<1>3. \A i \in DOMAIN Requirements(file, path) : Requirements(file, path)[i].evidence[1] = path
    BY RequirementsIs, SeenAt
<1> QED BY <1>1, <1>2, <1>3, RequirementsIs DEF OutsideLocks

LEMMA LastInclude ==
    ASSUME NEW seq, AreIncludes(seq), seq # <<>>
    PROVE  IsInclude(Last(seq))
<1>1. Len(seq) \in Nat /\ DOMAIN seq = 1..Len(seq) /\ Len(seq) # 0
    <2>1. Len(seq) = 0 => seq = <<>>
        BY DEF AreIncludes, IsSeq
    <2> QED BY <2>1, SeqIs DEF AreIncludes
<1>2. Len(seq) \in DOMAIN seq
    BY <1>1
<1> QED BY <1>2 DEF AreIncludes, Last

LEMMA FollowsIncludeStep ==
    ASSUME ExtractionInv, FollowsInclude
    PROVE  WalkGood'
<1> DEFINE path == Last(includes)
           file == Read(path)
<1>1. AreIncludes(includes) /\ includes # <<>> /\ AreFound(sightings) /\ OutsideLocks(sightings)
    BY DEF ExtractionInv, WalkGood, FollowsInclude
<1>2. IsInclude(path)
    BY <1>1, LastInclude
<1>3. AreIncludes(Front(includes))
    <2>1. IsSeq(Front(includes)) /\ DOMAIN Front(includes) = 1..Len(includes) - 1
          /\ \A i \in 1..Len(includes) - 1 : Front(includes)[i] = includes[i]
        <3>1. includes \in Seq(Range(includes)) /\ Len(includes) \in Nat
            BY <1>1, SeqIs DEF AreIncludes, IsSeq
        <3> DEFINE V == Range(includes)
        <3>2. includes \in Seq(V)
            BY <3>1
        <3> HIDE DEF V
        <3>3. SubSeq(includes, 1, Len(includes) - 1) \in Seq(V)
            BY <3>1, <3>2
        <3>4. DOMAIN SubSeq(includes, 1, Len(includes) - 1) = 1..Len(includes) - 1
              /\ \A i \in 1..Len(includes) - 1 :
                     SubSeq(includes, 1, Len(includes) - 1)[i] = includes[i]
            BY <3>1, <3>2
        <3> QED BY <3>3, <3>4, InSeq DEF Front
    <2>2. 1..Len(includes) - 1 \subseteq DOMAIN includes
        BY <1>1, SeqIs DEF AreIncludes
    <2> QED BY <1>1, <2>1, <2>2 DEF AreIncludes
<1>4. AreIncludes(<<>>) /\ AreFound(<<>>) /\ OutsideLocks(<<>>)
    BY NothingIsGood
<1>5. file # Unreadable =>
          /\ AreIncludes(Included(file, path))
          /\ AreFound(Requirements(file, path)) /\ OutsideLocks(Requirements(file, path))
    <2> SUFFICES ASSUME file # Unreadable
                 PROVE  /\ AreIncludes(Included(file, path))
                        /\ AreFound(Requirements(file, path))
                        /\ OutsideLocks(Requirements(file, path))
        OBVIOUS
    <2>1. IsSeq(file) /\ \A i \in DOMAIN file : Includes(file[i])
        BY <1>2, IncludedIsRead DEF ExtractionInv
    <2>2. IsSeq(path) /\ path # <<>> /\ Last(path) \notin LockNames
        BY <1>2 DEF IsInclude, ManifestNames
    <2> HIDE DEF path, file
    <2> QED BY <2>1, <2>2, IncludedIs, RequirementsFound DEF AreIncludes
<1>6. \E more, seen :
          /\ AreIncludes(more) /\ AreFound(seen) /\ OutsideLocks(seen)
          /\ includes' = Front(includes) \o more /\ sightings' = sightings \o seen
    <2>1. \/ includes' = Front(includes) \o Included(file, path)
             /\ sightings' = sightings \o Requirements(file, path) /\ file # Unreadable
          \/ includes' = Front(includes) \o <<>> /\ sightings' = sightings \o <<>>
        BY DEF FollowsInclude
    <2> HIDE DEF path, file
    <2> QED BY <1>4, <1>5, <2>1
<1>7. PICK more, seen :
          /\ AreIncludes(more) /\ AreFound(seen) /\ OutsideLocks(seen)
          /\ includes' = Front(includes) \o more /\ sightings' = sightings \o seen
    BY <1>6
<1>8. AreIncludes(includes') /\ AreFound(sightings') /\ OutsideLocks(sightings')
    BY <1>1, <1>3, <1>7, ConcatIncludes, ConcatFound
<1> QED BY <1>8 DEF ExtractionInv, WalkGood, FollowsInclude

LEMMA WithIs ==
    ASSUME NEW f, NEW x, NEW v
    PROVE  /\ DOMAIN With(f, x, v) = DOMAIN f \cup {x}
           /\ With(f, x, v)[x] = v
           /\ \A y \in DOMAIN f \ {x} : With(f, x, v)[y] = f[y]
    BY DEF With

LEMMA LocksWith ==
    ASSUME NEW l, AreLocks(l), NEW dir, NEW held,
           IsSeq(held.path), held.path # <<>>, DirOf(held.path) = dir,
           Last(held.path) \in LockNames, IsSeq(held.tree)
    PROVE  AreLocks(With(l, dir, held))
<1> DEFINE m == With(l, dir, held)
<1>1. /\ DOMAIN m = DOMAIN l \cup {dir}
      /\ m[dir] = held
      /\ \A d \in DOMAIN l \ {dir} : m[d] = l[d]
    BY DEF With
<1> HIDE DEF m
<1>2. IsFiniteSet(DOMAIN m)
    BY <1>1, FS_AddElement DEF AreLocks
<1>3. ASSUME NEW d \in DOMAIN m
      PROVE  /\ IsSeq(m[d].path) /\ m[d].path # <<>> /\ DirOf(m[d].path) = d
             /\ Last(m[d].path) \in LockNames /\ IsSeq(m[d].tree)
    <2>1. CASE d = dir
        BY <1>1, <2>1
    <2>2. CASE d # dir
        BY <1>1, <2>2 DEF AreLocks
    <2> QED BY <2>1, <2>2
<1>4. AreLocks(m)
    BY <1>2, <1>3 DEF AreLocks
<1> QED BY <1>4 DEF m

LEMMA DeclaredWith ==
    ASSUME NEW mf, AreDeclared(mf), NEW path, IsSeq(path), path # <<>>,
           NEW D, IsSeq(D), \A i \in DOMAIN D : D[i].site = <<path, D[i].site[2]>>
    PROVE  AreDeclared(With(mf, path, D))
<1> DEFINE m == With(mf, path, D)
<1>1. /\ DOMAIN m = DOMAIN mf \cup {path}
      /\ m[path] = D
      /\ \A p \in DOMAIN mf \ {path} : m[p] = mf[p]
    BY DEF With
<1> HIDE DEF m
<1>2. ASSUME NEW p \in DOMAIN m
      PROVE  /\ IsSeq(p) /\ p # <<>> /\ IsSeq(m[p])
             /\ \A i \in DOMAIN m[p] : m[p][i].site = <<p, m[p][i].site[2]>>
    <2>1. CASE p = path
        BY <1>1, <2>1
    <2>2. CASE p # path
        BY <1>1, <2>2 DEF AreDeclared
    <2> QED BY <2>1, <2>2
<1>3. AreDeclared(m)
    BY <1>2 DEF AreDeclared
<1> QED BY <1>3 DEF m

LEMMA HoldsLockStep ==
    ASSUME ExtractionInv, NEW path \in todo, HoldsLock(path)
    PROVE  WalkGood'
<1> DEFINE dir == DirOf(path)
           held == [path |-> path, tree |-> Tree(files[path])]
<1>1. path \in DOMAIN files /\ Last(path) \in LockNames /\ Read(path) # Unreadable
    BY DEF ExtractionInv, WalkGood, HoldsLock, Parsed
<1>2. /\ Read(path) = files[path]
      /\ IsSeq(path) /\ path # <<>> /\ IsText(path, files[path])
    BY <1>1, WalkedIsRead DEF ExtractionInv
<1>3. IsSeq(Tree(files[path]))
    BY <1>1, <1>2, TreeIs DEF IsText
<1>4. AreLocks(locks)
    BY DEF ExtractionInv, WalkGood
<1>5. /\ IsSeq(held.path) /\ held.path # <<>> /\ DirOf(held.path) = dir
      /\ Last(held.path) \in LockNames /\ IsSeq(held.tree)
    BY <1>1, <1>2, <1>3
<1>6. locks' = locks \/ locks' = With(locks, dir, held)
    BY DEF HoldsLock
<1> HIDE DEF held, dir
<1>7. AreLocks(With(locks, dir, held))
    BY <1>4, <1>5, LocksWith
<1>8. AreLocks(locks')
    BY <1>4, <1>6, <1>7
<1> QED BY <1>8 DEF ExtractionInv, WalkGood, HoldsLock, Enters

LEMMA ReadsManifestStep ==
    ASSUME ExtractionInv, NEW path \in todo, ReadsManifest(path)
    PROVE  WalkGood'
<1> DEFINE file == Read(path)
           name == Last(path)
<1>1. path \in DOMAIN files /\ name \notin LockNames /\ name \in ManifestNames /\ file # Unreadable
    BY DEF ExtractionInv, WalkGood, ReadsManifest, Parsed
<1>2. file = files[path] /\ IsSeq(path) /\ path # <<>> /\ IsText(path, file)
    BY <1>1, WalkedIsRead DEF ExtractionInv
<1>3. IsSeq(file)
    BY <1>1, <1>2 DEF IsText
<1>4. /\ AreFound(sightings) /\ OutsideLocks(sightings) /\ AreIncludes(includes)
      /\ AreDeclared(manifests)
    BY DEF ExtractionInv, WalkGood
<1>5. AreFound(sightings') /\ OutsideLocks(sightings')
    <2>1. sightings' = sightings \o Parse(file, path)
        BY DEF ReadsManifest
    <2> HIDE DEF file
    <2>2. AllSeen(Parse(file, path), path) /\ OutsideLocks(Parse(file, path))
        BY <1>1, <1>2, ParseIs, SeenAt DEF OutsideLocks
    <2>3. AreFound(Parse(file, path))
        BY <1>2, <2>2, SeenIsFound
    <2> QED BY <1>4, <2>1, <2>2, <2>3, ConcatFound
<1>6. AreIncludes(includes')
    <2>1. CASE name \in RequirementsNames
        <3>1. includes' = includes \o Included(file, path)
            BY <2>1 DEF ReadsManifest
        <3>2. \A i \in DOMAIN file : Includes(file[i])
            BY <1>1, <1>2, <2>1 DEF IsText
        <3> HIDE DEF file
        <3> QED BY <1>2, <1>3, <1>4, <3>1, <3>2, IncludedIs, ConcatIncludes DEF AreIncludes
    <2>2. CASE name \notin RequirementsNames
        <3>1. includes' = includes \o <<>>
            BY <2>2 DEF ReadsManifest
        <3> QED BY <1>4, <3>1, NothingIsGood, ConcatIncludes
    <2> QED BY <2>1, <2>2
<1>7. AreDeclared(manifests')
    <2>1. CASE name = "package.json"
        <3> DEFINE D == Declarations(file, path)
        <3>1. manifests' = With(manifests, path, D)
            BY <2>1 DEF ReadsManifest
        <3>2. IsSeq(D) /\ \A i \in DOMAIN D : D[i].site = <<path, D[i].site[2]>>
            <4> HIDE DEF file
            <4> QED BY <1>3, DeclarationsIs
        <3> HIDE DEF D
        <3>3. AreDeclared(With(manifests, path, D))
            BY <1>2, <1>4, <3>2, DeclaredWith
        <3> QED BY <3>1, <3>3
    <2>2. CASE name # "package.json"
        BY <1>4, <2>2 DEF ReadsManifest
    <2> QED BY <2>1, <2>2
<1> QED BY <1>5, <1>6, <1>7 DEF ExtractionInv, WalkGood, ReadsManifest, Enters

\* What is found and what the graph says rest on what the walk holds.
FoundVars == <<sightings, cargoSelf, manifests, locks>>

LEMMA FoundStays ==
    ASSUME UNCHANGED FoundVars
    PROVE  Found' = Found /\ Chains' = Chains
<1>1. Locked' = Locked
    BY DEF FoundVars, Locked, Sightings
<1>2. Found = Picked(sightings \o Locked, {i \in DOMAIN (sightings \o Locked) :
                                              ~IsOwnCrate((sightings \o Locked)[i])})
    BY DEF Found, Retained, Where
<1>3. Found' = Picked((sightings \o Locked)', {i \in DOMAIN (sightings \o Locked)' :
                                              ~IsOwnCrate((sightings \o Locked)[i])'})
    BY DEF Found, Retained, Where
<1>4. Found' = Found
    BY <1>1, <1>2, <1>3 DEF FoundVars, IsOwnCrate
<1>5. Chains' = Chains
    BY DEF FoundVars, Chains
<1> QED BY <1>4, <1>5

\* Every step of the walk keeps what it holds well formed.
LEMMA ExtractionInvStep == ExtractionInv /\ [Extracts]_extractionVars => ExtractionInv'
<1> SUFFICES ASSUME ExtractionInv, [Extracts]_extractionVars PROVE ExtractionInv'
    OBVIOUS
<1>1. CASE UNCHANGED extractionVars
    <2>1. FilesGood' /\ WalkGood'
        BY <1>1 DEF extractionVars, walkVars, ExtractionInv, FilesGood, WalkGood, Project
    <2>2. Found' = Found /\ Chains' = Chains
        BY <1>1, FoundStays DEF extractionVars, walkVars, FoundVars
    <2>3. ReportGood'
        BY <1>1, <2>2 DEF extractionVars, ExtractionInv, ReportGood, Done
    <2> QED BY <2>1, <2>3 DEF ExtractionInv
<1>2. ASSUME NEW path \in todo, PassesOver(path) PROVE ExtractionInv'
    <2>1. FilesGood' /\ WalkGood'
        BY <1>2 DEF PassesOver, Enters, ExtractionInv, FilesGood, WalkGood, Project
    <2>2. ReportGood'
        BY <1>2 DEF PassesOver, Enters, Walking, ReportGood, Done
    <2> QED BY <2>1, <2>2 DEF ExtractionInv
<1>3. ASSUME NEW path \in todo, HoldsLock(path) PROVE ExtractionInv'
    <2>1. FilesGood'
        BY <1>3 DEF HoldsLock, Enters, ExtractionInv, FilesGood, Project
    <2>2. ReportGood'
        BY <1>3 DEF HoldsLock, Enters, Walking, ReportGood, Done
    <2> QED BY <1>3, <2>1, <2>2, HoldsLockStep DEF ExtractionInv
<1>4. ASSUME NEW path \in todo, ReadsManifest(path) PROVE ExtractionInv'
    <2>1. FilesGood'
        BY <1>4 DEF ReadsManifest, Enters, ExtractionInv, FilesGood, Project
    <2>2. ReportGood'
        BY <1>4 DEF ReadsManifest, Enters, Walking, ReportGood, Done
    <2> QED BY <1>4, <2>1, <2>2, ReadsManifestStep DEF ExtractionInv
<1>5. CASE WalkEnds
    BY <1>5 DEF WalkEnds, walkVars, ExtractionInv, FilesGood, WalkGood, ReportGood, Project, Done
<1>6. CASE FollowsInclude
    <2>1. FilesGood'
        BY <1>6 DEF FollowsInclude, ExtractionInv, FilesGood, Project
    <2>2. ReportGood'
        BY <1>6 DEF FollowsInclude, ReportGood, Done
    <2> QED BY <1>6, <2>1, <2>2, FollowsIncludeStep DEF ExtractionInv
<1>7. CASE Reconciles
    <2>1. FilesGood' /\ WalkGood'
        BY <1>7 DEF Reconciles, walkVars, ExtractionInv, FilesGood, WalkGood, Project
    <2>2. Found' = Found /\ Chains' = Chains
        BY <1>7, FoundStays DEF Reconciles, walkVars, FoundVars
    <2>3. packages' = Reconcile(Found, Chains)
        BY <1>7 DEF Reconciles, Found
    <2>4. ReportGood'
        BY <2>2, <2>3 DEF ReportGood
    <2> QED BY <2>1, <2>4 DEF ExtractionInv
<1> QED BY <1>1, <1>2, <1>3, <1>4, <1>5, <1>6, <1>7 DEF Extracts

-----------------------------------------------------------------------------
(* What is found, and what the graph says of it                            *)

\* A lockfile pins what it holds, on npm.
\* A lockfile that is held lists it.
IsOf(s, lock) == s \in Range(LockSightings(lock.tree, lock.path))

LEMMA LockedIs ==
    ASSUME WalkGood
    PROVE  /\ AreFound(Locked)
           /\ \A i \in DOMAIN Locked :
                 /\ Locked[i].key.eco = "npm" /\ ~Locked[i].from_range /\ ~Locked[i].editable
                 /\ DirOf(Locked[i].evidence[1]) \in DOMAIN locks
                 /\ \E dir \in DOMAIN locks : IsOf(Locked[i], locks[dir])
<1> DEFINE dirs == Listed(DOMAIN locks)
           seqs == Sightings(dirs, LAMBDA dir : LockSightings(locks[dir].tree, locks[dir].path))
           Good(s) == /\ IsFound(s) /\ s.key.eco = "npm" /\ ~s.from_range /\ ~s.editable
                      /\ DirOf(s.evidence[1]) \in DOMAIN locks
                      /\ \E dir \in DOMAIN locks : IsOf(s, locks[dir])
<1>1. IsSeq(dirs) /\ Range(dirs) = DOMAIN locks
    BY ListedIs DEF WalkGood, AreLocks
<1>2. IsSeq(seqs) /\ DOMAIN seqs = DOMAIN dirs
      /\ \A i \in DOMAIN dirs :
            seqs[i] = LockSightings(locks[dirs[i]].tree, locks[dirs[i]].path)
    <2> DEFINE g == [i \in DOMAIN dirs |->
                        LockSightings(locks[dirs[i]].tree, locks[dirs[i]].path)]
    <2>1. seqs = g \o <<>>
        BY DEF Sightings
    <2> HIDE DEF dirs
    <2>2. g = [i \in DOMAIN dirs |-> g[i]]
        OBVIOUS
    <2>3. IsSeq(g) /\ g \o <<>> = g /\ DOMAIN g = DOMAIN dirs
        <3> HIDE DEF g
        <3> QED BY <1>1, <2>2, MapIs
    <2> QED BY <2>1, <2>3
<1>3. ASSUME NEW i \in DOMAIN seqs
      PROVE  IsSeq(seqs[i]) /\ \A j \in DOMAIN seqs[i] : Good(seqs[i][j])
    <2> DEFINE dir == dirs[i]
               seen == LockSightings(locks[dir].tree, locks[dir].path)
    <2>1. dir \in DOMAIN locks
        BY <1>1, <1>2 DEF Range
    <2>2. /\ IsSeq(locks[dir].path) /\ locks[dir].path # <<>> /\ DirOf(locks[dir].path) = dir
          /\ IsSeq(locks[dir].tree)
        BY <2>1 DEF WalkGood, AreLocks
    <2>3. seqs[i] = seen
        BY <1>2
    <2> HIDE DEF dir, seqs, dirs
    <2>4. AllSeen(seen, locks[dir].path)
        BY <2>2, LockSightingsIs
    <2>5. AreFound(seen)
        <3> HIDE DEF seen
        <3> QED BY <2>2, <2>4, SeenIsFound
    <2>6. ASSUME NEW j \in DOMAIN seen PROVE Good(seen[j])
        <3>1. seen[j].evidence[1] = locks[dir].path
            <4> HIDE DEF seen
            <4> QED BY <2>4, SeenAt
        <3>2. seen[j].key.eco = "npm" /\ ~seen[j].from_range /\ ~seen[j].editable
            BY <2>2, LockSightingsIs
        <3>3. IsOf(seen[j], locks[dir])
            BY DEF IsOf, Range
        <3> HIDE DEF seen
        <3> QED BY <2>1, <2>2, <2>5, <3>1, <3>2, <3>3 DEF AreFound
    <2>7. IsSeq(seen)
        BY <2>5 DEF AreFound
    <2> HIDE DEF seen, Good
    <2> QED BY <2>3, <2>6, <2>7
<1>4. Locked = FlattenSeq(seqs)
    BY DEF Locked
<1> HIDE DEF seqs, dirs, Good
<1>5. IsSeq(Locked) /\ Range(Locked) = UNION {Range(seqs[i]) : i \in DOMAIN seqs}
    BY <1>2, <1>3, <1>4, FlattenIs
<1>6. ASSUME NEW i \in DOMAIN Locked PROVE Good(Locked[i])
    <2>1. Locked[i] \in Range(Locked)
        BY DEF Range
    <2>2. PICK k \in DOMAIN seqs : Locked[i] \in Range(seqs[k])
        BY <1>5, <2>1
    <2>3. PICK j \in DOMAIN seqs[k] : Locked[i] = seqs[k][j]
        BY <2>2 DEF Range
    <2> QED BY <1>3, <2>3
<1> QED BY <1>5, <1>6 DEF Good, AreFound

\* What is left of it when the project's own crates are dropped: only a lockfile
\* pins what is on npm, and it says so itself.
LEMMA FoundIs ==
    ASSUME WalkGood
    PROVE  /\ AreFound(Found)
           /\ \A i \in DOMAIN Found :
                 /\ Found[i].key.eco = "npm" /\ ~Found[i].from_range =>
                       DirOf(Found[i].evidence[1]) \in DOMAIN locks
                 /\ Last(Found[i].evidence[1]) \in LockNames =>
                       Found[i].key.eco = "npm" /\ ~Found[i].from_range
                 /\ \/ \E j \in DOMAIN sightings : Found[i] = sightings[j]
                    \/ \E dir \in DOMAIN locks : IsOf(Found[i], locks[dir])
<1> DEFINE both == sightings \o Locked
           places == {i \in DOMAIN both : ~IsOwnCrate(both[i])}
<1>1. AreFound(both) /\ Range(both) = Range(sightings) \cup Range(Locked)
    BY LockedIs, ConcatFound DEF WalkGood
<1>2. Found = Picked(both, places)
    BY DEF Found, Retained, Where
<1> HIDE DEF both, places
<1>3. /\ IsSeq(Found)
      /\ \A i \in DOMAIN Found : \E j \in DOMAIN both \cap places : Found[i] = both[j]
    BY <1>1, <1>2, PickedSome DEF AreFound
<1>4. AreFound(Found)
    BY <1>1, <1>3 DEF AreFound
<1>5. \A i \in DOMAIN Found : \/ \E j \in DOMAIN sightings : Found[i] = sightings[j]
                              \/ \E j \in DOMAIN Locked : Found[i] = Locked[j]
    BY <1>1, <1>3 DEF Range
<1>6. OutsideLocks(sightings)
    BY DEF WalkGood
<1> QED BY <1>4, <1>5, <1>6, LockedIs DEF OutsideLocks

\* A chain is of a lockfile, and ends at a manifest that has none nearer.
IsChain(c) ==
    \E dir \in DOMAIN locks, p \in DOMAIN manifests :
        /\ c.of[1] = locks[dir].path
        /\ c.site = <<p, c.site[2]>> /\ c.depth \in Nat /\ c.depth > 0
        /\ NearestIn(Front(p), DOMAIN locks) = {dir}

LEMMA ChainsIs ==
    ASSUME WalkGood
    PROVE  AreChains(Chains) /\ \A c \in Chains : IsChain(c)
<1> DEFINE Says(dir) == Attribute(locks[dir].tree, dir, manifests, DOMAIN locks)
           chain(dir) == [a \in Says(dir) |->
                             [of |-> <<locks[dir].path, a.line>>, site |-> a.site,
                              depth |-> a.depth]]
           of == [dir \in DOMAIN locks |-> {chain(dir)[a] : a \in Says(dir)}]
<1>1. Chains = UNION {of[dir] : dir \in DOMAIN locks}
    BY DEF Chains
<1>2. ASSUME NEW dir \in DOMAIN locks
      PROVE  /\ IsFiniteSet(Says(dir))
             /\ \A a \in Says(dir) : IsAnswer(a, dir, manifests, DOMAIN locks)
    BY AttributeIs DEF WalkGood, AreLocks
<1>3. ASSUME NEW dir \in DOMAIN locks PROVE IsFiniteSet(of[dir])
    <2> DEFINE S == Says(dir)
               g == chain(dir)
    <2>1. IsFiniteSet(S) /\ DOMAIN g = S /\ g = [a \in DOMAIN g |-> g[a]]
        BY <1>2
    <2>2. of[dir] = {g[a] : a \in S}
        OBVIOUS
    <2> HIDE DEF g, S, of
    <2> QED BY <2>1, <2>2, FiniteRange
<1>4. IsFiniteSet(Chains)
    <2>1. IsFiniteSet(DOMAIN locks)
        BY DEF WalkGood, AreLocks
    <2> HIDE DEF of
    <2> QED BY <1>1, <1>3, <2>1, FiniteUnion
<1>5. ASSUME NEW c \in Chains PROVE IsChain(c)
    <2>1. PICK dir \in DOMAIN locks : c \in of[dir]
        BY <1>1
    <2>2. PICK a \in Says(dir) :
              c = [of |-> <<locks[dir].path, a.line>>, site |-> a.site, depth |-> a.depth]
        BY <2>1
    <2>3. c.of[1] = locks[dir].path /\ c.site = a.site /\ c.depth = a.depth
        BY <2>2
    <2>4. IsAnswer(a, dir, manifests, DOMAIN locks)
        BY <1>2
    <2> HIDE DEF Says
    <2> QED BY <2>3, <2>4 DEF IsChain, IsAnswer
<1>6. ASSUME NEW c \in Chains
      PROVE  c.depth \in Nat /\ c.depth > 0 /\ c.site = <<c.site[1], c.site[2]>>
    <2>1. PICK p \in DOMAIN manifests : c.site = <<p, c.site[2]>> /\ c.depth \in Nat /\ c.depth > 0
        BY <1>5 DEF IsChain
    <2>2. c.site[1] = p
        BY <2>1
    <2> QED BY <2>1, <2>2
<1> QED BY <1>4, <1>5, <1>6 DEF AreChains

-----------------------------------------------------------------------------
(* Which lockfile governs what is reported                                 *)

\* The deepest of some places at or above a directory.
Deepest(dir, at) == {SubSeq(dir, 1, n) : n \in {m \in at : \A k \in at : k <= m}}

LEMMA DeepestIs ==
    ASSUME NEW dir, IsSeq(dir), NEW at, at \subseteq 0..Len(dir), NEW D, D = Deepest(dir, at)
    PROVE  /\ at = {} => D = {}
           /\ at # {} => \E n \in at : \A k \in at : k <= n
           /\ \A n \in at : (\A k \in at : k <= n) => D = {SubSeq(dir, 1, n)}
<1>1. ASSUME at # {} PROVE \E n \in at : \A k \in at : k <= n
    <2>1. Len(dir) \in Nat
        BY SeqIs
    <2> QED BY <1>1, <2>1, LastPlace
<1>2. ASSUME NEW n \in at, \A k \in at : k <= n PROVE D = {SubSeq(dir, 1, n)}
    <2>1. Len(dir) \in Nat /\ \A m \in at : m \in Int
        BY SeqIs
    <2>2. ASSUME NEW m \in at, \A k \in at : k <= m PROVE m = n
        <3>1. n <= m /\ m <= n /\ m \in Int /\ n \in Int
            BY <1>2, <2>1, <2>2
        <3> QED BY <3>1
    <2>3. {m \in at : \A k \in at : k <= m} = {n}
        BY <1>2, <2>2
    <2> QED BY <2>3 DEF Deepest
<1>3. at = {} => D = {}
    BY DEF Deepest
<1> QED BY <1>1, <1>2, <1>3

LEMMA Whole ==
    ASSUME NEW dir, IsSeq(dir)
    PROVE  SubSeq(dir, 1, Len(dir)) = dir
BY SeqIs

Depths(dir, dirs) == {n \in 0..Len(dir) : SubSeq(dir, 1, n) \in dirs}
Pinned(dir, key, locked) == {n \in 0..Len(dir) : Scope(SubSeq(dir, 1, n), key) \in locked}

LEMMA NearestInIs ==
    ASSUME NEW dir, IsSeq(dir), NEW dirs
    PROVE  /\ NearestIn(dir, dirs) # {} => Depths(dir, dirs) # {}
           /\ Depths(dir, dirs) # {} =>
                 \E n \in Depths(dir, dirs) :
                     /\ \A k \in Depths(dir, dirs) : k <= n
                     /\ NearestIn(dir, dirs) = {SubSeq(dir, 1, n)}
<1> DEFINE at == Depths(dir, dirs)
           D == NearestIn(dir, dirs)
<1>1. D = Deepest(dir, at)
    BY DEF Deepest, NearestIn, Nearest, Depths
<1>2. at \subseteq 0..Len(dir)
    BY DEF Depths
<1> HIDE DEF at, D
<1>3. /\ at = {} => D = {}
      /\ at # {} => \E n \in at : \A k \in at : k <= n
      /\ \A n \in at : (\A k \in at : k <= n) => D = {SubSeq(dir, 1, n)}
    BY <1>1, <1>2, DeepestIs
<1> QED BY <1>3 DEF at, D

LEMMA NearestLockIs ==
    ASSUME NEW dir, IsSeq(dir), NEW key, NEW locked
    PROVE  /\ Pinned(dir, key, locked) = {} => NearestLock(locked, Scope(dir, key)) = {}
           /\ Pinned(dir, key, locked) # {} =>
                 \E n \in Pinned(dir, key, locked) : \A k \in Pinned(dir, key, locked) : k <= n
           /\ \A n \in Pinned(dir, key, locked) :
                 (\A k \in Pinned(dir, key, locked) : k <= n) =>
                     NearestLock(locked, Scope(dir, key)) = {SubSeq(dir, 1, n)}
<1> DEFINE at == Pinned(dir, key, locked)
           D == NearestLock(locked, Scope(dir, key))
<1>1. D = Deepest(dir, at)
    BY DEF Deepest, NearestLock, Nearest, Pinned, Scope
<1>2. at \subseteq 0..Len(dir)
    BY DEF Pinned
<1> HIDE DEF at, D
<1>3. /\ at = {} => D = {}
      /\ at # {} => \E n \in at : \A k \in at : k <= n
      /\ \A n \in at : (\A k \in at : k <= n) => D = {SubSeq(dir, 1, n)}
    BY <1>1, <1>2, DeepestIs
<1> QED BY <1>3 DEF at, D

\* A directory that pins a package governs it.
LEMMA OwnLock ==
    ASSUME NEW dir, IsSeq(dir), NEW key, NEW locked, Scope(dir, key) \in locked
    PROVE  NearestLock(locked, Scope(dir, key)) = {dir}
<1>1. Len(dir) \in Nat /\ SubSeq(dir, 1, Len(dir)) = dir
    BY SeqIs, Whole
<1>2. Len(dir) \in 0..Len(dir) /\ \A k \in 0..Len(dir) : k <= Len(dir)
    BY <1>1
<1>3. Len(dir) \in Pinned(dir, key, locked) /\ \A k \in Pinned(dir, key, locked) : k <= Len(dir)
    BY <1>1, <1>2 DEF Pinned
<1>4. NearestLock(locked, Scope(dir, key)) = {SubSeq(dir, 1, Len(dir))}
    <2> DEFINE at == Pinned(dir, key, locked)
               n == Len(dir)
    <2>1. n \in at /\ \A k \in at : k <= n
        BY <1>3
    <2>2. \A m \in at : (\A k \in at : k <= m) =>
              NearestLock(locked, Scope(dir, key)) = {SubSeq(dir, 1, m)}
        BY NearestLockIs
    <2> HIDE DEF at, n
    <2>3. NearestLock(locked, Scope(dir, key)) = {SubSeq(dir, 1, n)}
        BY <2>1, <2>2
    <2> QED BY <2>3 DEF n
<1> QED BY <1>1, <1>4

LEMMA PinnedScopesAre ==
    ASSUME NEW found, NEW scope
    PROVE  scope \in PinnedScopes(found) <=>
               \E i \in DOMAIN found : ~found[i].from_range /\ ScopeOf(found[i]) = scope
BY DEF PinnedScopes, Pins

\* What is reported of a sighting stands in a directory for which the nearest
\* that pins the package is the one that pins it there, or for which none does.
LEMMA ReportedBelowItsPin ==
    ASSUME WalkGood, NEW i \in DOMAIN Found,
           NEW r \in ReportsOf(Range(Found), Chains, PinnedScopes(Found), Found[i])
    PROVE  /\ IsSighting(r) /\ r.key = Found[i].key /\ r.version = Found[i].version
           /\ r.evidence = Found[i].evidence
           /\ NearestLock(PinnedScopes(Found), Scope(AnchorDir(r), r.key)) =
                 IF Found[i].from_range THEN {} ELSE {DirOf(Found[i].evidence[1])}
<1> DEFINE s == Found[i]
           locked == PinnedScopes(Found)
           dir == DirOf(s.evidence[1])
           A == AnchorDir(r)
<1>1. IsFound(s)
    BY FoundIs DEF AreFound
<1>2. IsReport(r, s, Range(Found), Chains, locked)
    BY <1>1, ChainsIs, ReportIs
<1>3. IsSighting(r) /\ r.key = s.key /\ r.version = s.version /\ r.evidence = s.evidence
    BY <1>2 DEF IsReport
<1>4. r = s => A = dir
    BY <1>1 DEF AnchorDir, AnchorSite, IsFound, SeenOf
<1>5. IsSeq(dir)
    BY <1>1, FrontIs DEF IsFound, DirOf
<1>6. ~s.from_range => Scope(dir, s.key) \in locked
    BY PinnedScopesAre DEF ScopeOf
<1> DEFINE N == NearestLock(locked, Scope(A, s.key))
<1> SUFFICES N = IF s.from_range THEN {} ELSE {dir}
    BY <1>3
<1>7. CASE s.from_range
    <2>1. r = s /\ NearestLock(locked, ScopeOf(s)) = {}
        BY <1>2, <1>7 DEF IsReport
    <2> QED BY <1>4, <1>7, <2>1 DEF ScopeOf
<1>8. CASE ~s.from_range /\ r = s
    BY <1>4, <1>5, <1>6, <1>8, OwnLock
<1>9. ASSUME ~s.from_range, NEW t \in Range(Found), t.from_range, t.key = s.key,
             NearestLock(locked, ScopeOf(t)) = {ScopeOf(s).dir}, r.declared = t.evidence
      PROVE  N = {dir}
    <2>1. IsFound(t)
        BY FoundIs DEF AreFound, Range
    <2>2. t.evidence = <<t.evidence[1], t.evidence[2]>>
        BY <2>1 DEF IsFound, SeenOf
    <2>3. A = DirOf(t.evidence[1])
        BY <1>9, <2>2 DEF AnchorDir, AnchorSite, NoSite
    <2>4. ScopeOf(t) = Scope(A, s.key) /\ ScopeOf(s).dir = dir
        BY <1>9, <2>3 DEF ScopeOf, Scope
    <2> QED BY <1>9, <2>4
<1>10. ASSUME ~s.from_range, NEW c \in Chains, c.of = s.evidence, r.declared = c.site
       PROVE  N = {dir}
    <2>1. PICK d \in DOMAIN locks, p \in DOMAIN manifests :
              /\ c.of[1] = locks[d].path /\ c.site = <<p, c.site[2]>>
              /\ NearestIn(Front(p), DOMAIN locks) = {d}
        BY ChainsIs DEF IsChain
    <2>2. s.evidence[1] = locks[d].path /\ dir = d /\ Last(s.evidence[1]) \in LockNames
        BY <1>10, <2>1 DEF WalkGood, AreLocks
    <2>3. s.key.eco = "npm"
        BY <2>2, FoundIs
    <2>4. A = Front(p)
        BY <1>10, <2>1 DEF AnchorDir, AnchorSite, NoSite, DirOf
    <2>5. IsSeq(A)
        BY <2>1, <2>4, FrontIs DEF WalkGood, AreDeclared
    <2> HIDE DEF A, dir
    <2>6. PICK n \in Depths(A, DOMAIN locks) :
              /\ \A k \in Depths(A, DOMAIN locks) : k <= n
              /\ NearestIn(A, DOMAIN locks) = {SubSeq(A, 1, n)}
        BY <2>1, <2>4, <2>5, NearestInIs
    <2>7. SubSeq(A, 1, n) = dir
        BY <2>1, <2>2, <2>4, <2>6
    <2>8. n \in Pinned(A, s.key, locked)
        BY <1>6, <1>10, <2>6, <2>7 DEF Depths, Pinned
    <2>9. ASSUME NEW m \in Pinned(A, s.key, locked) PROVE m <= n
        <3>1. Scope(SubSeq(A, 1, m), s.key) \in locked /\ m \in 0..Len(A)
            BY DEF Pinned
        <3>2. PICK j \in DOMAIN Found :
                  ~Found[j].from_range /\ ScopeOf(Found[j]) = Scope(SubSeq(A, 1, m), s.key)
            BY <3>1, PinnedScopesAre
        <3>3. Found[j].key = s.key /\ DirOf(Found[j].evidence[1]) = SubSeq(A, 1, m)
            BY <3>2 DEF ScopeOf, Scope
        <3>4. SubSeq(A, 1, m) \in DOMAIN locks
            BY <2>3, <3>2, <3>3, FoundIs
        <3> QED BY <2>6, <3>1, <3>4 DEF Depths
    <2> QED BY <2>5, <2>7, <2>8, <2>9, NearestLockIs
<1> QED BY <1>2, <1>7, <1>8, <1>9, <1>10 DEF IsReport

-----------------------------------------------------------------------------
(* What the report promises                                                *)

\* The report is one of each kind of all that was reported.
LEMMA PackagesAre ==
    ASSUME ExtractionInv, Done
    PROVE  \E kept : /\ Reconciled(kept, AllReports(Found, Chains))
                     /\ packages = Range(kept)
BY FoundIs, ChainsIs, ReconcileIs DEF ExtractionInv, ReportGood

LEMMA ReportedIsKept ==
    ASSUME ExtractionInv, Done, NEW i \in DOMAIN Found,
           NEW r \in ReportsOf(Range(Found), Chains, PinnedScopes(Found), Found[i])
    PROVE  \E p \in packages : Kind(p) = Kind(r)
<1>1. PICK kept : Reconciled(kept, AllReports(Found, Chains)) /\ packages = Range(kept)
    BY PackagesAre
<1>2. r \in AllReports(Found, Chains)
    BY DEF AllReports, Range
<1>3. PICK k \in DOMAIN kept : Kind(kept[k]) = Kind(r)
    BY <1>1, <1>2 DEF Reconciled
<1> QED BY <1>1, <1>3 DEF Range

LEMMA KeptWasReported ==
    ASSUME ExtractionInv, Done, NEW p \in packages
    PROVE  \E i \in DOMAIN Found :
           \E r \in ReportsOf(Range(Found), Chains, PinnedScopes(Found), Found[i]) :
               /\ Kind(p) = Kind(r) /\ p.key = r.key /\ p.version = r.version
               /\ p.evidence = r.evidence
<1>1. PICK kept : Reconciled(kept, AllReports(Found, Chains)) /\ packages = Range(kept)
    BY PackagesAre
<1>2. PICK k \in DOMAIN kept : p = kept[k]
    BY <1>1 DEF Range
<1>3. PICK r \in AllReports(Found, Chains) :
          Kind(r) = Kind(kept[k]) /\ kept[k] = [r EXCEPT !.groups = kept[k].groups]
    BY <1>1, <1>2 DEF Reconciled
<1>4. PICK i \in DOMAIN Found :
          r \in ReportsOf(Range(Found), Chains, PinnedScopes(Found), Found[i])
    BY <1>3 DEF AllReports, Range
<1>5. IsSighting(r)
    BY <1>4, ReportedBelowItsPin DEF ExtractionInv
<1> DEFINE q == kept[k]
           g == q.groups
<1>6. q = [r EXCEPT !.groups = g]
    BY <1>3
<1> HIDE DEF q, g
<1>7. Kind(q) = Kind(r) /\ q.evidence = r.evidence /\ q.key = r.key /\ q.version = r.version
    BY <1>5, <1>6, Regrouped
<1> QED BY <1>2, <1>4, <1>7 DEF q

\* Whatever is reported of a pin, another of its kind is reported from the
\* directory of the pin: the nearest that pins the package is the same one.
LEMMA PinIsHeld ==
    ASSUME ExtractionInv, Done, NEW i \in DOMAIN Found, ~Found[i].from_range
    PROVE  PinHeld(Found[i])
<1> DEFINE all == Range(Found)
           locked == PinnedScopes(Found)
           s == Found[i]
<1>1. \E r : r \in ReportsOf(all, Chains, locked, s)
    BY DEF ReportsOf
<1>2. PICK r : r \in ReportsOf(all, Chains, locked, s)
    BY <1>1
<1>3. r.key = s.key /\ r.version = s.version
      /\ NearestLock(locked, Scope(AnchorDir(r), r.key)) = {DirOf(s.evidence[1])}
    BY <1>2, ReportedBelowItsPin DEF ExtractionInv
<1>4. PICK p \in packages : Kind(p) = Kind(r)
    BY <1>2, ReportedIsKept
<1>5. PICK j \in DOMAIN Found : \E q \in ReportsOf(all, Chains, locked, Found[j]) :
          /\ Kind(p) = Kind(q) /\ p.key = q.key /\ p.version = q.version
          /\ p.evidence = q.evidence
    BY <1>4, KeptWasReported
<1>6. PICK q \in ReportsOf(all, Chains, locked, Found[j]) :
          /\ Kind(p) = Kind(q) /\ p.key = q.key /\ p.version = q.version
          /\ p.evidence = q.evidence
    BY <1>5
<1>7. q.evidence = Found[j].evidence
      /\ NearestLock(locked, Scope(AnchorDir(q), q.key)) =
             IF Found[j].from_range THEN {} ELSE {DirOf(Found[j].evidence[1])}
    BY <1>6, ReportedBelowItsPin DEF ExtractionInv
<1>8. AnchorDir(q) = AnchorDir(r) /\ q.key = r.key /\ q.version = r.version
    BY <1>4, <1>6 DEF Kind
<1>9. DirOf(Found[j].evidence[1]) = DirOf(s.evidence[1])
    BY <1>3, <1>7, <1>8
<1> QED BY <1>3, <1>6, <1>7, <1>8, <1>9 DEF PinHeld

\* What a manifest declares is reported at what governs it, or as it is.
LEMMA DeclarationIsHeld ==
    ASSUME ExtractionInv, Done, NEW i \in DOMAIN Found, Found[i].from_range
    PROVE  DeclarationHeld(Found, PinnedScopes(Found), Found[i])
<1> DEFINE all == Range(Found)
           locked == PinnedScopes(Found)
           s == Found[i]
           dir == DirOf(s.evidence[1])
           Above(n) == Scope(SubSeq(dir, 1, n), s.key)
           pinned == Pinned(dir, s.key, locked)
<1>1. IsFound(s) /\ IsSeq(dir) /\ s \in all
    BY FoundIs, FrontIs DEF ExtractionInv, AreFound, IsFound, DirOf, Range
<1>2. ScopeOf(s) = Scope(dir, s.key) /\ AnchorDir(s) = dir
    BY <1>1 DEF ScopeOf, AnchorDir, AnchorSite, IsFound, SeenOf
<1>3. CASE pinned = {}
    <2>1. NearestLock(locked, Scope(dir, s.key)) = {}
        <3> HIDE DEF locked, dir
        <3> QED BY <1>1, <1>3, NearestLockIs
    <2>2. s \in ReportsOf(all, Chains, locked, s)
        BY <1>2, <2>1 DEF ReportsOf
    <2>3. PICK p \in packages : Kind(p) = Kind(s)
        BY <2>2, ReportedIsKept
    <2>4. Holds(dir, s.key, s.version)
        BY <1>2, <2>3 DEF Holds, Kind
    <2> QED BY <1>3, <2>4 DEF DeclarationHeld, Pinned
<1>4. CASE pinned # {}
    <2>1. PICK n \in pinned : \A k \in pinned : k <= n
        <3> HIDE DEF locked, dir
        <3> QED BY <1>1, <1>4, NearestLockIs
    <2>2. NearestLock(locked, Scope(dir, s.key)) = {SubSeq(dir, 1, n)}
        <3> HIDE DEF locked, dir
        <3> QED BY <1>1, <2>1, NearestLockIs
    <2>3. ASSUME NEW p \in Pins(Found), ScopeOf(p) = Above(n)
          PROVE  Holds(dir, s.key, p.version)
        <3>1. PICK j \in DOMAIN Found : p = Found[j] /\ ~Found[j].from_range
            BY DEF Pins
        <3>2. ScopeOf(p).dir = SubSeq(dir, 1, n) /\ ScopeOf(p).key = s.key /\ p.key = s.key
            BY <2>3 DEF ScopeOf, Scope
        <3>3. s.evidence \in SitesIn(all, locked, ScopeOf(p))
            BY <1>1, <1>2, <2>2, <3>2 DEF SitesIn
        <3> DEFINE r == AtSite(p, s.evidence)
        <3>4. r \in ReportsOf(all, Chains, locked, Found[j])
            BY <3>1, <3>3 DEF ReportsOf
        <3>5. IsSighting(p)
            BY <3>1, FoundIs DEF ExtractionInv, AreFound, IsFound, SeenOf
        <3>6. r.declared = s.evidence /\ r.key = p.key /\ r.version = p.version
            BY <3>5, SiteIs
        <3>7. s.evidence = <<s.evidence[1], s.evidence[2]>>
            BY <1>1 DEF IsFound, SeenOf
        <3> HIDE DEF r
        <3>8. AnchorDir(r) = dir
            BY <3>6, <3>7 DEF AnchorDir, AnchorSite, NoSite
        <3>9. PICK q \in packages : Kind(q) = Kind(r)
            BY <3>4, ReportedIsKept
        <3> QED BY <3>2, <3>6, <3>8, <3>9 DEF Holds, Kind
    <2> QED BY <2>1, <2>3 DEF DeclarationHeld, Pinned
<1> QED BY <1>3, <1>4

LEMMA ReportHidesNothing == ExtractionInv => NothingHidden
<1> SUFFICES ASSUME ExtractionInv, Done, NEW s \in ToSet(Found)
             PROVE  IF s.from_range THEN DeclarationHeld(Found, PinnedScopes(Found), s)
                                    ELSE PinHeld(s)
    BY DEF NothingHidden
<1>1. PICK i \in DOMAIN Found : s = Found[i]
    BY DEF ToSet
<1> QED BY <1>1, DeclarationIsHeld, PinIsHeld

LEMMA ReportShips == ExtractionInv => ShippingStaysShipping
<1> SUFFICES ASSUME ExtractionInv, Done PROVE ShippingStaysShipping
    BY DEF ShippingStaysShipping
<1> DEFINE locked == PinnedScopes(Found)
           Reported(s) == ToSet(ReportedAt(Found, Chains, locked, s))
           reports == UNION {Reported(s) : s \in ToSet(Found)}
           all == AllReports(Found, Chains)
<1>1. IsSeq(Found) /\ IsFiniteSet(Chains)
    BY FoundIs, ChainsIs DEF ExtractionInv, AreFound, AreChains
<1>2. ASSUME NEW s PROVE Reported(s) = ReportsOf(Range(Found), Chains, locked, s)
    <2>1. Range(ReportedAt(Found, Chains, locked, s)) = ReportsOf(Range(Found), Chains, locked, s)
        <3> HIDE DEF locked
        <3> QED BY <1>1, ReportedAtIs
    <2> QED BY <2>1 DEF ToSet, Range
<1>3. ToSet(Found) = Range(Found)
    BY DEF ToSet, Range
<1>4. reports = all
    <2>1. all = UNION {ReportsOf(Range(Found), Chains, locked, s) : s \in Range(Found)}
        BY DEF AllReports
    <2> HIDE DEF all, locked
    <2> QED BY <1>2, <1>3, <2>1
<1>5. ASSUME NEW p \in packages
      PROVE  p.groups = {} <=> \E r \in all : Kind(r) = Kind(p) /\ r.groups = {}
    <2>1. PICK kept : Reconciled(kept, all) /\ packages = Range(kept)
        BY PackagesAre
    <2>2. PICK k \in DOMAIN kept : p = kept[k]
        BY <2>1 DEF Range
    <2> HIDE DEF all
    <2>3. p.groups = GroupsOf(Fellows(all, p)) /\ \E r \in all : Kind(r) = Kind(p)
        BY <2>1, <2>2 DEF Reconciled
    <2>4. CASE \E r \in Fellows(all, p) : r.groups = {}
        BY <2>3, <2>4 DEF GroupsOf, Fellows
    <2>5. CASE \A r \in Fellows(all, p) : r.groups # {}
        <3>1. p.groups = UNION {r.groups : r \in Fellows(all, p)}
            BY <2>3, <2>5 DEF GroupsOf
        <3>2. PICK r \in Fellows(all, p) : TRUE
            BY <2>3 DEF Fellows
        <3>3. r.groups # {} /\ r.groups \subseteq p.groups
            BY <2>5, <3>1
        <3> QED BY <2>5, <3>3 DEF Fellows
    <2> QED BY <2>4, <2>5
<1> HIDE DEF reports, all
<1>6. \A p \in packages : p.groups = {} <=> \E r \in reports : Kind(r) = Kind(p) /\ r.groups = {}
    BY <1>4, <1>5
<1> QED BY <1>6 DEF ShippingStaysShipping, reports

\* In whatever order things were found, the report says the same.
LEMMA ReportIsOfASet ==
    ASSUME ExtractionInv, Done
    PROVE  View(packages) = View(Reconcile(Listed(ToSet(Found)), Chains))
<1> DEFINE other == Listed(ToSet(Found))
<1>1. AreFound(Found) /\ AreChains(Chains) /\ packages = Reconcile(Found, Chains)
    BY FoundIs, ChainsIs DEF ExtractionInv, ReportGood
<1>2. ToSet(Found) = Range(Found)
    BY DEF ToSet, Range
<1>3. IsFiniteSet(Range(Found))
    <2>1. Found = [i \in DOMAIN Found |-> Found[i]] /\ IsFiniteSet(DOMAIN Found)
        <3>1. DOMAIN Found = 1..Len(Found) /\ Len(Found) \in Nat
              /\ Found = [i \in 1..Len(Found) |-> Found[i]]
            BY <1>1, SeqIs DEF AreFound
        <3>2. IsFiniteSet(1..Len(Found))
            <4>1. 1 \in Int /\ Len(Found) \in Int
                BY <3>1
            <4> QED BY <4>1, FS_Interval
        <3> QED BY <3>1, <3>2
    <2> QED BY <2>1, FiniteRange DEF Range
<1>4. IsSeq(other) /\ Range(other) = Range(Found)
    BY <1>2, <1>3, ListedIs
<1>5. AreFound(other)
    <2> HIDE DEF other
    <2> QED BY <1>1, <1>4 DEF AreFound, Range
<1> HIDE DEF other
<1>6. View(Reconcile(Found, Chains)) = View(Reconcile(other, Chains))
    BY <1>1, <1>4, <1>5, OrderDecidesNothing
<1> QED BY <1>1, <1>6 DEF other

\* Every shrinkwrap the walk has come to holds its directory.
IsShrinkwrap(path) ==
    Last(path) = "npm-shrinkwrap.json" /\ Walkable(path) /\ Parsed(path)
ShrinkwrapsHold ==
    \A path \in DOMAIN files \ todo :
        IsShrinkwrap(path) => DirOf(path) \in DOMAIN locks /\ locks[DirOf(path)].path = path

LEMMA FrontOf ==
    ASSUME NEW p, IsSeq(p), p # <<>>
    PROVE  /\ Len(p) \in Nat \ {0} /\ Len(Front(p)) = Len(p) - 1
           /\ \A i \in 1..Len(p) - 1 : Front(p)[i] = p[i]
<1> DEFINE V == Range(p)
<1>1. p \in Seq(V)
    BY DEF IsSeq
<1> HIDE DEF V
<1>2. Len(p) \in Nat \ {0}
    BY <1>1
<1>3. DOMAIN SubSeq(p, 1, Len(p) - 1) = 1..Len(p) - 1
      /\ \A i \in 1..Len(p) - 1 : SubSeq(p, 1, Len(p) - 1)[i] = p[i]
    BY <1>1, <1>2
<1>4. Len(SubSeq(p, 1, Len(p) - 1)) = Len(p) - 1
    <2>1. SubSeq(p, 1, Len(p) - 1) \in Seq(V) /\ Len(p) - 1 \in Nat
        BY <1>1, <1>2
    <2> DEFINE t == SubSeq(p, 1, Len(p) - 1)
    <2>2. DOMAIN t = 1..Len(p) - 1 /\ IsSeq(t)
        BY <1>3, <2>1, InSeq
    <2> HIDE DEF t
    <2>3. Len(t) \in Nat /\ DOMAIN t = 1..Len(t)
        BY <2>2, SeqIs
    <2>4. 1..Len(t) = 1..Len(p) - 1 /\ Len(p) - 1 \in Nat
        BY <2>1, <2>2, <2>3
    <2>5. Len(t) = Len(p) - 1
        BY <2>3, <2>4
    <2> QED BY <2>5 DEF t
<1> QED BY <1>2, <1>3, <1>4 DEF Front

LEMMA PathIs ==
    ASSUME NEW p, IsSeq(p), p # <<>>, NEW q, IsSeq(q), q # <<>>,
           Front(p) = Front(q), Last(p) = Last(q)
    PROVE  p = q
<1>1. /\ Len(p) \in Nat /\ Len(q) \in Nat
      /\ p = [i \in 1..Len(p) |-> p[i]] /\ q = [i \in 1..Len(q) |-> q[i]]
    BY SeqIs
<1>2. Len(Front(p)) = Len(p) - 1 /\ \A i \in 1..Len(p) - 1 : Front(p)[i] = p[i]
    BY FrontOf
<1>3. Len(Front(q)) = Len(q) - 1 /\ \A i \in 1..Len(q) - 1 : Front(q)[i] = q[i]
    BY FrontOf
<1>4. Len(p) - 1 = Len(q) - 1
    BY <1>2, <1>3
<1>5. Len(p) = Len(q)
    <2> DEFINE m == Len(p)
               n == Len(q)
    <2>1. m \in Nat /\ n \in Nat /\ m - 1 = n - 1
        BY <1>1, <1>4
    <2> HIDE DEF m, n
    <2>2. m = n
        BY <2>1
    <2> QED BY <2>2 DEF m, n
<1>6. ASSUME NEW i \in 1..Len(p) PROVE p[i] = q[i]
    <2>1. CASE i = Len(p)
        BY <1>5, <2>1 DEF Last
    <2>2. CASE i # Len(p)
        <3>1. i \in 1..Len(p) - 1
            BY <1>1, <2>2
        <3> QED BY <1>2, <1>3, <1>5, <3>1
    <2> QED BY <2>1, <2>2
<1> QED BY <1>1, <1>5, <1>6

LEMMA ShrinkwrapsHoldStep ==
    ASSUME ExtractionInv, ShrinkwrapsHold, [Extracts]_extractionVars
    PROVE  ShrinkwrapsHold'
<1>1. project' = project /\ files' = files
    BY DEF Extracts, PassesOver, HoldsLock, ReadsManifest, Enters, WalkEnds, FollowsInclude,
           Reconciles, extractionVars
<1>2. ASSUME \A path \in DOMAIN files \ todo' : IsShrinkwrap(path) =>
                 DirOf(path) \in DOMAIN locks' /\ locks'[DirOf(path)].path = path
      PROVE  ShrinkwrapsHold'
    BY <1>1, <1>2 DEF ShrinkwrapsHold, IsShrinkwrap, Walkable, Project, Parsed, Read
<1>3. ASSUME todo' = todo, locks' = locks PROVE ShrinkwrapsHold'
    BY <1>2, <1>3 DEF ShrinkwrapsHold
<1>4. ASSUME NEW path \in todo, Enters(path), locks' = locks, ~IsShrinkwrap(path)
      PROVE  ShrinkwrapsHold'
    <2>1. todo' = todo \ {path}
        BY <1>4 DEF Enters
    <2> QED BY <1>2, <1>4, <2>1 DEF ShrinkwrapsHold
<1>5. ASSUME NEW path \in todo, HoldsLock(path) PROVE ShrinkwrapsHold'
    <2> DEFINE dir == DirOf(path)
               held == [path |-> path, tree |-> Tree(files[path])]
               new == With(locks, dir, held)
    <2>1. todo' = todo \ {path}
        BY <1>5 DEF HoldsLock, Enters
    <2>2. CASE Last(path) # "npm-shrinkwrap.json" /\ dir \in DOMAIN locks
        BY <1>4, <1>5, <2>2 DEF HoldsLock, IsShrinkwrap
    <2>3. CASE Last(path) = "npm-shrinkwrap.json" \/ dir \notin DOMAIN locks
        <3>1. locks' = new
            BY <1>5, <2>3 DEF HoldsLock
        <3>2. /\ DOMAIN new = DOMAIN locks \cup {dir} /\ new[dir].path = path
              /\ \A d \in DOMAIN locks \ {dir} : new[d] = locks[d]
            BY DEF With
        <3> HIDE DEF new
        <3>3. ASSUME NEW q \in DOMAIN files \ (todo \ {path}), IsShrinkwrap(q)
              PROVE  DirOf(q) \in DOMAIN new /\ new[DirOf(q)].path = q
            <4>1. CASE q = path
                BY <3>2, <4>1
            <4>2. CASE q # path
                <5>1. DirOf(q) \in DOMAIN locks /\ locks[DirOf(q)].path = q
                    BY <3>3, <4>2 DEF ShrinkwrapsHold
                <5>2. DirOf(q) # dir
                    <6> SUFFICES ASSUME DirOf(q) = dir PROVE FALSE
                        OBVIOUS
                    <6>1. Last(path) = "npm-shrinkwrap.json"
                        BY <2>3, <5>1
                    <6>2. IsSeq(q) /\ q # <<>> /\ IsSeq(path) /\ path # <<>>
                        BY WalkedIsRead DEF ExtractionInv, WalkGood
                    <6> QED BY <3>3, <4>2, <6>1, <6>2, PathIs DEF IsShrinkwrap, DirOf
                <5> QED BY <3>2, <5>1, <5>2
            <4> QED BY <4>1, <4>2
        <3> QED BY <1>2, <2>1, <3>1, <3>3
    <2> QED BY <2>2, <2>3
<1>6. ASSUME NEW path \in todo, PassesOver(path) PROVE ShrinkwrapsHold'
    BY <1>4, <1>6 DEF PassesOver, IsShrinkwrap
<1>7. ASSUME NEW path \in todo, ReadsManifest(path) PROVE ShrinkwrapsHold'
    BY <1>4, <1>7 DEF ReadsManifest, IsShrinkwrap, LockNames
<1>8. CASE WalkEnds \/ FollowsInclude \/ Reconciles \/ UNCHANGED extractionVars
    BY <1>3, <1>8 DEF WalkEnds, FollowsInclude, Reconciles, walkVars, extractionVars
<1> QED BY <1>5, <1>6, <1>7, <1>8 DEF Extracts

LEMMA ShrinkwrapsHoldInit == ExtractionInit => ShrinkwrapsHold
BY DEF ExtractionInit, ShrinkwrapsHold, IsShrinkwrap

LEMMA ReportIsOrderFree == ExtractionInv /\ ShrinkwrapsHold => OrderFree
<1> SUFFICES ASSUME ExtractionInv, ShrinkwrapsHold, Done, todo = {} PROVE OrderFree
    BY DEF OrderFree
<1>1. \A path \in DOMAIN files : IsShrinkwrap(path) => locks[DirOf(path)].path = path
    BY DEF ShrinkwrapsHold
<1> QED BY <1>1, ReportIsOfASet DEF OrderFree, IsShrinkwrap

-----------------------------------------------------------------------------
(* The theorems.  Documents is over the same actions, with the files written *)
(* while they run: DocumentsProofs has them again, for that.                 *)

\* Whatever is in a workspace, all that a pass over it keeps is well formed, and
\* what it returns is what reconcile() makes of it.
THEOREM WalkIsWellFormed == ExtractionSpec => []ExtractionInv
<1>1. ExtractionInit => ExtractionInv
    BY ExtractionInvInit
<1>2. ExtractionInv /\ [Extracts]_extractionVars => ExtractionInv'
    BY ExtractionInvStep
<1> QED BY <1>1, <1>2, PTL DEF ExtractionSpec

\* Of all that a pass over a workspace saw, a pin is reported from its directory
\* and a declaration in its own, at what the nearest lockfile pins: reconcile()
\* loses nothing between two files that speak of one package.
THEOREM ReconcileHidesNothing == ExtractionSpec => []NothingHidden
<1>1. ExtractionSpec => []ExtractionInv
    BY WalkIsWellFormed
<1>2. ExtractionInv => NothingHidden
    BY ReportHidesNothing
<1> QED BY <1>1, <1>2, PTL

\* merged_groups(): what is reported is in no group exactly if a sighting that
\* reports it there is in none, however many there are and in whatever order.
THEOREM ShippingIsReported == ExtractionSpec => []ShippingStaysShipping
<1>1. ExtractionSpec => []ExtractionInv
    BY WalkIsWellFormed
<1>2. ExtractionInv => ShippingStaysShipping
    BY ReportShips
<1> QED BY <1>1, <1>2, PTL

\* The order of the walk decides nothing: a report is a function of the set of
\* what was found, and the shrinkwrap of a directory is its lockfile.
THEOREM WalkOrderDecidesNothing == ExtractionSpec => []OrderFree
<1>1. ExtractionInit => ExtractionInv /\ ShrinkwrapsHold
    BY ExtractionInvInit, ShrinkwrapsHoldInit
<1>2. ExtractionInv /\ ShrinkwrapsHold /\ [Extracts]_extractionVars
          => ExtractionInv' /\ ShrinkwrapsHold'
    BY ExtractionInvStep, ShrinkwrapsHoldStep
<1>3. ExtractionInv /\ ShrinkwrapsHold => OrderFree
    BY ReportIsOrderFree
<1> QED BY <1>1, <1>2, <1>3, PTL DEF ExtractionSpec
=============================================================================
